--------------------------- MODULE ServiceProofs ---------------------------
(***************************************************************************)
(* Proofs about the protocol of Wire and Rpc and its calls in              *)
(* ConfigService, for any schema and any values.                           *)
(***************************************************************************)
EXTENDS ConfigService, LocationsProofs, FiniteSetTheorems, WellFoundedInduction

-----------------------------------------------------------------------------
(* What a reader answers.                                                  *)

\* A set of naturals has a least member.
LEMMA MinIsMember ==
  ASSUME NEW S, S \subseteq Nat, S # {}
  PROVE  Min(S) \in S
<1> DEFINE R == OpToRel(<, Nat)
<1>1. \A m, n \in Nat : m < n => <<m, n>> \in R
  BY DEF OpToRel
<1>2. IsWellFoundedOn(R, Nat)
  BY NatLessThanWellFounded
<1> HIDE DEF R
<1>3. PICK x \in S : \A y \in S : <<y, x>> \notin R
  BY <1>2, WFMin
<1>4. ASSUME NEW y \in S
      PROVE  x <= y
  <2>1. x \in Nat /\ y \in Nat
    OBVIOUS
  <2>2. ~ (y < x)
    BY <1>1, <1>3, <2>1
  <2> QED
    BY <2>1, <2>2
<1> QED
  BY <1>4 DEF Min

\* A value is not a refusal.
LEMMA TookAccepted ==
  /\ \A v : Accepted(Took(v)) /\ Took(v).took = v
  /\ \A w : ~Accepted(Refused(w)) /\ Refused(w).refused = w
  /\ \A v, w : Took(v) = Took(w) => v = w
<1>1. \A v : Accepted(Took(v)) /\ Took(v).took = v
  BY DEF Accepted, Took
<1>2. \A w : ~Accepted(Refused(w)) /\ Refused(w).refused = w
  BY DEF Accepted, Refused
<1>3. \A v, w : Took(v) = Took(w) => v = w
  BY <1>1
<1> QED
  BY <1>1, <1>2, <1>3

\* What a reader answers: the value that it took, or one of the words.
Decided(r) == r = Took(r.took) \/ \E w \in RefusalWords : r = Refused(w)

\* Fields are found at natural numbers.
Plain(d) == IsA("fields", d) => DOMAIN d.fields \subseteq Nat

\* The walk over the fields decides, if each field's reader does.
LEMMA RecordDecides ==
  ASSUME NEW d, NEW known, NEW optional, NEW reading, Plain(d),
         IsA("fields", d) => \A i \in DOMAIN d.fields :
           /\ d.fields[i].name \in known
           /\ ~\E j \in 1 .. i - 1 : d.fields[j].name = d.fields[i].name
           => Decided(reading[i])
  PROVE  Decided(DecodeRecord(d, known, optional, reading))
<1>1. CASE ~IsA("fields", d)
  BY <1>1 DEF DecodeRecord, WrongType, Decided, RefusalWords
<1>2. CASE IsA("fields", d)
  <2> DEFINE wrong == {i \in DOMAIN d.fields : ~Accepted(FieldReading(d, i, known, reading))}
  <2>1. CASE wrong # {}
    <3>1. Min(wrong) \in DOMAIN d.fields
      BY <1>2, <2>1, MinIsMember DEF Plain
    <3>2. DecodeRecord(d, known, optional, reading) = FieldReading(d, Min(wrong), known, reading)
      BY <1>2, <2>1 DEF DecodeRecord
    <3> DEFINE i == Min(wrong)
    <3>3. ASSUME d.fields[i].name \in known,
                 ~\E j \in 1 .. i - 1 : d.fields[j].name = d.fields[i].name
          PROVE  Decided(reading[i])
      BY <1>2, <3>1, <3>3
    <3> HIDE DEF wrong, i
    <3> QED
      BY <3>2, <3>3 DEF i, FieldReading, Decided, RefusalWords
  <2>2. CASE wrong = {}
    BY <1>2, <2>2, TookAccepted DEF DecodeRecord, Decided, RefusalWords
  <2> QED
    BY <2>1, <2>2
<1> QED
  BY <1>1, <1>2

\* What a record that is taken is like: every field is known, comes once and
\* is taken itself, and none is missing that is not optional.
LEMMA RecordTaken ==
  ASSUME NEW d, NEW known, NEW optional, NEW reading, Plain(d),
         Accepted(DecodeRecord(d, known, optional, reading))
  PROVE  LET of(k) == CHOOSE i \in DOMAIN d.fields : d.fields[i].name = k
         IN  /\ IsA("fields", d)
             /\ \A i \in DOMAIN d.fields :
                  /\ d.fields[i].name \in known
                  /\ ~\E j \in 1 .. i - 1 : d.fields[j].name = d.fields[i].name
                  /\ Accepted(reading[i])
             /\ known \ optional \subseteq Names(d)
             /\ DecodeRecord(d, known, optional, reading) =
                  Took([k \in known |-> IF k \in Names(d) THEN reading[of(k)].took ELSE Nil])
<1> DEFINE of(k)  == CHOOSE i \in DOMAIN d.fields : d.fields[i].name = k
           wrong == {i \in DOMAIN d.fields : ~Accepted(FieldReading(d, i, known, reading))}
<1>1. IsA("fields", d)
  BY TookAccepted DEF DecodeRecord, WrongType
<1>2. wrong = {}
  <2> SUFFICES ASSUME wrong # {} PROVE FALSE
    OBVIOUS
  <2>1. Min(wrong) \in wrong
    BY <1>1, MinIsMember DEF Plain
  <2>2. DecodeRecord(d, known, optional, reading) = FieldReading(d, Min(wrong), known, reading)
    BY <1>1 DEF DecodeRecord
  <2> QED
    BY <2>1, <2>2
<1>3. known \ optional \subseteq Names(d)
  BY <1>1, <1>2, TookAccepted DEF DecodeRecord
<1>4. DecodeRecord(d, known, optional, reading) =
        Took([k \in known |-> IF k \in Names(d) THEN reading[of(k)].took ELSE Nil])
  BY <1>1, <1>2, <1>3 DEF DecodeRecord
<1>5. ASSUME NEW i \in DOMAIN d.fields
      PROVE  /\ d.fields[i].name \in known
             /\ ~\E j \in 1 .. i - 1 : d.fields[j].name = d.fields[i].name
             /\ Accepted(reading[i])
  <2>1. Accepted(FieldReading(d, i, known, reading))
    BY <1>2
  <2> QED
    BY <2>1, TookAccepted DEF FieldReading
<1> QED
  BY <1>1, <1>3, <1>4, <1>5

\* What a record is taken for, when its readers take each field for that of
\* vals: for vals, but for optional fields that are not there.
LEMMA TakenFor ==
  ASSUME NEW d, NEW known, NEW optional, NEW reading, NEW vals, Plain(d),
         Accepted(DecodeRecord(d, known, optional, reading)),
         \A i \in DOMAIN d.fields :
           /\ d.fields[i].name \in known
           /\ ~\E j \in 1 .. i - 1 : d.fields[j].name = d.fields[i].name
           /\ Accepted(reading[i])
           => reading[i] = Took(vals[d.fields[i].name])
  PROVE  DecodeRecord(d, known, optional, reading) =
           Took([k \in known |-> IF k \in optional \ Names(d) THEN Nil ELSE vals[k]])
<1> DEFINE of(k)  == CHOOSE i \in DOMAIN d.fields : d.fields[i].name = k
           got    == [k \in known |-> IF k \in Names(d) THEN reading[of(k)].took ELSE Nil]
           want   == [k \in known |-> IF k \in optional \ Names(d) THEN Nil ELSE vals[k]]
<1>1. /\ IsA("fields", d)
      /\ \A i \in DOMAIN d.fields :
           /\ d.fields[i].name \in known
           /\ ~\E j \in 1 .. i - 1 : d.fields[j].name = d.fields[i].name
           /\ Accepted(reading[i])
      /\ known \ optional \subseteq Names(d)
      /\ DecodeRecord(d, known, optional, reading) = Took(got)
  BY RecordTaken
<1>2. ASSUME NEW k \in known
      PROVE  got[k] = want[k]
  <2>1. CASE k \in Names(d)
    <3>1. of(k) \in DOMAIN d.fields /\ d.fields[of(k)].name = k
      BY <1>1, <2>1 DEF Names, Fields
    <3>2. reading[of(k)] = Took(vals[k])
      BY <1>1, <3>1
    <3> HIDE DEF of
    <3> QED
      BY <2>1, <3>2, TookAccepted
  <2>2. CASE k \notin Names(d)
    BY <1>1, <2>2
  <2> QED
    BY <2>1, <2>2
<1>3. got = want
  BY <1>2
<1> QED
  BY <1>1, <1>3

-----------------------------------------------------------------------------
(* What a frame may arrive as, field by field.                             *)

\* order lists the names, each once.
Lists(order, names) ==
  /\ order \in Seq(names)
  /\ \A i, j \in DOMAIN order : order[i] = order[j] => i = j
  /\ \A k \in names : \E i \in DOMAIN order : order[i] = k

\* A document as it was written, or altered in one place at any depth.
Variants(d) ==
  {d} \cup Altered1(d) \cup Altered2(d) \cup Altered3(d) \cup Altered4(d) \cup Altered5(d)

\* What stands in the place of a value that has been spoiled.
Spoiled == {Flawed("malformed"), OddNumber(1)}

\* A record has the fields it was made of.
LEMMA ObjectHasFields ==
  ASSUME NEW fs
  PROVE  IsA("fields", Object(fs)) /\ Object(fs).fields = fs /\ Fields(Object(fs)) = fs
BY DEF Object, IsA, Fields

\* Nothing can be altered in a value that is no record.
LEMMA LeafVariants ==
  ASSUME NEW d, ~IsA("fields", d)
  PROVE  Variants(d) = {d}
BY DEF Variants, Altered1, Altered2, Altered3, Altered4, Altered5, Alterations

\* The kinds of value that are no records.
LEMMA Leaves ==
  /\ \A x : ~IsA("fields", Text(x)) /\ ~IsA("fields", TextMap(x)) /\ ~IsA("fields", Number(x))
  /\ \A x : ~IsA("fields", Flag(x)) /\ ~IsA("fields", Flawed(x)) /\ ~IsA("fields", OddNumber(x))
BY DEF IsA, Text, TextMap, Number, Flag, Flawed, OddNumber

\* The fields of a sequence without one of its members.
LEMMA Removed ==
  ASSUME NEW S, NEW fs \in Seq(S), NEW m \in DOMAIN fs
  PROVE  /\ RemoveAt(fs, m) \in Seq(S)
         /\ \A i \in DOMAIN RemoveAt(fs, m) : \E j \in DOMAIN fs : RemoveAt(fs, m)[i] = fs[j]
<1> DEFINE a == SubSeq(fs, 1, m - 1)
           b == SubSeq(fs, m + 1, Len(fs))
<1>1. m \in 1 .. Len(fs) /\ Len(fs) \in Nat
  OBVIOUS
<1>2. a \in Seq(S) /\ Len(a) = m - 1 /\ \A i \in 1 .. m - 1 : a[i] = fs[i]
  BY <1>1
<1>3. b \in Seq(S) /\ Len(b) = Len(fs) - m /\ \A i \in 1 .. Len(fs) - m : b[i] = fs[m + i]
  BY <1>1
<1> HIDE DEF a, b
<1>4. a \o b \in Seq(S) /\ Len(a \o b) = Len(fs) - 1
  BY <1>1, <1>2, <1>3
<1>5. ASSUME NEW i \in 1 .. Len(fs) - 1
      PROVE  (a \o b)[i] = IF i < m THEN a[i] ELSE b[i - (m - 1)]
  <2>1. (a \o b)[i] = IF i <= Len(a) THEN a[i] ELSE b[i - Len(a)]
    BY <1>1, <1>2, <1>3
  <2>2. i <= m - 1 <=> i < m
    BY <1>1
  <2> QED
    BY <1>2, <2>1, <2>2
<1>6. ASSUME NEW i \in 1 .. Len(fs) - 1
      PROVE  \E j \in DOMAIN fs : (a \o b)[i] = fs[j]
  <2>1. CASE i < m
    BY <1>1, <1>2, <1>5, <2>1
  <2>2. CASE ~(i < m)
    <3>1. i - (m - 1) \in 1 .. Len(fs) - m /\ m + (i - (m - 1)) = i + 1 /\ i + 1 \in DOMAIN fs
      BY <1>1, <2>2
    <3> QED
      BY <1>3, <1>5, <2>2, <3>1
  <2> QED
    BY <2>1, <2>2
<1>7. RemoveAt(fs, m) = a \o b
  BY DEF RemoveAt, a, b
<1>8. DOMAIN (a \o b) = 1 .. Len(fs) - 1
  BY <1>1, <1>4
<1> QED
  BY <1>4, <1>6, <1>7, <1>8

\* The fields of an altered record: one that is not invented and comes first
\* under its name is a field of the record, with its value, with what that may
\* have become, or spoiled.
LEMMA AlteredFields ==
  ASSUME NEW S, NEW fs \in Seq([name : S, doc : S]), NEW d, d.fields = fs, NEW inner,
         NEW e \in Alterations(d, inner)
  PROVE  /\ IsA("fields", e) /\ DOMAIN e.fields \subseteq Nat
         /\ \A i \in DOMAIN e.fields :
              \/ e.fields[i].name = "invented"
              \/ \E j \in 1 .. i - 1 : e.fields[j].name = e.fields[i].name
              \/ \E m \in DOMAIN fs :
                   /\ e.fields[i].name = fs[m].name
                   /\ e.fields[i].doc \in {fs[m].doc} \cup Spoiled \cup inner[m]
<1> DEFINE Good(gs) ==
      /\ DOMAIN gs \subseteq Nat
      /\ \A i \in DOMAIN gs :
           \/ gs[i].name = "invented"
           \/ \E j \in 1 .. i - 1 : gs[j].name = gs[i].name
           \/ \E m \in DOMAIN fs :
                gs[i].name = fs[m].name /\ gs[i].doc \in {fs[m].doc} \cup Spoiled \cup inner[m]
<1>1. ASSUME NEW gs, e = Object(gs), Good(gs)
      PROVE  /\ IsA("fields", e) /\ Good(e.fields)
  BY <1>1, ObjectHasFields
<1>2. DOMAIN fs = 1 .. Len(fs) /\ Len(fs) \in Nat
  OBVIOUS
<1>3. ASSUME e = Object(Reverse(fs))
      PROVE  IsA("fields", e) /\ Good(e.fields)
  <2>1. DOMAIN Reverse(fs) = 1 .. Len(fs)
    BY DEF Reverse
  <2>2. \A i \in 1 .. Len(fs) : Len(fs) - i + 1 \in DOMAIN fs /\ Reverse(fs)[i] = fs[Len(fs) - i + 1]
    BY <1>2 DEF Reverse
  <2>3. Good(Reverse(fs))
    BY <1>2, <2>1, <2>2
  <2> QED
    BY <1>1, <1>3, <2>3
<1>4. ASSUME e = Object(Append(fs, [name |-> "invented", doc |-> Flag(TRUE)]))
      PROVE  IsA("fields", e) /\ Good(e.fields)
  <2> DEFINE f == [name |-> "invented", doc |-> Flag(TRUE)]
             gs == Append(fs, f)
  <2>1. DOMAIN gs = 1 .. Len(fs) + 1 /\ gs[Len(fs) + 1] = f /\ \A i \in 1 .. Len(fs) : gs[i] = fs[i]
    BY <1>2
  <2>2. f.name = "invented"
    OBVIOUS
  <2> HIDE DEF f, gs
  <2>3. Good(gs)
    BY <1>2, <2>1, <2>2
  <2> QED
    BY <1>1, <1>4, <2>3 DEF f, gs
<1>5. ASSUME NEW m \in DOMAIN fs, e = Object(RemoveAt(fs, m))
      PROVE  IsA("fields", e) /\ Good(e.fields)
  <2>1. /\ DOMAIN RemoveAt(fs, m) \subseteq Nat
        /\ \A i \in DOMAIN RemoveAt(fs, m) : \E j \in DOMAIN fs : RemoveAt(fs, m)[i] = fs[j]
    BY Removed
  <2>2. Good(RemoveAt(fs, m))
    BY <2>1
  <2> QED
    BY <1>1, <1>5, <2>2
<1>6. ASSUME NEW m \in DOMAIN fs, NEW g, e = Object(Append(fs, [name |-> fs[m].name, doc |-> g]))
      PROVE  IsA("fields", e) /\ Good(e.fields)
  <2> DEFINE f == [name |-> fs[m].name, doc |-> g]
             gs == Append(fs, f)
  <2>1. DOMAIN gs = 1 .. Len(fs) + 1 /\ gs[Len(fs) + 1] = f /\ \A i \in 1 .. Len(fs) : gs[i] = fs[i]
    BY <1>2
  <2>2. f.name = fs[m].name
    OBVIOUS
  <2>3. m \in 1 .. Len(fs) /\ m \in 1 .. Len(fs) + 1 - 1
    BY <1>2
  <2>a. gs[m].name = gs[Len(fs) + 1].name
    BY <2>1, <2>2, <2>3
  <2> HIDE DEF f, gs
  <2>4. Good(gs)
    <3>1. \A i \in 1 .. Len(fs) : gs[i] = fs[i] /\ i \in DOMAIN fs
      BY <1>2, <2>1
    <3>2. \E j \in 1 .. Len(fs) + 1 - 1 : gs[j].name = gs[Len(fs) + 1].name
      BY <2>a, <2>3
    <3>3. DOMAIN gs \subseteq Nat /\ \A i \in DOMAIN gs : i \in 1 .. Len(fs) \/ i = Len(fs) + 1
      BY <1>2, <2>1
    <3> QED
      BY <3>1, <3>2, <3>3
  <2> QED
    BY <1>1, <1>6, <2>4 DEF f, gs
<1>7. ASSUME NEW m \in DOMAIN fs, NEW x \in inner[m] \cup Spoiled, e = Object([fs EXCEPT ![m] = [name |-> fs[m].name, doc |-> x]])
      PROVE  IsA("fields", e) /\ Good(e.fields)
  <2> DEFINE gs == [fs EXCEPT ![m] = [name |-> fs[m].name, doc |-> x]]
  <2>1. DOMAIN gs = DOMAIN fs /\ \A i \in DOMAIN fs \ {m} : gs[i] = fs[i]
    OBVIOUS
  <2>2. gs[m].name = fs[m].name /\ gs[m].doc = x
    OBVIOUS
  <2> HIDE DEF gs
  <2>3. Good(gs)
    BY <1>2, <2>1, <2>2
  <2>4. e = Object(gs)
    BY <1>7 DEF gs
  <2> QED
    BY <1>1, <2>3, <2>4
<1> HIDE DEF Good
<1>8. IsA("fields", e) /\ Good(e.fields)
  <2>1. \/ e = Object(Reverse(fs))
        \/ e = Object(Append(fs, [name |-> "invented", doc |-> Flag(TRUE)]))
        \/ \E m \in DOMAIN fs : e = Object(RemoveAt(fs, m))
        \/ \E m \in DOMAIN fs : e = Object(Append(fs, [name |-> fs[m].name, doc |-> Another(fs[m].doc)]))
        \/ \E m \in DOMAIN fs : \E x \in inner[m] \cup Spoiled : e = Object([fs EXCEPT ![m] = [name |-> fs[m].name, doc |-> x]])
    BY DEF Alterations, Spoiled
  <2>2. ASSUME NEW m \in DOMAIN fs, NEW x \in inner[m] \cup Spoiled,
               e = Object([fs EXCEPT ![m] = [name |-> fs[m].name, doc |-> x]])
        PROVE  IsA("fields", e) /\ Good(e.fields)
    BY <1>7, <2>2
  <2>3. ASSUME NEW m \in DOMAIN fs,
               e = Object(Append(fs, [name |-> fs[m].name, doc |-> Another(fs[m].doc)]))
        PROVE  IsA("fields", e) /\ Good(e.fields)
    BY <1>6, <2>3
  <2> HIDE DEF Spoiled
  <2> QED
    BY <1>3, <1>4, <1>5, <2>1, <2>2, <2>3
<1> QED
  BY <1>8 DEF Good

\* The fields of an encoded record.
LEMMA EncodedFields ==
  ASSUME NEW names, NEW order, Lists(order, names), NEW docs
  PROVE  /\ IsA("fields", EncRecord(order, docs)) /\ Plain(EncRecord(order, docs))
         /\ Fields(EncRecord(order, docs)) = EncRecord(order, docs).fields
         /\ DOMAIN EncRecord(order, docs).fields = DOMAIN order
         /\ Names(EncRecord(order, docs)) = names
         /\ \A i \in DOMAIN order :
              /\ order[i] \in names
              /\ EncRecord(order, docs).fields[i].name = order[i]
              /\ EncRecord(order, docs).fields[i].doc = docs[order[i]]
         /\ \E S : EncRecord(order, docs).fields \in Seq([name : S, doc : S])
<1> DEFINE fs == [i \in DOMAIN order |-> [name |-> order[i], doc |-> docs[order[i]]]]
<1>1. \A i \in DOMAIN order : order[i] \in names
  BY DEF Lists
<1>2. DOMAIN order = 1 .. Len(order) /\ Len(order) \in Nat
  BY DEF Lists
<1>3. EncRecord(order, docs) = Object(fs)
  BY DEF EncRecord
<1>4. \E S : fs \in Seq([name : S, doc : S])
  <2> DEFINE S == names \cup {docs[k] : k \in names}
  <2>1. \A i \in DOMAIN order : order[i] \in S /\ docs[order[i]] \in S
    BY <1>1
  <2> HIDE DEF S
  <2>2. fs \in Seq([name : S, doc : S])
    BY <1>2, <2>1
  <2> QED
    BY <2>2
<1>5. DOMAIN fs = DOMAIN order /\ \A i \in DOMAIN order : fs[i].name = order[i] /\ fs[i].doc = docs[order[i]]
  OBVIOUS
<1> HIDE DEF fs
<1>6. /\ IsA("fields", EncRecord(order, docs)) /\ Fields(EncRecord(order, docs)) = fs
      /\ EncRecord(order, docs).fields = fs
  BY <1>3, ObjectHasFields
<1>7. {fs[i].name : i \in DOMAIN fs} = names
  BY <1>1, <1>5 DEF Lists
<1>8. Names(EncRecord(order, docs)) = names
  BY <1>6, <1>7 DEF Names
<1>9. Plain(EncRecord(order, docs))
  BY <1>2, <1>5, <1>6 DEF Plain
<1> QED
  BY <1>1, <1>4, <1>5, <1>6, <1>8, <1>9

\* Whatever becomes of an encoded record, a field that is not invented and comes
\* first under its name has its value, or a variant of it, or is spoiled.
LEMMA VariantFields ==
  ASSUME NEW names, NEW order, Lists(order, names), NEW docs,
         NEW e \in Variants(EncRecord(order, docs))
  PROVE  /\ IsA("fields", e) /\ Plain(e)
         /\ \A i \in DOMAIN e.fields :
              \/ e.fields[i].name = "invented"
              \/ \E j \in 1 .. i - 1 : e.fields[j].name = e.fields[i].name
              \/ /\ e.fields[i].name \in names
                 /\ e.fields[i].doc \in Variants(docs[e.fields[i].name]) \cup Spoiled
<1> DEFINE d == EncRecord(order, docs)
<1>1. /\ IsA("fields", d) /\ Plain(d) /\ Fields(d) = d.fields /\ DOMAIN d.fields = DOMAIN order
      /\ \A i \in DOMAIN order : /\ order[i] \in names /\ d.fields[i].name = order[i]
                                 /\ d.fields[i].doc = docs[order[i]]
  BY EncodedFields
<1>s. PICK S : d.fields \in Seq([name : S, doc : S])
  BY EncodedFields
<1> HIDE DEF d
<1>2. \A k : docs[k] \in Variants(docs[k])
  BY DEF Variants
<1>3. ASSUME NEW inner, e \in Alterations(d, inner),
             \A m \in DOMAIN order : inner[m] \subseteq Variants(docs[order[m]])
      PROVE  /\ IsA("fields", e) /\ Plain(e)
             /\ \A i \in DOMAIN e.fields :
                  \/ e.fields[i].name = "invented"
                  \/ \E j \in 1 .. i - 1 : e.fields[j].name = e.fields[i].name
                  \/ /\ e.fields[i].name \in names
                     /\ e.fields[i].doc \in Variants(docs[e.fields[i].name]) \cup Spoiled
  <2>1. /\ IsA("fields", e) /\ DOMAIN e.fields \subseteq Nat
        /\ \A i \in DOMAIN e.fields :
             \/ e.fields[i].name = "invented"
             \/ \E j \in 1 .. i - 1 : e.fields[j].name = e.fields[i].name
             \/ \E m \in DOMAIN d.fields :
                  /\ e.fields[i].name = d.fields[m].name
                  /\ e.fields[i].doc \in {d.fields[m].doc} \cup Spoiled \cup inner[m]
    BY <1>1, <1>s, <1>3, AlteredFields
  <2>2. ASSUME NEW i \in DOMAIN e.fields, NEW m \in DOMAIN d.fields,
               e.fields[i].name = d.fields[m].name,
               e.fields[i].doc \in {d.fields[m].doc} \cup Spoiled \cup inner[m]
        PROVE  /\ e.fields[i].name \in names
               /\ e.fields[i].doc \in Variants(docs[e.fields[i].name]) \cup Spoiled
    BY <1>1, <1>2, <1>3, <2>2
  <2> QED
    BY <2>1, <2>2 DEF Plain
<1>4. CASE e = d
  BY <1>1, <1>2, <1>4
<1>5. CASE e \in Altered1(d)
  BY <1>1, <1>3, <1>5 DEF Altered1
<1>6. CASE e \in Altered2(d)
  <2>1. \A m \in DOMAIN order : Altered1(docs[order[m]]) \subseteq Variants(docs[order[m]])
    BY DEF Variants
  <2> QED
    BY <1>1, <1>3, <1>6, <2>1 DEF Altered2
<1>7. CASE e \in Altered3(d)
  <2>1. \A m \in DOMAIN order : Altered2(docs[order[m]]) \subseteq Variants(docs[order[m]])
    BY DEF Variants
  <2> QED
    BY <1>1, <1>3, <1>7, <2>1 DEF Altered3
<1>8. CASE e \in Altered4(d)
  <2>1. \A m \in DOMAIN order : Altered3(docs[order[m]]) \subseteq Variants(docs[order[m]])
    BY DEF Variants
  <2> QED
    BY <1>1, <1>3, <1>8, <2>1 DEF Altered4
<1>9. CASE e \in Altered5(d)
  <2>1. \A m \in DOMAIN order : Altered4(docs[order[m]]) \subseteq Variants(docs[order[m]])
    BY DEF Variants
  <2> QED
    BY <1>1, <1>3, <1>9, <2>1 DEF Altered5
<1> QED
  BY <1>4, <1>5, <1>6, <1>7, <1>8, <1>9 DEF Variants, d

\* A variant of an encoded record that a decoder takes is taken for what was
\* encoded, but for optional fields that are not there.
LEMMA VariantTaken ==
  ASSUME NEW names, NEW order, Lists(order, names), NEW docs,
         NEW e \in Variants(EncRecord(order, docs)),
         NEW known, NEW optional, NEW reading, NEW vals, "invented" \notin known,
         \A i \in DOMAIN e.fields :
           /\ e.fields[i].name \in names
           /\ e.fields[i].doc \in Variants(docs[e.fields[i].name]) \cup Spoiled
           /\ Accepted(reading[i])
           => reading[i] = Took(vals[e.fields[i].name]),
         Accepted(DecodeRecord(e, known, optional, reading))
  PROVE  DecodeRecord(e, known, optional, reading) =
           Took([k \in known |-> IF k \in optional \ Names(e) THEN Nil ELSE vals[k]])
<1>1. Plain(e)
  BY VariantFields
<1>2. \A i \in DOMAIN e.fields :
           /\ e.fields[i].name \in known
           /\ ~\E j \in 1 .. i - 1 : e.fields[j].name = e.fields[i].name
           /\ Accepted(reading[i])
           => reading[i] = Took(vals[e.fields[i].name])
  BY VariantFields
<1> QED
  BY <1>1, <1>2, TakenFor

\* A record comes back as it was encoded where its fields do.
LEMMA RoundTrip ==
  ASSUME NEW names, NEW order, Lists(order, names), NEW docs,
         NEW known, NEW optional, names \subseteq known, known \ optional \subseteq names,
         NEW reading, NEW vals,
         \A i \in DOMAIN order : reading[i] = Took(vals[order[i]])
  PROVE  DecodeRecord(EncRecord(order, docs), known, optional, reading) =
           Took([k \in known |-> IF k \in optional \ names THEN Nil ELSE vals[k]])
<1> DEFINE d == EncRecord(order, docs)
<1>1. /\ IsA("fields", d) /\ Plain(d) /\ DOMAIN d.fields = DOMAIN order
      /\ \A i \in DOMAIN order : /\ order[i] \in names /\ d.fields[i].name = order[i]
      /\ Names(d) = names
  BY EncodedFields
<1>2. \A i \in DOMAIN order : \A j \in 1 .. i - 1 : j \in DOMAIN order /\ order[j] # order[i]
  BY DEF Lists
<1> HIDE DEF d
<1>3. \A i \in DOMAIN d.fields : Accepted(FieldReading(d, i, known, reading))
  BY <1>1, <1>2, TookAccepted DEF FieldReading
<1>4. Accepted(DecodeRecord(d, known, optional, reading))
  BY <1>1, <1>3, TookAccepted DEF DecodeRecord
<1>5. \A i \in DOMAIN d.fields : reading[i] = Took(vals[d.fields[i].name])
  BY <1>1
<1>6. DecodeRecord(d, known, optional, reading) =
           Took([k \in known |-> IF k \in optional \ Names(d) THEN Nil ELSE vals[k]])
  BY <1>1, <1>4, <1>5, TakenFor
<1> QED
  BY <1>1, <1>6 DEF d

\* An encoded record has a spelling where its fields do.
LEMMA EncodedFlawless ==
  ASSUME NEW order, NEW docs, \A i \in DOMAIN order : FirstFlaw(docs[order[i]]) = "none"
  PROVE  FirstFlaw(EncRecord(order, docs)) = "none"
<1> DEFINE fs == [i \in DOMAIN order |-> [name |-> order[i], doc |-> docs[order[i]]]]
<1>1. {i \in DOMAIN fs : FirstFlaw(fs[i].doc) # "none"} = {}
  OBVIOUS
<1> HIDE DEF fs
<1>2. Object(fs).inside = "none"
  BY <1>1 DEF Object
<1>3. FirstFlaw(Object(fs)) = Object(fs).inside
  BY DEF FirstFlaw, Object, IsA, Text, TextMap
<1> QED
  BY <1>2, <1>3 DEF EncRecord, fs

-----------------------------------------------------------------------------
(* The codec: a variant of what an encoder wrote is refused by the decoder  *)
(* or taken for the value that was encoded.                                *)

\* A record with these fields.
OfShape(v, names) == v = [k \in names |-> v[k]]

\* The keys of the schema are listed in some order.
LEMMA KeysListed ==
  ASSUME NEW S, IsFiniteSet(S)
  PROVE  Lists(SetToSeq(S), S)
<1> DEFINE n == Cardinality(S)
<1>1. n \in Nat /\ ExistsBijection(1 .. n, S)
  BY FS_CardinalityType
<1>2. \E f \in [1 .. n -> S] : IsInjective(f)
  BY <1>1 DEF ExistsBijection, Bijection, Injection
<1>3. SetToSeq(S) \in [1 .. n -> S] /\ IsInjective(SetToSeq(S))
  BY <1>2 DEF SetToSeq
<1>4. SetToSeq(S) \in Injection(1 .. n, S)
  BY <1>3 DEF Injection
<1>5. Cardinality(1 .. n) = Cardinality(S)
  BY <1>1, FS_Interval
<1>6. SetToSeq(S) \in Surjection(1 .. n, S)
  BY <1>4, <1>5, FS_Injection
<1>7. SetToSeq(S) \in Seq(S)
  BY <1>1, <1>3
<1> QED
  BY <1>3, <1>6, <1>7 DEF Lists, IsInjective, Surjection

LEMMA SchemaListed ==
  Lists(KeyOrder, Keys) /\ Lists(TextOrder, TextKeys)
<1>1. IsFiniteSet(Keys) /\ IsFiniteSet(TextKeys)
  BY SchemaAssumption, LocationsAssumption, FS_Subset
<1> QED
  BY <1>1, KeysListed DEF KeyOrder, TextOrder

\* The readers of single values: what is taken is what was written.
LEMMA ValueVariants ==
  /\ \A x : \A e \in Variants(Text(x)) \cup Spoiled : Accepted(Str(e)) => Str(e) = Took(x)
  /\ \A x : \A e \in Variants(TextMap(x)) \cup Spoiled : Accepted(StrMap(e)) => StrMap(e) = Took(x)
  /\ \A x : \A e \in Variants(Number(x)) \cup Spoiled : Accepted(Integer(e)) => Integer(e) = Took(x)
  /\ \A x : \A e \in Variants(Flag(x)) \cup Spoiled : Accepted(Bool(e)) => Bool(e) = Took(x)
  /\ \A words, x : \A e \in Variants(EncWord(words, x)) \cup Spoiled :
       Accepted(Word(words, e)) => Word(words, e) = Took(x)
<1>1. \A x : /\ Variants(Text(x)) = {Text(x)} /\ Variants(TextMap(x)) = {TextMap(x)}
             /\ Variants(Number(x)) = {Number(x)} /\ Variants(Flag(x)) = {Flag(x)}
             /\ Variants(Flawed(x)) = {Flawed(x)}
  BY Leaves, LeafVariants
<1>2. ASSUME NEW x, NEW e \in Variants(Text(x)) \cup Spoiled, Accepted(Str(e))
      PROVE  Str(e) = Took(x)
  BY <1>1, <1>2, TookAccepted DEF Str, Spoiled, IsA, Text, Flawed, OddNumber, WrongType
<1>3. ASSUME NEW x, NEW e \in Variants(TextMap(x)) \cup Spoiled, Accepted(StrMap(e))
      PROVE  StrMap(e) = Took(x)
  BY <1>1, <1>3, TookAccepted DEF StrMap, Spoiled, IsA, TextMap, Flawed, OddNumber, WrongType
<1>4. ASSUME NEW x, NEW e \in Variants(Number(x)) \cup Spoiled, Accepted(Integer(e))
      PROVE  Integer(e) = Took(x)
  BY <1>1, <1>4, TookAccepted DEF Integer, Spoiled, IsA, Number, Flawed, OddNumber, WrongType
<1>5. ASSUME NEW x, NEW e \in Variants(Flag(x)) \cup Spoiled, Accepted(Bool(e))
      PROVE  Bool(e) = Took(x)
  BY <1>1, <1>5, TookAccepted DEF Bool, Spoiled, IsA, Flag, Flawed, OddNumber, WrongType
<1>6. ASSUME NEW words, NEW x, NEW e \in Variants(EncWord(words, x)) \cup Spoiled,
             Accepted(Word(words, e))
      PROVE  Word(words, e) = Took(x)
  <2>1. Accepted(Str(e)) /\ Word(words, e) = Str(e)
    BY <1>6, TookAccepted DEF Word
  <2>2. e \in {Text(x), Flawed("bad_enum")} \cup Spoiled
    BY <1>1 DEF EncWord
  <2>3. ~Accepted(Str(Flawed("bad_enum")))
    BY TookAccepted DEF Str, Flawed, IsA, WrongType
  <2> QED
    BY <1>1, <1>2, <2>1, <2>2, <2>3
<1> QED
  BY <1>2, <1>3, <1>4, <1>5, <1>6

\* A value that has been spoiled is no record.
LEMMA SpoiledIsRefused ==
  ASSUME NEW e \in Spoiled, NEW known, NEW optional, NEW reading
  PROVE  ~Accepted(DecodeRecord(e, known, optional, reading))
<1>1. ~IsA("fields", e)
  BY Leaves DEF Spoiled
<1> QED
  BY <1>1, TookAccepted DEF DecodeRecord, WrongType

\* An encoded record that is taken has a spelling, if that is so of its fields.
LEMMA RecordFlawless ==
  ASSUME NEW names, NEW order, Lists(order, names), NEW docs,
         NEW known, NEW optional, NEW reading,
         Accepted(DecodeRecord(EncRecord(order, docs), known, optional, reading)),
         \A i \in DOMAIN order : Accepted(reading[i]) => FirstFlaw(docs[order[i]]) = "none"
  PROVE  FirstFlaw(EncRecord(order, docs)) = "none"
<1> DEFINE d == EncRecord(order, docs)
<1>1. Plain(d) /\ DOMAIN d.fields = DOMAIN order
  BY EncodedFields
<1> HIDE DEF d
<1>2. \A i \in DOMAIN order : Accepted(reading[i])
  BY <1>1, RecordTaken DEF d
<1> QED
  BY <1>2, EncodedFlawless

\* What is spelled is taken as it was written, and only that is.
LEMMA ValueCodec ==
  /\ \A x : x # BadText => Str(Text(x)) = Took(x)
  /\ \A x : x # BadText => StrMap(TextMap(x)) = Took(x)
  /\ \A x : Integer(Number(x)) = Took(x) /\ Bool(Flag(x)) = Took(x)
  /\ \A words, x : x \in words /\ x # BadText => Word(words, EncWord(words, x)) = Took(x)
  /\ \A x : Accepted(Str(Text(x))) => FirstFlaw(Text(x)) = "none"
  /\ \A x : Accepted(StrMap(TextMap(x))) => FirstFlaw(TextMap(x)) = "none"
  /\ \A x : FirstFlaw(Number(x)) = "none" /\ FirstFlaw(Flag(x)) = "none"
  /\ \A words, x : Accepted(Word(words, EncWord(words, x))) => FirstFlaw(EncWord(words, x)) = "none"
<1>1. \A x : x # BadText => Str(Text(x)) = Took(x)
  BY DEF Str, Text, IsA
<1>2. \A x : x # BadText => StrMap(TextMap(x)) = Took(x)
  BY DEF StrMap, TextMap, IsA
<1>3. \A x : Integer(Number(x)) = Took(x) /\ Bool(Flag(x)) = Took(x)
  BY DEF Integer, Number, Bool, Flag, IsA
<1>4. \A words, x : x \in words /\ x # BadText => Word(words, EncWord(words, x)) = Took(x)
  BY <1>1, TookAccepted DEF Word, EncWord
<1>5. \A x : x # BadText => FirstFlaw(Text(x)) = "none" /\ FirstFlaw(TextMap(x)) = "none"
  BY DEF FirstFlaw, Text, TextMap, IsA
<1>6. ASSUME NEW x, Accepted(Str(Text(x)))
      PROVE  FirstFlaw(Text(x)) = "none"
  <2>1. x # BadText
    BY <1>6, TookAccepted DEF Str, Text, IsA
  <2> QED
    BY <1>5, <2>1
<1>7. ASSUME NEW x, Accepted(StrMap(TextMap(x)))
      PROVE  FirstFlaw(TextMap(x)) = "none"
  <2>1. x # BadText
    BY <1>7, TookAccepted DEF StrMap, TextMap, IsA
  <2> QED
    BY <1>5, <2>1
<1>8. \A x : FirstFlaw(Number(x)) = "none" /\ FirstFlaw(Flag(x)) = "none"
  BY DEF FirstFlaw, Number, Flag, Text, TextMap, IsA
<1>9. ASSUME NEW words, NEW x, Accepted(Word(words, EncWord(words, x)))
      PROVE  FirstFlaw(EncWord(words, x)) = "none"
  <2>1. Accepted(Str(EncWord(words, x)))
    BY <1>9, TookAccepted DEF Word
  <2>2. ~Accepted(Str(Flawed("bad_enum")))
    BY TookAccepted DEF Str, Flawed, IsA, WrongType
  <2>3. EncWord(words, x) = Text(x)
    BY <2>1, <2>2 DEF EncWord
  <2> QED
    BY <1>6, <2>1, <2>3
<1> QED
  BY <1>1, <1>2, <1>3, <1>4, <1>6, <1>7, <1>8, <1>9

\* What may stand in the place of a document.
Forms(d) == Variants(d) \cup Spoiled

\* f, a reader on these forms, takes none of them for another value than x, and
\* what was written for x only if it has a spelling.
Reads(f, d, x) ==
  /\ \A e \in Forms(d) : Accepted(f[e]) => f[e] = Took(x)
  /\ Accepted(f[d]) => FirstFlaw(d) = "none"

LEMMA FormsOfIt == \A d : d \in Forms(d) /\ Variants(d) \subseteq Forms(d) /\ Spoiled \subseteq Forms(d)
BY DEF Forms, Variants

LEMMA ValuesRead ==
  /\ \A x, f : (\A e \in Forms(Text(x)) : f[e] = Str(e)) => Reads(f, Text(x), x)
  /\ \A x, f : (\A e \in Forms(TextMap(x)) : f[e] = StrMap(e)) => Reads(f, TextMap(x), x)
  /\ \A x, f : (\A e \in Forms(Number(x)) : f[e] = Integer(e)) => Reads(f, Number(x), x)
  /\ \A words, x, f :
       (\A e \in Forms(EncWord(words, x)) : f[e] = Word(words, e)) => Reads(f, EncWord(words, x), x)
<1>1. ASSUME NEW x, NEW f, \A e \in Forms(Text(x)) : f[e] = Str(e)
      PROVE  Reads(f, Text(x), x)
  BY <1>1, FormsOfIt, ValueVariants, ValueCodec DEF Reads, Forms
<1>2. ASSUME NEW x, NEW f, \A e \in Forms(TextMap(x)) : f[e] = StrMap(e)
      PROVE  Reads(f, TextMap(x), x)
  BY <1>2, FormsOfIt, ValueVariants, ValueCodec DEF Reads, Forms
<1>3. ASSUME NEW x, NEW f, \A e \in Forms(Number(x)) : f[e] = Integer(e)
      PROVE  Reads(f, Number(x), x)
  <2>1. \A e \in Forms(Number(x)) : Accepted(Integer(e)) => Integer(e) = Took(x)
    BY ValueVariants DEF Forms
  <2>2. FirstFlaw(Number(x)) = "none"
    BY ValueCodec
  <2> QED
    BY <1>3, <2>1, <2>2 DEF Reads
<1>4. ASSUME NEW words, NEW x, NEW f,
             \A e \in Forms(EncWord(words, x)) : f[e] = Word(words, e)
      PROVE  Reads(f, EncWord(words, x), x)
  BY <1>4, FormsOfIt, ValueVariants, ValueCodec DEF Reads, Forms
<1> QED
  BY <1>1, <1>2, <1>3, <1>4

\* f reads the record of these documents, r[k] its field k, and R[e] the fields
\* of e with these.
FieldsRead(names, order, docs, v, r, R, f) ==
  /\ Lists(order, names) /\ "invented" \notin names /\ OfShape(v, names)
  /\ \A e \in Forms(EncRecord(order, docs)) : f[e] = DecodeRecord(e, names, {}, R[e])
  /\ \A k \in names : Reads(r[k], docs[k], v[k])
  /\ \A e \in Variants(EncRecord(order, docs)) : \A i \in DOMAIN e.fields :
       /\ e.fields[i].name \in names
       /\ e.fields[i].doc \in Forms(docs[e.fields[i].name])
       => R[e][i] = r[e.fields[i].name][e.fields[i].doc]

\* A record without optional fields is read if its fields are.
LEMMA RecordReads ==
  ASSUME NEW names, NEW order, NEW docs, NEW v, NEW r, NEW R, NEW f,
         FieldsRead(names, order, docs, v, r, R, f)
  PROVE  /\ Reads(f, EncRecord(order, docs), v)
         /\ (\A k \in names : r[k][docs[k]] = Took(v[k])) => f[EncRecord(order, docs)] = Took(v)
<1> USE DEF FieldsRead
<1> DEFINE d == EncRecord(order, docs)
<1>v. \A present : [k \in names |-> IF k \in {} \ present THEN Nil ELSE v[k]] = v
  BY DEF OfShape
<1>1. ASSUME NEW e \in Variants(d), Accepted(DecodeRecord(e, names, {}, R[e]))
      PROVE  DecodeRecord(e, names, {}, R[e]) = Took(v)
  <2>1. ASSUME NEW i \in DOMAIN e.fields, e.fields[i].name \in names,
               e.fields[i].doc \in Forms(docs[e.fields[i].name]), Accepted(R[e][i])
        PROVE  R[e][i] = Took(v[e.fields[i].name])
    BY <2>1 DEF Reads
  <2>2. DecodeRecord(e, names, {}, R[e]) =
          Took([k \in names |-> IF k \in {} \ Names(e) THEN Nil ELSE v[k]])
    BY <1>1, <2>1, VariantTaken DEF Forms
  <2> QED
    BY <1>v, <2>2
<1>2. \A i \in DOMAIN order : R[d][i] = r[order[i]][docs[order[i]]] /\ order[i] \in names
  <2>1. /\ DOMAIN d.fields = DOMAIN order
        /\ \A i \in DOMAIN order : order[i] \in names /\ d.fields[i].name = order[i] /\ d.fields[i].doc = docs[order[i]]
    BY EncodedFields
  <2>2. d \in Variants(d)
    BY DEF Variants
  <2> HIDE DEF d
  <2>3. \A k : docs[k] \in Forms(docs[k])
    BY FormsOfIt
  <2> QED
    BY <2>1, <2>2, <2>3 DEF d
<1>3. ASSUME Accepted(DecodeRecord(d, names, {}, R[d]))
      PROVE  FirstFlaw(d) = "none"
  <2>1. \A i \in DOMAIN order : Accepted(R[d][i]) => FirstFlaw(docs[order[i]]) = "none"
    BY <1>2 DEF Reads
  <2> QED
    BY <1>3, <2>1, RecordFlawless
<1>4. ASSUME \A k \in names : r[k][docs[k]] = Took(v[k])
      PROVE  DecodeRecord(d, names, {}, R[d]) = Took(v)
  <2>1. \A i \in DOMAIN order : R[d][i] = Took(v[order[i]])
    BY <1>2, <1>4
  <2>2. DecodeRecord(d, names, {}, R[d]) =
          Took([k \in names |-> IF k \in {} \ names THEN Nil ELSE v[k]])
    BY <2>1, RoundTrip
  <2> QED
    BY <1>v, <2>2
<1>5. \A e \in Spoiled : ~Accepted(DecodeRecord(e, names, {}, R[e]))
  BY SpoiledIsRefused
<1>6. Reads(f, d, v)
  <2>1. \A e \in Forms(d) : f[e] = DecodeRecord(e, names, {}, R[e])
    OBVIOUS
  <2> HIDE DEF d
  <2> QED
    BY <1>1, <1>3, <1>5, <2>1, FormsOfIt DEF Reads, Forms
<1>7. f[d] = DecodeRecord(d, names, {}, R[d])
  BY FormsOfIt
<1> QED
  BY <1>4, <1>6, <1>7

\* Records of strings: overrides, origins, errors.
LEMMA TextsRead ==
  ASSUME NEW names, NEW order, Lists(order, names), "invented" \notin names,
         NEW v, OfShape(v, names), NEW f,
         \A e \in Forms(EncRecord(order, Texts(v))) : f[e] = DecodeRecord(e, names, {}, Strs(e))
  PROVE  /\ Reads(f, EncRecord(order, Texts(v)), v)
         /\ (\A k \in names : v[k] # BadText) => f[EncRecord(order, Texts(v))] = Took(v)
<1> DEFINE d == EncRecord(order, Texts(v))
           r == [k \in names |-> [e \in Forms(Text(v[k])) |-> Str(e)]]
           R == [e \in Forms(d) |-> Strs(e)]
<1>0. \A k \in names : Texts(v)[k] = Text(v[k])
  BY DEF Texts, OfShape
<1>1. \A k \in names : Reads(r[k], Texts(v)[k], v[k])
  BY <1>0, ValuesRead
<1>2. ASSUME NEW e \in Variants(d), NEW i \in DOMAIN e.fields, e.fields[i].name \in names,
             e.fields[i].doc \in Forms(Texts(v)[e.fields[i].name])
      PROVE  R[e][i] = r[e.fields[i].name][e.fields[i].doc]
  <2>1. Strs(e)[i] = Str(e.fields[i].doc)
    BY VariantFields DEF Strs, Fields
  <2> QED
    BY <1>0, <1>2, <2>1, FormsOfIt
<1>3. \A k \in names : v[k] # BadText => r[k][Texts(v)[k]] = Took(v[k])
  BY <1>0, ValueCodec, FormsOfIt
<1>4. \A e \in Forms(d) : f[e] = DecodeRecord(e, names, {}, R[e])
  OBVIOUS
<1> HIDE DEF r, R
<1>5. FieldsRead(names, order, Texts(v), v, r, R, f)
  BY <1>1, <1>2, <1>4 DEF FieldsRead
<1> QED
  BY <1>3, <1>5, RecordReads

\* The declared orders of small records.
LEMMA SmallOrders ==
  /\ Lists(<<>>, {})
  /\ \A a : Lists(<<a>>, {a})
  /\ \A a, b : a # b => Lists(<<a, b>>, {a, b})
  /\ \A a, b, c : a # b /\ b # c /\ a # c => Lists(<<a, b, c>>, {a, b, c})
<1>1. Lists(<<>>, {})
  BY DEF Lists
<1>2. ASSUME NEW a
      PROVE  Lists(<<a>>, {a})
  <2>1. \A i \in DOMAIN <<a>> : i = 1
    OBVIOUS
  <2> QED
    BY <2>1 DEF Lists
<1>3. ASSUME NEW a, NEW b, a # b
      PROVE  Lists(<<a, b>>, {a, b})
  <2> DEFINE s == <<a, b>>
  <2>1. s \in Seq({a, b}) /\ DOMAIN s = {1, 2} /\ s[1] = a /\ s[2] = b
    OBVIOUS
  <2> HIDE DEF s
  <2>2. Lists(s, {a, b})
    BY <1>3, <2>1 DEF Lists
  <2> QED
    BY <2>2 DEF s
<1>4. ASSUME NEW a, NEW b, NEW c, a # b, b # c, a # c
      PROVE  Lists(<<a, b, c>>, {a, b, c})
  <2> DEFINE s == <<a, b, c>>
  <2>1. s \in Seq({a, b, c}) /\ DOMAIN s = {1, 2, 3} /\ s[1] = a /\ s[2] = b /\ s[3] = c
    OBVIOUS
  <2> HIDE DEF s
  <2>2. Lists(s, {a, b, c})
    BY <1>4, <2>1 DEF Lists
  <2> QED
    BY <2>2 DEF s
<1> QED
  BY <1>1, <1>2, <1>3, <1>4

LEMMA OverridesRead ==
  ASSUME NEW v, OfShape(v, TextKeys), NEW f,
         \A e \in Forms(EncRunOverrides(v)) : f[e] = DecodeRunOverrides(e)
  PROVE  /\ Reads(f, EncRunOverrides(v), v)
         /\ (\A k \in TextKeys : v[k] # BadText) => f[EncRunOverrides(v)] = Took(v)
<1>1. Lists(TextOrder, TextKeys) /\ "invented" \notin TextKeys
  BY SchemaListed, InventedAssumption, LocationsAssumption
<1> QED
  BY <1>1, TextsRead DEF EncRunOverrides, DecodeRunOverrides

IsOrigin(v) == OfShape(v, {"rung", "path"})

LEMMA OriginRead ==
  ASSUME NEW v, IsOrigin(v), NEW f,
         \A e \in Forms(EncOrigin(v)) : f[e] = DecodeOrigin(e)
  PROVE  /\ Reads(f, EncOrigin(v), v)
         /\ v.rung # BadText /\ v.path # BadText => f[EncOrigin(v)] = Took(v)
<1>1. Lists(<<"rung", "path">>, {"rung", "path"})
  BY SmallOrders
<1>2. /\ Reads(f, EncOrigin(v), v)
      /\ (\A k \in {"rung", "path"} : v[k] # BadText) => f[EncOrigin(v)] = Took(v)
  BY <1>1, TextsRead DEF EncOrigin, DecodeOrigin, IsOrigin
<1> QED
  BY <1>2

IsOrigins(v)      == OfShape(v, Keys) /\ \A k \in Keys : IsOrigin(v[k])
SpelledOrigins(v) == \A k \in Keys : v[k].rung # BadText /\ v[k].path # BadText

LEMMA OriginsRead ==
  ASSUME NEW v, IsOrigins(v), NEW f,
         \A e \in Forms(EncOrigins(v)) : f[e] = DecodeOrigins(e)
  PROVE  /\ Reads(f, EncOrigins(v), v)
         /\ SpelledOrigins(v) => f[EncOrigins(v)] = Took(v)
<1> DEFINE docs == [k \in Keys |-> EncOrigin(v[k])]
           r == [k \in Keys |-> [e \in Forms(EncOrigin(v[k])) |-> DecodeOrigin(e)]]
           R == [e \in Forms(EncOrigins(v)) |-> [i \in DOMAIN Fields(e) |-> DecodeOrigin(Fields(e)[i].doc)]]
<1>1. \A k \in Keys : docs[k] = EncOrigin(v[k])
  OBVIOUS
<1>2. Lists(KeyOrder, Keys) /\ "invented" \notin Keys /\ OfShape(v, Keys)
  BY SchemaListed, InventedAssumption DEF IsOrigins
<1>3. \A k \in Keys : Reads(r[k], docs[k], v[k])
  BY OriginRead DEF IsOrigins
<1>4. ASSUME NEW e \in Variants(EncOrigins(v)), NEW i \in DOMAIN e.fields, e.fields[i].name \in Keys,
             e.fields[i].doc \in Forms(docs[e.fields[i].name])
      PROVE  R[e][i] = r[e.fields[i].name][e.fields[i].doc]
  <2>1. R[e][i] = DecodeOrigin(e.fields[i].doc)
    BY <1>2, VariantFields, FormsOfIt DEF Fields, EncOrigins
  <2> QED
    BY <1>4, <2>1
<1>5. \A k \in Keys : v[k].rung # BadText /\ v[k].path # BadText => r[k][docs[k]] = Took(v[k])
  BY OriginRead, FormsOfIt DEF IsOrigins
<1>6. \A e \in Forms(EncOrigins(v)) : f[e] = DecodeRecord(e, Keys, {}, R[e])
  BY DEF DecodeOrigins
<1> HIDE DEF r, R
<1>7. EncOrigins(v) = EncRecord(KeyOrder, docs)
  BY DEF EncOrigins
<1> HIDE DEF docs
<1>8. FieldsRead(Keys, KeyOrder, docs, v, r, R, f)
  BY <1>2, <1>3, <1>4, <1>6, <1>7 DEF FieldsRead
<1> QED
  BY <1>5, <1>7, <1>8, RecordReads DEF SpelledOrigins

\* A key of the schema.
LEMMA SettingRead ==
  ASSUME NEW k, NEW x, NEW f,
         \A e \in Forms(EncSetting(k, x)) : f[e] = IF k \in TextKeys THEN Str(e) ELSE StrMap(e)
  PROVE  /\ Reads(f, EncSetting(k, x), x)
         /\ x # BadText => f[EncSetting(k, x)] = Took(x)
<1>1. CASE k \in TextKeys
  BY <1>1, ValuesRead, ValueCodec, FormsOfIt DEF EncSetting
<1>2. CASE k \notin TextKeys
  BY <1>2, ValuesRead, ValueCodec, FormsOfIt DEF EncSetting
<1> QED
  BY <1>1, <1>2

LEMMA UserSettingsRead ==
  ASSUME NEW v, OfShape(v, Keys), NEW f,
         \A e \in Forms(EncUserSettings(v)) : f[e] = DecodeUserSettings(e)
  PROVE  /\ Reads(f, EncUserSettings(v), v)
         /\ (\A k \in Keys : v[k] # BadText) => f[EncUserSettings(v)] = Took(v)
<1> DEFINE docs == [k \in Keys |-> EncSetting(k, v[k])]
           r == [k \in Keys |-> [e \in Forms(EncSetting(k, v[k])) |-> IF k \in TextKeys THEN Str(e) ELSE StrMap(e)]]
           R == [e \in Forms(EncUserSettings(v)) |-> [i \in DOMAIN Fields(e) |-> ReadSetting(Fields(e)[i])]]
<1>1. \A k \in Keys : docs[k] = EncSetting(k, v[k])
  OBVIOUS
<1>2. Lists(KeyOrder, Keys) /\ "invented" \notin Keys
  BY SchemaListed, InventedAssumption
<1>3. \A k \in Keys : Reads(r[k], docs[k], v[k])
  BY SettingRead
<1>4. ASSUME NEW e \in Variants(EncUserSettings(v)), NEW i \in DOMAIN e.fields, e.fields[i].name \in Keys,
             e.fields[i].doc \in Forms(docs[e.fields[i].name])
      PROVE  R[e][i] = r[e.fields[i].name][e.fields[i].doc]
  <2>1. R[e][i] = ReadSetting(e.fields[i])
    BY <1>2, VariantFields, FormsOfIt DEF Fields, EncUserSettings
  <2> QED
    BY <1>4, <2>1 DEF ReadSetting
<1>5. \A k \in Keys : v[k] # BadText => r[k][docs[k]] = Took(v[k])
  BY SettingRead, FormsOfIt
<1>6. \A e \in Forms(EncUserSettings(v)) : f[e] = DecodeRecord(e, Keys, {}, R[e])
  BY DEF DecodeUserSettings
<1> HIDE DEF r, R
<1>7. EncUserSettings(v) = EncRecord(KeyOrder, docs)
  BY DEF EncUserSettings
<1> HIDE DEF docs
<1>8. FieldsRead(Keys, KeyOrder, docs, v, r, R, f)
  BY <1>2, <1>3, <1>4, <1>6, <1>7 DEF FieldsRead
<1> QED
  BY <1>5, <1>7, <1>8, RecordReads

IsUserSnapshot(v)      == OfShape(v, {"values", "revision"}) /\ OfShape(v.values, Keys)
SpelledUserSnapshot(v) == v.revision # BadText /\ \A k \in Keys : v.values[k] # BadText

LEMMA UserSnapshotRead ==
  ASSUME NEW v, IsUserSnapshot(v), NEW f,
         \A e \in Forms(EncUserSnapshot(v)) : f[e] = DecodeUserSnapshot(e)
  PROVE  /\ Reads(f, EncUserSnapshot(v), v)
         /\ SpelledUserSnapshot(v) => f[EncUserSnapshot(v)] = Took(v)
<1> DEFINE docs == [values |-> EncUserSettings(v.values), revision |-> Text(v.revision)]
           r == [values   |-> [e \in Forms(EncUserSettings(v.values)) |-> DecodeUserSettings(e)],
                 revision |-> [e \in Forms(Text(v.revision)) |-> Str(e)]]
           R == [e \in Forms(EncUserSnapshot(v)) |-> [i \in DOMAIN Fields(e) |->
                   IF Fields(e)[i].name = "values" THEN DecodeUserSettings(Fields(e)[i].doc)
                   ELSE Str(Fields(e)[i].doc)]]
           names == {"values", "revision"}
<1>1. docs["values"] = EncUserSettings(v.values) /\ docs["revision"] = Text(v.revision)
  OBVIOUS
<1>2. Lists(<<"values", "revision">>, names) /\ "invented" \notin names
  BY SmallOrders
<1>3. \A k \in names : Reads(r[k], docs[k], v[k])
  BY UserSettingsRead, ValuesRead DEF IsUserSnapshot
<1>4. ASSUME NEW e \in Variants(EncUserSnapshot(v)), NEW i \in DOMAIN e.fields, e.fields[i].name \in names,
             e.fields[i].doc \in Forms(docs[e.fields[i].name])
      PROVE  R[e][i] = r[e.fields[i].name][e.fields[i].doc]
  <2>1. IsA("fields", e)
    BY <1>2, VariantFields DEF EncUserSnapshot
  <2>2. R[e][i] = IF e.fields[i].name = "values" THEN DecodeUserSettings(e.fields[i].doc)
                  ELSE Str(e.fields[i].doc)
    BY <2>1, FormsOfIt DEF Fields
  <2> QED
    BY <1>4, <2>2
<1>6. ASSUME SpelledUserSnapshot(v)
      PROVE  \A k \in names : r[k][docs[k]] = Took(v[k])
  <2>1. r["values"][docs["values"]] = Took(v["values"])
    BY <1>6, UserSettingsRead DEF IsUserSnapshot, SpelledUserSnapshot
  <2>2. r["revision"][docs["revision"]] = Took(v["revision"])
    BY <1>6, ValueCodec, FormsOfIt DEF SpelledUserSnapshot
  <2> QED
    BY <2>1, <2>2
<1>7. \A e \in Forms(EncUserSnapshot(v)) : f[e] = DecodeRecord(e, names, {}, R[e])
  BY DEF DecodeUserSnapshot
<1> HIDE DEF r, R
<1>8. EncUserSnapshot(v) = EncRecord(<<"values", "revision">>, docs)
  BY DEF EncUserSnapshot
<1> HIDE DEF docs
<1>9. FieldsRead(names, <<"values", "revision">>, docs, v, r, R, f)
  BY <1>2, <1>3, <1>4, <1>7, <1>8 DEF FieldsRead, IsUserSnapshot
<1> QED
  BY <1>6, <1>8, <1>9, RecordReads

IsUserReplaceResult(v) ==
  OfShape(v, {"outcome", "snapshot"}) /\ IsUserSnapshot(v.snapshot)
SpelledUserReplaceResult(v) ==
  v.outcome \in UserReplaceOutcomes \ {BadText} /\ SpelledUserSnapshot(v.snapshot)

LEMMA UserReplaceResultRead ==
  ASSUME NEW v, IsUserReplaceResult(v), NEW f,
         \A e \in Forms(EncUserReplaceResult(v)) : f[e] = DecodeUserReplaceResult(e)
  PROVE  /\ Reads(f, EncUserReplaceResult(v), v)
         /\ SpelledUserReplaceResult(v) => f[EncUserReplaceResult(v)] = Took(v)
<1> DEFINE out == EncWord(UserReplaceOutcomes, v.outcome)
           docs == [outcome |-> out, snapshot |-> EncUserSnapshot(v.snapshot)]
           r == [outcome  |-> [e \in Forms(out) |-> Word(UserReplaceOutcomes, e)],
                 snapshot |-> [e \in Forms(EncUserSnapshot(v.snapshot)) |-> DecodeUserSnapshot(e)]]
           R == [e \in Forms(EncUserReplaceResult(v)) |-> [i \in DOMAIN Fields(e) |->
                   IF Fields(e)[i].name = "outcome" THEN Word(UserReplaceOutcomes, Fields(e)[i].doc)
                   ELSE DecodeUserSnapshot(Fields(e)[i].doc)]]
           names == {"outcome", "snapshot"}
<1>1. docs["outcome"] = out /\ docs["snapshot"] = EncUserSnapshot(v.snapshot)
  OBVIOUS
<1>2. Lists(<<"outcome", "snapshot">>, names) /\ "invented" \notin names
  BY SmallOrders
<1>3. \A k \in names : Reads(r[k], docs[k], v[k])
  BY UserSnapshotRead, ValuesRead DEF IsUserReplaceResult
<1>4. ASSUME NEW e \in Variants(EncUserReplaceResult(v)), NEW i \in DOMAIN e.fields,
             e.fields[i].name \in names, e.fields[i].doc \in Forms(docs[e.fields[i].name])
      PROVE  R[e][i] = r[e.fields[i].name][e.fields[i].doc]
  <2>1. IsA("fields", e)
    BY <1>2, VariantFields DEF EncUserReplaceResult
  <2>2. R[e][i] = IF e.fields[i].name = "outcome" THEN Word(UserReplaceOutcomes, e.fields[i].doc)
                  ELSE DecodeUserSnapshot(e.fields[i].doc)
    BY <2>1, FormsOfIt DEF Fields
  <2> QED
    BY <1>4, <2>2
<1>5. SpelledUserReplaceResult(v) => \A k \in names : r[k][docs[k]] = Took(v[k])
  BY UserSnapshotRead, ValueCodec, FormsOfIt DEF IsUserReplaceResult, SpelledUserReplaceResult
<1>6. \A e \in Forms(EncUserReplaceResult(v)) : f[e] = DecodeRecord(e, names, {}, R[e])
  BY DEF DecodeUserReplaceResult
<1> HIDE DEF r, R
<1>7. EncUserReplaceResult(v) = EncRecord(<<"outcome", "snapshot">>, docs)
  BY DEF EncUserReplaceResult
<1> HIDE DEF docs
<1>8. FieldsRead(names, <<"outcome", "snapshot">>, docs, v, r, R, f)
  BY <1>2, <1>3, <1>4, <1>6, <1>7 DEF FieldsRead, IsUserReplaceResult
<1> QED
  BY <1>5, <1>7, <1>8, RecordReads

IsSnapshot(v)      == OfShape(v, Keys \cup {"origins", "stamp"}) /\ IsOrigins(v["origins"])
SpelledSnapshot(v) ==
  /\ \A k \in Keys \cup {"stamp"} : v[k] # BadText
  /\ SpelledOrigins(v["origins"])

\* The fields of a snapshot are the keys and two more.
LEMMA SnapshotOrder ==
  Lists(KeyOrder \o <<"origins", "stamp">>, Keys \cup {"origins", "stamp"})
<1> DEFINE n == Len(KeyOrder)
           s == KeyOrder \o <<"origins", "stamp">>
<1>1. /\ KeyOrder \in Seq(Keys) /\ n \in Nat /\ DOMAIN KeyOrder = 1 .. n
      /\ \A i, j \in 1 .. n : KeyOrder[i] = KeyOrder[j] => i = j
      /\ \A k \in Keys : \E i \in 1 .. n : KeyOrder[i] = k
  BY SchemaListed DEF Lists
<1>2. /\ s \in Seq(Keys \cup {"origins", "stamp"}) /\ DOMAIN s = 1 .. n + 2
      /\ \A i \in 1 .. n : s[i] = KeyOrder[i] /\ KeyOrder[i] \in Keys
      /\ s[n + 1] = "origins" /\ s[n + 2] = "stamp"
  BY <1>1
<1> HIDE DEF s, n
<1>3. \A i \in 1 .. n + 2 : i \in 1 .. n \/ i = n + 1 \/ i = n + 2
  BY <1>1
<1>4. \A i \in 1 .. n : s[i] # "origins" /\ s[i] # "stamp"
  BY <1>2, SchemaAssumption
<1>5. \A i, j \in 1 .. n + 2 : s[i] = s[j] => i = j
  BY <1>1, <1>2, <1>3, <1>4
<1>6. \A k \in Keys \cup {"origins", "stamp"} : \E i \in 1 .. n + 2 : s[i] = k
  <2>1. n + 1 \in 1 .. n + 2 /\ n + 2 \in 1 .. n + 2 /\ 1 .. n \subseteq 1 .. n + 2
    BY <1>1
  <2> QED
    BY <1>1, <1>2, <2>1
<1>7. Lists(s, Keys \cup {"origins", "stamp"})
  BY <1>2, <1>5, <1>6 DEF Lists
<1> QED
  BY <1>7 DEF s

LEMMA SnapshotRead ==
  ASSUME NEW v, IsSnapshot(v), NEW f,
         \A e \in Forms(EncSnapshot(v)) : f[e] = DecodeSnapshot(e)
  PROVE  /\ Reads(f, EncSnapshot(v), v)
         /\ SpelledSnapshot(v) => f[EncSnapshot(v)] = Took(v)
<1> DEFINE names == Keys \cup {"origins", "stamp"}
           docs == [k \in names |-> IF k = "origins" THEN EncOrigins(v[k])
                                    ELSE IF k = "stamp" THEN Text(v[k]) ELSE EncSetting(k, v[k])]
           reader(k, e) == IF k = "origins" THEN DecodeOrigins(e) ELSE IF k = "stamp" THEN Str(e)
                           ELSE IF k \in TextKeys THEN Str(e) ELSE StrMap(e)
           r == [k \in names |-> [e \in Forms(docs[k]) |-> reader(k, e)]]
           R == [e \in Forms(EncSnapshot(v)) |-> [i \in DOMAIN Fields(e) |->
                   LET x == Fields(e)[i]
                   IN  IF x.name = "origins" THEN DecodeOrigins(x.doc)
                       ELSE IF x.name = "stamp" THEN Str(x.doc) ELSE ReadSetting(x)]]
<1>1. /\ docs["origins"] = EncOrigins(v["origins"]) /\ docs["stamp"] = Text(v["stamp"])
      /\ \A k \in Keys : docs[k] = EncSetting(k, v[k])
  BY SchemaAssumption
<1>2. Lists(KeyOrder \o <<"origins", "stamp">>, names) /\ "invented" \notin names
  BY SnapshotOrder, InventedAssumption
<1>3. /\ \A e \in Forms(docs["origins"]) : r["origins"][e] = DecodeOrigins(e)
      /\ \A e \in Forms(docs["stamp"]) : r["stamp"][e] = Str(e)
      /\ \A k \in Keys : \A e \in Forms(docs[k]) :
           r[k][e] = IF k \in TextKeys THEN Str(e) ELSE StrMap(e)
  BY SchemaAssumption
<1>4. ASSUME NEW e \in Variants(EncSnapshot(v)), NEW i \in DOMAIN e.fields, e.fields[i].name \in names,
             e.fields[i].doc \in Forms(docs[e.fields[i].name])
      PROVE  R[e][i] = r[e.fields[i].name][e.fields[i].doc]
  <2>0. EncSnapshot(v) = EncRecord(KeyOrder \o <<"origins", "stamp">>, docs)
    BY DEF EncSnapshot, IsSnapshot, OfShape
  <2>1. IsA("fields", e)
    BY <1>2, <2>0, VariantFields
  <2>2. R[e][i] = IF e.fields[i].name = "origins" THEN DecodeOrigins(e.fields[i].doc)
                  ELSE IF e.fields[i].name = "stamp" THEN Str(e.fields[i].doc)
                  ELSE ReadSetting(e.fields[i])
    BY <2>1, FormsOfIt DEF Fields
  <2> QED
    BY <1>4, <2>2 DEF ReadSetting
<1>7. \A e \in Forms(EncSnapshot(v)) : f[e] = DecodeRecord(e, names, {}, R[e])
  BY DEF DecodeSnapshot
<1>8. EncSnapshot(v) = EncRecord(KeyOrder \o <<"origins", "stamp">>, docs)
  BY DEF EncSnapshot, IsSnapshot, OfShape
<1> HIDE DEF r, R, docs
<1>5. \A k \in names : Reads(r[k], docs[k], v[k])
  <2>1. Reads(r["origins"], docs["origins"], v["origins"])
    BY <1>1, <1>3, OriginsRead DEF IsSnapshot
  <2>2. Reads(r["stamp"], docs["stamp"], v["stamp"])
    BY <1>1, <1>3, ValuesRead
  <2>3. ASSUME NEW k \in Keys
        PROVE  Reads(r[k], docs[k], v[k])
    <3>1. docs[k] = EncSetting(k, v[k])
      BY <1>1
    <3>2. \A e \in Forms(EncSetting(k, v[k])) : r[k][e] = IF k \in TextKeys THEN Str(e) ELSE StrMap(e)
      BY <1>3, <3>1
    <3> QED
      BY <3>1, <3>2, SettingRead
  <2> QED
    BY <2>1, <2>2, <2>3
<1>6. ASSUME SpelledSnapshot(v)
      PROVE  \A k \in names : r[k][docs[k]] = Took(v[k])
  <2>1. r["origins"][docs["origins"]] = Took(v["origins"])
    BY <1>1, <1>3, <1>6, OriginsRead DEF IsSnapshot, SpelledSnapshot
  <2>2. r["stamp"][docs["stamp"]] = Took(v["stamp"])
    BY <1>1, <1>3, <1>6, ValueCodec, FormsOfIt DEF SpelledSnapshot
  <2>3. ASSUME NEW k \in Keys
        PROVE  r[k][docs[k]] = Took(v[k])
    <3>1. docs[k] = EncSetting(k, v[k])
      BY <1>1
    <3>2. \A e \in Forms(EncSetting(k, v[k])) : r[k][e] = IF k \in TextKeys THEN Str(e) ELSE StrMap(e)
      BY <1>3, <3>1
    <3> QED
      BY <1>6, <3>1, <3>2, SettingRead DEF SpelledSnapshot
  <2> QED
    BY <2>1, <2>2, <2>3
<1>9. FieldsRead(names, KeyOrder \o <<"origins", "stamp">>, docs, v, r, R, f)
  BY <1>2, <1>4, <1>5, <1>7, <1>8 DEF FieldsRead, IsSnapshot
<1> QED
  BY <1>6, <1>8, <1>9, RecordReads

\* The field of a variant that a decoder takes is a form of what was written.
LEMMA FieldOfVariant ==
  ASSUME NEW names, NEW order, Lists(order, names), NEW docs,
         NEW e \in Forms(EncRecord(order, docs)),
         NEW known, NEW optional, NEW reading, "invented" \notin known,
         Accepted(DecodeRecord(e, known, optional, reading)),
         NEW k \in known, k \notin optional
  PROVE  \E i \in DOMAIN e.fields :
           /\ IsA("fields", e)
           /\ e.fields[i].name = k /\ k \in names
           /\ e.fields[i].doc \in Forms(docs[k])
           /\ Accepted(reading[i])
           /\ DecodeRecord(e, known, optional, reading).took[k] = reading[i].took
<1>1. e \in Variants(EncRecord(order, docs))
  BY SpoiledIsRefused DEF Forms
<1>2. Plain(e)
  BY <1>1, VariantFields
<1> DEFINE of(n) == CHOOSE i \in DOMAIN e.fields : e.fields[i].name = n
           got   == [n \in known |-> IF n \in Names(e) THEN reading[of(n)].took ELSE Nil]
<1>3. /\ IsA("fields", e)
      /\ \A i \in DOMAIN e.fields :
           /\ e.fields[i].name \in known
           /\ ~\E j \in 1 .. i - 1 : e.fields[j].name = e.fields[i].name
           /\ Accepted(reading[i])
      /\ known \ optional \subseteq Names(e)
      /\ DecodeRecord(e, known, optional, reading) = Took(got)
  BY <1>2, RecordTaken
<1>4. k \in Names(e)
  BY <1>3
<1>5. of(k) \in DOMAIN e.fields /\ e.fields[of(k)].name = k
  BY <1>3, <1>4 DEF Names, Fields
<1>6. ASSUME NEW i \in DOMAIN e.fields, e.fields[i].name = k
      PROVE  k \in names /\ e.fields[i].doc \in Forms(docs[k])
  <2>1. k # "invented" /\ ~\E j \in 1 .. i - 1 : e.fields[j].name = e.fields[i].name
    BY <1>3, <1>6
  <2>2. e.fields[i].name \in names /\ e.fields[i].doc \in Variants(docs[e.fields[i].name]) \cup Spoiled
    BY <1>1, <1>6, <2>1, VariantFields
  <2> QED
    BY <1>6, <2>2 DEF Forms
<1>7. got[k] = reading[of(k)].took
  BY <1>4
<1>8. DecodeRecord(e, known, optional, reading).took[k] = reading[of(k)].took
  BY <1>3, <1>7, TookAccepted
<1>9. /\ IsA("fields", e) /\ Accepted(reading[of(k)])
      /\ k \in names /\ e.fields[of(k)].doc \in Forms(docs[k])
  BY <1>3, <1>5, <1>6
<1> HIDE DEF of, got
<1> QED
  BY <1>5, <1>8, <1>9

IsConfigObservation(v) ==
  /\ OfShape(v, {"outcome", "cursor", "snapshot"})
  /\ v.snapshot = Nil \/ IsSnapshot(v.snapshot)
SpelledConfigObservation(v) ==
  /\ v.outcome \in ConfigObservationOutcomes \ {BadText}
  /\ v.cursor # BadText
  /\ v.snapshot = Nil \/ SpelledSnapshot(v.snapshot)

\* An optional field may be lost.
OrWithout(v, w) == w = v \/ w = [v EXCEPT !.snapshot = Nil]

LEMMA ConfigObservationRead ==
  ASSUME NEW v, IsConfigObservation(v)
  PROVE  /\ \A e \in Forms(EncConfigObservation(v)) : Accepted(DecodeConfigObservation(e)) =>
              \E w : DecodeConfigObservation(e) = Took(w) /\ OrWithout(v, w)
         /\ Accepted(DecodeConfigObservation(EncConfigObservation(v))) =>
              FirstFlaw(EncConfigObservation(v)) = "none"
         /\ SpelledConfigObservation(v) =>
              DecodeConfigObservation(EncConfigObservation(v)) = Took(v)
<1> DEFINE known == {"outcome", "cursor", "snapshot"}
           names == IF v.snapshot = Nil THEN {"outcome", "cursor"} ELSE known
           order == <<"outcome", "cursor">> \o IF v.snapshot = Nil THEN <<>> ELSE <<"snapshot">>
           out   == EncWord(ConfigObservationOutcomes, v.outcome)
           docs  == [outcome |-> out, cursor |-> Text(v.cursor),
                     snapshot |-> IF v.snapshot = Nil THEN Nil ELSE EncSnapshot(v.snapshot)]
           reader(k, x) == IF k = "outcome" THEN Word(ConfigObservationOutcomes, x)
                           ELSE IF k = "cursor" THEN Str(x) ELSE DecodeSnapshot(x)
           reading(e) == [i \in DOMAIN Fields(e) |->
             LET f == Fields(e)[i]
             IN  IF f.name = "outcome" THEN Word(ConfigObservationOutcomes, f.doc)
                 ELSE IF f.name = "cursor" THEN Str(f.doc) ELSE DecodeSnapshot(f.doc)]
           d == EncRecord(order, docs)
<1>1. EncConfigObservation(v) = d
  BY DEF EncConfigObservation
<1>2. Lists(order, names)
  <2>1. CASE v.snapshot = Nil
    <3>1. order = <<"outcome", "cursor">>
      BY <2>1
    <3> QED
      BY <2>1, <3>1, SmallOrders
  <2>2. CASE v.snapshot # Nil
    <3> DEFINE s == <<"outcome", "cursor">> \o <<"snapshot">>
    <3>1. /\ s \in Seq(known) /\ DOMAIN s = 1 .. 3
          /\ s[1] = "outcome" /\ s[2] = "cursor" /\ s[3] = "snapshot"
      OBVIOUS
    <3> HIDE DEF s
    <3>2. \A i \in 1 .. 3 : i = 1 \/ i = 2 \/ i = 3
      OBVIOUS
    <3>3. Lists(s, known)
      BY <3>1, <3>2 DEF Lists
    <3> QED
      BY <2>2, <3>3 DEF s
  <2> QED
    BY <2>1, <2>2
<1>3. \A e : DecodeConfigObservation(e) = DecodeRecord(e, known, {"snapshot"}, reading(e))
  BY DEF DecodeConfigObservation
<1>4. \A e : IsA("fields", e) => \A i \in DOMAIN e.fields : reading(e)[i] = reader(e.fields[i].name, e.fields[i].doc)
  BY DEF Fields
<1>5. ASSUME NEW k \in names
      PROVE  /\ \A x \in Forms(docs[k]) : Accepted(reader(k, x)) => reader(k, x) = Took(v[k])
             /\ Accepted(reader(k, docs[k])) => FirstFlaw(docs[k]) = "none"
             /\ SpelledConfigObservation(v) => reader(k, docs[k]) = Took(v[k])
  <2>1. CASE k = "outcome"
    <3>1. docs[k] = out /\ \A x : reader(k, x) = Word(ConfigObservationOutcomes, x)
      BY <2>1
    <3>2. v[k] = v.outcome
      BY <2>1
    <3> HIDE DEF docs, reader
    <3> QED
      BY <3>1, <3>2, ValueVariants, ValueCodec DEF Forms, SpelledConfigObservation
  <2>2. CASE k = "cursor"
    <3>1. docs[k] = Text(v.cursor) /\ \A x : reader(k, x) = Str(x)
      BY <2>2
    <3>2. v[k] = v.cursor
      BY <2>2
    <3> HIDE DEF docs, reader
    <3> QED
      BY <3>1, <3>2, ValueVariants, ValueCodec DEF Forms, SpelledConfigObservation
  <2>3. CASE k = "snapshot"
    <3>1. v.snapshot # Nil /\ docs[k] = EncSnapshot(v.snapshot) /\ \A x : reader(k, x) = DecodeSnapshot(x)
      BY <2>3
    <3>2. v[k] = v.snapshot
      BY <2>3
    <3> DEFINE f == [x \in Forms(EncSnapshot(v.snapshot)) |-> DecodeSnapshot(x)]
    <3>3. /\ Reads(f, EncSnapshot(v.snapshot), v.snapshot)
          /\ SpelledSnapshot(v.snapshot) => f[EncSnapshot(v.snapshot)] = Took(v.snapshot)
      BY <3>1, SnapshotRead DEF IsConfigObservation
    <3> HIDE DEF docs, reader
    <3> QED
      BY <3>1, <3>2, <3>3, FormsOfIt DEF Reads, SpelledConfigObservation
  <2> QED
    BY <2>1, <2>2, <2>3
<1> HIDE DEF docs, reader, reading
<1>6. ASSUME NEW e \in Forms(d), Accepted(DecodeConfigObservation(e))
      PROVE  \E w : DecodeConfigObservation(e) = Took(w) /\ OrWithout(v, w)
  <2>1. e \in Variants(d) /\ Accepted(DecodeRecord(e, known, {"snapshot"}, reading(e)))
    BY <1>3, <1>6, SpoiledIsRefused DEF Forms
  <2>2. IsA("fields", e)
    BY <1>2, <2>1, VariantFields
  <2>3. ASSUME NEW i \in DOMAIN e.fields, e.fields[i].name \in names,
               e.fields[i].doc \in Variants(docs[e.fields[i].name]) \cup Spoiled,
               Accepted(reading(e)[i])
        PROVE  reading(e)[i] = Took(v[e.fields[i].name])
    BY <1>4, <1>5, <2>2, <2>3 DEF Forms
  <2> DEFINE w == [k \in known |-> IF k \in {"snapshot"} \ Names(e) THEN Nil ELSE v[k]]
  <2>4. DecodeRecord(e, known, {"snapshot"}, reading(e)) = Took(w)
    BY <1>2, <2>1, <2>3, VariantTaken
  <2>5. OrWithout(v, w)
    <3>1. CASE "snapshot" \in Names(e)
      BY <3>1 DEF OrWithout, IsConfigObservation, OfShape
    <3>2. CASE "snapshot" \notin Names(e)
      <4>1. DOMAIN v = known
        BY DEF IsConfigObservation, OfShape
      <4>2. w = [v EXCEPT !.snapshot = Nil]
        BY <3>2, <4>1
      <4> QED
        BY <4>2 DEF OrWithout
    <3> QED
      BY <3>1, <3>2
  <2> QED
    BY <1>3, <2>4, <2>5
<1> HIDE DEF order, names
<1>7. \A i \in DOMAIN order : reading(d)[i] = reader(order[i], docs[order[i]]) /\ order[i] \in names
  <2>1. /\ IsA("fields", d) /\ DOMAIN d.fields = DOMAIN order
        /\ \A i \in DOMAIN order :
             order[i] \in names /\ d.fields[i].name = order[i] /\ d.fields[i].doc = docs[order[i]]
    BY <1>2, EncodedFields
  <2> HIDE DEF d
  <2> QED
    BY <1>4, <2>1
<1>8. ASSUME Accepted(DecodeConfigObservation(d))
      PROVE  FirstFlaw(d) = "none"
  <2>1. \A i \in DOMAIN order : Accepted(reading(d)[i]) => FirstFlaw(docs[order[i]]) = "none"
    BY <1>5, <1>7
  <2> QED
    BY <1>2, <1>3, <1>8, <2>1, RecordFlawless
<1>9. ASSUME SpelledConfigObservation(v)
      PROVE  DecodeConfigObservation(d) = Took(v)
  <2>1. \A i \in DOMAIN order : reading(d)[i] = Took(v[order[i]])
    BY <1>5, <1>7, <1>9
  <2>2. names \subseteq known /\ known \ {"snapshot"} \subseteq names
    BY DEF names
  <2>3. DecodeRecord(d, known, {"snapshot"}, reading(d)) =
          Took([k \in known |-> IF k \in {"snapshot"} \ names THEN Nil ELSE v[k]])
    <3> DEFINE rs == reading(d)
    <3>1. \A i \in DOMAIN order : rs[i] = Took(v[order[i]])
      BY <2>1
    <3> DEFINE optional == {"snapshot"}
    <3>2. names \subseteq known /\ known \ optional \subseteq names
      BY <2>2
    <3> HIDE DEF rs, known, optional
    <3>3. DecodeRecord(EncRecord(order, docs), known, optional, rs) =
            Took([k \in known |-> IF k \in optional \ names THEN Nil ELSE v[k]])
      BY <1>2, <3>1, <3>2, RoundTrip
    <3> QED
      BY <3>3 DEF rs, known, optional
  <2>4. [k \in known |-> IF k \in {"snapshot"} \ names THEN Nil ELSE v[k]] = v
    BY DEF names, IsConfigObservation, OfShape
  <2> QED
    BY <1>3, <2>3, <2>4
<1> QED
  BY <1>1, <1>6, <1>8, <1>9

-----------------------------------------------------------------------------
(* Results and arguments.                                                  *)

Methods == {"Read", "ReadUser", "ReplaceUser", "Observe"}

EncValue(m, v) ==
  CASE m = "Read"        -> EncSnapshot(v)
    [] m = "ReadUser"    -> EncUserSnapshot(v)
    [] m = "ReplaceUser" -> EncUserReplaceResult(v)
    [] m = "Observe"     -> EncConfigObservation(v)

DecodeValue(m, d) ==
  CASE m = "Read"        -> DecodeSnapshot(d)
    [] m = "ReadUser"    -> DecodeUserSnapshot(d)
    [] m = "ReplaceUser" -> DecodeUserReplaceResult(d)
    [] m = "Observe"     -> DecodeConfigObservation(d)

\* The value a method may give has the shape of its record ...
IsResult(m, v) ==
  /\ m = "Read"        => IsSnapshot(v)
  /\ m = "ReadUser"    => IsUserSnapshot(v)
  /\ m = "ReplaceUser" => IsUserReplaceResult(v)
  /\ m = "Observe"     => IsConfigObservation(v)

\* ... and can be written if every string in it can.
SpelledResult(m, v) ==
  /\ m = "Read"        => SpelledSnapshot(v)
  /\ m = "ReadUser"    => SpelledUserSnapshot(v)
  /\ m = "ReplaceUser" => SpelledUserReplaceResult(v)
  /\ m = "Observe"     => SpelledConfigObservation(v)

\* What a form of a result may be taken for.
HeardAs(m, v, w) == w = v \/ (m = "Observe" /\ OrWithout(v, w))

LEMMA ValueRead ==
  ASSUME NEW m \in Methods, NEW v, IsResult(m, v)
  PROVE  /\ \A e \in Forms(EncValue(m, v)) : Accepted(DecodeValue(m, e)) =>
              \E w : DecodeValue(m, e) = Took(w) /\ HeardAs(m, v, w)
         /\ Accepted(DecodeValue(m, EncValue(m, v))) => FirstFlaw(EncValue(m, v)) = "none"
         /\ SpelledResult(m, v) => DecodeValue(m, EncValue(m, v)) = Took(v)
<1> DEFINE f == [e \in Forms(EncValue(m, v)) |-> DecodeValue(m, e)]
<1>0. ASSUME Reads(f, EncValue(m, v), v), SpelledResult(m, v) => f[EncValue(m, v)] = Took(v)
      PROVE  /\ \A e \in Forms(EncValue(m, v)) : Accepted(DecodeValue(m, e)) =>
                  \E w : DecodeValue(m, e) = Took(w) /\ HeardAs(m, v, w)
             /\ Accepted(DecodeValue(m, EncValue(m, v))) => FirstFlaw(EncValue(m, v)) = "none"
             /\ SpelledResult(m, v) => DecodeValue(m, EncValue(m, v)) = Took(v)
  <2>0. EncValue(m, v) \in Forms(EncValue(m, v))
    BY FormsOfIt
  <2>1. HeardAs(m, v, v)
    BY DEF HeardAs
  <2>2. \A e \in Forms(EncValue(m, v)) : f[e] = DecodeValue(m, e)
    OBVIOUS
  <2> HIDE DEF f
  <2> QED
    BY <1>0, <2>0, <2>1, <2>2 DEF Reads
<1>1. CASE m = "Read"
  <2>1. EncValue(m, v) = EncSnapshot(v) /\ \A e : DecodeValue(m, e) = DecodeSnapshot(e)
    BY <1>1 DEF EncValue, DecodeValue
  <2>2. Reads(f, EncSnapshot(v), v) /\ (SpelledSnapshot(v) => f[EncSnapshot(v)] = Took(v))
    BY <1>1, <2>1, SnapshotRead DEF IsResult
  <2> QED
    BY <1>0, <1>1, <2>1, <2>2 DEF SpelledResult
<1>2. CASE m = "ReadUser"
  <2>1. EncValue(m, v) = EncUserSnapshot(v) /\ \A e : DecodeValue(m, e) = DecodeUserSnapshot(e)
    BY <1>2 DEF EncValue, DecodeValue
  <2>2. Reads(f, EncUserSnapshot(v), v) /\ (SpelledUserSnapshot(v) => f[EncUserSnapshot(v)] = Took(v))
    BY <1>2, <2>1, UserSnapshotRead DEF IsResult
  <2> QED
    BY <1>0, <1>2, <2>1, <2>2 DEF SpelledResult
<1>3. CASE m = "ReplaceUser"
  <2>1. EncValue(m, v) = EncUserReplaceResult(v) /\ \A e : DecodeValue(m, e) = DecodeUserReplaceResult(e)
    BY <1>3 DEF EncValue, DecodeValue
  <2>2. /\ Reads(f, EncUserReplaceResult(v), v)
        /\ SpelledUserReplaceResult(v) => f[EncUserReplaceResult(v)] = Took(v)
    BY <1>3, <2>1, UserReplaceResultRead DEF IsResult
  <2> QED
    BY <1>0, <1>3, <2>1, <2>2 DEF SpelledResult
<1>4. CASE m = "Observe"
  <2>1. EncValue(m, v) = EncConfigObservation(v) /\ \A e : DecodeValue(m, e) = DecodeConfigObservation(e)
    BY <1>4 DEF EncValue, DecodeValue
  <2>2. IsConfigObservation(v)
    BY <1>4 DEF IsResult
  <2> QED
    BY <1>4, <2>1, <2>2, ConfigObservationRead DEF SpelledResult, HeardAs
<1> QED
  BY <1>1, <1>2, <1>3, <1>4 DEF Methods

\* The walk over a result.
WalkResult(m, e) ==
  DecodeRecord(e, {"value"}, {}, [i \in DOMAIN Fields(e) |-> DecodeValue(m, Fields(e)[i].doc)])

LEMMA ResultIsRecord ==
  ASSUME NEW m \in Methods
  PROVE  /\ \A v : EncResult(m, v) = EncRecord(<<"value">>, [value |-> EncValue(m, v)])
         /\ \A e : Accepted(WalkResult(m, e)) => DecodeResult(m, e) = Took(WalkResult(m, e).took["value"])
         /\ \A e : ~Accepted(WalkResult(m, e)) => DecodeResult(m, e) = WalkResult(m, e)
<1>1. \A v : EncResult(m, v) = EncRecord(<<"value">>, [value |-> EncValue(m, v)])
  BY DEF EncResult, EncValue
<1>2. ASSUME NEW e
      PROVE  WalkResult(m, e) =
               CASE m = "Read"        -> DecodeReadResult(e)
                 [] m = "ReadUser"    -> DecodeReadUserResult(e)
                 [] m = "ReplaceUser" -> DecodeReplaceUserResult(e)
                 [] m = "Observe"     -> DecodeObserveResult(e)
  <2>1. CASE m = "Read"
    BY <2>1 DEF WalkResult, DecodeValue, DecodeReadResult
  <2>2. CASE m = "ReadUser"
    BY <2>2 DEF WalkResult, DecodeValue, DecodeReadUserResult
  <2>3. CASE m = "ReplaceUser"
    BY <2>3 DEF WalkResult, DecodeValue, DecodeReplaceUserResult
  <2>4. CASE m = "Observe"
    BY <2>4 DEF WalkResult, DecodeValue, DecodeObserveResult
  <2> QED
    BY <2>1, <2>2, <2>3, <2>4 DEF Methods
<1> QED
  BY <1>1, <1>2 DEF DecodeResult

LEMMA ResultRead ==
  ASSUME NEW m \in Methods, NEW v, IsResult(m, v)
  PROVE  /\ \A e \in Forms(EncResult(m, v)) : Accepted(DecodeResult(m, e)) =>
              \E w : DecodeResult(m, e) = Took(w) /\ HeardAs(m, v, w)
         /\ Accepted(DecodeResult(m, EncResult(m, v))) => FirstFlaw(EncResult(m, v)) = "none"
         /\ SpelledResult(m, v) => DecodeResult(m, EncResult(m, v)) = Took(v)
<1> DEFINE x == EncValue(m, v)
           docs == [value |-> x]
           order == <<"value">>
           names == {"value"}
           d == EncRecord(order, docs)
           reading(e) == [i \in DOMAIN Fields(e) |-> DecodeValue(m, Fields(e)[i].doc)]
<1>1. EncResult(m, v) = d /\ docs["value"] = x
  BY ResultIsRecord
<1>2. Lists(order, names) /\ "invented" \notin names /\ "value" \in names
  BY SmallOrders
<1>3. \A e : WalkResult(m, e) = DecodeRecord(e, names, {}, reading(e))
  BY DEF WalkResult
<1>4. \A e : IsA("fields", e) => \A i \in DOMAIN e.fields : reading(e)[i] = DecodeValue(m, e.fields[i].doc)
  BY DEF Fields
<1>5. \A i \in DOMAIN order : reading(d)[i] = DecodeValue(m, x) /\ docs[order[i]] = x /\ order[i] = "value"
  <2>1. \A i \in DOMAIN order : order[i] = "value"
    OBVIOUS
  <2>2. /\ IsA("fields", d) /\ DOMAIN d.fields = DOMAIN order
        /\ \A i \in DOMAIN order : d.fields[i].doc = docs[order[i]]
    BY <1>2, EncodedFields
  <2> HIDE DEF d, order, reading
  <2> QED
    BY <1>4, <2>1, <2>2
<1> HIDE DEF x, docs, order, names, reading
<1>6. ASSUME NEW e \in Forms(d), Accepted(DecodeResult(m, e))
      PROVE  \E w : DecodeResult(m, e) = Took(w) /\ HeardAs(m, v, w)
  <2>1. Accepted(WalkResult(m, e)) /\ DecodeResult(m, e) = Took(WalkResult(m, e).took["value"])
    BY <1>6, ResultIsRecord
  <2> DEFINE rs == reading(e)
  <2>2. WalkResult(m, e) = DecodeRecord(e, names, {}, rs)
    BY <1>3
  <2> HIDE DEF rs
  <2>3. PICK i \in DOMAIN e.fields :
          /\ IsA("fields", e)
          /\ e.fields[i].doc \in Forms(docs["value"])
          /\ Accepted(rs[i])
          /\ DecodeRecord(e, names, {}, rs).took["value"] = rs[i].took
    BY <1>2, <2>1, <2>2, FieldOfVariant
  <2>4. rs[i] = DecodeValue(m, e.fields[i].doc)
    BY <1>4, <2>3 DEF rs
  <2>5. PICK w : rs[i] = Took(w) /\ HeardAs(m, v, w)
    BY <1>1, <2>3, <2>4, ValueRead DEF x
  <2> QED
    BY <2>1, <2>2, <2>3, <2>5, TookAccepted
<1>7. ASSUME Accepted(DecodeResult(m, d))
      PROVE  FirstFlaw(d) = "none"
  <2>1. Accepted(DecodeRecord(d, names, {}, reading(d)))
    BY <1>3, <1>7, ResultIsRecord
  <2>2. \A i \in DOMAIN order : Accepted(reading(d)[i]) => FirstFlaw(docs[order[i]]) = "none"
    BY <1>5, ValueRead DEF x
  <2> QED
    BY <1>2, <2>1, <2>2, RecordFlawless
<1>8. ASSUME SpelledResult(m, v)
      PROVE  DecodeResult(m, d) = Took(v)
  <2> DEFINE rs == reading(d)
             vals == [value |-> v]
  <2>1. \A i \in DOMAIN order : rs[i] = Took(vals[order[i]])
    BY <1>5, <1>8, ValueRead DEF x
  <2>2. vals = [k \in {"value"} |-> v] /\ vals["value"] = v
    OBVIOUS
  <2> HIDE DEF rs, vals
  <2>3. DecodeRecord(EncRecord(order, docs), names, {}, rs) =
          Took([k \in names |-> IF k \in {} \ names THEN Nil ELSE vals[k]])
    BY <1>2, <2>1, RoundTrip
  <2>4. WalkResult(m, d) = DecodeRecord(EncRecord(order, docs), names, {}, rs)
    BY <1>3 DEF rs
  <2>5. [k \in names |-> IF k \in {} \ names THEN Nil ELSE vals[k]]["value"] = v
    BY <1>2, <2>2
  <2>6. Accepted(WalkResult(m, d)) /\ WalkResult(m, d).took["value"] = v
    BY <2>3, <2>4, <2>5, TookAccepted
  <2> QED
    BY <2>6, ResultIsRecord
<1> QED
  BY <1>1, <1>6, <1>7, <1>8

\* The arguments of a method have the shape of its record.
IsArguments(m, v) ==
  /\ m = "Read"        => OfShape(v, {"overrides"}) /\ OfShape(v["overrides"], TextKeys)
  /\ m = "ReadUser"    => OfShape(v, {})
  /\ m = "ReplaceUser" => OfShape(v, {"expected_revision", "values"}) /\ OfShape(v["values"], Keys)
  /\ m = "Observe"     => /\ OfShape(v, {"overrides", "cursor", "wait_ms"})
                          /\ OfShape(v["overrides"], TextKeys)

ArgumentNames(m) ==
  CASE m = "Read"        -> {"overrides"}
    [] m = "ReadUser"    -> {}
    [] m = "ReplaceUser" -> {"expected_revision", "values"}
    [] m = "Observe"     -> {"overrides", "cursor", "wait_ms"}

ArgumentOrder(m) ==
  CASE m = "Read"        -> <<"overrides">>
    [] m = "ReadUser"    -> <<>>
    [] m = "ReplaceUser" -> <<"expected_revision", "values">>
    [] m = "Observe"     -> <<"overrides", "cursor", "wait_ms">>

EncArgument(k, x) ==
  CASE k = "overrides" -> EncRunOverrides(x)
    [] k = "values"    -> EncUserSettings(x)
    [] k = "wait_ms"   -> Number(x)
    [] OTHER           -> Text(x)

DecodeArgument(k, d) ==
  CASE k = "overrides" -> DecodeRunOverrides(d)
    [] k = "values"    -> DecodeUserSettings(d)
    [] k = "wait_ms"   -> Integer(d)
    [] OTHER           -> Str(d)

\* The arguments are records of these fields.
LEMMA ArgumentsAreRecords ==
  ASSUME NEW m \in Methods
  PROVE  /\ \A v : \E docs :
              /\ EncArguments(m, v) = EncRecord(ArgumentOrder(m), docs)
              /\ \A k \in ArgumentNames(m) : docs[k] = EncArgument(k, v[k])
         /\ \A e : \E reading :
              /\ DecodeArguments(m, e) = DecodeRecord(e, ArgumentNames(m), {}, reading)
              /\ IsA("fields", e) => \A i \in DOMAIN e.fields : e.fields[i].name \in ArgumentNames(m) =>
                   reading[i] = DecodeArgument(e.fields[i].name, e.fields[i].doc)
         /\ Lists(ArgumentOrder(m), ArgumentNames(m)) /\ "invented" \notin ArgumentNames(m)
         /\ \A v : IsArguments(m, v) =>
              /\ OfShape(v, ArgumentNames(m))
              /\ "overrides" \in ArgumentNames(m) => OfShape(v["overrides"], TextKeys)
              /\ "values" \in ArgumentNames(m) => OfShape(v["values"], Keys)
<1>0. /\ \A d : DecodeArgument("overrides", d) = DecodeRunOverrides(d)
      /\ \A d : DecodeArgument("values", d) = DecodeUserSettings(d)
      /\ \A d : DecodeArgument("wait_ms", d) = Integer(d)
      /\ \A d : DecodeArgument("cursor", d) = Str(d) /\ DecodeArgument("expected_revision", d) = Str(d)
      /\ \A x : EncArgument("overrides", x) = EncRunOverrides(x)
      /\ \A x : EncArgument("values", x) = EncUserSettings(x)
      /\ \A x : EncArgument("wait_ms", x) = Number(x)
      /\ \A x : EncArgument("cursor", x) = Text(x) /\ EncArgument("expected_revision", x) = Text(x)
  BY DEF EncArgument, DecodeArgument
<1>1. CASE m = "Read"
  <2>1. ArgumentNames(m) = {"overrides"} /\ ArgumentOrder(m) = <<"overrides">>
    BY <1>1 DEF ArgumentNames, ArgumentOrder
  <2>2. ASSUME NEW v
        PROVE  \E docs : /\ EncArguments(m, v) = EncRecord(ArgumentOrder(m), docs)
                         /\ \A k \in ArgumentNames(m) : docs[k] = EncArgument(k, v[k])
    <3> DEFINE docs == [overrides |-> EncRunOverrides(v.overrides)]
    <3>1. EncArguments(m, v) = EncRecord(ArgumentOrder(m), docs)
      BY <1>1, <2>1 DEF EncArguments, EncReadArguments
    <3>2. \A k \in ArgumentNames(m) : docs[k] = EncArgument(k, v[k])
      BY <1>0, <2>1
    <3> QED
      BY <3>1, <3>2
  <2>3. ASSUME NEW e
        PROVE  \E reading :
                 /\ DecodeArguments(m, e) = DecodeRecord(e, ArgumentNames(m), {}, reading)
                 /\ IsA("fields", e) => \A i \in DOMAIN e.fields : e.fields[i].name \in ArgumentNames(m) =>
                      reading[i] = DecodeArgument(e.fields[i].name, e.fields[i].doc)
    <3> DEFINE reading == [i \in DOMAIN Fields(e) |-> DecodeRunOverrides(Fields(e)[i].doc)]
    <3>1. DecodeArguments(m, e) = DecodeRecord(e, ArgumentNames(m), {}, reading)
      BY <1>1, <2>1 DEF DecodeArguments, DecodeReadArguments
    <3>2. IsA("fields", e) => \A i \in DOMAIN e.fields : e.fields[i].name \in ArgumentNames(m) =>
            reading[i] = DecodeArgument(e.fields[i].name, e.fields[i].doc)
      BY <1>0, <2>1 DEF Fields
    <3> QED
      BY <3>1, <3>2
  <2> QED
    BY <1>1, <2>1, <2>2, <2>3, SmallOrders DEF IsArguments
<1>2. CASE m = "ReadUser"
  <2>1. ArgumentNames(m) = {} /\ ArgumentOrder(m) = <<>>
    BY <1>2 DEF ArgumentNames, ArgumentOrder
  <2>2. \A v : EncArguments(m, v) = EncRecord(ArgumentOrder(m), v)
    BY <1>2, <2>1 DEF EncArguments, EncReadUserArguments
  <2>3. \A e : DecodeArguments(m, e) = DecodeRecord(e, ArgumentNames(m), {}, <<>>)
    BY <1>2, <2>1 DEF DecodeArguments, DecodeReadUserArguments
  <2> QED
    BY <1>2, <2>1, <2>2, <2>3, SmallOrders DEF IsArguments
<1>3. CASE m = "ReplaceUser"
  <2>1. ArgumentNames(m) = {"expected_revision", "values"} /\ ArgumentOrder(m) = <<"expected_revision", "values">>
    BY <1>3 DEF ArgumentNames, ArgumentOrder
  <2>2. ASSUME NEW v
        PROVE  \E docs : /\ EncArguments(m, v) = EncRecord(ArgumentOrder(m), docs)
                         /\ \A k \in ArgumentNames(m) : docs[k] = EncArgument(k, v[k])
    <3> DEFINE docs == [expected_revision |-> Text(v.expected_revision), values |-> EncUserSettings(v.values)]
    <3>1. EncArguments(m, v) = EncRecord(ArgumentOrder(m), docs)
      BY <1>3, <2>1 DEF EncArguments, EncReplaceUserArguments
    <3>2. \A k \in ArgumentNames(m) : docs[k] = EncArgument(k, v[k])
      BY <1>0, <2>1
    <3> QED
      BY <3>1, <3>2
  <2>3. ASSUME NEW e
        PROVE  \E reading :
                 /\ DecodeArguments(m, e) = DecodeRecord(e, ArgumentNames(m), {}, reading)
                 /\ IsA("fields", e) => \A i \in DOMAIN e.fields : e.fields[i].name \in ArgumentNames(m) =>
                      reading[i] = DecodeArgument(e.fields[i].name, e.fields[i].doc)
    <3> DEFINE reading == [i \in DOMAIN Fields(e) |->
                 LET f == Fields(e)[i]
                 IN  IF f.name = "values" THEN DecodeUserSettings(f.doc) ELSE Str(f.doc)]
    <3>1. DecodeArguments(m, e) = DecodeRecord(e, ArgumentNames(m), {}, reading)
      BY <1>3, <2>1 DEF DecodeArguments, DecodeReplaceUserArguments
    <3>2. IsA("fields", e) => \A i \in DOMAIN e.fields : e.fields[i].name \in ArgumentNames(m) =>
            reading[i] = DecodeArgument(e.fields[i].name, e.fields[i].doc)
      BY <1>0, <2>1 DEF Fields
    <3> QED
      BY <3>1, <3>2
  <2> QED
    BY <1>3, <2>1, <2>2, <2>3, SmallOrders DEF IsArguments
<1>4. CASE m = "Observe"
  <2>1. /\ ArgumentNames(m) = {"overrides", "cursor", "wait_ms"}
        /\ ArgumentOrder(m) = <<"overrides", "cursor", "wait_ms">>
    BY <1>4 DEF ArgumentNames, ArgumentOrder
  <2>2. ASSUME NEW v
        PROVE  \E docs : /\ EncArguments(m, v) = EncRecord(ArgumentOrder(m), docs)
                         /\ \A k \in ArgumentNames(m) : docs[k] = EncArgument(k, v[k])
    <3> DEFINE docs == [overrides |-> EncRunOverrides(v.overrides), cursor |-> Text(v.cursor),
                        wait_ms   |-> Number(v.wait_ms)]
    <3>1. EncArguments(m, v) = EncRecord(ArgumentOrder(m), docs)
      BY <1>4, <2>1 DEF EncArguments, EncObserveArguments
    <3>2. \A k \in ArgumentNames(m) : docs[k] = EncArgument(k, v[k])
      BY <1>0, <2>1
    <3> QED
      BY <3>1, <3>2
  <2>3. ASSUME NEW e
        PROVE  \E reading :
                 /\ DecodeArguments(m, e) = DecodeRecord(e, ArgumentNames(m), {}, reading)
                 /\ IsA("fields", e) => \A i \in DOMAIN e.fields : e.fields[i].name \in ArgumentNames(m) =>
                      reading[i] = DecodeArgument(e.fields[i].name, e.fields[i].doc)
    <3> DEFINE reading == [i \in DOMAIN Fields(e) |->
                 LET f == Fields(e)[i]
                 IN  IF f.name = "overrides" THEN DecodeRunOverrides(f.doc)
                     ELSE IF f.name = "cursor" THEN Str(f.doc) ELSE Integer(f.doc)]
    <3>1. DecodeArguments(m, e) = DecodeRecord(e, ArgumentNames(m), {}, reading)
      BY <1>4, <2>1 DEF DecodeArguments, DecodeObserveArguments
    <3>2. IsA("fields", e) => \A i \in DOMAIN e.fields : e.fields[i].name \in ArgumentNames(m) =>
            reading[i] = DecodeArgument(e.fields[i].name, e.fields[i].doc)
      BY <1>0, <2>1 DEF Fields
    <3> QED
      BY <3>1, <3>2
  <2>4. Lists(ArgumentOrder(m), ArgumentNames(m))
    BY <2>1, SmallOrders
  <2>5. "invented" \notin ArgumentNames(m)
    BY <2>1
  <2>6. \A v : IsArguments(m, v) =>
          /\ OfShape(v, ArgumentNames(m))
          /\ "overrides" \in ArgumentNames(m) => OfShape(v["overrides"], TextKeys)
          /\ "values" \in ArgumentNames(m) => OfShape(v["values"], Keys)
    BY <1>4, <2>1 DEF IsArguments
  <2> QED
    BY <2>2, <2>3, <2>4, <2>5, <2>6
<1> QED
  BY <1>1, <1>2, <1>3, <1>4 DEF Methods

LEMMA ArgumentsRead ==
  ASSUME NEW m \in Methods, NEW v, IsArguments(m, v),
         NEW e \in Forms(EncArguments(m, v)), Accepted(DecodeArguments(m, e))
  PROVE  DecodeArguments(m, e) = Took(v)
<1> DEFINE names == ArgumentNames(m)
           order == ArgumentOrder(m)
<1>1. /\ Lists(order, names) /\ "invented" \notin names /\ OfShape(v, names)
      /\ "overrides" \in names => OfShape(v["overrides"], TextKeys)
      /\ "values" \in names => OfShape(v["values"], Keys)
  BY ArgumentsAreRecords
<1>2. PICK docs : /\ EncArguments(m, v) = EncRecord(order, docs)
                  /\ \A k \in names : docs[k] = EncArgument(k, v[k])
  BY ArgumentsAreRecords
<1>3. PICK reading :
        /\ DecodeArguments(m, e) = DecodeRecord(e, names, {}, reading)
        /\ IsA("fields", e) => \A i \in DOMAIN e.fields : e.fields[i].name \in names =>
             reading[i] = DecodeArgument(e.fields[i].name, e.fields[i].doc)
  BY ArgumentsAreRecords
<1> HIDE DEF names, order
<1>4. ASSUME NEW k \in names, NEW x \in Forms(docs[k]), Accepted(DecodeArgument(k, x))
      PROVE  DecodeArgument(k, x) = Took(v[k])
  <2>1. CASE k = "overrides"
    <3>1. docs[k] = EncRunOverrides(v["overrides"]) /\ \A d : DecodeArgument(k, d) = DecodeRunOverrides(d)
      BY <1>2, <2>1 DEF EncArgument, DecodeArgument
    <3> DEFINE f == [d \in Forms(EncRunOverrides(v["overrides"])) |-> DecodeRunOverrides(d)]
    <3>2. Reads(f, EncRunOverrides(v["overrides"]), v["overrides"])
      BY <1>1, <2>1, OverridesRead
    <3> QED
      BY <1>4, <2>1, <3>1, <3>2 DEF Reads
  <2>2. CASE k = "values"
    <3>1. docs[k] = EncUserSettings(v["values"]) /\ \A d : DecodeArgument(k, d) = DecodeUserSettings(d)
      BY <1>2, <2>2 DEF EncArgument, DecodeArgument
    <3> DEFINE f == [d \in Forms(EncUserSettings(v["values"])) |-> DecodeUserSettings(d)]
    <3>2. Reads(f, EncUserSettings(v["values"]), v["values"])
      BY <1>1, <2>2, UserSettingsRead
    <3> QED
      BY <1>4, <2>2, <3>1, <3>2 DEF Reads
  <2>3. CASE k = "wait_ms"
    <3>1. docs[k] = Number(v[k]) /\ \A d : DecodeArgument(k, d) = Integer(d)
      BY <1>2, <2>3 DEF EncArgument, DecodeArgument
    <3> QED
      BY <1>4, <3>1, ValueVariants DEF Forms
  <2>4. CASE k \notin {"overrides", "values", "wait_ms"}
    <3>1. docs[k] = Text(v[k]) /\ \A d : DecodeArgument(k, d) = Str(d)
      BY <1>2, <2>4 DEF EncArgument, DecodeArgument
    <3> QED
      BY <1>4, <3>1, ValueVariants DEF Forms
  <2> QED
    BY <2>1, <2>2, <2>3, <2>4
<1>5. e \in Variants(EncRecord(order, docs))
  BY <1>2, <1>3, SpoiledIsRefused DEF Forms
<1>6. IsA("fields", e)
  BY <1>1, <1>5, VariantFields
<1>7. ASSUME NEW i \in DOMAIN e.fields, e.fields[i].name \in names,
             e.fields[i].doc \in Variants(docs[e.fields[i].name]) \cup Spoiled,
             Accepted(reading[i])
      PROVE  reading[i] = Took(v[e.fields[i].name])
  BY <1>3, <1>4, <1>6, <1>7 DEF Forms
<1>8. DecodeRecord(e, names, {}, reading) =
        Took([k \in names |-> IF k \in {} \ Names(e) THEN Nil ELSE v[k]])
  BY <1>1, <1>3, <1>5, <1>7, VariantTaken
<1>9. [k \in names |-> IF k \in {} \ Names(e) THEN Nil ELSE v[k]] = v
  BY <1>1 DEF OfShape
<1> QED
  BY <1>3, <1>8, <1>9

\* The readers of single values decide.
LEMMA ValuesDecide ==
  \A d : Decided(Str(d)) /\ Decided(StrMap(d)) /\ Decided(Integer(d))
<1>1. ASSUME NEW d
      PROVE  Decided(Str(d))
  BY TookAccepted DEF Str, Decided, RefusalWords, WrongType
<1>2. ASSUME NEW d
      PROVE  Decided(StrMap(d))
  BY TookAccepted DEF StrMap, Decided, RefusalWords, WrongType
<1>3. ASSUME NEW d
      PROVE  Decided(Integer(d))
  BY TookAccepted DEF Integer, Decided, RefusalWords, WrongType
<1> QED
  BY <1>1, <1>2, <1>3

LEMMA ArgumentDecides ==
  ASSUME NEW k, NEW d, Plain(d)
  PROVE  Decided(DecodeArgument(k, d))
<1>1. Decided(DecodeRunOverrides(d))
  <2>1. \A i \in DOMAIN Fields(d) : Decided(Strs(d)[i])
    BY ValuesDecide DEF Strs
  <2> QED
    BY <2>1, RecordDecides DEF DecodeRunOverrides, Fields
<1>2. Decided(DecodeUserSettings(d))
  <2> DEFINE reading == [i \in DOMAIN Fields(d) |-> ReadSetting(Fields(d)[i])]
  <2>1. \A i \in DOMAIN Fields(d) : Decided(reading[i])
    BY ValuesDecide DEF ReadSetting
  <2> HIDE DEF reading
  <2>2. Decided(DecodeRecord(d, Keys, {}, reading))
    BY <2>1, RecordDecides DEF Fields
  <2> QED
    BY <2>2 DEF DecodeUserSettings, reading
<1> QED
  BY <1>1, <1>2, ValuesDecide DEF DecodeArgument

\* Whatever was written as the arguments of one method, and whatever became of
\* it: read as the arguments of any method, it is taken or refused with a word.
LEMMA ArgumentsDecide ==
  ASSUME NEW m \in Methods, NEW v, NEW e \in Forms(EncArguments(m, v)), NEW n \in Methods
  PROVE  Decided(DecodeArguments(n, e))
<1> DEFINE order == ArgumentOrder(m)
           names == ArgumentNames(m)
           known == ArgumentNames(n)
<1>1. Lists(order, names) /\ "invented" \notin known
  BY ArgumentsAreRecords
<1>2. PICK docs : /\ EncArguments(m, v) = EncRecord(order, docs)
                  /\ \A k \in names : docs[k] = EncArgument(k, v[k])
  BY ArgumentsAreRecords
<1>3. PICK reading :
        /\ DecodeArguments(n, e) = DecodeRecord(e, known, {}, reading)
        /\ IsA("fields", e) => \A i \in DOMAIN e.fields : e.fields[i].name \in known =>
             reading[i] = DecodeArgument(e.fields[i].name, e.fields[i].doc)
  BY ArgumentsAreRecords
<1> HIDE DEF order, names, known
<1>4. \A x \in Spoiled : ~IsA("fields", x) /\ Plain(x)
  BY Leaves DEF Spoiled, Plain
<1>5. CASE e \in Spoiled
  BY <1>3, <1>4, <1>5 DEF DecodeRecord, WrongType, Decided, RefusalWords
<1>6. CASE e \in Variants(EncRecord(order, docs))
  <2>1. /\ IsA("fields", e) /\ Plain(e)
        /\ \A i \in DOMAIN e.fields :
             \/ e.fields[i].name = "invented"
             \/ \E j \in 1 .. i - 1 : e.fields[j].name = e.fields[i].name
             \/ /\ e.fields[i].name \in names
                /\ e.fields[i].doc \in Variants(docs[e.fields[i].name]) \cup Spoiled
    BY <1>1, <1>6, VariantFields
  <2>2. ASSUME NEW k \in names, NEW x \in Variants(docs[k])
        PROVE  Plain(x)
    <3>1. docs[k] = EncArgument(k, v[k])
      BY <1>2
    <3>2. CASE k = "overrides"
      <4>1. docs[k] = EncRecord(TextOrder, Texts(v[k]))
        BY <3>1, <3>2 DEF EncArgument, EncRunOverrides
      <4> QED
        BY <4>1, SchemaListed, VariantFields
    <3>3. CASE k = "values"
      <4>1. \E ds : docs[k] = EncRecord(KeyOrder, ds)
        BY <3>1, <3>3 DEF EncArgument, EncUserSettings
      <4> QED
        BY <4>1, SchemaListed, VariantFields
    <3>4. CASE k \notin {"overrides", "values"}
      <4>1. ~IsA("fields", docs[k])
        BY <3>1, <3>4, Leaves DEF EncArgument
      <4> QED
        BY <4>1, LeafVariants DEF Plain
    <3> QED
      BY <3>2, <3>3, <3>4
  <2>3. ASSUME NEW i \in DOMAIN e.fields, e.fields[i].name \in known,
               ~\E j \in 1 .. i - 1 : e.fields[j].name = e.fields[i].name
        PROVE  Decided(reading[i])
    <3>1. Plain(e.fields[i].doc)
      BY <1>1, <1>4, <2>1, <2>2, <2>3
    <3> QED
      BY <1>3, <2>1, <2>3, <3>1, ArgumentDecides
  <2> QED
    BY <1>3, <2>1, <2>3, RecordDecides
<1> QED
  BY <1>2, <1>5, <1>6 DEF Forms

-----------------------------------------------------------------------------
(* Envelopes.                                                              *)

\* A frame, and what it may arrive as.
Frames(frame) == {frame} \cup Arrivals(frame)

\* The record of these documents, but for the fields of X.
Like(d, order, docs, X) ==
  /\ IsA("fields", d) /\ DOMAIN d.fields = DOMAIN order
  /\ \A i \in DOMAIN order :
       d.fields[i].name = order[i] /\ (order[i] \notin X => d.fields[i].doc = docs[order[i]])

LEMMA ReplacedIsLike ==
  ASSUME NEW d, NEW order, NEW docs, NEW X, Like(d, order, docs, X), NEW n, NEW doc
  PROVE  Like(Replaced(d, n, doc), order, docs, X \cup {n})
<1> DEFINE fs == [i \in DOMAIN d.fields |->
                    IF d.fields[i].name = n THEN [name |-> n, doc |-> doc] ELSE d.fields[i]]
<1>1. Replaced(d, n, doc) = Object(fs)
  BY DEF Replaced
<1>2. DOMAIN fs = DOMAIN order
  BY DEF Like
<1>3. ASSUME NEW i \in DOMAIN order
      PROVE  fs[i].name = order[i] /\ (order[i] \notin X \cup {n} => fs[i].doc = docs[order[i]])
  <2>1. CASE d.fields[i].name = n
    BY <2>1 DEF Like
  <2>2. CASE d.fields[i].name # n
    BY <2>2 DEF Like
  <2> QED
    BY <2>1, <2>2
<1> HIDE DEF fs
<1> QED
  BY <1>1, <1>2, <1>3, ObjectHasFields DEF Like

\* What an envelope carries beside its labels.
Labels == {"version", "service", "method", "ok"}

LEMMA ArrivalIsLike ==
  ASSUME NEW order, NEW names, Lists(order, names), NEW docs,
         NEW e \in Frames(EncRecord(order, docs))
  PROVE  e \in Variants(EncRecord(order, docs)) \/ Like(e, order, docs, Labels)
<1> DEFINE d == EncRecord(order, docs)
<1>1. Like(d, order, docs, {})
  BY EncodedFields DEF Like
<1> HIDE DEF d
<1>2. \/ e \in Variants(d)
      \/ \E s, m : e = Replaced(Replaced(d, "service", s), "method", m)
      \/ \E n \in {"version", "ok"} : \E x : e = Replaced(d, n, x)
  BY DEF Frames, Arrivals, Variants, d
<1>3. ASSUME NEW s, NEW m, e = Replaced(Replaced(d, "service", s), "method", m)
      PROVE  Like(e, order, docs, Labels)
  <2>1. Like(Replaced(d, "service", s), order, docs, {} \cup {"service"})
    BY <1>1, ReplacedIsLike
  <2>2. Like(e, order, docs, ({} \cup {"service"}) \cup {"method"})
    BY <1>3, <2>1, ReplacedIsLike
  <2> QED
    BY <2>2 DEF Like, Labels
<1>4. ASSUME NEW n \in {"version", "ok"}, NEW x, e = Replaced(d, n, x)
      PROVE  Like(e, order, docs, Labels)
  <2>1. Like(e, order, docs, {} \cup {n})
    BY <1>1, <1>4, ReplacedIsLike
  <2> QED
    BY <2>1 DEF Like, Labels
<1> QED
  BY <1>2, <1>3, <1>4 DEF d

\* The field of a frame that is no label.
LEMMA FieldOfArrival ==
  ASSUME NEW names, NEW order, Lists(order, names), "invented" \notin names, NEW docs,
         NEW e \in Frames(EncRecord(order, docs)), NEW reading,
         Accepted(DecodeRecord(e, names, {}, reading)),
         NEW k \in names, k \notin Labels
  PROVE  \E i \in DOMAIN e.fields :
           /\ IsA("fields", e)
           /\ e.fields[i].name = k
           /\ e.fields[i].doc \in Forms(docs[k])
           /\ Accepted(reading[i])
           /\ DecodeRecord(e, names, {}, reading).took[k] = reading[i].took
<1>1. CASE e \in Variants(EncRecord(order, docs))
  <2>1. e \in Forms(EncRecord(order, docs)) /\ k \notin {}
    BY <1>1, FormsOfIt
  <2> QED
    BY <2>1, FieldOfVariant
<1>2. CASE Like(e, order, docs, Labels)
  <2> DEFINE of(n) == CHOOSE i \in DOMAIN e.fields : e.fields[i].name = n
             got   == [n \in names |-> IF n \in Names(e) THEN reading[of(n)].took ELSE Nil]
  <2>1. Plain(e)
    BY <1>2 DEF Plain, Like, Lists
  <2>2. /\ IsA("fields", e)
        /\ \A i \in DOMAIN e.fields : Accepted(reading[i])
        /\ names \ {} \subseteq Names(e)
        /\ DecodeRecord(e, names, {}, reading) = Took(got)
    BY <2>1, RecordTaken
  <2>3. k \in Names(e)
    BY <2>2
  <2>4. of(k) \in DOMAIN e.fields /\ e.fields[of(k)].name = k
    BY <2>2, <2>3 DEF Names, Fields
  <2>5. got[k] = reading[of(k)].took
    BY <2>3
  <2> HIDE DEF of, got
  <2>6. e.fields[of(k)].doc \in Forms(docs[k])
    BY <1>2, <2>4, FormsOfIt DEF Like
  <2> QED
    BY <2>2, <2>4, <2>5, <2>6, TookAccepted
<1> QED
  BY <1>1, <1>2, ArrivalIsLike

\* A string that is taken is spelled.
LEMMA TakenIsSpelled == \A d : Accepted(Str(d)) => Str(d).took # BadText
BY TookAccepted DEF Str, WrongType

FrameOrder == <<"version", "service", "method", "arguments">>
FrameNames == {"version", "service", "method", "arguments"}
FrameDocs(v) ==
  [version |-> Number(v.version), service |-> Text(v.service), method |-> Text(v.method),
   arguments |-> v.arguments]
ReplyOrder == <<"version", "service", "method", "ok", "payload">>
ReplyNames == {"version", "service", "method", "ok", "payload"}
ReplyDocs(v) ==
  [version |-> Number(v.version), service |-> Text(v.service), method |-> Text(v.method),
   ok |-> Flag(v.ok), payload |-> v.payload]

LEMMA EnvelopeOrders == Lists(FrameOrder, FrameNames) /\ Lists(ReplyOrder, ReplyNames)
<1>1. Lists(FrameOrder, FrameNames)
  <2>1. /\ FrameOrder \in Seq(FrameNames) /\ DOMAIN FrameOrder = {1, 2, 3, 4}
        /\ FrameOrder[1] = "version" /\ FrameOrder[2] = "service"
        /\ FrameOrder[3] = "method" /\ FrameOrder[4] = "arguments"
    BY DEF FrameOrder, FrameNames
  <2> QED
    BY <2>1 DEF Lists, FrameNames
<1>2. Lists(ReplyOrder, ReplyNames)
  <2>1. /\ ReplyOrder \in Seq(ReplyNames) /\ DOMAIN ReplyOrder = {1, 2, 3, 4, 5}
        /\ ReplyOrder[1] = "version" /\ ReplyOrder[2] = "service"
        /\ ReplyOrder[3] = "method" /\ ReplyOrder[4] = "ok" /\ ReplyOrder[5] = "payload"
    BY DEF ReplyOrder, ReplyNames
  <2> QED
    BY <2>1 DEF Lists, ReplyNames
<1> QED
  BY <1>1, <1>2

\* The walk over an envelope.
FrameReading(d) == [i \in DOMAIN Fields(d) |->
  LET f == Fields(d)[i]
  IN  IF f.name = "version" THEN Integer(f.doc)
      ELSE IF f.name = "arguments" THEN RawValue(f.doc) ELSE Str(f.doc)]
ReplyReading(d) == [i \in DOMAIN Fields(d) |->
  LET f == Fields(d)[i]
  IN  IF f.name = "version" THEN Integer(f.doc)
      ELSE IF f.name = "ok" THEN Bool(f.doc)
      ELSE IF f.name = "payload" THEN RawValue(f.doc) ELSE Str(f.doc)]

LEMMA EnvelopesAreRecords ==
  /\ \A d : DecodeServiceFrame(d) = DecodeRecord(d, FrameNames, {}, FrameReading(d))
  /\ \A d : DecodeServiceReply(d) = DecodeRecord(d, ReplyNames, {}, ReplyReading(d))
  /\ \A v : EncServiceFrame(v) = EncRecord(FrameOrder, FrameDocs(v))
  /\ \A v : EncServiceReply(v) = EncRecord(ReplyOrder, ReplyDocs(v))
<1>1. \A d : DecodeServiceFrame(d) = DecodeRecord(d, FrameNames, {}, FrameReading(d))
  BY DEF DecodeServiceFrame, FrameNames, FrameReading
<1>2. \A d : DecodeServiceReply(d) = DecodeRecord(d, ReplyNames, {}, ReplyReading(d))
  BY DEF DecodeServiceReply, ReplyNames, ReplyReading
<1>3. \A v : EncServiceFrame(v) = EncRecord(FrameOrder, FrameDocs(v))
  BY DEF EncServiceFrame, FrameOrder, FrameDocs
<1>4. \A v : EncServiceReply(v) = EncRecord(ReplyOrder, ReplyDocs(v))
  BY DEF EncServiceReply, ReplyOrder, ReplyDocs
<1> QED
  BY <1>1, <1>2, <1>3, <1>4

\* What is carried raw is taken as it is.
LEMMA RawIsTaken == \A d : Accepted(RawValue(d)) => RawValue(d) = Took(d) /\ FirstFlaw(d) = "none"
BY TookAccepted DEF RawValue

\* A field of a record that is taken.
LEMMA FieldTaken ==
  ASSUME NEW d, Plain(d), NEW known, NEW reading,
         Accepted(DecodeRecord(d, known, {}, reading)), NEW k \in known
  PROVE  \E i \in DOMAIN d.fields :
           /\ IsA("fields", d)
           /\ d.fields[i].name = k /\ Accepted(reading[i])
           /\ DecodeRecord(d, known, {}, reading).took[k] = reading[i].took
<1> DEFINE of(n) == CHOOSE i \in DOMAIN d.fields : d.fields[i].name = n
           got   == [n \in known |-> IF n \in Names(d) THEN reading[of(n)].took ELSE Nil]
<1>1. /\ IsA("fields", d)
      /\ \A i \in DOMAIN d.fields : Accepted(reading[i])
      /\ known \ {} \subseteq Names(d)
      /\ DecodeRecord(d, known, {}, reading) = Took(got)
  BY RecordTaken
<1>2. k \in Names(d)
  BY <1>1
<1>3. of(k) \in DOMAIN d.fields /\ d.fields[of(k)].name = k
  BY <1>1, <1>2 DEF Names, Fields
<1>4. got[k] = reading[of(k)].took
  BY <1>2
<1> HIDE DEF of, got
<1> QED
  BY <1>1, <1>3, <1>4, TookAccepted

LEMMA TakenIsTook ==
  ASSUME NEW d, Plain(d), NEW known, NEW reading, Accepted(DecodeRecord(d, known, {}, reading))
  PROVE  DecodeRecord(d, known, {}, reading) = Took(DecodeRecord(d, known, {}, reading).took)
<1> DEFINE of(n) == CHOOSE i \in DOMAIN d.fields : d.fields[i].name = n
           got   == [n \in known |-> IF n \in Names(d) THEN reading[of(n)].took ELSE Nil]
<1>1. DecodeRecord(d, known, {}, reading) = Took(got)
  BY RecordTaken
<1> HIDE DEF of, got
<1> QED
  BY <1>1, TookAccepted

LEMMA ArrivalIsPlain ==
  ASSUME NEW names, NEW order, Lists(order, names), NEW docs, NEW e \in Frames(EncRecord(order, docs))
  PROVE  Plain(e)
<1>1. CASE e \in Variants(EncRecord(order, docs))
  BY <1>1, VariantFields
<1>2. CASE Like(e, order, docs, Labels)
  BY <1>2 DEF Plain, Like, Lists
<1> QED
  BY <1>1, <1>2, ArrivalIsLike

\* What a service reads of a request, whatever became of it.
LEMMA RequestRead ==
  ASSUME NEW s, NEW m, NEW args, NEW e \in Frames(Request(s, m, args)),
         Accepted(ServicePayload(e))
  PROVE  /\ ServicePayload(e) = Took(ServicePayload(e).took)
         /\ ServicePayload(e).took.arguments \in Forms(EncArguments(m, args))
         /\ ServicePayload(e).took.service # BadText
         /\ ServicePayload(e).took.method # BadText
<1> DEFINE v    == [version |-> Version, service |-> s, method |-> m, arguments |-> EncArguments(m, args)]
           docs == FrameDocs(v)
           rs   == FrameReading(e)
           r    == DecodeRecord(e, FrameNames, {}, rs)
<1>1. Request(s, m, args) = EncRecord(FrameOrder, docs) /\ docs["arguments"] = EncArguments(m, args)
  BY EnvelopesAreRecords DEF Request, FrameDocs
<1>2. ServicePayload(e) = r /\ Accepted(r)
  BY EnvelopesAreRecords, TookAccepted DEF ServicePayload
<1>3. \A i \in DOMAIN e.fields : IsA("fields", e) =>
        /\ e.fields[i].name = "arguments" => rs[i] = RawValue(e.fields[i].doc)
        /\ e.fields[i].name \in {"service", "method"} => rs[i] = Str(e.fields[i].doc)
  BY DEF FrameReading, Fields
<1>4. /\ "arguments" \in FrameNames /\ "service" \in FrameNames /\ "method" \in FrameNames
      /\ "invented" \notin FrameNames /\ "arguments" \notin Labels
  BY DEF FrameNames, Labels
<1> HIDE DEF docs, rs
<1>5. e \in Frames(EncRecord(FrameOrder, docs)) /\ Plain(e)
  BY <1>1, EnvelopeOrders, ArrivalIsPlain
<1>6. r = Took(r.took)
  BY <1>2, <1>5, TakenIsTook
<1>7. r.took["arguments"] \in Forms(docs["arguments"])
  <2>1. PICK i \in DOMAIN e.fields :
          /\ IsA("fields", e) /\ e.fields[i].name = "arguments"
          /\ e.fields[i].doc \in Forms(docs["arguments"])
          /\ Accepted(rs[i]) /\ r.took["arguments"] = rs[i].took
    BY <1>2, <1>4, <1>5, EnvelopeOrders, FieldOfArrival
  <2>2. rs[i] = Took(e.fields[i].doc)
    BY <1>3, <2>1, RawIsTaken
  <2> QED
    BY <2>1, <2>2, TookAccepted
<1>8. ASSUME NEW k \in {"service", "method"}
      PROVE  r.took[k] # BadText
  <2>1. PICK i \in DOMAIN e.fields :
          IsA("fields", e) /\ e.fields[i].name = k /\ Accepted(rs[i]) /\ r.took[k] = rs[i].took
    BY <1>2, <1>4, <1>5, FieldTaken
  <2> QED
    BY <1>3, <2>1, TakenIsSpelled
<1> HIDE DEF r
<1> QED
  BY <1>1, <1>2, <1>6, <1>7, <1>8

\* A request to which nothing happened is read as it was made.
LEMMA RequestUnaltered ==
  ASSUME NEW s, NEW m, NEW args, s # BadText, m # BadText,
         Accepted(ServicePayload(Request(s, m, args)))
  PROVE  ServicePayload(Request(s, m, args)) =
           Took([version |-> Version, service |-> s, method |-> m, arguments |-> EncArguments(m, args)])
<1> DEFINE v    == [version |-> Version, service |-> s, method |-> m, arguments |-> EncArguments(m, args)]
           docs == FrameDocs(v)
           d    == EncRecord(FrameOrder, docs)
           rs   == FrameReading(d)
<1>1. Request(s, m, args) = d
  BY EnvelopesAreRecords DEF Request
<1>2. Accepted(DecodeRecord(d, FrameNames, {}, rs))
  BY <1>1, EnvelopesAreRecords, TookAccepted DEF ServicePayload
<1>3. /\ docs["arguments"] = v.arguments /\ docs["version"] = Number(v.version)
      /\ docs["service"] = Text(v.service) /\ docs["method"] = Text(v.method)
  BY DEF FrameDocs
<1>4. DOMAIN FrameOrder = {1, 2, 3, 4} /\ FrameOrder[1] = "version" /\ FrameOrder[2] = "service"
      /\ FrameOrder[3] = "method" /\ FrameOrder[4] = "arguments"
  BY DEF FrameOrder
<1>5. /\ rs[1] = Integer(docs["version"]) /\ rs[2] = Str(docs["service"])
      /\ rs[3] = Str(docs["method"]) /\ rs[4] = RawValue(docs["arguments"])
  <2>1. /\ IsA("fields", d) /\ Fields(d) = d.fields /\ DOMAIN d.fields = DOMAIN FrameOrder
        /\ \A i \in DOMAIN FrameOrder :
             d.fields[i].name = FrameOrder[i] /\ d.fields[i].doc = docs[FrameOrder[i]]
    BY EnvelopeOrders, EncodedFields
  <2> HIDE DEF docs, d
  <2> QED
    BY <1>4, <2>1 DEF FrameReading
<1>v. v.service = s /\ v.method = m /\ v = [k \in FrameNames |-> v[k]] /\ v.version = Version
  BY DEF FrameNames
<1> HIDE DEF docs, rs, v
<1>6. Accepted(rs[4])
  <2>1. Plain(d) /\ DOMAIN d.fields = DOMAIN FrameOrder
    BY EnvelopeOrders, EncodedFields
  <2> HIDE DEF d
  <2> QED
    BY <1>2, <1>4, <2>1, RecordTaken
<1>7. \A i \in DOMAIN FrameOrder : rs[i] = Took(v[FrameOrder[i]])
  <2>1. rs[4] = Took(v["arguments"])
    BY <1>3, <1>5, <1>6, RawIsTaken
  <2>2. rs[1] = Took(v["version"]) /\ rs[2] = Took(v["service"]) /\ rs[3] = Took(v["method"])
    BY <1>3, <1>5, <1>v, ValueCodec
  <2> QED
    BY <1>4, <2>1, <2>2
<1>8. DecodeRecord(d, FrameNames, {}, rs) =
        Took([k \in FrameNames |-> IF k \in {} \ FrameNames THEN Nil ELSE v[k]])
  BY <1>7, EnvelopeOrders, RoundTrip
<1>9. DecodeRecord(d, FrameNames, {}, rs) = Took(v)
  BY <1>8, <1>v
<1>10. ServicePayload(d) = Took(v)
  BY <1>9, <1>v, EnvelopesAreRecords, TookAccepted DEF ServicePayload, rs
<1> QED
  BY <1>1, <1>10 DEF v

\* A reply comes back as it was made if its payload can be read ...
LEMMA ReplyUnaltered ==
  ASSUME NEW s, NEW m, NEW ok, NEW payload
  PROVE  LET w == [version |-> Version, service |-> s, method |-> m, ok |-> ok, payload |-> payload]
         IN  /\ s # BadText /\ m # BadText /\ FirstFlaw(payload) = "none" =>
                  DecodeServiceReply(EncServiceReply(w)) = Took(w)
             /\ FirstFlaw(payload) # "none" => ~Accepted(DecodeServiceReply(EncServiceReply(w)))
<1> DEFINE w    == [version |-> Version, service |-> s, method |-> m, ok |-> ok, payload |-> payload]
           docs == ReplyDocs(w)
           d    == EncRecord(ReplyOrder, docs)
           rs   == ReplyReading(d)
<1>1. EncServiceReply(w) = d /\ DecodeServiceReply(d) = DecodeRecord(d, ReplyNames, {}, rs)
  BY EnvelopesAreRecords
<1>3. /\ docs["payload"] = payload /\ docs["version"] = Number(w.version) /\ docs["ok"] = Flag(w.ok)
      /\ docs["service"] = Text(w.service) /\ docs["method"] = Text(w.method)
  BY DEF ReplyDocs
<1>4. /\ DOMAIN ReplyOrder = {1, 2, 3, 4, 5} /\ ReplyOrder[1] = "version" /\ ReplyOrder[2] = "service"
      /\ ReplyOrder[3] = "method" /\ ReplyOrder[4] = "ok" /\ ReplyOrder[5] = "payload"
  BY DEF ReplyOrder
<1>5. /\ rs[1] = Integer(docs["version"]) /\ rs[2] = Str(docs["service"])
      /\ rs[3] = Str(docs["method"]) /\ rs[4] = Bool(docs["ok"]) /\ rs[5] = RawValue(docs["payload"])
  <2>1. /\ IsA("fields", d) /\ Fields(d) = d.fields /\ DOMAIN d.fields = DOMAIN ReplyOrder
        /\ \A i \in DOMAIN ReplyOrder :
             d.fields[i].name = ReplyOrder[i] /\ d.fields[i].doc = docs[ReplyOrder[i]]
    BY EnvelopeOrders, EncodedFields
  <2> HIDE DEF docs, d
  <2> QED
    BY <1>4, <2>1 DEF ReplyReading
<1>v. /\ w.service = s /\ w.method = m /\ w["payload"] = payload
      /\ w = [k \in ReplyNames |-> w[k]]
  BY DEF ReplyNames
<1> HIDE DEF docs, rs, w
<1>6. ASSUME s # BadText, m # BadText, FirstFlaw(payload) = "none"
      PROVE  DecodeServiceReply(d) = Took(w)
  <2>1. rs[5] = Took(w["payload"])
    BY <1>3, <1>5, <1>6, <1>v DEF RawValue
  <2>2. rs[1] = Took(w["version"]) /\ rs[2] = Took(w["service"]) /\ rs[3] = Took(w["method"])
    BY <1>3, <1>5, <1>6, <1>v, ValueCodec
  <2>3. rs[4] = Took(w["ok"])
    BY <1>3, <1>5, ValueCodec
  <2>4. \A i \in DOMAIN ReplyOrder : rs[i] = Took(w[ReplyOrder[i]])
    BY <1>4, <2>1, <2>2, <2>3
  <2>5. DecodeRecord(d, ReplyNames, {}, rs) =
          Took([k \in ReplyNames |-> IF k \in {} \ ReplyNames THEN Nil ELSE w[k]])
    BY <2>4, EnvelopeOrders, RoundTrip
  <2> QED
    BY <1>1, <1>v, <2>5
<1>7. ASSUME FirstFlaw(payload) # "none"
      PROVE  ~Accepted(DecodeServiceReply(d))
  <2>1. ~Accepted(rs[5])
    BY <1>3, <1>5, <1>7, TookAccepted DEF RawValue
  <2>2. Plain(d) /\ DOMAIN d.fields = DOMAIN ReplyOrder
    BY EnvelopeOrders, EncodedFields
  <2> HIDE DEF d
  <2>3. Accepted(DecodeRecord(d, ReplyNames, {}, rs)) => \A i \in DOMAIN d.fields : Accepted(rs[i])
    BY <2>2, RecordTaken
  <2> QED
    BY <1>1, <1>4, <2>1, <2>2, <2>3
<1> QED
  BY <1>1, <1>6, <1>7 DEF w

\* ... and whatever became of it, its payload is a form of the one it was sent.
LEMMA ReplyRead ==
  ASSUME NEW w, NEW e \in Frames(EncServiceReply(w)), Accepted(DecodeServiceReply(e))
  PROVE  DecodeServiceReply(e).took.payload \in Forms(w.payload)
<1> DEFINE docs == ReplyDocs(w)
           rs   == ReplyReading(e)
           r    == DecodeRecord(e, ReplyNames, {}, rs)
<1>1. EncServiceReply(w) = EncRecord(ReplyOrder, docs) /\ docs["payload"] = w.payload
  BY EnvelopesAreRecords DEF ReplyDocs
<1>2. DecodeServiceReply(e) = r /\ Accepted(r)
  BY EnvelopesAreRecords
<1>3. \A i \in DOMAIN e.fields : IsA("fields", e) /\ e.fields[i].name = "payload" =>
        rs[i] = RawValue(e.fields[i].doc)
  BY DEF ReplyReading, Fields
<1>4. "payload" \in ReplyNames /\ "invented" \notin ReplyNames /\ "payload" \notin Labels
  BY DEF ReplyNames, Labels
<1> HIDE DEF docs, rs
<1>5. PICK i \in DOMAIN e.fields :
        /\ IsA("fields", e) /\ e.fields[i].name = "payload"
        /\ e.fields[i].doc \in Forms(docs["payload"])
        /\ Accepted(rs[i]) /\ r.took["payload"] = rs[i].took
  BY <1>1, <1>2, <1>4, EnvelopeOrders, FieldOfArrival
<1>6. rs[i] = Took(e.fields[i].doc)
  BY <1>3, <1>5, RawIsTaken
<1>7. r.took["payload"] \in Forms(w.payload)
  BY <1>1, <1>5, <1>6, TookAccepted
<1> HIDE DEF r
<1> QED
  BY <1>2, <1>7

\* A record shows the flaw of a field.
LEMMA FlawShows ==
  ASSUME NEW names, NEW order, Lists(order, names), NEW docs,
         NEW i \in DOMAIN order, FirstFlaw(docs[order[i]]) # "none"
  PROVE  FirstFlaw(EncRecord(order, docs)) # "none"
<1> DEFINE fs == [j \in DOMAIN order |-> [name |-> order[j], doc |-> docs[order[j]]]]
           flawed == {j \in DOMAIN fs : FirstFlaw(fs[j].doc) # "none"}
<1>1. i \in flawed /\ flawed \subseteq Nat
  BY DEF Lists
<1>2. Min(flawed) \in flawed
  BY <1>1, MinIsMember
<1>3. Object(fs).inside = FirstFlaw(fs[Min(flawed)].doc)
  BY <1>1 DEF Object
<1>4. FirstFlaw(fs[Min(flawed)].doc) # "none"
  BY <1>2
<1> HIDE DEF fs, flawed
<1>5. FirstFlaw(Object(fs)) = Object(fs).inside
  BY DEF FirstFlaw, Object, IsA, Text, TextMap
<1> QED
  BY <1>3, <1>4, <1>5 DEF EncRecord, fs

\* The record of a refusal comes back unless its text has no spelling, and in
\* no form of it a value can be found.
LEMMA ErrorRead ==
  ASSUME NEW c, NEW msg
  PROVE  LET f == [code |-> c, message |-> msg]
         IN  /\ c # BadText /\ msg # BadText =>
                  FirstFlaw(EncServiceError(f)) = "none" /\ DecodeServiceError(EncServiceError(f)) = Took(f)
             /\ msg = BadText => FirstFlaw(EncServiceError(f)) # "none"
             /\ \A e \in Forms(EncServiceError(f)), m \in Methods : ~Accepted(DecodeResult(m, e))
<1> DEFINE f     == [code |-> c, message |-> msg]
           names == {"code", "message"}
           order == <<"code", "message">>
           docs  == Texts(f)
           d     == EncRecord(order, docs)
<1>1. EncServiceError(f) = d /\ \A e : DecodeServiceError(e) = DecodeRecord(e, names, {}, Strs(e))
  BY DEF EncServiceError, DecodeServiceError
<1>2. Lists(order, names) /\ "invented" \notin names /\ "value" \notin names
  BY SmallOrders
<1>3. OfShape(f, names) /\ f["code"] = c /\ f["message"] = msg
  BY DEF OfShape
<1>4. docs["code"] = Text(c) /\ docs["message"] = Text(msg)
  BY DEF Texts
<1>5. ASSUME c # BadText, msg # BadText
      PROVE  FirstFlaw(d) = "none" /\ DecodeServiceError(d) = Took(f)
  <2> DEFINE g == [e \in Forms(d) |-> DecodeServiceError(e)]
  <2>1. \A e \in Forms(d) : g[e] = DecodeRecord(e, names, {}, Strs(e))
    BY <1>1
  <2>2. \A k \in names : f[k] # BadText
    BY <1>3, <1>5
  <2> HIDE DEF f, g, names, order
  <2>3. Reads(g, EncRecord(order, Texts(f)), f) /\ g[EncRecord(order, Texts(f))] = Took(f)
    BY <1>2, <1>3, <2>1, <2>2, TextsRead
  <2>4. g[d] = Took(f) /\ FirstFlaw(d) = "none"
    BY <2>3, TookAccepted DEF Reads
  <2>5. g[d] = DecodeServiceError(d)
    BY FormsOfIt DEF g
  <2> QED
    BY <2>4, <2>5
<1>6. ASSUME msg = BadText
      PROVE  FirstFlaw(d) # "none"
  <2>1. FirstFlaw(docs["message"]) # "none"
    BY <1>4, <1>6 DEF FirstFlaw, IsA, Text
  <2>2. 2 \in DOMAIN order /\ order[2] = "message"
    OBVIOUS
  <2> HIDE DEF docs, order, names
  <2>3. FirstFlaw(docs[order[2]]) # "none"
    BY <2>1, <2>2
  <2> QED
    BY <1>2, <2>2, <2>3, FlawShows
<1>7. ASSUME NEW e \in Forms(d), NEW m \in Methods, Accepted(DecodeResult(m, e))
      PROVE  FALSE
  <2> DEFINE rs == [i \in DOMAIN Fields(e) |-> DecodeValue(m, Fields(e)[i].doc)]
             known == {"value"}
  <2>1. Accepted(DecodeRecord(e, known, {}, rs))
    BY <1>7, ResultIsRecord DEF WalkResult
  <2>2. "invented" \notin known /\ "value" \in known /\ "value" \notin {}
    OBVIOUS
  <2> HIDE DEF docs, order, names, rs, known
  <2> QED
    BY <1>2, <2>1, <2>2, FieldOfVariant
<1> QED
  BY <1>1, <1>5, <1>6, <1>7

-----------------------------------------------------------------------------
(* What the service sends.                                                 *)

\* A reply under these names.
ReplyOf(v, ok, payload) ==
  EncServiceReply([version |-> Version, service |-> v.service, method |-> v.method,
                   ok |-> ok, payload |-> payload])

CodeOf(c) == IF c = NoText THEN "handler_error" ELSE c

\* The protocol's own words are spelled, and none is empty.
LEMMA WordsAreSpelled == \A w \in ProtocolWords : w # BadText /\ w # NoText
BY SpellingAssumption DEF NoText

LEMMA PayloadSent ==
  ASSUME NEW v, v.service # BadText, v.method # BadText, NEW d, FirstFlaw(d) = "none"
  PROVE  ServiceReply(v, Payload(d)) = Took(ReplyOf(v, TRUE, d))
<1>1. "payload" \in DOMAIN Payload(d) /\ Payload(d).payload = d
  BY DEF Payload
<1>2. Accepted(DecodeServiceReply(ReplyOf(v, TRUE, d)))
  BY ReplyUnaltered, TookAccepted DEF ReplyOf
<1> QED
  BY <1>1, <1>2 DEF ServiceReply, ReplyOf

LEMMA RefusalSent ==
  ASSUME NEW v, v.service # BadText, v.method # BadText, NEW c, c # BadText, NEW msg
  PROVE  LET d == EncServiceError([code |-> CodeOf(c), message |-> msg])
         IN  /\ msg # BadText => ServiceReply(v, Failed(c, msg)) = Took(ReplyOf(v, FALSE, d))
             /\ msg = BadText => ~Accepted(ServiceReply(v, Failed(c, msg)))
<1> DEFINE d == EncServiceError([code |-> CodeOf(c), message |-> msg])
<1>1. /\ "payload" \notin DOMAIN Failed(c, msg)
      /\ Failed(c, msg).code = c /\ Failed(c, msg).message = msg
  BY DEF Failed
<1>2. CodeOf(c) # BadText
  <2>1. "handler_error" \in ProtocolWords
    BY DEF ProtocolWords
  <2>2. "handler_error" # BadText
    BY <2>1, WordsAreSpelled
  <2> QED
    BY <2>2 DEF CodeOf
<1>3. msg # BadText => FirstFlaw(d) = "none"
  BY <1>2, ErrorRead
<1>4. msg = BadText => FirstFlaw(d) # "none"
  BY ErrorRead
<1>5. ServiceReply(v, Failed(c, msg)) =
        IF Accepted(DecodeServiceReply(ReplyOf(v, FALSE, d))) THEN Took(ReplyOf(v, FALSE, d))
        ELSE DecodeServiceReply(ReplyOf(v, FALSE, d))
  <2> DEFINE outcome == Failed(c, msg)
             ok == "payload" \in DOMAIN outcome
             failure == [code    |-> IF outcome.code = NoText THEN "handler_error" ELSE outcome.code,
                         message |-> outcome.message]
             payload == IF ok THEN outcome.payload ELSE EncServiceError(failure)
  <2>1. ok = FALSE
    BY <1>1
  <2>2. failure = [code |-> CodeOf(c), message |-> msg]
    BY <1>1 DEF CodeOf
  <2>3. payload = d
    BY <2>1, <2>2
  <2>4. ServiceReply(v, Failed(c, msg)) =
          IF Accepted(DecodeServiceReply(ReplyOf(v, ok, payload))) THEN Took(ReplyOf(v, ok, payload))
          ELSE DecodeServiceReply(ReplyOf(v, ok, payload))
    BY DEF ServiceReply, ReplyOf
  <2> HIDE DEF ok, payload, d
  <2> QED
    BY <2>1, <2>3, <2>4
<1> HIDE DEF d
<1>6. FirstFlaw(d) = "none" => Accepted(DecodeServiceReply(ReplyOf(v, FALSE, d)))
  BY ReplyUnaltered, TookAccepted DEF ReplyOf
<1>7. FirstFlaw(d) # "none" => ~Accepted(DecodeServiceReply(ReplyOf(v, FALSE, d)))
  BY ReplyUnaltered DEF ReplyOf
<1> QED
  BY <1>3, <1>4, <1>5, <1>6, <1>7 DEF d

-----------------------------------------------------------------------------
(* What the handlers answer.                                               *)

\* What fails in a handler is told in words, but for one text.
LEMMA AnswersAreTold ==
  ASSUME NEW m \in Methods, NEW args, NEW said \in Answers(m, args)
  PROVE  \/ \E x : said = Gave(x)
         \/ \E c, msg \in ProtocolWords \cup {NoText} : said = Failed(c, msg)
         \/ said = Failed("handler_error", BadText)
<1> DEFINE Refusal(r) == \E c, msg \in ProtocolWords \cup {NoText} : r = Failed(c, msg)
           Given(r)   == \E x : r = Gave(x)
<1>1. /\ Refusal(StorageFails) /\ Refusal(Broke) /\ Refusal(Failed(NoText, NoText))
      /\ \A r \in Unauthorized : Refusal(r)
      /\ Refusal(Failed("invalid_revision", "expected revision required"))
  BY DEF StorageFails, Broke, Unauthorized, ProtocolWords
<1> HIDE DEF Refusal
<1>2. \A r \in ReadAnswers(args) : Given(r) \/ Refusal(r)
  BY <1>1 DEF ReadAnswers
<1>3. \A r \in ReadUserAnswers : Given(r) \/ Refusal(r)
  BY <1>1 DEF ReadUserAnswers
<1>4. \A r \in ReplaceUserAnswers(args) : Given(r) \/ Refusal(r)
  BY <1>1 DEF ReplaceUserAnswers
<1>5. \A r \in ObserveAnswers(args) : Given(r) \/ Refusal(r)
  BY <1>1 DEF ObserveAnswers
<1>6. Given(said) \/ Refusal(said) \/ said = Failed("handler_error", BadText)
  BY <1>1, <1>2, <1>3, <1>4, <1>5 DEF Answers, Methods
<1> QED
  BY <1>6 DEF Refusal

\* What they give, where it can be said.
LEMMA ReadGives ==
  ASSUME NEW args, NEW x, Gave(x) \in Answers("Read", args), x # Unspeakable("Read")
  PROVE  x = Snapshot(LoadWithSources(machine, user, args.overrides))
<1>1. \A y, c, msg : Gave(y) # Failed(c, msg)
  BY DEF Gave, Failed
<1>2. \A y : Gave(x) = Gave(y) => x = y
  BY DEF Gave
<1>3. Gave(x) \in ReadAnswers(args)
  BY <1>1, <1>2 DEF Answers, Broke
<1> QED
  BY <1>1, <1>2, <1>3 DEF ReadAnswers, Unauthorized, StorageFails

LEMMA ReadUserGives ==
  ASSUME NEW args, NEW x, Gave(x) \in Answers("ReadUser", args), x # Unspeakable("ReadUser")
  PROVE  \E c \in Settings : x = Record(c)
<1>1. \A y, c, msg : Gave(y) # Failed(c, msg)
  BY DEF Gave, Failed
<1>2. \A y : Gave(x) = Gave(y) => x = y
  BY DEF Gave
<1>3. Gave(x) \in ReadUserAnswers
  BY <1>1, <1>2 DEF Answers, Broke
<1> QED
  BY <1>1, <1>2, <1>3 DEF ReadUserAnswers, Unauthorized, StorageFails

LEMMA ReplaceUserGives ==
  ASSUME NEW args, NEW x, Gave(x) \in Answers("ReplaceUser", args), x # Unspeakable("ReplaceUser")
  PROVE  \/ \E out \in {"forbidden", "unavailable"} :
              x = [outcome |-> out, snapshot |-> [values |-> Cleared, revision |-> NoText]]
         \/ x = [outcome |-> "applied", snapshot |-> Record(args.values)]
         \/ \E c \in Settings : x = [outcome |-> "conflict", snapshot |-> Record(c)]
<1>1. \A y, c, msg : Gave(y) # Failed(c, msg)
  BY DEF Gave, Failed
<1>2. \A y : Gave(x) = Gave(y) => x = y
  BY DEF Gave
<1>3. Gave(x) \in ReplaceUserAnswers(args)
  BY <1>1, <1>2 DEF Answers, Broke
<1> QED
  BY <1>1, <1>2, <1>3 DEF ReplaceUserAnswers, Unauthorized, StorageFails

\* An observation that shows nothing new, or not.
Nothing(args, x, out) == x = [outcome |-> out, cursor |-> args.cursor, snapshot |-> Nil]
Shown(args, x) ==
  LET read == Snapshot(LoadWithSources(machine, user, args.overrides))
  IN  /\ ObservationBounds(args) /\ NextCursor(read) # args.cursor
      /\ x = [outcome |-> "snapshot", cursor |-> NextCursor(read), snapshot |-> read]

LEMMA ObserveGives ==
  ASSUME NEW args, NEW x, Gave(x) \in Answers("Observe", args), x # Unspeakable("Observe")
  PROVE  \/ \E out \in {"invalid", "unsupported", "unavailable", "gap"} : Nothing(args, x, out)
         \/ /\ Nothing(args, x, "unchanged")
            /\ args.cursor = NextCursor(Snapshot(LoadWithSources(machine, user, args.overrides)))
            /\ ObservationBounds(args)
         \/ Shown(args, x)
<1> DEFINE read == Snapshot(LoadWithSources(machine, user, args.overrides))
<1>1. \A y, c, msg : Gave(y) # Failed(c, msg)
  BY DEF Gave, Failed
<1>2. \A y : Gave(x) = Gave(y) => x = y
  BY DEF Gave
<1>3. Gave(x) \in ObserveAnswers(args)
  BY <1>1, <1>2 DEF Answers, Broke
<1>4. Gave(x) \notin Unauthorized \cup {Broke, StorageFails}
  BY <1>1 DEF Unauthorized, Broke, StorageFails
<1> HIDE DEF read
<1>5. \/ \E out \in {"invalid", "unsupported", "unavailable", "gap"} :
           Gave(x) = Gave([outcome |-> out, cursor |-> args.cursor, snapshot |-> Nil])
      \/ /\ Gave(x) = Gave([outcome |-> "unchanged", cursor |-> args.cursor, snapshot |-> Nil])
         /\ NextCursor(read) = args.cursor /\ ObservationBounds(args)
      \/ /\ Gave(x) = Gave([outcome |-> "snapshot", cursor |-> NextCursor(read), snapshot |-> read])
         /\ NextCursor(read) # args.cursor /\ ObservationBounds(args)
  BY <1>3, <1>4 DEF ObserveAnswers, read
<1> QED
  BY <1>2, <1>5 DEF Nothing, Shown, read

-----------------------------------------------------------------------------
(* What they give has its shape, and is spelled unless another make of      *)
(* handler gave it.                                                         *)

\* The files are files, and the overrides of the caller are overrides.
FilesInv == machine \in MachineFiles /\ user \in UserFiles /\ env \in Overrides

LEMMA UnspeakableIsResult ==
  ASSUME NEW m \in Methods
  PROVE  IsResult(m, Unspeakable(m))
<1>1. CASE m = "Read"
  <2> DEFINE x == Unspeakable(m)
             names == Keys \cup {"origins", "stamp"}
             origins == [j \in Keys |-> [rung |-> Default, path |-> NoText]]
  <2>1. x = [k \in names |-> IF k = "origins" THEN origins ELSE BadText]
    BY <1>1 DEF Unspeakable
  <2>2. IsOrigins(origins)
    BY DEF IsOrigins, IsOrigin, OfShape
  <2> HIDE DEF x, origins
  <2>3. OfShape(x, names) /\ x["origins"] = origins
    BY <2>1 DEF OfShape
  <2> QED
    BY <1>1, <2>2, <2>3 DEF IsResult, IsSnapshot, x
<1>2. CASE m = "ReadUser"
  BY <1>2 DEF IsResult, Unspeakable, Record, IsUserSnapshot, OfShape
<1>3. CASE m = "ReplaceUser"
  BY <1>3 DEF IsResult, Unspeakable, Record, Cleared, IsUserReplaceResult, IsUserSnapshot, OfShape
<1>4. CASE m = "Observe"
  BY <1>4 DEF IsResult, Unspeakable, IsConfigObservation, OfShape
<1> QED
  BY <1>1, <1>2, <1>3, <1>4 DEF Methods

LEMMA SnapshotIsSnapshot == \A c : IsSnapshot(Snapshot(c))
<1> TAKE c
<1> DEFINE x == Snapshot(c)
           names == Keys \cup {"origins", "stamp"}
           origins == [j \in Keys |-> [rung |-> c.origin[j], path |-> PathOf(c.origin[j])]]
<1>1. x = [k \in names |->
             CASE k = "stamp" -> c.value [] k = "origins" -> origins [] OTHER -> c.value[k]]
  BY DEF Snapshot
<1>2. IsOrigins(origins)
  BY DEF IsOrigins, IsOrigin, OfShape
<1> HIDE DEF x, origins
<1>3. OfShape(x, names) /\ x["origins"] = origins
  BY <1>1 DEF OfShape
<1> QED
  BY <1>2, <1>3 DEF IsSnapshot, x

LEMMA GivenIsResult ==
  ASSUME NEW m \in Methods, NEW args, m = "ReplaceUser" => OfShape(args.values, Keys),
         NEW x, Gave(x) \in Answers(m, args)
  PROVE  IsResult(m, x)
<1>1. CASE x = Unspeakable(m)
  BY <1>1, UnspeakableIsResult
<1>2. CASE x # Unspeakable(m) /\ m = "Read"
  BY <1>2, ReadGives, SnapshotIsSnapshot DEF IsResult
<1>3. CASE x # Unspeakable(m) /\ m = "ReadUser"
  <2>1. PICK c \in Settings : x = Record(c)
    BY <1>3, ReadUserGives
  <2> QED
    BY <1>3, <2>1 DEF IsResult, Record, IsUserSnapshot, OfShape, Settings
<1>4. CASE x # Unspeakable(m) /\ m = "ReplaceUser"
  <2>1. \E out, s : x = [outcome |-> out, snapshot |-> s] /\ IsUserSnapshot(s)
    <3>1. \A c : OfShape(c, Keys) => IsUserSnapshot(Record(c))
      BY DEF Record, IsUserSnapshot, OfShape
    <3>2. IsUserSnapshot([values |-> Cleared, revision |-> NoText])
      BY DEF IsUserSnapshot, OfShape, Cleared
    <3>3. \A c \in Settings : OfShape(c, Keys)
      BY DEF Settings, OfShape
    <3>4. \/ \E out : x = [outcome |-> out, snapshot |-> [values |-> Cleared, revision |-> NoText]]
          \/ \E out : x = [outcome |-> out, snapshot |-> Record(args.values)]
          \/ \E out : \E c \in Settings : x = [outcome |-> out, snapshot |-> Record(c)]
      BY <1>4, ReplaceUserGives
    <3> QED
      BY <1>4, <3>1, <3>2, <3>3, <3>4
  <2> QED
    BY <1>4, <2>1 DEF IsResult, IsUserReplaceResult, OfShape
<1>5. CASE x # Unspeakable(m) /\ m = "Observe"
  <2>1. \E out, c, s : /\ x = [outcome |-> out, cursor |-> c, snapshot |-> s]
                       /\ s = Nil \/ IsSnapshot(s)
    BY <1>5, ObserveGives, SnapshotIsSnapshot DEF Nothing, Shown
  <2> QED
    BY <1>5, <2>1 DEF IsResult, IsConfigObservation, OfShape
<1> QED
  BY <1>1, <1>2, <1>3, <1>4, <1>5 DEF Methods

\* A value of the files is one the keys may have.
LEMMA LoadedIsSettings ==
  ASSUME FilesInv, NEW o \in Overrides
  PROVE  LET c == LoadWithSources(machine, user, o)
         IN  /\ c.value \in Settings
             /\ c.origin \in [Keys -> {Machine, User, Environment, Default}]
<1> DEFINE Sourced(c) == /\ c.value \in Settings
                         /\ c.origin \in [Keys -> {Machine, User, Environment, Default}]
<1>1. Sourced(NoConfig)
  BY DEF NoConfig, Settings
<1>2. ASSUME NEW text \in FileTexts \cup {NoFile}, NEW rung \in {Machine, User}
      PROVE  Sourced(DecodeSource(text, rung))
  <2> DEFINE d == DecodeSource(text, rung)
  <2>1. d.value = [k \in Keys |-> d.value[k]] /\ d.origin = [k \in Keys |-> d.origin[k]]
    BY DecodedIsConfig DEF IsConfig
  <2>2. \A k \in Keys : d.value[k] \in Values \cup {Unset} /\ d.origin[k] \in {rung, Default}
    BY DecodedKey, SaysAValue
  <2> HIDE DEF d
  <2>3. Sourced(d)
    BY <2>1, <2>2 DEF Settings
  <2> QED
    BY <2>3 DEF d
<1>3. ASSUME NEW far, NEW near, Sourced(far), Sourced(near)
      PROVE  Sourced(Merge(far, near))
  BY <1>3 DEF Merge, Settings
<1>4. ASSUME NEW c, Sourced(c)
      PROVE  Sourced(ApplyEnvironment(c, o))
  <2>1. \A k \in Keys : Overridden(o, k) => o[k] \in Values \cup {Unset}
    BY DEF Overridden, Overrides
  <2> QED
    BY <1>4, <2>1 DEF ApplyEnvironment, Settings
<1>5. machine.text \in FileTexts \cup {NoFile} /\ user.text \in FileTexts \cup {NoFile}
  <2>1. ASSUME NEW file, NEW trust,
               file \in {Missing} \cup [text : FileTexts, trusted : trust, oversized : BOOLEAN]
        PROVE  file.text \in FileTexts \cup {NoFile}
    BY <2>1 DEF Missing
  <2> QED
    BY <2>1 DEF FilesInv, MachineFiles, UserFiles
<1> HIDE DEF Sourced
<1>6. Sourced(ReadMachineSource(machine)) /\ Sourced(DecodeSource(user.text, User))
  BY <1>1, <1>2, <1>5 DEF ReadMachineSource
<1>7. Sourced(LoadWithSources(machine, user, o))
  BY <1>3, <1>4, <1>6 DEF LoadWithSources
<1> QED
  BY <1>7 DEF Sourced

LEMMA SettingsAreSpelled == \A c \in Settings : c # BadText /\ \A k \in Keys : c[k] # BadText
BY SpellingAssumption DEF Settings

\* A snapshot that is read is spelled, is there, and has a cursor of its own.
LEMMA SnapshotIsSpelled ==
  ASSUME FilesInv, NEW o \in Overrides
  PROVE  LET read == Snapshot(LoadWithSources(machine, user, o))
         IN  /\ SpelledSnapshot(read)
             /\ read # Nil
             /\ NextCursor(read) \notin {BadText, LongText, NoText}
<1> DEFINE c == LoadWithSources(machine, user, o)
           origins == [j \in Keys |-> [rung |-> c.origin[j], path |-> PathOf(c.origin[j])]]
           read == Snapshot(c)
           names == Keys \cup {"origins", "stamp"}
           rungs == {Machine, User, Environment, Default}
<1>1. c.value \in Settings /\ c.origin \in [Keys -> rungs]
  BY LoadedIsSettings
<1>2. read = [k \in names |->
                CASE k = "stamp" -> c.value [] k = "origins" -> origins [] OTHER -> c.value[k]]
  BY DEF Snapshot
<1> HIDE DEF c, read
<1>3. read["stamp"] = c.value /\ read["origins"] = origins /\ read \in [names -> {c.value, origins} \cup {c.value[k] : k \in Keys}]
  BY <1>2, SchemaAssumption
<1>4. \A k \in Keys : read[k] = c.value[k]
  BY <1>2, SchemaAssumption
<1>5. \A j \in Keys : /\ origins[j].rung \in rungs
                      /\ origins[j].path \in {Machine, User, NoText}
                      /\ origins[j] = [rung |-> origins[j].rung, path |-> origins[j].path]
  BY <1>1 DEF PathOf
<1>6. \A w \in rungs \cup {Machine, User, NoText} : w # BadText
  <2>1. rungs \cup {Machine, User} \subseteq ProtocolWords
    BY DEF ProtocolWords
  <2>2. NoText # BadText
    BY SpellingAssumption DEF NoText
  <2> QED
    BY <2>1, <2>2, WordsAreSpelled
<1>7. SpelledSnapshot(read)
  <2>1. \A k \in Keys \cup {"stamp"} : read[k] # BadText
    BY <1>1, <1>3, <1>4, SettingsAreSpelled
  <2>2. SpelledOrigins(origins)
    BY <1>5, <1>6 DEF SpelledOrigins
  <2> QED
    BY <1>3, <2>1, <2>2 DEF SpelledSnapshot
<1>8. read \in Snapshots
  <2>1. origins \in Origins
    <3>1. \A j \in Keys : origins[j] \in
            [rung : {Machine, User, Environment, Default}, path : {Machine, User, NoText}]
      BY <1>5
    <3> QED
      BY <3>1 DEF Origins
  <2>2. \A k \in Keys : c.value[k] \in Values \cup {Unset}
    BY <1>1 DEF Settings
  <2> QED
    BY <1>1, <1>3, <2>1, <2>2 DEF Snapshots
<1>9. read # Nil
  BY <1>8, SpellingAssumption
<1>10. NextCursor(read) \notin {BadText, LongText, NoText}
  BY <1>1, <1>3, SpellingAssumption DEF NextCursor
<1> QED
  BY <1>7, <1>9, <1>10 DEF read, c

\* One field that has no spelling, and the record has none.
LEMMA FieldFlawShows ==
  ASSUME NEW names, NEW order, Lists(order, names), NEW docs,
         NEW k \in names, FirstFlaw(docs[k]) # "none"
  PROVE  FirstFlaw(EncRecord(order, docs)) # "none"
<1>1. PICK i \in DOMAIN order : order[i] = k
  BY DEF Lists
<1> QED
  BY <1>1, FlawShows

LEMMA BadTextShows ==
  /\ FirstFlaw(Text(BadText)) # "none"
  /\ \A k : FirstFlaw(EncSetting(k, BadText)) # "none"
  /\ \A words, x : x \notin words => FirstFlaw(EncWord(words, x)) # "none"
  /\ \A v : \A k \in Keys : v[k] = BadText => FirstFlaw(EncUserSettings(v)) # "none"
<1>1. FirstFlaw(Text(BadText)) = "bad_string" /\ FirstFlaw(TextMap(BadText)) = "bad_string"
  BY DEF FirstFlaw, IsA, Text, TextMap
<1>2. \A k : FirstFlaw(EncSetting(k, BadText)) # "none"
  BY <1>1 DEF EncSetting
<1>3. FirstFlaw(Flawed("bad_enum")) = "bad_enum"
  BY DEF FirstFlaw, IsA, Flawed
<1>4. \A words, x : x \notin words => FirstFlaw(EncWord(words, x)) # "none"
  BY <1>3 DEF EncWord
<1>5. ASSUME NEW v, NEW k \in Keys, v[k] = BadText
      PROVE  FirstFlaw(EncUserSettings(v)) # "none"
  <2> DEFINE docs == [j \in Keys |-> EncSetting(j, v[j])]
  <2>1. FirstFlaw(docs[k]) # "none"
    BY <1>2, <1>5
  <2> HIDE DEF docs
  <2>2. FirstFlaw(EncRecord(KeyOrder, docs)) # "none"
    BY <2>1, SchemaListed, FieldFlawShows
  <2> QED
    BY <2>2 DEF EncUserSettings, docs
<1> QED
  BY <1>1, <1>2, <1>4, <1>5

\* What has no spelling is not sent.
LEMMA UnspeakableIsRefused ==
  ASSUME NEW m \in Methods
  PROVE  ~Accepted(DecodeResult(m, EncResult(m, Unspeakable(m))))
<1> DEFINE x == Unspeakable(m)
           docs == [value |-> EncValue(m, x)]
<1>1. FirstFlaw(EncValue(m, x)) # "none"
  <2>1. CASE m = "Read"
    <3> DEFINE fields == [k \in DOMAIN x |->
                 IF k = "origins" THEN EncOrigins(x[k])
                 ELSE IF k = "stamp" THEN Text(x[k]) ELSE EncSetting(k, x[k])]
    <3>1. "stamp" \in DOMAIN x /\ x["stamp"] = BadText
      BY <2>1 DEF Unspeakable
    <3>2. EncValue(m, x) = EncRecord(KeyOrder \o <<"origins", "stamp">>, fields)
      BY <2>1 DEF EncValue, EncSnapshot
    <3> HIDE DEF x
    <3>3. FirstFlaw(fields["stamp"]) # "none"
      BY <3>1, BadTextShows
    <3> HIDE DEF fields
    <3> QED
      BY <3>2, <3>3, SnapshotOrder, FieldFlawShows
  <2>2. CASE m = "ReadUser"
    <3> DEFINE fields == [values |-> EncUserSettings(x.values), revision |-> Text(x.revision)]
    <3>1. \A k \in Keys : x.values[k] = BadText
      BY <2>2 DEF Unspeakable, Record
    <3>2. EncValue(m, x) = EncRecord(<<"values", "revision">>, fields)
      BY <2>2 DEF EncValue, EncUserSnapshot
    <3> HIDE DEF x
    <3>3. FirstFlaw(fields["values"]) # "none"
      BY <3>1, BadTextShows, SpellingAssumption
    <3> HIDE DEF fields
    <3>4. Lists(<<"values", "revision">>, {"values", "revision"})
      BY SmallOrders
    <3> QED
      BY <3>2, <3>3, <3>4, FieldFlawShows
  <2>3. CASE m = "ReplaceUser"
    <3> DEFINE fields == [outcome |-> EncWord(UserReplaceOutcomes, x.outcome),
                          snapshot |-> EncUserSnapshot(x.snapshot)]
    <3>1. x.outcome \notin UserReplaceOutcomes
      BY <2>3 DEF Unspeakable, UserReplaceOutcomes
    <3>2. EncValue(m, x) = EncRecord(<<"outcome", "snapshot">>, fields)
      BY <2>3 DEF EncValue, EncUserReplaceResult
    <3> HIDE DEF x
    <3>3. FirstFlaw(fields["outcome"]) # "none"
      BY <3>1, BadTextShows
    <3> HIDE DEF fields
    <3>4. Lists(<<"outcome", "snapshot">>, {"outcome", "snapshot"})
      BY SmallOrders
    <3> QED
      BY <3>2, <3>3, <3>4, FieldFlawShows
  <2>4. CASE m = "Observe"
    <3> DEFINE fields == [outcome  |-> EncWord(ConfigObservationOutcomes, x.outcome),
                          cursor   |-> Text(x.cursor),
                          snapshot |-> IF x.snapshot = Nil THEN Nil ELSE EncSnapshot(x.snapshot)]
    <3>1. x.outcome \notin ConfigObservationOutcomes /\ x.snapshot = Nil
      BY <2>4 DEF Unspeakable, ConfigObservationOutcomes
    <3>2. EncValue(m, x) = EncRecord(<<"outcome", "cursor">> \o <<>>, fields)
      BY <2>4, <3>1 DEF EncValue, EncConfigObservation
    <3> HIDE DEF x
    <3>3. FirstFlaw(fields["outcome"]) # "none"
      BY <3>1, BadTextShows
    <3> HIDE DEF fields
    <3>4. <<"outcome", "cursor">> \o <<>> = <<"outcome", "cursor">>
      OBVIOUS
    <3>5. Lists(<<"outcome", "cursor">>, {"outcome", "cursor"})
      BY SmallOrders
    <3> QED
      BY <3>2, <3>3, <3>4, <3>5, FieldFlawShows
  <2> QED
    BY <2>1, <2>2, <2>3, <2>4 DEF Methods
<1>2. docs["value"] = EncValue(m, x) /\ EncResult(m, x) = EncRecord(<<"value">>, docs)
  BY ResultIsRecord
<1>3. Lists(<<"value">>, {"value"})
  BY SmallOrders
<1>4. IsResult(m, x)
  BY UnspeakableIsResult
<1> HIDE DEF docs, x
<1>5. FirstFlaw(EncResult(m, x)) # "none"
  BY <1>1, <1>2, <1>3, FieldFlawShows
<1> QED
  BY <1>4, <1>5, ResultRead DEF x

\* Arguments that can be sent.
LEMMA ArgumentsAreSpelled ==
  ASSUME NEW m \in Methods, NEW args, FirstFlaw(EncArguments(m, args)) = "none"
  PROVE  /\ m = "ReplaceUser" => args["expected_revision"] # BadText
         /\ m = "ReplaceUser" => \A k \in Keys : args["values"][k] # BadText
         /\ m = "Observe" => args["cursor"] # BadText
<1>1. PICK docs : /\ EncArguments(m, args) = EncRecord(ArgumentOrder(m), docs)
                  /\ \A k \in ArgumentNames(m) : docs[k] = EncArgument(k, args[k])
  BY ArgumentsAreRecords
<1>2. \A k \in ArgumentNames(m) : FirstFlaw(EncArgument(k, args[k])) = "none"
  BY <1>1, ArgumentsAreRecords, FieldFlawShows
<1>3. /\ \A k \in {"expected_revision", "cursor"} : \A x : EncArgument(k, x) = Text(x)
      /\ \A x : EncArgument("values", x) = EncUserSettings(x)
  BY DEF EncArgument
<1>4. /\ m = "ReplaceUser" => {"expected_revision", "values"} \subseteq ArgumentNames(m)
      /\ m = "Observe" => "cursor" \in ArgumentNames(m)
  BY DEF ArgumentNames
<1> QED
  BY <1>2, <1>3, <1>4, BadTextShows

\* The arguments a caller may have.
LEMMA ArgumentsAreArguments ==
  ASSUME FilesInv, NEW m \in Methods, NEW args \in ArgumentsOf(m)
  PROVE  /\ IsArguments(m, args)
         /\ m = "Read" => args.overrides \in Overrides
         /\ m = "ReplaceUser" => args["values"] \in {Cleared, [k \in Keys |-> BadText]}
         /\ m = "Observe" /\ ObservationBounds(args) => args.overrides \in Overrides
<1>1. \A o \in Overrides : OfShape(o, TextKeys)
  BY DEF Overrides, OfShape
<1>2. env \in Overrides
  BY DEF FilesInv
<1>3. CASE m = "Read"
  <2>1. args \in [overrides : {env}]
    BY <1>3 DEF ArgumentsOf
  <2> QED
    BY <1>1, <1>2, <1>3, <2>1 DEF IsArguments, OfShape
<1>4. CASE m = "ReadUser"
  <2>1. args = <<>>
    BY <1>4 DEF ArgumentsOf
  <2> QED
    BY <1>4, <2>1 DEF IsArguments, OfShape
<1>5. CASE m = "ReplaceUser"
  <2>1. args \in [expected_revision : {NoText, Cleared}, values : {Cleared, [k \in Keys |-> BadText]}]
    BY <1>5 DEF ArgumentsOf
  <2>2. \A c \in {Cleared, [k \in Keys |-> BadText]} : OfShape(c, Keys)
    BY DEF OfShape, Cleared
  <2> HIDE DEF Cleared
  <2>3. args["values"] \in {Cleared, [k \in Keys |-> BadText]} /\ OfShape(args, {"expected_revision", "values"})
    BY <2>1 DEF OfShape
  <2> QED
    BY <1>5, <2>2, <2>3 DEF IsArguments
<1>6. CASE m = "Observe"
  <2> DEFINE long == [k \in TextKeys |-> LongText]
             cursors == Cursors \cup {NoText, LongText, BadText, Stray}
             waits == {-1, 0, MaxWait, MaxWait + 1}
  <2>1. args \in [overrides : {env, long}, cursor : cursors, wait_ms : waits]
    BY <1>6 DEF ArgumentsOf
  <2>2. OfShape(long, TextKeys)
    BY DEF OfShape
  <2>3. long \in Overrides \/ \E k \in TextKeys : long[k] = LongText
    BY DEF Overrides
  <2> HIDE DEF long, cursors, waits
  <2>4. args.overrides \in {env, long} /\ OfShape(args, {"overrides", "cursor", "wait_ms"})
    BY <2>1 DEF OfShape
  <2>5. IsArguments(m, args)
    BY <1>1, <1>2, <1>6, <2>2, <2>4 DEF IsArguments
  <2>6. ObservationBounds(args) => args.overrides \in Overrides
    BY <1>2, <2>3, <2>4 DEF ObservationBounds
  <2> QED
    BY <1>6, <2>5, <2>6
<1> QED
  BY <1>3, <1>4, <1>5, <1>6 DEF Methods

\* What a handler of the service gives to arguments that can be sent is spelled.
LEMMA GivenIsSpelled ==
  ASSUME FilesInv, NEW m \in Methods, NEW args \in ArgumentsOf(m),
         FirstFlaw(EncArguments(m, args)) = "none",
         NEW x, Gave(x) \in Answers(m, args), x # Unspeakable(m)
  PROVE  SpelledResult(m, x)
<1>1. /\ \A out \in UserReplaceOutcomes \cup ConfigObservationOutcomes : out # BadText
      /\ NoText # BadText
  <2>1. UserReplaceOutcomes \cup ConfigObservationOutcomes \subseteq ProtocolWords
    BY DEF ProtocolWords
  <2> QED
    BY <2>1, WordsAreSpelled, SpellingAssumption DEF NoText
<1>2. Cleared \in Settings
  BY DEF Cleared, Settings
<1>3. \A c \in Settings : SpelledUserSnapshot(Record(c))
  BY SettingsAreSpelled DEF Record, SpelledUserSnapshot
<1>4. CASE m = "Read"
  BY <1>4, ArgumentsAreArguments, ReadGives, SnapshotIsSpelled DEF SpelledResult
<1>5. CASE m = "ReadUser"
  BY <1>3, <1>5, ReadUserGives DEF SpelledResult
<1>6. CASE m = "ReplaceUser"
  <2>1. args["values"] = Cleared
    BY <1>6, ArgumentsAreArguments, ArgumentsAreSpelled, SpellingAssumption
  <2>2. SpelledUserSnapshot([values |-> Cleared, revision |-> NoText])
    BY <1>1, <1>2, SettingsAreSpelled DEF SpelledUserSnapshot
  <2>3. \E out \in UserReplaceOutcomes : \E s :
          x = [outcome |-> out, snapshot |-> s] /\ SpelledUserSnapshot(s)
    <3>1. {"forbidden", "unavailable", "applied", "conflict"} \subseteq UserReplaceOutcomes
      BY DEF UserReplaceOutcomes
    <3>2. SpelledUserSnapshot(Record(args.values))
      BY <1>2, <1>3, <2>1
    <3>3. \/ \E out \in {"forbidden", "unavailable"} :
               x = [outcome |-> out, snapshot |-> [values |-> Cleared, revision |-> NoText]]
          \/ x = [outcome |-> "applied", snapshot |-> Record(args.values)]
          \/ \E c \in Settings : x = [outcome |-> "conflict", snapshot |-> Record(c)]
      BY <1>6, ReplaceUserGives
    <3> QED
      BY <1>3, <2>2, <3>1, <3>2, <3>3
  <2> QED
    BY <1>1, <1>6, <2>3 DEF SpelledResult, SpelledUserReplaceResult
<1>7. CASE m = "Observe"
  <2> DEFINE read == Snapshot(LoadWithSources(machine, user, args.overrides))
  <2>1. ObservationBounds(args) => SpelledSnapshot(read) /\ NextCursor(read) # BadText
    BY <1>7, ArgumentsAreArguments, SnapshotIsSpelled
  <2>2. args.cursor # BadText
    BY <1>7, ArgumentsAreSpelled
  <2>3. \/ \E out \in ConfigObservationOutcomes :
             x = [outcome |-> out, cursor |-> args.cursor, snapshot |-> Nil]
        \/ /\ ObservationBounds(args)
           /\ x = [outcome |-> "snapshot", cursor |-> NextCursor(read), snapshot |-> read]
    BY <1>7, ObserveGives DEF Nothing, Shown, ConfigObservationOutcomes
  <2> HIDE DEF read
  <2>4. SpelledConfigObservation(x)
    BY <1>1, <2>1, <2>2, <2>3 DEF SpelledConfigObservation, ConfigObservationOutcomes
  <2> QED
    BY <1>7, <2>4 DEF SpelledResult
<1> QED
  BY <1>4, <1>5, <1>6, <1>7 DEF Methods

\* An observation the service makes passes the client's check.
LEMMA ObservationPasses ==
  ASSUME FilesInv, NEW args \in ArgumentsOf("Observe"), ObservationBounds(args),
         NEW x, Gave(x) \in Answers("Observe", args), x # Unspeakable("Observe")
  PROVE  ObservationHolds(args, x)
<1> DEFINE read == Snapshot(LoadWithSources(machine, user, args.overrides))
<1>1. read # Nil /\ NextCursor(read) \notin {BadText, LongText, NoText}
  BY ArgumentsAreArguments, SnapshotIsSpelled DEF Methods
<1>2. CASE \E out \in {"invalid", "unsupported", "unavailable", "gap"} : Nothing(args, x, out)
  BY <1>2 DEF Nothing, ObservationHolds
<1>3. CASE Nothing(args, x, "unchanged") /\ args.cursor = NextCursor(read)
  BY <1>1, <1>3 DEF Nothing, ObservationHolds
<1>4. CASE Shown(args, x)
  BY <1>1, <1>4 DEF Shown, ObservationHolds
<1> QED
  BY <1>2, <1>3, <1>4, ObserveGives

\* An observation with a snapshot says so.
LEMMA ShownIsSaid ==
  ASSUME NEW args, NEW x, Gave(x) \in Answers("Observe", args)
  PROVE  /\ IsConfigObservation(x)
         /\ x.snapshot # Nil => x.outcome = "snapshot"
<1>1. IsConfigObservation(x)
  BY GivenIsResult DEF IsResult, Methods
<1>2. CASE x = Unspeakable("Observe")
  BY <1>1, <1>2 DEF Unspeakable
<1>3. CASE x # Unspeakable("Observe")
  BY <1>1, <1>3, ObserveGives DEF Nothing, Shown
<1> QED
  BY <1>1, <1>2, <1>3

-----------------------------------------------------------------------------
(* What serving a request comes to.                                        *)

\* Every method is of one service, and its names are spelled.
LEMMA ServicesNamed ==
  /\ DOMAIN MethodsOf = {Reader, Editor, Observer} /\ Endpoint \notin DOMAIN MethodsOf
  /\ \A s \in DOMAIN MethodsOf : MethodsOf[s] \subseteq Methods
  /\ \A s : s \in DOMAIN MethodsOf <=> \E i \in DOMAIN Hosted : Hosted[i] = s
  /\ \A s \in DOMAIN MethodsOf : \A m \in MethodsOf[s] : ServiceOf(m) = s
  /\ \A m \in Methods : /\ ServiceOf(m) \in DOMAIN MethodsOf /\ m \in MethodsOf[ServiceOf(m)]
                        /\ ServiceOf(m) # BadText /\ m # BadText
<1>1. DOMAIN MethodsOf = {Reader, Editor, Observer} /\ Endpoint \notin DOMAIN MethodsOf
  BY DEF MethodsOf, Reader, Editor, Observer, Endpoint
<1>2. /\ MethodsOf[Reader] = {"Read"} /\ MethodsOf[Editor] = {"ReadUser", "ReplaceUser"}
      /\ MethodsOf[Observer] = {"Observe"}
  BY DEF MethodsOf, Reader, Editor, Observer
<1>3. \A s \in DOMAIN MethodsOf : MethodsOf[s] \subseteq Methods
  BY <1>1, <1>2 DEF Methods
<1>4. \A s : s \in DOMAIN MethodsOf <=> \E i \in DOMAIN Hosted : Hosted[i] = s
  <2>1. DOMAIN Hosted = {1, 2, 3} /\ Hosted[1] = Reader /\ Hosted[2] = Editor /\ Hosted[3] = Observer
    BY DEF Hosted
  <2> QED
    BY <1>1, <2>1
<1>5. \A s, t \in DOMAIN MethodsOf : \A m \in MethodsOf[s] \cap MethodsOf[t] : s = t
  BY <1>1, <1>2
<1>6. \A s \in DOMAIN MethodsOf : \A m \in MethodsOf[s] : ServiceOf(m) = s
  BY <1>5 DEF ServiceOf
<1>7. \A m \in Methods : \E s \in DOMAIN MethodsOf : m \in MethodsOf[s]
  BY <1>1, <1>2 DEF Methods
<1>8. \A w \in DOMAIN MethodsOf \cup Methods : w # BadText
  <2>1. DOMAIN MethodsOf \cup Methods \subseteq ProtocolWords
    BY <1>1 DEF ProtocolWords, Methods
  <2> QED
    BY <2>1, WordsAreSpelled
<1> QED
  BY <1>1, <1>3, <1>4, <1>6, <1>7, <1>8

\* A request that is sent is read as it was made, and so are its arguments.
LEMMA RequestArrives ==
  ASSUME NEW m \in Methods, NEW args, Accepted(ServicePayload(Request(ServiceOf(m), m, args)))
  PROVE  LET v == ServicePayload(Request(ServiceOf(m), m, args)).took
         IN  /\ v.service = ServiceOf(m) /\ v.method = m /\ v.arguments = EncArguments(m, args)
             /\ FirstFlaw(EncArguments(m, args)) = "none"
<1> DEFINE s == ServiceOf(m)
           v == [version |-> Version, service |-> s, method |-> m, arguments |-> EncArguments(m, args)]
           docs == FrameDocs(v)
           d == EncRecord(FrameOrder, docs)
<1>1. ServicePayload(Request(s, m, args)) = Took(v)
  BY ServicesNamed, RequestUnaltered
<1>2. ServicePayload(Request(s, m, args)).took = v
  BY <1>1, TookAccepted
<1>3. docs["arguments"] = EncArguments(m, args) /\ Request(s, m, args) = d
  BY EnvelopesAreRecords DEF FrameDocs, Request
<1>4. Accepted(DecodeRecord(d, FrameNames, {}, FrameReading(d)))
  BY <1>3, EnvelopesAreRecords, TookAccepted DEF ServicePayload
<1> DEFINE rs == FrameReading(d)
<1>5. PICK i \in DOMAIN d.fields :
        IsA("fields", d) /\ d.fields[i].name = "arguments" /\ Accepted(rs[i])
  <2>1. Plain(d) /\ "arguments" \in FrameNames
    BY EnvelopeOrders, EncodedFields DEF FrameNames
  <2> HIDE DEF d
  <2> QED
    BY <1>4, <2>1, FieldTaken
<1>6. d.fields[i].doc = EncArguments(m, args)
  <2>1. /\ DOMAIN d.fields = DOMAIN FrameOrder
        /\ d.fields[i].name = FrameOrder[i] /\ d.fields[i].doc = docs[FrameOrder[i]]
    BY <1>5, EnvelopeOrders, EncodedFields
  <2> HIDE DEF d, docs
  <2> QED
    BY <1>3, <1>5, <2>1
<1> HIDE DEF d
<1>7. rs[i] = RawValue(EncArguments(m, args))
  BY <1>5, <1>6 DEF FrameReading, Fields
<1>8. FirstFlaw(EncArguments(m, args)) = "none"
  BY <1>5, <1>7, RawIsTaken
<1> QED
  BY <1>2, <1>8

\* Whatever became of a request, a handler that replaces is asked with the
\* arguments of a caller.
LEMMA ReplaceIsAsked ==
  ASSUME NEW m \in Methods, NEW args, IsArguments(m, args),
         NEW e \in Forms(EncArguments(m, args)), Accepted(DecodeArguments("ReplaceUser", e))
  PROVE  OfShape(DecodeArguments("ReplaceUser", e).took.values, Keys)
<1>1. CASE m = "ReplaceUser"
  <2>1. DecodeArguments(m, e) = Took(args)
    BY <1>1, ArgumentsRead
  <2> QED
    BY <1>1, <2>1, TookAccepted DEF IsArguments
<1>2. CASE m # "ReplaceUser"
  <2> DEFINE n == "ReplaceUser"
             names == ArgumentNames(m)
             known == ArgumentNames(n)
             order == ArgumentOrder(m)
  <2>1. n \in Methods /\ "values" \in known /\ "values" \notin names
    BY <1>2 DEF Methods, ArgumentNames
  <2>2. PICK reading : DecodeArguments(n, e) = DecodeRecord(e, known, {}, reading)
    BY <2>1, ArgumentsAreRecords
  <2>3. PICK docs : EncArguments(m, args) = EncRecord(order, docs)
    BY ArgumentsAreRecords
  <2>4. Lists(order, names) /\ "invented" \notin known
    BY <2>1, ArgumentsAreRecords
  <2> HIDE DEF names, known, order
  <2> QED
    BY <2>1, <2>2, <2>3, <2>4, FieldOfVariant
<1> QED
  BY <1>1, <1>2

\* The value a handler gave, why there is none, or nothing where that has no
\* spelling.
Answered(v, seen, said, reply) ==
  \/ /\ v.service = Endpoint /\ ~Accepted(seen)
     /\ \E d : FirstFlaw(d) = "none" /\ reply = Took(ReplyOf(v, TRUE, d))
  \/ \E x : LET d == EncResult(v.method, x)
            IN  /\ Accepted(seen) /\ said = Gave(x) /\ Accepted(DecodeResult(v.method, d))
                /\ FirstFlaw(d) = "none" /\ reply = Took(ReplyOf(v, TRUE, d))
  \/ \E c, msg :
       /\ c # BadText /\ msg # BadText
       /\ reply = Took(ReplyOf(v, FALSE, EncServiceError([code |-> CodeOf(c), message |-> msg])))
       /\ \/ ~Accepted(seen) /\ said = NotCalled
          \/ Accepted(seen) /\ said = Failed(c, msg)
          \/ /\ Accepted(seen) /\ c = "invalid_result" /\ msg = NoText
             /\ \E x : said = Gave(x) /\ ~Accepted(DecodeResult(v.method, EncResult(v.method, x)))
  \/ Accepted(seen) /\ said = Failed("handler_error", BadText) /\ ~Accepted(reply)

LEMMA DescriptionIsFlawless ==
  FirstFlaw(Object(<<[name |-> "value", doc |-> TextMap(Hosted)]>>)) = "none"
<1> DEFINE fs == <<[name |-> "value", doc |-> TextMap(Hosted)]>>
<1>1. DOMAIN fs = {1} /\ fs[1].doc = TextMap(Hosted)
  OBVIOUS
<1>2. Hosted # BadText
  BY SpellingAssumption
<1>3. FirstFlaw(TextMap(Hosted)) = "none"
  BY <1>2 DEF FirstFlaw, IsA, Text, TextMap
<1> HIDE DEF fs
<1>4. {i \in DOMAIN fs : FirstFlaw(fs[i].doc) # "none"} = {}
  BY <1>1, <1>3
<1>5. Object(fs) = [fields |-> fs, inside |-> "none"]
  BY <1>4 DEF Object
<1>6. FirstFlaw(Object(fs)) = "none"
  BY <1>5 DEF FirstFlaw, IsA, Text, TextMap
<1> QED
  BY <1>6 DEF fs

LEMMA ServiceAnswers ==
  ASSUME NEW m \in Methods, NEW args, IsArguments(m, args),
         NEW e \in Frames(Request(ServiceOf(m), m, args)), Accepted(ServicePayload(e)),
         NEW said,
         said \in IF Accepted(HandlerSees(e))
                    THEN Answers(ServicePayload(e).took.method, HandlerSees(e).took) ELSE {NotCalled}
  PROVE  Answered(ServicePayload(e).took, HandlerSees(e), said, ServeEndpoint(e, said))
<1> DEFINE v == ServicePayload(e).took
           n == v.method
           seen == HandlerSees(e)
           reply == ServeEndpoint(e, said)
           error(c, msg) == EncServiceError([code |-> CodeOf(c), message |-> msg])
<1>1. v.service # BadText /\ n # BadText /\ v.arguments \in Forms(EncArguments(m, args))
  BY RequestRead
<1>2. /\ v.service = Endpoint => reply = DescribeEndpoint(v)
      /\ v.service \in DOMAIN MethodsOf => reply = ExchangeFrame(v.service, v, said)
      /\ v.service \notin DOMAIN MethodsOf \cup {Endpoint} =>
           reply = ServiceReply(v, Word2Code("unknown_service"))
  BY ServicesNamed DEF ServeEndpoint
<1>3. /\ v.service \in DOMAIN MethodsOf => seen = Dispatch(v.service, v)
      /\ v.service \notin DOMAIN MethodsOf => ~Accepted(seen)
  BY TookAccepted DEF HandlerSees
<1>4. said \in IF Accepted(seen) THEN Answers(n, seen.took) ELSE {NotCalled}
  OBVIOUS
<1>w. \A w \in ProtocolWords \cup {NoText} : w # BadText
  BY SpellingAssumption DEF NoText
<1>s. \A c, msg : c # BadText /\ msg # BadText =>
        ServiceReply(v, Failed(c, msg)) = Took(ReplyOf(v, FALSE, error(c, msg)))
  BY <1>1, RefusalSent
<1> HIDE DEF v, seen, reply
<1>0. SUFFICES Answered(v, seen, said, reply)
  BY DEF v, seen, reply
<1>5. ASSUME NEW w \in ProtocolWords, ~Accepted(seen), reply = ServiceReply(v, Word2Code(w))
      PROVE  Answered(v, seen, said, reply)
  <2>1. said = NotCalled /\ w # BadText /\ NoText # BadText
    BY <1>4, <1>5, <1>w
  <2>2. reply = Took(ReplyOf(v, FALSE, error(w, NoText)))
    BY <1>5, <1>s, <2>1 DEF Word2Code
  <2> QED
    BY <1>5, <2>1, <2>2 DEF Answered
<1>6. CASE v.service = Endpoint
  <2>1. ~Accepted(seen) /\ reply = DescribeEndpoint(v)
    BY <1>2, <1>3, <1>6, ServicesNamed
  <2>2. "unknown_method" \in ProtocolWords /\ "unknown_field" \in ProtocolWords
    BY DEF ProtocolWords, RefusalWords
  <2>3. CASE n # "Describe"
    BY <1>5, <2>1, <2>2, <2>3 DEF DescribeEndpoint
  <2>4. CASE n = "Describe" /\ v.arguments # Object(<<>>)
    BY <1>5, <2>1, <2>2, <2>4 DEF DescribeEndpoint
  <2>5. CASE n = "Describe" /\ v.arguments = Object(<<>>)
    <3> DEFINE d == Object(<<[name |-> "value", doc |-> TextMap(Hosted)]>>)
    <3>1. reply = ServiceReply(v, Payload(d)) /\ FirstFlaw(d) = "none"
      BY <2>1, <2>5, DescriptionIsFlawless DEF DescribeEndpoint
    <3> HIDE DEF d
    <3>2. reply = Took(ReplyOf(v, TRUE, d))
      BY <1>1, <3>1, PayloadSent
    <3> QED
      BY <1>6, <2>1, <3>1, <3>2 DEF Answered
  <2> QED
    BY <2>3, <2>4, <2>5
<1>7. CASE v.service \notin DOMAIN MethodsOf \cup {Endpoint}
  <2>1. "unknown_service" \in ProtocolWords
    BY DEF ProtocolWords
  <2> QED
    BY <1>2, <1>3, <1>5, <1>7, <2>1
<1>8. CASE v.service \in DOMAIN MethodsOf /\ ~Accepted(seen)
  <2>1. reply = ServiceReply(v, Word2Code(seen.refused))
    BY <1>2, <1>3, <1>8 DEF ExchangeFrame
  <2>2. seen.refused \in ProtocolWords
    <3>1. CASE n \notin MethodsOf[v.service]
      BY <1>3, <1>8, <3>1, TookAccepted DEF Dispatch, ProtocolWords
    <3>2. CASE n \in MethodsOf[v.service]
      <4>1. n \in Methods /\ seen = DecodeArguments(n, v.arguments)
        BY <1>3, <1>8, <3>2, ServicesNamed DEF Dispatch
      <4>2. Decided(seen)
        BY <1>1, <4>1, ArgumentsDecide
      <4>3. seen.refused \in RefusalWords
        BY <1>8, <4>2, TookAccepted DEF Decided
      <4> QED
        BY <4>3 DEF ProtocolWords
    <3> QED
      BY <3>1, <3>2
  <2> QED
    BY <1>5, <1>8, <2>1, <2>2
<1>9. CASE v.service \in DOMAIN MethodsOf /\ Accepted(seen)
  <2>1. n \in Methods /\ seen = DecodeArguments(n, v.arguments)
    BY <1>3, <1>9, ServicesNamed, TookAccepted DEF Dispatch
  <2>2. reply = ServiceReply(v, Invoke(n, said))
    BY <1>2, <1>3, <1>9 DEF ExchangeFrame
  <2>3. said \in Answers(n, seen.took)
    BY <1>4, <1>9
  <2>4. ASSUME NEW x, said = Gave(x)
        PROVE  Answered(v, seen, said, reply)
    <3> DEFINE d == EncResult(n, x)
    <3>1. IsResult(n, x)
      <4>1. n = "ReplaceUser" => OfShape(seen.took.values, Keys)
        BY <1>1, <1>9, <2>1, ReplaceIsAsked
      <4> QED
        BY <2>1, <2>3, <2>4, <4>1, GivenIsResult
    <3>2. "gave" \in DOMAIN said /\ said.gave = x
      BY <2>4 DEF Gave
    <3>3. CASE Accepted(DecodeResult(n, d))
      <4>1. FirstFlaw(d) = "none"
        BY <2>1, <3>1, <3>3, ResultRead
      <4>2. reply = ServiceReply(v, Payload(d))
        BY <2>2, <3>2, <3>3 DEF Invoke
      <4>3. reply = Took(ReplyOf(v, TRUE, d))
        BY <1>1, <4>1, <4>2, PayloadSent
      <4> QED
        BY <1>9, <2>4, <3>3, <4>1, <4>3 DEF Answered
    <3>4. CASE ~Accepted(DecodeResult(n, d))
      <4>1. reply = ServiceReply(v, Failed("invalid_result", NoText))
        BY <2>2, <3>2, <3>4 DEF Invoke, Word2Code
      <4>2. "invalid_result" \in ProtocolWords
        BY DEF ProtocolWords
      <4>3. "invalid_result" # BadText /\ NoText # BadText
        BY <1>w, <4>2
      <4>4. reply = Took(ReplyOf(v, FALSE, error("invalid_result", NoText)))
        BY <1>s, <4>1, <4>3
      <4> QED
        BY <1>9, <2>4, <3>4, <4>3, <4>4 DEF Answered
    <3> QED
      BY <3>3, <3>4
  <2>5. ASSUME NEW c, NEW msg, said = Failed(c, msg)
        PROVE  reply = ServiceReply(v, Failed(c, msg))
    <3>1. "gave" \notin DOMAIN said
      BY <2>5 DEF Failed
    <3> QED
      BY <2>2, <2>5, <3>1 DEF Invoke
  <2>6. ASSUME NEW c \in ProtocolWords \cup {NoText}, NEW msg \in ProtocolWords \cup {NoText},
               said = Failed(c, msg)
        PROVE  Answered(v, seen, said, reply)
    <3>1. c # BadText /\ msg # BadText
      BY <1>w
    <3>2. reply = Took(ReplyOf(v, FALSE, error(c, msg)))
      BY <1>s, <2>5, <2>6, <3>1
    <3> QED
      BY <1>9, <2>6, <3>1, <3>2 DEF Answered
  <2>7. CASE said = Failed("handler_error", BadText)
    <3>1. "handler_error" \in ProtocolWords
      BY DEF ProtocolWords
    <3>2. "handler_error" # BadText
      BY <1>w, <3>1
    <3>3. ~Accepted(reply)
      BY <1>1, <2>5, <2>7, <3>2, RefusalSent
    <3> QED
      BY <1>9, <2>7, <3>3 DEF Answered
  <2> QED
    BY <2>1, <2>3, <2>4, <2>6, <2>7, AnswersAreTold
<1> QED
  BY <1>6, <1>7, <1>8, <1>9

-----------------------------------------------------------------------------
(* What a client hears.                                                    *)

\* A reply to which nothing happened.
LEMMA ReplyHeard ==
  ASSUME NEW v, v.service # BadText, v.method # BadText, NEW ok, NEW d, FirstFlaw(d) = "none"
  PROVE  LET r == DecodeServiceReply(ReplyOf(v, ok, d))
         IN  /\ ReplyOf(v, ok, d) # NoFrame /\ Accepted(r)
             /\ r.took.version = Version /\ r.took.service = v.service /\ r.took.method = v.method
             /\ r.took.ok = ok /\ r.took.payload = d
<1> DEFINE w == [version |-> Version, service |-> v.service, method |-> v.method, ok |-> ok, payload |-> d]
<1>1. DecodeServiceReply(ReplyOf(v, ok, d)) = Took(w)
  BY ReplyUnaltered DEF ReplyOf
<1>2. ReplyOf(v, ok, d) # NoFrame
  <2>1. IsA("fields", ReplyOf(v, ok, d))
    BY EnvelopesAreRecords, EnvelopeOrders, EncodedFields DEF ReplyOf
  <2> QED
    BY <2>1 DEF IsA, NoFrame
<1> QED
  BY <1>1, <1>2, TookAccepted

\* The record of a refusal.
LEMMA ErrorHeard ==
  ASSUME NEW c, c # BadText, NEW msg, msg # BadText
  PROVE  LET d == EncServiceError([code |-> CodeOf(c), message |-> msg])
             e == DecodeServiceError(d)
         IN  /\ FirstFlaw(d) = "none" /\ Accepted(e)
             /\ e.took.code = CodeOf(c) /\ e.took.message = msg /\ CodeOf(c) # NoText
<1>1. CodeOf(c) # NoText /\ CodeOf(c) # BadText
  <2>1. "handler_error" \in ProtocolWords
    BY DEF ProtocolWords
  <2>2. "handler_error" # BadText /\ "handler_error" # NoText
    BY <2>1, WordsAreSpelled
  <2> QED
    BY <2>2 DEF CodeOf
<1> QED
  BY <1>1, ErrorRead, TookAccepted

\* A client takes nothing but a result, under the names it called.
LEMMA ClientTakes ==
  ASSUME NEW e, NEW s, NEW m, Accepted(ServiceResponse(e, s, m))
  PROVE  LET r == DecodeServiceReply(e)
         IN  /\ Accepted(r) /\ r.took.service = s /\ r.took.method = m
             /\ ServiceResponse(e, s, m) = DecodeResult(m, r.took.payload)
<1>1. \A c, msg : ~Accepted(Failed(c, msg))
  BY DEF Accepted, Failed
<1> QED
  BY <1>1, TookAccepted DEF ServiceResponse

\* What it makes of a reply to which nothing happened.
LEMMA ClientHears ==
  ASSUME NEW v, v.service # BadText, v.method # BadText, NEW d, FirstFlaw(d) = "none"
  PROVE  ServiceResponse(ReplyOf(v, TRUE, d), v.service, v.method) = DecodeResult(v.method, d)
<1> DEFINE r == DecodeServiceReply(ReplyOf(v, TRUE, d))
<1>1. /\ Accepted(r) /\ r.took.version = Version /\ r.took.service = v.service
      /\ r.took.method = v.method /\ r.took.ok = TRUE /\ r.took.payload = d
  <2>1. ASSUME NEW ok \in {TRUE, FALSE}
        PROVE  LET q == DecodeServiceReply(ReplyOf(v, ok, d))
               IN  /\ Accepted(q) /\ q.took.version = Version /\ q.took.service = v.service
                   /\ q.took.method = v.method /\ q.took.ok = ok /\ q.took.payload = d
    BY ReplyHeard
  <2> QED
    BY <2>1
<1> HIDE DEF r
<1> QED
  BY <1>1 DEF ServiceResponse, r

LEMMA ClientHearsError ==
  ASSUME NEW v, v.service # BadText, v.method # BadText,
         NEW c, c # BadText, NEW msg, msg # BadText
  PROVE  ServiceResponse(ReplyOf(v, FALSE, EncServiceError([code |-> CodeOf(c), message |-> msg])),
                         v.service, v.method) = Failed(CodeOf(c), msg)
<1> DEFINE d == EncServiceError([code |-> CodeOf(c), message |-> msg])
<1>1. /\ FirstFlaw(d) = "none" /\ Accepted(DecodeServiceError(d)) /\ CodeOf(c) # NoText
      /\ DecodeServiceError(d).took.code = CodeOf(c) /\ DecodeServiceError(d).took.message = msg
  BY ErrorHeard
<1> HIDE DEF d
<1> DEFINE r == DecodeServiceReply(ReplyOf(v, FALSE, d))
<1>r. /\ Accepted(r) /\ r.took.version = Version /\ r.took.service = v.service
      /\ r.took.method = v.method /\ r.took.ok = FALSE /\ r.took.payload = d
  <2>1. ASSUME NEW ok \in {TRUE, FALSE}
        PROVE  LET q == DecodeServiceReply(ReplyOf(v, ok, d))
               IN  /\ Accepted(q) /\ q.took.version = Version /\ q.took.service = v.service
                   /\ q.took.method = v.method /\ q.took.ok = ok /\ q.took.payload = d
    BY <1>1, ReplyHeard
  <2> QED
    BY <2>1
<1> HIDE DEF r
<1>2. ServiceResponse(ReplyOf(v, FALSE, d), v.service, v.method) = Failed(CodeOf(c), msg)
  BY <1>1, <1>r DEF ServiceResponse, r
<1> QED
  BY <1>2 DEF d

-----------------------------------------------------------------------------
(* The inductive invariant: where a call stands, and what that says of its  *)
(* frames.                                                                 *)

CallFields == {"at", "method", "args", "careful", "altered", "request", "reply",
               "asked", "said", "result"}

\* The request as the client made it.
Made == Request(ServiceOf(call.method), call.method, call.args)

\* A call of a method with arguments a caller may have.
CalledInv ==
  /\ OfShape(call, CallFields)
  /\ call.at \in {"sent", "served", "returned"}
  /\ call.altered \in {"no", "request", "reply"} /\ call.careful \in BOOLEAN
  /\ call.method \in Methods /\ call.args \in ArgumentsOf(call.method)

\* What is under way could be sent, and at most one frame of it is altered.
SentInv ==
  call.at \in {"sent", "served"} =>
    /\ call.careful => call.method = "Observe" /\ ObservationBounds(call.args)
    /\ Accepted(ServicePayload(Made))
    /\ IF call.altered = "request" THEN call.request \in Arrivals(Made) ELSE call.request = Made
    /\ call.at = "sent" => call.altered # "reply"

\* What a handler was asked and said, and the reply that was made of it.
ServedInv ==
  call.at = "served" =>
    LET seen == HandlerSees(call.request)
        sent == ServeEndpoint(call.request, call.said)
    IN  /\ call.asked = IF Accepted(seen) THEN seen ELSE NotCalled
        /\ call.said \in IF Accepted(seen)
                           THEN Answers(ServicePayload(call.request).took.method, seen.took)
                           ELSE {NotCalled}
        /\ IF call.altered = "reply" THEN Accepted(sent) /\ call.reply \in Arrivals(sent.took)
           ELSE call.reply = IF Accepted(sent) THEN sent.took ELSE NoFrame

ServiceInv ==
  /\ FilesInv
  /\ call = Idle \/ (CalledInv /\ SentInv /\ ServedInv /\ HeardIsSaid /\ OutcomeIsTold)

\* A call that has been served.
LEMMA ServedCall ==
  ASSUME ServiceInv, call.at = "served"
  PROVE  LET v == ServicePayload(call.request)
             seen == HandlerSees(call.request)
             sent == ServeEndpoint(call.request, call.said)
         IN  /\ CalledInv /\ SentInv /\ ServedInv
             /\ IsArguments(call.method, call.args)
             /\ call.request \in Frames(Made)
             /\ ~Accepted(v) => ~Accepted(seen) /\ ~Accepted(sent)
             /\ Accepted(v) => /\ v.took.service # BadText /\ v.took.method # BadText
                               /\ v.took.arguments \in Forms(EncArguments(call.method, call.args))
                               /\ Answered(v.took, seen, call.said, sent)
<1> DEFINE v == ServicePayload(call.request)
           seen == HandlerSees(call.request)
           sent == ServeEndpoint(call.request, call.said)
<1>1. CalledInv /\ SentInv /\ ServedInv
  BY DEF ServiceInv, Idle
<1>2. IsArguments(call.method, call.args)
  BY <1>1, ArgumentsAreArguments DEF ServiceInv, CalledInv
<1>3. call.request \in Frames(Made)
  BY <1>1 DEF SentInv, Frames
<1>4. ~Accepted(v) => ~Accepted(seen) /\ ~Accepted(sent)
  BY TookAccepted DEF HandlerSees, ServeEndpoint
<1>5. ASSUME Accepted(v)
      PROVE  /\ v.took.service # BadText /\ v.took.method # BadText
             /\ v.took.arguments \in Forms(EncArguments(call.method, call.args))
  BY <1>3, <1>5, RequestRead DEF Made
<1>6. ASSUME Accepted(v)
      PROVE  Answered(v.took, seen, call.said, sent)
  <2>1. call.said \in IF Accepted(seen) THEN Answers(v.took.method, seen.took) ELSE {NotCalled}
    BY <1>1 DEF ServedInv
  <2> QED
    BY <1>1, <1>2, <1>3, <1>6, <2>1, ServiceAnswers DEF Made, CalledInv
<1> HIDE DEF v, seen, sent
<1>7. /\ ~Accepted(v) => ~Accepted(seen) /\ ~Accepted(sent)
      /\ Accepted(v) => /\ v.took.service # BadText /\ v.took.method # BadText
                        /\ v.took.arguments \in Forms(EncArguments(call.method, call.args))
                        /\ Answered(v.took, seen, call.said, sent)
  BY <1>4, <1>5, <1>6
<1> QED
  BY <1>1, <1>2, <1>3, <1>7 DEF v, seen, sent

\* Whoever can be understood is answered.
LEMMA ServedIsAnswered ==
  ASSUME ServiceInv
  PROVE  AnsweredIfUnderstood
<1> DEFINE v == ServicePayload(call.request)
           seen == HandlerSees(call.request)
           sent == ServeEndpoint(call.request, call.said)
           r == DecodeServiceReply(call.reply)
           error(c, msg) == EncServiceError([code |-> CodeOf(c), message |-> msg])
           Understood ==
             /\ call.reply # NoFrame
             /\ Accepted(r)
             /\ r.took.service = v.took.service /\ r.took.method = v.took.method
             /\ IF r.took.ok
                  THEN v.took.service = Endpoint \/ Accepted(DecodeResult(v.took.method, r.took.payload))
                  ELSE LET e == DecodeServiceError(r.took.payload)
                       IN  Accepted(e) /\ e.took.code # NoText
<1> SUFFICES ASSUME call.at = "served", call.altered # "reply"
             PROVE  IF Accepted(v) /\ call.said # Failed("handler_error", BadText)
                      THEN Understood ELSE call.reply = NoFrame
  BY DEF AnsweredIfUnderstood
<1>1. /\ ~Accepted(v) => ~Accepted(seen) /\ ~Accepted(sent)
      /\ Accepted(v) => /\ v.took.service # BadText /\ v.took.method # BadText
                        /\ Answered(v.took, seen, call.said, sent)
  BY ServedCall
<1>2. call.reply = IF Accepted(sent) THEN sent.took ELSE NoFrame
  BY ServedCall DEF ServedInv
<1>3. ASSUME NEW w \in {TRUE, FALSE}, NEW d, Accepted(v), FirstFlaw(d) = "none",
             sent = Took(ReplyOf(v.took, w, d))
      PROVE  /\ call.reply # NoFrame /\ Accepted(r)
             /\ r.took.service = v.took.service /\ r.took.method = v.took.method
             /\ r.took.ok = w /\ r.took.payload = d
  <2>1. call.reply = ReplyOf(v.took, w, d)
    BY <1>2, <1>3, TookAccepted
  <2> QED
    BY <1>1, <1>3, <2>1, ReplyHeard
<1>4. \A x, c, msg : /\ Gave(x) # Failed(c, msg) /\ NotCalled # Failed(c, msg)
                     /\ Failed(c, msg).message = msg
  BY DEF Gave, Failed, NotCalled
<1> HIDE DEF v, seen, sent, r
<1>5. ASSUME Accepted(v), v.took.service = Endpoint, call.said = NotCalled,
             NEW d, FirstFlaw(d) = "none", sent = Took(ReplyOf(v.took, TRUE, d))
      PROVE  Understood /\ call.said # Failed("handler_error", BadText)
  BY <1>3, <1>4, <1>5
<1>6. ASSUME Accepted(v), NEW x, call.said = Gave(x), NEW d, FirstFlaw(d) = "none",
             Accepted(DecodeResult(v.took.method, d)), sent = Took(ReplyOf(v.took, TRUE, d))
      PROVE  Understood /\ call.said # Failed("handler_error", BadText)
  BY <1>3, <1>4, <1>6
<1>7. ASSUME Accepted(v), NEW c, c # BadText, NEW msg, msg # BadText,
             sent = Took(ReplyOf(v.took, FALSE, error(c, msg)))
      PROVE  Understood
  <2>1. /\ FirstFlaw(error(c, msg)) = "none" /\ Accepted(DecodeServiceError(error(c, msg)))
        /\ DecodeServiceError(error(c, msg)).took.code # NoText
    BY <1>7, ErrorHeard
  <2> QED
    BY <1>3, <1>7, <2>1
<1>8. ~Accepted(seen) => call.said = NotCalled
  BY ServedCall DEF ServedInv, seen
<1>9. CASE ~Accepted(v)
  BY <1>1, <1>2, <1>9
<1>10. CASE Accepted(v)
  <2> HIDE DEF Understood
  <2>1. Answered(v.took, seen, call.said, sent)
    BY <1>1, <1>10
  <2>2. CASE /\ v.took.service = Endpoint /\ ~Accepted(seen)
             /\ \E d : FirstFlaw(d) = "none" /\ sent = Took(ReplyOf(v.took, TRUE, d))
    BY <1>5, <1>8, <1>10, <2>2
  <2>3. CASE \E x : LET d == EncResult(v.took.method, x)
                    IN  /\ Accepted(seen) /\ call.said = Gave(x) /\ Accepted(DecodeResult(v.took.method, d))
                        /\ FirstFlaw(d) = "none" /\ sent = Took(ReplyOf(v.took, TRUE, d))
    BY <1>6, <1>10, <2>3
  <2>4. CASE \E c, msg :
               /\ c # BadText /\ msg # BadText /\ sent = Took(ReplyOf(v.took, FALSE, error(c, msg)))
               /\ call.said = NotCalled \/ call.said = Failed(c, msg) \/ \E x : call.said = Gave(x)
    <3>1. Understood
      BY <1>7, <1>10, <2>4
    <3>2. call.said # Failed("handler_error", BadText)
      BY <1>4, <2>4
    <3> QED
      BY <1>10, <3>1, <3>2
  <2>5. CASE call.said = Failed("handler_error", BadText) /\ ~Accepted(sent)
    BY <1>2, <2>5
  <2> QED
    BY <2>1, <2>2, <2>3, <2>4, <2>5 DEF Answered
<1> QED
  BY <1>9, <1>10

\* What a client takes was given to this very call.
LEMMA HeardWasSaid ==
  ASSUME ServiceInv, call.at = "served", call.reply # NoFrame,
         NEW r, r = Returned(ServiceOf(call.method), call.method, call.args, call.careful, call.reply),
         Accepted(r), call.method = "Observe" => call.careful
  PROVE  call.asked = Took(call.args) /\ call.said = Gave(r.took)
<1> DEFINE m == call.method
           s == ServiceOf(call.method)
           args == call.args
           v == ServicePayload(call.request)
           seen == HandlerSees(call.request)
           sent == ServeEndpoint(call.request, call.said)
           resp == ServiceResponse(call.reply, s, m)
           q == DecodeServiceReply(call.reply)
<1>1. Accepted(resp) /\ r = resp /\ (call.careful => ObservationHolds(args, resp.took))
  BY TookAccepted DEF Returned
<1>2. /\ Accepted(q) /\ q.took.service = s /\ q.took.method = m
      /\ resp = DecodeResult(m, q.took.payload)
  BY <1>1, ClientTakes
<1>3. /\ Accepted(sent) /\ call.reply \in Frames(sent.took)
      /\ call.altered # "reply" => call.reply = sent.took
  BY ServedCall DEF ServedInv, Frames
<1>4. /\ Accepted(v) /\ v.took.service # BadText /\ v.took.method # BadText
      /\ v.took.arguments \in Forms(EncArguments(m, args))
      /\ Answered(v.took, seen, call.said, sent)
      /\ m \in Methods /\ IsArguments(m, args)
  BY <1>3, ServedCall DEF CalledInv
<1>5. /\ call.asked = IF Accepted(seen) THEN seen ELSE NotCalled
      /\ Accepted(seen) => call.said \in Answers(v.took.method, seen.took)
  BY ServedCall DEF ServedInv
<1>6. call.altered = "reply" => v.took.service = s /\ v.took.method = m
  <2>1. call.altered = "reply" => call.request = Made /\ Accepted(ServicePayload(Made))
    BY ServedCall DEF SentInv
  <2> QED
    BY <1>4, <2>1, RequestArrives DEF Made
<1>7. s \in DOMAIN MethodsOf /\ m \in MethodsOf[s] /\ Endpoint \notin DOMAIN MethodsOf
  BY <1>4, ServicesNamed
<1>8. v.took.service = s /\ v.took.method = m /\ Accepted(seen) => seen = DecodeArguments(m, v.took.arguments)
  BY <1>4, <1>7 DEF HandlerSees, Dispatch
<1> HIDE DEF s, v, seen, sent, resp, q
<1>9. ASSUME NEW ok \in {TRUE, FALSE}, NEW d, sent = Took(ReplyOf(v.took, ok, d))
      PROVE  /\ q.took.payload \in Forms(d)
             /\ FirstFlaw(d) = "none" => v.took.service = s /\ v.took.method = m
  <2>1. sent.took = ReplyOf(v.took, ok, d)
    BY <1>9, TookAccepted
  <2>2. q.took.payload \in Forms(d)
    <3> DEFINE w == [version |-> Version, service |-> v.took.service, method |-> v.took.method,
                     ok |-> ok, payload |-> d]
    <3>1. call.reply \in Frames(EncServiceReply(w)) /\ w.payload = d
      BY <1>3, <2>1 DEF ReplyOf
    <3> HIDE DEF w
    <3> QED
      BY <1>2, <3>1, ReplyRead DEF q
  <2>3. ASSUME FirstFlaw(d) = "none", call.altered # "reply"
        PROVE  v.took.service = s /\ v.took.method = m
    <3>1. call.reply = ReplyOf(v.took, ok, d)
      BY <1>3, <2>1, <2>3
    <3> QED
      BY <1>2, <1>4, <2>3, <3>1, ReplyHeard DEF q
  <2> QED
    BY <1>6, <2>2, <2>3
<1>10. ASSUME v.took.service = Endpoint, NEW d, FirstFlaw(d) = "none", sent = Took(ReplyOf(v.took, TRUE, d))
       PROVE  FALSE
  BY <1>7, <1>9, <1>10
<1>11. ASSUME NEW c, NEW msg,
              sent = Took(ReplyOf(v.took, FALSE, EncServiceError([code |-> CodeOf(c), message |-> msg])))
       PROVE  FALSE
  <2>1. q.took.payload \in Forms(EncServiceError([code |-> CodeOf(c), message |-> msg]))
    BY <1>9, <1>11
  <2> QED
    BY <1>1, <1>2, <1>4, <2>1, ErrorRead
<1>12. ASSUME NEW x, Accepted(seen), call.said = Gave(x), FirstFlaw(EncResult(v.took.method, x)) = "none",
              sent = Took(ReplyOf(v.took, TRUE, EncResult(v.took.method, x)))
       PROVE  call.asked = Took(args) /\ call.said = Gave(r.took)
  <2>1. /\ v.took.service = s /\ v.took.method = m
        /\ q.took.payload \in Forms(EncResult(m, x))
    BY <1>9, <1>12
  <2>2. seen = Took(args) /\ call.asked = Took(args)
    BY <1>4, <1>5, <1>8, <1>12, <2>1, ArgumentsRead
  <2>3. Gave(x) \in Answers(m, args)
    BY <1>5, <1>12, <2>1, <2>2, TookAccepted
  <2>4. IsResult(m, x)
    <3>1. m = "ReplaceUser" => OfShape(args.values, Keys)
      BY <1>4 DEF IsArguments
    <3> QED
      BY <1>4, <2>3, <3>1, GivenIsResult
  <2>5. PICK w : resp = Took(w) /\ HeardAs(m, x, w)
    BY <1>1, <1>2, <1>4, <2>1, <2>4, ResultRead
  <2>6. resp.took = w
    BY <2>5, TookAccepted
  <2>7. w = x
    <3>1. CASE m # "Observe"
      BY <2>5, <3>1 DEF HeardAs
    <3>2. CASE m = "Observe"
      <4>1. ObservationHolds(args, w) /\ OrWithout(x, w)
        BY <1>1, <2>5, <2>6, <3>2 DEF HeardAs, OrWithout
      <4>2. IsConfigObservation(x) /\ (x.snapshot # Nil => x.outcome = "snapshot")
        BY <2>3, <3>2, ShownIsSaid
      <4>3. x = [k \in {"outcome", "cursor", "snapshot"} |-> x[k]]
        BY <4>2 DEF IsConfigObservation, OfShape
      <4> DEFINE without == [x EXCEPT !.snapshot = Nil]
      <4>4. without.snapshot = Nil /\ without.outcome = x.outcome
        BY <4>3
      <4>5. x.snapshot = Nil => without = x
        BY <4>3
      <4>6. w = x \/ w = without
        BY <4>1 DEF OrWithout
      <4> HIDE DEF without
      <4> QED
        BY <4>1, <4>2, <4>4, <4>5, <4>6 DEF ObservationHolds
    <3> QED
      BY <3>1, <3>2
  <2> QED
    BY <1>1, <1>12, <2>2, <2>6, <2>7
<1> QED
  BY <1>3, <1>4, <1>10, <1>11, <1>12 DEF Answered

\* Where nothing happens to the frames, the outcome is told.
LEMMA OutcomeWasTold ==
  ASSUME ServiceInv, call.at = "served", call.altered = "no", call.asked # NotCalled,
         NEW r, r = IF call.reply = NoFrame THEN Refused("no_reply")
                    ELSE Returned(ServiceOf(call.method), call.method, call.args, call.careful, call.reply)
  PROVE  r = Told(call.method, call.said)
<1> DEFINE m == call.method
           s == ServiceOf(call.method)
           args == call.args
           v == ServicePayload(call.request)
           seen == HandlerSees(call.request)
           sent == ServeEndpoint(call.request, call.said)
           resp == ServiceResponse(call.reply, s, m)
<1>1. /\ call.request = Made /\ Accepted(v)
      /\ call.careful => m = "Observe" /\ ObservationBounds(args)
  BY ServedCall DEF SentInv
<1>2. /\ m \in Methods /\ args \in ArgumentsOf(m) /\ IsArguments(m, args)
      /\ call.careful \in BOOLEAN
  BY ServedCall DEF CalledInv
<1>3. /\ v.took.service = s /\ v.took.method = m /\ v.took.arguments = EncArguments(m, args)
      /\ FirstFlaw(EncArguments(m, args)) = "none"
  BY <1>1, <1>2, RequestArrives DEF Made
<1>4. s # BadText /\ m # BadText /\ s \in DOMAIN MethodsOf /\ m \in MethodsOf[s] /\ s # Endpoint
  BY <1>2, ServicesNamed
<1>5. Accepted(seen) /\ call.said \in Answers(v.took.method, seen.took)
  BY ServedCall DEF ServedInv
<1>6. seen = Took(args)
  <2>1. seen = DecodeArguments(m, EncArguments(m, args))
    BY <1>1, <1>3, <1>4 DEF HandlerSees, Dispatch
  <2> QED
    BY <1>2, <1>5, <2>1, ArgumentsRead, FormsOfIt
<1>7. call.said \in Answers(m, args)
  BY <1>3, <1>5, <1>6, TookAccepted
<1>8. /\ call.reply = IF Accepted(sent) THEN sent.took ELSE NoFrame
      /\ Answered(v.took, seen, call.said, sent)
  BY <1>1, ServedCall DEF ServedInv
<1>9. /\ r = IF call.reply = NoFrame THEN Refused("no_reply")
             ELSE IF call.careful /\ Accepted(resp) /\ ~ObservationHolds(args, resp.took)
               THEN Refused("malformed_observation") ELSE resp
  BY DEF Returned
<1>10. FilesInv
  BY DEF ServiceInv
<1> HIDE DEF s, v, seen, sent, resp
<1>11. ASSUME NEW x, call.said = Gave(x)
       PROVE  /\ IsResult(m, x)
              /\ x # Unspeakable(m) =>
                   /\ DecodeResult(m, EncResult(m, x)) = Took(x)
                   /\ call.careful => ObservationHolds(args, x)
              /\ x = Unspeakable(m) => Told(m, call.said) = Failed("invalid_result", NoText)
              /\ x # Unspeakable(m) => Told(m, call.said) = Took(x)
  <2>1. IsResult(m, x)
    <3>1. m = "ReplaceUser" => OfShape(args.values, Keys)
      BY <1>2 DEF IsArguments
    <3> QED
      BY <1>2, <1>7, <1>11, <3>1, GivenIsResult
  <2>2. x # Unspeakable(m) => SpelledResult(m, x)
    BY <1>2, <1>3, <1>7, <1>10, <1>11, GivenIsSpelled
  <2>3. x # Unspeakable(m) => DecodeResult(m, EncResult(m, x)) = Took(x)
    BY <1>2, <2>1, <2>2, ResultRead
  <2>4. x # Unspeakable(m) /\ call.careful => ObservationHolds(args, x)
    BY <1>1, <1>2, <1>7, <1>10, <1>11, ObservationPasses
  <2>5. /\ "gave" \in DOMAIN Gave(x) /\ Gave(x).gave = x
        /\ Gave(x) = Gave(Unspeakable(m)) => x = Unspeakable(m)
    BY DEF Gave
  <2>6. /\ x = Unspeakable(m) => Told(m, call.said) = Failed("invalid_result", NoText)
        /\ x # Unspeakable(m) => Told(m, call.said) = Took(x)
    BY <1>11, <2>5 DEF Told
  <2> QED
    BY <2>1, <2>3, <2>4, <2>6
<1>12. ASSUME NEW c, NEW msg, call.said = Failed(c, msg)
       PROVE  Told(m, call.said) = IF msg = BadText THEN Refused("no_reply") ELSE Failed(CodeOf(c), msg)
  <2>1. /\ "gave" \notin DOMAIN Failed(c, msg) /\ Failed(c, msg) # Gave(Unspeakable(m))
        /\ Failed(c, msg).code = c /\ Failed(c, msg).message = msg
    BY DEF Gave, Failed
  <2> QED
    BY <1>12, <2>1 DEF Told, CodeOf
<1>13. ASSUME NEW x, call.said = Gave(x), Accepted(DecodeResult(v.took.method, EncResult(v.took.method, x))),
              FirstFlaw(EncResult(v.took.method, x)) = "none",
              sent = Took(ReplyOf(v.took, TRUE, EncResult(v.took.method, x)))
       PROVE  r = Told(m, call.said)
  <2>1. x # Unspeakable(m)
    BY <1>2, <1>3, <1>13, UnspeakableIsRefused
  <2>2. call.reply = ReplyOf(v.took, TRUE, EncResult(m, x))
    BY <1>3, <1>8, <1>13, TookAccepted
  <2>3. resp = DecodeResult(m, EncResult(m, x))
    BY <1>3, <1>4, <1>13, <2>2, ClientHears DEF resp
  <2>4. call.reply # NoFrame
    <3>1. \A ok \in {TRUE, FALSE} : ReplyOf(v.took, ok, EncResult(m, x)) # NoFrame
      BY <1>3, <1>4, <1>13, ReplyHeard
    <3> QED
      BY <2>2, <3>1
  <2> QED
    BY <1>9, <1>11, <1>13, <2>1, <2>3, <2>4, TookAccepted
<1>14. ASSUME NEW c, c # BadText, NEW msg, msg # BadText,
              sent = Took(ReplyOf(v.took, FALSE, EncServiceError([code |-> CodeOf(c), message |-> msg])))
       PROVE  r = Failed(CodeOf(c), msg)
  <2> DEFINE d == EncServiceError([code |-> CodeOf(c), message |-> msg])
  <2>1. call.reply = ReplyOf(v.took, FALSE, d)
    BY <1>8, <1>14, TookAccepted
  <2>2. resp = Failed(CodeOf(c), msg)
    <3>1. v.took.service # BadText /\ v.took.method # BadText
      BY <1>3, <1>4
    <3>2. ServiceResponse(ReplyOf(v.took, FALSE, d), v.took.service, v.took.method) = Failed(CodeOf(c), msg)
      BY <1>14, <3>1, ClientHearsError
    <3> HIDE DEF d
    <3> QED
      BY <1>3, <2>1, <3>2 DEF resp
  <2>3. call.reply # NoFrame
    <3>1. FirstFlaw(d) = "none"
      BY <1>14, ErrorHeard
    <3>2. \A ok \in {TRUE, FALSE} : ReplyOf(v.took, ok, d) # NoFrame
      BY <1>3, <1>4, <3>1, ReplyHeard
    <3> QED
      BY <2>1, <3>2
  <2>4. ~Accepted(Failed(CodeOf(c), msg))
    BY DEF Accepted, Failed
  <2> QED
    BY <1>9, <2>2, <2>3, <2>4
<1>15. ASSUME NEW x, call.said = Gave(x), ~Accepted(DecodeResult(v.took.method, EncResult(v.took.method, x)))
       PROVE  Told(m, call.said) = Failed(CodeOf("invalid_result"), NoText)
  <2>1. "invalid_result" \in ProtocolWords
    BY DEF ProtocolWords
  <2>2. CodeOf("invalid_result") = "invalid_result"
    BY <2>1, WordsAreSpelled DEF CodeOf
  <2> QED
    BY <1>3, <1>11, <1>15, <2>2, TookAccepted
<1>16. CASE call.said = Failed("handler_error", BadText) /\ ~Accepted(sent)
  BY <1>8, <1>9, <1>12, <1>16
<1>17. CASE \E c, msg :
              /\ c # BadText /\ msg # BadText
              /\ sent = Took(ReplyOf(v.took, FALSE, EncServiceError([code |-> CodeOf(c), message |-> msg])))
              /\ \/ call.said = Failed(c, msg)
                 \/ /\ c = "invalid_result" /\ msg = NoText
                    /\ \E x : /\ call.said = Gave(x)
                              /\ ~Accepted(DecodeResult(v.took.method, EncResult(v.took.method, x)))
  BY <1>12, <1>14, <1>15, <1>17
<1> QED
  BY <1>3, <1>4, <1>5, <1>8, <1>13, <1>16, <1>17 DEF Answered

\* The files are files, before, during and after a call.
LEMMA FilesStay == FilesInv /\ [ServiceNext]_serviceVars => FilesInv'
<1> SUFFICES ASSUME FilesInv, [ServiceNext]_serviceVars
             PROVE  FilesInv'
  OBVIOUS
<1>1. CASE Edit
  BY <1>1 DEF Edit, Next, EditUser, EditMachine, FilesInv
<1>2. CASE UNCHANGED vars
  BY <1>2 DEF vars, FilesInv
<1> QED
  BY <1>1, <1>2 DEF ServiceNext, serviceVars, Send, AlterRequest, AlterReply, Serve, Receive, Forget

LEMMA SendKeeps == ServiceInv /\ Send => ServiceInv'
<1> SUFFICES ASSUME ServiceInv, Send
             PROVE  ServiceInv'
  OBVIOUS
<1>1. PICK s \in DOMAIN MethodsOf : \E m \in MethodsOf[s] :
        \E args \in ArgumentsOf(m), careful \in IF m = "Observe" THEN BOOLEAN ELSE {FALSE} :
          call' = Called(s, m, args, careful)
  BY DEF Send
<1>2. PICK m \in MethodsOf[s] :
        \E args \in ArgumentsOf(m), careful \in IF m = "Observe" THEN BOOLEAN ELSE {FALSE} :
          call' = Called(s, m, args, careful)
  BY <1>1
<1>3. PICK args \in ArgumentsOf(m), careful \in IF m = "Observe" THEN BOOLEAN ELSE {FALSE} :
        call' = Called(s, m, args, careful)
  BY <1>2
<1> DEFINE request == Request(s, m, args)
           checked == IF careful /\ ~ObservationBounds(args)
                        THEN Refused("invalid_bounds") ELSE ServicePayload(request)
<1>4. checked = Refused("invalid_bounds") \/ checked = ServicePayload(request)
  OBVIOUS
<1>5. Accepted(checked) =>
        checked = ServicePayload(request) /\ (careful => ObservationBounds(args))
  BY TookAccepted
<1>6. m \in Methods /\ ServiceOf(m) = s
  BY ServicesNamed
<1>7. careful \in BOOLEAN /\ (careful => m = "Observe")
  OBVIOUS
<1> HIDE DEF checked
<1>8. /\ call'.at = IF Accepted(checked) THEN "sent" ELSE "returned"
      /\ call'.method = m /\ call'.args = args /\ call'.careful = careful /\ call'.altered = "no"
      /\ call'.request = request /\ call'.asked = NotCalled
      /\ call'.result = IF Accepted(checked) THEN NotCalled ELSE checked
      /\ OfShape(call', CallFields)
  BY <1>3 DEF OfShape, CallFields, checked, Called
<1>9. Made' = request
  BY <1>6, <1>8 DEF Made
<1>10. FilesInv'
  BY FilesStay DEF ServiceInv, ServiceNext
<1>11. ArgumentsOf(m)' = ArgumentsOf(m)
  BY DEF ArgumentsOf, Send, vars
<1>12. CalledInv'
  BY <1>6, <1>7, <1>8, <1>11 DEF CalledInv
<1>13. SentInv'
  BY <1>5, <1>7, <1>8, <1>9 DEF SentInv
<1>14. ServedInv'
  BY <1>8 DEF ServedInv
<1>15. HeardIsSaid'
  BY <1>8 DEF HeardIsSaid
<1>16. OutcomeIsTold'
  BY <1>8 DEF OutcomeIsTold
<1> QED
  BY <1>10, <1>12, <1>13, <1>14, <1>15, <1>16 DEF ServiceInv

LEMMA AlterKeeps == ServiceInv /\ (AlterRequest \/ AlterReply) => ServiceInv'
<1> SUFFICES ASSUME ServiceInv, AlterRequest \/ AlterReply
             PROVE  ServiceInv'
  OBVIOUS
<1>1. FilesInv' /\ UNCHANGED vars
  BY FilesStay DEF ServiceInv, ServiceNext, AlterRequest, AlterReply
<1>2. call # Idle /\ CalledInv /\ SentInv /\ ServedInv
  <2>1. call.at # "idle"
    BY DEF AlterRequest, AlterReply
  <2>2. call # Idle
    BY <2>1 DEF Idle
  <2> QED
    BY <2>2 DEF ServiceInv
<1>3. CASE AlterRequest
  <2>1. PICK d \in Arrivals(call.request) : call' = [call EXCEPT !.request = d, !.altered = "request"]
    BY <1>3 DEF AlterRequest
  <2>2. call.at = "sent" /\ call.altered = "no"
    BY <1>3 DEF AlterRequest
  <2>3. /\ call'.at = "sent" /\ call'.method = call.method /\ call'.args = call.args
        /\ call'.careful = call.careful /\ call'.altered = "request" /\ call'.request = d
        /\ OfShape(call', CallFields)
    BY <1>2, <2>1, <2>2 DEF CalledInv, OfShape, CallFields
  <2>4. Made' = Made
    BY <2>3 DEF Made
  <2>5. CalledInv'
    BY <1>1, <1>2, <2>3 DEF CalledInv, ArgumentsOf, vars
  <2>6. SentInv'
    BY <1>2, <2>1, <2>2, <2>3, <2>4 DEF SentInv
  <2>7. ServedInv' /\ HeardIsSaid' /\ OutcomeIsTold'
    BY <2>3 DEF ServedInv, HeardIsSaid, OutcomeIsTold
  <2> QED
    BY <1>1, <2>5, <2>6, <2>7 DEF ServiceInv
<1>4. CASE AlterReply
  <2>1. PICK d \in Arrivals(call.reply) : call' = [call EXCEPT !.reply = d, !.altered = "reply"]
    BY <1>4 DEF AlterReply
  <2>2. call.at = "served" /\ call.altered = "no" /\ call.reply # NoFrame
    BY <1>4 DEF AlterReply
  <2>3. /\ call'.at = "served" /\ call'.method = call.method /\ call'.args = call.args
        /\ call'.careful = call.careful /\ call'.altered = "reply" /\ call'.request = call.request
        /\ call'.reply = d /\ call'.asked = call.asked /\ call'.said = call.said
        /\ OfShape(call', CallFields)
    BY <1>2, <2>1, <2>2 DEF CalledInv, OfShape, CallFields
  <2>4. Made' = Made
    BY <2>3 DEF Made
  <2>5. CalledInv'
    BY <1>1, <1>2, <2>3 DEF CalledInv, ArgumentsOf, vars
  <2>6. SentInv'
    BY <1>2, <2>2, <2>3, <2>4 DEF SentInv
  <2>w. \A n, a : Answers(n, a)' = Answers(n, a)
    BY <1>1 DEF vars, Answers, ReadAnswers, ObserveAnswers
  <2>7. ServedInv'
    <3> DEFINE seen == HandlerSees(call.request)
               sent == ServeEndpoint(call.request, call.said)
    <3>1. /\ call.asked = IF Accepted(seen) THEN seen ELSE NotCalled
          /\ call.said \in IF Accepted(seen)
                             THEN Answers(ServicePayload(call.request).took.method, seen.took)
                             ELSE {NotCalled}
          /\ call.reply = IF Accepted(sent) THEN sent.took ELSE NoFrame
      BY <1>2, <2>2 DEF ServedInv
    <3>2. Accepted(sent) /\ d \in Arrivals(sent.took)
      BY <2>1, <2>2, <3>1
    <3> QED
      BY <2>3, <3>1, <3>2, <2>w DEF ServedInv
  <2>8. HeardIsSaid' /\ OutcomeIsTold'
    BY <2>3 DEF HeardIsSaid, OutcomeIsTold
  <2> QED
    BY <1>1, <2>5, <2>6, <2>7, <2>8 DEF ServiceInv
<1> QED
  BY <1>3, <1>4

LEMMA ServeKeeps == ServiceInv /\ Serve => ServiceInv'
<1> SUFFICES ASSUME ServiceInv, Serve
             PROVE  ServiceInv'
  OBVIOUS
<1>1. FilesInv' /\ UNCHANGED vars /\ call.at = "sent"
  BY FilesStay DEF ServiceInv, ServiceNext, Serve
<1>2. call # Idle /\ CalledInv /\ SentInv
  BY DEF Serve, Idle, ServiceInv
<1> DEFINE seen == HandlerSees(call.request)
           v == ServicePayload(call.request)
           given == Answers(v.took.method, seen.took)
<1>3. PICK said \in IF Accepted(seen) THEN given ELSE {NotCalled} :
        LET reply == ServeEndpoint(call.request, said)
        IN  call' = [call EXCEPT !.at = "served", !.said = said,
                       !.asked = IF Accepted(seen) THEN seen ELSE NotCalled,
                       !.reply = IF Accepted(reply) THEN reply.took ELSE NoFrame]
  BY DEF Serve
<1> DEFINE sent == ServeEndpoint(call.request, said)
<1>4. /\ call'.at = "served" /\ call'.method = call.method /\ call'.args = call.args
      /\ call'.careful = call.careful /\ call'.altered = call.altered /\ call'.request = call.request
      /\ call'.said = said
      /\ call'.asked = IF Accepted(seen) THEN seen ELSE NotCalled
      /\ call'.reply = IF Accepted(sent) THEN sent.took ELSE NoFrame
      /\ OfShape(call', CallFields)
  BY <1>2, <1>3 DEF CalledInv, OfShape, CallFields
<1>5. Made' = Made
  BY <1>4 DEF Made
<1>6. CalledInv'
  BY <1>1, <1>2, <1>4 DEF CalledInv, ArgumentsOf, vars
<1>7. SentInv' /\ call'.altered # "reply"
  BY <1>1, <1>2, <1>4, <1>5 DEF SentInv
<1>8. ServedInv'
  <2>1. \A n, a : Answers(n, a)' = Answers(n, a)
    BY <1>1 DEF vars, Answers, ReadAnswers, ObserveAnswers
  <2> QED
    BY <1>3, <1>4, <1>7, <2>1 DEF ServedInv
<1>9. HeardIsSaid' /\ OutcomeIsTold'
  BY <1>4 DEF HeardIsSaid, OutcomeIsTold
<1> QED
  BY <1>1, <1>6, <1>7, <1>8, <1>9 DEF ServiceInv

LEMMA ReceiveKeeps == ServiceInv /\ Receive => ServiceInv'
<1> SUFFICES ASSUME ServiceInv, Receive
             PROVE  ServiceInv'
  OBVIOUS
<1>1. FilesInv' /\ UNCHANGED vars /\ call.at = "served"
  BY FilesStay DEF ServiceInv, ServiceNext, Receive
<1>2. CalledInv
  BY <1>1 DEF Idle, ServiceInv
<1> DEFINE r == IF call.reply = NoFrame THEN Refused("no_reply")
                ELSE Returned(ServiceOf(call.method), call.method, call.args, call.careful, call.reply)
<1>3. call' = [call EXCEPT !.at = "returned", !.result = r]
  BY DEF Receive
<1>4. /\ call'.at = "returned" /\ call'.method = call.method /\ call'.args = call.args
      /\ call'.careful = call.careful /\ call'.altered = call.altered
      /\ call'.said = call.said /\ call'.asked = call.asked /\ call'.result = r
      /\ OfShape(call', CallFields)
  BY <1>2, <1>3 DEF CalledInv, OfShape, CallFields
<1>5. CalledInv'
  BY <1>1, <1>2, <1>4 DEF CalledInv, ArgumentsOf, vars
<1>6. SentInv' /\ ServedInv'
  BY <1>4 DEF SentInv, ServedInv
<1>7. HeardIsSaid'
  <2>1. ASSUME Accepted(r), call.method = "Observe" => call.careful
        PROVE  call.asked = Took(call.args) /\ call.said = Gave(r.took)
    BY <1>1, <2>1, HeardWasSaid, TookAccepted
  <2> HIDE DEF r
  <2> QED
    BY <1>4, <2>1 DEF HeardIsSaid
<1>8. OutcomeIsTold'
  <2>1. ASSUME call.altered = "no", call.asked # NotCalled
        PROVE  r = Told(call.method, call.said)
    BY <1>1, <2>1, OutcomeWasTold
  <2> HIDE DEF r
  <2> QED
    BY <1>4, <2>1 DEF OutcomeIsTold
<1> QED
  BY <1>1, <1>5, <1>6, <1>7, <1>8 DEF ServiceInv

-----------------------------------------------------------------------------
(* Theorems.                                                               *)

\* The inductive invariant of a call: what is under way could be sent, at most
\* one of its frames is altered, the handler was asked what the request asks and
\* said one of its answers, and the reply is what the service made of that.
THEOREM ServiceInvariance == ServiceSpec => []ServiceInv
<1>1. ServiceInit => ServiceInv
  BY DEF ServiceInit, Init, ServiceInv, FilesInv
<1>2. ServiceInv /\ [ServiceNext]_serviceVars => ServiceInv'
  <2> SUFFICES ASSUME ServiceInv, [ServiceNext]_serviceVars
               PROVE  ServiceInv'
    OBVIOUS
  <2>1. FilesInv'
    BY FilesStay DEF ServiceInv
  <2>2. CASE Edit
    BY <2>1, <2>2 DEF Edit, ServiceInv
  <2>3. CASE Send
    BY <2>3, SendKeeps
  <2>4. CASE AlterRequest \/ AlterReply
    BY <2>4, AlterKeeps
  <2>5. CASE Serve
    BY <2>5, ServeKeeps
  <2>6. CASE Receive
    BY <2>6, ReceiveKeeps
  <2>7. CASE Forget
    BY <2>1, <2>7 DEF Forget, ServiceInv
  <2>8. CASE UNCHANGED serviceVars
    <3>1. UNCHANGED vars /\ call' = call
      BY <2>8 DEF serviceVars
    <3>2. \A m, args : Answers(m, args)' = Answers(m, args)
      BY <3>1 DEF vars, Answers, ReadAnswers, ObserveAnswers
    <3>3. \A m : ArgumentsOf(m)' = ArgumentsOf(m)
      BY <3>1 DEF vars, ArgumentsOf
    <3>4. CalledInv' = CalledInv
      BY <3>1, <3>3 DEF CalledInv
    <3>5. SentInv' = SentInv
      BY <3>1 DEF SentInv, Made
    <3>6. ServedInv' = ServedInv
      BY <3>1, <3>2 DEF ServedInv
    <3>7. HeardIsSaid' = HeardIsSaid
      BY <3>1 DEF HeardIsSaid
    <3>8. OutcomeIsTold' = OutcomeIsTold
      BY <3>1 DEF OutcomeIsTold
    <3> QED
      BY <2>1, <3>1, <3>4, <3>5, <3>6, <3>7, <3>8 DEF ServiceInv
  <2> QED
    BY <2>2, <2>3, <2>4, <2>5, <2>6, <2>7, <2>8 DEF ServiceNext
<1> QED
  BY <1>1, <1>2, PTL DEF ServiceSpec

\* Whatever happens to a frame, what a caller takes for a value a handler gave to
\* this very call (serviceResponse, and ObserveContext's check).
THEOREM ServiceHeardIsSaid == ServiceSpec => []HeardIsSaid
<1>1. ServiceInv => HeardIsSaid
  BY DEF ServiceInv, HeardIsSaid, Idle
<1> QED
  BY <1>1, ServiceInvariance, PTL

\* Where nothing happens to the frames, the caller is told the value, or the code
\* of the refusal (invoke, serviceReply, serviceResponse).
THEOREM ServiceOutcomeIsTold == ServiceSpec => []OutcomeIsTold
<1>1. ServiceInv => OutcomeIsTold
  BY DEF ServiceInv, OutcomeIsTold, Idle
<1> QED
  BY <1>1, ServiceInvariance, PTL

\* Every request whose envelope can be read is answered, under its own names and
\* in a form the client can read (ServeEndpoint, ExchangeFrame).
THEOREM ServiceAnswersIfUnderstood == ServiceSpec => []AnsweredIfUnderstood
BY ServiceInvariance, ServedIsAnswered, PTL

\* A service does nothing to the files and the overrides that their own
\* specification does not allow: calls refine it ...
THEOREM ServiceLeavesFiles == ServiceSpec => Spec
<1>1. ServiceInit => Init
  BY DEF ServiceInit
<1>2. [ServiceNext]_serviceVars => [Next]_vars
  BY DEF ServiceNext, serviceVars, Edit, Send, AlterRequest, AlterReply, Serve, Receive, Forget
<1> QED
  BY <1>1, <1>2, PTL DEF ServiceSpec, Spec

\* ... so that every answer a service reads is the nearest one (CFG-P1), and of
\* unambiguous files the one Python reads, each language with its own parser.
THEOREM ServiceReadsNearest == ServiceSpec => [](NearestWins /\ LanguagesAgree)
BY ServiceLeavesFiles, NearestAlwaysWins, LanguagesAlwaysAgree, PTL
=============================================================================
