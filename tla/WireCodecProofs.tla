--------------------------- MODULE WireCodecProofs ---------------------------
(***************************************************************************)
(* What WireCodec promises, proved for all texts, numbers and commands.  An *)
(* object is read field by field (WireCodecFacts); here are the fields, from *)
(* those that hold an object or a list of the first level to those of a    *)
(* command, and what follows for the command.                              *)
(***************************************************************************)
EXTENDS WireCodecFacts, FiniteSetTheorems

-----------------------------------------------------------------------------
(* Fields that hold an object. *)

\* Only tables are encoded and decoded in another way than objects are.
LEMMA ObjectPart ==
  /\ \A v, declared : ~Is("OCITable", v) => EncodePart(v, declared) = Encode2(v, declared)
  /\ \A v, declared : Is("OCITable", v) => EncodePart(v, declared) = EncodeTable(v)
  /\ \A c, declared : declared # "OCITable" => DecodePart(c, declared) = Decode2(c, declared)
  /\ \A c : DecodePart(c, "OCITable") = DecodeTablePart(c)
  BY DEF EncodePart, DecodePart

LEMMA ObjectTag ==
  ASSUME NEW v, Is("obj", v)
  PROVE  /\ ~Is("dict", v) /\ ~Is("list", v) /\ ~Is("bool", v) /\ ~Is("OCITable", v)
         /\ v # None /\ v # Nil /\ v # NilClass /\ ~(v \in {Nil, NilClass})
               /\ v # AttributeError
  BY TagsOfNone DEF Is

\* A dict is no other value.
LEMMA DictTag ==
  ASSUME NEW v, Is("dict", v)
  PROVE  ~Is("list", v) /\ v # None /\ v # AttributeError /\ \A s : v # List(s)
  BY DEF Is, None, AttributeError, List

\* A field that holds an object is sent as the object is.
LEMMA EncodeHeld ==
  ASSUME NEW v, Is("obj", v) \/ v = NilClass, NEW spec, spec.kind = "OBJECT", NEW inner
  PROVE  EncodeField(v, spec, inner) = inner[1]
<1>1. v # None /\ v # Nil /\ ~Is("bool", v) /\ ~Is("OCITable", v)
  BY TagsOfNone DEF Is
<1> QED BY <1>1 DEF EncodeField, AsksForNil

\* Such a field is sent, parsed, cleaned and read as its object is.
LEMMA HeldSent ==
  ASSUME NEW v, Is("obj", v) \/ v = NilClass, NEW spec, spec.kind = "OBJECT"
  PROVE  /\ Sent2(v, spec) = Encode1(v, spec.subtype)
         /\ Sent3(v, spec) = Encode2(v, spec.subtype)
<1>1. ~Is("list", v) /\ ~Is("OCITable", v)
  BY TagsOfNone DEF Is
<1>2. DOMAIN AsList(v) = {1} /\ AsList(v)[1] = v
  BY <1>1, Parts
<1>3. EncodePart(v, spec.subtype) = Encode2(v, spec.subtype)
  BY <1>1, ObjectPart
<1> QED BY <1>2, <1>3, EncodeHeld DEF Sent2, Sent3

LEMMA HeldParsed ==
  ASSUME NEW e, ~Is("list", e)
  PROVE  Parsed2(e) = ThroughXml1(e) /\ Parsed3(e) = ThroughXml2(e)
<1>1. DOMAIN AsList(e) = {1} /\ AsList(e)[1] = e
  BY Parts
<1> QED BY <1>1 DEF Parsed2, Parsed3, XmlChild, Map

LEMMA HeldCleaned ==
  ASSUME NEW x, ~Is("list", x), NEW key
  PROVE  Cleaned2(key, x) = Clean1(key, x) /\ Cleaned3(key, x) = Clean2(key, x)
<1>1. DOMAIN AsList(x) = {1} /\ AsList(x)[1] = x
  BY Parts
<1> QED BY <1>1 DEF Cleaned2, Cleaned3, CleanChild

LEMMA HeldRead ==
  ASSUME NEW c, Is("dict", c), NEW spec, spec.kind = "OBJECT"
  PROVE  /\ Read2(c, spec) = Decode1(c, spec.subtype)
         /\ Read3(c, spec) = DecodePart(c, spec.subtype)
<1>1. DOMAIN AsList(c) = {1} /\ AsList(c)[1] = c
  BY Parts, DictTag
<1> QED BY <1>1 DEF Read2, Read3, DecodeField

\* Nothing is sent for a field that is left out.
LEMMA LeftOut ==
  ASSUME NEW spec
  PROVE  Sent1(None, spec) = None /\ Sent2(None, spec) = None /\ Sent3(None, spec) = None
  BY DEF Sent1, Sent2, Sent3, EncodeField

Profile == Nested \cup {"ServiceInstanceReadProfile"}

\* A class that is nested, or one below it, is one that may be read.
LEMMA NestedStands ==
  ASSUME NEW declared \in Profile, NEW class \in {declared} \cup Descendants(declared)
  PROVE  /\ StandsFor(class, declared) /\ Nillable(class) = {}
         /\ class \in Profile /\ (declared \in Nested => class \in Nested)
<1>1. class \in Profile /\ (declared \in Nested => class \in Nested)
  BY DEF Profile, Nested, Descendants
<1> QED BY <1>1, NestedNillables DEF StandsFor, Profile

\* An object is back if each of its fields is.
LEMMA Whole ==
  ASSUME NEW v, v = New(v[2], v[3]), NEW names, v[3] = [n \in names |-> v[3][n]],
         NEW has, NEW came,
         \A n \in names : IF n \in has THEN came[n] = v[3][n] ELSE v[3][n] = None
  PROVE  New(v[2], [n \in names |-> IF n \in has THEN came[n] ELSE None]) = v
<1>1. [n \in names |-> IF n \in has THEN came[n] ELSE None] = v[3]
  OBVIOUS
<1> QED BY <1>1

\* An object of the first level has texts and numbers only.
LEMMA Object1 ==
  ASSUME NEW v, NEW declared \in Nested, IsObject1(v, declared)
  PROVE  /\ Is("obj", v) /\ v = New(v[2], v[3])
         /\ StandsFor(v[2], declared) /\ v[2] \in DOMAIN Schema
         /\ v[3] = [n \in Names(v[2]) |-> v[3][n]]
         /\ \A n \in Names(v[2]) :
               \/ v[3][n] = None
               \/ SpecOf(v[2], n).kind = "SCALAR" /\ FitsScalar(v[3][n], SpecOf(v[2], n))
<1>1. /\ Is("obj", v) /\ v = New(v[2], v[3])
      /\ v[2] \in {declared} \cup Descendants(declared)
      /\ v[3] = [n \in Names(v[2]) |-> v[3][n]]
      /\ \A n \in Names(v[2]) :
            \/ v[3][n] = None
            \/ n \in Nillable(v[2]) /\ v[3][n] \in {Nil, NilClass}
            \/ Fits(NoObject, v[3][n], SpecOf(v[2], n))
  BY DEF IsObject1, ObjectOf
<1>2. StandsFor(v[2], declared) /\ Nillable(v[2]) = {} /\ v[2] \in Nested
  BY <1>1, NestedStands DEF Profile
<1>3. v[2] \in DOMAIN Schema
  BY <1>2 DEF StandsFor
<1>4. \A n \in Names(v[2]) : SpecOf(v[2], n).kind = "SCALAR"
  BY <1>2, <1>3, SchemaOf, NestedKinds
<1>5. \A n \in Names(v[2]) : v[3][n] = None \/ FitsScalar(v[3][n], SpecOf(v[2], n))
  BY <1>1, <1>2, <1>4 DEF Fits
<1> QED BY <1>1, <1>2, <1>3, <1>4, <1>5

\* An object whose fields are all texts and numbers comes back.
LEMMA ObjectBack1 ==
  ASSUME NEW v, NEW declared \in Nested, IsObject1(v, declared), CarriedObject1(v, declared),
         NEW key, key \notin TableKeys,
         NEW e, e = Encode1(v, declared), NEW x, x = ThroughXml1(e), NEW c, c = Clean1(key, x)
  PROVE  Is("dict", e) /\ Is("dict", x) /\ Is("dict", c) /\ Decode1(c, declared) = v
<1>1. /\ Is("obj", v) /\ v = New(v[2], v[3])
      /\ StandsFor(v[2], declared) /\ v[2] \in DOMAIN Schema
      /\ v[3] = [n \in Names(v[2]) |-> v[3][n]]
      /\ \A n \in Names(v[2]) :
            \/ v[3][n] = None
            \/ SpecOf(v[2], n).kind = "SCALAR" /\ FitsScalar(v[3][n], SpecOf(v[2], n))
  BY Object1
<1>2. DOMAIN v[3] = Names(v[2])
  BY <1>1
<1>3. /\ v[2] = declared => \E n \in Names(v[2]) : v[3][n] # None
      /\ \A n \in Names(v[2]) : Carried(NotCarried, v[3][n], SpecOf(v[2], n))
  BY <1>2 DEF CarriedObject1, AllCarried
<1>4. ASSUME NEW n \in Names(v[2]), v[3][n] # None
      PROVE  n \in Has1(v) /\ Came1(v[3][n], SpecOf(v[2], n)) = v[3][n]
  <2> DEFINE f == v[3][n]
             spec == SpecOf(v[2], n)
  <2>1. spec.kind = "SCALAR" /\ FitsScalar(f, spec)
    BY <1>1, <1>4
  <2>2. CarriedText(f)
    <3>1. /\ \A t : Str(t) \notin {None, Nil, NilClass} /\ ~Is("list", Str(t))
                /\ ~Is("OCITable", Str(t)) /\ ~Is("obj", Str(t))
          /\ \A t : ~Is("str", Num(t)) /\ ~Is("str", Bool(t))
      BY DEF Str, Num, Bool, None, Nil, NilClass, Is
    <3>2. CASE \E t \in Texts : f = Str(t)
      <4>1. f \notin {None, Nil, NilClass} /\ ~Is("list", f) /\ ~Is("OCITable", f)
               /\ ~Is("obj", f)
        BY <3>1, <3>2
      <4> QED BY <1>3, <4>1 DEF Carried, CarriedItem
    <3> QED BY <2>1, <3>1, <3>2, Scalars DEF CarriedText
  <2> HIDE DEF f, spec
  <2>3. Sent1(f, spec) # None /\ Parsed1(Sent1(f, spec)) # List(<<>>) /\ Came1(f, spec) = f
    BY <2>1, <2>2, ScalarBack
  <2> QED BY <2>3 DEF f, spec, Has1
<1>5. ASSUME NEW n \in Names(v[2]), v[3][n] = None PROVE n \notin Has1(v)
  BY <1>5, LeftOut DEF Has1
<1>6. v # NilClass
  BY <1>1, ObjectTag
<1>7. x # None
  <2>1. x = None => v[2] = declared /\ Has1(v) = {}
    BY <1>1, <1>6, Level1
  <2> QED BY <1>3, <1>4, <2>1
<1>8. Is("dict", e) /\ Is("dict", x) /\ Is("dict", c) /\ Decode1(c, declared) = Back1(v)
  BY <1>1, <1>6, <1>7, Level1
<1>9. Back1(v) = v
  <2> DEFINE came == [n \in Names(v[2]) |-> Came1(v[3][n], SpecOf(v[2], n))]
  <2>1. \A n \in Names(v[2]) : IF n \in Has1(v) THEN came[n] = v[3][n] ELSE v[3][n] = None
    BY <1>4, <1>5
  <2>2. New(v[2], [n \in Names(v[2]) |-> IF n \in Has1(v) THEN came[n] ELSE None]) = v
    <3> HIDE DEF came
    <3> QED BY <1>1, <2>1, Whole
  <2> QED BY <2>2 DEF Back1
<1> QED BY <1>8, <1>9

-----------------------------------------------------------------------------
(* Fields that hold a list of texts or numbers, or of devices. *)

\* y are the items as they are sent.
SentAs(items, inner, y) ==
    /\ y = [i \in DOMAIN items |-> y[i]]
    /\ \A i \in DOMAIN items : y[i] = IF Is("bool", items[i]) THEN TextOfBool(items[i][2])
                                     ELSE IF items[i][1] \in {"obj", "OCITable"} THEN inner[i]
                                     ELSE items[i]

\* A list that does not look like a table is sent item by item.
LEMMA EncodeItems ==
  ASSUME NEW v, Is("list", v), v[2] # <<>>, NEW spec, spec.kind = "LIST",
            ~TableShaped(v[2], spec),
         NEW inner, NEW y, SentAs(v[2], inner, y)
  PROVE  EncodeField(v, spec, inner) = List(y)
<1>1. v # None /\ v # Nil /\ ~Is("bool", v) /\ ~Is("OCITable", v)
  BY TagsOfNone DEF Is
<1>2. EncodeField(v, spec, inner) = EncodeList(v[2], spec, inner)
  BY <1>1 DEF EncodeField, AsksForNil
<1>3. EncodeList(v[2], spec, inner) =
        List([i \in DOMAIN v[2] |->
                IF Is("bool", v[2][i]) THEN TextOfBool(v[2][i][2])
                ELSE IF v[2][i][1] \in {"obj", "OCITable"} THEN inner[i]
                ELSE v[2][i]])
  BY DEF EncodeList
<1>4. [i \in DOMAIN v[2] |->
         IF Is("bool", v[2][i]) THEN TextOfBool(v[2][i][2])
         ELSE IF v[2][i][1] \in {"obj", "OCITable"} THEN inner[i]
         ELSE v[2][i]] = y
  BY DEF SentAs
<1> QED BY <1>2, <1>3, <1>4

\* An empty list is left out.
LEMMA EmptyList ==
  ASSUME NEW v, Is("list", v), v[2] = <<>>, NEW spec, spec.kind = "LIST", NEW inner
  PROVE  EncodeField(v, spec, inner) = None
<1>1. v # None /\ v # Nil /\ ~Is("bool", v) /\ ~Is("OCITable", v)
  BY TagsOfNone DEF Is
<1> QED BY <1>1 DEF EncodeField, AsksForNil

\* A list of texts or numbers.
Plain(v, n, spec) ==
    /\ Is("list", v) /\ v = List(v[2]) /\ Sequence(v[2], n)
    /\ spec.kind = "LIST" /\ spec.subtype \in {"int", "str"} /\ spec.alias \notin TableKeys
    /\ \A i \in 1..n : FitsScalar(v[2][i], spec)

\* An item that is a number or a text is sent as it is.
LEMMA PlainItem ==
  ASSUME NEW v, NEW spec, FitsScalar(v, spec), spec.subtype # "bool"
  PROVE  Written(v) = v /\ ~Is("bool", v) /\ ~Is("obj", v) /\ ~Is("OCITable", v)
<1>1. \A t : /\ ~Is("bool", Str(t)) /\ ~Is("obj", Str(t)) /\ ~Is("OCITable", Str(t))
             /\ ~Is("bool", Num(t)) /\ ~Is("obj", Num(t)) /\ ~Is("OCITable", Num(t))
  BY DEF Is, Str, Num
<1>2. (\E n \in Numbers : v = Num(n)) \/ (\E t \in Texts : v = Str(t))
  BY Scalars
<1> QED BY <1>1, <1>2, WrittenOf

\* So is the list ...
LEMMA PlainSent ==
  ASSUME NEW v, NEW n, n # 0, NEW spec, Plain(v, n, spec)
  PROVE  Sent2(v, spec) = v /\ Sent3(v, spec) = v
<1>1. /\ Is("list", v) /\ v = List(v[2]) /\ v[2] # <<>> /\ DOMAIN v[2] = 1..n
      /\ v[2] = [i \in 1..n |-> v[2][i]]
      /\ spec.kind = "LIST" /\ ~TableShaped(v[2], spec)
  BY SequenceLen DEF Plain, Sequence, TableShaped
<1>2. \A i \in 1..n : ~Is("bool", v[2][i]) /\ v[2][i][1] \notin {"obj", "OCITable"}
  BY PlainItem DEF Plain, Is
<1>3. \A inner : EncodeField(v, spec, inner) = v
  <2> TAKE inner
  <2>1. SentAs(v[2], inner, v[2])
    BY <1>1, <1>2 DEF SentAs
  <2>2. EncodeField(v, spec, inner) = List(v[2])
    BY <1>1, <2>1, EncodeItems
  <2> QED BY <1>1, <2>2
<1> QED BY <1>3 DEF Sent2, Sent3

\* ... which comes back from the library as the texts of its items.
LEMMA PlainParsed ==
  ASSUME NEW v, NEW n, n # 0, NEW spec, Plain(v, n, spec),
         NEW xs, xs = [i \in 1..n |-> XmlText(v[2][i])]
  PROVE  Flat(xs, n) /\ (\A i \in 1..n : Leaf(xs[i]))
         /\ Parsed2(v) = Elements(xs) /\ Parsed3(v) = Elements(xs)
<1>1. Is("list", v) /\ v = List(v[2]) /\ AsList(v) = v[2] /\ DOMAIN v[2] = 1..n /\ n \in Nat
  BY SequenceLen DEF Plain, Sequence, AsList
<1>2. \A i \in 1..n : Leaf(v[2][i]) /\ Leaf(xs[i])
  <2>1. \A i \in 1..n : Written(v[2][i]) = v[2][i]
    BY PlainItem DEF Plain
  <2> QED BY <2>1, WrittenXml DEF Plain
<1>3. Flat(xs, n)
  BY <1>1, <1>2 DEF Flat, Sequence, Leaf
<1>4. Map(ThroughXml1, v[2]) = xs /\ Map(ThroughXml2, v[2]) = xs
  BY <1>1, <1>2, LeafXml DEF Map
<1>5. Parsed2(v) = Elements(xs) /\ Parsed3(v) = Elements(xs)
  BY <1>1, <1>4, ListParsed DEF Parsed2, Parsed3
<1> QED BY <1>2, <1>3, <1>5

\* Texts and elements that are empty are cleaned one by one.
LEMMA LeavesCleaned ==
  ASSUME NEW xs, NEW n, n # 0, Flat(xs, n), \A i \in 1..n : Leaf(xs[i]),
         NEW cs, cs = [i \in 1..n |-> CleanText(xs[i])], NEW key
  PROVE  Flat(cs, n) /\ (\A i \in 1..n : Leaf(cs[i]))
         /\ Cleaned2(key, Elements(xs)) = Elements(cs)
               /\ Cleaned3(key, Elements(xs)) = Elements(cs)
<1>1. AsList(Elements(xs)) = xs /\ DOMAIN xs = 1..n /\ n \in Nat
  BY Gathered, SequenceLen DEF Flat, Sequence
<1>2. \A i \in 1..n : Leaf(cs[i])
  BY TextIsLeaf DEF CleanText
<1>3. Flat(cs, n) /\ Sequence(cs, n)
  BY <1>1, <1>2 DEF Flat, Sequence, Leaf
<1>4. [i \in DOMAIN xs |-> Clean1(key, xs[i])] = cs
         /\ [i \in DOMAIN xs |-> Clean2(key, xs[i])] = cs
  BY <1>1, LeafClean
<1>5. CleanChild(Elements(xs), cs) = Elements(cs)
  BY <1>3, CleanedElements
<1>6. Cleaned2(key, Elements(xs)) = Elements(cs) /\ Cleaned3(key, Elements(xs)) = Elements(cs)
  BY <1>1, <1>4, <1>5 DEF Cleaned2, Cleaned3
<1> QED BY <1>2, <1>3, <1>6

\* A list of texts or numbers comes back if it has an item.
LEMMA PlainBack ==
  ASSUME NEW v, NEW n, n # 0, NEW spec, Plain(v, n, spec), \A i \in 1..n : CarriedText(v[2][i])
  PROVE  /\ Sent2(v, spec) # None /\ Parsed2(Sent2(v, spec)) # List(<<>>) /\ Came2(v, spec) = v
         /\ Sent3(v, spec) # None /\ Parsed3(Sent3(v, spec)) # List(<<>>) /\ Came3(v, spec) = v
<1> DEFINE xs == [i \in 1..n |-> XmlText(v[2][i])]
           cs == [i \in 1..n |-> CleanText(xs[i])]
<1>1. /\ Flat(xs, n) /\ (\A i \in 1..n : Leaf(xs[i]))
      /\ Parsed2(v) = Elements(xs) /\ Parsed3(v) = Elements(xs)
  BY PlainParsed
<1>2. \A key : /\ Flat(cs, n) /\ (\A i \in 1..n : Leaf(cs[i]))
               /\ Cleaned2(key, Elements(xs)) = Elements(cs)
               /\ Cleaned3(key, Elements(xs)) = Elements(cs)
  <2> HIDE DEF xs
  <2> QED BY <1>1, LeavesCleaned
<1>3. \A i \in 1..n : v[2][i] = Coerce(cs[i], spec.subtype)
  <2>1. \A i \in 1..n : Written(v[2][i]) = v[2][i]
    BY PlainItem DEF Plain
  <2> QED BY <2>1, LeafBack DEF Plain
<1> HIDE DEF xs, cs
<1>4. v # None /\ v = List(v[2]) /\ Sequence(v[2], n) /\ spec.kind = "LIST"
  BY TagsOfNone DEF Plain, Is
<1>5. Sent2(v, spec) = v /\ Sent3(v, spec) = v
  BY PlainSent
<1>6. \A inner : DecodeField(Elements(cs), spec, inner) = v
  <2> TAKE inner
  <2>1. \A i \in 1..n : v[2][i] = IF Is("dict", cs[i]) THEN inner[i]
           ELSE Coerce(cs[i], spec.subtype)
    BY <1>2, <1>3 DEF Leaf
  <2> QED BY <1>2, <1>4, <2>1, ListRead
<1>7. Read2(Elements(cs), spec) = v /\ Read3(Elements(cs), spec) = v
  BY <1>6 DEF Read2, Read3
<1>8. Elements(xs) # List(<<>>)
  BY <1>1, Gathered
<1> QED BY <1>1, <1>2, <1>4, <1>5, <1>7, <1>8 DEF Came2, Came3

-----------------------------------------------------------------------------
(* An object whose fields may hold objects of a field's depth, or lists. *)

LEMMA Object2 ==
  ASSUME NEW v, NEW declared \in Profile, IsObject2(v, declared)
  PROVE  /\ Is("obj", v) /\ v = New(v[2], v[3])
         /\ StandsFor(v[2], declared) /\ v[2] \in DOMAIN Schema
         /\ v[2] \in Profile /\ (declared \in Nested => v[2] \in Nested)
         /\ v[3] = [n \in Names(v[2]) |-> v[3][n]]
         /\ \A n \in Names(v[2]) : v[3][n] = None \/ Fits(IsObject1, v[3][n], SpecOf(v[2], n))
<1>1. /\ Is("obj", v) /\ v = New(v[2], v[3])
      /\ v[2] \in {declared} \cup Descendants(declared)
      /\ v[3] = [n \in Names(v[2]) |-> v[3][n]]
      /\ \A n \in Names(v[2]) :
            \/ v[3][n] = None
            \/ n \in Nillable(v[2]) /\ v[3][n] \in {Nil, NilClass}
            \/ Fits(IsObject1, v[3][n], SpecOf(v[2], n))
  BY DEF IsObject2, ObjectOf
<1>2. /\ StandsFor(v[2], declared) /\ Nillable(v[2]) = {}
      /\ v[2] \in Profile /\ (declared \in Nested => v[2] \in Nested)
  BY <1>1, NestedStands
<1>3. v[2] \in DOMAIN Schema
  BY <1>2 DEF StandsFor
<1> QED BY <1>1, <1>2, <1>3

\* A scalar that is carried has no white space around it.
LEMMA CarriedScalar ==
  ASSUME NEW v, NEW spec, FitsScalar(v, spec), v # None,
         v \notin {Nil, NilClass} /\ ~Is("list", v) /\ ~Is("OCITable", v)
            /\ ~Is("obj", v) => CarriedText(v)
  PROVE  CarriedText(v)
<1>1. /\ \A t : Str(t) \notin {None, Nil, NilClass} /\ ~Is("list", Str(t))
            /\ ~Is("OCITable", Str(t)) /\ ~Is("obj", Str(t))
      /\ \A t : ~Is("str", Num(t)) /\ ~Is("str", Bool(t))
  BY DEF Str, Num, Bool, None, Nil, NilClass, Is
<1>2. CASE \E t \in Texts : v = Str(t)
  BY <1>1, <1>2
<1> QED BY <1>1, <1>2, Scalars DEF CarriedText

\* A field that is sent, arrives, and comes back as it was.
Back2Field(v, spec) ==
    Sent2(v, spec) # None /\ Parsed2(Sent2(v, spec)) # List(<<>>) /\ Came2(v, spec) = v
Back3Field(v, spec) ==
    Sent3(v, spec) # None /\ Parsed3(Sent3(v, spec)) # List(<<>>) /\ Came3(v, spec) = v

\* An object in a field of such an object comes back.
LEMMA HeldBack2 ==
  ASSUME NEW v, NEW spec, spec.kind = "OBJECT", spec.subtype \in Nested,
            spec.alias \notin TableKeys,
         IsObject1(v, spec.subtype), CarriedObject1(v, spec.subtype)
  PROVE  Back2Field(v, spec)
<1> DEFINE e == Encode1(v, spec.subtype)
           x == ThroughXml1(e)
           c == Clean1(spec.alias, x)
<1>1. Is("dict", e) /\ Is("dict", x) /\ Is("dict", c) /\ Decode1(c, spec.subtype) = v
  BY ObjectBack1
<1>2. Sent2(v, spec) = e
  BY HeldSent DEF IsObject1, ObjectOf
<1> HIDE DEF e
<1>3. Parsed2(e) = x
  BY <1>1, HeldParsed, DictTag
<1> HIDE DEF x
<1>4. Cleaned2(spec.alias, x) = c
  BY <1>1, HeldCleaned, DictTag
<1> HIDE DEF c
<1>5. Read2(c, spec) = v
  BY <1>1, HeldRead
<1> QED BY <1>1, <1>2, <1>3, <1>4, <1>5, DictTag DEF Back2Field, Came2

\* A list of numbers or texts, as its type hint has it, is a plain one.
LEMMA PlainFits ==
  ASSUME NEW IsObject(_, _), NEW v, NEW spec \in Specs, spec.kind = "LIST",
            spec.subtype \in {"int", "str"},
         FitsList(IsObject, v, spec)
  PROVE  Plain(v, Len(v[2]), spec)
<1>1. /\ Is("list", v) /\ v = List(v[2]) /\ v[2] \in Seq(ToSet(v[2]))
      /\ \A i \in DOMAIN v[2] : FitsScalar(v[2][i], spec)
  BY DEF FitsList
<1>2. spec.alias \notin TableKeys
  BY Kinds
<1>3. Sequence(v[2], Len(v[2])) /\ DOMAIN v[2] = 1..Len(v[2])
  BY <1>1, SeqIsSequence, SequenceLen
<1> QED BY <1>1, <1>2, <1>3 DEF Plain

\* Every field of an object of the second level that is carried comes back.
LEMMA FieldBack2 ==
  ASSUME NEW v, v # None, NEW spec \in Specs,
         \/ spec.kind = "SCALAR"
         \/ spec.kind = "OBJECT" /\ spec.subtype = "DepartmentKey"
         \/ spec.kind = "LIST" /\ spec.subtype = "str",
         Fits(IsObject1, v, spec), Carried(CarriedObject1, v, spec)
  PROVE  Back2Field(v, spec)
<1>1. CASE spec.kind = "SCALAR"
  <2>1. FitsScalar(v, spec)
    BY <1>1 DEF Fits
  <2>2. v \notin {Nil, NilClass} /\ ~Is("list", v) /\ ~Is("OCITable", v)
           /\ ~Is("obj", v) => CarriedText(v)
    BY DEF Carried, CarriedItem
  <2>3. CarriedText(v)
    BY <2>1, <2>2, CarriedScalar
  <2> QED BY <1>1, <2>1, <2>3, ScalarBack DEF Back2Field
<1>2. CASE spec.kind = "OBJECT" /\ spec.subtype = "DepartmentKey"
  <2>1. IsObject1(v, spec.subtype)
    BY <1>2 DEF Fits
  <2>2. Is("obj", v)
    BY <2>1 DEF IsObject1, ObjectOf
  <2>3. CarriedObject1(v, spec.subtype)
    BY <2>2, ObjectTag DEF Carried, CarriedItem
  <2>4. spec.subtype \in Nested /\ spec.alias \notin TableKeys
    BY <1>2, Kinds DEF Nested
  <2> QED BY <1>2, <2>1, <2>3, <2>4, HeldBack2
<1>3. CASE spec.kind = "LIST" /\ spec.subtype = "str"
  <2>1. FitsList(IsObject1, v, spec)
    BY <1>3 DEF Fits
  <2>2. Plain(v, Len(v[2]), spec)
    BY <1>3, <2>1, PlainFits
  <2>3. Is("list", v) /\ DOMAIN v[2] = 1..Len(v[2]) /\ Sequence(v[2], Len(v[2]))
    BY <2>2, SequenceLen DEF Plain
  <2>4. v # None /\ v \notin {Nil, NilClass} /\ ~Is("OCITable", v) /\ ~Is("obj", v)
    BY <2>3, TagsOfNone DEF Is
  <2>5. v[2] # <<>> /\ \A i \in DOMAIN v[2] : CarriedItem(CarriedObject1, v[2][i], spec)
    BY <2>3, <2>4 DEF Carried
  <2>6. \A i \in 1..Len(v[2]) : CarriedText(v[2][i])
    BY <1>3, <2>2, <2>3, <2>5, PlainItem DEF Plain, CarriedItem
  <2>7. Len(v[2]) # 0
    BY <2>3, <2>5, SequenceLen
  <2> QED BY <2>2, <2>6, <2>7, PlainBack DEF Back2Field
<1> QED BY <1>1, <1>2, <1>3

\* An object of this depth comes back.
LEMMA ObjectBack2 ==
  ASSUME NEW v, NEW declared \in Profile, IsObject2(v, declared), CarriedObject2(v, declared),
         NEW key, key \notin TableKeys,
         NEW e, e = Encode2(v, declared), NEW x, x = ThroughXml2(e), NEW c, c = Clean2(key, x)
  PROVE  Is("dict", e) /\ Is("dict", x) /\ Is("dict", c) /\ Decode2(c, declared) = v
<1>1. /\ Is("obj", v) /\ v = New(v[2], v[3])
      /\ StandsFor(v[2], declared) /\ v[2] \in DOMAIN Schema /\ v[2] \in Profile
      /\ v[3] = [n \in Names(v[2]) |-> v[3][n]]
      /\ \A n \in Names(v[2]) : v[3][n] = None \/ Fits(IsObject1, v[3][n], SpecOf(v[2], n))
  BY Object2
<1>2. DOMAIN v[3] = Names(v[2])
  BY <1>1
<1>3. /\ v[2] = declared => \E n \in Names(v[2]) : v[3][n] # None
      /\ \A n \in Names(v[2]) : Carried(CarriedObject1, v[3][n], SpecOf(v[2], n))
  BY <1>2 DEF CarriedObject2, AllCarried
<1>4. ASSUME NEW n \in Names(v[2]), v[3][n] # None
      PROVE  n \in Has2(v) /\ Came2(v[3][n], SpecOf(v[2], n)) = v[3][n]
  <2> DEFINE f == v[3][n]
             spec == SpecOf(v[2], n)
  <2>1. spec \in Specs
    BY <1>1, SchemaOf
  <2>2. \/ spec.kind = "SCALAR"
        \/ spec.kind = "OBJECT" /\ spec.subtype = "DepartmentKey"
        \/ spec.kind = "LIST" /\ spec.subtype = "str"
    BY <1>1, SchemaOf, NestedKinds DEF Profile
  <2>3. f # None /\ Fits(IsObject1, f, spec) /\ Carried(CarriedObject1, f, spec)
    BY <1>1, <1>3, <1>4
  <2> HIDE DEF f, spec
  <2>4. Back2Field(f, spec)
    BY <2>1, <2>2, <2>3, FieldBack2
  <2> QED BY <2>4 DEF f, spec, Has2, Back2Field
<1>5. ASSUME NEW n \in Names(v[2]), v[3][n] = None PROVE n \notin Has2(v)
  BY <1>5, LeftOut DEF Has2
<1>6. v # NilClass
  BY <1>1, ObjectTag
<1>7. x # None
  <2>1. x = None => v[2] = declared /\ Has2(v) = {}
    BY <1>1, <1>6, Level2
  <2> QED BY <1>3, <1>4, <2>1
<1>8. Is("dict", e) /\ Is("dict", x) /\ Is("dict", c) /\ Decode2(c, declared) = Back2(v)
  BY <1>1, <1>6, <1>7, Level2
<1>9. Back2(v) = v
  <2> DEFINE came == [n \in Names(v[2]) |-> Came2(v[3][n], SpecOf(v[2], n))]
  <2>1. \A n \in Names(v[2]) : IF n \in Has2(v) THEN came[n] = v[3][n] ELSE v[3][n] = None
    BY <1>4, <1>5
  <2>2. New(v[2], [n \in Names(v[2]) |-> IF n \in Has2(v) THEN came[n] ELSE None]) = v
    <3> HIDE DEF came
    <3> QED BY <1>1, <2>1, Whole
  <2> QED BY <2>2 DEF Back2
<1> QED BY <1>8, <1>9

\* A list of devices.
Devices(v, n, spec) ==
    /\ Is("list", v) /\ v = List(v[2]) /\ Sequence(v[2], n)
    /\ spec.kind = "LIST" /\ spec.subtype = "AccessDevice" /\ spec.alias \notin TableKeys
    /\ \A i \in 1..n : IsObject2(v[2][i], spec.subtype)

\* An object of the second level is never marked as nil, nor read as text.
LEMMA DeviceDict ==
  ASSUME NEW v, NEW declared \in Profile, IsObject2(v, declared), NEW key, key \notin TableKeys
  PROVE  LET e == Encode2(v, declared)
             x == ThroughXml2(e)
         IN  /\ Is("dict", e)
             /\ x # None => Is("dict", x) /\ "@C:nil" \notin Keys(x)
                   /\ Is("dict", Clean2(key, x))
<1>1. StandsFor(v[2], declared) /\ v # NilClass
  BY Object2, ObjectTag
<1> QED BY <1>1, Level2

\* They are sent as y, parsed as xs.
DevicesWay(v, n, spec, y, xs) ==
    /\ Devices(v, n, spec)
    /\ y = [i \in 1..n |-> Encode2(v[2][i], spec.subtype)]
    /\ xs = [i \in 1..n |-> ThroughXml2(y[i])]

\* The list is sent as the dicts of its items, ...
LEMMA DevicesSent ==
  ASSUME NEW v, NEW n, n # 0, NEW spec, NEW y, NEW xs, DevicesWay(v, n, spec, y, xs)
  PROVE  Sent3(v, spec) = List(y)
<1>1. /\ Is("list", v) /\ v[2] # <<>> /\ DOMAIN v[2] = 1..n /\ AsList(v) = v[2]
      /\ spec.kind = "LIST" /\ ~TableShaped(v[2], spec)
  BY SequenceLen DEF DevicesWay, Devices, Sequence, TableShaped, AsList
<1>2. \A i \in 1..n : Is("obj", v[2][i]) /\ ~Is("bool", v[2][i])
  BY ObjectTag DEF DevicesWay, Devices, IsObject2, ObjectOf
<1>3. SentAs(v[2], y, y)
  BY <1>1, <1>2 DEF SentAs, DevicesWay, Is
<1>4. EncodeField(v, spec, y) = List(y)
  BY <1>1, <1>3, EncodeItems
<1>5. \A i \in 1..n : EncodePart(v[2][i], spec.subtype) = Encode2(v[2][i], spec.subtype)
  BY <1>2, ObjectTag, ObjectPart
<1>6. [i \in DOMAIN AsList(v) |-> EncodePart(AsList(v)[i], spec.subtype)] = y
  BY <1>1, <1>5 DEF DevicesWay
<1> QED BY <1>4, <1>6 DEF Sent3

\* ... parsed as what comes back of each of them ...
LEMMA DevicesParsed ==
  ASSUME NEW v, NEW n, n # 0, NEW spec, NEW y, NEW xs, DevicesWay(v, n, spec, y, xs)
  PROVE  /\ Flat(xs, n) /\ Parsed3(List(y)) = Elements(xs)
         /\ \A i \in 1..n : xs[i] # None =>
               Is("dict", xs[i]) /\ "@C:nil" \notin Keys(xs[i])
                  /\ Is("dict", Clean2(spec.alias, xs[i]))
<1>1. n \in Nat /\ DOMAIN y = 1..n /\ AsList(List(y)) = y
  BY ListTag DEF DevicesWay, Devices, Sequence, AsList
<1>2. spec.subtype \in Profile /\ spec.alias \notin TableKeys
  BY DEF DevicesWay, Devices, Profile, Nested
<1>3. \A i \in 1..n : xs[i] # None =>
         Is("dict", xs[i]) /\ "@C:nil" \notin Keys(xs[i])
            /\ Is("dict", Clean2(spec.alias, xs[i]))
  BY <1>2, DeviceDict DEF DevicesWay, Devices
<1>4. \A i \in 1..n : ~Is("list", xs[i])
  <2>1. ~Is("list", None)
    BY TagsOfNone DEF Is
  <2> QED BY <1>3, <2>1, DictTag
<1>5. Flat(xs, n)
  BY <1>1, <1>4 DEF Flat, Sequence, DevicesWay
<1>6. Map(ThroughXml2, y) = xs
  BY <1>1 DEF Map, DevicesWay
<1>7. Parsed3(List(y)) = Elements(xs)
  BY <1>1, <1>6, ListParsed DEF Parsed3
<1> QED BY <1>3, <1>5, <1>7

\* ... and cleaned as such.
LEMMA ItemsCleaned ==
  ASSUME NEW xs, NEW n, n # 0, Flat(xs, n), NEW key,
         NEW cs, cs = [i \in 1..n |-> Clean2(key, xs[i])]
  PROVE  Cleaned3(key, Elements(xs)) = Elements(cs)
<1>1. AsList(Elements(xs)) = xs /\ DOMAIN xs = 1..n /\ n \in Nat
  BY Gathered, SequenceLen DEF Flat, Sequence
<1>2. Sequence(cs, n)
  BY <1>1 DEF Sequence
<1>3. [i \in DOMAIN xs |-> Clean2(key, xs[i])] = cs
  BY <1>1
<1>4. CleanChild(Elements(xs), cs) = Elements(cs)
  BY <1>2, CleanedElements
<1> QED BY <1>1, <1>3, <1>4 DEF Cleaned3

\* A list of devices comes back if it has an item, and each item a field.
LEMMA DevicesBack ==
  ASSUME NEW v, NEW n, n # 0, NEW spec, Devices(v, n, spec),
         \A i \in 1..n : CarriedObject2(v[2][i], spec.subtype)
  PROVE  Back3Field(v, spec)
<1> DEFINE y == [i \in 1..n |-> Encode2(v[2][i], spec.subtype)]
           xs == [i \in 1..n |-> ThroughXml2(y[i])]
           cs == [i \in 1..n |-> Clean2(spec.alias, xs[i])]
           D == [i \in DOMAIN AsList(Elements(cs)) |-> DecodePart(AsList(Elements(cs))[i],
              spec.subtype)]
<1>1. DevicesWay(v, n, spec, y, xs)
  BY DEF DevicesWay
<1> HIDE DEF y, xs, cs
<1>2. Sent3(v, spec) = List(y)
  BY <1>1, DevicesSent
<1>3. Flat(xs, n) /\ Parsed3(List(y)) = Elements(xs)
  BY <1>1, DevicesParsed
<1>4. Cleaned3(spec.alias, Elements(xs)) = Elements(cs)
  BY <1>3, ItemsCleaned DEF cs
<1>5. spec.subtype \in Profile /\ spec.alias \notin TableKeys /\ spec.kind = "LIST"
  BY DEF Devices, Profile, Nested
<1>6. \A i \in 1..n : Is("dict", cs[i]) /\ DecodePart(cs[i], spec.subtype) = v[2][i]
  <2>1. \A i \in 1..n : Is("dict", cs[i]) /\ Decode2(cs[i], spec.subtype) = v[2][i]
    BY <1>5, ObjectBack2 DEF Devices, y, xs, cs
  <2>2. spec.subtype # "OCITable"
    BY DEF Devices
  <2> QED BY <2>1, <2>2, ObjectPart
<1>7. Flat(cs, n)
  BY <1>6, DictTag DEF Flat, Sequence, Devices, cs
<1>8. AsList(Elements(cs)) = cs /\ DOMAIN cs = 1..n
  BY <1>7, Gathered, SequenceLen DEF Flat
<1>9. \A i \in 1..n : D[i] = v[2][i]
  BY <1>6, <1>8
<1> HIDE DEF D
<1>10. v = List(v[2]) /\ Sequence(v[2], n)
  BY DEF Devices
<1>11. DecodeField(Elements(cs), spec, D) = List(v[2])
  <2>1. \A i \in 1..n : v[2][i] = IF Is("dict", cs[i]) THEN D[i]
           ELSE Coerce(cs[i], spec.subtype)
    BY <1>6, <1>9
  <2> QED BY <1>5, <1>7, <1>10, <2>1, ListRead
<1>12. Read3(Elements(cs), spec) = v
  BY <1>10, <1>11 DEF Read3, D
<1>13. List(y) # None /\ Elements(xs) # List(<<>>)
  BY <1>3, Gathered, ListTag
<1> QED BY <1>2, <1>3, <1>4, <1>12, <1>13 DEF Back3Field, Came3

-----------------------------------------------------------------------------
(* Tables. *)

TextSeq(s, n) == Sequence(s, n) /\ \A i \in 1..n : \E t : s[i] = Str(t)

\* Headings and rows of texts.
TextTable(H, R) ==
    /\ TextSeq(H, Len(H))
    /\ Sequence(R, Len(R))
    /\ \A i \in 1..Len(R) : TextSeq(R[i], Len(R[i]))

RowDict(cells) == Entry("col", List(cells))
XmlTexts(s) == [i \in DOMAIN s |-> XmlText(s[i])]
XmlRow(cells) == ThroughXml1(RowDict(cells))
XmlRows(R) == [i \in DOMAIN R |-> XmlRow(R[i])]
TableCols == {"colHeading", "row"}

\* What a dict of one key holds.
LEMMA EntryParts == \A k, v : Is("dict", Entry(k, v)) /\ Keys(Entry(k, v)) = {k}
         /\ Entry(k, v)[2][k] = v
<1> TAKE k, v
<1> DEFINE f == [j \in {k} |-> v]
<1>1. Entry(k, v) = Dict(f) /\ DOMAIN f = {k} /\ f[k] = v
  BY DEF Entry
<1> HIDE DEF f
<1> QED BY <1>1, DictParts

\* The keys of a table are no marks and no names of fields.
LEMMA ColsPlain == /\ TableCols \cap Marks = {} /\ TableCols \cap TableKeys = {}
                   /\ "#text" \notin TableCols /\ "#text" # "col"
                   /\ "col" \notin Marks
  BY DEF TableCols, Marks, TableKeys

\* Texts go through the library one by one.
LEMMA TextsParsed ==
  ASSUME NEW s, NEW n, TextSeq(s, n)
  PROVE  /\ Flat(s, n) /\ Flat(XmlTexts(s), n) /\ DOMAIN s = 1..n
         /\ Map(XmlText, s) = XmlTexts(s) /\ Map(ThroughXml1, s) = XmlTexts(s)
         /\ \A i \in 1..n : Leaf(XmlTexts(s)[i])
<1>1. n \in Nat /\ DOMAIN s = 1..n
  BY SequenceLen DEF TextSeq, Sequence
<1>2. \A i \in 1..n : Leaf(s[i]) /\ Leaf(XmlText(s[i]))
  <2> TAKE i \in 1..n
  <2>1. PICK t : s[i] = Str(t)
    BY DEF TextSeq
  <2> QED BY <2>1, TextIsLeaf, NoneIsLeaf, XmlOfText
<1>3. \A i \in 1..n : ThroughXml1(s[i]) = XmlText(s[i])
  BY <1>2, LeafXml
<1>4. Flat(s, n) /\ Flat(XmlTexts(s), n)
  BY <1>1, <1>2 DEF Flat, TextSeq, Sequence, XmlTexts, Leaf
<1>5. Map(XmlText, s) = XmlTexts(s) /\ Map(ThroughXml1, s) = XmlTexts(s)
  BY <1>1, <1>3 DEF Map, XmlTexts
<1> QED BY <1>1, <1>2, <1>4, <1>5 DEF XmlTexts

\* A row comes back from the library with its cells, or as nothing.
LEMMA RowParsed ==
  ASSUME NEW cells, NEW n, TextSeq(cells, n)
  PROVE  /\ n = 0 => XmlRow(cells) = None
         /\ n # 0 => /\ Is("dict", XmlRow(cells)) /\ Keys(XmlRow(cells)) = {"col"}
                     /\ XmlRow(cells)[2]["col"] = Elements(XmlTexts(cells))
<1> DEFINE d == RowDict(cells)
           X == [k \in Keys(d) |-> Map(XmlText, AsList(d[2][k]))]
           x == XmlNode(d, X)
<1>1. Is("dict", d) /\ Keys(d) = {"col"} /\ d[2]["col"] = List(cells)
  BY EntryParts DEF RowDict
<1>2. XmlRow(cells) = x
  BY DEF XmlRow, ThroughXml1
<1> HIDE DEF d
<1>3. X["col"] = XmlTexts(cells)
  <2>1. AsList(List(cells)) = cells
    BY ListTag DEF AsList
  <2> QED BY <1>1, <2>1, TextsParsed
<1>4. XmlChild(d[2]["col"], X["col"]) = Elements(XmlTexts(cells))
  BY <1>1, <1>3, ListParsed
<1> HIDE DEF X
<1>5. /\ x = None => XmlChild(d[2]["col"], X["col"]) = List(<<>>)
      /\ x # None => /\ Is("dict", x) /\ Keys(x) \subseteq {"col"}
                     /\ "col" \in Keys(x) <=> XmlChild(d[2]["col"], X["col"]) # List(<<>>)
                     /\ "col" \in Keys(x) => x[2]["col"] = XmlChild(d[2]["col"], X["col"])
  BY <1>1, XmlDict, ColsPlain
<1>6. ASSUME n = 0 PROVE x = None
  <2>1. Flat(XmlTexts(cells), 0)
    BY <1>6, TextsParsed
  <2>2. XmlTexts(cells) = <<>>
    BY <2>1, SequenceLen DEF Flat
  <2>3. XmlChild(d[2]["col"], X["col"]) = List(<<>>)
    BY <1>4, <2>2, ElementsOfNone
  <2>4. \A k \in Keys(d) : k \notin Marks
    BY <1>1, ColsPlain
  <2>5. XmlNode(d, X) = XmlElement(XmlChildren(d, X))
    BY <1>1 DEF XmlNode
  <2>6. XmlElement(XmlChildren(d, X)) = None
    BY <1>1, <2>3, <2>4, AttributeKeys DEF XmlElement, XmlChildren
  <2> QED BY <2>5, <2>6
<1>7. ASSUME n # 0 PROVE Elements(XmlTexts(cells)) # List(<<>>)
  BY <1>7, TextsParsed, Gathered
<1> HIDE DEF x
<1> QED BY <1>2, <1>4, <1>5, <1>6, <1>7

\* A table on the wire.
LEMMA TableParts ==
  ASSUME NEW H, NEW R
  PROVE  /\ Is("dict", TableOf(H, R)) /\ Keys(TableOf(H, R)) = TableCols
         /\ TableOf(H, R)[2]["colHeading"] = List(H)
         /\ TableOf(H, R)[2]["row"] = List([i \in DOMAIN R |-> RowDict(R[i])])
<1> DEFINE f == [colHeading |-> List(H), row |-> List([i \in DOMAIN R |-> RowDict(R[i])])]
<1>1. TableOf(H, R) = Dict(f)
  BY DEF TableOf, Map, RowDict
<1>2. /\ DOMAIN f = TableCols /\ f["colHeading"] = List(H)
      /\ f["row"] = List([i \in DOMAIN R |-> RowDict(R[i])])
  BY DEF TableCols
<1> HIDE DEF f
<1> QED BY <1>1, <1>2, DictParts

\* What the library makes of a table with the headings H and the rows R.
ParsedTable(x, H, R) ==
    /\ Is("dict", x) /\ Keys(x) \subseteq TableCols
    /\ "colHeading" \in Keys(x) <=> Len(H) # 0
    /\ "colHeading" \in Keys(x) => x[2]["colHeading"] = Elements(XmlTexts(H))
    /\ "row" \in Keys(x) <=> Len(R) # 0
    /\ "row" \in Keys(x) => x[2]["row"] = Elements(XmlRows(R))

\* Its rows when they come back.
LEMMA RowsFlat ==
  ASSUME NEW H, NEW R, TextTable(H, R)
  PROVE  /\ Flat(XmlRows(R), Len(R)) /\ DOMAIN R = 1..Len(R)
         /\ \A i \in 1..Len(R) :
              /\ Len(R[i]) = 0 => XmlRows(R)[i] = None
              /\ Len(R[i]) # 0 => /\ Is("dict", XmlRows(R)[i]) /\ Keys(XmlRows(R)[i]) = {"col"}
                                  /\ XmlRows(R)[i][2]["col"] = Elements(XmlTexts(R[i]))
<1>1. DOMAIN R = 1..Len(R) /\ Len(R) \in Nat
  BY SequenceLen DEF TextTable, Sequence
<1>2. ASSUME NEW i \in 1..Len(R)
      PROVE  /\ XmlRows(R)[i] = XmlRow(R[i])
             /\ Len(R[i]) = 0 => XmlRow(R[i]) = None
             /\ Len(R[i]) # 0 => /\ Is("dict", XmlRow(R[i])) /\ Keys(XmlRow(R[i])) = {"col"}
                                 /\ XmlRow(R[i])[2]["col"] = Elements(XmlTexts(R[i]))
  <2>1. TextSeq(R[i], Len(R[i]))
    BY DEF TextTable
  <2> QED BY <1>1, <2>1, RowParsed DEF XmlRows
<1>3. \A i \in 1..Len(R) : ~Is("list", XmlRows(R)[i])
  BY <1>2, NoneIsLeaf, DictTag DEF Leaf
<1>4. Flat(XmlRows(R), Len(R))
  BY <1>1, <1>3 DEF Flat, Sequence, XmlRows
<1> QED BY <1>1, <1>2, <1>4

\* Elements are missing only if there is no item.
LEMMA ListFound ==
  ASSUME NEW xs, NEW n, Flat(xs, n)
  PROVE  Elements(xs) = List(<<>>) <=> n = 0
<1>1. n = 0 => xs = <<>>
  BY SequenceLen DEF Flat
<1> QED BY <1>1, Gathered, ElementsOfNone

\* The library keeps the headings and the rows of a table.
LEMMA TableParsed ==
  ASSUME NEW H, NEW R, TextTable(H, R), NEW x, x = ThroughXml2(TableOf(H, R))
  PROVE  x # None => ParsedTable(x, H, R)
<1> DEFINE d == TableOf(H, R)
           rows == [i \in DOMAIN R |-> RowDict(R[i])]
           X == [k \in Keys(d) |-> Map(ThroughXml1, AsList(d[2][k]))]
<1>1. /\ Is("dict", d) /\ Keys(d) = TableCols
      /\ d[2]["colHeading"] = List(H) /\ d[2]["row"] = List(rows)
  BY TableParts
<1>2. x = XmlNode(d, X)
  BY DEF ThroughXml2
<1> HIDE DEF d
<1>3. AsList(List(H)) = H /\ AsList(List(rows)) = rows
  BY ListTag DEF AsList
<1>4. X["colHeading"] = XmlTexts(H)
  <2>1. TextSeq(H, Len(H))
    BY DEF TextTable
  <2>2. Map(ThroughXml1, H) = XmlTexts(H)
    BY <2>1, TextsParsed
  <2> QED BY <1>1, <1>3, <2>2 DEF TableCols
<1>5. X["row"] = XmlRows(R)
  <2>1. Map(ThroughXml1, rows) = XmlRows(R)
    BY DEF Map, XmlRows, XmlRow
  <2> HIDE DEF rows
  <2> QED BY <1>1, <1>3, <2>1 DEF TableCols
<1> HIDE DEF X, rows
<1>6. /\ XmlChild(d[2]["colHeading"], X["colHeading"]) = Elements(XmlTexts(H))
      /\ XmlChild(d[2]["row"], X["row"]) = Elements(XmlRows(R))
  BY <1>1, <1>4, <1>5, ListParsed
<1>7. /\ Elements(XmlTexts(H)) = List(<<>>) <=> Len(H) = 0
      /\ Elements(XmlRows(R)) = List(<<>>) <=> Len(R) = 0
  <2>1. TextSeq(H, Len(H))
    BY DEF TextTable
  <2> QED BY <2>1, TextsParsed, RowsFlat, ListFound
<1>8. ASSUME x # None
      PROVE  /\ Is("dict", x) /\ Keys(x) \subseteq Keys(d)
             /\ \A k \in Keys(d) \ Marks :
                   /\ k \in Keys(x) <=> XmlChild(d[2][k], X[k]) # List(<<>>)
                   /\ k \in Keys(x) => x[2][k] = XmlChild(d[2][k], X[k])
  BY <1>1, <1>2, <1>8, XmlDict
<1>9. "colHeading" \in Keys(d) \ Marks /\ "row" \in Keys(d) \ Marks
  BY <1>1, ColsPlain DEF TableCols
<1>10. ASSUME x # None PROVE ParsedTable(x, H, R)
  <2>1. /\ "colHeading" \in Keys(x) <=> Len(H) # 0
        /\ "colHeading" \in Keys(x) => x[2]["colHeading"] = Elements(XmlTexts(H))
    BY <1>6, <1>7, <1>8, <1>9, <1>10
  <2>2. /\ "row" \in Keys(x) <=> Len(R) # 0
        /\ "row" \in Keys(x) => x[2]["row"] = Elements(XmlRows(R))
    BY <1>6, <1>7, <1>8, <1>9, <1>10
  <2> QED BY <1>1, <1>8, <1>10, <2>1, <2>2 DEF ParsedTable
<1> QED BY <1>10

\* What becomes of a dict with neither attributes nor text when it is cleaned.
LEMMA CleanedDict ==
  ASSUME NEW x, Is("dict", x), NEW cols, Keys(x) \subseteq cols, cols \cap Marks = {},
         "#text" \notin cols, NEW key, NEW inner,
         key \notin TableKeys \/ ~({"colHeading", "row"} \subseteq Keys(x)),
         NEW c, c = CleanNode(key, x, inner)
  PROVE  /\ Is("dict", c) /\ Keys(c) = Keys(x)
         /\ \A k \in Keys(x) : c[2][k] = CleanChild(x[2][k], inner[k])
<1> DEFINE f == [k \in Keys(x) |-> CleanChild(x[2][k], inner[k])]
<1>1. c = CleanDict(x, inner)
  BY DEF CleanNode
<1>2. Keys(x) \ DOMAIN AttributeNames = Keys(x)
  BY AttributeKeys
<1>3. CleanDict(x, inner) = Dict(f)
  BY <1>2 DEF CleanDict
<1> HIDE <1>2
<1>4. DOMAIN f = Keys(x) /\ \A k \in Keys(x) : f[k] = CleanChild(x[2][k], inner[k])
  OBVIOUS
<1> HIDE DEF f
<1> QED BY <1>1, <1>3, <1>4, DictParts

RowsOf(d) == IF "row" \in Keys(d) THEN AsList(d[2]["row"]) ELSE <<>>

\* The rows are dicts that hold the cells of R.
HoldsRows(rs, R) ==
    /\ DOMAIN rs = 1..Len(R)
    /\ Sequence(R, Len(R))
    /\ \A i \in 1..Len(R) : Is("dict", rs[i]) /\ "col" \in Keys(rs[i])
          /\ AsList(rs[i][2]["col"]) = R[i]

\* A dict with headings and with rows that have cells is read as a table.
LEMMA TableDecoded ==
  ASSUME NEW d, Is("dict", d), "colHeading" \in Keys(d), NEW R, HoldsRows(RowsOf(d), R)
  PROVE  DecodeTable(d) = Table(AsList(d[2]["colHeading"]), R)
<1> DEFINE rs == RowsOf(d)
           Cells(r) == IF "col" \in Keys(r) THEN AsList(r[2]["col"]) ELSE <<>>
<1>1. rs = IF "row" \in Keys(d) THEN AsList(d[2]["row"]) ELSE <<>>
  BY DEF RowsOf
<1>2. DecodeTable(d) = IF \E i \in DOMAIN rs : ~Is("dict", rs[i]) THEN AttributeError
                       ELSE Table(AsList(d[2]["colHeading"]),
                               [i \in DOMAIN rs |-> Cells(rs[i])])
  BY <1>1 DEF DecodeTable, Map
<1> HIDE DEF rs
<1>3. DOMAIN rs = 1..Len(R) /\ R = [i \in 1..Len(R) |-> R[i]]
         /\ \A i \in DOMAIN rs : Is("dict", rs[i]) /\ Cells(rs[i]) = R[i]
  BY DEF rs, HoldsRows, Sequence
<1>4. [i \in DOMAIN rs |-> Cells(rs[i])] = R
  BY <1>3
<1> QED BY <1>2, <1>3, <1>4

\* Whatever the rows hold, if they are dicts no row raises.
LEMMA NoRowRaises ==
  ASSUME NEW d, d # AttributeError,
         Is("dict", d) => \A i \in DOMAIN RowsOf(d) : Is("dict", RowsOf(d)[i])
  PROVE  DecodeTable(d) # AttributeError
<1>1. \A x, y : Table(x, y) # AttributeError
  BY DEF Table, AttributeError
<1> QED BY <1>1 DEF DecodeTable, RowsOf

CleanTexts(s) == [i \in DOMAIN s |-> CleanText(s[i])]
CleanRows(s) == [i \in DOMAIN s |-> Clean1("row", s[i])]

\* Texts are cleaned one by one.
LEMMA TextsCleaned ==
  ASSUME NEW xs, NEW n, n # 0, Flat(xs, n), \A i \in 1..n : Leaf(xs[i])
  PROVE  /\ Flat(CleanTexts(xs), n) /\ AsList(Elements(xs)) = xs
         /\ CleanChild(Elements(xs), CleanTexts(xs)) = Elements(CleanTexts(xs))
         /\ Map(CleanText, xs) = CleanTexts(xs)
         /\ \A key : [i \in DOMAIN xs |-> Clean1(key, xs[i])] = CleanTexts(xs)
<1>1. AsList(Elements(xs)) = xs /\ DOMAIN xs = 1..n /\ n \in Nat
  BY Gathered, SequenceLen DEF Flat, Sequence
<1>2. \A i \in 1..n : Leaf(CleanText(xs[i]))
  BY TextIsLeaf DEF CleanText
<1>3. Flat(CleanTexts(xs), n) /\ Sequence(CleanTexts(xs), n)
  BY <1>1, <1>2 DEF Flat, Sequence, CleanTexts, Leaf
<1>4. CleanChild(Elements(xs), CleanTexts(xs)) = Elements(CleanTexts(xs))
  BY <1>3, CleanedElements
<1>5. \A key : [i \in DOMAIN xs |-> Clean1(key, xs[i])] = CleanTexts(xs)
  BY <1>1, LeafClean DEF CleanTexts
<1>6. Map(CleanText, xs) = CleanTexts(xs)
  BY DEF Map, CleanTexts
<1> QED BY <1>1, <1>3, <1>4, <1>5, <1>6

\* So are the cells of a row.
LEMMA RowCleaned ==
  ASSUME NEW cells, NEW n, n # 0, TextSeq(cells, n), NEW r, Is("dict", r), Keys(r) = {"col"},
         r[2]["col"] = Elements(XmlTexts(cells))
  PROVE  /\ Is("dict", Clean1("row", r)) /\ Keys(Clean1("row", r)) = {"col"}
         /\ Clean1("row", r)[2]["col"] = Elements(CleanTexts(XmlTexts(cells)))
<1> DEFINE C == [k \in Keys(r) |-> Map(CleanText, AsList(r[2][k]))]
           c == CleanNode("row", r, C)
           xs == XmlTexts(cells)
<1>1. Flat(xs, n) /\ \A i \in 1..n : Leaf(xs[i])
  BY TextsParsed
<1> HIDE DEF xs
<1>2. C["col"] = CleanTexts(xs)
  <2>1. AsList(Elements(xs)) = xs /\ Map(CleanText, xs) = CleanTexts(xs)
    BY <1>1, TextsCleaned
  <2> QED BY <2>1 DEF xs
<1> HIDE DEF C
<1>3. "row" \notin TableKeys /\ {"col"} \cap Marks = {} /\ "#text" \notin {"col"}
  BY DEF TableKeys, Marks
<1>4. /\ Is("dict", c) /\ Keys(c) = {"col"}
      /\ c[2]["col"] = CleanChild(r[2]["col"], C["col"])
  BY <1>3, CleanedDict
<1>5. c = Clean1("row", r)
  BY DEF Clean1, C
<1>6. CleanChild(Elements(xs), CleanTexts(xs)) = Elements(CleanTexts(xs))
  BY <1>1, TextsCleaned
<1> HIDE DEF c
<1> QED BY <1>2, <1>4, <1>5, <1>6 DEF xs

\* A parsed table that is cleaned as any other dict.
CleanedTable(c, H, R) ==
    /\ Is("dict", c) /\ Keys(c) \subseteq TableCols
    /\ "colHeading" \in Keys(c) <=> Len(H) # 0
    /\ "colHeading" \in Keys(c) => c[2]["colHeading"] = Elements(CleanTexts(XmlTexts(H)))
    /\ "row" \in Keys(c) <=> Len(R) # 0
    /\ "row" \in Keys(c) => c[2]["row"] = Elements(CleanRows(XmlRows(R)))

\* So are the rows of a table.
LEMMA RowsCleaned ==
  ASSUME NEW H, NEW R, TextTable(H, R)
  PROVE  /\ Flat(CleanRows(XmlRows(R)), Len(R))
         /\ \A i \in 1..Len(R) : Len(R[i]) # 0 =>
               /\ Is("dict", CleanRows(XmlRows(R))[i])
                     /\ Keys(CleanRows(XmlRows(R))[i]) = {"col"}
               /\ CleanRows(XmlRows(R))[i][2]["col"] = Elements(CleanTexts(XmlTexts(R[i])))
<1> DEFINE rs == XmlRows(R)
<1>1. /\ Flat(rs, Len(R)) /\ DOMAIN rs = 1..Len(R) /\ Len(R) \in Nat
      /\ \A i \in 1..Len(R) :
              /\ Len(R[i]) = 0 => rs[i] = None
              /\ Len(R[i]) # 0 => /\ Is("dict", rs[i]) /\ Keys(rs[i]) = {"col"}
                                  /\ rs[i][2]["col"] = Elements(XmlTexts(R[i]))
  BY RowsFlat, SequenceLen DEF Flat, Sequence
<1> HIDE DEF rs
<1>2. ASSUME NEW i \in 1..Len(R), Len(R[i]) # 0
      PROVE  /\ Is("dict", Clean1("row", rs[i])) /\ Keys(Clean1("row", rs[i])) = {"col"}
             /\ Clean1("row", rs[i])[2]["col"] = Elements(CleanTexts(XmlTexts(R[i])))
  <2>1. TextSeq(R[i], Len(R[i]))
    BY DEF TextTable
  <2> QED BY <1>1, <1>2, <2>1, RowCleaned
<1>3. ASSUME NEW i \in 1..Len(R) PROVE ~Is("list", Clean1("row", rs[i]))
  <2>1. CASE Len(R[i]) = 0
    <3>1. Clean1("row", rs[i]) = CleanText(None)
      BY <1>1, <2>1, NoneIsLeaf, LeafClean
    <3> QED BY <3>1, TextIsLeaf DEF CleanText, Leaf
  <2>2. CASE Len(R[i]) # 0
    BY <1>2, <2>2, DictTag
  <2> QED BY <2>1, <2>2
<1>4. Flat(CleanRows(rs), Len(R))
  BY <1>1, <1>3 DEF Flat, Sequence, CleanRows
<1>5. \A i \in 1..Len(R) : CleanRows(rs)[i] = Clean1("row", rs[i])
  BY <1>1 DEF CleanRows
<1> QED BY <1>2, <1>4, <1>5 DEF rs

\* A table of a field that is not named for one is cleaned as any other dict.
LEMMA TableCleaned ==
  ASSUME NEW H, NEW R, TextTable(H, R), NEW x, ParsedTable(x, H, R), NEW key,
         key \notin TableKeys \/ ~({"colHeading", "row"} \subseteq Keys(x))
  PROVE  CleanedTable(Clean2(key, x), H, R)
<1> DEFINE C == [k \in Keys(x) |->
                    [i \in DOMAIN AsList(x[2][k]) |-> Clean1(k, AsList(x[2][k])[i])]]
           c == CleanNode(key, x, C)
<1>1. Clean2(key, x) = c
  BY DEF Clean2
<1>2. ASSUME "colHeading" \in Keys(x)
      PROVE  CleanChild(x[2]["colHeading"], C["colHeading"]) = Elements(CleanTexts(XmlTexts(H)))
  <2> DEFINE xs == XmlTexts(H)
  <2>1. TextSeq(H, Len(H)) /\ Len(H) # 0
    BY <1>2 DEF TextTable, ParsedTable
  <2>2. Flat(xs, Len(H)) /\ \A i \in 1..Len(H) : Leaf(xs[i])
    BY <2>1, TextsParsed
  <2>3. x[2]["colHeading"] = Elements(xs)
    BY <1>2 DEF ParsedTable
  <2> HIDE DEF xs
  <2>4. /\ AsList(Elements(xs)) = xs
        /\ [i \in DOMAIN xs |-> Clean1("colHeading", xs[i])] = CleanTexts(xs)
        /\ CleanChild(Elements(xs), CleanTexts(xs)) = Elements(CleanTexts(xs))
    BY <2>1, <2>2, TextsCleaned
  <2>5. C["colHeading"] = CleanTexts(xs)
    BY <1>2, <2>3, <2>4
  <2> QED BY <2>3, <2>4, <2>5 DEF xs
<1>3. ASSUME "row" \in Keys(x)
      PROVE  CleanChild(x[2]["row"], C["row"]) = Elements(CleanRows(XmlRows(R)))
  <2> DEFINE rs == XmlRows(R)
  <2>1. Len(R) # 0 /\ x[2]["row"] = Elements(rs)
    BY <1>3 DEF ParsedTable
  <2>2. Flat(rs, Len(R)) /\ Flat(CleanRows(rs), Len(R))
    BY RowsFlat, RowsCleaned
  <2> HIDE DEF rs
  <2>3. AsList(Elements(rs)) = rs
    BY <2>1, <2>2, Gathered
  <2>4. C["row"] = CleanRows(rs)
    BY <1>3, <2>1, <2>3 DEF CleanRows
  <2>5. CleanChild(Elements(rs), CleanRows(rs)) = Elements(CleanRows(rs))
    BY <2>1, <2>2, CleanedElements DEF Flat
  <2> QED BY <2>1, <2>4, <2>5 DEF rs
<1> HIDE DEF C
<1>4. /\ Is("dict", c) /\ Keys(c) = Keys(x)
      /\ \A k \in Keys(x) : c[2][k] = CleanChild(x[2][k], C[k])
  <2>1. Is("dict", x) /\ Keys(x) \subseteq TableCols
    BY DEF ParsedTable
  <2>2. TableCols \cap Marks = {} /\ "#text" \notin TableCols
    BY ColsPlain
  <2> QED BY <2>1, <2>2, CleanedDict
<1> HIDE DEF c
<1> QED BY <1>1, <1>2, <1>3, <1>4 DEF CleanedTable, ParsedTable

\* The cells as DecodeTable finds them, in a table that is not cleaned and in
\* one that is.
TextRows(R) == [i \in DOMAIN R |-> XmlTexts(R[i])]
CleanTextRows(R) == [i \in DOMAIN R |-> CleanTexts(XmlTexts(R[i]))]

\* The rows that are found in a table before and after it is cleaned.
LEMMA RowsHeld ==
  ASSUME NEW H, NEW R, TextTable(H, R), \A i \in 1..Len(R) : Len(R[i]) # 0
  PROVE  /\ \A x : ParsedTable(x, H, R) => HoldsRows(RowsOf(x), TextRows(R))
         /\ \A c : CleanedTable(c, H, R) => HoldsRows(RowsOf(c), CleanTextRows(R))
<1>1. DOMAIN R = 1..Len(R) /\ Len(R) \in Nat
  BY SequenceLen DEF TextTable, Sequence
<1>2. Sequence(TextRows(R), Len(R)) /\ Sequence(CleanTextRows(R), Len(R))
  BY <1>1 DEF Sequence, TextRows, CleanTextRows
<1>3. Len(TextRows(R)) = Len(R) /\ Len(CleanTextRows(R)) = Len(R)
  BY <1>2, SequenceLen
<1>4. DOMAIN <<>> = 1..0
  OBVIOUS
<1>5. ASSUME NEW i \in 1..Len(R)
      PROVE  /\ AsList(Elements(XmlTexts(R[i]))) = TextRows(R)[i]
             /\ AsList(Elements(CleanTexts(XmlTexts(R[i])))) = CleanTextRows(R)[i]
  <2>1. TextSeq(R[i], Len(R[i])) /\ Len(R[i]) # 0
    BY DEF TextTable
  <2>2. Flat(XmlTexts(R[i]), Len(R[i])) /\ Flat(CleanTexts(XmlTexts(R[i])), Len(R[i]))
    BY <2>1, TextsParsed, TextsCleaned
  <2> QED BY <1>1, <2>1, <2>2, Gathered DEF TextRows, CleanTextRows
<1>6. ASSUME NEW x, ParsedTable(x, H, R) PROVE HoldsRows(RowsOf(x), TextRows(R))
  <2>1. CASE Len(R) = 0
    BY <1>2, <1>3, <1>4, <1>6, <2>1 DEF ParsedTable, RowsOf, HoldsRows
  <2>2. CASE Len(R) # 0
    <3> DEFINE rs == XmlRows(R)
    <3>1. /\ Flat(rs, Len(R))
          /\ \A i \in 1..Len(R) : /\ Is("dict", rs[i]) /\ Keys(rs[i]) = {"col"}
                                  /\ rs[i][2]["col"] = Elements(XmlTexts(R[i]))
      BY RowsFlat
    <3>2. RowsOf(x) = AsList(Elements(rs))
      BY <1>6, <2>2 DEF ParsedTable, RowsOf
    <3> HIDE DEF rs
    <3>3. RowsOf(x) = rs /\ DOMAIN rs = 1..Len(R)
      BY <2>2, <3>1, <3>2, Gathered, SequenceLen DEF Flat
    <3> QED BY <1>2, <1>3, <1>5, <3>1, <3>3 DEF HoldsRows
  <2> QED BY <2>1, <2>2
<1>7. ASSUME NEW c, CleanedTable(c, H, R) PROVE HoldsRows(RowsOf(c), CleanTextRows(R))
  <2>1. CASE Len(R) = 0
    BY <1>2, <1>3, <1>4, <1>7, <2>1 DEF CleanedTable, RowsOf, HoldsRows
  <2>2. CASE Len(R) # 0
    <3> DEFINE rs == CleanRows(XmlRows(R))
    <3>1. /\ Flat(rs, Len(R))
          /\ \A i \in 1..Len(R) : /\ Is("dict", rs[i]) /\ Keys(rs[i]) = {"col"}
                                  /\ rs[i][2]["col"] = Elements(CleanTexts(XmlTexts(R[i])))
      BY RowsCleaned
    <3>2. RowsOf(c) = AsList(Elements(rs))
      BY <1>7, <2>2 DEF CleanedTable, RowsOf
    <3> HIDE DEF rs
    <3>3. RowsOf(c) = rs /\ DOMAIN rs = 1..Len(R)
      BY <2>2, <3>1, <3>2, Gathered, SequenceLen DEF Flat
    <3> QED BY <1>2, <1>3, <1>5, <3>1, <3>3 DEF HoldsRows
  <2> QED BY <2>1, <2>2
<1> QED BY <1>6, <1>7

\* What is no dict is no table on the wire.
LEMMA NoTable == \A v : ~Is("dict", v) => DecodeTable(v) = v
  BY DEF DecodeTable

\* A table is no other value.
LEMMA TableTag == \A x, y : ~Is("dict", Table(x, y)) /\ Table(x, y) # AttributeError
         /\ Table(x, y) # None
                            /\ ~Is("str", Table(x, y)) /\ ~Is("list", Table(x, y))
  BY DEF Is, Table, AttributeError, None

\* A table of a field that is named for one is decoded when it is cleaned.
LEMMA DecodedEarly ==
  ASSUME NEW x, Is("dict", x), NEW key \in TableKeys, {"colHeading", "row"} \subseteq Keys(x)
  PROVE  Clean2(key, x) = DecodeTable(x)
  BY DEF Clean2, CleanNode

\* Only a row without cells raises, and only below headings.
LEMMA TableKept ==
  ASSUME NEW H, NEW R, TextTable(H, R), Len(H) = 0 \/ \A i \in 1..Len(R) : Len(R[i]) # 0,
         NEW x, x = ThroughXml2(TableOf(H, R)), NEW key
  PROVE  /\ Clean2(key, x) # AttributeError /\ ~Is("list", Clean2(key, x))
         /\ DecodeTable(Clean2(key, x)) # AttributeError
<1>1. CASE x = None
  <2>1. Clean2(key, x) = Str("")
    BY <1>1, NoneIsLeaf, LeafClean DEF CleanText
  <2>2. Str("") # AttributeError /\ ~Is("dict", Str("")) /\ ~Is("list", Str(""))
    BY DEF Str, AttributeError, Is
  <2> QED BY <2>1, <2>2, NoTable
<1>2. CASE x # None /\ key \in TableKeys /\ {"colHeading", "row"} \subseteq Keys(x)
  <2>1. ParsedTable(x, H, R)
    BY <1>2, TableParsed
  <2>2. Is("dict", x) /\ "colHeading" \in Keys(x) /\ Len(H) # 0
    BY <1>2, <2>1 DEF ParsedTable
  <2>3. HoldsRows(RowsOf(x), TextRows(R))
    BY <2>1, <2>2, RowsHeld
  <2>4. Clean2(key, x) = Table(AsList(x[2]["colHeading"]), TextRows(R))
    BY <1>2, <2>2, <2>3, TableDecoded, DecodedEarly
  <2> QED BY <2>4, NoTable, TableTag
<1>3. CASE x # None /\ ~(key \in TableKeys /\ {"colHeading", "row"} \subseteq Keys(x))
  <2> DEFINE c == Clean2(key, x)
  <2>1. ParsedTable(x, H, R)
    BY <1>3, TableParsed
  <2>2. CleanedTable(c, H, R)
    BY <1>3, <2>1, TableCleaned
  <2> HIDE DEF c
  <2>3. Is("dict", c) /\ c # AttributeError /\ ~Is("list", c)
    BY <2>2, DictTag DEF CleanedTable
  <2>4. ASSUME Len(H) = 0 PROVE DecodeTable(c) # AttributeError
    BY <2>2, <2>3, <2>4 DEF CleanedTable, DecodeTable
  <2>5. ASSUME \A i \in 1..Len(R) : Len(R[i]) # 0 PROVE DecodeTable(c) # AttributeError
    <3>1. HoldsRows(RowsOf(c), CleanTextRows(R))
      BY <2>2, <2>5, RowsHeld
    <3>2. \A i \in DOMAIN RowsOf(c) : Is("dict", RowsOf(c)[i])
      BY <3>1 DEF HoldsRows
    <3> QED BY <2>3, <3>2, NoRowRaises
  <2> QED BY <2>3, <2>4, <2>5 DEF c
<1> QED BY <1>1, <1>2, <1>3

\* A table with headings leaves an element.
LEMMA TableArrives ==
  ASSUME NEW H, NEW R, TextTable(H, R), Len(H) # 0
  PROVE  ThroughXml2(TableOf(H, R)) # None
<1> DEFINE d == TableOf(H, R)
           X == [k \in Keys(d) |-> Map(ThroughXml1, AsList(d[2][k]))]
<1>1. Is("dict", d) /\ Keys(d) = TableCols /\ d[2]["colHeading"] = List(H)
  BY TableParts
<1>2. ThroughXml2(d) = XmlNode(d, X)
  BY DEF ThroughXml2
<1> HIDE DEF d
<1>3. TextSeq(H, Len(H))
  BY DEF TextTable
<1>4. X["colHeading"] = XmlTexts(H)
  <2>1. AsList(List(H)) = H /\ Map(ThroughXml1, H) = XmlTexts(H)
    BY <1>3, ListTag, TextsParsed DEF AsList
  <2> QED BY <1>1, <2>1 DEF TableCols
<1> HIDE DEF X
<1>5. XmlChild(d[2]["colHeading"], X["colHeading"]) # List(<<>>)
  <2>1. Elements(XmlTexts(H)) # List(<<>>)
    BY <1>3, TextsParsed, Gathered
  <2> QED BY <1>1, <1>4, <2>1, ListParsed
<1>6. "colHeading" \in Keys(d) \ Marks
  BY <1>1, ColsPlain DEF TableCols
<1>7. XmlNode(d, X) # None
  BY <1>1, <1>5, <1>6, XmlDict
<1> QED BY <1>2, <1>7 DEF d

\* Texts that have no white space around them, and those that are not empty.
Stripped(s) == \A i \in DOMAIN s : CarriedText(s[i])
Filled(s) == \A i \in DOMAIN s : s[i] # Str("")

\* Texts without white space around them come back, and if none is empty, as
\* the library has them.
LEMMA TextsBack ==
  ASSUME NEW s, NEW n, TextSeq(s, n), Stripped(s)
  PROVE  CleanTexts(XmlTexts(s)) = s /\ (Filled(s) => XmlTexts(s) = s)
<1>1. s = [i \in DOMAIN s |-> s[i]] /\ DOMAIN s = 1..n
  BY SequenceLen DEF TextSeq, Sequence
<1>2. ASSUME NEW i \in DOMAIN s
      PROVE  CleanText(XmlText(s[i])) = s[i] /\ (s[i] # Str("") => XmlText(s[i]) = s[i])
  <2>1. PICK t : s[i] = Str(t)
    BY <1>1 DEF TextSeq
  <2>2. Strip[t] = t
    BY <2>1 DEF Stripped, CarriedText, Is, Str
  <2>3. s[i] # Str("") => t # ""
    BY <2>1
  <2> QED BY <2>1, <2>2, <2>3, CleanXmlOfText, XmlOfText
<1>3. \A i \in DOMAIN s : XmlTexts(s)[i] = XmlText(s[i])
  BY DEF XmlTexts
<1>4. CleanTexts(XmlTexts(s)) = [i \in DOMAIN s |-> CleanText(XmlText(s[i]))]
  BY DEF CleanTexts, XmlTexts
<1>5. [i \in DOMAIN s |-> CleanText(XmlText(s[i]))] = s
  BY <1>1, <1>2
<1>6. ASSUME Filled(s) PROVE XmlTexts(s) = s
  <2>1. [i \in DOMAIN s |-> XmlText(s[i])] = s
    BY <1>1, <1>2, <1>6 DEF Filled
  <2> QED BY <2>1 DEF XmlTexts
<1> QED BY <1>4, <1>5, <1>6

\* The table H, R comes through in a field whose key is key.
ComesThrough(H, R, key) ==
    /\ TextTable(H, R)
    /\ Len(H) # 0 /\ Stripped(H)
    /\ \A i \in 1..Len(R) : Len(R[i]) # 0 /\ Stripped(R[i])
    /\ key \in TableKeys => Filled(H) /\ \A i \in 1..Len(R) : Filled(R[i])

\* So do the headings and the cells of a table that comes through.
LEMMA CellsBack ==
  ASSUME NEW H, NEW R, NEW key, ComesThrough(H, R, key)
  PROVE  /\ CleanTexts(XmlTexts(H)) = H /\ CleanTextRows(R) = R
         /\ key \in TableKeys => XmlTexts(H) = H /\ TextRows(R) = R
<1>1. TextSeq(H, Len(H)) /\ Stripped(H) /\ (key \in TableKeys => Filled(H))
  BY DEF ComesThrough, TextTable
<1>2. \A i \in 1..Len(R) : /\ TextSeq(R[i], Len(R[i])) /\ Stripped(R[i])
                           /\ key \in TableKeys => Filled(R[i])
  BY DEF ComesThrough, TextTable
<1>3. \A i \in 1..Len(R) : /\ CleanTexts(XmlTexts(R[i])) = R[i]
                           /\ key \in TableKeys => XmlTexts(R[i]) = R[i]
  BY <1>2, TextsBack
<1>4. DOMAIN R = 1..Len(R) /\ R = [i \in 1..Len(R) |-> R[i]]
  BY SequenceLen DEF ComesThrough, TextTable, Sequence
<1>5. [i \in DOMAIN R |-> CleanTexts(XmlTexts(R[i]))] = R
  BY <1>3, <1>4
<1>6. ASSUME key \in TableKeys PROVE [i \in DOMAIN R |-> XmlTexts(R[i])] = R
  BY <1>3, <1>4, <1>6
<1>7. CleanTexts(XmlTexts(H)) = H /\ (key \in TableKeys => XmlTexts(H) = H)
  BY <1>1, TextsBack
<1>8. CleanTextRows(R) = R
  BY <1>5 DEF CleanTextRows
<1>9. key \in TableKeys => TextRows(R) = R
  BY <1>6 DEF TextRows
<1> QED BY <1>7, <1>8, <1>9

\* A table of a field that is named for one is a table as soon as it is cleaned.
LEMMA TableEarly ==
  ASSUME NEW H, NEW R, NEW key \in TableKeys, ComesThrough(H, R, key), Len(R) # 0
  PROVE  Clean2(key, ThroughXml2(TableOf(H, R))) = Table(H, R)
<1> DEFINE x == ThroughXml2(TableOf(H, R))
<1>1. TextTable(H, R) /\ Len(H) # 0 /\ \A i \in 1..Len(R) : Len(R[i]) # 0
  BY DEF ComesThrough
<1>2. ParsedTable(x, H, R)
  BY <1>1, TableArrives, TableParsed
<1> HIDE DEF x
<1>3. /\ Is("dict", x) /\ {"colHeading", "row"} \subseteq Keys(x) /\ "colHeading" \in Keys(x)
      /\ x[2]["colHeading"] = Elements(XmlTexts(H))
  BY <1>1, <1>2 DEF ParsedTable
<1>4. HoldsRows(RowsOf(x), TextRows(R))
  BY <1>1, <1>2, RowsHeld
<1>5. DecodeTable(x) = Table(AsList(x[2]["colHeading"]), TextRows(R))
  BY <1>3, <1>4, TableDecoded
<1>6. AsList(Elements(XmlTexts(H))) = XmlTexts(H)
  <2>1. TextSeq(H, Len(H))
    BY <1>1 DEF TextTable
  <2> QED BY <1>1, <2>1, TextsParsed, Gathered
<1>7. XmlTexts(H) = H /\ TextRows(R) = R
  BY CellsBack
<1>8. Clean2(key, x) = DecodeTable(x)
  BY <1>3, DecodedEarly
<1> QED BY <1>3, <1>5, <1>6, <1>7, <1>8 DEF x

\* A table comes back.
LEMMA TableBack ==
  ASSUME NEW H, NEW R, NEW key, ComesThrough(H, R, key)
  PROVE  DecodeTable(Clean2(key, ThroughXml2(TableOf(H, R)))) = Table(H, R)
<1> DEFINE x == ThroughXml2(TableOf(H, R))
           c == Clean2(key, x)
<1>1. TextTable(H, R) /\ Len(H) # 0 /\ \A i \in 1..Len(R) : Len(R[i]) # 0
  BY DEF ComesThrough
<1>2. CASE key \in TableKeys /\ Len(R) # 0
  BY <1>2, TableEarly, NoTable, TableTag
<1>3. ASSUME ~(key \in TableKeys /\ Len(R) # 0) PROVE DecodeTable(c) = Table(H, R)
  <2>1. ParsedTable(x, H, R)
    BY <1>1, TableArrives, TableParsed
  <2>2. CleanedTable(c, H, R)
    <3> HIDE DEF x
    <3>1. key \notin TableKeys \/ ~({"colHeading", "row"} \subseteq Keys(x))
      BY <1>3, <2>1 DEF ParsedTable
    <3> QED BY <1>1, <2>1, <3>1, TableCleaned DEF c
  <2> HIDE DEF c
  <2>3. /\ Is("dict", c) /\ "colHeading" \in Keys(c)
        /\ c[2]["colHeading"] = Elements(CleanTexts(XmlTexts(H)))
    BY <1>1, <2>2 DEF CleanedTable
  <2>4. HoldsRows(RowsOf(c), CleanTextRows(R))
    BY <1>1, <2>2, RowsHeld
  <2>5. DecodeTable(c) = Table(AsList(c[2]["colHeading"]), CleanTextRows(R))
    BY <2>3, <2>4, TableDecoded
  <2>6. AsList(Elements(CleanTexts(XmlTexts(H)))) = CleanTexts(XmlTexts(H))
    <3>1. TextSeq(H, Len(H))
      BY <1>1 DEF TextTable
    <3>2. Flat(CleanTexts(XmlTexts(H)), Len(H))
      BY <1>1, <3>1, TextsParsed, TextsCleaned
    <3> QED BY <1>1, <3>2, Gathered
  <2> QED BY <2>3, <2>5, <2>6, CellsBack
<1> QED BY <1>2, <1>3

-----------------------------------------------------------------------------
(* A list of dicts that is sent as a table. *)

LEMMA Ordered ==
  ASSUME NEW S, IsFiniteSet(S)
  PROVE  LET f == SetToSeq(S)
         IN  /\ Sequence(f, Cardinality(S)) /\ \A i \in DOMAIN f : f[i] \in S
             /\ \A k \in S : \E i \in DOMAIN f : f[i] = k
             /\ \A i, j \in DOMAIN f : f[i] = f[j] => i = j
             /\ Cardinality(S) = 0 <=> S = {}
<1> DEFINE n == Cardinality(S)
           f == SetToSeq(S)
<1>1. n \in Nat /\ (n = 0 <=> S = {})
  BY FS_CardinalityType, FS_EmptySet
<1>2. \E g \in [1..n -> S] : IsInjective(g)
  <2>1. PICK g : g \in Bijection(1..n, S)
    BY FS_CardinalityType DEF ExistsBijection
  <2> QED BY <2>1 DEF Bijection, Injection
<1>3. f \in [1..n -> S] /\ IsInjective(f)
  BY <1>2 DEF SetToSeq
<1> HIDE DEF f
<1>4. f \in Surjection(1..n, S)
  <2>1. f \in Injection(1..n, S)
    BY <1>3 DEF Injection
  <2>2. Cardinality(1..n) = n
    BY <1>1, FS_Interval
  <2> QED BY <2>1, <2>2, FS_Injection
<1>5. Sequence(f, n) /\ DOMAIN f = 1..n
  BY <1>1, <1>3 DEF Sequence
<1> QED BY <1>1, <1>3, <1>4, <1>5 DEF Surjection, IsInjective, f

\* The headings and the cells of the table for such a list.
Headings(items) == Map(Str, SetToSeq(Keys(items[1])))
CellsOf(items) ==
    [j \in DOMAIN items |->
        [i \in DOMAIN SetToSeq(Keys(items[1])) |-> items[j][2][SetToSeq(Keys(items[1]))[i]]]]

\* Dicts are sent as a table with a heading for each key.
LEMMA DictsSent ==
  ASSUME NEW items, NEW n, n # 0, Sequence(items, n), AreRows(items)
  PROVE  /\ DictTable(items) = TableOf(Headings(items), CellsOf(items))
         /\ TextTable(Headings(items), CellsOf(items))
         /\ Len(Headings(items)) = Cardinality(Keys(items[1])) /\ Len(CellsOf(items)) = n
         /\ \A i \in 1..n : Len(CellsOf(items)[i]) = Cardinality(Keys(items[1]))
<1> DEFINE S == Keys(items[1])
           f == SetToSeq(S)
           m == Cardinality(S)
           H == Headings(items)
           R == CellsOf(items)
<1>1. n \in Nat /\ DOMAIN items = 1..n /\ 1 \in DOMAIN items
  BY SequenceLen DEF Sequence
<1>2. IsFiniteSet(S)
  BY <1>1 DEF AreRows
<1>3. \A j \in 1..n : items[j][2] \in [S -> TextValues]
  BY <1>1 DEF AreRows
<1> HIDE DEF S
<1>4. Sequence(f, m) /\ \A i \in DOMAIN f : f[i] \in S
  BY <1>2, Ordered
<1>5. DOMAIN f = 1..m /\ m \in Nat
  BY <1>4, SequenceLen DEF Sequence
<1>6. H = [i \in DOMAIN f |-> Str(f[i])]
  BY DEF Headings, Map, S
<1>7. R = [j \in DOMAIN items |-> [i \in DOMAIN f |-> items[j][2][f[i]]]]
  BY DEF CellsOf, S
<1> HIDE DEF f, m, H, R
<1>8. Sequence(H, m) /\ TextSeq(H, m)
  BY <1>5, <1>6 DEF Sequence, TextSeq
<1>9. Sequence(R, n)
  BY <1>1, <1>7 DEF Sequence
<1>10. ASSUME NEW j \in 1..n PROVE TextSeq(R[j], m)
  <2>1. R[j] = [i \in 1..m |-> items[j][2][f[i]]]
    BY <1>1, <1>5, <1>7
  <2>2. \A i \in 1..m : items[j][2][f[i]] \in TextValues
    BY <1>3, <1>4, <1>5
  <2> QED BY <1>5, <2>1, <2>2 DEF TextSeq, Sequence, TextValues
<1>11. Len(H) = m /\ Len(R) = n
  BY <1>8, <1>9, SequenceLen
<1>12. \A j \in 1..n : Len(R[j]) = m
  BY <1>10, SequenceLen DEF TextSeq
<1>13. TextTable(H, R)
  BY <1>8, <1>9, <1>10, <1>11, <1>12 DEF TextTable
<1>14. DictTable(items) = TableOf(H, R)
  BY <1>6, <1>7 DEF DictTable, Map, f, S
<1> QED BY <1>11, <1>12, <1>13, <1>14 DEF H, R, m, S

\* The keys of such dicts are in snake case, and neither they nor their texts
\* are empty or have white space around them.
Rows(items, n, spec) ==
    /\ n # 0 /\ Sequence(items, n) /\ AreRows(items)
    /\ spec.alias \in TableKeys
    /\ \A i \in 1..n : CarriedRow(items[i], spec)

\* What is known of the dicts one by one.
LEMMA RowsShape ==
  ASSUME NEW items, NEW n, NEW spec, Rows(items, n, spec)
  PROVE  /\ DOMAIN items = 1..n /\ 1 \in 1..n
         /\ \A j \in 1..n : /\ Is("dict", items[j]) /\ items[j] = Dict(items[j][2])
                            /\ items[j][2] \in [Keys(items[1]) -> TextValues]
                            /\ Keys(items[j]) = Keys(items[1])
         /\ IsFiniteSet(Keys(items[1])) /\ Keys(items[1]) # {}
         /\ \A k \in Keys(items[1]) :
               CarriedText(Str(k)) /\ Str(k) # Str("") /\ SnakeCase(k) = k
         /\ \A j \in 1..n : \A k \in Keys(items[1]) :
               CarriedText(items[j][2][k]) /\ items[j][2][k] # Str("")
<1>1. DOMAIN items = 1..n /\ 1 \in 1..n
  BY SequenceLen DEF Rows, Sequence
<1>2. /\ \A j \in 1..n : /\ Is("dict", items[j]) /\ items[j] = Dict(items[j][2])
                         /\ items[j][2] \in [Keys(items[1]) -> TextValues]
      /\ IsFiniteSet(Keys(items[1]))
  BY <1>1 DEF Rows, AreRows
<1>3. \A j \in 1..n : Keys(items[j]) = Keys(items[1])
  BY <1>2 DEF Keys
<1>4. \A j \in 1..n : \A k \in Keys(items[1]) :
        /\ CarriedCell(Str(k), spec) /\ SnakeCase(k) = k
        /\ CarriedCell(items[j][2][k], spec)
  BY <1>3 DEF Rows, CarriedRow
<1>5. Keys(items[1]) # {}
  BY <1>1 DEF Rows, CarriedRow
<1>6. spec.alias \in TableKeys
  BY DEF Rows
<1> QED BY <1>1, <1>2, <1>3, <1>4, <1>5, <1>6 DEF CarriedCell

\* The table that they are sent as comes through.
LEMMA DictsCome ==
  ASSUME NEW items, NEW n, NEW spec, Rows(items, n, spec)
  PROVE  /\ ComesThrough(Headings(items), CellsOf(items), spec.alias)
         /\ Len(CellsOf(items)) # 0
<1> DEFINE S == Keys(items[1])
           f == SetToSeq(S)
           H == Headings(items)
           R == CellsOf(items)
<1>1. /\ DOMAIN items = 1..n /\ IsFiniteSet(S) /\ S # {}
      /\ \A k \in S : CarriedText(Str(k)) /\ Str(k) # Str("")
      /\ \A j \in 1..n : \A k \in S : CarriedText(items[j][2][k]) /\ items[j][2][k] # Str("")
  BY RowsShape
<1>2. /\ TextTable(H, R) /\ Len(H) = Cardinality(S) /\ Len(R) = n
      /\ \A i \in 1..n : Len(R[i]) = Cardinality(S)
  BY DictsSent DEF Rows
<1> HIDE DEF S
<1>3. Cardinality(S) # 0 /\ \A i \in DOMAIN f : f[i] \in S
  BY <1>1, Ordered
<1>4. H = [i \in DOMAIN f |-> Str(f[i])]
  BY DEF Headings, Map, S
<1>5. R = [j \in DOMAIN items |-> [i \in DOMAIN f |-> items[j][2][f[i]]]]
  BY DEF CellsOf, S
<1> HIDE DEF f, H, R
<1>6. Stripped(H) /\ Filled(H)
  BY <1>1, <1>3, <1>4 DEF Stripped, Filled
<1>7. ASSUME NEW j \in 1..n PROVE Stripped(R[j]) /\ Filled(R[j])
  <2>1. R[j] = [i \in DOMAIN f |-> items[j][2][f[i]]]
    BY <1>1, <1>5
  <2>2. DOMAIN R[j] = DOMAIN f /\ \A i \in DOMAIN f : R[j][i] = items[j][2][f[i]]
    BY <2>1
  <2>3. \A i \in DOMAIN f : CarriedText(items[j][2][f[i]]) /\ items[j][2][f[i]] # Str("")
    BY <1>1, <1>3
  <2> QED BY <2>2, <2>3 DEF Stripped, Filled
<1>8. n # 0
  BY DEF Rows
<1>9. ComesThrough(H, R, spec.alias)
  BY <1>2, <1>3, <1>6, <1>7 DEF ComesThrough
<1> QED BY <1>2, <1>8, <1>9 DEF H, R

\* to_dict() gives each dict back.
LEMMA DictBack ==
  ASSUME NEW items, NEW n, NEW spec, Rows(items, n, spec), NEW j \in 1..n
  PROVE  TableDict(Table(Headings(items), CellsOf(items)), CellsOf(items)[j]) = items[j]
<1> DEFINE S == Keys(items[1])
           f == SetToSeq(S)
           R == CellsOf(items)
           T == Table(Headings(items), R)
           names == {SnakeCase(h[2]) : h \in ToSet(T[2])}
           g == [k \in names |-> R[j][CHOOSE i \in DOMAIN T[2] : SnakeCase(T[2][i][2]) = k]]
<1>1. /\ DOMAIN items = 1..n /\ IsFiniteSet(S)
      /\ items[j] = Dict(items[j][2]) /\ items[j][2] \in [S -> TextValues]
      /\ \A k \in S : SnakeCase(k) = k
  BY RowsShape
<1> HIDE DEF S
<1>2. /\ \A i \in DOMAIN f : f[i] \in S
      /\ \A k \in S : \E i \in DOMAIN f : f[i] = k
      /\ \A i, l \in DOMAIN f : f[i] = f[l] => i = l
  BY <1>1, Ordered
<1>3. T[2] = [i \in DOMAIN f |-> Str(f[i])]
  BY TagsOfPairs DEF Headings, Map, S
<1>4. R[j] = [i \in DOMAIN f |-> items[j][2][f[i]]]
  BY <1>1 DEF CellsOf, S
<1>5. TableDict(T, R[j]) = Dict(g)
  BY DEF TableDict
<1> HIDE DEF f, T
<1>6. /\ DOMAIN T[2] = DOMAIN f
      /\ \A i \in DOMAIN f : T[2][i][2] = f[i] /\ SnakeCase(T[2][i][2]) = f[i]
  BY <1>1, <1>2, <1>3, Tags
<1>7. names = S
  <2>1. ToSet(T[2]) = {T[2][i] : i \in DOMAIN T[2]}
    BY DEF ToSet
  <2>2. \A k \in names : k \in S
    BY <1>2, <1>6, <2>1
  <2>3. \A k \in S : k \in names
    BY <1>2, <1>6, <2>1
  <2> QED BY <2>2, <2>3
<1>8. ASSUME NEW k \in S
      PROVE  R[j][CHOOSE i \in DOMAIN T[2] : SnakeCase(T[2][i][2]) = k] = items[j][2][k]
  <2>1. PICK i \in DOMAIN f : f[i] = k
    BY <1>2
  <2>2. (CHOOSE l \in DOMAIN T[2] : SnakeCase(T[2][l][2]) = k) = i
    BY <1>2, <1>6, <2>1
  <2> QED BY <1>4, <2>1, <2>2
<1> HIDE DEF names, R
<1>9. g = items[j][2]
  BY <1>1, <1>7, <1>8
<1> QED BY <1>1, <1>5, <1>9 DEF T, R

-----------------------------------------------------------------------------
(* Any field of a command. *)

\* What such a field may hold.
FieldOf(v, spec) ==
    \/ v = None
    \/ /\ v \in {Nil, NilClass}
       /\ spec.kind \in {"SCALAR", "OBJECT"} /\ spec.subtype \notin {"bool", "int"}
    \/ Fits(IsObject2, v, spec)

\* What is not marked as nil.
NoNil(p) == ~(Is("dict", p) /\ "@C:nil" \in Keys(p))

\* The fields of a command.
LEMMA Object3 ==
  ASSUME NEW m, IsCommand(m)
  PROVE  /\ Is("obj", m) /\ m # NilClass /\ m = New(m[2], m[3]) /\ m[2] \in DOMAIN Schema
         /\ m[3] = [n \in Names(m[2]) |-> m[3][n]]
         /\ \A n \in Names(m[2]) : FieldOf(m[3][n], SpecOf(m[2], n))
<1>1. /\ Is("obj", m) /\ m = New(m[2], m[3]) /\ m[2] \in DOMAIN Schema
      /\ m[3] = [n \in Names(m[2]) |-> m[3][n]]
      /\ \A n \in Names(m[2]) :
            \/ m[3][n] = None
            \/ n \in Nillable(m[2]) /\ m[3][n] \in {Nil, NilClass}
            \/ Fits(IsObject2, m[3][n], SpecOf(m[2], n))
  BY DEF IsCommand, ObjectOf
<1>2. ASSUME NEW n \in Names(m[2]), n \in Nillable(m[2])
      PROVE  SpecOf(m[2], n).kind \in {"SCALAR", "OBJECT"}
                /\ SpecOf(m[2], n).subtype \notin {"bool", "int"}
  BY <1>1, <1>2, SchemaOf, Nillables
<1>3. ASSUME NEW n \in Names(m[2]) PROVE FieldOf(m[3][n], SpecOf(m[2], n))
  <2>1. CASE n \in Nillable(m[2]) /\ m[3][n] \in {Nil, NilClass}
    BY <1>2, <2>1 DEF FieldOf
  <2> QED BY <1>1, <2>1 DEF FieldOf
<1> QED BY <1>1, <1>3, ObjectTag

\* A list of tables.
TableList(v, n, spec) ==
    /\ Is("list", v) /\ v = List(v[2]) /\ Sequence(v[2], n)
    /\ spec.kind = "LIST" /\ spec.subtype = "OCITable" /\ spec.alias \in TableKeys
    /\ \A i \in 1..n : IsTable(v[2][i])

\* The kinds of fields that hold a value.
LEMMA FieldKinds ==
  ASSUME NEW v, NEW spec \in Specs, Fits(IsObject2, v, spec)
  PROVE  \/ spec.kind = "SCALAR" /\ FitsScalar(v, spec)
         \/ spec.kind = "OBJECT" /\ spec.subtype \in Profile /\ spec.alias \notin TableKeys
               /\ IsObject2(v, spec.subtype)
         \/ Plain(v, Len(v[2]), spec)
         \/ Devices(v, Len(v[2]), spec)
         \/ spec.kind = "LIST" /\ spec.alias \in TableKeys /\ Is("list", v)
               /\ Sequence(v[2], Len(v[2])) /\ AreRows(v[2])
         \/ TableList(v, Len(v[2]), spec)
         \/ spec.kind = "TABLE" /\ IsTable(v)
<1>1. CASE spec.kind = "SCALAR"
  BY <1>1 DEF Fits
<1>2. CASE spec.kind = "OBJECT"
  <2>1. spec.subtype \in Profile /\ spec.alias \notin TableKeys
    BY <1>2, Kinds DEF Profile, Nested
  <2> QED BY <1>2, <2>1 DEF Fits
<1>3. CASE spec.kind = "LIST"
  <2>1. FitsList(IsObject2, v, spec)
    BY <1>3 DEF Fits
  <2>2. /\ Is("list", v) /\ v = List(v[2]) /\ v[2] \in Seq(ToSet(v[2]))
    BY <2>1 DEF FitsList
  <2>3. Sequence(v[2], Len(v[2])) /\ DOMAIN v[2] = 1..Len(v[2])
    BY <2>2, SeqIsSequence, SequenceLen
  <2>4. CASE spec.subtype \in {"int", "str"}
    <3>1. \A i \in DOMAIN v[2] : FitsScalar(v[2][i], spec)
      BY <2>1, <2>4 DEF FitsList
    <3>2. spec.alias \notin TableKeys
      BY <1>3, <2>4, Kinds
    <3> QED BY <1>3, <2>2, <2>3, <2>4, <3>1, <3>2 DEF Plain
  <2>5. CASE spec.subtype = "AccessDevice"
    <3>1. \A i \in DOMAIN v[2] : IsObject2(v[2][i], spec.subtype)
      BY <2>1, <2>5 DEF FitsList
    <3>2. spec.alias \notin TableKeys
      BY <1>3, <2>5, Kinds
    <3> QED BY <1>3, <2>2, <2>3, <2>5, <3>1, <3>2 DEF Devices
  <2>6. CASE spec.subtype = "OCITable"
    <3>1. AreRows(v[2]) \/ \A i \in DOMAIN v[2] : IsTable(v[2][i])
      BY <2>1, <2>6 DEF FitsList
    <3>2. spec.alias \in TableKeys
      BY <1>3, <2>6, Kinds
    <3> QED BY <1>3, <2>2, <2>3, <2>6, <3>1, <3>2 DEF TableList
  <2> QED BY <1>3, <2>4, <2>5, <2>6, Kinds
<1>4. CASE spec.kind = "TABLE"
  BY <1>4 DEF Fits
<1> QED BY <1>1, <1>2, <1>3, <1>4, Kinds

\* A table has texts in its headings and cells.
LEMMA TableFits ==
  ASSUME NEW v, IsTable(v)
  PROVE  Is("OCITable", v) /\ v = Table(v[2], v[3]) /\ TextTable(v[2], v[3])
<1>1. Is("OCITable", v) /\ v = Table(v[2], v[3]) /\ v[2] \in Seq(TextValues)
      /\ v[3] \in Seq(Seq(TextValues))
  BY DEF IsTable
<1>2. \A s \in Seq(TextValues) : TextSeq(s, Len(s))
  <2> TAKE s \in Seq(TextValues)
  <2>1. Sequence(s, Len(s)) /\ \A i \in 1..Len(s) : s[i] \in TextValues
    BY SeqIsSequence
  <2> QED BY <2>1 DEF TextSeq, TextValues
<1>3. Sequence(v[3], Len(v[3])) /\ \A i \in 1..Len(v[3]) : v[3][i] \in Seq(TextValues)
  BY <1>1, SeqIsSequence
<1> QED BY <1>1, <1>2, <1>3 DEF TextTable

\* It is sent as a dict.
LEMMA TableSent ==
  ASSUME NEW v, IsTable(v), NEW spec
  PROVE  Sent3(v, spec) = TableOf(v[2], v[3])
<1>1. v # None /\ v # Nil /\ ~Is("bool", v) /\ Is("OCITable", v)
  BY TagsOfNone DEF IsTable, Is
<1> QED BY <1>1 DEF Sent3, EncodeField, AsksForNil

\* A list of dicts is sent as a table.
LEMMA RowsSent ==
  ASSUME NEW v, NEW spec, spec.kind = "LIST", spec.alias \in TableKeys, Is("list", v),
            v[2] # <<>>,
         Sequence(v[2], Len(v[2])), AreRows(v[2])
  PROVE  Sent3(v, spec) = TableOf(Headings(v[2]), CellsOf(v[2]))
<1>1. v # None /\ v # Nil /\ ~Is("bool", v) /\ ~Is("OCITable", v)
  BY TagsOfNone DEF Is
<1>2. Len(v[2]) # 0 /\ DOMAIN v[2] = 1..Len(v[2]) /\ 1 \in DOMAIN v[2]
  BY SequenceLen DEF Sequence
<1>3. \A i \in DOMAIN v[2] : Is("dict", v[2][i]) /\ Keys(v[2][i]) = Keys(v[2][1])
  BY <1>2 DEF AreRows, Keys
<1>4. TableShaped(v[2], spec)
  BY <1>3 DEF TableShaped
<1>5. DictTable(v[2]) = TableOf(Headings(v[2]), CellsOf(v[2]))
  BY <1>2, DictsSent
<1> QED BY <1>1, <1>4, <1>5 DEF Sent3, EncodeField, EncodeList, AsksForNil

\* An element that only carries an attribute.
LEMMA MarkParsed ==
  ASSUME NEW mark \in Marks, NEW t
  PROVE  LET x == Parsed3(Entry(mark, Str(t)))
         IN  Is("dict", x) /\ Keys(x) = {mark}
<1> DEFINE e == Entry(mark, Str(t))
           X == [k \in Keys(e) |-> Map(ThroughXml1, AsList(e[2][k]))]
<1>1. Is("dict", e) /\ Keys(e) = {mark} /\ e[2][mark] = Str(t)
  BY EntryParts
<1> HIDE DEF e
<1>2. ThroughXml2(e) = XmlNode(e, X)
  BY DEF ThroughXml2
<1> HIDE DEF X
<1>3. e[2][mark] # List(<<>>)
  BY <1>1, TextIsLeaf
<1>4. mark \in Keys(e) \cap Marks
  BY <1>1
<1>5. XmlNode(e, X) # None
  BY <1>1, <1>3, <1>4, XmlDict
<1>6. Is("dict", XmlNode(e, X)) /\ Keys(XmlNode(e, X)) = {mark}
  BY <1>1, <1>3, <1>4, <1>5, XmlDict
<1>7. Parsed3(e) = ThroughXml2(e)
  BY <1>1, DictTag, HeldParsed
<1> QED BY <1>2, <1>6, <1>7 DEF e

\* It stays a dict when it is cleaned.
LEMMA MarkCleaned ==
  ASSUME NEW x, NEW mark \in Marks, Is("dict", x), Keys(x) = {mark}, NEW key
  PROVE  Is("dict", Cleaned3(key, x))
<1>1. Cleaned3(key, x) = Clean2(key, x)
  BY DictTag, HeldCleaned
<1>2. "#text" \notin Keys(x) /\ ~({"colHeading", "row"} \subseteq Keys(x))
  BY DEF Marks
<1>3. \A inner : CleanNode(key, x, inner) = CleanDict(x, inner)
  BY <1>2 DEF CleanNode
<1>4. \A inner : Is("dict", CleanDict(x, inner))
  BY DEF CleanDict, Is, Dict
<1> QED BY <1>1, <1>3, <1>4 DEF Clean2

\* An instance of OCINil is sent as the mark of nil, ...
LEMMA NilSent == \A spec : Sent3(Nil, spec) = Entry("@C:nil", Str("true"))
<1>1. Nil # None
  BY DEF Nil, None
<1> QED BY <1>1 DEF Sent3, EncodeField, AsksForNil, NilDict

\* ... the class OCINil as an element that has a type, or as itself.
LEMMA NilClassSent ==
  ASSUME NEW spec
  PROVE  /\ spec.kind = "OBJECT" => Sent3(NilClass, spec) = Entry("@xsi:type", Str("type"))
         /\ spec.kind = "SCALAR" => Sent3(NilClass, spec) = NilClass
<1>1. Encode2(NilClass, spec.subtype) = Entry("@xsi:type", Str("type"))
  BY DEF Encode2, EncodeObject
<1>2. NilClass # None /\ NilClass # Nil /\ ~Is("bool", NilClass) /\ ~Is("OCITable", NilClass)
  BY DEF NilClass, None, Nil, Is
<1>3. spec.kind = "SCALAR" => Sent3(NilClass, spec) = NilClass
  BY <1>2 DEF Sent3, EncodeField, AsksForNil
<1> QED BY <1>1, <1>3, HeldSent

\* A table is one dict on the wire.
LEMMA TableWay ==
  ASSUME NEW H, NEW R, TextTable(H, R), NEW x, x = ThroughXml2(TableOf(H, R)), NEW key
  PROVE  Parsed3(TableOf(H, R)) = x /\ NoNil(x) /\ ~Is("list", x)
            /\ Cleaned3(key, x) = Clean2(key, x)
<1>1. Parsed3(TableOf(H, R)) = x
  BY TableParts, DictTag, HeldParsed
<1>2. x # None => Is("dict", x) /\ "@C:nil" \notin Keys(x)
  BY TableParsed DEF ParsedTable, TableCols
<1>3. ~Is("list", x)
  BY <1>2, DictTag, NoneIsLeaf DEF Leaf
<1>4. NoNil(x)
  BY <1>2, NoneIsLeaf DEF Leaf, NoNil
<1> QED BY <1>1, <1>3, <1>4, HeldCleaned

\* A list without items leaves no element, so it may as well be left out.
LEMMA EmptiesLost ==
  ASSUME NEW lists, DOMAIN lists \cap Marks = {}, NEW X, NEW Y,
         NEW d, Is("dict", d), Keys(d) = DOMAIN lists,
         \A k \in DOMAIN lists :
            IF lists[k] = List(<<>>) THEN XmlChild(d[2][k], X[k]) = List(<<>>)
            ELSE XmlChild(lists[k], Y[k]) = XmlChild(d[2][k], X[k])
  PROVE  XmlNode(NonEmpty(lists), Y) = XmlNode(d, X)
<1> DEFINE e == NonEmpty(lists)
           S == {j \in DOMAIN lists : lists[j] # List(<<>>)}
           f == [k \in S |-> lists[k]]
<1>1. Is("dict", e) /\ Keys(e) = S /\ \A k \in S : e[2][k] = lists[k]
  <2>1. e = Dict(f) /\ DOMAIN f = S /\ \A k \in S : f[k] = lists[k]
    BY DEF NonEmpty
  <2> HIDE DEF e, f, S
  <2> QED BY <2>1, DictParts
<1> HIDE DEF e, f
<1> DEFINE ce == XmlChildren(e, Y)
           cd == XmlChildren(d, X)
<1>2. /\ DOMAIN ce = S /\ DOMAIN cd = DOMAIN lists
      /\ \A k \in S : ce[k] = cd[k]
      /\ \A k \in DOMAIN lists \ S : cd[k] = List(<<>>)
  <2>1. \A k \in DOMAIN lists : k \notin DOMAIN AttributeNames
    BY AttributeKeys
  <2> QED BY <1>1, <2>1 DEF XmlChildren
<1> HIDE DEF ce, cd
<1> DEFINE T == {k \in DOMAIN cd : cd[k] # List(<<>>)}
<1>3. T = {k \in DOMAIN ce : ce[k] # List(<<>>)}
  BY <1>2
<1>4. [k \in T |-> ce[k]] = [k \in T |-> cd[k]]
  BY <1>2, <1>3
<1>5. XmlElement(ce) = XmlElement(cd)
  BY <1>3, <1>4 DEF XmlElement
<1> QED BY <1>1, <1>5 DEF XmlNode, ce, cd, e

\* A row that is encoded by its schema goes through the library as any other.
LEMMA RowEncoded ==
  ASSUME NEW cells
  PROVE  ThroughXml1(NonEmpty([col |-> List(cells)])) = XmlRow(cells)
<1> DEFINE lists == [col |-> List(cells)]
           d == RowDict(cells)
           e == NonEmpty(lists)
           X == [k \in Keys(d) |-> Map(XmlText, AsList(d[2][k]))]
           Y == [k \in Keys(e) |-> Map(XmlText, AsList(e[2][k]))]
           S == {j \in DOMAIN lists : lists[j] # List(<<>>)}
           f == [k \in S |-> lists[k]]
<1>1. Is("dict", d) /\ Keys(d) = {"col"} /\ d[2]["col"] = List(cells)
  BY EntryParts DEF RowDict
<1>2. DOMAIN lists = {"col"} /\ lists["col"] = List(cells)
  OBVIOUS
<1> HIDE DEF lists, d
<1>3. Keys(e) = S /\ \A k \in S : e[2][k] = lists[k]
  <2>1. e = Dict(f) /\ DOMAIN f = S /\ \A k \in S : f[k] = lists[k]
    BY DEF NonEmpty
  <2> HIDE DEF e, f, S
  <2> QED BY <2>1, DictParts
<1>4. X["col"] = Map(XmlText, AsList(List(cells)))
  BY <1>1
<1>5. List(cells) # List(<<>>) => Y["col"] = Map(XmlText, AsList(List(cells)))
  BY <1>2, <1>3
<1>6. List(cells) = List(<<>>) => XmlChild(d[2]["col"], X["col"]) = List(<<>>)
  <2>1. Map(XmlText, AsList(List(<<>>))) = <<>>
    BY ListTag DEF AsList, Map
  <2> QED BY <1>1, <1>4, <2>1, ListParsed, ElementsOfNone
<1> HIDE DEF X, Y
<1>7. XmlNode(e, Y) = XmlNode(d, X)
  <2> HIDE DEF e
  <2>1. \A k \in DOMAIN lists :
           IF lists[k] = List(<<>>) THEN XmlChild(d[2][k], X[k]) = List(<<>>)
           ELSE XmlChild(lists[k], Y[k]) = XmlChild(d[2][k], X[k])
    BY <1>1, <1>2, <1>4, <1>5, <1>6
  <2>2. DOMAIN lists \cap Marks = {} /\ Keys(d) = DOMAIN lists
    BY <1>1, <1>2, ColsPlain
  <2> QED BY <1>1, <2>1, <2>2, EmptiesLost DEF e
<1> QED BY <1>7 DEF ThroughXml1, XmlRow, X, Y, d, e, lists

\* So does the table.
LEMMA TableEncoded ==
  ASSUME NEW v, Is("OCITable", v)
  PROVE  ThroughXml2(EncodeTable(v)) = ThroughXml2(TableOf(v[2], v[3]))
<1> DEFINE H == v[2]
           R == v[3]
           encoded == [i \in DOMAIN R |-> NonEmpty([col |-> List(R[i])])]
           rows == [i \in DOMAIN R |-> RowDict(R[i])]
           lists == [colHeading |-> List(H), row |-> List(encoded)]
           d == TableOf(H, R)
           e == NonEmpty(lists)
           X == [k \in Keys(d) |-> Map(ThroughXml1, AsList(d[2][k]))]
           Y == [k \in Keys(e) |-> Map(ThroughXml1, AsList(e[2][k]))]
           S == {j \in DOMAIN lists : lists[j] # List(<<>>)}
           f == [k \in S |-> lists[k]]
<1>1. /\ Is("dict", d) /\ Keys(d) = TableCols
      /\ d[2]["colHeading"] = List(H) /\ d[2]["row"] = List(rows)
  BY TableParts
<1>2. EncodeTable(v) = e
  BY DEF EncodeTable, Map
<1>3. Map(ThroughXml1, encoded) = Map(ThroughXml1, rows)
  <2>1. \A i \in DOMAIN R : ThroughXml1(encoded[i]) = ThroughXml1(rows[i])
    BY RowEncoded DEF XmlRow
  <2>2. DOMAIN encoded = DOMAIN R /\ DOMAIN rows = DOMAIN R
    OBVIOUS
  <2> HIDE DEF encoded, rows
  <2> QED BY <2>1, <2>2 DEF Map
<1>4. encoded = <<>> => rows = <<>>
  <2>1. DOMAIN encoded = DOMAIN R /\ DOMAIN rows = DOMAIN R /\ rows = [i \in DOMAIN R |-> rows[i]]
    OBVIOUS
  <2>2. <<>> = [i \in {} |-> rows[i]] /\ DOMAIN <<>> = {}
    OBVIOUS
  <2> HIDE DEF encoded, rows
  <2> QED BY <2>1, <2>2
<1>5. DOMAIN lists = TableCols /\ lists["colHeading"] = List(H) /\ lists["row"] = List(encoded)
  BY DEF TableCols
<1> HIDE DEF lists, d, encoded, rows, H
<1>6. Keys(e) = S /\ \A k \in S : e[2][k] = lists[k]
  <2>1. e = Dict(f) /\ DOMAIN f = S /\ \A k \in S : f[k] = lists[k]
    BY DEF NonEmpty
  <2> HIDE DEF e, f, S
  <2> QED BY <2>1, DictParts
<1>7. \A s : AsList(List(s)) = s
  BY ListTag DEF AsList
<1>8. /\ X["colHeading"] = Map(ThroughXml1, H) /\ X["row"] = Map(ThroughXml1, rows)
      /\ List(H) # List(<<>>) => Y["colHeading"] = Map(ThroughXml1, H)
      /\ List(encoded) # List(<<>>) => Y["row"] = Map(ThroughXml1, encoded)
  BY <1>1, <1>5, <1>6, <1>7 DEF TableCols
<1>9. List(H) = List(<<>>) => XmlChild(d[2]["colHeading"], X["colHeading"]) = List(<<>>)
  <2>1. List(H) = List(<<>>) => H = <<>>
    BY ListTag
  <2>2. Map(ThroughXml1, <<>>) = <<>>
    BY DEF Map
  <2> QED BY <1>1, <1>8, <2>1, <2>2, ListParsed, ElementsOfNone
<1>10. List(encoded) = List(<<>>) => XmlChild(d[2]["row"], X["row"]) = List(<<>>)
  <2>1. List(encoded) = List(<<>>) => rows = <<>>
    BY <1>4, ListTag
  <2>2. Map(ThroughXml1, <<>>) = <<>>
    BY DEF Map
  <2> QED BY <1>1, <1>8, <2>1, <2>2, ListParsed, ElementsOfNone
<1>11. /\ List(H) # List(<<>>) =>
             XmlChild(lists["colHeading"], Y["colHeading"])
                = XmlChild(d[2]["colHeading"], X["colHeading"])
       /\ List(encoded) # List(<<>>) =>
             XmlChild(lists["row"], Y["row"]) = XmlChild(d[2]["row"], X["row"])
  BY <1>1, <1>3, <1>5, <1>8, ListParsed
<1> HIDE DEF X, Y, S, f
<1>12. \A k \in DOMAIN lists :
          IF lists[k] = List(<<>>) THEN XmlChild(d[2][k], X[k]) = List(<<>>)
          ELSE XmlChild(lists[k], Y[k]) = XmlChild(d[2][k], X[k])
  BY <1>5, <1>9, <1>10, <1>11 DEF TableCols
<1>13. XmlNode(e, Y) = XmlNode(d, X)
  <2> HIDE DEF e
  <2>1. DOMAIN lists \cap Marks = {} /\ Keys(d) = DOMAIN lists
    BY <1>1, <1>5, ColsPlain
  <2> QED BY <1>1, <1>12, <2>1, EmptiesLost DEF e
<1> QED BY <1>2, <1>13 DEF ThroughXml2, X, Y, d, H

\* The tables of a list are sent as y, parsed as xs.
TablesWay(v, n, spec, y, xs) ==
    /\ TableList(v, n, spec)
    /\ y = [i \in 1..n |-> EncodeTable(v[2][i])]
    /\ xs = [i \in 1..n |-> ThroughXml2(y[i])]

\* The list is sent as the dicts of its tables, ...
LEMMA TablesSent ==
  ASSUME NEW v, NEW n, n # 0, NEW spec, NEW y, NEW xs, TablesWay(v, n, spec, y, xs)
  PROVE  Sent3(v, spec) = List(y)
<1>1. /\ Is("list", v) /\ v[2] # <<>> /\ DOMAIN v[2] = 1..n /\ AsList(v) = v[2]
      /\ spec.kind = "LIST" /\ n \in Nat
  BY SequenceLen DEF TablesWay, TableList, Sequence, AsList
<1>2. \A i \in 1..n : Is("OCITable", v[2][i]) /\ ~Is("bool", v[2][i]) /\ ~Is("dict", v[2][i])
  BY DEF TablesWay, TableList, IsTable, Is
<1>3. ~TableShaped(v[2], spec)
  <2>1. 1 \in DOMAIN v[2]
    BY <1>1
  <2> QED BY <1>1, <1>2, <2>1 DEF TableShaped
<1>4. SentAs(v[2], y, y)
  BY <1>1, <1>2 DEF SentAs, TablesWay, Is
<1>5. EncodeField(v, spec, y) = List(y)
  BY <1>1, <1>3, <1>4, EncodeItems
<1>6. \A i \in 1..n : EncodePart(v[2][i], spec.subtype) = EncodeTable(v[2][i])
  BY <1>2, ObjectPart
<1>7. [i \in DOMAIN AsList(v) |-> EncodePart(AsList(v)[i], spec.subtype)] = y
  BY <1>1, <1>6 DEF TablesWay
<1> QED BY <1>5, <1>7 DEF Sent3

\* ... and parsed as what comes back of a table of a field.
LEMMA TablesParsed ==
  ASSUME NEW v, NEW n, n # 0, NEW spec, NEW y, NEW xs, TablesWay(v, n, spec, y, xs)
  PROVE  /\ Flat(xs, n) /\ Parsed3(List(y)) = Elements(xs)
         /\ \A i \in 1..n : NoNil(xs[i]) /\ xs[i] = ThroughXml2(TableOf(v[2][i][2], v[2][i][3]))
<1>1. n \in Nat /\ DOMAIN y = 1..n /\ AsList(List(y)) = y
  BY ListTag DEF TablesWay, TableList, Sequence, AsList
<1>2. ASSUME NEW i \in 1..n
      PROVE  /\ NoNil(xs[i]) /\ ~Is("list", xs[i])
             /\ xs[i] = ThroughXml2(TableOf(v[2][i][2], v[2][i][3]))
  <2>1. Is("OCITable", v[2][i]) /\ TextTable(v[2][i][2], v[2][i][3])
    BY TableFits DEF TablesWay, TableList
  <2>2. xs[i] = ThroughXml2(TableOf(v[2][i][2], v[2][i][3]))
    BY <2>1, TableEncoded DEF TablesWay
  <2> QED BY <2>1, <2>2, TableWay
<1>3. Flat(xs, n)
  BY <1>1, <1>2 DEF Flat, Sequence, TablesWay
<1>4. Map(ThroughXml2, y) = xs
  BY <1>1 DEF Map, TablesWay
<1>5. Parsed3(List(y)) = Elements(xs)
  BY <1>1, <1>4, ListParsed DEF Parsed3
<1> QED BY <1>2, <1>3, <1>5

\* What holds for each of the elements holds for a lone one.
LEMMA ElementsKept ==
  ASSUME NEW xs, NEW n, n # 0, Flat(xs, n)
  PROVE  /\ (\A i \in 1..n : NoNil(xs[i])) => NoNil(Elements(xs))
         /\ (\A i \in 1..n : xs[i] # AttributeError) => ~IsError(Elements(xs))
<1>1. Len(xs) = n /\ n \in Nat /\ DOMAIN xs = 1..n /\ \A i \in 1..n : ~Is("list", xs[i])
  BY SequenceLen DEF Flat, Sequence
<1>2. CASE n = 1
  BY <1>1, <1>2 DEF Elements, IsError
<1>3. CASE n # 1
  <2>1. Elements(xs) = List(xs)
    BY <1>1, <1>3 DEF Elements
  <2> QED BY <1>1, <2>1, ListTag DEF NoNil, IsError
<1> QED BY <1>2, <1>3

\* No field but one that asks for it is marked as nil.
LEMMA FieldParsed ==
  ASSUME NEW v, NEW spec \in Specs, FieldOf(v, spec), v \notin {Nil, NilClass},
         Sent3(v, spec) # None
  PROVE  NoNil(Parsed3(Sent3(v, spec)))
<1>1. v # None
  BY LeftOut
<1>2. Fits(IsObject2, v, spec)
  BY <1>1 DEF FieldOf
<1>3. CASE spec.kind = "SCALAR" /\ FitsScalar(v, spec)
  <2>1. Sent3(v, spec) = Written(v)
    BY <1>3, ScalarSent DEF Sent3
  <2>2. Leaf(Written(v)) /\ Leaf(XmlText(Written(v)))
    BY <1>3, WrittenXml
  <2> QED BY <2>1, <2>2, LeafXml DEF Leaf, NoNil
<1>4. CASE spec.kind = "OBJECT" /\ spec.subtype \in Profile /\ spec.alias \notin TableKeys
             /\ IsObject2(v, spec.subtype)
  <2> DEFINE e == Encode2(v, spec.subtype)
             x == ThroughXml2(e)
  <2>1. Sent3(v, spec) = e
    BY <1>4, HeldSent DEF IsObject2, ObjectOf
  <2>2. Is("dict", e) /\ (x # None => Is("dict", x) /\ "@C:nil" \notin Keys(x))
    BY <1>4, DeviceDict
  <2> HIDE DEF e
  <2>3. Parsed3(e) = x
    BY <2>2, DictTag, HeldParsed
  <2> QED BY <2>1, <2>2, <2>3, NoneIsLeaf DEF Leaf, NoNil
<1>5. CASE Plain(v, Len(v[2]), spec)
  <2> DEFINE n == Len(v[2])
             xs == [i \in 1..n |-> XmlText(v[2][i])]
  <2>1. n # 0
    BY <1>5, EmptyList, SequenceLen DEF Plain, Sent3
  <2>2. Sent3(v, spec) = v
    BY <1>5, <2>1, PlainSent
  <2>3. Flat(xs, n) /\ (\A i \in 1..n : Leaf(xs[i])) /\ Parsed3(v) = Elements(xs)
    BY <1>5, <2>1, PlainParsed
  <2> HIDE DEF xs
  <2>4. \A i \in 1..n : NoNil(xs[i])
    BY <2>3 DEF Leaf, NoNil
  <2> QED BY <2>1, <2>2, <2>3, <2>4, ElementsKept
<1>6. CASE Devices(v, Len(v[2]), spec)
  <2> DEFINE n == Len(v[2])
             y == [i \in 1..n |-> Encode2(v[2][i], spec.subtype)]
             xs == [i \in 1..n |-> ThroughXml2(y[i])]
  <2>1. n # 0
    BY <1>6, EmptyList, SequenceLen DEF Devices, Sent3
  <2>2. DevicesWay(v, n, spec, y, xs)
    BY <1>6 DEF DevicesWay
  <2> HIDE DEF n, y, xs
  <2>3. Sent3(v, spec) = List(y)
    BY <2>1, <2>2, DevicesSent
  <2>4. /\ Flat(xs, n) /\ Parsed3(List(y)) = Elements(xs)
        /\ \A i \in 1..n : xs[i] # None => Is("dict", xs[i]) /\ "@C:nil" \notin Keys(xs[i])
    BY <2>1, <2>2, DevicesParsed
  <2>5. \A i \in 1..n : NoNil(xs[i])
    BY <2>4, NoneIsLeaf DEF Leaf, NoNil
  <2> QED BY <2>1, <2>3, <2>4, <2>5, ElementsKept
<1>7. CASE spec.kind = "LIST" /\ spec.alias \in TableKeys /\ Is("list", v)
             /\ Sequence(v[2], Len(v[2])) /\ AreRows(v[2])
  <2>1. v[2] # <<>> /\ Len(v[2]) # 0
    BY <1>7, EmptyList, SequenceLen DEF Sent3
  <2>2. Sent3(v, spec) = TableOf(Headings(v[2]), CellsOf(v[2]))
    BY <1>7, <2>1, RowsSent
  <2>3. TextTable(Headings(v[2]), CellsOf(v[2]))
    BY <1>7, <2>1, DictsSent
  <2> QED BY <2>2, <2>3, TableWay
<1>8. CASE spec.kind = "TABLE" /\ IsTable(v)
  BY <1>8, TableFits, TableSent, TableWay
<1>9. CASE TableList(v, Len(v[2]), spec)
  <2> DEFINE n == Len(v[2])
             y == [i \in 1..n |-> EncodeTable(v[2][i])]
             xs == [i \in 1..n |-> ThroughXml2(y[i])]
  <2>1. n # 0
    BY <1>9, EmptyList, SequenceLen DEF TableList, Sent3
  <2>2. TablesWay(v, n, spec, y, xs)
    BY <1>9 DEF TablesWay
  <2> HIDE DEF n, y, xs
  <2>3. Sent3(v, spec) = List(y)
    BY <2>1, <2>2, TablesSent
  <2>4. /\ Flat(xs, n) /\ Parsed3(List(y)) = Elements(xs)
        /\ \A i \in 1..n : NoNil(xs[i])
    BY <2>1, <2>2, TablesParsed
  <2> QED BY <2>1, <2>3, <2>4, ElementsKept
<1> QED BY <1>2, <1>3, <1>4, <1>5, <1>6, <1>7, <1>8, <1>9, FieldKinds

\* A dict is read as an object.
LEMMA ObjectRead ==
  ASSUME NEW c, NEW declared
  PROVE  Decode2(c, declared) # AttributeError /\ Is("obj", Decode2(c, declared))
<1>1. \A class, f : New(class, f)[1] = "obj"
  BY DEF New, Obj
<1> QED BY <1>1, TagsOfNone DEF Decode2, DecodeObject, Is

\* A field that holds no table is read without an error.
LEMMA ReadKept ==
  ASSUME NEW c, c # AttributeError, NEW spec, spec.kind # "TABLE"
  PROVE  Read3(c, spec) # AttributeError
<1>1. CASE spec.kind = "OBJECT" /\ Is("dict", c)
  <2>1. DecodeTablePart(c) # AttributeError
    BY TableTag DEF DecodeTablePart
  <2> QED BY <1>1, <2>1, HeldRead, ObjectRead DEF DecodePart
<1>2. CASE spec.kind = "LIST"
  <2>1. \E s : Read3(c, spec) = List(s)
    BY <1>2 DEF Read3, DecodeField
  <2> QED BY <2>1, ListTag
<1>3. CASE spec.kind # "LIST" /\ ~(spec.kind = "OBJECT" /\ Is("dict", c))
  <2>1. Read3(c, spec) = Coerce(c, spec.subtype)
    BY <1>3 DEF Read3, DecodeField
  <2>2. \A b : Bool(b) # AttributeError /\ Num(b) # AttributeError
    BY DEF Bool, Num, AttributeError
  <2>3. Coerce(c, spec.subtype) # AttributeError
    BY <2>2 DEF Coerce
  <2> QED BY <2>1, <2>3
<1> QED BY <1>1, <1>2, <1>3

\* A text is no error.
LEMMA TextKept == \A t : Str(t) # AttributeError /\ ~Is("list", Str(t))
  BY DEF Str, AttributeError, Is

\* What is neither an error nor a list has none.
LEMMA NoError == \A c : c # AttributeError /\ ~Is("list", c) => ~IsError(c)
  BY DEF IsError

\* No table of a field has a row without cells.
NoEmptyRow(v) ==
    /\ ~HasEmptyRow(v)
    /\ Is("list", v) => \A i \in DOMAIN v[2] : ~HasEmptyRow(v[2][i])

\* The rows of a table that has none all have cells.
LEMMA RowsHaveCells ==
  ASSUME NEW v, IsTable(v), ~HasEmptyRow(v)
  PROVE  \A i \in 1..Len(v[3]) : Len(v[3][i]) # 0
<1>1. Is("OCITable", v) /\ TextTable(v[2], v[3])
  BY TableFits
<1>2. DOMAIN v[3] = 1..Len(v[3]) /\ \A i \in 1..Len(v[3]) : Sequence(v[3][i], Len(v[3][i]))
  BY <1>1, SequenceLen DEF TextTable, TextSeq
<1>3. \A i \in DOMAIN v[3] : v[3][i] # <<>>
  BY <1>1 DEF HasEmptyRow, ToSet
<1> QED BY <1>2, <1>3, SequenceLen

\* A table whose rows all have cells is read without an error.
LEMMA TableNotRaised ==
  ASSUME NEW v, NEW spec, spec.kind = "TABLE", IsTable(v), NoEmptyRow(v)
  PROVE  /\ ~IsError(Cleaned3(spec.alias, Parsed3(Sent3(v, spec))))
         /\ Came3(v, spec) # AttributeError
<1> DEFINE x == ThroughXml2(TableOf(v[2], v[3]))
           c == Clean2(spec.alias, x)
<1>1. Is("OCITable", v) /\ TextTable(v[2], v[3])
  BY TableFits
<1>2. \A i \in 1..Len(v[3]) : Len(v[3][i]) # 0
  BY RowsHaveCells DEF NoEmptyRow
<1>3. c # AttributeError /\ ~Is("list", c) /\ DecodeTable(c) # AttributeError
  BY <1>1, <1>2, TableKept
<1>4. Parsed3(Sent3(v, spec)) = x /\ Cleaned3(spec.alias, x) = c
  BY <1>1, TableWay, TableSent
<1> HIDE DEF c, x
<1>5. Read3(c, spec) = DecodeTable(c)
  BY DEF Read3, DecodeField
<1> QED BY <1>3, <1>4, <1>5, NoError DEF Came3

\* So are the tables of a list.
LEMMA TablesNotRaised ==
  ASSUME NEW v, NEW n, n # 0, NEW spec, TableList(v, n, spec), NoEmptyRow(v)
  PROVE  ~IsError(Cleaned3(spec.alias, Parsed3(Sent3(v, spec))))
<1> DEFINE y == [i \in 1..n |-> EncodeTable(v[2][i])]
           xs == [i \in 1..n |-> ThroughXml2(y[i])]
           cs == [i \in 1..n |-> Clean2(spec.alias, xs[i])]
<1>1. TablesWay(v, n, spec, y, xs)
  BY DEF TablesWay
<1> HIDE DEF y, xs
<1>2. Sent3(v, spec) = List(y)
  BY <1>1, TablesSent
<1>3. /\ Flat(xs, n) /\ Parsed3(List(y)) = Elements(xs)
      /\ \A i \in 1..n : xs[i] = ThroughXml2(TableOf(v[2][i][2], v[2][i][3]))
  BY <1>1, TablesParsed
<1>4. ASSUME NEW i \in 1..n PROVE cs[i] # AttributeError /\ ~Is("list", cs[i])
  <2>1. IsTable(v[2][i]) /\ ~HasEmptyRow(v[2][i])
    BY SequenceLen DEF TableList, NoEmptyRow
  <2>2. TextTable(v[2][i][2], v[2][i][3]) /\ \A j \in 1..Len(v[2][i][3]) : Len(v[2][i][3][j]) # 0
    BY <2>1, TableFits, RowsHaveCells
  <2> QED BY <1>3, <2>2, TableKept
<1>5. Flat(cs, n)
  BY <1>3, <1>4 DEF Flat, Sequence
<1>6. Cleaned3(spec.alias, Elements(xs)) = Elements(cs)
  BY <1>3, ItemsCleaned
<1> HIDE DEF cs
<1>7. ~IsError(Elements(cs))
  BY <1>4, <1>5, ElementsKept
<1> QED BY <1>2, <1>3, <1>6, <1>7

\* So is the table that a list of dicts is sent as.
LEMMA RowsNotRaised ==
  ASSUME NEW v, NEW spec, spec.kind = "LIST", spec.alias \in TableKeys, Is("list", v),
            v[2] # <<>>,
         Sequence(v[2], Len(v[2])), AreRows(v[2])
  PROVE  ~IsError(Cleaned3(spec.alias, Parsed3(Sent3(v, spec))))
<1> DEFINE H == Headings(v[2])
           R == CellsOf(v[2])
           m == Cardinality(Keys(v[2][1]))
           x == ThroughXml2(TableOf(H, R))
<1>1. Len(v[2]) # 0
  BY SequenceLen
<1>2. Sent3(v, spec) = TableOf(H, R)
  BY RowsSent
<1>3. TextTable(H, R) /\ Len(H) = m /\ Len(R) = Len(v[2])
         /\ \A i \in 1..Len(v[2]) : Len(R[i]) = m
  BY <1>1, DictsSent
<1> HIDE DEF H, R, m
<1>4. Len(H) = 0 \/ \A i \in 1..Len(R) : Len(R[i]) # 0
  BY <1>3
<1>5. Clean2(spec.alias, x) # AttributeError /\ ~Is("list", Clean2(spec.alias, x))
  BY <1>3, <1>4, TableKept
<1>6. Parsed3(TableOf(H, R)) = x /\ Cleaned3(spec.alias, x) = Clean2(spec.alias, x)
  BY <1>3, TableWay
<1> QED BY <1>2, <1>5, <1>6, NoError

\* No field without such a row raises, neither when it is cleaned nor when it is
\* read.
LEMMA FieldKept ==
  ASSUME NEW v, NEW spec \in Specs, FieldOf(v, spec), Sent3(v, spec) # None, NoEmptyRow(v)
  PROVE  /\ ~IsError(Cleaned3(spec.alias, Parsed3(Sent3(v, spec))))
         /\ Came3(v, spec) # AttributeError
<1> DEFINE c == Cleaned3(spec.alias, Parsed3(Sent3(v, spec)))
<1>1. ~IsError(c) /\ spec.kind # "TABLE" => Came3(v, spec) # AttributeError
  BY ReadKept DEF Came3, IsError
<1>2. CASE v \in {Nil, NilClass}
  <2>1. spec.kind \in {"SCALAR", "OBJECT"}
    <3>1. v # None
      BY <1>2, TagsOfNone
    <3>2. CASE Fits(IsObject2, v, spec)
      <4>1. ~Is("list", v) /\ ~Is("OCITable", v)
        BY <1>2, TagsOfNone DEF Is
      <4> QED BY <3>2, <4>1, FieldKinds DEF Plain, Devices, TableList, IsTable
    <3> QED BY <3>1, <3>2 DEF FieldOf
  <2>2. CASE v = Nil \/ spec.kind = "OBJECT"
    <3>1. PICK mark, t : mark \in Marks /\ Sent3(v, spec) = Entry(mark, Str(t))
      BY <1>2, <2>2, NilSent, NilClassSent DEF Marks
    <3> DEFINE x == Parsed3(Entry(mark, Str(t)))
    <3>2. Is("dict", x) /\ Keys(x) = {mark}
      BY <3>1, MarkParsed
    <3> HIDE DEF x
    <3>3. Is("dict", Cleaned3(spec.alias, x))
      BY <3>1, <3>2, MarkCleaned
    <3>4. ~IsError(c)
      BY <3>1, <3>3, DictTag, NoError DEF x
    <3> QED BY <1>1, <2>1, <3>4
  <2>3. CASE v = NilClass /\ spec.kind = "SCALAR"
    <3>1. Sent3(v, spec) = NilClass
      BY <2>3, NilClassSent
    <3>2. Leaf(NilClass) /\ NilClass # None
      BY DEF Leaf, Is, NilClass, None
    <3>3. XmlText(NilClass) = Str("<class OCINil>")
      BY TagsOfNone DEF XmlText, Is
    <3>4. c = Str("<class OCINil>")
      BY <3>1, <3>2, <3>3, LeafXml, LeafClean, TextIsLeaf, CleanOfText
    <3> QED BY <1>1, <2>1, <3>4, TextKept, NoError
  <2> QED BY <1>2, <2>1, <2>2, <2>3
<1>3. v # None
  BY LeftOut
<1>4. CASE spec.kind = "SCALAR" /\ FitsScalar(v, spec)
  <2>1. Sent3(v, spec) = Written(v)
    BY <1>4, ScalarSent DEF Sent3
  <2>2. Leaf(Written(v)) /\ Leaf(XmlText(Written(v)))
           /\ \E t : CleanText(XmlText(Written(v))) = Str(t)
    BY <1>4, WrittenXml
  <2>3. c = CleanText(XmlText(Written(v)))
    BY <2>1, <2>2, LeafXml, LeafClean
  <2> QED BY <1>1, <1>4, <2>2, <2>3, TextKept, NoError
<1>5. CASE spec.kind = "OBJECT" /\ spec.subtype \in Profile /\ spec.alias \notin TableKeys
             /\ IsObject2(v, spec.subtype)
  <2> DEFINE e == Encode2(v, spec.subtype)
             x == ThroughXml2(e)
  <2>1. Sent3(v, spec) = e
    BY <1>5, HeldSent DEF IsObject2, ObjectOf
  <2>2. Is("dict", e) /\ (x # None => Is("dict", x) /\ Is("dict", Clean2(spec.alias, x)))
    BY <1>5, DeviceDict
  <2> HIDE DEF e
  <2>3. Parsed3(e) = x
    BY <2>2, DictTag, HeldParsed
  <2> HIDE DEF x
  <2>4. CASE x = None
    <3>1. c = Str("")
      BY <2>1, <2>3, <2>4, NoneIsLeaf, LeafClean DEF CleanText
    <3> QED BY <1>1, <1>5, <3>1, TextKept, NoError
  <2>5. CASE x # None
    <3>1. c = Clean2(spec.alias, x)
      BY <2>1, <2>2, <2>3, <2>5, DictTag, HeldCleaned
    <3> QED BY <1>1, <1>5, <2>2, <2>5, <3>1, DictTag, NoError
  <2> QED BY <2>4, <2>5
<1>6. CASE Plain(v, Len(v[2]), spec)
  <2> DEFINE n == Len(v[2])
             xs == [i \in 1..n |-> XmlText(v[2][i])]
             cs == [i \in 1..n |-> CleanText(xs[i])]
  <2>1. n # 0
    BY <1>6, EmptyList, SequenceLen DEF Plain, Sent3
  <2>2. Sent3(v, spec) = v
    BY <1>6, <2>1, PlainSent
  <2>3. Flat(xs, n) /\ (\A i \in 1..n : Leaf(xs[i])) /\ Parsed3(v) = Elements(xs)
    BY <1>6, <2>1, PlainParsed
  <2>4. \A i \in 1..n : \E t : cs[i] = Str(t)
    BY <1>6, PlainItem, WrittenXml DEF Plain
  <2> HIDE DEF xs
  <2>5. Flat(cs, n) /\ Cleaned3(spec.alias, Elements(xs)) = Elements(cs)
    BY <2>1, <2>3, LeavesCleaned
  <2> HIDE DEF cs, n
  <2>6. ~IsError(Elements(cs))
    BY <2>1, <2>4, <2>5, TextKept, ElementsKept
  <2> QED BY <1>1, <1>6, <2>2, <2>3, <2>5, <2>6 DEF Plain
<1>7. CASE Devices(v, Len(v[2]), spec)
  <2> DEFINE n == Len(v[2])
             y == [i \in 1..n |-> Encode2(v[2][i], spec.subtype)]
             xs == [i \in 1..n |-> ThroughXml2(y[i])]
             cs == [i \in 1..n |-> Clean2(spec.alias, xs[i])]
  <2>1. n # 0
    BY <1>7, EmptyList, SequenceLen DEF Devices, Sent3
  <2>2. DevicesWay(v, n, spec, y, xs)
    BY <1>7 DEF DevicesWay
  <2> HIDE DEF n, y, xs
  <2>3. Sent3(v, spec) = List(y)
    BY <2>1, <2>2, DevicesSent
  <2>4. /\ Flat(xs, n) /\ Parsed3(List(y)) = Elements(xs)
        /\ \A i \in 1..n : xs[i] # None => Is("dict", Clean2(spec.alias, xs[i]))
    BY <2>1, <2>2, DevicesParsed
  <2>5. Clean2(spec.alias, None) = Str("")
    BY NoneIsLeaf, LeafClean DEF CleanText
  <2>6. \A i \in 1..n : cs[i] # AttributeError /\ ~Is("list", cs[i])
    BY <2>4, <2>5, DictTag, TextIsLeaf, TextKept DEF Leaf
  <2>7. Flat(cs, n)
    BY <2>4, <2>6 DEF Flat, Sequence
  <2>8. Cleaned3(spec.alias, Elements(xs)) = Elements(cs)
    BY <2>1, <2>4, ItemsCleaned
  <2> HIDE DEF cs
  <2>9. ~IsError(Elements(cs))
    BY <2>1, <2>6, <2>7, ElementsKept
  <2> QED BY <1>1, <1>7, <2>3, <2>4, <2>8, <2>9 DEF Devices
<1>8. CASE spec.kind = "LIST" /\ spec.alias \in TableKeys /\ Is("list", v)
             /\ Sequence(v[2], Len(v[2])) /\ AreRows(v[2])
  <2>1. v[2] # <<>>
    BY <1>8, EmptyList DEF Sent3
  <2>2. ~IsError(c)
    BY <1>8, <2>1, RowsNotRaised
  <2> QED BY <1>1, <1>8, <2>2
<1>9. CASE spec.kind = "TABLE" /\ IsTable(v)
  BY <1>9, TableNotRaised
<1>10. CASE TableList(v, Len(v[2]), spec)
  <2>1. Len(v[2]) # 0
    BY <1>10, EmptyList, SequenceLen DEF TableList, Sent3
  <2>2. ~IsError(c)
    BY <1>10, <2>1, TablesNotRaised
  <2> QED BY <1>1, <1>10, <2>2 DEF TableList
<1>11. CASE Fits(IsObject2, v, spec)
  BY <1>4, <1>5, <1>6, <1>7, <1>8, <1>9, <1>10, <1>11, FieldKinds
<1> QED BY <1>2, <1>3, <1>11 DEF FieldOf

\* An object comes back.
LEMMA HeldBack3 ==
  ASSUME NEW v, NEW spec, spec.kind = "OBJECT", spec.subtype \in Profile,
            spec.alias \notin TableKeys,
         IsObject2(v, spec.subtype), CarriedObject2(v, spec.subtype)
  PROVE  Back3Field(v, spec)
<1> DEFINE e == Encode2(v, spec.subtype)
           x == ThroughXml2(e)
           c == Clean2(spec.alias, x)
<1>1. Is("dict", e) /\ Is("dict", x) /\ Is("dict", c) /\ Decode2(c, spec.subtype) = v
  BY ObjectBack2
<1>2. Sent3(v, spec) = e
  BY HeldSent DEF IsObject2, ObjectOf
<1> HIDE DEF e
<1>3. Parsed3(e) = x
  BY <1>1, HeldParsed, DictTag
<1> HIDE DEF x
<1>4. Cleaned3(spec.alias, x) = c
  BY <1>1, HeldCleaned, DictTag
<1> HIDE DEF c
<1>5. spec.subtype # "OCITable"
  BY DEF Profile, Nested
<1>6. Read3(c, spec) = v
  BY <1>1, <1>5, HeldRead, ObjectPart
<1> QED BY <1>1, <1>2, <1>3, <1>4, <1>6, DictTag DEF Back3Field, Came3

\* A table that is carried comes through.
LEMMA TableComes ==
  ASSUME NEW v, NEW spec, IsTable(v), CarriedTable(v, spec)
  PROVE  ComesThrough(v[2], v[3], spec.alias)
<1> DEFINE H == v[2]
           R == v[3]
<1>1. TextTable(H, R)
  BY TableFits
<1>2. Sequence(H, Len(H)) /\ Sequence(R, Len(R))
         /\ \A i \in 1..Len(R) : Sequence(R[i], Len(R[i]))
  BY <1>1 DEF TextTable, TextSeq
<1>3. Len(H) # 0 /\ Stripped(H) /\ (spec.alias \in TableKeys => Filled(H))
  BY <1>2, SequenceLen DEF CarriedTable, CarriedCell, Stripped, Filled
<1>4. ASSUME NEW i \in 1..Len(R)
      PROVE  Len(R[i]) # 0 /\ Stripped(R[i]) /\ (spec.alias \in TableKeys => Filled(R[i]))
  <2>1. i \in DOMAIN R
    BY <1>2, SequenceLen
  <2>2. R[i] # <<>> /\ \A j \in DOMAIN R[i] : CarriedCell(R[i][j], spec)
    BY <2>1 DEF CarriedTable
  <2>3. Len(R[i]) # 0
    BY <1>2, <2>2, SequenceLen
  <2> QED BY <2>2, <2>3 DEF CarriedCell, Stripped, Filled
<1> QED BY <1>1, <1>3, <1>4 DEF ComesThrough

\* A table comes back.
LEMMA TableFieldBack ==
  ASSUME NEW v, NEW spec, spec.kind = "TABLE", IsTable(v), CarriedTable(v, spec)
  PROVE  Back3Field(v, spec)
<1> DEFINE H == v[2]
           R == v[3]
           x == ThroughXml2(TableOf(H, R))
           c == Clean2(spec.alias, x)
<1>1. v = Table(H, R) /\ TextTable(H, R) /\ ComesThrough(H, R, spec.alias)
  BY TableFits, TableComes
<1>2. DecodeTable(c) = v
  BY <1>1, TableBack
<1>3. /\ Sent3(v, spec) = TableOf(H, R) /\ Parsed3(TableOf(H, R)) = x /\ ~Is("list", x)
      /\ Cleaned3(spec.alias, x) = c
  BY <1>1, TableSent, TableWay
<1>4. TableOf(H, R) # None /\ x # List(<<>>)
  BY <1>3, TableParts, DictTag, ListTag
<1> HIDE DEF x, c, H, R
<1>5. Read3(c, spec) = DecodeTable(c)
  BY DEF Read3, DecodeField
<1> QED BY <1>2, <1>3, <1>4, <1>5 DEF Back3Field, Came3

\* A table of a list comes back, by its schema if it has not been decoded before.
LEMMA TablePartBack ==
  ASSUME NEW v, NEW spec, IsTable(v), CarriedTable(v, spec), spec.alias \in TableKeys,
         NEW c, c = Clean2(spec.alias, ThroughXml2(TableOf(v[2], v[3])))
  PROVE  IF Is("dict", c) THEN DecodeTablePart(c) = v ELSE c = v /\ ~Is("list", c) /\ ~Is("str", c)
<1> DEFINE H == v[2]
           R == v[3]
           x == ThroughXml2(TableOf(H, R))
<1>1. v = Table(H, R) /\ TextTable(H, R) /\ ComesThrough(H, R, spec.alias) /\ Len(H) # 0
  BY TableFits, TableComes DEF ComesThrough
<1>2. CASE Len(R) # 0
  BY <1>1, <1>2, TableEarly, TableTag
<1>3. CASE Len(R) = 0
  <2>1. ParsedTable(x, H, R)
    BY <1>1, TableArrives, TableParsed
  <2>2. CleanedTable(c, H, R)
    <3> HIDE DEF x
    <3>1. ~({"colHeading", "row"} \subseteq Keys(x))
      BY <1>3, <2>1 DEF ParsedTable
    <3> QED BY <1>1, <2>1, <3>1, TableCleaned DEF x
  <2>3. /\ Is("dict", c) /\ "colHeading" \in Keys(c) /\ "row" \notin Keys(c)
        /\ c[2]["colHeading"] = Elements(CleanTexts(XmlTexts(H)))
    BY <1>1, <1>3, <2>2 DEF CleanedTable
  <2>4. AsList(Elements(CleanTexts(XmlTexts(H)))) = H
    <3>1. TextSeq(H, Len(H))
      BY <1>1 DEF TextTable
    <3>2. Flat(CleanTexts(XmlTexts(H)), Len(H))
      BY <1>1, <3>1, TextsParsed, TextsCleaned
    <3>3. CleanTexts(XmlTexts(H)) = H
      BY <1>1, CellsBack
    <3> QED BY <1>1, <3>2, <3>3, Gathered
  <2>5. R = <<>>
    BY <1>1, <1>3, SequenceLen DEF TextTable
  <2>6. DecodeTablePart(c) = Table(H, <<>>)
    <3>1. DecodeTablePart(c) = Table(AsList(c[2]["colHeading"]), <<>>)
      BY <2>3 DEF DecodeTablePart, Map
    <3> QED BY <2>3, <2>4, <3>1
  <2> QED BY <1>1, <2>3, <2>5, <2>6
<1> QED BY <1>2, <1>3

\* So does the list.
LEMMA TablesBack ==
  ASSUME NEW v, NEW n, n # 0, NEW spec, TableList(v, n, spec),
         \A i \in 1..n : CarriedTable(v[2][i], spec)
  PROVE  Back3Field(v, spec)
<1> DEFINE y == [i \in 1..n |-> EncodeTable(v[2][i])]
           xs == [i \in 1..n |-> ThroughXml2(y[i])]
           cs == [i \in 1..n |-> Clean2(spec.alias, xs[i])]
           D == [i \in DOMAIN AsList(Elements(cs)) |-> DecodePart(AsList(Elements(cs))[i],
              spec.subtype)]
<1>1. TablesWay(v, n, spec, y, xs)
  BY DEF TablesWay
<1> HIDE DEF y, xs, cs
<1>2. Sent3(v, spec) = List(y)
  BY <1>1, TablesSent
<1>3. /\ Flat(xs, n) /\ Parsed3(List(y)) = Elements(xs)
      /\ \A i \in 1..n : xs[i] = ThroughXml2(TableOf(v[2][i][2], v[2][i][3]))
  BY <1>1, TablesParsed
<1>4. Cleaned3(spec.alias, Elements(xs)) = Elements(cs)
  BY <1>3, ItemsCleaned DEF cs
<1>5. /\ spec.alias \in TableKeys /\ spec.kind = "LIST" /\ spec.subtype = "OCITable"
      /\ v = List(v[2]) /\ Sequence(v[2], n) /\ n \in Nat
  BY DEF TableList, Sequence
<1>6. \A i \in 1..n : IF Is("dict", cs[i]) THEN DecodeTablePart(cs[i]) = v[2][i]
                       ELSE cs[i] = v[2][i] /\ ~Is("list", cs[i]) /\ ~Is("str", cs[i])
  <2> TAKE i \in 1..n
  <2>1. IsTable(v[2][i]) /\ CarriedTable(v[2][i], spec)
    BY DEF TableList
  <2>2. cs[i] = Clean2(spec.alias, ThroughXml2(TableOf(v[2][i][2], v[2][i][3])))
    BY <1>3 DEF cs
  <2> QED BY <1>5, <2>1, <2>2, TablePartBack
<1>7. Flat(cs, n)
  BY <1>5, <1>6, DictTag DEF Flat, Sequence, cs
<1>8. AsList(Elements(cs)) = cs /\ DOMAIN cs = 1..n
  BY <1>7, Gathered, SequenceLen DEF Flat
<1>9. \A i \in 1..n : D[i] = DecodeTablePart(cs[i])
  BY <1>5, <1>8, ObjectPart
<1> HIDE DEF D
<1>10. DecodeField(Elements(cs), spec, D) = List(v[2])
  <2>1. \A i \in 1..n : v[2][i] = IF Is("dict", cs[i]) THEN D[i]
           ELSE Coerce(cs[i], spec.subtype)
    BY <1>6, <1>9 DEF Coerce
  <2> QED BY <1>5, <1>7, <2>1, ListRead
<1>11. Read3(Elements(cs), spec) = v
  BY <1>5, <1>10 DEF Read3, D
<1>12. List(y) # None /\ Elements(xs) # List(<<>>)
  BY <1>3, Gathered, ListTag
<1> QED BY <1>2, <1>3, <1>4, <1>11, <1>12 DEF Back3Field, Came3
\* Every field that is carried comes back.
LEMMA FieldBack3 ==
  ASSUME NEW v, v # None, NEW spec \in Specs, FieldOf(v, spec), Carried(CarriedObject2, v, spec)
  PROVE  Back3Field(v, spec)
<1>1. v \notin {Nil, NilClass}
  <2>1. ASSUME v \in {Nil, NilClass} PROVE FALSE
    <3>1. ~Is("list", v) /\ ~Is("OCITable", v) /\ ~Is("obj", v)
      BY <2>1, TagsOfNone DEF Is
    <3> QED BY <2>1, <3>1 DEF Carried
  <2> QED BY <2>1
<1>2. Fits(IsObject2, v, spec)
  BY <1>1 DEF FieldOf
<1>3. CASE spec.kind = "SCALAR" /\ FitsScalar(v, spec)
  <2>1. CarriedText(v)
    <3>1. ~Is("list", v) /\ ~Is("OCITable", v) /\ ~Is("obj", v) => CarriedText(v)
      BY <1>1 DEF Carried, CarriedItem
    <3> QED BY <1>3, <3>1, CarriedScalar
  <2> QED BY <1>3, <2>1, ScalarBack DEF Back3Field
<1>4. CASE spec.kind = "OBJECT" /\ spec.subtype \in Profile /\ spec.alias \notin TableKeys
             /\ IsObject2(v, spec.subtype)
  <2>1. Is("obj", v)
    BY <1>4 DEF IsObject2, ObjectOf
  <2>2. CarriedObject2(v, spec.subtype)
    BY <2>1, ObjectTag DEF Carried, CarriedItem
  <2> QED BY <1>4, <2>2, HeldBack3
<1>5. ASSUME Is("list", v)
      PROVE  /\ v[2] # <<>> /\ ~TableShaped(v[2], spec)
             /\ \A i \in DOMAIN v[2] : CarriedItem(CarriedObject2, v[2][i], spec)
  <2>1. ~Is("OCITable", v) /\ ~Is("obj", v)
    BY <1>5 DEF Is
  <2> QED BY <1>1, <1>5, <2>1 DEF Carried
<1>6. CASE Plain(v, Len(v[2]), spec)
  <2>1. Is("list", v) /\ Sequence(v[2], Len(v[2]))
           /\ \A i \in 1..Len(v[2]) : ~Is("obj", v[2][i]) /\ ~Is("OCITable", v[2][i])
    BY <1>6, PlainItem DEF Plain
  <2>2. Len(v[2]) # 0 /\ \A i \in 1..Len(v[2]) : CarriedText(v[2][i])
    BY <1>5, <2>1, SequenceLen DEF CarriedItem
  <2> QED BY <1>6, <2>2, PlainBack DEF Back3Field
<1>7. CASE Devices(v, Len(v[2]), spec)
  <2>1. Is("list", v) /\ Sequence(v[2], Len(v[2])) /\ \A i \in 1..Len(v[2]) : Is("obj", v[2][i])
    BY <1>7 DEF Devices, IsObject2, ObjectOf
  <2>2. Len(v[2]) # 0 /\ \A i \in 1..Len(v[2]) : CarriedObject2(v[2][i], spec.subtype)
    BY <1>5, <2>1, SequenceLen, ObjectTag DEF CarriedItem
  <2> QED BY <1>7, <2>2, DevicesBack
<1>8. CASE spec.kind = "LIST" /\ spec.alias \in TableKeys /\ Is("list", v)
             /\ Sequence(v[2], Len(v[2])) /\ AreRows(v[2])
  <2>1. 1 \in DOMAIN v[2]
    BY <1>5, <1>8, SequenceLen DEF Sequence
  <2>2. TableShaped(v[2], spec)
    BY <1>8, <2>1 DEF TableShaped, AreRows, Keys
  <2> QED BY <1>5, <1>8, <2>2
<1>9. CASE spec.kind = "TABLE" /\ IsTable(v)
  <2>1. Is("OCITable", v) /\ ~Is("list", v) /\ ~Is("obj", v)
    BY <1>9 DEF IsTable, Is
  <2>2. CarriedTable(v, spec)
    BY <1>1, <2>1 DEF Carried, CarriedItem
  <2> QED BY <1>9, <2>2, TableFieldBack
<1>10. CASE TableList(v, Len(v[2]), spec)
  <2>1. Is("list", v) /\ Sequence(v[2], Len(v[2]))
           /\ \A i \in 1..Len(v[2]) : Is("OCITable", v[2][i])
    BY <1>10 DEF TableList, IsTable
  <2>2. \A i \in 1..Len(v[2]) : ~Is("obj", v[2][i])
    BY <2>1 DEF Is
  <2>3. Len(v[2]) # 0 /\ \A i \in 1..Len(v[2]) : CarriedTable(v[2][i], spec)
    BY <1>5, <2>1, <2>2, SequenceLen DEF CarriedItem
  <2> QED BY <1>10, <2>3, TablesBack
<1> QED BY <1>2, <1>3, <1>4, <1>6, <1>7, <1>8, <1>9, <1>10, FieldKinds

\* A list of dicts that comes through comes back as one table.
LEMMA RowsBack ==
  ASSUME NEW v, Is("list", v), NEW n, NEW spec, spec.kind = "LIST", Rows(v[2], n, spec)
  PROVE  /\ Sent3(v, spec) # None /\ Parsed3(Sent3(v, spec)) # List(<<>>)
         /\ Came3(v, spec) = List(<<Table(Headings(v[2]), CellsOf(v[2]))>>)
<1> DEFINE H == Headings(v[2])
           R == CellsOf(v[2])
           x == ThroughXml2(TableOf(H, R))
           t == Table(H, R)
<1>1. n # 0 /\ Sequence(v[2], n) /\ AreRows(v[2]) /\ spec.alias \in TableKeys
  BY DEF Rows
<1>2. Len(v[2]) = n /\ v[2] # <<>>
  BY <1>1, SequenceLen
<1>3. Sent3(v, spec) = TableOf(H, R)
  BY <1>1, <1>2, RowsSent
<1>4. ComesThrough(H, R, spec.alias) /\ Len(R) # 0
  BY DictsCome
<1> HIDE DEF H, R
<1>5. Clean2(spec.alias, x) = t
  BY <1>1, <1>4, TableEarly
<1>6. Parsed3(TableOf(H, R)) = x /\ ~Is("list", x) /\ Cleaned3(spec.alias, x) = t
  BY <1>4, <1>5, TableWay DEF ComesThrough
<1>7. TableOf(H, R) # None /\ x # List(<<>>)
  BY <1>6, TableParts, DictTag, ListTag
<1>8. ~Is("dict", t) /\ ~Is("str", t) /\ ~Is("list", t)
  BY TableTag
<1> HIDE DEF t, x
<1>9. AsList(t) = <<t>>
  BY <1>8 DEF AsList
<1>10. Coerce(t, spec.subtype) = t
  BY <1>8 DEF Coerce
<1>11. Read3(t, spec) = List([i \in DOMAIN <<t>> |-> t])
  <2>1. DOMAIN <<t>> = {1} /\ <<t>>[1] = t
    OBVIOUS
  <2> QED BY <1>8, <1>9, <1>10, <2>1 DEF Read3, DecodeField, Items
<1>12. [i \in DOMAIN <<t>> |-> t] = <<t>>
  OBVIOUS
<1>13. Came3(v, spec) = List(<<t>>)
  BY <1>3, <1>6, <1>11, <1>12 DEF Came3
<1> QED BY <1>3, <1>6, <1>7, <1>13 DEF t, H, R

-----------------------------------------------------------------------------
(* A whole command. *)

\* What a command is on its way.
Encoded(m) == Root(m)
Parsed(m) == ThroughXml(Encoded(m))
Cleaned(m) == Clean("command", Parsed(m))
Decoded(m) ==
    LET object == Decode(Cleaned(m), m[2])
    IN  IF Raises(Cleaned(m)) \/ \E name \in DOMAIN object[3] : object[3][name] = AttributeError
        THEN AttributeError ELSE object

\* What is under the keys of the dicts on the way, and what is read from them.
LEMMA CommandWay ==
  ASSUME NEW m, IsCommand(m)
  PROVE  /\ Is("dict", Parsed(m)) /\ Is("dict", Cleaned(m))
         /\ Keys(Parsed(m)) = AliasesOf(m[2], Has3(m)) \cup ObjectMarks
         /\ \A n \in Has3(m) : Parsed(m)[2][SpecOf(m[2], n).alias]
                                 = Parsed3(Sent3(m[3][n], SpecOf(m[2], n)))
         /\ Keys(Cleaned(m)) = AliasesOf(m[2], Has3(m)) \cup AttributesKey
         /\ Is("dict", Cleaned(m)[2]["attributes"])
         /\ \A n \in Has3(m) :
               LET spec == SpecOf(m[2], n)
               IN  Cleaned(m)[2][spec.alias] =
                      Cleaned3(spec.alias, Parsed3(Sent3(m[3][n], spec)))
         /\ Decode(Cleaned(m), m[2]) = Back3(m)
<1>1. m # NilClass /\ m[2] \in DOMAIN Schema
  BY Object3
<1> QED BY <1>1, Level3 DEF Encoded, Parsed, Cleaned

\* A field of a command and of the object that is read.
LEMMA FieldsBack ==
  ASSUME NEW m, NEW n \in Names(m[2])
  PROVE  LET came == Came3(m[3][n], SpecOf(m[2], n))
         IN  /\ Back3(m)[2] = m[2] /\ DOMAIN Back3(m)[3] = Names(m[2])
             /\ n \notin Has3(m) => Back3(m)[3][n] = None
             /\ n \in Has3(m) => Back3(m)[3][n] =
                   IF n \in Nillable(m[2]) /\ came = Str("") THEN NilClass ELSE came
<1> DEFINE f == [k \in Names(m[2]) |->
                   IF k \in Has3(m) THEN Came3(m[3][k], SpecOf(m[2], k)) ELSE None]
           g == [k \in DOMAIN f |-> IF k \in Nillable(m[2])
              /\ f[k] = Str("") THEN NilClass ELSE f[k]]
<1>1. Back3(m) = Obj(m[2], g)
  BY DEF Back3, New
<1> HIDE DEF g
<1>2. Back3(m)[2] = m[2] /\ Back3(m)[3] = g
  BY <1>1, TagsOfPairs
<1>3. DOMAIN g = Names(m[2]) /\ g[n] = IF n \in Nillable(m[2])
         /\ f[n] = Str("") THEN NilClass ELSE f[n]
  BY DEF g
<1>4. None # Str("")
  BY TextIsLeaf
<1> QED BY <1>2, <1>3, <1>4

\* A command is read as its fields are, or not at all.
LEMMA Read ==
  ASSUME NEW m, IsCommand(m)
  PROVE  Decoded(m) \in {AttributeError, Back3(m)}
  BY CommandWay DEF Decoded

\* A command of which no table has a row without cells is read.
LEMMA ReadWithoutError ==
  ASSUME NEW m, IsCommand(m), \A n \in Names(m[2]) : NoEmptyRow(m[3][n])
  PROVE  Decoded(m) # AttributeError
<1>1. m[2] \in DOMAIN Schema /\ \A n \in Names(m[2]) : FieldOf(m[3][n], SpecOf(m[2], n))
  BY Object3
<1>2. \A n \in Names(m[2]) : SpecOf(m[2], n) \in Specs
  BY <1>1, SchemaOf
<1>3. ASSUME NEW n \in Has3(m)
      PROVE  /\ n \in Names(m[2])
             /\ ~IsError(Cleaned3(SpecOf(m[2], n).alias,
                                  Parsed3(Sent3(m[3][n], SpecOf(m[2], n)))))
             /\ Came3(m[3][n], SpecOf(m[2], n)) # AttributeError
  <2>1. n \in Names(m[2]) /\ Sent3(m[3][n], SpecOf(m[2], n)) # None
    BY DEF Has3
  <2> QED BY <1>1, <1>2, <2>1, FieldKept
<1>4. ~Raises(Cleaned(m))
  <2>1. ASSUME NEW k \in Keys(Cleaned(m)) PROVE ~IsError(Cleaned(m)[2][k])
    <3>1. CASE k \in AliasesOf(m[2], Has3(m))
      BY <1>3, <3>1, CommandWay DEF AliasesOf
    <3>2. CASE k = "attributes"
      BY <3>2, CommandWay, DictTag, NoError
    <3> QED BY <3>1, <3>2, CommandWay DEF AttributesKey
  <2> QED BY <2>1 DEF Raises
<1>5. None # AttributeError /\ NilClass # AttributeError
  BY TagsOfNone
<1>6. \A n \in Names(m[2]) : Back3(m)[3][n] # AttributeError
  BY <1>3, <1>5, FieldsBack
<1>7. Back3(m) # AttributeError
  <2>1. \A class, f : New(class, f)[1] = "obj"
    BY DEF New, Obj
  <2> QED BY <2>1, TagsOfNone DEF Back3
<1>8. DOMAIN Back3(m)[3] = Names(m[2])
  <2> DEFINE f == [n \in Names(m[2]) |->
                     IF n \in Has3(m) THEN Came3(m[3][n], SpecOf(m[2], n)) ELSE None]
             g == [n \in DOMAIN f |-> IF n \in Nillable(m[2])
                /\ f[n] = Str("") THEN NilClass ELSE f[n]]
  <2>1. Back3(m) = Obj(m[2], g)
    BY DEF Back3, New
  <2>2. DOMAIN g = Names(m[2])
    OBVIOUS
  <2> HIDE DEF g
  <2> QED BY <2>1, <2>2, TagsOfPairs
<1> QED BY <1>4, <1>6, <1>7, <1>8, CommandWay DEF Decoded

\* A field that is carried is the same in the object that is read.
LEMMA CommandBack ==
  ASSUME NEW m, IsCommand(m), NEW n \in Names(m[2]),
         Carried(CarriedObject2, m[3][n], SpecOf(m[2], n))
  PROVE  Back3(m)[3][n] = m[3][n]
<1> DEFINE v == m[3][n]
           spec == SpecOf(m[2], n)
<1>1. /\ m[2] \in DOMAIN Schema /\ m = New(m[2], m[3]) /\ FieldOf(v, spec)
      /\ m[3] = [k \in Names(m[2]) |-> m[3][k]]
  BY Object3
<1>2. spec \in Specs
  BY <1>1, SchemaOf
<1>3. CASE v = None
  <2>1. n \notin Has3(m)
    BY <1>3, LeftOut DEF Has3
  <2> QED BY <1>3, <2>1, FieldsBack
<1>4. CASE v # None
  <2>1. Back3Field(v, spec)
    BY <1>1, <1>2, <1>4, FieldBack3
  <2>2. n \in Has3(m) /\ Came3(v, spec) = v
    BY <2>1 DEF Back3Field, Has3
  <2>3. ~(n \in Nillable(m[2]) /\ v = Str(""))
    <3> DEFINE g == [k \in DOMAIN m[3] |->
                       IF k \in Nillable(m[2]) /\ m[3][k] = Str("") THEN NilClass ELSE m[3][k]]
    <3>1. m = Obj(m[2], g)
      BY <1>1 DEF New
    <3> HIDE DEF g
    <3>2. m[3] = g
      BY <3>1, TagsOfPairs
    <3>3. n \in DOMAIN m[3]
      BY <1>1
    <3>4. v = IF n \in Nillable(m[2]) /\ v = Str("") THEN NilClass ELSE v
      BY <3>2, <3>3 DEF g
    <3>5. NilClass # Str("")
      BY TagsOfNone, Tags
    <3> QED BY <3>4, <3>5
  <2> QED BY <2>2, <2>3, FieldsBack
<1> QED BY <1>3, <1>4

\* A field of dicts that comes through is one table that gives them back.
LEMMA DictsBack ==
  ASSUME NEW m, IsCommand(m), NEW spec \in Schema[m[2]],
         NEW sent, sent = m[3][spec.name],
         Is("list", sent), sent[2] # <<>>, TableShaped(sent[2], spec),
         \A i \in DOMAIN sent[2] : CarriedRow(sent[2][i], spec)
  PROVE  LET t == Table(Headings(sent[2]), CellsOf(sent[2]))
         IN  /\ Back3(m)[3][spec.name] = List(<<t>>)
             /\ sent[2] = [i \in DOMAIN CellsOf(sent[2]) |-> TableDict(t, CellsOf(sent[2])[i])]
<1> DEFINE n == Len(sent[2])
           t == Table(Headings(sent[2]), CellsOf(sent[2]))
<1>1. m[2] \in DOMAIN Schema
  BY Object3
<1>2. SpecOf(m[2], spec.name) = spec /\ spec.name \in Names(m[2]) /\ spec \in Specs
  BY <1>1, SchemaOf
<1>3. FieldOf(sent, spec)
  <2>1. FieldOf(m[3][spec.name], SpecOf(m[2], spec.name))
    BY <1>2, Object3
  <2> QED BY <1>2, <2>1
<1>4. Fits(IsObject2, sent, spec)
  BY <1>3, TagsOfNone DEF FieldOf, Is
<1>5. spec.kind = "LIST" /\ Sequence(sent[2], n) /\ AreRows(sent[2])
  <2>1. spec.alias \in TableKeys
    BY DEF TableShaped
  <2>2. ~FitsScalar(sent, spec) \/ spec.kind # "SCALAR"
    <3>1. \A x : ~Is("list", Str(x)) /\ ~Is("list", Num(x)) /\ ~Is("list", Bool(x))
      BY DEF Is, Str, Num, Bool
    <3> QED BY <3>1, Scalars
  <2>3. ~IsTable(sent)
    BY DEF IsTable, Is
  <2>4. ~TableList(sent, n, spec)
    <3>1. CASE TableList(sent, n, spec)
      <4>1. 1 \in DOMAIN sent[2] /\ 1 \in 1..n
        BY <3>1, SequenceLen DEF TableList, Sequence
      <4> QED BY <3>1, <4>1 DEF TableList, IsTable, TableShaped, Is
    <3> QED BY <3>1
  <2> QED BY <1>2, <1>4, <2>1, <2>2, <2>3, <2>4, FieldKinds DEF Plain, Devices
<1>6. n # 0 /\ DOMAIN sent[2] = 1..n
  BY <1>5, SequenceLen
<1>7. Rows(sent[2], n, spec)
  BY <1>5, <1>6 DEF Rows, TableShaped
<1>8. /\ Sent3(sent, spec) # None /\ Parsed3(Sent3(sent, spec)) # List(<<>>)
      /\ Came3(sent, spec) = List(<<t>>)
  BY <1>5, <1>7, RowsBack
<1>9. spec.name \in Has3(m)
  BY <1>2, <1>8 DEF Has3
<1>10. List(<<t>>) # Str("")
  BY ListTag, TextIsLeaf DEF Leaf
<1>11. Back3(m)[3][spec.name] = List(<<t>>)
  <2> HIDE DEF t
  <2>1. Came3(m[3][spec.name], SpecOf(m[2], spec.name)) = List(<<t>>)
    BY <1>2, <1>8
  <2> QED BY <1>2, <1>9, <1>10, <2>1, FieldsBack
<1>12. DOMAIN CellsOf(sent[2]) = DOMAIN sent[2]
  BY DEF CellsOf
<1>13. \A j \in 1..n : TableDict(t, CellsOf(sent[2])[j]) = sent[2][j]
  BY <1>7, DictBack
<1>14. sent[2] = [i \in DOMAIN CellsOf(sent[2]) |-> TableDict(t, CellsOf(sent[2])[i])]
  BY <1>5, <1>6, <1>12, <1>13 DEF Sequence
<1> QED BY <1>11, <1>14

\* Which fields are marked as nil on the wire.
LEMMA NilFields ==
  ASSUME NEW m, IsCommand(m), NEW spec \in Schema[m[2]], NEW v, v = m[3][spec.name]
  PROVE  /\ NilMarked(Parsed(m), spec.alias) => v \in {Nil, NilClass}
         /\ v = Nil => NilMarked(Parsed(m), spec.alias)
<1> DEFINE x == Parsed(m)
           n == spec.name
           p == Parsed3(Sent3(v, spec))
<1>1. m[2] \in DOMAIN Schema
  BY Object3
<1>2. SpecOf(m[2], n) = spec /\ n \in Names(m[2]) /\ spec \in Specs
  BY <1>1, SchemaOf
<1>3. FieldOf(v, spec)
  BY <1>2, Object3
<1>4. n \in Has3(m) <=> Sent3(v, spec) # None /\ p # List(<<>>)
  BY <1>2 DEF Has3
<1>5. spec.alias \in Keys(x) <=> n \in Has3(m)
  <2>1. spec.alias \notin ObjectMarks
    BY <1>2, AliasOrdinary DEF Marks, ObjectMarks
  <2>2. \A k \in Has3(m) : SpecOf(m[2], k).alias = spec.alias => k = n
    <3>1. \A k \in Has3(m) : SpecOf(m[2], k) \in Schema[m[2]] /\ SpecOf(m[2], k).name = k
      BY <1>1, SchemaOf DEF Has3
    <3> QED BY <1>1, <3>1, AliasUnique
  <2> QED BY <1>2, <2>1, <2>2, CommandWay DEF AliasesOf
<1>6. n \in Has3(m) => x[2][spec.alias] = p
  BY <1>2, CommandWay
<1> HIDE DEF x, p, n
<1>7. ASSUME NilMarked(x, spec.alias) PROVE v \in {Nil, NilClass}
  <2>1. n \in Has3(m) /\ ~NoNil(p)
    BY <1>5, <1>6, <1>7 DEF NilMarked, NoNil
  <2> QED BY <1>2, <1>3, <1>4, <2>1, FieldParsed DEF p
<1>8. ASSUME v = Nil PROVE NilMarked(x, spec.alias)
  <2>1. Sent3(v, spec) = Entry("@C:nil", Str("true"))
    BY <1>8, NilSent
  <2>2. Is("dict", p) /\ Keys(p) = {"@C:nil"}
    BY <2>1, MarkParsed DEF p, Marks
  <2>3. Sent3(v, spec) # None /\ p # List(<<>>)
    BY <2>1, <2>2, EntryParts, DictTag
  <2> QED BY <1>4, <1>5, <1>6, <2>2, <2>3 DEF NilMarked
<1> QED BY <1>7, <1>8 DEF x

-----------------------------------------------------------------------------
(* The theorems *)

\* The message is a command, and the value is what it has become so far.
OnItsWay ==
    \/ stage = "object" /\ value = message
    \/ stage = "encoded" /\ value = Encoded(message)
    \/ stage = "parsed" /\ value = Parsed(message)
    \/ stage = "cleaned" /\ value = Cleaned(message)
    \/ stage = "decoded" /\ value = Decoded(message)

IInv == IsCommand(message) /\ OnItsWay

\* Each step of the parser and of the library takes the value to what the next
\* stage of the command is (parser.py:207-334).
THEOREM Stages == Spec => []IInv
<1>1. Init => IInv
  BY MessageAssumption DEF Init, IInv, OnItsWay
<1>2. IInv /\ [Next]_vars => IInv'
  <2> SUFFICES ASSUME IInv, [Next]_vars PROVE IInv'
    OBVIOUS
  <2> USE DEF IInv
  <2>1. CASE ToXml
    BY <2>1 DEF ToXml, Step, OnItsWay, Encoded
  <2>2. CASE Transport
    BY <2>2 DEF Transport, Step, OnItsWay, Parsed
  <2>3. CASE ToDict
    BY <2>3 DEF ToDict, Step, OnItsWay, Cleaned
  <2>4. CASE ToClass
    BY <2>4 DEF ToClass, Step, OnItsWay, Decoded
  <2>5. CASE UNCHANGED vars
    BY <2>5 DEF vars, OnItsWay
  <2> QED BY <2>1, <2>2, <2>3, <2>4, <2>5 DEF Next, Terminated
<1> QED BY <1>1, <1>2, PTL DEF Spec

\* Whatever command is sent, each field that comes through comes back with its
\* type, its class and its shape, whatever the other fields hold.
THEOREM FieldsComeBack == Spec => []RoundTrip
<1>1. IInv => RoundTrip
  <2> SUFFICES ASSUME IInv, stage = "decoded", value # AttributeError
               PROVE  /\ value[2] = message[2]
                      /\ \A name \in Names(message[2]) :
                            Carried(CarriedObject2, message[3][name],
                               SpecOf(message[2], name)) =>
                                value[3][name] = message[3][name]
    BY DEF RoundTrip
  <2>1. IsCommand(message) /\ value = Back3(message)
    BY Read DEF IInv, OnItsWay
  <2>2. Back3(message)[2] = message[2]
    BY TagsOfPairs DEF Back3, New
  <2> QED BY <2>1, <2>2, CommandBack
<1> QED BY <1>1, Stages, PTL

\* Whatever command is sent, reading it back raises only if a table in one of
\* its fields, or in a list that is one of them, has a row without cells.
THEOREM RaisesOnlyForEmptyRow == Spec => []RaisesForEmptyRowOnly
<1>1. IInv => RaisesForEmptyRowOnly
  BY ReadWithoutError DEF IInv, OnItsWay, RaisesForEmptyRowOnly, NoEmptyRow
<1> QED BY <1>1, Stages, PTL

\* Whatever command is sent, a field is marked as nil on the wire if it holds
\* an instance of OCINil, and only if it holds that or the class.
THEOREM NothingElseClears == Spec => []ClearsOnRequestOnly
<1>1. IInv => ClearsOnRequestOnly
  BY NilFields DEF IInv, OnItsWay, ClearsOnRequestOnly
<1> QED BY <1>1, Stages, PTL

\* Whatever command is sent, to_dict() of the table that is read gives the dicts
\* of a field that is named for a table, in their order.
THEOREM TablesGiveDicts == Spec => []DictsComeBack
<1>1. IInv => DictsComeBack
  <2> SUFFICES ASSUME IInv, stage = "decoded", value # AttributeError,
                      NEW spec \in Schema[message[2]],
                      NEW sent, sent = message[3][spec.name],
                      NEW back, back = value[3][spec.name],
                      Is("list", sent), sent[2] # <<>>, TableShaped(sent[2], spec),
                      \A i \in DOMAIN sent[2] : CarriedRow(sent[2][i], spec)
               PROVE  /\ Len(back[2]) = 1 /\ Is("OCITable", back[2][1])
                      /\ sent[2] = [i \in DOMAIN back[2][1][3] |->
                                       TableDict(back[2][1], back[2][1][3][i])]
    BY DEF DictsComeBack
  <2> DEFINE t == Table(Headings(sent[2]), CellsOf(sent[2]))
  <2>1. IsCommand(message) /\ value = Back3(message)
    BY Read DEF IInv, OnItsWay
  <2>2. /\ back = List(<<t>>)
        /\ sent[2] = [i \in DOMAIN CellsOf(sent[2]) |-> TableDict(t, CellsOf(sent[2])[i])]
    BY <2>1, DictsBack
  <2>3. Is("OCITable", t) /\ t[3] = CellsOf(sent[2])
    BY TagsOfPairs DEF Is
  <2> HIDE DEF t
  <2>4. back[2] = <<t>>
    BY <2>2, ListTag
  <2>5. Len(back[2]) = 1 /\ back[2][1] = t
    BY <2>4
  <2> QED BY <2>2, <2>3, <2>5
<1> QED BY <1>1, Stages, PTL
=============================================================================
