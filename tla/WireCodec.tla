------------------------------ MODULE WireCodec ------------------------------
(***************************************************************************)
(* What the parser (utils/parser.py) makes of a command on its way through *)
(* XML: an object is encoded into a dict, the XML library turns that into  *)
(* text and back into a dict, which is cleaned and decoded into an object. *)
(*                                                                         *)
(* The library knows neither lists nor types: it repeats an element for    *)
(* each item, and a lone item, an empty one and none at all all look alike *)
(* when they come back.  The schema of the class makes up for it.          *)
(*                                                                         *)
(* The objects and the tables of these classes nest three deep at most, so *)
(* the recursion of the parser is written out: an operator that descends   *)
(* is given what became of the parts inside (inner, by field or key and by *)
(* position), and there is one instance of it for each level.              *)
(***************************************************************************)
EXTENDS Integers, SequencesExt

CONSTANTS
    Texts,    \* texts of fields, cells and headings
    Strip,    \* str.strip(), for each of them
    Numbers,  \* numbers of the fields
    Messages  \* commands that are sent

ASSUME TextAssumption ==
    /\ Strip \in [Texts -> Texts]
    /\ \A t \in {"", "true", "false"} : t \in Texts /\ Strip[t] = t

ASSUME NumberAssumption ==
    \A m, n \in Numbers : ToString(m) = ToString(n) => m = n

(* Values, of Python and of the dicts that stand for XML, carry their type. *)
None == <<"None">>
Nil == <<"OCINil">>             \* an instance of OCINil
NilClass == <<"class OCINil">>  \* the class itself
Str(t) == <<"str", t>>
Num(n) == <<"int", n>>
Bool(b) == <<"bool", b>>
List(s) == <<"list", s>>
Dict(f) == <<"dict", f>>
Obj(class, f) == <<"obj", class, f>>
Table(headings, rows) == <<"OCITable", headings, rows>>
AttributeError == <<"AttributeError">>

Is(type, v) == v[1] = type
Keys(d) == DOMAIN d[2]
Map(op(_), s) == [i \in DOMAIN s |-> op(s[i])]

\* as_list(): the library yields a bare value for a single element.
AsList(v) == IF Is("list", v) THEN v[2] ELSE <<v>>

\* A dict of one key.
Entry(key, v) == Dict([k \in {key} |-> v])
TableOf(headings, rows) ==
    LET Row(cells) == Entry("col", List(cells))
    IN  Dict([colHeading |-> List(headings), row |-> List(Map(Row, rows))])

-----------------------------------------------------------------------------
(* Generated classes (commands/commands.py) that have fields of every kind   *)
(* between them; fields like one that is listed are left out.                *)

\* _schema() and _unwrap() reduce a type hint to a kind and a subtype.
FieldSpec(name, alias, kind, subtype) ==
    [name |-> name, alias |-> alias, kind |-> kind, subtype |-> subtype]

AccessDevice == {FieldSpec("device_level", "deviceLevel", "SCALAR", "none"),
                 FieldSpec("device_name", "deviceName", "SCALAR", "str")}

AccessDeviceEndpointModify ==
    {FieldSpec("access_device", "accessDevice", "OBJECT", "AccessDevice"),
     FieldSpec("line_port", "linePort", "SCALAR", "str"),
     FieldSpec("contact", "contact", "SCALAR", "str"),
     FieldSpec("port_number", "portNumber", "SCALAR", "int")}

ReplacementDeviceList == {FieldSpec("device", "device", "LIST", "AccessDevice")}

CallCenterReportAbandonedCallThresholdReplacementList ==
    {FieldSpec("abandoned_call_threshold_seconds", "abandonedCallThresholdSeconds",
               "LIST", "int")}

EnterpriseDepartmentKey == {FieldSpec("name", "name", "SCALAR", "str")}

GroupDepartmentKey == {FieldSpec("group_id", "groupId", "SCALAR", "str"),
                       FieldSpec("name", "name", "SCALAR", "str")}

ServiceInstanceReadProfile ==
    {FieldSpec("name", "name", "SCALAR", "str"),
     FieldSpec("department", "department", "OBJECT", "DepartmentKey"),
     FieldSpec("alias", "alias", "LIST", "str")}

GroupHuntGroupGetInstanceResponse14 ==
    {FieldSpec("service_instance_profile", "serviceInstanceProfile", "OBJECT",
               "ServiceInstanceReadProfile"),
     FieldSpec("policy", "policy", "SCALAR", "none"),
     FieldSpec("hunt_after_no_answer", "huntAfterNoAnswer", "SCALAR", "bool"),
     FieldSpec("no_answer_number_of_rings", "noAnswerNumberOfRings", "SCALAR", "int"),
     FieldSpec("agent_user_table", "agentUserTable", "TABLE", "none")}

EnterpriseVoiceVPNGetPolicyListResponse ==
    {FieldSpec("location_list", "locationList", "TABLE", "none")}

ServiceProviderServicePackGetUtilizationListResponse ==
    {FieldSpec("service_pack_name", "servicePackName", "LIST", "str"),
     FieldSpec("service_utilization_table", "serviceUtilizationTable", "LIST", "OCITable")}

GroupDepartmentModifyRequest ==
    {FieldSpec("new_department_name", "newDepartmentName", "SCALAR", "str"),
     FieldSpec("new_parent_department_key", "newParentDepartmentKey", "OBJECT",
               "DepartmentKey"),
     FieldSpec("calling_line_id_name", "callingLineIdName", "SCALAR", "str")}

\* _schema(): one entry for each field that is not private.
Schema == [
    AccessDevice |-> AccessDevice,
    AccessDeviceEndpointModify |-> AccessDeviceEndpointModify,
    ReplacementDeviceList |-> ReplacementDeviceList,
    CallCenterReportAbandonedCallThresholdReplacementList |->
        CallCenterReportAbandonedCallThresholdReplacementList,
    DepartmentKey |-> {},
    EnterpriseDepartmentKey |-> EnterpriseDepartmentKey,
    GroupDepartmentKey |-> GroupDepartmentKey,
    ServiceInstanceReadProfile |-> ServiceInstanceReadProfile,
    GroupHuntGroupGetInstanceResponse14 |-> GroupHuntGroupGetInstanceResponse14,
    EnterpriseVoiceVPNGetPolicyListResponse |-> EnterpriseVoiceVPNGetPolicyListResponse,
    ServiceProviderServicePackGetUtilizationListResponse |->
        ServiceProviderServicePackGetUtilizationListResponse,
    GroupDepartmentModifyRequest |-> GroupDepartmentModifyRequest]

\* The fields that may be Nillable.
Nillable(class) ==
    CASE class = "AccessDeviceEndpointModify" -> {"contact"}
      [] class = "GroupDepartmentModifyRequest" ->
            {"new_parent_department_key", "calling_line_id_name"}
      [] OTHER -> {}

\* __post_init__(): an empty text in a Nillable field becomes the class OCINil.
New(class, f) ==
    Obj(class, [name \in DOMAIN f |->
        IF name \in Nillable(class) /\ f[name] = Str("") THEN NilClass ELSE f[name]])

Names(class) == {spec.name : spec \in Schema[class]}
SpecOf(class, name) == CHOOSE spec \in Schema[class] : spec.name = name

\* Classes below another one, at any depth.
Descendants(class) ==
    IF class = "DepartmentKey" THEN {"EnterpriseDepartmentKey", "GroupDepartmentKey"}
    ELSE {}

\* Keys of a wire dict with "Table" in them.
TableKeys == {"agentUserTable", "serviceUtilizationTable"}

\* to_snake_case() undoes the camel case of every alias.
SnakeCase(key) ==
    LET specs == UNION {Schema[class] : class \in DOMAIN Schema}
    IN  IF \E spec \in specs : spec.alias = key
        THEN (CHOOSE spec \in specs : spec.alias = key).name
        ELSE key

\* The names under which _clean() files an attribute, the last one in the
\* notation of the W3C.
AttributeNames == [a \in {"@xmlns", "@xsi:type", "@C:nil"} |->
    CASE a = "@xmlns" -> {"xmlns"}
      [] a = "@xsi:type" -> {"xsi:type", "type", "{XMLSchema-instance}type"}
      [] a = "@C:nil" -> {"C:nil", "nil", "{XMLSchema-instance}nil"}]

-----------------------------------------------------------------------------
(* _encode(): an object becomes a wire dict. *)

DictTable(rows) ==
    LET headings == SetToSeq(Keys(rows[1]))
        Cells(r) == [i \in DOMAIN headings |-> r[2][headings[i]]]
    IN  TableOf(Map(Str, headings), Map(Cells, rows))

\* A list of dicts that have the same keys, in a field named for a table.
TableShaped(items, spec) ==
    /\ spec.alias \in TableKeys
    /\ \A i \in DOMAIN items : Is("dict", items[i]) /\ Keys(items[i]) = Keys(items[1])

TextOfBool(b) == Str(IF b THEN "true" ELSE "false")

EncodeList(items, spec, inner) ==
    LET Item(i) == IF Is("bool", items[i]) THEN TextOfBool(items[i][2])
                   ELSE IF items[i][1] \in {"obj", "OCITable"} THEN inner[i]
                   ELSE items[i]
    IN  IF TableShaped(items, spec) THEN DictTable(items)
        ELSE List([i \in DOMAIN items |-> Item(i)])

EmptyIsNil(v) == v \in {Nil, Str("")}                              \* mutant

\* The test is for an instance: the class that __post_init__() puts in place
\* of an empty text does not pass it.
AsksForNil(v) == v = Nil

NilDict == Entry("@C:nil", Str("true"))

\* None stands for a field that is left out.
EncodeField(v, spec, inner) ==
    IF v = None THEN None
    ELSE IF AsksForNil(v) THEN NilDict
    ELSE IF Is("bool", v) THEN TextOfBool(v[2])
    ELSE IF Is("OCITable", v) THEN TableOf(v[2], v[3])
    ELSE CASE spec.kind = "OBJECT" -> inner[1]
           [] spec.kind = "LIST" -> IF v[2] = <<>> THEN None ELSE EncodeList(v[2], spec, inner)
           [] spec.kind = "SCALAR" -> v
           [] OTHER -> None

\* The fields that are set, under their aliases, and the class if it is not
\* the declared one.
Assembled(class, declared, encoded) ==
    LET sent == {spec \in Schema[class] : encoded[spec.name] # None}
        marks == IF declared = class THEN {} ELSE {"@xsi:type"}
    IN  Dict([k \in {spec.alias : spec \in sent} \cup marks |->
                 IF k = "@xsi:type" THEN Str(class)
                 ELSE encoded[(CHOOSE spec \in sent : spec.alias = k).name]])

\* The class of the class OCINil is called type and has no fields.
EncodeObject(obj, declared, inner) ==
    IF obj = NilClass THEN Entry("@xsi:type", Str("type"))
    ELSE Assembled(obj[2], declared,
                   [n \in Names(obj[2]) |->
                       EncodeField(obj[3][n], SpecOf(obj[2], n), inner[n])])

Encode1(obj, declared) == EncodeObject(obj, declared, [n \in Names(obj[2]) |-> <<>>])

Encode2(obj, declared) ==
    LET Part(n, i) == Encode1(AsList(obj[3][n])[i], SpecOf(obj[2], n).subtype)
        Inner(n) == [i \in DOMAIN AsList(obj[3][n]) |-> Part(n, i)]
    IN  EncodeObject(obj, declared, [n \in Names(obj[2]) |-> Inner(n)])

\* Of the lists of an object: those that are empty are left out.
NonEmpty(lists) == Dict([k \in {j \in DOMAIN lists : lists[j] # List(<<>>)} |-> lists[k]])

\* A table that is an item of a list is encoded by its schema, as its rows are.
EncodeTable(table) ==
    LET Row(cells) == NonEmpty([col |-> List(cells)])
    IN  NonEmpty([colHeading |-> List(table[2]), row |-> List(Map(Row, table[3]))])

EncodePart(v, declared) == IF Is("OCITable", v) THEN EncodeTable(v) ELSE Encode2(v, declared)

Encode(obj, declared) ==
    LET Part(n, i) == EncodePart(AsList(obj[3][n])[i], SpecOf(obj[2], n).subtype)
        Inner(n) == [i \in DOMAIN AsList(obj[3][n]) |-> Part(n, i)]
    IN  EncodeObject(obj, declared, [n \in Names(obj[2]) |-> Inner(n)])

\* to_xml_from_class() marks the root with its class.
Root(obj) ==
    LET body == Encode(obj, obj[2])
    IN  Dict([k \in {"@xmlns", "@xsi:type"} \cup Keys(body) |->
                 CASE k = "@xmlns" -> Str("")
                   [] k = "@xsi:type" -> Str(obj[2])
                   [] OTHER -> body[2][k]])

-----------------------------------------------------------------------------
(* xmltodict.unparse() and xmltodict.parse() *)

\* Text without the white space around it, nothing for an empty element, and
\* of what is no text what str() says of it.
XmlText(v) ==
    CASE Is("str", v) -> IF Strip[v[2]] = "" THEN None ELSE Str(Strip[v[2]])
      [] Is("int", v) -> Str(ToString(v[2]))
      [] v = NilClass -> Str("<class OCINil>")
      [] OTHER -> v

\* One element for each item, and an item back for a lone element.
Elements(items) == IF Len(items) = 1 THEN items[1] ELSE List(items)

XmlChild(v, inner) == IF Is("list", v) THEN Elements(inner) ELSE inner[1]

\* Attributes are kept as they are.
XmlChildren(v, inner) ==
    [k \in Keys(v) |->
        IF k \in DOMAIN AttributeNames THEN v[2][k] ELSE XmlChild(v[2][k], inner[k])]

\* No item leaves no element, and an element with nothing in it is empty.
XmlElement(children) ==
    LET kept == {k \in DOMAIN children : children[k] # List(<<>>)}
    IN  IF kept = {} THEN None ELSE Dict([k \in kept |-> children[k]])

XmlNode(v, inner) ==
    IF Is("dict", v) THEN XmlElement(XmlChildren(v, inner)) ELSE XmlText(v)

ThroughXml1(v) == XmlNode(v, [k \in Keys(v) |-> Map(XmlText, AsList(v[2][k]))])
ThroughXml2(v) == XmlNode(v, [k \in Keys(v) |-> Map(ThroughXml1, AsList(v[2][k]))])
ThroughXml(v) == XmlNode(v, [k \in Keys(v) |-> Map(ThroughXml2, AsList(v[2][k]))])

-----------------------------------------------------------------------------
(* _clean() and _decode(): a dict of the library becomes an object. *)

RowNotListed(v) ==                                                 \* mutant
    IF ~(Is("dict", v) /\ "colHeading" \in Keys(v)) THEN v
    ELSE LET rows == IF "row" \notin Keys(v) THEN <<>>
                     ELSE IF Is("list", v[2]["row"]) THEN v[2]["row"][2] ELSE <<None>>
             Cells(r) == IF "col" \in Keys(r) THEN AsList(r[2]["col"]) ELSE <<>>
         IN  IF \E i \in DOMAIN rows : ~Is("dict", rows[i]) THEN AttributeError
             ELSE Table(AsList(v[2]["colHeading"]), Map(Cells, rows))

\* Also _clean() takes this way, with cells as they came from the library.
DecodeTable(v) ==
    IF ~(Is("dict", v) /\ "colHeading" \in Keys(v)) THEN v
    ELSE LET rows == IF "row" \in Keys(v) THEN AsList(v[2]["row"]) ELSE <<>>
             Cells(r) == IF "col" \in Keys(r) THEN AsList(r[2]["col"]) ELSE <<>>
         IN  IF \E i \in DOMAIN rows : ~Is("dict", rows[i]) THEN AttributeError
             ELSE Table(AsList(v[2]["colHeading"]), Map(Cells, rows))

CleanText(v) == IF v = None THEN Str("") ELSE v

CleanChild(v, inner) == IF Is("list", v) THEN List(inner) ELSE inner[1]

\* The attributes under all their names.
Attributes(v) ==
    LET attrs == Keys(v) \cap DOMAIN AttributeNames
    IN  [n \in UNION {AttributeNames[a] : a \in attrs} |->
            v[2][CHOOSE a \in attrs : n \in AttributeNames[a]]]

\* The children, and beside them the attributes.
CleanDict(v, inner) ==
    LET names == Keys(v) \ DOMAIN AttributeNames
        more == IF Keys(v) \subseteq names THEN {} ELSE {"attributes"}
    IN  Dict([k \in names \cup more |->
                 IF k \in more THEN Dict(Attributes(v)) ELSE CleanChild(v[2][k], inner[k])])

CleanNode(key, v, inner) ==
    IF ~Is("dict", v) THEN CleanText(v)
    ELSE IF key \in TableKeys /\ {"colHeading", "row"} \subseteq Keys(v) THEN DecodeTable(v)
    ELSE IF "#text" \in Keys(v) THEN v[2]["#text"]
    ELSE CleanDict(v, inner)

Clean1(key, v) == CleanNode(key, v, [k \in Keys(v) |-> Map(CleanText, AsList(v[2][k]))])

Clean2(key, v) ==
    LET Inner(k) == [i \in DOMAIN AsList(v[2][k]) |-> Clean1(k, AsList(v[2][k])[i])]
    IN  CleanNode(key, v, [k \in Keys(v) |-> Inner(k)])

Clean(key, v) ==
    LET Inner(k) == [i \in DOMAIN AsList(v[2][k]) |-> Clean2(k, AsList(v[2][k])[i])]
    IN  CleanNode(key, v, [k \in Keys(v) |-> Inner(k)])

DeclaredOnly(declared, source) == declared                         \* mutant

\* The subclass that xsi:type names, or the declared class.
Concrete(declared, source) ==
    IF "attributes" \in Keys(source) /\ Is("dict", source[2]["attributes"])
          /\ "type" \in Keys(source[2]["attributes"])
          /\ source[2]["attributes"][2]["type"][2] \in Descendants(declared)
    THEN source[2]["attributes"][2]["type"][2]
    ELSE declared

\* Text becomes a value of the declared type, if it can be read as one.
Coerce(v, target) ==
    IF ~Is("str", v) THEN v
    ELSE CASE target = "bool" -> Bool(v[2] = "true")
           [] target = "int" /\ \E n \in Numbers : ToString(n) = v[2] ->
                 Num(CHOOSE n \in Numbers : ToString(n) = v[2])
           [] OTHER -> v

LoneItemNotListed(v) == IF Is("list", v) THEN v[2] ELSE <<>>       \* mutant

\* xmltodict yields a bare value for a single element.
Items(v) == AsList(v)

DecodeField(v, spec, inner) ==
    LET Item(i) == IF Is("dict", Items(v)[i]) THEN inner[i]
                   ELSE Coerce(Items(v)[i], spec.subtype)
    IN  CASE spec.kind = "OBJECT" /\ Is("dict", v) -> inner[1]
          [] spec.kind = "TABLE" -> DecodeTable(v)
          [] spec.kind = "LIST" -> List([i \in DOMAIN Items(v) |-> Item(i)])
          [] OTHER -> Coerce(v, spec.subtype)

Source(data, declared) ==
    IF declared \in Keys(data) THEN data[2][declared]
    ELSE IF "command" \in Keys(data) THEN data[2]["command"]
    ELSE data

\* The values of the fields that are there, under the names of the fields.
Arguments(source, class) ==
    LET KeysOf(name) == {k \in Keys(source) : SnakeCase(k) = name}
    IN  [name \in {n \in Names(class) : KeysOf(n) # {}} |->
            source[2][CHOOSE k \in KeysOf(name) : TRUE]]

DecodeObject(class, args, inner) ==
    New(class, [n \in Names(class) |->
        IF n \in DOMAIN args THEN DecodeField(args[n], SpecOf(class, n), inner[n]) ELSE None])

Decode1(data, declared) ==
    LET source == Source(data, declared)
        class == Concrete(declared, source)
    IN  DecodeObject(class, Arguments(source, class), [n \in Names(class) |-> <<>>])

Decode2(data, declared) ==
    LET source == Source(data, declared)
        class == Concrete(declared, source)
        args == Arguments(source, class)
        Part(n, i) == Decode1(AsList(args[n])[i], SpecOf(class, n).subtype)
        Inner(n) == [i \in DOMAIN AsList(args[n]) |-> Part(n, i)]
    IN  DecodeObject(class, args, [n \in DOMAIN args |-> Inner(n)])

\* A dict in a list of tables is decoded by their schema: without headings they
\* are None, without rows there is none, and a row that is no dict stays as it is.
DecodeTablePart(d) ==
    LET headings == IF "colHeading" \in Keys(d) THEN AsList(d[2]["colHeading"]) ELSE None
        rows == IF "row" \in Keys(d) THEN AsList(d[2]["row"]) ELSE <<>>
        Cells(r) == IF Is("dict", r) THEN AsList(r[2]["col"]) ELSE r
    IN  Table(headings, Map(Cells, rows))

DecodePart(d, declared) ==
    IF declared = "OCITable" THEN DecodeTablePart(d) ELSE Decode2(d, declared)

Decode(data, declared) ==
    LET source == Source(data, declared)
        class == Concrete(declared, source)
        args == Arguments(source, class)
        Part(n, i) == DecodePart(AsList(args[n])[i], SpecOf(class, n).subtype)
        Inner(n) == [i \in DOMAIN AsList(args[n]) |-> Part(n, i)]
    IN  DecodeObject(class, args, [n \in DOMAIN args |-> Inner(n)])

-----------------------------------------------------------------------------
(* The commands a program can make: each field has what its type hint says,  *)
(* or nothing, or what clears it.                                            *)

TextValues == {Str(t) : t \in Texts}

FitsScalar(v, spec) ==
    CASE spec.subtype = "bool" -> v \in {Bool(TRUE), Bool(FALSE)}
      [] spec.subtype = "int" -> v \in {Num(n) : n \in Numbers}
      [] OTHER -> v \in TextValues

IsTable(v) ==
    /\ Is("OCITable", v) /\ v = Table(v[2], v[3])
    /\ v[2] \in Seq(TextValues)
    /\ v[3] \in Seq(Seq(TextValues))

\* The rows of a table as dicts.
AreRows(items) ==
    \A i \in DOMAIN items :
       /\ Is("dict", items[i]) /\ items[i] = Dict(items[i][2])
       /\ items[i][2] \in [Keys(items[1]) -> TextValues]
       /\ IsFiniteSet(Keys(items[1])) /\ Keys(items[1]) \subseteq Texts

FitsList(IsObject(_, _), v, spec) ==
    /\ Is("list", v) /\ v = List(v[2]) /\ v[2] \in Seq(ToSet(v[2]))
    /\ CASE spec.subtype \in {"int", "str"} -> \A i \in DOMAIN v[2] : FitsScalar(v[2][i], spec)
         [] spec.subtype = "OCITable" -> AreRows(v[2]) \/ \A i \in DOMAIN v[2] : IsTable(v[2][i])
         [] OTHER -> \A i \in DOMAIN v[2] : IsObject(v[2][i], spec.subtype)

Fits(IsObject(_, _), v, spec) ==
    CASE spec.kind = "SCALAR" -> FitsScalar(v, spec)
      [] spec.kind = "OBJECT" -> IsObject(v, spec.subtype)
      [] spec.kind = "LIST" -> FitsList(IsObject, v, spec)
      [] OTHER -> IsTable(v)

ObjectOf(IsObject(_, _), v, declared) ==
    /\ Is("obj", v) /\ v = New(v[2], v[3])
    /\ v[2] \in {declared} \cup Descendants(declared)
    /\ v[3] = [name \in Names(v[2]) |-> v[3][name]]
    /\ \A name \in Names(v[2]) :
          \/ v[3][name] = None
          \/ name \in Nillable(v[2]) /\ v[3][name] \in {Nil, NilClass}
          \/ Fits(IsObject, v[3][name], SpecOf(v[2], name))

NoObject(v, declared) == FALSE
IsObject1(v, declared) == ObjectOf(NoObject, v, declared)
IsObject2(v, declared) == ObjectOf(IsObject1, v, declared)
IsCommand(v) == ObjectOf(IsObject2, v, v[2]) /\ v[2] \in DOMAIN Schema

ASSUME MessageAssumption == \A m \in Messages : IsCommand(m)

-----------------------------------------------------------------------------
(* A command on its way *)

VARIABLES
    message,  \* the command
    stage,    \* how far it got
    value     \* what it is there

vars == <<message, stage, value>>

Init ==
    /\ message \in Messages
    /\ stage = "object"
    /\ value = message

Step(from, to, result) ==
    /\ stage = from
    /\ stage' = to
    /\ value' = result
    /\ UNCHANGED message

ToXml == Step("object", "encoded", Root(value))

Transport == Step("encoded", "parsed", ThroughXml(value))

\* A row without a cell raises, wherever the table is read, also in a list.
IsError(v) ==
    \/ v = AttributeError
    \/ Is("list", v) /\ \E i \in DOMAIN v[2] : v[2][i] = AttributeError

Raises(d) == \E k \in Keys(d) : IsError(d[2][k])

ToDict == Step("parsed", "cleaned", Clean("command", value))

ToClass ==
    LET object == Decode(value, message[2])
    IN  Step("cleaned", "decoded",
             IF Raises(value) \/ \E name \in DOMAIN object[3] : object[3][name] = AttributeError
             THEN AttributeError ELSE object)

Terminated == stage = "decoded" /\ UNCHANGED vars

Next == ToXml \/ Transport \/ ToDict \/ ToClass \/ Terminated

Spec == Init /\ [][Next]_vars

-----------------------------------------------------------------------------
(* Properties *)

\* What comes through: text without white space around it, a list with an
\* item, a table with headings and cells, none of them empty if the field is
\* named for a table, an object with a field or of a marked subclass, and
\* nothing that stands for nil.
CarriedText(v) == Is("str", v) => Strip[v[2]] = v[2]

CarriedCell(v, spec) == CarriedText(v) /\ (spec.alias \in TableKeys => v # Str(""))

CarriedTable(v, spec) ==
    /\ v[2] # <<>>
    /\ \A i \in DOMAIN v[2] : CarriedCell(v[2][i], spec)
    /\ \A i \in DOMAIN v[3] :
          v[3][i] # <<>> /\ \A j \in DOMAIN v[3][i] : CarriedCell(v[3][i][j], spec)

CarriedItem(CarriedObject(_, _), v, spec) ==
    CASE Is("obj", v) -> CarriedObject(v, spec.subtype)
      [] Is("OCITable", v) -> CarriedTable(v, spec)
      [] OTHER -> CarriedText(v)

Carried(CarriedObject(_, _), v, spec) ==
    CASE v = None -> TRUE
      [] v \in {Nil, NilClass} -> FALSE
      [] Is("list", v) ->
            /\ v[2] # <<>>
            /\ ~TableShaped(v[2], spec)
            /\ \A i \in DOMAIN v[2] : CarriedItem(CarriedObject, v[2][i], spec)
      [] OTHER -> CarriedItem(CarriedObject, v, spec)

AllCarried(CarriedObject(_, _), v, declared) ==
    /\ v[2] = declared => \E name \in DOMAIN v[3] : v[3][name] # None
    /\ \A name \in DOMAIN v[3] : Carried(CarriedObject, v[3][name], SpecOf(v[2], name))

NotCarried(v, declared) == FALSE
CarriedObject1(v, declared) == AllCarried(NotCarried, v, declared)
CarriedObject2(v, declared) == AllCarried(CarriedObject1, v, declared)

\* Every field that comes through comes back as it was, with its type, its
\* class and its shape, and beside any other field.
RoundTrip ==
    stage = "decoded" /\ value # AttributeError =>
        /\ value[2] = message[2]
        /\ \A name \in Names(message[2]) :
              Carried(CarriedObject2, message[3][name], SpecOf(message[2], name)) =>
                  value[3][name] = message[3][name]

\* Reading a command back fails only for a table with a row without cells, be
\* the table a field or an item of a list: no list of dicts and no other value
\* fails, whatever stands beside it.
HasEmptyRow(v) == Is("OCITable", v) /\ <<>> \in ToSet(v[3])

RaisesForEmptyRowOnly ==
    stage = "decoded" /\ value = AttributeError =>
        \E name \in Names(message[2]) :
            LET v == message[3][name]
            IN  \/ HasEmptyRow(v)
                \/ Is("list", v) /\ \E i \in DOMAIN v[2] : HasEmptyRow(v[2][i])

\* A field is cleared on the server only if the command asks for it, and always
\* if it asks with an instance of OCINil: no text, empty or not, and no object
\* turns into the mark of nil (parser.py:156-157).
NilMarked(d, key) == key \in Keys(d) /\ Is("dict", d[2][key]) /\ "@C:nil" \in Keys(d[2][key])

ClearsOnRequestOnly ==
    stage = "parsed" =>
        \A spec \in Schema[message[2]] :
            LET v == message[3][spec.name]
            IN  /\ NilMarked(value, spec.alias) => v \in {Nil, NilClass}
                /\ v = Nil => NilMarked(value, spec.alias)

\* A list of dicts that is sent as a table, with keys in snake case and no
\* empty text, comes back as a table whose to_dict() gives the dicts
\* (oci_types.py:28-35).
TableDict(table, row) ==
    Dict([k \in {SnakeCase(h[2]) : h \in ToSet(table[2])} |->
             row[CHOOSE i \in DOMAIN table[2] : SnakeCase(table[2][i][2]) = k]])

CarriedRow(row, spec) ==
    /\ Keys(row) # {}
    /\ \A k \in Keys(row) : /\ CarriedCell(Str(k), spec) /\ SnakeCase(k) = k
                            /\ CarriedCell(row[2][k], spec)

DictsComeBack ==
    stage = "decoded" /\ value # AttributeError =>
        \A spec \in Schema[message[2]] :
            LET sent == message[3][spec.name]
                back == value[3][spec.name]
            IN  /\ Is("list", sent) /\ sent[2] # <<>> /\ TableShaped(sent[2], spec)
                /\ \A i \in DOMAIN sent[2] : CarriedRow(sent[2][i], spec)
                => /\ Len(back[2]) = 1 /\ Is("OCITable", back[2][1])
                   /\ sent[2] = [i \in DOMAIN back[2][1][3] |->
                                    TableDict(back[2][1], back[2][1][3][i])]
=============================================================================
