--------------------------- MODULE WireCodecFacts ---------------------------
(***************************************************************************)
(* What the parser and the XML library make of an object whose fields are  *)
(* known to come through: facts about the schema, about one stage of the   *)
(* way, about a whole object at each level (Level1 to Level3), and about the *)
(* texts, the numbers and the lists in its fields.                         *)
(***************************************************************************)
EXTENDS WireCodec, TLAPS

-----------------------------------------------------------------------------
(* The schema. *)

Specs == UNION {Schema[class] : class \in DOMAIN Schema}

\* The alias of each name.
Camel == [device_level |-> "deviceLevel", device_name |-> "deviceName",
   access_device |-> "accessDevice", line_port |-> "linePort", contact |-> "contact",
   port_number |-> "portNumber", device |-> "device",
   abandoned_call_threshold_seconds |-> "abandonedCallThresholdSeconds",
   name |-> "name", group_id |-> "groupId", department |-> "department", alias |-> "alias",
   service_instance_profile |-> "serviceInstanceProfile", policy |-> "policy",
   hunt_after_no_answer |-> "huntAfterNoAnswer",
   no_answer_number_of_rings |-> "noAnswerNumberOfRings",
   agent_user_table |-> "agentUserTable", location_list |-> "locationList",
   service_pack_name |-> "servicePackName",
   service_utilization_table |-> "serviceUtilizationTable",
   new_department_name |-> "newDepartmentName",
   new_parent_department_key |-> "newParentDepartmentKey",
   calling_line_id_name |-> "callingLineIdName"]

\* Classes that only have texts and the like.
Nested == {"AccessDevice", "DepartmentKey", "EnterpriseDepartmentKey", "GroupDepartmentKey"}

\* The keys of attributes.
Marks == {"@xmlns", "@xsi:type", "@C:nil"}

\* A spec is what its four fields say, and its name and alias are in Camel.
LEMMA SpecFields == \A spec \in Specs :
   /\ spec.name \in DOMAIN Camel /\ spec.alias = Camel[spec.name]
   /\ spec = FieldSpec(spec.name, spec.alias, spec.kind, spec.subtype)
  BY SMTT(60) DEF Specs, Schema, Camel, FieldSpec,
       AccessDevice, AccessDeviceEndpointModify, ReplacementDeviceList,
       CallCenterReportAbandonedCallThresholdReplacementList,
       EnterpriseDepartmentKey, GroupDepartmentKey, ServiceInstanceReadProfile,
       GroupHuntGroupGetInstanceResponse14, EnterpriseVoiceVPNGetPolicyListResponse,
       ServiceProviderServicePackGetUtilizationListResponse, GroupDepartmentModifyRequest

\* No two names have one alias.
LEMMA CamelInjective == \A m, n \in DOMAIN Camel : Camel[m] = Camel[n] => m = n
  BY SMTT(60) DEF Camel

\* No alias is a mark, a class or another key that the parser looks for.
LEMMA Aliases == \A n \in DOMAIN Camel :
      /\ Camel[n] \notin Marks \cup {"#text", "command", "attributes", "type"}
            \cup DOMAIN Schema
      /\ n # "attributes"
  BY SMTT(60) DEF Camel, Schema, Marks

\* A class has one field of a name.
LEMMA NamesUnique ==
  \A class \in DOMAIN Schema : \A s, t \in Schema[class] : s.name = t.name => s = t
  BY SMTT(60) DEF Schema, FieldSpec,
       AccessDevice, AccessDeviceEndpointModify, ReplacementDeviceList,
       CallCenterReportAbandonedCallThresholdReplacementList,
       EnterpriseDepartmentKey, GroupDepartmentKey, ServiceInstanceReadProfile,
       GroupHuntGroupGetInstanceResponse14, EnterpriseVoiceVPNGetPolicyListResponse,
       ServiceProviderServicePackGetUtilizationListResponse, GroupDepartmentModifyRequest

\* What kinds of fields there are, with which subtypes.
LEMMA Kinds == \A spec \in Specs :
     \/ spec.kind = "SCALAR" /\ spec.subtype \in {"none", "str", "int", "bool"}
           /\ spec.alias \notin TableKeys
     \/ /\ spec.kind = "OBJECT" /\ spec.alias \notin TableKeys
        /\ spec.subtype \in {"AccessDevice", "DepartmentKey", "ServiceInstanceReadProfile"}
     \/ spec.kind = "LIST" /\ spec.subtype \in {"int", "str", "AccessDevice"}
           /\ spec.alias \notin TableKeys
     \/ spec.kind = "LIST" /\ spec.subtype = "OCITable" /\ spec.alias \in TableKeys
     \/ spec.kind = "TABLE" /\ spec.subtype = "none"
  BY SMTT(60) DEF Specs, Schema, TableKeys, FieldSpec,
       AccessDevice, AccessDeviceEndpointModify, ReplacementDeviceList,
       CallCenterReportAbandonedCallThresholdReplacementList,
       EnterpriseDepartmentKey, GroupDepartmentKey, ServiceInstanceReadProfile,
       GroupHuntGroupGetInstanceResponse14, EnterpriseVoiceVPNGetPolicyListResponse,
       ServiceProviderServicePackGetUtilizationListResponse, GroupDepartmentModifyRequest

\* Classes that are nested have fewer kinds of fields.
LEMMA NestedKinds ==
    /\ \A class \in Nested : \A spec \in Schema[class] : spec.kind = "SCALAR"
    /\ \A spec \in Schema["ServiceInstanceReadProfile"] :
       \/ spec.kind = "SCALAR"
       \/ spec.kind = "OBJECT" /\ spec.subtype = "DepartmentKey"
       \/ spec.kind = "LIST" /\ spec.subtype = "str"
  BY SMTT(60) DEF Schema, Nested, FieldSpec, AccessDevice, EnterpriseDepartmentKey,
        GroupDepartmentKey, ServiceInstanceReadProfile

\* Only a text or an object may be Nillable.
LEMMA Nillables ==
  \A class \in DOMAIN Schema : \A spec \in Schema[class] :
    spec.name \in Nillable(class) =>
      spec.kind \in {"SCALAR", "OBJECT"} /\ spec.subtype # "bool" /\ spec.subtype # "int"
  BY SMTT(60) DEF Schema, Nillable, FieldSpec, AccessDeviceEndpointModify,
        GroupDepartmentModifyRequest

\* No field of a class that is nested is Nillable.
LEMMA NestedNillables ==
  \A class \in Nested \cup {"ServiceInstanceReadProfile"} :
    Nillable(class) = {} /\ class \in DOMAIN Schema
  BY DEF Nested, Nillable, Schema

\* to_snake_case() gives each name for its alias.
LEMMA SnakeAlias == \A spec \in Specs : SnakeCase(spec.alias) = spec.name
<1> TAKE spec \in Specs
<1> DEFINE c == CHOOSE s \in Specs : s.alias = spec.alias
<1>1. c \in Specs /\ c.alias = spec.alias
  OBVIOUS
<1>2. c.name = spec.name
  BY <1>1, SpecFields, CamelInjective
<1> QED BY <1>2 DEF SnakeCase, Specs

-----------------------------------------------------------------------------
(* Values and dicts. *)

LEMMA TagsOfNone ==
  /\ None[1] = "None" /\ Nil[1] = "OCINil" /\ NilClass[1] = "class OCINil"
  /\ AttributeError[1] = "AttributeError"
  BY DEF None, Nil, NilClass, AttributeError

\* The types and the parts of the others.
LEMMA Tags ==
  \A x : /\ Str(x)[1] = "str" /\ Str(x)[2] = x
         /\ List(x)[1] = "list" /\ List(x)[2] = x
         /\ Dict(x)[1] = "dict" /\ Dict(x)[2] = x
         /\ Num(x)[1] = "int" /\ Num(x)[2] = x
         /\ Bool(x)[1] = "bool" /\ Bool(x)[2] = x
  BY DEF Str, List, Dict, Num, Bool

\* Tables and objects.
LEMMA TagsOfPairs ==
  \A x, y : /\ Table(x, y)[1] = "OCITable" /\ Table(x, y)[2] = x /\ Table(x, y)[3] = y
            /\ Obj(x, y)[1] = "obj" /\ Obj(x, y)[2] = x /\ Obj(x, y)[3] = y
  BY DEF Table, Obj

\* What a dict holds.
LEMMA DictParts == \A x : Is("dict", Dict(x)) /\ Keys(Dict(x)) = DOMAIN x /\ Dict(x)[2] = x
  BY Tags DEF Is, Keys

\* A class finds its fields by their names.
LEMMA SchemaOf ==
  ASSUME NEW class \in DOMAIN Schema
  PROVE  /\ \A spec \in Schema[class] : /\ SpecOf(class, spec.name) = spec
                                        /\ spec.name \in Names(class) /\ spec \in Specs
         /\ \A n \in Names(class) : /\ SpecOf(class, n) \in Schema[class]
                                    /\ SpecOf(class, n).name = n
<1>1. \A spec \in Schema[class] : spec.name \in Names(class) /\ spec \in Specs
  BY DEF Names, Specs
<1>2. \A n \in Names(class) : SpecOf(class, n) \in Schema[class] /\ SpecOf(class, n).name = n
  BY DEF Names, SpecOf
<1>3. QED BY <1>1, <1>2, NamesUnique

\* Within a class an alias belongs to one field.
LEMMA AliasUnique ==
  ASSUME NEW class \in DOMAIN Schema, NEW s \in Schema[class], NEW t \in Schema[class],
         s.alias = t.alias
  PROVE  s = t
<1>1. s \in Specs /\ t \in Specs
  BY SchemaOf
<1>2. s.name = t.name
  BY <1>1, SpecFields, CamelInjective
<1> QED BY <1>2, NamesUnique

\* The alias of a field is none of the keys that the parser looks for.
LEMMA AliasOrdinary ==
  ASSUME NEW spec \in Specs
  PROVE  /\ spec.alias \notin Marks \cup {"#text", "command", "attributes", "type"}
               \cup DOMAIN Schema
         /\ spec.name # "attributes"
  BY SpecFields, Aliases

\* The attributes are the marks.
LEMMA AttributeKeys == DOMAIN AttributeNames = Marks
  BY DEF AttributeNames, Marks

\* The dict of an object has the fields that are set and the class if need be.
LEMMA Assembling ==
  ASSUME NEW class \in DOMAIN Schema, NEW declared, NEW encoded
  PROVE  LET d == Assembled(class, declared, encoded)
         IN  /\ Is("dict", d)
             /\ Keys(d) = {spec.alias : spec \in {s \in Schema[class] : encoded[s.name] # None}}
                            \cup (IF declared = class THEN {} ELSE {"@xsi:type"})
             /\ \A spec \in Schema[class] :
                   encoded[spec.name] # None => d[2][spec.alias] = encoded[spec.name]
             /\ declared # class => d[2]["@xsi:type"] = Str(class)
<1> DEFINE sent == {spec \in Schema[class] : encoded[spec.name] # None}
           marks == IF declared = class THEN {} ELSE {"@xsi:type"}
           keys == {spec.alias : spec \in sent} \cup marks
           f == [k \in keys |-> IF k = "@xsi:type" THEN Str(class)
                                ELSE encoded[(CHOOSE spec \in sent : spec.alias = k).name]]
<1>1. Assembled(class, declared, encoded) = Dict(f)
  BY DEF Assembled
<1>2. ASSUME NEW spec \in sent PROVE f[spec.alias] = encoded[spec.name]
  <2>1. spec.alias # "@xsi:type" /\ spec.alias \in keys
    BY SchemaOf, AliasOrdinary DEF Marks
  <2>2. (CHOOSE s \in sent : s.alias = spec.alias) = spec
    BY AliasUnique
  <2> QED BY <2>1, <2>2
<1>3. declared # class => f["@xsi:type"] = Str(class)
  OBVIOUS
<1> HIDE DEF f
<1>4. DOMAIN f = keys
  BY DEF f
<1>5. Is("dict", Dict(f)) /\ Keys(Dict(f)) = keys /\ Dict(f)[2] = f
  BY <1>4, DictParts
<1>6. \A spec \in Schema[class] : encoded[spec.name] # None =>
         Dict(f)[2][spec.alias] = encoded[spec.name]
  BY <1>2, <1>5
<1>7. declared # class => Dict(f)[2]["@xsi:type"] = Str(class)
  BY <1>3, <1>5
<1> QED BY <1>1, <1>5, <1>6, <1>7

-----------------------------------------------------------------------------

\* Which keys of a dict the library keeps, and what is under them then.
LEMMA XmlDict ==
  ASSUME NEW v, Is("dict", v), NEW inner, NEW x, x = XmlNode(v, inner)
  PROVE  /\ x = None => /\ \A k \in Keys(v) \ Marks : XmlChild(v[2][k], inner[k]) = List(<<>>)
                        /\ \A k \in Keys(v) \cap Marks : v[2][k] = List(<<>>)
         /\ x # None =>
               /\ Is("dict", x)
               /\ Keys(x) \subseteq Keys(v)
               /\ \A k \in Keys(v) \ Marks :
                     /\ k \in Keys(x) <=> XmlChild(v[2][k], inner[k]) # List(<<>>)
                     /\ k \in Keys(x) => x[2][k] = XmlChild(v[2][k], inner[k])
               /\ \A k \in Keys(v) \cap Marks :
                     /\ k \in Keys(x) <=> v[2][k] # List(<<>>)
                     /\ k \in Keys(x) => x[2][k] = v[2][k]
<1> DEFINE back(k) == IF k \in Marks THEN v[2][k] ELSE XmlChild(v[2][k], inner[k])
           children == [k \in Keys(v) |-> back(k)]
           kept == {k \in Keys(v) : back(k) # List(<<>>)}
           f == [k \in kept |-> children[k]]
<1>1. XmlNode(v, inner) = XmlElement(children)
  BY AttributeKeys DEF XmlNode, XmlChildren
<1>2. DOMAIN children = Keys(v) /\ \A k \in Keys(v) : children[k] = back(k)
  OBVIOUS
<1>3. \A k \in kept : f[k] = back(k)
  OBVIOUS
<1>4. DOMAIN f = kept
  OBVIOUS
<1>5. {k \in DOMAIN children : children[k] # List(<<>>)} = kept
  BY <1>2
<1>6. XmlElement(children) = IF kept = {} THEN None ELSE Dict(f)
  BY <1>5 DEF XmlElement
<1> HIDE DEF f, children
<1>7. Dict(f) # None
  BY Tags, TagsOfNone
<1>8. Is("dict", Dict(f)) /\ Keys(Dict(f)) = kept /\ Dict(f)[2] = f
  BY <1>4, DictParts
<1>9. CASE kept = {}
  <2>1. x = None /\ \A k \in Keys(v) : back(k) = List(<<>>)
    BY <1>1, <1>6, <1>9
  <2> QED BY <2>1
<1>10. CASE kept # {}
  <2>1. x = Dict(f)
    BY <1>1, <1>6, <1>10
  <2> QED BY <2>1, <1>3, <1>7, <1>8
<1> QED BY <1>9, <1>10

\* What is no list is its only part.
LEMMA Parts ==
  ASSUME NEW v, ~Is("list", v)
  PROVE  DOMAIN AsList(v) = {1} /\ AsList(v)[1] = v
  BY DEF AsList

-----------------------------------------------------------------------------
(* One stage of the way at one level.  A dict stands for an object of a class *)
(* if it has the fields that val gives, under their aliases, and some marks. *)

ObjectMarks == {"@xmlns", "@xsi:type"}
AttributesKey == {"attributes"}
Under(marks) == IF marks = {} THEN {} ELSE AttributesKey

\* val gives the fields of the class that d holds beside the marks.
DictOf(d, class, marks, val) ==
    /\ Is("dict", d)
    /\ DOMAIN val \subseteq Names(class)
    /\ Keys(d) = {spec.alias : spec \in {s \in Schema[class] : s.name \in DOMAIN val}}
          \cup marks
    /\ \A spec \in Schema[class] : spec.name \in DOMAIN val => d[2][spec.alias] = val[spec.name]

\* The fields that are sent and what they are sent as, ...
EncodeFields(obj, inner, val) ==
    /\ DOMAIN val \subseteq Names(obj[2])
    /\ \A n \in Names(obj[2]) :
          LET sent == EncodeField(obj[3][n], SpecOf(obj[2], n), inner[n])
          IN  /\ n \in DOMAIN val <=> sent # None
              /\ n \in DOMAIN val => val[n] = sent

\* ... those that the library keeps and what is read of them ...
XmlFields(class, val, inner, back) ==
    /\ DOMAIN back \subseteq DOMAIN val
    /\ \A n \in DOMAIN val :
          LET child == XmlChild(val[n], inner[SpecOf(class, n).alias])
          IN  /\ n \in DOMAIN back <=> child # List(<<>>)
              /\ n \in DOMAIN back => back[n] = child

\* ... and what these are cleaned to.
CleanFields(class, val, inner, clean) ==
    /\ DOMAIN clean = DOMAIN val
    /\ \A n \in DOMAIN val : clean[n] = CleanChild(val[n], inner[SpecOf(class, n).alias])

\* The attributes of a cleaned dict name the class.
NamesClass(c, class) ==
    /\ Is("dict", c[2]["attributes"])
    /\ "type" \in Keys(c[2]["attributes"])
    /\ c[2]["attributes"][2]["type"] = Str(class)

\* An object becomes a dict that stands for it.
LEMMA EncodeStage ==
  ASSUME NEW obj, obj # NilClass, obj[2] \in DOMAIN Schema, NEW declared, NEW inner,
         NEW val, EncodeFields(obj, inner, val),
         NEW marks, marks = IF declared = obj[2] THEN {} ELSE {"@xsi:type"},
         NEW d, d = EncodeObject(obj, declared, inner)
  PROVE  /\ DictOf(d, obj[2], marks, val)
         /\ declared # obj[2] => d[2]["@xsi:type"] = Str(obj[2])
<1> DEFINE class == obj[2]
           encoded == [n \in Names(class) |-> EncodeField(obj[3][n], SpecOf(class, n),
              inner[n])]
<1>1. d = Assembled(class, declared, encoded)
  BY DEF EncodeObject
<1>2. \A n \in Names(class) : /\ encoded[n] = EncodeField(obj[3][n], SpecOf(class, n), inner[n])
                              /\ n \in DOMAIN val <=> encoded[n] # None
                              /\ n \in DOMAIN val => val[n] = encoded[n]
  BY DEF EncodeFields
<1>3. DOMAIN val \subseteq Names(class)
  BY DEF EncodeFields
<1> HIDE DEF encoded, class
<1>4. class \in DOMAIN Schema
  BY DEF class
<1>5. {s \in Schema[class] : encoded[s.name] # None} =
         {s \in Schema[class] : s.name \in DOMAIN val}
  BY <1>2, <1>4, SchemaOf
<1>6. /\ Is("dict", d)
      /\ Keys(d) = {spec.alias : spec \in {s \in Schema[class] : s.name \in DOMAIN val}}
                     \cup marks
      /\ \A spec \in Schema[class] :
            encoded[spec.name] # None => d[2][spec.alias] = encoded[spec.name]
      /\ declared # class => d[2]["@xsi:type"] = Str(class)
  BY <1>1, <1>4, <1>5, Assembling DEF class
<1>7. \A spec \in Schema[class] : spec.name \in DOMAIN val => d[2][spec.alias] = val[spec.name]
  BY <1>2, <1>4, <1>6, SchemaOf
<1> QED BY <1>3, <1>6, <1>7 DEF DictOf, class

\* A dict of which the library leaves nothing had nothing in it.
LEMMA XmlStageEmpty ==
  ASSUME NEW class \in DOMAIN Schema, NEW marks, marks \subseteq Marks, NEW val, NEW d,
         DictOf(d, class, marks, val), \A k \in marks : d[2][k] # List(<<>>),
         NEW inner,
         NEW back, XmlFields(class, val, inner, back),
         NEW x, x = XmlNode(d, inner), x = None
  PROVE  marks = {} /\ DOMAIN back = {}
<1>1. \A n \in DOMAIN val : /\ n \in DOMAIN back <=>
                                  XmlChild(val[n], inner[SpecOf(class, n).alias]) # List(<<>>)
                            /\ n \in DOMAIN back =>
                                  back[n] = XmlChild(val[n], inner[SpecOf(class, n).alias])
  BY DEF XmlFields
<1>2. DOMAIN back \subseteq DOMAIN val /\ DOMAIN val \subseteq Names(class)
  BY DEF DictOf, XmlFields
<1>3. \A spec \in Schema[class] : spec.alias \notin Marks
  BY SchemaOf, AliasOrdinary
<1>4. ASSUME NEW spec \in Schema[class], spec.name \in DOMAIN val
      PROVE  /\ spec.alias \in Keys(d) \ Marks
             /\ XmlChild(d[2][spec.alias], inner[spec.alias]) =
                   XmlChild(val[spec.name], inner[SpecOf(class, spec.name).alias])
  BY <1>3, <1>4, SchemaOf DEF DictOf
<1>5. marks = {} /\ DOMAIN back = {}
  <2>1. Is("dict", d) /\ marks \subseteq Keys(d)
    BY DEF DictOf
  <2>2. /\ \A k \in Keys(d) \ Marks : XmlChild(d[2][k], inner[k]) = List(<<>>)
        /\ \A k \in Keys(d) \cap Marks : d[2][k] = List(<<>>)
    BY <2>1, XmlDict
  <2>3. ASSUME NEW n \in DOMAIN val PROVE n \notin DOMAIN back
    <3>1. PICK spec \in Schema[class] : spec.name = n
      BY <1>2 DEF Names
    <3> QED BY <1>1, <1>4, <2>2, <3>1
  <2> QED BY <1>2, <2>1, <2>2, <2>3
<1> QED BY <1>5

\* A dict that stands for an object still does when it is parsed ...
LEMMA XmlStage ==
  ASSUME NEW class \in DOMAIN Schema, NEW marks, marks \subseteq Marks, NEW val, NEW d,
         DictOf(d, class, marks, val), \A k \in marks : d[2][k] # List(<<>>),
         NEW inner,
         NEW back, XmlFields(class, val, inner, back),
         NEW x, x = XmlNode(d, inner), x # None
  PROVE  DictOf(x, class, marks, back) /\ \A k \in marks : x[2][k] = d[2][k]
<1>1. \A n \in DOMAIN val : /\ n \in DOMAIN back <=>
                                  XmlChild(val[n], inner[SpecOf(class, n).alias]) # List(<<>>)
                            /\ n \in DOMAIN back =>
                                  back[n] = XmlChild(val[n], inner[SpecOf(class, n).alias])
  BY DEF XmlFields
<1>2. DOMAIN back \subseteq DOMAIN val /\ DOMAIN val \subseteq Names(class)
  BY DEF DictOf, XmlFields
<1>3. \A spec \in Schema[class] : spec.alias \notin Marks
  BY SchemaOf, AliasOrdinary
<1>4. ASSUME NEW spec \in Schema[class], spec.name \in DOMAIN val
      PROVE  /\ spec.alias \in Keys(d) \ Marks
             /\ XmlChild(d[2][spec.alias], inner[spec.alias]) =
                   XmlChild(val[spec.name], inner[SpecOf(class, spec.name).alias])
  BY <1>3, <1>4, SchemaOf DEF DictOf
<1>5. DictOf(x, class, marks, back) /\ \A k \in marks : x[2][k] = d[2][k]
  <2>1. /\ Is("dict", x)
        /\ Keys(x) \subseteq Keys(d)
        /\ \A k \in Keys(d) \ Marks :
              /\ k \in Keys(x) <=> XmlChild(d[2][k], inner[k]) # List(<<>>)
              /\ k \in Keys(x) => x[2][k] = XmlChild(d[2][k], inner[k])
        /\ \A k \in Keys(d) \cap Marks :
              /\ k \in Keys(x) <=> d[2][k] # List(<<>>)
              /\ k \in Keys(x) => x[2][k] = d[2][k]
    BY XmlDict DEF DictOf
  <2>2. \A k \in marks : k \in Keys(x) /\ x[2][k] = d[2][k]
    BY <2>1 DEF DictOf
  <2>3. ASSUME NEW spec \in Schema[class]
        PROVE  /\ spec.alias \in Keys(x) <=> spec.name \in DOMAIN back
               /\ spec.name \in DOMAIN back => x[2][spec.alias] = back[spec.name]
    <3>1. CASE spec.name \in DOMAIN val
      BY <1>1, <1>4, <2>1, <3>1
    <3>2. CASE spec.name \notin DOMAIN val
      <4>1. spec.alias \notin Keys(d)
        BY <1>3, <3>2, AliasUnique DEF DictOf
      <4> QED BY <1>2, <2>1, <3>2, <4>1
    <3> QED BY <3>1, <3>2
  <2>4. Keys(x) = {spec.alias : spec \in {s \in Schema[class] : s.name \in DOMAIN back}}
           \cup marks
    <3>1. ASSUME NEW k \in Keys(x)
          PROVE  k \in {spec.alias :
                    spec \in {s \in Schema[class] : s.name \in DOMAIN back}} \cup marks
      <4>1. k \in {spec.alias : spec \in {s \in Schema[class] : s.name \in DOMAIN val}}
               \cup marks
        BY <2>1 DEF DictOf
      <4> QED BY <2>3, <4>1
    <3> QED BY <2>2, <2>3, <3>1
  <2> QED BY <1>2, <2>1, <2>2, <2>3, <2>4 DEF DictOf
<1> QED BY <1>5

\* ... and when it is cleaned.
LEMMA CleanStage ==
  ASSUME NEW class \in DOMAIN Schema, NEW marks, marks \subseteq ObjectMarks, NEW val,
         NEW x, DictOf(x, class, marks, val), NEW key, key \notin TableKeys, NEW inner,
         NEW clean, CleanFields(class, val, inner, clean),
         NEW more, more = Under(marks),
         NEW c, c = CleanNode(key, x, inner)
  PROVE  /\ DictOf(c, class, more, clean)
         /\ "@xsi:type" \in marks /\ x[2]["@xsi:type"] = Str(class) => NamesClass(c, class)
<1> DEFINE aliases == {spec.alias : spec \in {s \in Schema[class] : s.name \in DOMAIN val}}
           f == [k \in aliases \cup more |->
                    IF k \in more THEN Dict(Attributes(x)) ELSE CleanChild(x[2][k], inner[k])]
<1>1. \A k \in aliases : k \notin Marks /\ k # "#text" /\ k # "attributes"
  BY SchemaOf, AliasOrdinary
<1>2. /\ Keys(x) = aliases \cup marks /\ Is("dict", x) /\ DOMAIN val \subseteq Names(class)
      /\ \A spec \in Schema[class] : spec.name \in DOMAIN val =>
            x[2][spec.alias] = val[spec.name]
  BY DEF DictOf
<1> HIDE DEF aliases
<1>3. Keys(x) \ DOMAIN AttributeNames = aliases
  BY <1>1, <1>2, AttributeKeys DEF Marks, ObjectMarks
<1>4. Keys(x) \subseteq aliases <=> marks = {}
  BY <1>1, <1>2 DEF Marks, ObjectMarks
<1>5. "#text" \notin Keys(x)
  BY <1>1, <1>2 DEF ObjectMarks
<1>6. c = CleanDict(x, inner)
  BY <1>2, <1>5 DEF CleanNode
<1>7. CleanDict(x, inner) = Dict(f)
  BY <1>3, <1>4 DEF CleanDict, Under, AttributesKey
<1>8. DOMAIN f = aliases \cup more
  OBVIOUS
<1>9. \A k \in aliases : f[k] = CleanChild(x[2][k], inner[k])
  BY <1>1 DEF Under, AttributesKey
<1>10. "attributes" \in more => f["attributes"] = Dict(Attributes(x))
  OBVIOUS
<1> HIDE DEF f
<1>11. Is("dict", c) /\ Keys(c) = aliases \cup more /\ c[2] = f
  BY <1>6, <1>7, <1>8, DictParts
<1>12. ASSUME NEW spec \in Schema[class], spec.name \in DOMAIN clean
       PROVE  c[2][spec.alias] = clean[spec.name]
  <2>1. spec.alias \in aliases
    BY <1>12 DEF aliases, CleanFields
  <2>2. f[spec.alias] = CleanChild(val[spec.name], inner[spec.alias])
    BY <1>2, <1>9, <1>12, <2>1 DEF CleanFields
  <2>3. spec.name \in DOMAIN val /\ SpecOf(class, spec.name) = spec
    BY <1>12, SchemaOf DEF CleanFields
  <2> QED BY <1>11, <2>2, <2>3 DEF CleanFields
<1>13. DictOf(c, class, more, clean)
  <2>1. DOMAIN clean = DOMAIN val
    BY DEF CleanFields
  <2> QED BY <1>2, <1>11, <1>12, <2>1 DEF DictOf, aliases
<1>14. ASSUME "@xsi:type" \in marks, x[2]["@xsi:type"] = Str(class)
       PROVE  NamesClass(c, class)
  <2>1. c[2]["attributes"] = Dict(Attributes(x))
    BY <1>10, <1>11, <1>14 DEF Under, AttributesKey
  <2>2. "type" \in DOMAIN Attributes(x) /\ Attributes(x)["type"] = x[2]["@xsi:type"]
    <3> DEFINE attrs == Keys(x) \cap DOMAIN AttributeNames
    <3>1. "@xsi:type" \in attrs
      BY <1>2, <1>14, AttributeKeys DEF Marks
    <3>2. "type" \in AttributeNames["@xsi:type"]
      BY DEF AttributeNames
    <3>3. \A a \in DOMAIN AttributeNames : "type" \in AttributeNames[a] => a = "@xsi:type"
      BY DEF AttributeNames
    <3>4. (CHOOSE a \in attrs : "type" \in AttributeNames[a]) = "@xsi:type"
      BY <3>1, <3>2, <3>3
    <3>5. "type" \in UNION {AttributeNames[a] : a \in attrs}
      BY <3>1, <3>2
    <3> QED BY <3>4, <3>5 DEF Attributes
  <2> QED BY <1>14, <2>1, <2>2, DictParts DEF NamesClass
<1> QED BY <1>13, <1>14

\* Such a dict is read as the class it stands for, field by field.
LEMMA DecodeStage ==
  ASSUME NEW declared \in DOMAIN Schema, NEW class \in {declared} \cup Descendants(declared),
         class \in DOMAIN Schema,
         NEW marks, marks \subseteq AttributesKey, NEW val,
         NEW c, DictOf(c, class, marks, val),
         class # declared => marks # {},
         marks # {} => NamesClass(c, class)
  PROVE  /\ Source(c, declared) = c
         /\ Concrete(declared, c) = class
         /\ DOMAIN Arguments(c, class) = DOMAIN val
         /\ \A n \in DOMAIN val : Arguments(c, class)[n] = val[n]
<1> DEFINE aliases == {spec.alias : spec \in {s \in Schema[class] : s.name \in DOMAIN val}}
<1>1. /\ Keys(c) = aliases \cup marks /\ DOMAIN val \subseteq Names(class)
      /\ \A spec \in Schema[class] : spec.name \in DOMAIN val =>
            c[2][spec.alias] = val[spec.name]
  BY DEF DictOf
<1>2. \A k \in aliases : k # "command" /\ k \notin DOMAIN Schema /\ k # "attributes"
  BY SchemaOf, AliasOrdinary
<1>3. "attributes" \notin DOMAIN Schema
  BY DEF Schema
<1>4. Source(c, declared) = c
  BY <1>1, <1>2, <1>3 DEF Source, AttributesKey
<1>5. Concrete(declared, c) = class
  <2>1. "attributes" \in Keys(c) <=> marks # {}
    BY <1>1, <1>2 DEF AttributesKey
  <2>2. Str(class)[2] = class
    BY Tags
  <2>3. class \in Descendants(declared) <=> class # declared
    BY DEF Descendants
  <2>4. CASE marks = {}
    BY <2>1, <2>4 DEF Concrete
  <2>5. CASE marks # {}
    BY <2>1, <2>2, <2>3, <2>5 DEF Concrete, NamesClass
  <2> QED BY <2>4, <2>5
<1> DEFINE keys(name) == {k \in Keys(c) : SnakeCase(k) = name}
<1>6. SnakeCase("attributes") = "attributes"
  BY SchemaOf, AliasOrdinary DEF SnakeCase, Specs
<1>7. ASSUME NEW spec \in Schema[class]
      PROVE  keys(spec.name) = IF spec.name \in DOMAIN val THEN {spec.alias} ELSE {}
  <2>1. spec \in Specs /\ spec.name # "attributes"
    BY SchemaOf, AliasOrdinary
  <2>2. ASSUME NEW k \in keys(spec.name) PROVE k = spec.alias /\ spec.name \in DOMAIN val
    <3>1. k # "attributes"
      BY <1>6, <2>1
    <3>2. PICK s \in Schema[class] : s.name \in DOMAIN val /\ s.alias = k
      BY <1>1, <3>1 DEF AttributesKey
    <3>3. s.name = spec.name
      BY <3>2, SchemaOf, SnakeAlias
    <3> QED BY <3>2, <3>3, NamesUnique
  <2>3. ASSUME spec.name \in DOMAIN val PROVE spec.alias \in keys(spec.name)
    BY <1>1, <2>1, <2>3, SnakeAlias
  <2> QED BY <2>2, <2>3
<1> HIDE DEF aliases
<1> DEFINE args == [name \in {n \in Names(class) : keys(n) # {}} |->
                       c[2][CHOOSE k \in keys(name) : TRUE]]
<1>8. Arguments(c, class) = args
  BY DEF Arguments
<1>9. ASSUME NEW n \in Names(class)
      PROVE  /\ n \in DOMAIN args <=> n \in DOMAIN val
             /\ n \in DOMAIN val => args[n] = val[n]
  <2>1. PICK spec \in Schema[class] : spec.name = n
    BY DEF Names
  <2>2. keys(n) = IF n \in DOMAIN val THEN {spec.alias} ELSE {}
    BY <1>7, <2>1
  <2>3. n \in DOMAIN args <=> keys(n) # {}
    OBVIOUS
  <2>4. ASSUME n \in DOMAIN val PROVE args[n] = val[n]
    <3>1. keys(n) = {spec.alias}
      BY <2>2, <2>4
    <3>2. (CHOOSE k \in keys(n) : TRUE) = spec.alias
      BY <3>1
    <3> QED BY <1>1, <2>1, <2>3, <2>4, <3>1, <3>2
  <2> QED BY <2>2, <2>3, <2>4
<1>10. DOMAIN args \subseteq Names(class)
  OBVIOUS
<1> QED BY <1>1, <1>4, <1>5, <1>8, <1>9, <1>10

-----------------------------------------------------------------------------
(* The whole way of an object at one level, given what becomes of each field: *)
(* the field n is sent as s[n], parsed as p[n], cleaned as q[n], read as r[n].*)

\* A class that may stand where another one is declared.
StandsFor(class, declared) ==
    /\ declared \in DOMAIN Schema
    /\ class \in DOMAIN Schema
    /\ class \in {declared} \cup Descendants(declared)

\* The marks of a dict on the wire.
Marked(e, marks, class, declared) ==
    /\ marks \subseteq ObjectMarks
    /\ class # declared => marks # {}
    /\ marks # {} => "@xsi:type" \in marks /\ e[2]["@xsi:type"] = Str(class)
    /\ \A k \in marks : e[2][k] # List(<<>>)

\* The fields that are sent.
Sends(class, s, val) ==
    /\ DOMAIN val \subseteq Names(class)
    /\ \A n \in Names(class) : /\ n \in DOMAIN val <=> s[n] # None
                               /\ n \in DOMAIN val => val[n] = s[n]

\* The fields that are there when the dict is parsed.
Arrives(class, s, p, has) ==
    /\ has \subseteq Names(class)
    /\ \A n \in Names(class) : n \in has <=> s[n] # None /\ p[n] # List(<<>>)

\* What the fields are parsed to, given what is inside them, ...
ParsesTo(class, val, X, p) ==
    \A n \in DOMAIN val : XmlChild(val[n], X[SpecOf(class, n).alias]) = p[n]

\* ... and cleaned to.
CleansTo(class, x, has, C, p, q) ==
    \A n \in has : x[2][SpecOf(class, n).alias] = p[n] =>
                      CleanChild(p[n], C[SpecOf(class, n).alias]) = q[n]

\* The keys of these fields.
AliasesOf(class, has) == {SpecOf(class, n).alias : n \in has}

\* A dict that holds the values of val for the fields in has.
Holds(d, class, has, marks, val) ==
    /\ Is("dict", d)
    /\ Keys(d) = AliasesOf(class, has) \cup marks
    /\ \A n \in has : d[2][SpecOf(class, n).alias] = val[n]

\* The values of a dict that stands for an object, by the names of the fields.
LEMMA DictHolds ==
  ASSUME NEW class \in DOMAIN Schema, NEW d, NEW marks, NEW val, NEW has, NEW p,
         DictOf(d, class, marks, val), DOMAIN val = has, \A n \in has : val[n] = p[n]
  PROVE  Holds(d, class, has, marks, p)
<1>1. has \subseteq Names(class)
  BY DEF DictOf
<1>2. \A n \in has : SpecOf(class, n) \in Schema[class] /\ SpecOf(class, n).name = n
  BY <1>1, SchemaOf
<1>3. {spec.alias : spec \in {t \in Schema[class] : t.name \in has}} = AliasesOf(class, has)
  BY <1>2, SchemaOf DEF AliasesOf
<1> QED BY <1>2, <1>3 DEF DictOf, Holds

\* Nothing is left of a dict if nothing was sent.
LEMMA JourneyXmlEmpty ==
  ASSUME NEW class, NEW declared, StandsFor(class, declared), NEW marks, NEW e,
         Marked(e, marks, class, declared),
         NEW s, NEW val, Sends(class, s, val), DictOf(e, class, marks, val),
         NEW X, NEW p, ParsesTo(class, val, X, p),
         NEW has, Arrives(class, s, p, has),
         NEW back, DOMAIN back = has, \A n \in has : back[n] = p[n],
         XmlNode(e, X) = None
  PROVE  marks = {} /\ has = {}
<1>1. XmlFields(class, val, X, back)
  BY DEF XmlFields, ParsesTo, Sends, Arrives
<1>2. class \in DOMAIN Schema
  BY DEF StandsFor
<1>3. marks \subseteq Marks
  BY DEF Marked, Marks, ObjectMarks
<1>4. \A k \in marks : e[2][k] # List(<<>>)
  BY DEF Marked
<1>5. marks = {} /\ DOMAIN back = {}
  BY <1>1, <1>2, <1>3, <1>4, XmlStageEmpty
<1> QED BY <1>5

\* The library gives back the fields that arrive, and the marks.
LEMMA JourneyXml ==
  ASSUME NEW class, NEW declared, StandsFor(class, declared), NEW marks, NEW e,
         Marked(e, marks, class, declared),
         NEW s, NEW val, Sends(class, s, val), DictOf(e, class, marks, val),
         NEW X, NEW p, ParsesTo(class, val, X, p),
         NEW has, Arrives(class, s, p, has),
         NEW back, DOMAIN back = has, \A n \in has : back[n] = p[n],
         XmlNode(e, X) # None
  PROVE  /\ DictOf(XmlNode(e, X), class, marks, back)
         /\ \A k \in marks : XmlNode(e, X)[2][k] = e[2][k]
<1>1. XmlFields(class, val, X, back)
  BY DEF XmlFields, ParsesTo, Sends, Arrives
<1>2. class \in DOMAIN Schema
  BY DEF StandsFor
<1>3. marks \subseteq Marks
  BY DEF Marked, Marks, ObjectMarks
<1>4. \A k \in marks : e[2][k] # List(<<>>)
  BY DEF Marked
<1>5. DictOf(XmlNode(e, X), class, marks, back)
  BY <1>1, <1>2, <1>3, <1>4, XmlStage
<1>6. \A k \in marks : XmlNode(e, X)[2][k] = e[2][k]
  <2>1. \A k \in marks : k \in Keys(e) \cap Marks
    BY <1>3 DEF DictOf
  <2>2. Is("dict", e)
    BY DEF DictOf
  <2> QED BY <1>4, <2>1, <2>2, XmlDict
<1> QED BY <1>5, <1>6

\* Cleaning keeps those fields ...
LEMMA JourneyClean ==
  ASSUME NEW class, NEW declared, StandsFor(class, declared), NEW marks, NEW e,
         Marked(e, marks, class, declared),
         NEW x, NEW has, NEW back, DictOf(x, class, marks, back),
         \A k \in marks : x[2][k] = e[2][k],
         NEW p, DOMAIN back = has, \A n \in has : back[n] = p[n],
         NEW key, key \notin TableKeys,
         NEW C, NEW q, CleansTo(class, x, has, C, p, q),
         NEW clean, DOMAIN clean = has, \A n \in has : clean[n] = q[n]
  PROVE  DictOf(CleanNode(key, x, C), class, Under(marks), clean)
<1>1. Holds(x, class, has, marks, p)
  BY DictHolds DEF StandsFor
<1>2. CleanFields(class, back, C, clean)
  BY <1>1 DEF CleanFields, CleansTo, Holds
<1>3. class \in DOMAIN Schema
  BY DEF StandsFor
<1>4. marks \subseteq ObjectMarks
  BY DEF Marked
<1> QED BY <1>2, <1>3, <1>4, CleanStage

\* ... and the class, if it was marked.
LEMMA JourneyCleanMarks ==
  ASSUME NEW class, NEW declared, StandsFor(class, declared), NEW marks, NEW e,
         Marked(e, marks, class, declared),
         NEW x, NEW has, NEW back, DictOf(x, class, marks, back),
         \A k \in marks : x[2][k] = e[2][k],
         NEW p, DOMAIN back = has, \A n \in has : back[n] = p[n],
         NEW key, key \notin TableKeys,
         NEW C, NEW q, CleansTo(class, x, has, C, p, q),
         NEW clean, DOMAIN clean = has, \A n \in has : clean[n] = q[n],
         marks # {}
  PROVE  NamesClass(CleanNode(key, x, C), class)
<1>1. Holds(x, class, has, marks, p)
  BY DictHolds DEF StandsFor
<1>2. CleanFields(class, back, C, clean)
  BY <1>1 DEF CleanFields, CleansTo, Holds
<1>3. class \in DOMAIN Schema
  BY DEF StandsFor
<1>4. marks \subseteq ObjectMarks
  BY DEF Marked
<1>5. "@xsi:type" \in marks /\ x[2]["@xsi:type"] = Str(class)
  BY DEF Marked
<1> QED BY <1>2, <1>3, <1>4, <1>5, CleanStage

\* Decoding finds the class and the fields that arrived.
LEMMA JourneyDecode ==
  ASSUME NEW class, NEW declared, StandsFor(class, declared), NEW marks, NEW e,
         Marked(e, marks, class, declared),
         NEW c, NEW has, NEW clean, DictOf(c, class, Under(marks), clean), DOMAIN clean = has,
         marks # {} => NamesClass(c, class),
         NEW q, \A n \in has : clean[n] = q[n]
  PROVE  /\ Source(c, declared) = c
         /\ Concrete(declared, c) = class
         /\ DOMAIN Arguments(c, class) = has
         /\ \A n \in has : Arguments(c, class)[n] = q[n]
<1>1. /\ declared \in DOMAIN Schema
      /\ class \in DOMAIN Schema
      /\ class \in {declared} \cup Descendants(declared)
  BY DEF StandsFor
<1>2. /\ Under(marks) \subseteq AttributesKey
      /\ class # declared => Under(marks) # {}
      /\ Under(marks) # {} => NamesClass(c, class)
  BY DEF Under, AttributesKey, Marked
<1>3. Source(c, declared) = c
  BY <1>1, <1>2, DecodeStage
<1>4. Concrete(declared, c) = class
  BY <1>1, <1>2, DecodeStage
<1>5. DOMAIN Arguments(c, class) = has
  BY <1>1, <1>2, DecodeStage
<1>6. \A n \in has : Arguments(c, class)[n] = q[n]
  BY <1>1, <1>2, DecodeStage
<1> QED BY <1>3, <1>4, <1>5, <1>6

-----------------------------------------------------------------------------
(* What becomes of one field of an object, at each of the three levels: sent, *)
(* parsed, cleaned and read.                                                  *)

Sent1(v, spec) == EncodeField(v, spec, <<>>)
Parsed1(e) == XmlChild(e, Map(XmlText, AsList(e)))
Cleaned1(key, x) == CleanChild(x, Map(CleanText, AsList(x)))
Read1(c, spec) == DecodeField(c, spec, <<>>)

\* The fields that are there when the object is parsed, what such a field is when
\* it is read, and the object that is read.
Has1(obj) ==
    {n \in Names(obj[2]) :
        LET sent == Sent1(obj[3][n], SpecOf(obj[2], n))
        IN  sent # None /\ Parsed1(sent) # List(<<>>)}
Came1(v, spec) == Read1(Cleaned1(spec.alias, Parsed1(Sent1(v, spec))), spec)
Back1(obj) ==
    New(obj[2], [n \in Names(obj[2]) |->
        IF n \in Has1(obj) THEN Came1(obj[3][n], SpecOf(obj[2], n)) ELSE None])

Sent2(v, spec) ==
    EncodeField(v, spec, [i \in DOMAIN AsList(v) |-> Encode1(AsList(v)[i], spec.subtype)])
Parsed2(e) == XmlChild(e, Map(ThroughXml1, AsList(e)))
Cleaned2(key, x) == CleanChild(x, [i \in DOMAIN AsList(x) |-> Clean1(key, AsList(x)[i])])
Read2(c, spec) ==
    DecodeField(c, spec, [i \in DOMAIN AsList(c) |-> Decode1(AsList(c)[i], spec.subtype)])

Has2(obj) ==
    {n \in Names(obj[2]) :
        LET sent == Sent2(obj[3][n], SpecOf(obj[2], n))
        IN  sent # None /\ Parsed2(sent) # List(<<>>)}
Came2(v, spec) == Read2(Cleaned2(spec.alias, Parsed2(Sent2(v, spec))), spec)
Back2(obj) ==
    New(obj[2], [n \in Names(obj[2]) |->
        IF n \in Has2(obj) THEN Came2(obj[3][n], SpecOf(obj[2], n)) ELSE None])

Sent3(v, spec) ==
    EncodeField(v, spec, [i \in DOMAIN AsList(v) |-> EncodePart(AsList(v)[i], spec.subtype)])
Parsed3(e) == XmlChild(e, Map(ThroughXml2, AsList(e)))
Cleaned3(key, x) == CleanChild(x, [i \in DOMAIN AsList(x) |-> Clean2(key, AsList(x)[i])])
Read3(c, spec) ==
    DecodeField(c, spec, [i \in DOMAIN AsList(c) |-> DecodePart(AsList(c)[i], spec.subtype)])

Has3(obj) ==
    {n \in Names(obj[2]) :
        LET sent == Sent3(obj[3][n], SpecOf(obj[2], n))
        IN  sent # None /\ Parsed3(sent) # List(<<>>)}
Came3(v, spec) == Read3(Cleaned3(spec.alias, Parsed3(Sent3(v, spec))), spec)
Back3(obj) ==
    New(obj[2], [n \in Names(obj[2]) |->
        IF n \in Has3(obj) THEN Came3(obj[3][n], SpecOf(obj[2], n)) ELSE None])

\* An object comes back with those of its fields that arrive, each one read for
\* itself: at the first level, where a field holds neither objects nor tables, ...
LEMMA Level1 ==
  ASSUME NEW obj, obj # NilClass, NEW declared, StandsFor(obj[2], declared),
         NEW key, key \notin TableKeys,
         NEW e, e = Encode1(obj, declared), NEW x, x = ThroughXml1(e), NEW c, c = Clean1(key, x)
  PROVE  /\ Is("dict", e)
         /\ x = None => obj[2] = declared /\ Has1(obj) = {}
         /\ x # None =>
               /\ Is("dict", x) /\ "@C:nil" \notin Keys(x)
               /\ Is("dict", c)
               /\ Decode1(c, declared) = Back1(obj)
<1> DEFINE class == obj[2]
           marks == IF declared = class THEN {} ELSE {"@xsi:type"}
           E == [n \in Names(class) |-> <<>>]
           s == [n \in Names(class) |-> Sent1(obj[3][n], SpecOf(class, n))]
           p == [n \in Names(class) |-> Parsed1(s[n])]
           q == [n \in Names(class) |-> Cleaned1(SpecOf(class, n).alias, p[n])]
           r == [n \in Names(class) |-> Read1(q[n], SpecOf(class, n))]
           has == Has1(obj)
           val == [n \in {m \in Names(class) : s[m] # None} |-> s[n]]
           back == [n \in has |-> p[n]]
           clean == [n \in has |-> q[n]]
           X == [k \in Keys(e) |-> Map(XmlText, AsList(e[2][k]))]
           C == [k \in Keys(x) |-> Map(CleanText, AsList(x[2][k]))]
           args == Arguments(c, class)
           D == [n \in Names(class) |-> <<>>]
<1>1. StandsFor(class, declared) /\ class \in DOMAIN Schema
  BY DEF StandsFor
<1>2. Arrives(class, s, p, has) /\ Sends(class, s, val)
  BY DEF Arrives, Sends, Has1
<1>3. \A n \in Names(class) : E[n] = E[n] /\ EncodeField(obj[3][n], SpecOf(class, n), E[n]) =
         s[n]
  BY DEF Sent1
<1>4. EncodeFields(obj, E, val)
  BY <1>2, <1>3 DEF EncodeFields, Sends
<1> HIDE DEF val, E
<1>5. e = EncodeObject(obj, declared, E)
  BY DEF Encode1, E
<1>6. DictOf(e, class, marks, val) /\ (declared # class => e[2]["@xsi:type"] = Str(class))
  BY <1>1, <1>4, <1>5, EncodeStage
<1>7. Str(class) # List(<<>>)
  BY Tags
<1>8. DictOf(e, class, marks, val) /\ Marked(e, marks, class, declared)
  BY <1>6, <1>7 DEF Marked, ObjectMarks
<1>9. \A n \in Names(class) : SpecOf(class, n) \in Schema[class] /\ SpecOf(class, n).name = n
  BY <1>1, SchemaOf
<1>10. \A n \in DOMAIN val : /\ SpecOf(class, n).alias \in Keys(e)
                             /\ e[2][SpecOf(class, n).alias] = val[n]
                             /\ val[n] = s[n] /\ n \in Names(class)
  BY <1>2, <1>8, <1>9 DEF DictOf, Sends
<1>11. ParsesTo(class, val, X, p)
  BY <1>10 DEF ParsesTo, Parsed1
<1>12. x = XmlNode(e, X)
  BY DEF ThroughXml1
<1>13. has \subseteq Names(class)
  BY <1>2 DEF Arrives
<1> HIDE DEF marks, X, s, has
<1>14. DOMAIN back = has /\ \A n \in has : back[n] = p[n]
  OBVIOUS
<1>15. DOMAIN clean = has /\ \A n \in has : clean[n] = q[n]
  OBVIOUS
<1> HIDE DEF back
<1>16. ASSUME x = None PROVE marks = {} /\ has = {}
  <2> HIDE DEF p
  <2>1. XmlNode(e, X) = None
    BY <1>12, <1>16
  <2> QED BY <1>1, <1>2, <1>8, <1>11, <1>14, <2>1, JourneyXmlEmpty
<1>17. ASSUME x # None PROVE DictOf(x, class, marks, back)
  <2> HIDE DEF p
  <2> QED BY <1>1, <1>2, <1>8, <1>11, <1>12, <1>17, <1>14, JourneyXml
<1>18. ASSUME x # None, NEW k \in marks PROVE x[2][k] = e[2][k]
  <2> HIDE DEF p
  <2> QED BY <1>1, <1>2, <1>8, <1>11, <1>12, <1>18, <1>14, JourneyXml
<1>19. ASSUME x # None PROVE Holds(x, class, has, marks, p)
  <2> HIDE DEF p
  <2> QED BY <1>1, <1>17, <1>14, <1>19, DictHolds
<1>20. ASSUME x # None, NEW n \in has
       PROVE  /\ SpecOf(class, n).alias \in Keys(x)
              /\ x[2][SpecOf(class, n).alias] = p[n]
  BY <1>19, <1>20 DEF Holds, AliasesOf
<1>21. ASSUME x # None PROVE CleansTo(class, x, has, C, p, q)
  BY <1>13, <1>20, <1>21 DEF CleansTo, Cleaned1
<1>22. c = CleanNode(key, x, C)
  BY DEF Clean1
<1>23. key \notin TableKeys
  BY DEF TableKeys
<1>24. ASSUME x # None
       PROVE  /\ DictOf(c, class, Under(marks), clean)
              /\ marks # {} => NamesClass(c, class)
  <2>1. DictOf(x, class, marks, back) /\ \A k \in marks : x[2][k] = e[2][k]
    BY <1>17, <1>18, <1>24
  <2> HIDE DEF C, p, q, clean
  <2>2. CleansTo(class, x, has, C, p, q)
    BY <1>21, <1>24
  <2>3. DictOf(c, class, Under(marks), clean)
    BY <1>1, <1>8, <1>14, <1>15, <1>22, <1>23, <2>1, <2>2, JourneyClean
  <2>4. ASSUME marks # {} PROVE NamesClass(c, class)
    BY <1>1, <1>8, <1>14, <1>15, <1>22, <1>23, <2>1, <2>2, <2>4, JourneyCleanMarks
  <2> QED BY <2>3, <2>4
<1> HIDE DEF clean
<1>25. ASSUME x # None PROVE Holds(c, class, has, Under(marks), q)
  <2> HIDE DEF q
  <2> QED BY <1>1, <1>15, <1>24, <1>25, DictHolds
<1>26. ASSUME x # None
       PROVE  /\ Source(c, declared) = c
              /\ Concrete(declared, c) = class
              /\ DOMAIN args = has
              /\ \A n \in has : args[n] = q[n]
  <2> HIDE DEF q, class
  <2> QED BY <1>1, <1>8, <1>15, <1>24, <1>26, JourneyDecode DEF class
<1>27. ASSUME x # None PROVE Decode1(c, declared) = DecodeObject(class, args, D)
  <2>1. Source(c, declared) = c /\ Concrete(declared, c) = class
    BY <1>26, <1>27
  <2> HIDE DEF class
  <2> QED BY <2>1 DEF Decode1, class
<1>28. ASSUME x # None, NEW n \in has
       PROVE  /\ n \in DOMAIN args
              /\ DecodeField(args[n], SpecOf(class, n), D[n]) =
                    Came1(obj[3][n], SpecOf(class, n))
  <2>1. n \in DOMAIN args /\ args[n] = q[n] /\ n \in Names(class)
    BY <1>13, <1>26, <1>28
  <2>2. q[n] = Cleaned1(SpecOf(class, n).alias, Parsed1(Sent1(obj[3][n], SpecOf(class, n))))
    BY <2>1 DEF s
  <2> HIDE DEF args, q
  <2>3. DecodeField(args[n], SpecOf(class, n), D[n]) = Read1(args[n], SpecOf(class, n))
    BY <2>1 DEF Read1
  <2> QED BY <2>1, <2>2, <2>3 DEF Came1
<1>29. ASSUME x # None PROVE Decode1(c, declared) = Back1(obj)
  <2>1. [n \in Names(class) |->
            IF n \in DOMAIN args THEN DecodeField(args[n], SpecOf(class, n), D[n]) ELSE None]
        = [n \in Names(class) |->
              IF n \in has THEN Came1(obj[3][n], SpecOf(class, n)) ELSE None]
    <3>1. DOMAIN args = has
      BY <1>26, <1>29
    <3> HIDE DEF args, D
    <3> QED BY <1>28, <1>29, <3>1
  <2>2. DecodeObject(class, args, D) =
           New(class, [n \in Names(class) |->
              IF n \in has THEN Came1(obj[3][n], SpecOf(class, n)) ELSE None])
    <3> HIDE DEF args, D
    <3> QED BY <2>1 DEF DecodeObject
  <2>3. Back1(obj) = New(class, [n \in Names(class) |->
              IF n \in has THEN Came1(obj[3][n], SpecOf(class, n)) ELSE None])
    BY DEF Back1, has
  <2> HIDE DEF D, args
  <2> QED BY <1>27, <1>29, <2>2, <2>3
<1>30. ASSUME x # None PROVE Is("dict", x) /\ "@C:nil" \notin Keys(x)
  <2>1. "@C:nil" \notin marks
    BY DEF marks
  <2>2. "@C:nil" \notin AliasesOf(class, has)
    <3>1. \A spec \in Schema[class] : spec.alias # "@C:nil"
      BY <1>1, SchemaOf, AliasOrdinary DEF Marks
    <3> QED BY <1>9, <1>13, <3>1 DEF AliasesOf
  <2> QED BY <1>19, <1>30, <2>1, <2>2 DEF Holds
<1>31. ASSUME x # None PROVE Is("dict", c)
  BY <1>25, <1>31 DEF Holds
<1>32. Is("dict", e)
  BY <1>8 DEF DictOf
<1>33. x = None => class = declared /\ has = {}
  BY <1>16 DEF marks
<1> HIDE DEF p, q
<1> QED BY <1>29, <1>30, <1>31, <1>32, <1>33 DEF has, class

\* ... at the second one, whose fields hold objects of the first, ...
LEMMA Level2 ==
  ASSUME NEW obj, obj # NilClass, NEW declared, StandsFor(obj[2], declared),
         NEW key, key \notin TableKeys,
         NEW e, e = Encode2(obj, declared), NEW x, x = ThroughXml2(e), NEW c, c = Clean2(key, x)
  PROVE  /\ Is("dict", e)
         /\ x = None => obj[2] = declared /\ Has2(obj) = {}
         /\ x # None =>
               /\ Is("dict", x) /\ "@C:nil" \notin Keys(x)
               /\ Is("dict", c)
               /\ Decode2(c, declared) = Back2(obj)
<1> DEFINE class == obj[2]
           marks == IF declared = class THEN {} ELSE {"@xsi:type"}
           E == [n \in Names(class) |->
                    [i \in DOMAIN AsList(obj[3][n]) |->
                        Encode1(AsList(obj[3][n])[i], SpecOf(class, n).subtype)]]
           s == [n \in Names(class) |-> Sent2(obj[3][n], SpecOf(class, n))]
           p == [n \in Names(class) |-> Parsed2(s[n])]
           q == [n \in Names(class) |-> Cleaned2(SpecOf(class, n).alias, p[n])]
           r == [n \in Names(class) |-> Read2(q[n], SpecOf(class, n))]
           has == Has2(obj)
           val == [n \in {m \in Names(class) : s[m] # None} |-> s[n]]
           back == [n \in has |-> p[n]]
           clean == [n \in has |-> q[n]]
           X == [k \in Keys(e) |-> Map(ThroughXml1, AsList(e[2][k]))]
           C == [k \in Keys(x) |->
                    [i \in DOMAIN AsList(x[2][k]) |-> Clean1(k, AsList(x[2][k])[i])]]
           args == Arguments(c, class)
           D == [n \in DOMAIN args |->
                    [i \in DOMAIN AsList(args[n]) |->
                        Decode1(AsList(args[n])[i], SpecOf(class, n).subtype)]]
<1>1. StandsFor(class, declared) /\ class \in DOMAIN Schema
  BY DEF StandsFor
<1>2. Arrives(class, s, p, has) /\ Sends(class, s, val)
  BY DEF Arrives, Sends, Has2
<1>3. \A n \in Names(class) : E[n] = E[n] /\ EncodeField(obj[3][n], SpecOf(class, n), E[n]) =
         s[n]
  BY DEF Sent2
<1>4. EncodeFields(obj, E, val)
  BY <1>2, <1>3 DEF EncodeFields, Sends
<1> HIDE DEF val, E
<1>5. e = EncodeObject(obj, declared, E)
  BY DEF Encode2, E
<1>6. DictOf(e, class, marks, val) /\ (declared # class => e[2]["@xsi:type"] = Str(class))
  BY <1>1, <1>4, <1>5, EncodeStage
<1>7. Str(class) # List(<<>>)
  BY Tags
<1>8. DictOf(e, class, marks, val) /\ Marked(e, marks, class, declared)
  BY <1>6, <1>7 DEF Marked, ObjectMarks
<1>9. \A n \in Names(class) : SpecOf(class, n) \in Schema[class] /\ SpecOf(class, n).name = n
  BY <1>1, SchemaOf
<1>10. \A n \in DOMAIN val : /\ SpecOf(class, n).alias \in Keys(e)
                             /\ e[2][SpecOf(class, n).alias] = val[n]
                             /\ val[n] = s[n] /\ n \in Names(class)
  BY <1>2, <1>8, <1>9 DEF DictOf, Sends
<1>11. ParsesTo(class, val, X, p)
  BY <1>10 DEF ParsesTo, Parsed2
<1>12. x = XmlNode(e, X)
  BY DEF ThroughXml2
<1>13. has \subseteq Names(class)
  BY <1>2 DEF Arrives
<1> HIDE DEF marks, X, s, has
<1>14. DOMAIN back = has /\ \A n \in has : back[n] = p[n]
  OBVIOUS
<1>15. DOMAIN clean = has /\ \A n \in has : clean[n] = q[n]
  OBVIOUS
<1> HIDE DEF back
<1>16. ASSUME x = None PROVE marks = {} /\ has = {}
  <2> HIDE DEF p
  <2>1. XmlNode(e, X) = None
    BY <1>12, <1>16
  <2> QED BY <1>1, <1>2, <1>8, <1>11, <1>14, <2>1, JourneyXmlEmpty
<1>17. ASSUME x # None PROVE DictOf(x, class, marks, back)
  <2> HIDE DEF p
  <2> QED BY <1>1, <1>2, <1>8, <1>11, <1>12, <1>17, <1>14, JourneyXml
<1>18. ASSUME x # None, NEW k \in marks PROVE x[2][k] = e[2][k]
  <2> HIDE DEF p
  <2> QED BY <1>1, <1>2, <1>8, <1>11, <1>12, <1>18, <1>14, JourneyXml
<1>19. ASSUME x # None PROVE Holds(x, class, has, marks, p)
  <2> HIDE DEF p
  <2> QED BY <1>1, <1>17, <1>14, <1>19, DictHolds
<1>20. ASSUME x # None, NEW n \in has
       PROVE  /\ SpecOf(class, n).alias \in Keys(x)
              /\ x[2][SpecOf(class, n).alias] = p[n]
  BY <1>19, <1>20 DEF Holds, AliasesOf
<1>21. ASSUME x # None PROVE CleansTo(class, x, has, C, p, q)
  BY <1>13, <1>20, <1>21 DEF CleansTo, Cleaned2
<1>22. c = CleanNode(key, x, C)
  BY DEF Clean2
<1>23. key \notin TableKeys
  BY DEF TableKeys
<1>24. ASSUME x # None
       PROVE  /\ DictOf(c, class, Under(marks), clean)
              /\ marks # {} => NamesClass(c, class)
  <2>1. DictOf(x, class, marks, back) /\ \A k \in marks : x[2][k] = e[2][k]
    BY <1>17, <1>18, <1>24
  <2> HIDE DEF C, p, q, clean
  <2>2. CleansTo(class, x, has, C, p, q)
    BY <1>21, <1>24
  <2>3. DictOf(c, class, Under(marks), clean)
    BY <1>1, <1>8, <1>14, <1>15, <1>22, <1>23, <2>1, <2>2, JourneyClean
  <2>4. ASSUME marks # {} PROVE NamesClass(c, class)
    BY <1>1, <1>8, <1>14, <1>15, <1>22, <1>23, <2>1, <2>2, <2>4, JourneyCleanMarks
  <2> QED BY <2>3, <2>4
<1> HIDE DEF clean
<1>25. ASSUME x # None PROVE Holds(c, class, has, Under(marks), q)
  <2> HIDE DEF q
  <2> QED BY <1>1, <1>15, <1>24, <1>25, DictHolds
<1>26. ASSUME x # None
       PROVE  /\ Source(c, declared) = c
              /\ Concrete(declared, c) = class
              /\ DOMAIN args = has
              /\ \A n \in has : args[n] = q[n]
  <2> HIDE DEF q, class
  <2> QED BY <1>1, <1>8, <1>15, <1>24, <1>26, JourneyDecode DEF class
<1>27. ASSUME x # None PROVE Decode2(c, declared) = DecodeObject(class, args, D)
  <2>1. Source(c, declared) = c /\ Concrete(declared, c) = class
    BY <1>26, <1>27
  <2> HIDE DEF class
  <2> QED BY <2>1 DEF Decode2, class
<1>28. ASSUME x # None, NEW n \in has
       PROVE  /\ n \in DOMAIN args
              /\ DecodeField(args[n], SpecOf(class, n), D[n]) =
                    Came2(obj[3][n], SpecOf(class, n))
  <2>1. n \in DOMAIN args /\ args[n] = q[n] /\ n \in Names(class)
    BY <1>13, <1>26, <1>28
  <2>2. q[n] = Cleaned2(SpecOf(class, n).alias, Parsed2(Sent2(obj[3][n], SpecOf(class, n))))
    BY <2>1 DEF s
  <2> HIDE DEF args, q
  <2>3. DecodeField(args[n], SpecOf(class, n), D[n]) = Read2(args[n], SpecOf(class, n))
    BY <2>1 DEF Read2
  <2> QED BY <2>1, <2>2, <2>3 DEF Came2
<1>29. ASSUME x # None PROVE Decode2(c, declared) = Back2(obj)
  <2>1. [n \in Names(class) |->
            IF n \in DOMAIN args THEN DecodeField(args[n], SpecOf(class, n), D[n]) ELSE None]
        = [n \in Names(class) |->
              IF n \in has THEN Came2(obj[3][n], SpecOf(class, n)) ELSE None]
    <3>1. DOMAIN args = has
      BY <1>26, <1>29
    <3> HIDE DEF args, D
    <3> QED BY <1>28, <1>29, <3>1
  <2>2. DecodeObject(class, args, D) =
           New(class, [n \in Names(class) |->
              IF n \in has THEN Came2(obj[3][n], SpecOf(class, n)) ELSE None])
    <3> HIDE DEF args, D
    <3> QED BY <2>1 DEF DecodeObject
  <2>3. Back2(obj) = New(class, [n \in Names(class) |->
              IF n \in has THEN Came2(obj[3][n], SpecOf(class, n)) ELSE None])
    BY DEF Back2, has
  <2> HIDE DEF D, args
  <2> QED BY <1>27, <1>29, <2>2, <2>3
<1>30. ASSUME x # None PROVE Is("dict", x) /\ "@C:nil" \notin Keys(x)
  <2>1. "@C:nil" \notin marks
    BY DEF marks
  <2>2. "@C:nil" \notin AliasesOf(class, has)
    <3>1. \A spec \in Schema[class] : spec.alias # "@C:nil"
      BY <1>1, SchemaOf, AliasOrdinary DEF Marks
    <3> QED BY <1>9, <1>13, <3>1 DEF AliasesOf
  <2> QED BY <1>19, <1>30, <2>1, <2>2 DEF Holds
<1>31. ASSUME x # None PROVE Is("dict", c)
  BY <1>25, <1>31 DEF Holds
<1>32. Is("dict", e)
  BY <1>8 DEF DictOf
<1>33. x = None => class = declared /\ has = {}
  BY <1>16 DEF marks
<1> HIDE DEF p, q
<1> QED BY <1>29, <1>30, <1>31, <1>32, <1>33 DEF has, class

\* ... and a whole command, on its way as the root of a document.
LEMMA Level3 ==
  ASSUME NEW obj, obj # NilClass, obj[2] \in DOMAIN Schema,
         NEW e, e = Root(obj), NEW x, x = ThroughXml(e), NEW c, c = Clean("command", x)
  PROVE  /\ Is("dict", x) /\ Is("dict", c)
         /\ Keys(x) = AliasesOf(obj[2], Has3(obj)) \cup ObjectMarks
         /\ \A n \in Has3(obj) : x[2][SpecOf(obj[2], n).alias]
                                   = Parsed3(Sent3(obj[3][n], SpecOf(obj[2], n)))
         /\ Keys(c) = AliasesOf(obj[2], Has3(obj)) \cup AttributesKey
         /\ Is("dict", c[2]["attributes"])
         /\ \A n \in Has3(obj) :
               LET spec == SpecOf(obj[2], n)
               IN  c[2][spec.alias] = Cleaned3(spec.alias, Parsed3(Sent3(obj[3][n], spec)))
         /\ Decode(c, obj[2]) = Back3(obj)
<1> DEFINE class == obj[2]
           marks == {"@xmlns", "@xsi:type"}
           E == [n \in Names(class) |->
                    [i \in DOMAIN AsList(obj[3][n]) |->
                        EncodePart(AsList(obj[3][n])[i], SpecOf(class, n).subtype)]]
           s == [n \in Names(class) |-> Sent3(obj[3][n], SpecOf(class, n))]
           p == [n \in Names(class) |-> Parsed3(s[n])]
           q == [n \in Names(class) |-> Cleaned3(SpecOf(class, n).alias, p[n])]
           r == [n \in Names(class) |-> Read3(q[n], SpecOf(class, n))]
           has == Has3(obj)
           val == [n \in {m \in Names(class) : s[m] # None} |-> s[n]]
           back == [n \in has |-> p[n]]
           clean == [n \in has |-> q[n]]
           X == [k \in Keys(e) |-> Map(ThroughXml2, AsList(e[2][k]))]
           C == [k \in Keys(x) |->
                    [i \in DOMAIN AsList(x[2][k]) |-> Clean2(k, AsList(x[2][k])[i])]]
           args == Arguments(c, class)
           D == [n \in DOMAIN args |->
                    [i \in DOMAIN AsList(args[n]) |->
                        DecodePart(AsList(args[n])[i], SpecOf(class, n).subtype)]]
<1>1. StandsFor(class, obj[2]) /\ class \in DOMAIN Schema
  BY DEF StandsFor
<1>2. Arrives(class, s, p, has) /\ Sends(class, s, val)
  BY DEF Arrives, Sends, Has3
<1>3. \A n \in Names(class) : E[n] = E[n] /\ EncodeField(obj[3][n], SpecOf(class, n), E[n]) =
         s[n]
  BY DEF Sent3
<1>4. EncodeFields(obj, E, val)
  BY <1>2, <1>3 DEF EncodeFields, Sends
<1> DEFINE body == Encode(obj, class)
           f == [k \in marks \cup Keys(body) |->
                    CASE k = "@xmlns" -> Str("")
                      [] k = "@xsi:type" -> Str(class)
                      [] OTHER -> body[2][k]]
<1> HIDE DEF val, E
<1>5. DictOf(body, class, {}, val)
  <2>1. body = EncodeObject(obj, class, E)
    BY DEF Encode, E
  <2> QED BY <1>1, <1>4, <2>1, EncodeStage
<1>6. e = Dict(f)
  BY DEF Root
<1> DEFINE aliases == {spec.alias : spec \in {t \in Schema[class] : t.name \in DOMAIN val}}
<1>7. \A k \in aliases : k \notin Marks
  BY <1>1, SchemaOf, AliasOrdinary
<1>8. DictOf(e, class, marks, val) /\ Marked(e, marks, class, class)
  <2>1. Keys(body) = aliases /\ DOMAIN val \subseteq Names(class)
        /\ \A spec \in Schema[class] : spec.name \in DOMAIN val =>
              body[2][spec.alias] = val[spec.name]
    BY <1>5 DEF DictOf
  <2>2. \A spec \in Schema[class] : spec.name \in DOMAIN val => spec.alias \in aliases
    OBVIOUS
  <2> HIDE DEF aliases, body
  <2>3. \A k \in aliases : f[k] = body[2][k]
    BY <1>7, <2>1 DEF Marks
  <2>4. f["@xmlns"] = Str("") /\ f["@xsi:type"] = Str(class)
    OBVIOUS
  <2>5. DOMAIN f = aliases \cup marks
    BY <2>1
  <2> HIDE DEF f
  <2>6. Is("dict", e) /\ Keys(e) = aliases \cup marks /\ e[2] = f
    BY <1>6, <2>5, DictParts
  <2>7. \A spec \in Schema[class] : spec.name \in DOMAIN val =>
           e[2][spec.alias] = val[spec.name]
    BY <2>1, <2>2, <2>3, <2>6
  <2>8. DictOf(e, class, marks, val)
    BY <2>1, <2>6, <2>7 DEF DictOf, aliases
  <2>9. Str("") # List(<<>>) /\ Str(class) # List(<<>>)
    BY Tags
  <2>10. Marked(e, marks, class, class)
    BY <2>4, <2>6, <2>9 DEF Marked, ObjectMarks
  <2> QED BY <2>8, <2>10
<1> HIDE DEF body, f, aliases
<1>9. \A n \in Names(class) : SpecOf(class, n) \in Schema[class] /\ SpecOf(class, n).name = n
  BY <1>1, SchemaOf
<1>10. \A n \in DOMAIN val : /\ SpecOf(class, n).alias \in Keys(e)
                             /\ e[2][SpecOf(class, n).alias] = val[n]
                             /\ val[n] = s[n] /\ n \in Names(class)
  BY <1>2, <1>8, <1>9 DEF DictOf, Sends
<1>11. ParsesTo(class, val, X, p)
  BY <1>10 DEF ParsesTo, Parsed3
<1>12. x = XmlNode(e, X)
  BY DEF ThroughXml
<1>13. has \subseteq Names(class)
  BY <1>2 DEF Arrives
<1> HIDE DEF marks, X, s, has
<1>14. DOMAIN back = has /\ \A n \in has : back[n] = p[n]
  OBVIOUS
<1>15. DOMAIN clean = has /\ \A n \in has : clean[n] = q[n]
  OBVIOUS
<1> HIDE DEF back
<1>16. ASSUME x = None PROVE marks = {} /\ has = {}
  <2> HIDE DEF p
  <2>1. XmlNode(e, X) = None
    BY <1>12, <1>16
  <2> QED BY <1>1, <1>2, <1>8, <1>11, <1>14, <2>1, JourneyXmlEmpty
<1>17. ASSUME x # None PROVE DictOf(x, class, marks, back)
  <2> HIDE DEF p
  <2> QED BY <1>1, <1>2, <1>8, <1>11, <1>12, <1>17, <1>14, JourneyXml
<1>18. ASSUME x # None, NEW k \in marks PROVE x[2][k] = e[2][k]
  <2> HIDE DEF p
  <2> QED BY <1>1, <1>2, <1>8, <1>11, <1>12, <1>18, <1>14, JourneyXml
<1>19. ASSUME x # None PROVE Holds(x, class, has, marks, p)
  <2> HIDE DEF p
  <2> QED BY <1>1, <1>17, <1>14, <1>19, DictHolds
<1>20. ASSUME x # None, NEW n \in has
       PROVE  /\ SpecOf(class, n).alias \in Keys(x)
              /\ x[2][SpecOf(class, n).alias] = p[n]
  BY <1>19, <1>20 DEF Holds, AliasesOf
<1>21. ASSUME x # None PROVE CleansTo(class, x, has, C, p, q)
  BY <1>13, <1>20, <1>21 DEF CleansTo, Cleaned3
<1>22. c = CleanNode("command", x, C)
  BY DEF Clean
<1>23. "command" \notin TableKeys
  BY DEF TableKeys
<1>24. ASSUME x # None
       PROVE  /\ DictOf(c, class, Under(marks), clean)
              /\ marks # {} => NamesClass(c, class)
  <2>1. DictOf(x, class, marks, back) /\ \A k \in marks : x[2][k] = e[2][k]
    BY <1>17, <1>18, <1>24
  <2> HIDE DEF C, p, q, clean
  <2>2. CleansTo(class, x, has, C, p, q)
    BY <1>21, <1>24
  <2>3. DictOf(c, class, Under(marks), clean)
    BY <1>1, <1>8, <1>14, <1>15, <1>22, <1>23, <2>1, <2>2, JourneyClean
  <2>4. ASSUME marks # {} PROVE NamesClass(c, class)
    BY <1>1, <1>8, <1>14, <1>15, <1>22, <1>23, <2>1, <2>2, <2>4, JourneyCleanMarks
  <2> QED BY <2>3, <2>4
<1> HIDE DEF clean
<1>25. ASSUME x # None PROVE Holds(c, class, has, Under(marks), q)
  <2> HIDE DEF q
  <2> QED BY <1>1, <1>15, <1>24, <1>25, DictHolds
<1>26. ASSUME x # None
       PROVE  /\ Source(c, obj[2]) = c
              /\ Concrete(obj[2], c) = class
              /\ DOMAIN args = has
              /\ \A n \in has : args[n] = q[n]
  <2> HIDE DEF q, class
  <2> QED BY <1>1, <1>8, <1>15, <1>24, <1>26, JourneyDecode DEF class
<1>27. ASSUME x # None PROVE Decode(c, obj[2]) = DecodeObject(class, args, D)
  <2>1. Source(c, obj[2]) = c /\ Concrete(obj[2], c) = class
    BY <1>26, <1>27
  <2> HIDE DEF class
  <2> QED BY <2>1 DEF Decode, class
<1>28. ASSUME x # None, NEW n \in has
       PROVE  /\ n \in DOMAIN args
              /\ DecodeField(args[n], SpecOf(class, n), D[n]) =
                    Came3(obj[3][n], SpecOf(class, n))
  <2>1. n \in DOMAIN args /\ args[n] = q[n] /\ n \in Names(class)
    BY <1>13, <1>26, <1>28
  <2>2. q[n] = Cleaned3(SpecOf(class, n).alias, Parsed3(Sent3(obj[3][n], SpecOf(class, n))))
    BY <2>1 DEF s
  <2> HIDE DEF args, q
  <2>3. DecodeField(args[n], SpecOf(class, n), D[n]) = Read3(args[n], SpecOf(class, n))
    BY <2>1 DEF Read3
  <2> QED BY <2>1, <2>2, <2>3 DEF Came3
<1>29. ASSUME x # None PROVE Decode(c, obj[2]) = Back3(obj)
  <2>1. [n \in Names(class) |->
            IF n \in DOMAIN args THEN DecodeField(args[n], SpecOf(class, n), D[n]) ELSE None]
        = [n \in Names(class) |->
              IF n \in has THEN Came3(obj[3][n], SpecOf(class, n)) ELSE None]
    <3>1. DOMAIN args = has
      BY <1>26, <1>29
    <3> HIDE DEF args, D
    <3> QED BY <1>28, <1>29, <3>1
  <2>2. DecodeObject(class, args, D) =
           New(class, [n \in Names(class) |->
              IF n \in has THEN Came3(obj[3][n], SpecOf(class, n)) ELSE None])
    <3> HIDE DEF args, D
    <3> QED BY <2>1 DEF DecodeObject
  <2>3. Back3(obj) = New(class, [n \in Names(class) |->
              IF n \in has THEN Came3(obj[3][n], SpecOf(class, n)) ELSE None])
    BY DEF Back3, has
  <2> HIDE DEF D, args
  <2> QED BY <1>27, <1>29, <2>2, <2>3
<1>30. x # None
  BY <1>16 DEF marks
<1>31. marks = ObjectMarks /\ Under(marks) = AttributesKey
  BY DEF marks, ObjectMarks, Under
<1>32. /\ Is("dict", x) /\ Keys(x) = AliasesOf(class, has) \cup ObjectMarks
       /\ \A n \in has : x[2][SpecOf(class, n).alias] = p[n]
  BY <1>19, <1>30, <1>31 DEF Holds
<1>33. /\ Is("dict", c) /\ Keys(c) = AliasesOf(class, has) \cup AttributesKey
       /\ \A n \in has : c[2][SpecOf(class, n).alias] = q[n]
  BY <1>25, <1>30, <1>31 DEF Holds
<1>34. Is("dict", c[2]["attributes"])
  BY <1>24, <1>30 DEF NamesClass, marks
<1>35. \A n \in has : /\ p[n] = Parsed3(Sent3(obj[3][n], SpecOf(class, n)))
                      /\ q[n] = Cleaned3(SpecOf(class, n).alias, p[n])
  BY <1>13 DEF s
<1> HIDE DEF p, q
<1> QED BY <1>29, <1>30, <1>32, <1>33, <1>34, <1>35 DEF has, class

-----------------------------------------------------------------------------
(* Texts, numbers and truth values. *)

Leaf(v) == ~Is("dict", v) /\ ~Is("list", v)

\* A leaf goes through the library as text ...
LEMMA LeafXml ==
  ASSUME NEW v, Leaf(v)
  PROVE  /\ ThroughXml1(v) = XmlText(v) /\ ThroughXml2(v) = XmlText(v)
         /\ Parsed1(v) = XmlText(v) /\ Parsed2(v) = XmlText(v) /\ Parsed3(v) = XmlText(v)
<1>1. ~Is("dict", v) /\ ~Is("list", v)
  BY DEF Leaf
<1>2. ThroughXml1(v) = XmlText(v) /\ ThroughXml2(v) = XmlText(v)
  BY <1>1 DEF ThroughXml1, ThroughXml2, XmlNode
<1>3. DOMAIN AsList(v) = {1} /\ AsList(v)[1] = v
  BY <1>1, Parts
<1>4. Parsed1(v) = XmlText(v)
  BY <1>1, <1>3 DEF Parsed1, XmlChild, Map
<1>5. Parsed2(v) = ThroughXml1(v)
  BY <1>1, <1>3 DEF Parsed2, XmlChild, Map
<1>6. Parsed3(v) = ThroughXml2(v)
  BY <1>1, <1>3 DEF Parsed3, XmlChild, Map
<1> QED BY <1>2, <1>4, <1>5, <1>6

\* ... and is cleaned as text.
LEMMA LeafNode ==
  ASSUME NEW v, ~Is("dict", v), NEW key, NEW inner
  PROVE  CleanNode(key, v, inner) = CleanText(v)
  BY DEF CleanNode

\* So it is at every level.
LEMMA LeafClean ==
  ASSUME NEW v, Leaf(v), NEW key
  PROVE  /\ Clean1(key, v) = CleanText(v) /\ Clean2(key, v) = CleanText(v)
         /\ Cleaned1(key, v) = CleanText(v) /\ Cleaned2(key, v) = CleanText(v)
         /\ Cleaned3(key, v) = CleanText(v)
<1>1. ~Is("dict", v) /\ ~Is("list", v)
  BY DEF Leaf
<1>2. Clean1(key, v) = CleanText(v)
  BY <1>1, LeafNode DEF Clean1
<1>3. Clean2(key, v) = CleanText(v)
  BY <1>1, LeafNode DEF Clean2
<1>4. DOMAIN AsList(v) = {1} /\ AsList(v)[1] = v
  BY <1>1, Parts
<1>5. Cleaned1(key, v) = CleanText(v)
  BY <1>1, <1>4 DEF Cleaned1, CleanChild, Map
<1>6. Cleaned2(key, v) = Clean1(key, v)
  BY <1>1, <1>4 DEF Cleaned2, CleanChild
<1>7. Cleaned3(key, v) = Clean2(key, v)
  BY <1>1, <1>4 DEF Cleaned3, CleanChild
<1> QED BY <1>2, <1>3, <1>5, <1>6, <1>7

\* Texts, numbers and nothing are leaves.
LEMMA TextIsLeaf == \A t : Leaf(Str(t)) /\ Str(t) # None /\ Str(t) # List(<<>>)
  BY DEF Leaf, Is, Str, None, List

LEMMA NumberIsLeaf == \A n : Leaf(Num(n)) /\ Num(n) # None /\ Num(n) # List(<<>>)
  BY DEF Leaf, Is, Num, None, List

LEMMA NoneIsLeaf == Leaf(None) /\ None # List(<<>>)
  BY DEF Leaf, Is, None, List

\* What the library and _clean() make of them.
LEMMA XmlOfText == \A t : XmlText(Str(t)) = IF Strip[t] = "" THEN None ELSE Str(Strip[t])
  BY DEF XmlText, Is, Str, NilClass, None

LEMMA XmlOfNumber == \A n : XmlText(Num(n)) = Str(ToString(n))
  BY DEF XmlText, Is, Num, NilClass

LEMMA CleanOfText == \A t : CleanText(Str(t)) = Str(t)
  BY DEF CleanText, Str, None

\* What is sent for a scalar, and for an item that is no object.
Written(v) == IF Is("bool", v) THEN TextOfBool(v[2]) ELSE v

\* A truth value is sent as a text.
LEMMA WrittenOf ==
  /\ \A t : Written(Str(t)) = Str(t)
  /\ \A n : Written(Num(n)) = Num(n)
  /\ Written(Bool(TRUE)) = Str("true") /\ Written(Bool(FALSE)) = Str("false")
  BY DEF Written, Is, Str, Num, Bool, TextOfBool

\* The types of a scalar.
LEMMA Scalars ==
  ASSUME NEW v, NEW spec, FitsScalar(v, spec)
  PROVE  \/ spec.subtype = "bool" /\ (v = Bool(TRUE) \/ v = Bool(FALSE))
         \/ spec.subtype = "int" /\ \E n \in Numbers : v = Num(n)
         \/ spec.subtype \notin {"bool", "int"} /\ \E t \in Texts : v = Str(t)
  BY DEF FitsScalar, TextValues

\* A scalar is sent as a text or a number.
LEMMA WrittenLeaf ==
  ASSUME NEW v, NEW spec, FitsScalar(v, spec)
  PROVE  \/ \E t \in Texts : Written(v) = Str(t)
         \/ \E n \in Numbers : Written(v) = Num(n)
<1>1. "true" \in Texts /\ "false" \in Texts
  BY TextAssumption
<1>2. CASE v = Bool(TRUE)
  BY <1>1, <1>2, WrittenOf
<1>3. CASE v = Bool(FALSE)
  BY <1>1, <1>3, WrittenOf
<1>4. CASE \E n \in Numbers : v = Num(n)
  BY <1>4, WrittenOf
<1>5. CASE \E t \in Texts : v = Str(t)
  BY <1>5, WrittenOf
<1> QED BY <1>2, <1>3, <1>4, <1>5, Scalars

\* It comes back from the library as a text, or as nothing.
LEMMA WrittenXml ==
  ASSUME NEW v, NEW spec, FitsScalar(v, spec)
  PROVE  /\ Leaf(Written(v)) /\ Written(v) # None
         /\ Leaf(XmlText(Written(v))) /\ XmlText(Written(v)) # List(<<>>)
         /\ \E t : CleanText(XmlText(Written(v))) = Str(t)
<1>1. Leaf(Written(v)) /\ Written(v) # None
  BY WrittenLeaf, TextIsLeaf, NumberIsLeaf
<1>2. XmlText(Written(v)) = None \/ \E t : XmlText(Written(v)) = Str(t)
  BY WrittenLeaf, XmlOfText, XmlOfNumber
<1>3. Leaf(XmlText(Written(v))) /\ XmlText(Written(v)) # List(<<>>)
  BY <1>2, TextIsLeaf, NoneIsLeaf
<1>4. \E t : CleanText(XmlText(Written(v))) = Str(t)
  BY <1>2, CleanOfText DEF CleanText
<1> QED BY <1>1, <1>3, <1>4

\* Each type is read again from its text.
LEMMA CoerceTruth == Coerce(Str("true"), "bool") = Bool(TRUE)
         /\ Coerce(Str("false"), "bool") = Bool(FALSE)
  BY DEF Coerce, Is, Str, Bool

LEMMA CoerceNumber ==
  ASSUME NEW n \in Numbers
  PROVE  Coerce(Str(ToString(n)), "int") = Num(n)
<1>1. (CHOOSE m \in Numbers : ToString(m) = ToString(n)) = n
  BY NumberAssumption
<1>2. Is("str", Str(ToString(n))) /\ Str(ToString(n))[2] = ToString(n)
  BY DEF Is, Str
<1> QED BY <1>1, <1>2 DEF Coerce

LEMMA CoerceText ==
  ASSUME NEW t, NEW target, target \notin {"bool", "int"}
  PROVE  Coerce(Str(t), target) = Str(t)
  BY DEF Coerce, Is, Str

\* A text without white space around it stays as it is, an empty one too.
LEMMA CleanXmlOfText ==
  ASSUME NEW t, Strip[t] = t
  PROVE  CleanText(XmlText(Str(t))) = Str(t)
<1>1. CASE t = ""
  BY <1>1, XmlOfText DEF CleanText
<1>2. CASE t # ""
  BY <1>2, XmlOfText, CleanOfText
<1> QED BY <1>1, <1>2

\* A scalar that has no white space around it is read as it was.
LEMMA LeafBack ==
  ASSUME NEW v, NEW spec, FitsScalar(v, spec), CarriedText(v)
  PROVE  Coerce(CleanText(XmlText(Written(v))), spec.subtype) = v
<1>1. CASE spec.subtype = "bool" /\ v = Bool(TRUE)
  BY <1>1, WrittenOf, CleanXmlOfText, TextAssumption, CoerceTruth
<1>2. CASE spec.subtype = "bool" /\ v = Bool(FALSE)
  BY <1>2, WrittenOf, CleanXmlOfText, TextAssumption, CoerceTruth
<1>3. CASE spec.subtype = "int" /\ \E n \in Numbers : v = Num(n)
  BY <1>3, WrittenOf, XmlOfNumber, CleanOfText, CoerceNumber
<1>4. CASE spec.subtype \notin {"bool", "int"} /\ \E t \in Texts : v = Str(t)
  <2>1. PICK t \in Texts : v = Str(t)
    BY <1>4
  <2>2. Strip[t] = t
    BY <2>1 DEF CarriedText, Is, Str
  <2> QED BY <1>4, <2>1, <2>2, WrittenOf, CleanXmlOfText, CoerceText
<1> QED BY <1>1, <1>2, <1>3, <1>4, Scalars

\* A scalar is sent as it is written.
LEMMA EncodeScalar ==
  ASSUME NEW v, NEW spec, spec.kind = "SCALAR", NEW inner,
         v # None, v # Nil, ~Is("OCITable", v)
  PROVE  EncodeField(v, spec, inner) = Written(v)
  BY DEF EncodeField, AsksForNil, Written

\* A field of this kind, at every level.
LEMMA ScalarSent ==
  ASSUME NEW v, NEW spec, spec.kind = "SCALAR", FitsScalar(v, spec), NEW inner
  PROVE  EncodeField(v, spec, inner) = Written(v)
<1>1. /\ \A t : Str(t) # None /\ Str(t) # Nil /\ ~Is("OCITable", Str(t))
      /\ \A n : Num(n) # None /\ Num(n) # Nil /\ ~Is("OCITable", Num(n))
      /\ \A b : Bool(b) # None /\ Bool(b) # Nil /\ ~Is("OCITable", Bool(b))
  BY DEF Str, Num, Bool, None, Nil, Is
<1>2. v # None /\ v # Nil /\ ~Is("OCITable", v)
  BY <1>1, Scalars
<1> QED BY <1>2, EncodeScalar

\* It is read by its type.
LEMMA ScalarRead ==
  ASSUME NEW c, NEW spec, spec.kind = "SCALAR", NEW inner
  PROVE  DecodeField(c, spec, inner) = Coerce(c, spec.subtype)
  BY DEF DecodeField

\* It comes back at every level.
LEMMA ScalarBack ==
  ASSUME NEW v, NEW spec, spec.kind = "SCALAR", FitsScalar(v, spec), CarriedText(v)
  PROVE  /\ Sent1(v, spec) # None /\ Parsed1(Sent1(v, spec)) # List(<<>>) /\ Came1(v, spec) = v
         /\ Sent2(v, spec) # None /\ Parsed2(Sent2(v, spec)) # List(<<>>) /\ Came2(v, spec) = v
         /\ Sent3(v, spec) # None /\ Parsed3(Sent3(v, spec)) # List(<<>>) /\ Came3(v, spec) = v
<1>1. Sent1(v, spec) = Written(v) /\ Sent2(v, spec) = Written(v) /\ Sent3(v, spec) = Written(v)
  BY ScalarSent DEF Sent1, Sent2, Sent3
<1>2. /\ Leaf(Written(v)) /\ Written(v) # None /\ XmlText(Written(v)) # List(<<>>)
      /\ Leaf(XmlText(Written(v)))
  BY WrittenXml
<1>3. Coerce(CleanText(XmlText(Written(v))), spec.subtype) = v
  BY LeafBack
<1>4. \A c : /\ Read1(c, spec) = Coerce(c, spec.subtype)
             /\ Read2(c, spec) = Coerce(c, spec.subtype)
             /\ Read3(c, spec) = Coerce(c, spec.subtype)
  BY ScalarRead DEF Read1, Read2, Read3
<1> QED BY <1>1, <1>2, <1>3, <1>4, LeafXml, LeafClean DEF Came1, Came2, Came3

-----------------------------------------------------------------------------
(* A list that becomes elements and is gathered from them again. *)

Sequence(s, n) == n \in Nat /\ s = [i \in 1..n |-> s[i]]

\* The length and the domain of such a sequence.
LEMMA SequenceLen ==
  ASSUME NEW s, NEW n, Sequence(s, n)
  PROVE  DOMAIN s = 1..n /\ Len(s) = n /\ (n = 0 <=> s = <<>>)
<1> DEFINE S == {s[i] : i \in 1..n}
<1>1. n \in Nat /\ s = [i \in 1..n |-> s[i]]
  BY DEF Sequence
<1>2. s \in [1..n -> S]
  BY <1>1
<1>3. s \in Seq(S) /\ DOMAIN s = 1..n
  BY <1>1, <1>2
<1>4. Len(s) = n
  BY <1>1, <1>3
<1> QED BY <1>1, <1>3, <1>4

\* Every sequence is one.
LEMMA SeqIsSequence ==
  ASSUME NEW S, NEW s \in Seq(S)
  PROVE  Sequence(s, Len(s)) /\ \A i \in 1..Len(s) : s[i] \in S
  BY DEF Sequence

\* No item is a list itself.
Flat(s, n) == Sequence(s, n) /\ \A i \in 1..n : ~Is("list", s[i])

\* A list is no other value.
LEMMA ListTag == \A s : Is("list", List(s)) /\ List(s)[2] = s /\ ~Is("dict", List(s))
         /\ List(s) # None
                        /\ List(s) # AttributeError
  BY DEF Is, List, None, AttributeError

\* as_list() gathers the elements of a list, also if there is only one.
LEMMA Gathered ==
  ASSUME NEW s, NEW n, n # 0, Flat(s, n)
  PROVE  AsList(Elements(s)) = s /\ Elements(s) # List(<<>>)
<1>1. Len(s) = n /\ DOMAIN s = 1..n /\ s # <<>> /\ n \in Nat /\ s = [i \in 1..n |-> s[i]]
  BY SequenceLen DEF Flat, Sequence
<1>2. CASE n = 1
  <2>1. Elements(s) = s[1] /\ ~Is("list", s[1])
    BY <1>1, <1>2 DEF Elements, Flat
  <2>2. s = <<s[1]>>
    BY <1>1, <1>2
  <2> QED BY <2>1, <2>2, ListTag DEF AsList
<1>3. CASE n # 1
  <2>1. Elements(s) = List(s)
    BY <1>1, <1>3 DEF Elements
  <2>2. List(s) # List(<<>>)
    BY <1>1 DEF List
  <2> QED BY <2>1, <2>2, ListTag DEF AsList
<1> QED BY <1>2, <1>3

\* Cleaning each of the elements gives the elements of a list.
LEMMA CleanedElements ==
  ASSUME NEW s, NEW n, n # 0, Flat(s, n), NEW z, Sequence(z, n)
  PROVE  CleanChild(Elements(s), z) = Elements(z)
<1>1. Len(s) = n /\ Len(z) = n
  BY SequenceLen DEF Flat
<1>2. n = 1 => ~Is("list", s[1])
  BY DEF Flat
<1> QED BY <1>1, <1>2, ListTag DEF CleanChild, Elements

\* A list without items leaves no element.
LEMMA ElementsOfNone == Elements(<<>>) = List(<<>>)
  BY DEF Elements

\* What a field with a list becomes on the way, given what its items become.
LEMMA ListParsed ==
  ASSUME NEW y, NEW xs
  PROVE  XmlChild(List(y), xs) = Elements(xs)
  BY ListTag DEF XmlChild

\* A list is read item by item.
LEMMA ListRead ==
  ASSUME NEW cs, NEW n, n # 0, Flat(cs, n), NEW spec, spec.kind = "LIST", NEW inner,
         NEW s, Sequence(s, n),
         \A i \in 1..n : s[i] = IF Is("dict", cs[i]) THEN inner[i]
            ELSE Coerce(cs[i], spec.subtype)
  PROVE  DecodeField(Elements(cs), spec, inner) = List(s)
<1>1. Items(Elements(cs)) = cs
  BY Gathered DEF Items
<1>2. DOMAIN cs = 1..n /\ s = [i \in 1..n |-> s[i]]
  BY SequenceLen DEF Flat, Sequence
<1>3. DecodeField(Elements(cs), spec, inner) =
        List([i \in 1..n |-> IF Is("dict", cs[i]) THEN inner[i]
           ELSE Coerce(cs[i], spec.subtype)])
  BY <1>1, <1>2 DEF DecodeField
<1>4. [i \in 1..n |-> IF Is("dict", cs[i]) THEN inner[i] ELSE Coerce(cs[i], spec.subtype)] = s
  BY <1>2
<1> QED BY <1>3, <1>4
=============================================================================
