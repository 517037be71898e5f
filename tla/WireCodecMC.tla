----------------------------- MODULE WireCodecMC -----------------------------
(* Objects of every class with at most two fields set, to values of every    *)
(* shape.                                                                     *)
EXTENDS WireCodec, TLC

MCNumbers == {0, 7}

MCTexts == {"", " ", " a", "a", "b", "c", "d", "g", "n", "p", "u", "x", "y", "7", "true", "false",
            "Group", "user_id", "calls"}
MCStrip == [t \in MCTexts |-> CASE t = " " -> "" [] t = " a" -> "a" [] OTHER -> t]

SomeTexts == {Str(t) : t \in {"a", "", " ", " a", "7", "true"}}
Booleans == {Bool(TRUE), Bool(FALSE)}
Ints == {Num(n) : n \in MCNumbers}

\* An object of the class with the fields that are given.
Make(class, values) ==
    New(class, [n \in Names(class) |-> IF n \in DOMAIN values THEN values[n] ELSE None])

Devices == {Make("AccessDevice", "device_name" :> n @@ "device_level" :> l) :
               n \in {None, Str("d")}, l \in {None, Str(""), Str("Group")}}

Departments ==
    {Make("DepartmentKey", <<>>)}
    \cup {Make("EnterpriseDepartmentKey", "name" :> n) : n \in {None, Str("n")}}
    \cup {Make("GroupDepartmentKey", "name" :> Str("n") @@ "group_id" :> g) :
              g \in {None, Str("g")}}

UpTo(n, set) == UNION {[1..k -> set] : k \in 0..n}

Profiles ==
    {Make("ServiceInstanceReadProfile", "name" :> n @@ "department" :> d @@ "alias" :> a) :
        n \in {None, Str("n")}, d \in {None} \cup Departments,
        a \in {None} \cup {List(s) : s \in UpTo(2, {Str("a"), Str("")})}}

Cells == {Str("a"), Str(""), Str(" a")}
Tables == {Table(<<Str("x")>>, rows) : rows \in UpTo(2, UpTo(1, Cells))}
          \cup {Table(<<Str("x"), Str("y")>>, rows) : rows \in UpTo(1, [1..2 -> Cells])}
SmallTables == {Table(h, rows) : h \in {<<>>, <<Str("x")>>, <<Str("x"), Str("")>>},
                   rows \in {<<>>, <<<<>>>>, <<<<Str("a")>>>>, <<<<Str("a"), Str("")>>>>,
                             <<<<Str("a")>>, <<>>>>}}
Counts == {Dict("user_id" :> Str(u) @@ "calls" :> Str(c)) : u \in {"a", "b"}, c \in {"7"}}

ValuesOf(spec) ==
    CASE spec.name = "service_utilization_table" ->
            {List(s) : s \in UpTo(2, Counts) \cup UpTo(2, SmallTables)}
      [] spec.kind = "TABLE" -> Tables
      [] spec.kind = "OBJECT" ->
            CASE spec.subtype = "AccessDevice" -> Devices
              [] spec.subtype = "DepartmentKey" -> Departments
              [] OTHER -> Profiles
      [] spec.kind = "LIST" ->
            {List(s) : s \in UpTo(2, CASE spec.subtype = "int" -> Ints
                                       [] spec.subtype = "str" -> SomeTexts
                                       [] OTHER -> Devices)}
      [] spec.subtype = "bool" -> Booleans
      [] spec.subtype = "int" -> Ints
      [] OTHER -> SomeTexts

\* What clears a field, or is meant to.
Clearing(class, name) == IF name \in Nillable(class) THEN {Nil, Str("")} ELSE {}

Values(class, spec) == ValuesOf(spec) \cup Clearing(class, spec.name)

\* Every single field, and pairs with one that is likely to be disturbed.
Beside(class) ==
    CASE class = "GroupHuntGroupGetInstanceResponse14" ->
            {"agent_user_table" :> t :
                t \in {Table(<<Str("x")>>, <<<<Str("a")>>>>), Table(<<>>, <<>>)}}
      [] class = "GroupDepartmentModifyRequest" -> {"new_department_name" :> Str("u")}
      [] class = "AccessDeviceEndpointModify" -> {"contact" :> Str("")}
      [] class = "ServiceProviderServicePackGetUtilizationListResponse" ->
            {"service_pack_name" :> List(<<Str("p")>>)}
      [] OTHER -> {}

MessagesOf(class) ==
    UNION {{Make(class, spec.name :> v @@ other) :
               v \in Values(class, spec), other \in {<<>>} \cup Beside(class)} :
                   spec \in Schema[class]}

MCMessages == UNION {MessagesOf(class) : class \in DOMAIN Schema}
=============================================================================
