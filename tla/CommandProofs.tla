--------------------------- MODULE CommandProofs ---------------------------
(***************************************************************************)
(* Theorems about commands and functions, for tools, names and command     *)
(* lines of any length: what the two parsers make of arguments, how        *)
(* functions are told and what the plan of a host keeps.  Numbers,         *)
(* sequences and the inputs of a behaviour are in InputProofs.             *)
(***************************************************************************)
EXTENDS InputProofs

----------------------------------------------------------------------------
(* The arguments of a command *)

\* What a reading makes of the flags before the i-th, by the property that each names.
Naming(tool, argv, i) == ResolvePropertyName(tool.params, ParseFlagName(argv[i].flag).name)
Named(tool, argv, p, i) == {j \in 1 .. i : IsFlag(argv[j]) /\ Naming(tool, argv, j) = <<p>>}

LEMMA ArgumentIs ==
    ASSUME NEW arg \in Argument
    PROVE  IF IsFlag(arg) THEN arg.flag \in Texts ELSE arg.word \in STRING
BY DEF Argument, IsFlag

LEMMA ResolvedIs ==
    ASSUME NEW P \in Seq(Texts), NEW n, ResolvePropertyName(P, n) # <<>>
    PROVE  /\ ResolvePropertyName(P, n) = <<ResolvePropertyName(P, n)[1]>>
           /\ ResolvePropertyName(P, n)[1] \in ToSet(P)
<1> DEFINE alike(q) == Canonical(q) = Canonical(n)
<1>1. CASE Contains(P, n)
  <2>1. ResolvePropertyName(P, n) = <<n>> /\ <<n>>[1] = n
    BY <1>1 DEF ResolvePropertyName
  <2>2. n \in ToSet(P)
    BY <1>1 DEF Contains, ToSet
  <2> QED
    BY <2>1, <2>2
<1>2. CASE SomeOf(P, alike) /\ ~Contains(P, n)
  <2> DEFINE q == FirstOf(P, alike)
  <2>1. ResolvePropertyName(P, n) = <<q>>
    BY <1>2 DEF ResolvePropertyName
  <2>2. q \in ToSet(P)
    <3> DEFINE I == {i \in 1 .. Len(P) : alike(P[i])}
    <3>1. I # {} /\ I \in SUBSET Nat
      BY <1>2 DEF SomeOf
    <3>2. PICK m \in I : \A k \in I : m <= k
      <4> HIDE DEF I
      <4> QED
        BY <3>1, LeastExists
    <3>3. Min(I) \in I
      BY <3>2 DEF Min
    <3>4. SelectInSeq(P, alike) = Min(I)
      BY <3>1 DEF SelectInSeq
    <3>5. SelectInSeq(P, alike) \in DOMAIN P
      BY <3>3, <3>4
    <3> QED
      BY <3>5 DEF FirstOf, ToSet
  <2> HIDE DEF q
  <2>3. <<q>>[1] = q
    OBVIOUS
  <2> QED
    BY <2>1, <2>2, <2>3
<1>3. CASE ~Contains(P, n) /\ ~SomeOf(P, alike)
  <2>1. ResolvePropertyName(P, n) = <<>>
    BY <1>3 DEF ResolvePropertyName
  <2> QED
    BY <2>1
<1> QED
  BY <1>1, <1>2, <1>3

----------------------------------------------------------------------------
\* The values: single ones and lists of them.
Written == STRING \cup {"bool", "num", "object", "str", "true", "false", "5", "5.0", "0.5", "plain", "{}"}
Single  == [t : Written, v : Written]
HasItems(v) == Candidates(v) \in Seq(Single) /\ Len(Candidates(v)) >= 1

LEMMA SingleHasItems ==
    ASSUME NEW v \in Single
    PROVE  HasItems(v) /\ ~Failed(v)
<1>1. Candidates(v) = <<v>>
  BY DEF Candidates, IsList, Single
<1>2. ~Failed(v)
  BY DEF Failed, Single
<1> QED
  BY <1>1, <1>2 DEF HasItems

LEMMA WrittenIs ==
    ASSUME NEW t \in Written, NEW v \in Written
    PROVE  V(t, v) \in Single
BY DEF V, Single

LEMMA WordsWritten ==
    /\ "bool" \in Written /\ "num" \in Written /\ "object" \in Written /\ "str" \in Written
    /\ "true" \in Written /\ "5" \in Written /\ "5.0" \in Written /\ "0.5" \in Written
    /\ "plain" \in Written /\ "{}" \in Written /\ STRING \subseteq Written
BY DEF Written

\* What is read from a table is one of its values.
LEMMA ReadIs ==
    ASSUME NEW table, NEW w, NEW what, ~Failed(Read(table, w, what))
    PROVE  w \in DOMAIN table /\ Read(table, w, what) = table[w]
<1>1. Failed(Failure(what))
  BY DEF Failed, Failure
<1> QED
  BY <1>1 DEF Read

LEMMA ScalarIs ==
    ASSUME NEW type, NEW w \in STRING, w # "list", ~Failed(NativeScalar(type, w))
    PROVE  NativeScalar(type, w) \in Single
<1> DEFINE u == NativeScalar(type, w)
<1>1. CASE type = "boolean"
  <2> DEFINE table == [true |-> V("bool", "true")]
  <2>1. u = Read(table, w, "boolean")
    BY <1>1 DEF NativeScalar
  <2>2. \A x \in DOMAIN table : table[x] = V("bool", "true")
    OBVIOUS
  <2> HIDE DEF table, u
  <2>3. u = V("bool", "true")
    BY <2>1, <2>2, ReadIs DEF u
  <2> QED
    BY <2>3, WrittenIs, WordsWritten DEF u
<1>2. CASE type = "integer"
  <2>1. u = Read(NativeInteger, w, "integer")
    BY <1>2 DEF NativeScalar
  <2>2. \A x \in DOMAIN NativeInteger : NativeInteger[x] = V("num", "5")
    BY DEF NativeInteger
  <2> HIDE DEF u
  <2>3. u = V("num", "5")
    BY <2>1, <2>2, ReadIs DEF u
  <2> QED
    BY <2>3, WrittenIs, WordsWritten DEF u
<1>3. CASE type = "number"
  <2>1. u = Read(NativeNumber, w, "number")
    BY <1>3 DEF NativeScalar
  <2>2. \A x \in DOMAIN NativeNumber : NativeNumber[x] = V("num", "5.0") \/ NativeNumber[x] = V("num", "0.5")
    BY DEF NativeNumber
  <2> HIDE DEF u
  <2>3. u = V("num", "5.0") \/ u = V("num", "0.5")
    BY <2>1, <2>2, ReadIs DEF u
  <2> QED
    BY <2>3, WrittenIs, WordsWritten DEF u
<1>4. CASE ~(type = "boolean") /\ ~(type = "integer") /\ ~(type = "number")
  <2>1. u = IF w \in DOMAIN Json THEN Json[w] ELSE Text(w)
    BY <1>4 DEF NativeScalar
  <2>2. \A x \in DOMAIN Json : \/ x = "list" \/ Json[x] = V("bool", "true") \/ Json[x] = V("num", "5")
                              \/ Json[x] = V("num", "0.5") \/ Json[x] = V("object", "{}")
    <3> DEFINE li == List(<<V("num", "5"), Text("plain")>>)
               tr == V("bool", "true")
               fi == V("num", "5")
               ha == V("num", "0.5")
               ob == V("object", "{}")
    <3>1. Json = [true |-> tr, five |-> fi, half |-> ha, list |-> li, object |-> ob]
      BY DEF Json
    <3> HIDE DEF li, tr, fi, ha, ob
    <3>2. \A x \in DOMAIN Json : x = "list" \/ Json[x] = tr \/ Json[x] = fi \/ Json[x] = ha \/ Json[x] = ob
      BY <3>1
    <3> QED
      BY <3>2 DEF tr, fi, ha, ob
  <2>3. Text(w) \in Single
    BY WrittenIs, WordsWritten DEF Text
  <2> HIDE DEF u
  <2> QED
    BY <2>1, <2>2, <2>3, WrittenIs, WordsWritten DEF u
<1> QED
  BY <1>1, <1>2, <1>3, <1>4

LEMMA ArrayHasItems ==
    ASSUME NEW items, NEW w \in STRING, ~Failed(NativeCoerce("array", items, w))
    PROVE  HasItems(NativeCoerce("array", items, w))
<1>1. CASE w = "list"
  <2>1. NativeCoerce("array", items, w) = List(<<V("num", "5"), Text("plain")>>)
    BY <1>1 DEF NativeCoerce, Json
  <2>2. Candidates(List(<<V("num", "5"), Text("plain")>>)) = <<V("num", "5"), Text("plain")>>
    BY DEF Candidates, IsList, List
  <2>3. V("num", "5") \in Single /\ Text("plain") \in Single
    BY DEF Text, V, Single, Written
  <2> DEFINE a == V("num", "5")
             b == Text("plain")
  <2>4. Candidates(NativeCoerce("array", items, w)) = <<a, b>>
    BY <2>1, <2>2
  <2>5. a \in Single /\ b \in Single
    BY <2>3
  <2> HIDE DEF a, b
  <2>6. <<a, b>> \in Seq(Single) /\ Len(<<a, b>>) >= 1
    BY <2>5
  <2> QED
    BY <2>4, <2>6 DEF HasItems
<1>2. CASE w # "list"
  <2>1. NativeCoerce("array", items, w) = NativeScalar(items, w)
    BY <1>2 DEF NativeCoerce
  <2> QED
    BY <1>2, <2>1, ScalarIs, SingleHasItems
<1> QED
  BY <1>1, <1>2
----------------------------------------------------------------------------
\* What a flag that was read says: its property, the value, and how far it reaches.
SaysOf(tool, argv, i, flag) ==
    /\ Naming(tool, argv, i) = <<flag.property>> /\ flag.property \in ToSet(tool.params)
    /\ NativeAllows(tool.enum[flag.property], flag.value)
    /\ tool.type[flag.property] = "array" => HasItems(flag.value)
    /\ flag.next = i + 1 \/ (flag.next = i + 2 /\ i + 1 \in DOMAIN argv /\ ~IsFlag(argv[i + 1]))

LEMMA FailureFails ==
    ASSUME NEW what
    PROVE  Failed(Failure(what))
BY DEF Failed, Failure

LEMMA FlagSays ==
    ASSUME NEW tool, IsTool(tool), NEW argv \in Seq(Argument), NEW i \in 1 .. Len(argv),
           ~Failed(NativeFlag(tool, argv, i))
    PROVE  SaysOf(tool, argv, i, NativeFlag(tool, argv, i))
<1> DEFINE f     == ParseFlagName(argv[i].flag)
           found == ResolvePropertyName(tool.params, f.name)
           p     == found[1]
           raw   == Value(argv, i)
           bare  == f.no \/ raw = <<>>
           value == IF bare THEN Unvalued(f.no) ELSE NativeCoerce(tool.type[p], tool.items, raw[1])
           allowed == NativeAllows(tool.enum[p], value)
           flag  == NativeFlag(tool, argv, i)
           said  == [property |-> p, value |-> value, next |-> i + IF bare THEN 1 ELSE 2]
<1>1. found # <<>> /\ flag = Taken(tool, p, i, f.no, raw, value, allowed)
  BY FailureFails DEF NativeFlag
<1>2. found = Naming(tool, argv, i)
  BY DEF Naming
<1>3. tool.params \in Seq(Texts)
  BY DEF IsTool
<1>4. found = <<p>> /\ p \in ToSet(tool.params)
  BY <1>1, <1>3, ResolvedIs
<1>5. raw # <<>> => i + 1 \in DOMAIN argv /\ ~IsFlag(argv[i + 1]) /\ raw[1] \in STRING
  <2>1. SUFFICES ASSUME raw # <<>> PROVE i + 1 \in DOMAIN argv /\ ~IsFlag(argv[i + 1]) /\ raw[1] \in STRING
    OBVIOUS
  <2>2. i + 1 \in DOMAIN argv /\ ~IsFlag(argv[i + 1]) /\ raw = <<argv[i + 1].word>>
    BY <2>1 DEF Value
  <2>3. argv[i + 1] \in Argument
    BY <2>2
  <2>4. argv[i + 1].word \in STRING
    BY <2>2, <2>3, ArgumentIs
  <2> QED
    BY <2>2, <2>4
<1> HIDE DEF f, found, p, raw, value, allowed, bare
<1>6. /\ ~(f.no /\ tool.type[p] # "boolean") /\ ~(~f.no /\ bare /\ tool.type[p] # "boolean")
      /\ ~Failed(value) /\ allowed /\ flag = said
  <2> DEFINE no == f.no
             end == IF bare THEN 1 ELSE 2
  <2>1. flag = CASE no /\ tool.type[p] # "boolean"          -> Failure("only boolean")
                 [] ~no /\ bare /\ tool.type[p] # "boolean" -> Failure("requires a value")
                 [] OTHER -> CASE Failed(value)             -> value
                               [] ~Failed(value) /\ ~allowed -> Failure("not allowed")
                               [] OTHER -> said
    BY <1>1 DEF Taken, bare
  <2> HIDE DEF no, said, flag
  <2>2. ~Failed(flag)
    BY DEF flag
  <2>3. ~(no /\ tool.type[p] # "boolean")
    BY <2>1, <2>2, FailureFails
  <2>4. ~(~no /\ bare /\ tool.type[p] # "boolean")
    BY <2>1, <2>2, <2>3, FailureFails
  <2>5. flag = CASE Failed(value)             -> value
                 [] ~Failed(value) /\ ~allowed -> Failure("not allowed")
                 [] OTHER -> said
    BY <2>1, <2>3, <2>4
  <2>6. ~Failed(value)
    BY <2>2, <2>5
  <2>7. allowed
    BY <2>2, <2>5, <2>6, FailureFails
  <2>8. flag = said
    BY <2>5, <2>6, <2>7
  <2> QED
    BY <2>3, <2>4, <2>6, <2>7, <2>8 DEF no
<1>7. tool.type[p] = "array" => HasItems(value)
  <2> SUFFICES ASSUME tool.type[p] = "array" PROVE HasItems(value)
    OBVIOUS
  <2>1. ~bare
    BY <1>6
  <2>2. value = NativeCoerce("array", tool.items, raw[1]) /\ raw # <<>>
    BY <2>1 DEF value, bare
  <2> QED
    BY <1>5, <1>6, <2>2, ArrayHasItems
<1>8. said.next = i + 1 \/ (said.next = i + 2 /\ i + 1 \in DOMAIN argv /\ ~IsFlag(argv[i + 1]))
  <2>1. CASE bare
    BY <2>1
  <2>2. CASE ~bare
    BY <1>5, <2>2 DEF bare
  <2> QED
    BY <2>1, <2>2
<1>9. said.property = p /\ said.value = value
  OBVIOUS
<1> HIDE DEF said
<1> QED
  BY <1>2, <1>4, <1>6, <1>7, <1>8, <1>9 DEF SaysOf, allowed

----------------------------------------------------------------------------
\* The loops of the two parsers: of parse_argv and of the script.
ArgvStep(who, tool, argv, acc, i) ==
    IF who = "script" THEN ScriptStep(tool, argv, acc, i) ELSE NativeStep(tool, argv, acc, i)
ArgvOn(who, tool, argv, n, f) ==
    f = [i \in 0 .. n |-> IF i = 0 THEN Begun ELSE ArgvStep(who, tool, argv, f[i - 1], i)]
ArgvRead(who, tool, argv) == CHOOSE f : ArgvOn(who, tool, argv, Len(argv), f)
ArgvFrom(who, tool, argv) == IF who = "script" THEN ScriptFrom(tool, argv) ELSE NativeFrom(tool, argv)

LEMMA ArgvExists ==
    ASSUME NEW who, NEW tool, NEW argv, NEW n \in Nat
    PROVE  \E f : ArgvOn(who, tool, argv, n, f)
<1> DEFINE bad == {m \in Nat : ~\E f : ArgvOn(who, tool, argv, m, f)}
<1> SUFFICES ASSUME bad # {} PROVE FALSE
  OBVIOUS
<1>1. PICK m \in bad : \A k \in bad : m <= k
  <2>1. bad \in SUBSET Nat
    OBVIOUS
  <2> HIDE DEF bad
  <2> QED
    BY <2>1, LeastExists
<1>2. m \in Nat /\ ~\E f : ArgvOn(who, tool, argv, m, f)
  OBVIOUS
<1>3. m # 0
  <2> DEFINE g == [i \in 0 .. 0 |-> Begun]
  <2>1. \A i \in 0 .. 0 : i = 0
    OBVIOUS
  <2>2. ArgvOn(who, tool, argv, 0, g)
    BY <2>1 DEF ArgvOn
  <2> QED
    BY <1>2, <2>2
<1>4. PICK f : ArgvOn(who, tool, argv, m - 1, f)
  <2>1. m - 1 \in Nat /\ ~(m <= m - 1)
    BY <1>2, <1>3
  <2>2. m - 1 \notin bad
    BY <1>1, <2>1
  <2> QED
    BY <2>1, <2>2
<1> DEFINE g == [i \in 0 .. m |-> IF i = m THEN ArgvStep(who, tool, argv, f[m - 1], m) ELSE f[i]]
<1>5. \A i \in 0 .. (m - 1) : f[i] = IF i = 0 THEN Begun ELSE ArgvStep(who, tool, argv, f[i - 1], i)
  BY <1>2, <1>4 DEF ArgvOn
<1>6. \A i \in 0 .. (m - 1) : i \in 0 .. m /\ i # m /\ g[i] = f[i]
  BY <1>2
<1>7. g[m] = ArgvStep(who, tool, argv, f[m - 1], m) /\ m - 1 \in 0 .. (m - 1)
  BY <1>2, <1>3
<1>8. g = [i \in 0 .. m |-> g[i]]
  OBVIOUS
<1> HIDE DEF g
<1>9. \A i \in 0 .. m : g[i] = IF i = 0 THEN Begun ELSE ArgvStep(who, tool, argv, g[i - 1], i)
  <2> SUFFICES ASSUME NEW i \in 0 .. m
               PROVE  g[i] = IF i = 0 THEN Begun ELSE ArgvStep(who, tool, argv, g[i - 1], i)
    OBVIOUS
  <2>1. CASE i = m
    BY <1>3, <1>6, <1>7, <2>1
  <2>2. CASE i # m
    <3>1. i \in 0 .. (m - 1) /\ (i # 0 => i - 1 \in 0 .. (m - 1))
      BY <1>2, <2>2
    <3> QED
      BY <1>5, <1>6, <3>1
  <2> QED
    BY <2>1, <2>2
<1>10. ArgvOn(who, tool, argv, m, g)
  BY <1>8, <1>9 DEF ArgvOn
<1> QED
  BY <1>2, <1>10

LEMMA ArgvUnfolds ==
    ASSUME NEW who, NEW tool, NEW argv \in Seq(Argument)
    PROVE  /\ ArgvRead(who, tool, argv)[0] = Begun
           /\ \A i \in 1 .. Len(argv) :
                ArgvRead(who, tool, argv)[i] = ArgvStep(who, tool, argv, ArgvRead(who, tool, argv)[i - 1], i)
           /\ ArgvFrom(who, tool, argv) = ArgvRead(who, tool, argv)[Len(argv)].reading
<1> DEFINE f == ArgvRead(who, tool, argv)
<1>1. Len(argv) \in Nat
  OBVIOUS
<1>2. ArgvOn(who, tool, argv, Len(argv), f)
  BY <1>1, ArgvExists DEF ArgvRead
<1>3. ArgvFrom(who, tool, argv) = f[Len(argv)].reading
  <2>1. CASE who = "script"
    BY <2>1 DEF ArgvFrom, ScriptFrom, ArgvRead, ArgvOn, ArgvStep
  <2>2. CASE who # "script"
    BY <2>2 DEF ArgvFrom, NativeFrom, ArgvRead, ArgvOn, ArgvStep
  <2> QED
    BY <2>1, <2>2
<1> HIDE DEF f
<1>4. f[0] = Begun /\ \A i \in 1 .. Len(argv) : f[i] = ArgvStep(who, tool, argv, f[i - 1], i)
  BY <1>1, <1>2 DEF ArgvOn
<1> QED
  BY <1>3, <1>4 DEF f

\* What was read of the first i arguments fits the schema, and holds an item for
\* each flag of an array.
Held(out, p) == IF p \in DOMAIN out THEN Len(out[p].list) ELSE 0
IsArray(v)   == \E s \in Seq(Single) : v = List(s)
FitsTool(tool, out) ==
    /\ DOMAIN out \subseteq ToSet(tool.params)
    /\ \A p \in DOMAIN out :
         NativeAllows(tool.enum[p], out[p]) /\ (tool.type[p] = "array" => IsArray(out[p]))
HoldsAll(tool, argv, i, out) ==
    \A p \in ToSet(tool.params) : tool.type[p] = "array" => Cardinality(Named(tool, argv, p, i)) <= Held(out, p)
Reached(argv, i, next) == next = i + 1 \/ (next = i + 2 /\ i + 1 \in DOMAIN argv /\ ~IsFlag(argv[i + 1]))

ReadWell(tool, argv, i, acc) ==
    /\ acc = [next |-> acc.next, reading |-> acc.reading]
    /\ Failed(acc.reading) \/
         /\ Reached(argv, i, acc.next) /\ acc.reading = [input |-> acc.reading.input]
         /\ FitsTool(tool, acc.reading.input) /\ HoldsAll(tool, argv, i, acc.reading.input)

\* The flags before the next one, with it or without.
LEMMA NamedGrows ==
    ASSUME NEW tool, NEW argv, NEW p, NEW i \in Nat
    PROVE  /\ IsFiniteSet(Named(tool, argv, p, i)) /\ Cardinality(Named(tool, argv, p, i)) \in Nat
           /\ ~(IsFlag(argv[i + 1]) /\ Naming(tool, argv, i + 1) = <<p>>) => Named(tool, argv, p, i + 1) = Named(tool, argv, p, i)
           /\ Cardinality(Named(tool, argv, p, i + 1)) <= Cardinality(Named(tool, argv, p, i)) + 1
<1> DEFINE before == Named(tool, argv, p, i)
           after == Named(tool, argv, p, i + 1)
<1>1. IsFiniteSet(before)
  <2>1. IsFiniteSet(1 .. i) /\ before \subseteq 1 .. i
    BY FS_Interval DEF Named
  <2> HIDE DEF before
  <2> QED
    BY <2>1, FS_Subset
<1>2. Cardinality(before) \in Nat
  BY <1>1, FS_CardinalityType
<1>3. ~(IsFlag(argv[i + 1]) /\ Naming(tool, argv, i + 1) = <<p>>) => after = before
  BY DEF Named
<1>4. IsFlag(argv[i + 1]) /\ Naming(tool, argv, i + 1) = <<p>> => after = before \cup {i + 1} /\ i + 1 \notin before
  BY DEF Named
<1> HIDE DEF before, after
<1>5. Cardinality(before \cup {i + 1}) <= Cardinality(before) + 1
  BY <1>1, <1>2, FS_AddElement
<1>6. Cardinality(after) <= Cardinality(before) + 1
  <2>1. Cardinality(after) = Cardinality(before) \/ Cardinality(after) = Cardinality(before \cup {i + 1})
    BY <1>3, <1>4, Zenon
  <2>2. Cardinality(before) <= Cardinality(before) + 1
    BY <1>2
  <2> HIDE <1>3, <1>4
  <2> QED
    BY <1>5, <2>1, <2>2, Zenon
<1> QED
  BY <1>1, <1>2, <1>3, <1>6 DEF before, after

\* A value is allowed when its items are.
AllowsItems(enum, s) == enum = {} \/ \A i \in 1 .. Len(s) : s[i].v \in enum

LEMMA AllowedIs ==
    ASSUME NEW enum, NEW v, Candidates(v) \in Seq(Single)
    PROVE  NativeAllows(enum, v) <=> AllowsItems(enum, Candidates(v))
<1>1. DOMAIN Candidates(v) = 1 .. Len(Candidates(v))
  OBVIOUS
<1> QED
  BY <1>1 DEF NativeAllows, AllowsItems

LEMMA ListItems ==
    ASSUME NEW s
    PROVE  Candidates(List(s)) = s /\ List(s).list = s
BY DEF Candidates, List, IsList

LEMMA AllowsJoined ==
    ASSUME NEW enum, NEW a \in Seq(Single), NEW b \in Seq(Single), AllowsItems(enum, a), AllowsItems(enum, b)
    PROVE  a \o b \in Seq(Single) /\ Len(a \o b) = Len(a) + Len(b) /\ AllowsItems(enum, a \o b)
<1> DEFINE c == a \o b
<1>1. IsJoined(Single, a, b, c)
  BY Joined
<1> HIDE DEF c
<1>2. c \in Seq(Single) /\ Len(c) = Len(a) + Len(b)
  BY <1>1 DEF IsJoined
<1>3. ASSUME enum # {}, NEW i \in 1 .. Len(c) PROVE c[i].v \in enum
  <2>1. CASE i <= Len(a)
    <3>1. i \in 1 .. Len(a) /\ c[i] = a[i]
      BY <1>1, <1>2, <2>1 DEF IsJoined
    <3> QED
      BY <1>3, <3>1 DEF AllowsItems
  <2>2. CASE ~(i <= Len(a))
    <3>1. i - Len(a) \in 1 .. Len(b) /\ Len(a) + (i - Len(a)) = i
      BY <1>2, <2>2
    <3>2. c[i] = b[i - Len(a)]
      BY <1>1, <3>1 DEF IsJoined
    <3> QED
      BY <1>3, <3>1, <3>2 DEF AllowsItems
  <2> QED
    BY <2>1, <2>2
<1>4. AllowsItems(enum, c)
  BY <1>3 DEF AllowsItems
<1> QED
  BY <1>2, <1>4 DEF c

\* With one value more, what was read fits the tool still, and an array has an item more.
Grows(tool, p, out, new) ==
    FitsTool(tool, new) /\ \A q \in ToSet(tool.params) :
      tool.type[q] = "array" =>
        Held(out, q) \in Nat /\ Held(new, q) \in Nat /\ Held(new, q) >= Held(out, q)
        /\ (q = p => Held(new, q) >= Held(out, q) + 1)

LEMMA InsertGrows ==
    ASSUME NEW tool, NEW out, FitsTool(tool, out), NEW p \in ToSet(tool.params), NEW v,
           NativeAllows(tool.enum[p], v), tool.type[p] = "array" => HasItems(v)
    PROVE  Grows(tool, p, out, InsertValue(out, p, tool.type[p], v))
<1> DEFINE type  == tool.type[p]
           enum  == tool.enum[p]
           old   == IF p \in DOMAIN out THEN out[p].list ELSE <<>>
           items == Candidates(v)
           put   == IF type = "array" THEN List(old \o items) ELSE v
           new   == InsertValue(out, p, type, v)
<1>1. new = [q \in DOMAIN out \cup {p} |-> IF q = p THEN put ELSE out[q]]
  BY DEF InsertValue
<1>2. /\ DOMAIN new = DOMAIN out \cup {p} /\ new[p] = put
      /\ \A q \in DOMAIN out : q # p => new[q] = out[q]
  <2> HIDE DEF put, new
  <2> QED
    BY <1>1
<1> HIDE DEF new
<1>3. \A q \in DOMAIN out : tool.type[q] = "array" =>
        out[q].list \in Seq(Single) /\ out[q] = List(out[q].list) /\ AllowsItems(tool.enum[q], out[q].list)
  <2> SUFFICES ASSUME NEW q \in DOMAIN out, tool.type[q] = "array"
               PROVE  out[q].list \in Seq(Single) /\ out[q] = List(out[q].list) /\ AllowsItems(tool.enum[q], out[q].list)
    OBVIOUS
  <2>1. PICK s \in Seq(Single) : out[q] = List(s)
    BY DEF FitsTool, IsArray
  <2>2. out[q].list = s /\ Candidates(out[q]) = s
    BY <2>1, ListItems
  <2>3. NativeAllows(tool.enum[q], out[q])
    BY DEF FitsTool
  <2> QED
    BY <2>1, <2>2, <2>3, AllowedIs
<1>4. type = "array" => /\ IsArray(put) /\ NativeAllows(enum, put) /\ put.list \in Seq(Single)
                        /\ Len(old) \in Nat /\ Len(put.list) >= Len(old) + 1
  <2> SUFFICES ASSUME type = "array"
               PROVE  /\ IsArray(put) /\ NativeAllows(enum, put) /\ put.list \in Seq(Single)
                      /\ Len(old) \in Nat /\ Len(put.list) >= Len(old) + 1
    OBVIOUS
  <2>1. old \in Seq(Single) /\ AllowsItems(enum, old)
    <3>1. CASE p \in DOMAIN out
      BY <1>3, <3>1
    <3>2. CASE p \notin DOMAIN out
      BY <3>2 DEF AllowsItems
    <3> QED
      BY <3>1, <3>2
  <2>2. items \in Seq(Single) /\ Len(items) >= 1 /\ AllowsItems(enum, items)
    BY AllowedIs DEF HasItems
  <2> HIDE DEF old, items, enum
  <2>3. put = List(old \o items)
    OBVIOUS
  <2> DEFINE all == old \o items
  <2>4. all \in Seq(Single) /\ Len(all) = Len(old) + Len(items) /\ AllowsItems(enum, all)
    BY <2>1, <2>2, AllowsJoined
  <2> HIDE DEF all, put
  <2>5. put.list = all /\ Candidates(put) = all /\ put = List(all)
    BY <2>3, ListItems DEF all
  <2>6. IsArray(put) /\ NativeAllows(enum, put)
    BY <2>4, <2>5, AllowedIs DEF IsArray
  <2> QED
    BY <2>1, <2>2, <2>4, <2>5, <2>6
<1>5. type # "array" => put = v
  OBVIOUS
<1> HIDE DEF put
<1>6. FitsTool(tool, new)
  <2>1. DOMAIN new \subseteq ToSet(tool.params)
    BY <1>2 DEF FitsTool
  <2>2. ASSUME NEW q \in DOMAIN new
        PROVE  NativeAllows(tool.enum[q], new[q]) /\ (tool.type[q] = "array" => IsArray(new[q]))
    <3>1. CASE q = p
      BY <1>2, <1>4, <1>5, <3>1
    <3>2. CASE q # p
      BY <1>2, <3>2 DEF FitsTool
    <3> QED
      BY <3>1, <3>2
  <2> QED
    BY <2>1, <2>2 DEF FitsTool
<1>7. ASSUME NEW q \in ToSet(tool.params), tool.type[q] = "array"
      PROVE  /\ Held(out, q) \in Nat /\ Held(new, q) \in Nat /\ Held(new, q) >= Held(out, q)
             /\ (q = p => Held(new, q) >= Held(out, q) + 1)
  <2>1. Held(out, q) \in Nat
    BY <1>3, <1>7 DEF Held
  <2>2. CASE q = p
    <3>1. Held(out, q) = Len(old) /\ Held(new, q) = Len(put.list)
      <4>1. Len(<<>>) = 0
        OBVIOUS
      <4> QED
        BY <1>2, <2>2, <4>1 DEF Held
    <3>2. Len(put.list) \in Nat /\ Len(old) \in Nat /\ Len(put.list) >= Len(old) + 1
      BY <1>4, <1>7, <2>2
    <3> HIDE DEF old
    <3> QED
      BY <3>1, <3>2
  <2>3. CASE q # p
    <3>1. Held(new, q) = Held(out, q)
      BY <1>2, <2>3 DEF Held
    <3> QED
      BY <2>1, <2>3, <3>1
  <2> QED
    BY <2>2, <2>3
<1> QED
  BY <1>6, <1>7 DEF Grows, new

LEMMA BegunWell ==
    ASSUME NEW tool, NEW argv
    PROVE  ReadWell(tool, argv, 0, Begun)
<1>1. Begun.next = 0 + 1 /\ Begun.reading = [input |-> NoInput] /\ Begun.reading.input = NoInput
      /\ Begun = [next |-> Begun.next, reading |-> Begun.reading]
  BY DEF Begun
<1>2. DOMAIN NoInput = {}
  BY DEF NoInput
<1>3. FitsTool(tool, NoInput)
  BY <1>2 DEF FitsTool
<1>4. ASSUME NEW p PROVE Cardinality(Named(tool, argv, p, 0)) <= Held(NoInput, p)
  <2>1. Named(tool, argv, p, 0) = {}
    BY DEF Named
  <2>2. Held(NoInput, p) = 0
    BY <1>2 DEF Held
  <2> QED
    BY <2>1, <2>2, FS_EmptySet
<1>5. HoldsAll(tool, argv, 0, NoInput)
  BY <1>4 DEF HoldsAll
<1> QED
  BY <1>1, <1>3, <1>5 DEF ReadWell, Reached

LEMMA StepWell ==
    ASSUME NEW tool, IsTool(tool), NEW argv \in Seq(Argument), NEW i \in 1 .. Len(argv), NEW acc,
           ReadWell(tool, argv, i - 1, acc)
    PROVE  ReadWell(tool, argv, i, NativeStep(tool, argv, acc, i))
<1> DEFINE out  == acc.reading.input
           flag == NativeFlag(tool, argv, i)
           turn == Turn(tool, argv[i], acc, flag)
           counts(k, p) == Cardinality(Named(tool, argv, p, k))
<1>1. acc = [next |-> acc.next, reading |-> acc.reading]
  BY DEF ReadWell
<1>2. CASE Failed(acc.reading)
  <2>1. NativeStep(tool, argv, acc, i) = acc
    BY <1>2 DEF NativeStep, PassesOver
  <2> QED
    BY <1>1, <1>2, <2>1 DEF ReadWell
<1>3. ASSUME ~Failed(acc.reading)
      PROVE  /\ Reached(argv, i - 1, acc.next) /\ acc.reading = [input |-> out]
             /\ FitsTool(tool, out) /\ HoldsAll(tool, argv, i - 1, out)
  BY <1>3 DEF ReadWell
<1>4. i \in Nat /\ i - 1 \in Nat /\ (i - 1) + 1 = i /\ (i - 1) + 2 = i + 1
  OBVIOUS
<1>5. CASE ~Failed(acc.reading) /\ i < acc.next
  <2>1. NativeStep(tool, argv, acc, i) = acc
    BY <1>5 DEF NativeStep, PassesOver
  <2>2. acc.next = i + 1 /\ ~IsFlag(argv[i])
    BY <1>3, <1>4, <1>5 DEF Reached
  <2>3. ASSUME NEW p PROVE counts(i, p) = counts(i - 1, p)
    BY <1>4, <2>2, NamedGrows
  <2>4. HoldsAll(tool, argv, i, out)
    BY <1>3, <1>5, <2>3 DEF HoldsAll
  <2> QED
    BY <1>1, <1>3, <1>5, <2>1, <2>2, <2>4 DEF ReadWell, Reached
<1>6. CASE ~Failed(acc.reading) /\ ~(i < acc.next)
  <2>1. NativeStep(tool, argv, acc, i) = turn
    BY <1>6 DEF NativeStep, PassesOver
  <2>2. ASSUME NEW r, Failed(r), turn = [acc EXCEPT !.reading = r]
        PROVE  ReadWell(tool, argv, i, turn)
    <3>1. turn = [next |-> acc.next, reading |-> r]
      BY <1>1, <2>2
    <3> HIDE DEF turn
    <3>2. turn.next = acc.next /\ turn.reading = r
      BY <3>1
    <3> QED
      BY <2>2, <3>1, <3>2 DEF ReadWell
  <2>3. CASE Positional(argv[i])
    <3>1. turn = [acc EXCEPT !.reading = Failure("positional")]
      BY <2>3 DEF Turn
    <3> QED
      BY <2>1, <2>2, <3>1, FailureFails
  <2>4. CASE ~Positional(argv[i]) /\ Failed(flag)
    <3>1. turn = [acc EXCEPT !.reading = flag]
      BY <2>4 DEF Turn
    <3> QED
      BY <2>1, <2>2, <2>4, <3>1
  <2>5. CASE ~Positional(argv[i]) /\ ~Failed(flag)
    <3> DEFINE p == flag.property
               v == flag.value
               new == InsertValue(out, p, tool.type[p], v)
    <3>1. turn = [next |-> flag.next, reading |-> [input |-> new]]
      BY <2>5 DEF Turn
    <3>2. SaysOf(tool, argv, i, flag)
      BY <2>5, FlagSays
    <3>3. Grows(tool, p, out, new)
      BY <1>3, <1>6, <3>2, InsertGrows DEF SaysOf
    <3> HIDE DEF new, out, flag, turn
    <3>4. turn.next = flag.next /\ turn.reading = [input |-> new] /\ turn.reading.input = new
          /\ turn = [next |-> turn.next, reading |-> turn.reading]
      BY <3>1
    <3>5. ASSUME NEW q \in ToSet(tool.params), tool.type[q] = "array" PROVE counts(i, q) <= Held(new, q)
      <4>1. counts(i - 1, q) <= Held(out, q)
        BY <1>3, <1>6, <3>5 DEF HoldsAll
      <4>2. Held(out, q) \in Nat /\ Held(new, q) \in Nat /\ Held(new, q) >= Held(out, q)
            /\ (q = p => Held(new, q) >= Held(out, q) + 1)
        BY <3>3, <3>5 DEF Grows
      <4>3. counts(i - 1, q) \in Nat /\ counts(i, q) \in Nat /\ counts(i, q) <= counts(i - 1, q) + 1
            /\ (Naming(tool, argv, i) # <<q>> => counts(i, q) = counts(i - 1, q))
        <5> DEFINE j == i - 1
        <5>1. j \in Nat /\ j + 1 = i
          BY <1>4
        <5> HIDE DEF j
        <5>2. counts(j, q) \in Nat /\ counts(j + 1, q) \in Nat /\ counts(j + 1, q) <= counts(j, q) + 1
              /\ (Naming(tool, argv, j + 1) # <<q>> => counts(j + 1, q) = counts(j, q))
          <6> DEFINE here == IsFlag(argv[j + 1]) /\ Naming(tool, argv, j + 1) = <<q>>
          <6>1. /\ Cardinality(Named(tool, argv, q, j)) \in Nat
                /\ ~here => Named(tool, argv, q, j + 1) = Named(tool, argv, q, j)
                /\ Cardinality(Named(tool, argv, q, j + 1)) <= Cardinality(Named(tool, argv, q, j)) + 1
            BY <5>1, NamedGrows
          <6>2. j + 1 \in Nat
            BY <5>1
          <6>3. Cardinality(Named(tool, argv, q, j + 1)) \in Nat
            BY <6>2, NamedGrows
          <6>4. Naming(tool, argv, j + 1) # <<q>> => ~here
            OBVIOUS
          <6> HIDE DEF here
          <6> QED
            BY <6>1, <6>3, <6>4
        <5> QED
          BY <5>1, <5>2 DEF j
      <4> HIDE DEF counts
      <4>4. CASE q = p
        BY <4>1, <4>2, <4>3, <4>4
      <4>5. CASE q # p
        <5>1. Naming(tool, argv, i) = <<p>> /\ <<p>> # <<q>>
          BY <3>2, <4>5 DEF SaysOf
        <5> QED
          BY <4>1, <4>2, <4>3, <5>1
      <4> QED
        BY <4>4, <4>5
    <3>6. HoldsAll(tool, argv, i, new)
      BY <3>5 DEF HoldsAll
    <3>7. Reached(argv, i, turn.next) /\ FitsTool(tool, new)
      BY <3>2, <3>3, <3>4 DEF SaysOf, Reached, Grows
    <3> QED
      BY <2>1, <3>4, <3>6, <3>7 DEF ReadWell, turn
  <2> QED
    BY <2>3, <2>4, <2>5
<1> QED
  BY <1>2, <1>5, <1>6

LEMMA AllRead ==
    ASSUME NEW tool, IsTool(tool), NEW argv \in Seq(Argument), ~Failed(NativeFrom(tool, argv))
    PROVE  /\ FitsTool(tool, NativeFrom(tool, argv).input)
           /\ HoldsAll(tool, argv, Len(argv), NativeFrom(tool, argv).input)
<1> DEFINE N == Len(argv)
           f == ArgvRead("native", tool, argv)
           S == {i \in 0 .. N : ReadWell(tool, argv, i, f[i])}
<1>1. N \in Nat /\ N \in 0 .. N /\ 0 \in 0 .. N
  OBVIOUS
<1>2. 0 \in S
  BY <1>1, ArgvUnfolds, BegunWell
<1>3. ASSUME NEW n \in 0 .. N, n \in S, n < N PROVE n + 1 \in S
  <2>1. n + 1 \in 1 .. N /\ n + 1 \in 0 .. N /\ (n + 1) - 1 = n
    BY <1>1, <1>3
  <2>2. f[n + 1] = NativeStep(tool, argv, f[n], n + 1)
    <3>1. \A i \in 1 .. N : f[i] = ArgvStep("native", tool, argv, f[i - 1], i)
      BY ArgvUnfolds
    <3> QED
      BY <2>1, <3>1 DEF ArgvStep
  <2>3. ReadWell(tool, argv, (n + 1) - 1, f[n])
    BY <1>3, <2>1
  <2> HIDE DEF f
  <2>4. ReadWell(tool, argv, n + 1, NativeStep(tool, argv, f[n], n + 1))
    BY <2>1, <2>3, StepWell
  <2> QED
    BY <2>1, <2>2, <2>4
<1>4. ReadWell(tool, argv, N, f[N])
  <2> HIDE DEF S
  <2>1. \A i \in 0 .. N : i \in S
    BY <1>1, <1>2, <1>3, Induction
  <2>2. N \in S
    BY <1>1, <2>1
  <2> QED
    BY <2>2 DEF S
<1>5. NativeFrom(tool, argv) = f[N].reading
  BY ArgvUnfolds DEF ArgvFrom
<1> HIDE DEF f
<1> QED
  BY <1>4, <1>5 DEF ReadWell

LEMMA InputIsValid ==
    ASSUME NEW tool, IsTool(tool), NEW argv \in Seq(Argument)
    PROVE  NativeInputIsValid(tool, argv)
<1> DEFINE from == NativeFrom(tool, argv)
           out  == ParseArgv(tool, argv)
           times(p) == Cardinality({i \in DOMAIN argv : IsFlag(argv[i])
                         /\ ResolvePropertyName(tool.params, ParseFlagName(argv[i].flag).name) = <<p>>})
<1> SUFFICES ASSUME ~AsksJson(argv), ~Failed(out)
             PROVE  /\ tool.required \subseteq DOMAIN out.input /\ DOMAIN out.input \subseteq ToSet(tool.params)
                    /\ \A p \in DOMAIN out.input :
                         /\ NativeAllows(tool.enum[p], out.input[p])
                         /\ tool.type[p] = "array" => Len(out.input[p].list) >= times(p)
  BY DEF NativeInputIsValid
<1>1. out = IF ~Failed(from) /\ ~(tool.required \subseteq DOMAIN from.input)
            THEN Failure("missing required") ELSE from
  BY DEF ParseArgv
<1>2. out = from /\ tool.required \subseteq DOMAIN from.input
  <2> HIDE DEF out, from
  <2>1. ~(~Failed(from) /\ ~(tool.required \subseteq DOMAIN from.input))
    BY <1>1, FailureFails
  <2>2. out = from
    BY <1>1, <2>1
  <2> QED
    BY <2>1, <2>2
<1>3. FitsTool(tool, out.input) /\ HoldsAll(tool, argv, Len(argv), out.input)
  <2>1. ~Failed(from)
    BY <1>2
  <2>2. FitsTool(tool, from.input) /\ HoldsAll(tool, argv, Len(argv), from.input)
    BY <2>1, AllRead
  <2> QED
    BY <1>2, <2>2
<1>4. ASSUME NEW p PROVE times(p) = Cardinality(Named(tool, argv, p, Len(argv)))
  <2>1. DOMAIN argv = 1 .. Len(argv)
    OBVIOUS
  <2> QED
    BY <2>1 DEF Named, Naming
<1> HIDE DEF out, times
<1>5. ASSUME NEW p \in DOMAIN out.input, tool.type[p] = "array" PROVE Len(out.input[p].list) >= times(p)
  <2>1. p \in ToSet(tool.params) /\ IsArray(out.input[p])
    BY <1>3, <1>5 DEF FitsTool
  <2>2. Cardinality(Named(tool, argv, p, Len(argv))) <= Held(out.input, p)
    BY <1>3, <1>5, <2>1 DEF HoldsAll
  <2>3. Held(out.input, p) = Len(out.input[p].list)
    BY <1>5 DEF Held
  <2>4. Held(out.input, p) \in Nat
    <3>1. PICK s \in Seq(Single) : out.input[p] = List(s)
      BY <2>1 DEF IsArray
    <3>2. Len(s) \in Nat /\ out.input[p].list = s
      BY <3>1, ListItems
    <3> QED
      BY <2>3, <3>2
  <2>5. Len(argv) \in Nat
    OBVIOUS
  <2>6. Cardinality(Named(tool, argv, p, Len(argv))) \in Nat
    BY <2>5, NamedGrows
  <2>7. times(p) \in Nat /\ times(p) <= Held(out.input, p)
    BY <1>4, <2>2, <2>6
  <2> QED
    BY <2>3, <2>4, <2>7
<1> QED
  BY <1>2, <1>3, <1>5 DEF FitsTool

\* For a tool and an argv of any length: what parse_argv makes of flags has the required
\* properties, only allowed values, and an item for each time an array's flag was given.
THEOREM ParsedValid == Spec => []ParsedIsValid
<1>1. Typed => ParsedIsValid
  <2> SUFFICES ASSUME Typed, kind = "argv" PROVE NativeInputIsValid(input[1], input[2])
    BY DEF ParsedIsValid
  <2>1. IsInput(kind, input)
    BY DEF Typed
  <2>2. IsTool(input[1]) /\ input[2] \in Seq(Argument)
    BY <2>1 DEF IsInput
  <2> QED
    BY <2>2, InputIsValid
<1> QED
  BY <1>1, TypeCorrect, PTL

----------------------------------------------------------------------------
(* Names by their letters *)

CanonOn(n, k, f) == f = [i \in 0 .. k |-> IF i = 0 THEN <<>> ELSE Adds(f[i - 1], n[i])]
CanonOf(n) == CHOOSE f : CanonOn(n, Len(n), f)

LEMMA CanonExists ==
    ASSUME NEW n, NEW k \in Nat
    PROVE  \E f : CanonOn(n, k, f)
<1> DEFINE bad == {m \in Nat : ~\E f : CanonOn(n, m, f)}
<1> SUFFICES ASSUME bad # {} PROVE FALSE
  OBVIOUS
<1>1. PICK m \in bad : \A l \in bad : m <= l
  <2>1. bad \in SUBSET Nat
    OBVIOUS
  <2> HIDE DEF bad
  <2> QED
    BY <2>1, LeastExists
<1>2. m \in Nat /\ ~\E f : CanonOn(n, m, f)
  OBVIOUS
<1>3. m # 0
  <2> DEFINE g == [i \in 0 .. 0 |-> <<>>]
  <2>1. \A i \in 0 .. 0 : i = 0
    OBVIOUS
  <2>2. CanonOn(n, 0, g)
    BY <2>1 DEF CanonOn
  <2> QED
    BY <1>2, <2>2
<1>4. PICK f : CanonOn(n, m - 1, f)
  <2>1. m - 1 \in Nat /\ ~(m <= m - 1)
    BY <1>2, <1>3
  <2>2. m - 1 \notin bad
    BY <1>1, <2>1
  <2> QED
    BY <2>1, <2>2
<1> DEFINE g == [i \in 0 .. m |-> IF i = m THEN Adds(f[m - 1], n[m]) ELSE f[i]]
<1>5. \A i \in 0 .. (m - 1) : f[i] = IF i = 0 THEN <<>> ELSE Adds(f[i - 1], n[i])
  BY <1>2, <1>4 DEF CanonOn
<1>6. \A i \in 0 .. (m - 1) : i \in 0 .. m /\ i # m /\ g[i] = f[i]
  BY <1>2
<1>7. g[m] = Adds(f[m - 1], n[m]) /\ m - 1 \in 0 .. (m - 1)
  BY <1>2, <1>3
<1>8. g = [i \in 0 .. m |-> g[i]]
  OBVIOUS
<1> HIDE DEF g
<1>9. \A i \in 0 .. m : g[i] = IF i = 0 THEN <<>> ELSE Adds(g[i - 1], n[i])
  <2> SUFFICES ASSUME NEW i \in 0 .. m
               PROVE  g[i] = IF i = 0 THEN <<>> ELSE Adds(g[i - 1], n[i])
    OBVIOUS
  <2>1. CASE i = m
    BY <1>3, <1>6, <1>7, <2>1
  <2>2. CASE i # m
    <3>1. i \in 0 .. (m - 1) /\ (i # 0 => i - 1 \in 0 .. (m - 1))
      BY <1>2, <2>2
    <3> QED
      BY <1>5, <1>6, <3>1
  <2> QED
    BY <2>1, <2>2
<1>10. CanonOn(n, m, g)
  BY <1>8, <1>9 DEF CanonOn
<1> QED
  BY <1>2, <1>10

LEMMA CanonUnfolds ==
    ASSUME NEW S, NEW n \in Seq(S)
    PROVE  /\ CanonOf(n)[0] = <<>>
           /\ \A i \in 1 .. Len(n) : CanonOf(n)[i] = Adds(CanonOf(n)[i - 1], n[i])
           /\ Canonical(n) = CanonOf(n)[Len(n)]
<1> DEFINE f == CanonOf(n)
<1>1. Len(n) \in Nat
  OBVIOUS
<1>2. CanonOn(n, Len(n), f)
  BY <1>1, CanonExists DEF CanonOf
<1>3. Canonical(n) = f[Len(n)]
  BY DEF Canonical, CanonOf, CanonOn
<1> HIDE DEF f
<1>4. f[0] = <<>> /\ \A i \in 1 .. Len(n) : f[i] = Adds(f[i - 1], n[i])
  BY <1>1, <1>2 DEF CanonOn
<1> QED
  BY <1>3, <1>4 DEF f

\* Two characters that are the same or both separators.
Alike(a, b) == a = b \/ (a \in {"-", "_"} /\ b \in {"-", "_"})

\* Hyphens before a name change nothing, nor which separators it has.
LEMMA SameLetters ==
    ASSUME NEW S, NEW n \in Seq(S), NEW T, NEW m \in Seq(T), NEW k \in Nat,
           Len(n) = k + Len(m), \A i \in 1 .. k : n[i] = "-",
           \A i \in 1 .. Len(m) : Alike(m[i], n[k + i])
    PROVE  Canonical(n) = Canonical(m)
<1> DEFINE N == Len(m)
           f == CanonOf(n)
           g == CanonOf(m)
           early == {i \in 0 .. k : f[i] = <<>>}
           same == {i \in 0 .. N : f[k + i] = g[i]}
<1>1. N \in Nat /\ Len(n) = k + N
  OBVIOUS
<1>2. /\ f[0] = <<>> /\ g[0] = <<>>
      /\ \A i \in 1 .. Len(n) : f[i] = Adds(f[i - 1], n[i])
      /\ \A i \in 1 .. N : g[i] = Adds(g[i - 1], m[i])
  BY CanonUnfolds
<1>3. Canonical(n) = f[Len(n)] /\ Canonical(m) = g[N]
  BY CanonUnfolds
<1> HIDE DEF f, g, N
<1>4. f[k] = <<>>
  <2>1. 0 \in early
    BY <1>1, <1>2
  <2>2. ASSUME NEW i \in 0 .. k, i \in early, i < k PROVE i + 1 \in early
    <3>1. i + 1 \in 1 .. k /\ i + 1 \in 1 .. Len(n) /\ i + 1 \in 0 .. k /\ (i + 1) - 1 = i
      BY <1>1, <2>2
    <3>2. f[i + 1] = Adds(f[i], "-")
      BY <1>2, <3>1
    <3>3. f[i + 1] = <<>>
      BY <2>2, <3>2 DEF Adds
    <3> QED
      BY <3>1, <3>3
  <2> HIDE DEF early
  <2>3. \A i \in 0 .. k : i \in early
    BY <2>1, <2>2, Induction
  <2>4. k \in 0 .. k
    OBVIOUS
  <2> QED
    BY <2>3, <2>4 DEF early
<1>5. f[k + N] = g[N]
  <2>1. 0 \in same
    BY <1>1, <1>2, <1>4
  <2>2. ASSUME NEW i \in 0 .. N, i \in same, i < N PROVE i + 1 \in same
    <3>0. N \in Nat /\ k \in Nat /\ i \in Nat /\ i < N /\ Len(n) = k + N
      BY ONLY <1>1, k \in Nat, i \in 0 .. N, i < N
    <3>1. /\ i + 1 \in 1 .. N /\ i + 1 \in 0 .. N /\ (i + 1) - 1 = i
          /\ k + (i + 1) \in 1 .. Len(n) /\ (k + (i + 1)) - 1 = k + i
      <4>1. k + (i + 1) \in 1 .. k + N
        BY ONLY <3>0
      <4> QED
        BY ONLY <3>0, <4>1
    <3>2. g[i + 1] = Adds(g[i], m[i + 1])
      BY <1>2, <3>1
    <3>3. f[k + (i + 1)] = Adds(f[k + i], n[k + (i + 1)])
      BY <1>2, <3>1
    <3>4. f[k + i] = g[i]
      BY <2>2
    <3>5. Alike(m[i + 1], n[k + (i + 1)])
      BY <3>1 DEF N
    <3>6. Adds(g[i], m[i + 1]) = Adds(g[i], n[k + (i + 1)])
      BY <3>5 DEF Adds, Alike
    <3> QED
      BY <3>1, <3>2, <3>3, <3>4, <3>6
  <2> HIDE DEF same
  <2>3. \A i \in 0 .. N : i \in same
    BY <1>1, <2>1, <2>2, Induction
  <2>4. N \in 0 .. N
    BY <1>1
  <2> QED
    BY <2>3, <2>4 DEF same
<1> QED
  BY <1>1, <1>3, <1>5

LEMMA SnakeLetters ==
    ASSUME NEW S, NEW n \in Seq(S)
    PROVE  Canonical(SnakeOf(n)) = Canonical(n) /\ SnakeOf(n) \in Seq(S \cup {"_"}) /\ Len(SnakeOf(n)) = Len(n)
<1> DEFINE m == SnakeOf(n)
           T == S \cup {"_"}
<1>1. m = [i \in 1 .. Len(n) |-> IF n[i] = "-" THEN "_" ELSE n[i]]
  BY DEF SnakeOf, MapSeq
<1>2. Len(n) \in Nat /\ \A i \in 1 .. Len(n) : n[i] \in S
  OBVIOUS
<1> HIDE DEF m
<1>3. m \in Seq(T) /\ Len(m) = Len(n) /\ \A i \in 1 .. Len(n) : m[i] = IF n[i] = "-" THEN "_" ELSE n[i]
  <2>1. \A i \in 1 .. Len(n) : (IF n[i] = "-" THEN "_" ELSE n[i]) \in T
    BY <1>2
  <2> DEFINE g == [i \in 1 .. Len(n) |-> IF n[i] = "-" THEN "_" ELSE n[i]]
  <2> HIDE DEF T
  <2>2. g \in [1 .. Len(n) -> T]
    BY <2>1
  <2>3. \A i \in 1 .. Len(n) : g[i] = IF n[i] = "-" THEN "_" ELSE n[i]
    OBVIOUS
  <2>4. m = g
    BY <1>1
  <2> HIDE DEF g
  <2>5. g \in Seq(T) /\ Len(g) = Len(n)
    BY <1>2, <2>2
  <2> QED
    BY <2>3, <2>4, <2>5
<1> HIDE DEF T
<1>4. Len(n) = 0 + Len(m) /\ \A i \in 1 .. Len(m) : Alike(m[i], n[0 + i])
  <2>0. Len(n) \in Nat /\ Len(m) = Len(n)
    <3>1. Len(m) = Len(n)
      BY <1>3, Zenon
    <3> QED
      BY <3>1
  <2>1. Len(n) = 0 + Len(m)
    BY <2>0
  <2>2. ASSUME NEW i \in 1 .. Len(m) PROVE Alike(m[i], n[0 + i])
    <3>1. 0 + i = i /\ i \in 1 .. Len(n)
      BY <2>0
    <3>2. CASE n[i] = "-"
      <4>1. m[i] = "_"
        BY <1>3, <3>1, <3>2
      <4> QED
        BY <3>1, <3>2, <4>1 DEF Alike
    <3>3. CASE n[i] # "-"
      <4>1. m[i] = n[i]
        BY <1>3, <3>1, <3>3
      <4> QED
        BY <3>1, <4>1 DEF Alike
    <3> QED
      BY <3>2, <3>3
  <2> QED
    BY <2>1, <2>2
<1>5. Canonical(n) = Canonical(m)
  <2>1. \A i \in 1 .. 0 : n[i] = "-"
    OBVIOUS
  <2> QED
    BY <1>3, <1>4, <2>1, SameLetters
<1> QED
  BY <1>3, <1>5 DEF m, T

LEMMA TrimLetters ==
    ASSUME NEW S, NEW f \in Seq(S)
    PROVE  /\ Canonical(TrimHyphens(f)) = Canonical(f) /\ TrimHyphens(f) \in Seq(S)
           /\ (Len(f) >= 1 /\ f[1] # "-" => TrimHyphens(f) = f)
<1> DEFINE other   == SelectInSeq(f, LAMBDA c : c # "-")
           leading == IF other = 0 THEN Len(f) ELSE other - 1
           k == leading - (leading % 2)
           t == SubSeq(f, k + 1, Len(f))
           I == {i \in 1 .. Len(f) : f[i] # "-"}
<1>1. TrimHyphens(f) = t
  BY DEF TrimHyphens
<1>2. leading \in 0 .. Len(f) /\ (\A i \in 1 .. leading : f[i] = "-") /\ (Len(f) >= 1 /\ f[1] # "-" => leading = 0)
  <2>1. other = IF I # {} THEN Min(I) ELSE 0
    BY DEF SelectInSeq
  <2>2. CASE I = {}
    BY <2>1, <2>2
  <2>3. CASE I # {}
    <3>1. PICK m \in I : \A j \in I : m <= j
      <4>1. I \in SUBSET Nat
        OBVIOUS
      <4> HIDE DEF I
      <4> QED
        BY <2>3, <4>1, LeastExists
    <3>2. Min(I) \in I /\ \A j \in I : Min(I) <= j
      <4> HIDE DEF I
      <4> QED
        BY <3>1 DEF Min
    <3>3. other \in I /\ \A j \in I : other <= j
      BY <2>1, <2>3, <3>2
    <3> HIDE DEF other
    <3>4. other \in 1 .. Len(f) /\ leading = other - 1
      BY <3>3
    <3>5. ASSUME NEW i \in 1 .. leading PROVE f[i] = "-"
      BY <3>3, <3>4
    <3>6. Len(f) >= 1 /\ f[1] # "-" => leading = 0
      BY <3>3, <3>4
    <3> QED
      BY <3>4, <3>5, <3>6
  <2> QED
    BY <2>2, <2>3
<1> HIDE DEF leading
<1>3. k \in 0 .. leading /\ (leading = 0 => k = 0)
  <2>1. leading \in Nat
    BY <1>2
  <2>2. leading % 2 \in 0 .. 1 /\ (leading = 0 => leading % 2 = 0) /\ leading % 2 <= leading
    BY <2>1
  <2> QED
    BY <2>1, <2>2
<1> HIDE DEF k
<1>4. k \in Nat /\ k <= Len(f) /\ Len(f) \in Nat
  BY <1>2, <1>3
<1>5. IsCutOut(S, f, k, Len(f), t)
  BY <1>4, CutOut
<1> HIDE DEF t
<1>6. t \in Seq(S) /\ Len(f) = k + Len(t) /\ \A i \in 1 .. Len(t) : t[i] = f[k + i]
  BY <1>4, <1>5 DEF IsCutOut
<1>7. Canonical(f) = Canonical(t)
  <2>1. \A i \in 1 .. k : f[i] = "-"
    BY <1>2, <1>3
  <2>2. \A i \in 1 .. Len(t) : Alike(t[i], f[k + i])
    BY <1>6 DEF Alike
  <2> QED
    BY <1>4, <1>6, <2>1, <2>2, SameLetters
<1>8. k = 0 => t = f
  BY <1>4, <1>6, SameSeq
<1> QED
  BY <1>1, <1>2, <1>3, <1>6, <1>7, <1>8

----------------------------------------------------------------------------
(* The two parsers find the same property *)

\* What a flag is found by in the script.
RawName(f) == IF Starts(f, No) THEN Without(f, No) ELSE f

LEMMA NegatedIs ==
    ASSUME NEW f \in Texts, Starts(f, No)
    PROVE  /\ Len(f) >= 3 /\ f[1] # "-" /\ TrimHyphens(f) = f
           /\ Without(f, No) \in Texts
<1>1. Len(No) = 3 /\ No[1] = "n" /\ No \in Seq({"n", "o", "-"})
  BY DEF No
<1>2. Len(No) <= Len(f) /\ SubSeq(No, 1, Len(No)) = SubSeq(f, 1, Len(No))
  BY DEF Starts, IsPrefix
<1>3. Len(f) \in Nat /\ f \in Seq(Char)
  BY DEF Texts
<1>4. Len(f) >= 3
  BY <1>1, <1>2
<1>5. f[1] = "n"
  <2>1. SubSeq(No, 1, 3)[1] = No[1]
    BY <1>1
  <2>2. SubSeq(f, 1, 3)[1] = f[1]
    BY <1>3, <1>4
  <2> QED
    BY <1>1, <1>2, <2>1, <2>2
<1>6. TrimHyphens(f) = f
  BY <1>3, <1>4, <1>5, TrimLetters
<1>7. Without(f, No) \in Texts
  BY <1>1, <1>3, <1>4, CutOut DEF Without, Texts, IsCutOut
<1> QED
  BY <1>4, <1>5, <1>6, <1>7

LEMMA NamesAlike ==
    ASSUME NEW f \in Texts, NativeNegates(f) = ScriptNegates(f)
    PROVE  /\ ParseFlagName(f).no = Starts(f, No)
           /\ Canonical(ParseFlagName(f).name) = Canonical(RawName(f))
           /\ Canonical(SnakeOf(RawName(f))) = Canonical(RawName(f))
<1> DEFINE n == TrimHyphens(f)
           p == ParseFlagName(f)
<1>1. /\ Starts(n, No) => p.no = TRUE /\ p.name = SnakeOf(Without(n, No))
      /\ ~Starts(n, No) => p.no = FALSE /\ p.name = SnakeOf(n)
  <2>1. p = IF Starts(n, No) THEN [name |-> SnakeOf(Without(n, No)), no |-> TRUE]
            ELSE [name |-> SnakeOf(n), no |-> FALSE]
    BY DEF ParseFlagName
  <2> HIDE DEF p, n
  <2> QED
    BY <2>1
<1>2. p.no = Starts(f, No)
  BY DEF NativeNegates, ScriptNegates
<1>3. CASE Starts(f, No)
  <2>1. n = f /\ Without(f, No) \in Texts
    BY <1>3, NegatedIs
  <2>2. Canonical(SnakeOf(Without(f, No))) = Canonical(Without(f, No))
    BY <2>1, SnakeLetters DEF Texts
  <2>3. p.name = SnakeOf(Without(f, No)) /\ RawName(f) = Without(f, No)
    BY <1>1, <1>3, <2>1 DEF RawName
  <2> HIDE DEF p
  <2> QED
    BY <1>2, <2>2, <2>3 DEF p
<1>4. CASE ~Starts(f, No)
  <2>1. ~Starts(n, No)
    BY <1>1, <1>2, <1>4
  <2>2. p.name = SnakeOf(n) /\ RawName(f) = f
    BY <1>1, <1>4, <2>1 DEF RawName
  <2>3. n \in Texts /\ Canonical(n) = Canonical(f)
    BY TrimLetters DEF Texts
  <2>4. Canonical(SnakeOf(n)) = Canonical(n) /\ Canonical(SnakeOf(f)) = Canonical(f)
    BY <2>3, SnakeLetters DEF Texts
  <2> HIDE DEF p, n
  <2> QED
    BY <1>2, <2>2, <2>3, <2>4 DEF p
<1> QED
  BY <1>3, <1>4

\* The place of the first that has the letters.
LEMMA FirstAlike ==
    ASSUME NEW P \in Seq(Texts), NEW n, SomeOf(P, LAMBDA q : Canonical(q) = Canonical(n))
    PROVE  /\ FirstOf(P, LAMBDA q : Canonical(q) = Canonical(n)) \in ToSet(P)
           /\ Canonical(FirstOf(P, LAMBDA q : Canonical(q) = Canonical(n))) = Canonical(n)
<1> DEFINE alike(q) == Canonical(q) = Canonical(n)
           at == SelectInSeq(P, alike)
           I == {i \in 1 .. Len(P) : alike(P[i])}
<1>1. I # {} /\ I \in SUBSET Nat
  BY DEF SomeOf
<1>2. PICK m \in I : \A k \in I : m <= k
  <2> HIDE DEF I
  <2> QED
    BY <1>1, LeastExists
<1>3. Min(I) \in I
  BY <1>2 DEF Min
<1>4. at = Min(I)
  BY <1>1 DEF SelectInSeq
<1>5. at \in DOMAIN P /\ alike(P[at])
  BY <1>3, <1>4
<1>6. FirstOf(P, LAMBDA q : Canonical(q) = Canonical(n)) = P[at]
  BY DEF FirstOf
<1> QED
  BY <1>5, <1>6 DEF ToSet

\* Where no two names clash there is one property of the letters, and it is found.
Owns(P, n, found) ==
    IF \E p \in ToSet(P) : Canonical(p) = Canonical(n)
    THEN found = <<found[1]>> /\ found[1] \in ToSet(P) /\ Canonical(found[1]) = Canonical(n)
    ELSE found = <<>>

LEMMA InSequence ==
    ASSUME NEW P \in Seq(Texts), NEW n
    PROVE  /\ Contains(P, n) <=> n \in ToSet(P)
           /\ SomeOf(P, LAMBDA q : Canonical(q) = Canonical(n)) <=> \E p \in ToSet(P) : Canonical(p) = Canonical(n)
BY DEF Contains, ToSet, SomeOf

LEMMA ResolveOwns ==
    ASSUME NEW P \in Seq(Texts), NEW n
    PROVE  Owns(P, n, ResolvePropertyName(P, n))
<1> DEFINE alike(q) == Canonical(q) = Canonical(n)
           r == ResolvePropertyName(P, n)
<1>1. CASE Contains(P, n)
  <2>1. r = <<n>> /\ n \in ToSet(P)
    BY <1>1, InSequence DEF ResolvePropertyName
  <2> QED
    BY <2>1 DEF Owns
<1>2. CASE SomeOf(P, alike) /\ ~Contains(P, n)
  <2> DEFINE q == FirstOf(P, alike)
  <2>1. r = <<q>>
    BY <1>2 DEF ResolvePropertyName
  <2>2. q \in ToSet(P) /\ Canonical(q) = Canonical(n)
    BY <1>2, FirstAlike
  <2> HIDE DEF q, r
  <2>3. r[1] = q
    BY <2>1
  <2> QED
    BY <2>1, <2>2, <2>3 DEF Owns, r
<1>3. CASE ~SomeOf(P, alike) /\ ~Contains(P, n)
  <2>1. r = <<>>
    BY <1>3 DEF ResolvePropertyName
  <2>2. ~\E p \in ToSet(P) : Canonical(p) = Canonical(n)
    BY <1>3, InSequence
  <2> QED
    BY <2>1, <2>2 DEF Owns
<1> QED
  BY <1>1, <1>2, <1>3

LEMMA ScriptOwns ==
    ASSUME NEW P \in Seq(Texts), NEW f, Canonical(SnakeOf(RawName(f))) = Canonical(RawName(f))
    PROVE  Owns(P, RawName(f), FlagToProperty(P, f))
<1> DEFINE raw == RawName(f)
           alike(q) == Canonical(q) = Canonical(raw)
           r == FlagToProperty(P, f)
<1>1. r = CASE Contains(P, raw) -> <<raw>>
            [] Contains(P, SnakeOf(raw)) /\ ~Contains(P, raw) -> <<SnakeOf(raw)>>
            [] ~Contains(P, raw) /\ ~Contains(P, SnakeOf(raw)) /\ SomeOf(P, alike) -> <<FirstOf(P, alike)>>
            [] OTHER -> <<>>
  BY DEF FlagToProperty, RawName
<1> HIDE DEF raw, r
<1>2. CASE Contains(P, raw)
  <2>1. r = <<raw>> /\ raw \in ToSet(P)
    BY <1>1, <1>2, InSequence
  <2> QED
    BY <2>1 DEF Owns, r, raw
<1>3. CASE Contains(P, SnakeOf(raw)) /\ ~Contains(P, raw)
  <2> DEFINE s == SnakeOf(raw)
  <2>1. r = <<s>> /\ s \in ToSet(P) /\ Canonical(s) = Canonical(raw)
    BY <1>1, <1>3, InSequence DEF raw
  <2> HIDE DEF s
  <2>2. r[1] = s
    BY <2>1
  <2> QED
    BY <2>1, <2>2 DEF Owns, r, raw
<1>4. CASE ~Contains(P, raw) /\ ~Contains(P, SnakeOf(raw)) /\ SomeOf(P, alike)
  <2> DEFINE q == FirstOf(P, alike)
  <2>1. r = <<q>>
    BY <1>1, <1>4
  <2>2. q \in ToSet(P) /\ Canonical(q) = Canonical(raw)
    BY <1>4, FirstAlike
  <2> HIDE DEF q
  <2>3. r[1] = q
    BY <2>1
  <2> QED
    BY <2>1, <2>2, <2>3 DEF Owns, r, raw
<1>5. CASE ~Contains(P, raw) /\ ~Contains(P, SnakeOf(raw)) /\ ~SomeOf(P, alike)
  <2>1. r = <<>>
    BY <1>1, <1>5
  <2>2. ~\E p \in ToSet(P) : Canonical(p) = Canonical(raw)
    BY <1>5, InSequence
  <2> QED
    BY <2>1, <2>2 DEF Owns, r, raw
<1> QED
  BY <1>2, <1>3, <1>4, <1>5

LEMMA SameProperty ==
    ASSUME NEW P \in Seq(Texts), \A p \in ToSet(P) : ~Clash(P, p), NEW f \in Texts, NativeNegates(f) = ScriptNegates(f)
    PROVE  FlagToProperty(P, f) = ResolvePropertyName(P, ParseFlagName(f).name)
<1> DEFINE n == ParseFlagName(f).name
           raw == RawName(f)
           a == ResolvePropertyName(P, n)
           b == FlagToProperty(P, f)
<1>1. Canonical(n) = Canonical(raw) /\ Canonical(SnakeOf(raw)) = Canonical(raw)
  BY NamesAlike
<1>2. Owns(P, n, a) /\ Owns(P, raw, b)
  BY <1>1, ResolveOwns, ScriptOwns
<1>3. ASSUME NEW p \in ToSet(P), NEW q \in ToSet(P), Canonical(p) = Canonical(q) PROVE p = q
  BY <1>3 DEF Clash
<1> HIDE DEF a, b, n, raw
<1>4. CASE \E p \in ToSet(P) : Canonical(p) = Canonical(n)
  <2>1. /\ a = <<a[1]>> /\ a[1] \in ToSet(P) /\ Canonical(a[1]) = Canonical(n)
        /\ b = <<b[1]>> /\ b[1] \in ToSet(P) /\ Canonical(b[1]) = Canonical(raw)
    BY <1>1, <1>2, <1>4 DEF Owns
  <2>2. a[1] = b[1]
    BY <1>1, <1>3, <2>1
  <2> QED
    BY <2>1, <2>2 DEF a, b, n
<1>5. CASE ~\E p \in ToSet(P) : Canonical(p) = Canonical(n)
  BY <1>1, <1>2, <1>5 DEF Owns, a, b, n
<1> QED
  BY <1>4, <1>5

----------------------------------------------------------------------------
(* The two parsers make the same of a word *)

\* Of what the native parser refuses, what the script need not refuse.
Wider == {"missing required", "integer", "number"}
Agree(native, script) ==
    IF Failed(native) THEN Failed(script) \/ native.error \in Wider ELSE script = native

LEMMA SameAgree ==
    ASSUME NEW v
    PROVE  Agree(v, v)
BY DEF Agree

\* The tables of JSON and numbers agree where the native one has the word.
LEMMA TablesAgree ==
    /\ DOMAIN Json = {"true", "five", "half", "list", "object"}
    /\ DOMAIN PyJson = DOMAIN Json \cup {"nan"} /\ \A w \in DOMAIN Json : PyJson[w] = Json[w]
    /\ \A w \in DOMAIN NativeInteger : w \in DOMAIN PyInteger /\ PyInteger[w] = NativeInteger[w]
    /\ \A w \in DOMAIN NativeNumber : w \in DOMAIN PyNumber /\ PyNumber[w] = NativeNumber[w]
<1>1. DOMAIN Json = {"true", "five", "half", "list", "object"}
  BY DEF Json
<1>2. PyJson = [w \in DOMAIN Json \cup {"nan"} |-> IF w = "nan" THEN V("num", "NaN") ELSE Json[w]]
  BY DEF PyJson
<1>3. DOMAIN PyJson = DOMAIN Json \cup {"nan"} /\ \A w \in DOMAIN Json : PyJson[w] = Json[w]
  BY <1>1, <1>2
<1>4. \A w \in DOMAIN NativeInteger : w \in DOMAIN PyInteger /\ PyInteger[w] = NativeInteger[w]
  BY DEF NativeInteger, PyInteger
<1>5. \A w \in DOMAIN NativeNumber : w \in DOMAIN PyNumber /\ PyNumber[w] = NativeNumber[w]
  BY DEF NativeNumber, PyNumber
<1> QED
  BY <1>1, <1>3, <1>4, <1>5

LEMMA ReadsAgree ==
    ASSUME NEW native, NEW script, NEW w, NEW what \in Wider,
           \A x \in DOMAIN native : x \in DOMAIN script /\ script[x] = native[x] /\ ~Failed(native[x])
    PROVE  Agree(Read(native, w, what), Read(script, w, what))
<1>1. CASE w \in DOMAIN native
  <2>1. Read(native, w, what) = native[w] /\ Read(script, w, what) = native[w]
    BY <1>1 DEF Read
  <2> QED
    BY <2>1, SameAgree
<1>2. CASE w \notin DOMAIN native
  <2>1. Read(native, w, what) = Failure(what)
    BY <1>2 DEF Read
  <2>2. Failed(Failure(what)) /\ Failure(what).error = what
    BY DEF Failed, Failure
  <2> QED
    BY <2>1, <2>2 DEF Agree
<1> QED
  BY <1>1, <1>2

LEMMA NoFailures ==
    /\ \A w \in DOMAIN NativeInteger : ~Failed(NativeInteger[w])
    /\ \A w \in DOMAIN NativeNumber : ~Failed(NativeNumber[w])
<1>1. ASSUME NEW t, NEW v PROVE ~Failed(V(t, v))
  BY DEF V, Failed
<1>2. \A w \in DOMAIN NativeInteger : NativeInteger[w] = V("num", "5")
  BY DEF NativeInteger
<1>3. \A w \in DOMAIN NativeNumber : NativeNumber[w] = V("num", "5.0") \/ NativeNumber[w] = V("num", "0.5")
  BY DEF NativeNumber
<1> QED
  BY <1>1, <1>2, <1>3

LEMMA ScalarsAgree ==
    ASSUME NEW type, NEW w, w # "nan"
    PROVE  Agree(NativeScalar(type, w), PyScalar(type, w))
<1>1. CASE type = "boolean"
  <2>1. NativeScalar(type, w) = PyScalar(type, w)
    BY <1>1 DEF NativeScalar, PyScalar
  <2> QED
    BY <2>1, SameAgree
<1>2. CASE type = "integer"
  <2>1. NativeScalar(type, w) = Read(NativeInteger, w, "integer") /\ PyScalar(type, w) = Read(PyInteger, w, "integer")
    BY <1>2 DEF NativeScalar, PyScalar
  <2>2. "integer" \in Wider
    BY DEF Wider
  <2> QED
    BY <2>1, <2>2, TablesAgree, NoFailures, ReadsAgree
<1>3. CASE type = "number"
  <2>1. NativeScalar(type, w) = Read(NativeNumber, w, "number") /\ PyScalar(type, w) = Read(PyNumber, w, "number")
    BY <1>3 DEF NativeScalar, PyScalar
  <2>2. "number" \in Wider
    BY DEF Wider
  <2> QED
    BY <2>1, <2>2, TablesAgree, NoFailures, ReadsAgree
<1>4. CASE ~(type = "boolean") /\ ~(type = "integer") /\ ~(type = "number")
  <2>1. /\ NativeScalar(type, w) = IF w \in DOMAIN Json THEN Json[w] ELSE Text(w)
        /\ PyScalar(type, w) = IF w \in DOMAIN PyJson THEN PyJson[w] ELSE Text(w)
    BY <1>4 DEF NativeScalar, PyScalar
  <2>2. w \in DOMAIN PyJson <=> w \in DOMAIN Json
    BY TablesAgree
  <2>3. NativeScalar(type, w) = PyScalar(type, w)
    BY <2>1, <2>2, TablesAgree
  <2> QED
    BY <2>3, SameAgree
<1> QED
  BY <1>1, <1>2, <1>3, <1>4

LEMMA CoercionsAgree ==
    ASSUME NEW type, NEW items, NEW w, w # "nan"
    PROVE  Agree(NativeCoerce(type, items, w), PyCoerce(type, items, w))
<1>1. CASE type # "array"
  <2>1. NativeCoerce(type, items, w) = NativeScalar(type, w) /\ PyCoerce(type, items, w) = PyScalar(type, w)
    BY <1>1 DEF NativeCoerce, PyCoerce
  <2> QED
    BY <2>1, ScalarsAgree
<1>2. CASE type = "array" /\ w = "list"
  <2>1. NativeCoerce(type, items, w) = Json[w] /\ PyCoerce(type, items, w) = PyJson[w]
    BY <1>2 DEF NativeCoerce, PyCoerce
  <2>2. PyJson[w] = Json[w]
    BY <1>2, TablesAgree
  <2> QED
    BY <2>1, <2>2, SameAgree
<1>3. CASE type = "array" /\ w # "list"
  <2>1. NativeCoerce(type, items, w) = NativeScalar(items, w) /\ PyCoerce(type, items, w) = PyScalar(items, w)
    BY <1>3 DEF NativeCoerce, PyCoerce
  <2> QED
    BY <2>1, ScalarsAgree
<1> QED
  BY <1>1, <1>2, <1>3

\* The labels are the same where there is no Boolean.
NoBoolean(v) == \A i \in DOMAIN Candidates(v) : Candidates(v)[i].t # "bool"

LEMMA AllowsAgree ==
    ASSUME NEW enum, NEW v, enum = {} \/ NoBoolean(v)
    PROVE  NativeAllows(enum, v) = PyAllows(enum, v)
<1>1. CASE enum = {}
  BY <1>1 DEF NativeAllows, PyAllows
<1>2. CASE NoBoolean(v)
  <2>1. \A i \in DOMAIN Candidates(v) : PyLabel(Candidates(v)[i]) = Candidates(v)[i].v
    BY <1>2 DEF PyLabel, NoBoolean
  <2> QED
    BY <2>1 DEF NativeAllows, PyAllows
<1> QED
  BY <1>1, <1>2

LEMMA SingleNoBoolean ==
    ASSUME NEW t, NEW v, t # "bool"
    PROVE  NoBoolean(V(t, v))
<1>1. Candidates(V(t, v)) = <<V(t, v)>> /\ V(t, v).t = t
  BY DEF Candidates, IsList, V
<1> QED
  BY <1>1 DEF NoBoolean

LEMMA ListNoBoolean ==
    NoBoolean(List(<<V("num", "5"), Text("plain")>>))
<1> DEFINE a == V("num", "5")
           b == Text("plain")
<1>1. Candidates(List(<<a, b>>)) = <<a, b>>
  BY ListItems
<1>2. a.t # "bool" /\ b.t # "bool"
  BY DEF V, Text
<1> HIDE DEF a, b
<1>3. NoBoolean(List(<<a, b>>))
  BY <1>1, <1>2 DEF NoBoolean
<1> QED
  BY <1>3 DEF a, b

LEMMA ScalarNoBoolean ==
    ASSUME NEW type, NEW w, w # "true", ~Failed(NativeScalar(type, w))
    PROVE  NoBoolean(NativeScalar(type, w))
<1> DEFINE u == NativeScalar(type, w)
<1>0. "num" # "bool" /\ "str" # "bool" /\ "object" # "bool"
  OBVIOUS
<1>1. CASE type = "boolean"
  <2> DEFINE table == [true |-> V("bool", "true")]
  <2>1. u = Read(table, w, "boolean")
    BY <1>1 DEF NativeScalar
  <2>2. w \notin DOMAIN table
    OBVIOUS
  <2> HIDE DEF table, u
  <2> QED
    BY <2>1, <2>2, ReadIs DEF u
<1>2. CASE type = "integer"
  <2>1. u = Read(NativeInteger, w, "integer")
    BY <1>2 DEF NativeScalar
  <2>2. \A x \in DOMAIN NativeInteger : NativeInteger[x] = V("num", "5")
    BY DEF NativeInteger
  <2> HIDE DEF u
  <2>3. u = V("num", "5")
    BY <2>1, <2>2, ReadIs DEF u
  <2> QED
    BY <1>0, <2>3, SingleNoBoolean DEF u
<1>3. CASE type = "number"
  <2>1. u = Read(NativeNumber, w, "number")
    BY <1>3 DEF NativeScalar
  <2>2. \A x \in DOMAIN NativeNumber : NativeNumber[x] = V("num", "5.0") \/ NativeNumber[x] = V("num", "0.5")
    BY DEF NativeNumber
  <2> HIDE DEF u
  <2>3. u = V("num", "5.0") \/ u = V("num", "0.5")
    BY <2>1, <2>2, ReadIs DEF u
  <2> QED
    BY <1>0, <2>3, SingleNoBoolean DEF u
<1>4. CASE ~(type = "boolean") /\ ~(type = "integer") /\ ~(type = "number")
  <2> DEFINE li == List(<<V("num", "5"), Text("plain")>>)
             fi == V("num", "5")
             ha == V("num", "0.5")
             ob == V("object", "{}")
             te == Text(w)
  <2>1. u = IF w \in DOMAIN Json THEN Json[w] ELSE te
    BY <1>4 DEF NativeScalar
  <2>2. \A x \in DOMAIN Json : x = "true" \/ Json[x] = li \/ Json[x] = fi \/ Json[x] = ha \/ Json[x] = ob
    <3> DEFINE tr == V("bool", "true")
    <3>1. Json = [true |-> tr, five |-> fi, half |-> ha, list |-> li, object |-> ob]
      BY DEF Json
    <3> HIDE DEF li, tr, fi, ha, ob
    <3> QED
      BY <3>1
  <2>3. NoBoolean(li) /\ NoBoolean(fi) /\ NoBoolean(ha) /\ NoBoolean(ob) /\ NoBoolean(te)
    BY <1>0, ListNoBoolean, SingleNoBoolean DEF Text
  <2> HIDE DEF u, li, fi, ha, ob, te
  <2> QED
    BY <2>1, <2>2, <2>3 DEF u
<1> QED
  BY <1>1, <1>2, <1>3, <1>4

LEMMA CoercedNoBoolean ==
    ASSUME NEW type, NEW items, NEW w, w # "true", ~Failed(NativeCoerce(type, items, w))
    PROVE  NoBoolean(NativeCoerce(type, items, w))
<1>1. CASE type # "array"
  <2>1. NativeCoerce(type, items, w) = NativeScalar(type, w)
    BY <1>1 DEF NativeCoerce
  <2> QED
    BY <2>1, ScalarNoBoolean
<1>2. CASE type = "array" /\ w = "list"
  <2>1. NativeCoerce(type, items, w) = List(<<V("num", "5"), Text("plain")>>)
    BY <1>2 DEF NativeCoerce, Json
  <2> QED
    BY <2>1, ListNoBoolean
<1>3. CASE type = "array" /\ w # "list"
  <2>1. NativeCoerce(type, items, w) = NativeScalar(items, w)
    BY <1>3 DEF NativeCoerce
  <2> QED
    BY <2>1, ScalarNoBoolean
<1> QED
  BY <1>1, <1>2, <1>3

----------------------------------------------------------------------------
(* The two parsers make the same of a command line *)

\* What must not be there for a flag to be read the same.
SameSense(tool, argv) == ~ReadOtherwise(tool, argv)

LEMMA SameSenseIs ==
    ASSUME NEW tool, NEW argv \in Seq(Argument), SameSense(tool, argv)
    PROVE  /\ \A p \in ToSet(tool.params) : ~Clash(tool.params, p) /\ (tool.type[p] = "boolean" => tool.enum[p] = {})
           /\ \A i \in DOMAIN argv : IsFlag(argv[i]) => NativeNegates(argv[i].flag) = ScriptNegates(argv[i].flag)
           /\ \A i \in DOMAIN argv : ~IsFlag(argv[i]) =>
                /\ argv[i].word # "nan"
                /\ argv[i].word = "true" => \A p \in ToSet(tool.params) : tool.enum[p] = {}
<1>1. /\ "nan" \notin Words(argv)
      /\ "true" \in Words(argv) => \A p \in ToSet(tool.params) : tool.enum[p] = {}
      /\ \A p \in ToSet(tool.params) : ~Clash(tool.params, p) /\ (tool.type[p] = "boolean" => tool.enum[p] = {})
      /\ \A i \in DOMAIN argv : IsFlag(argv[i]) => NativeNegates(argv[i].flag) = ScriptNegates(argv[i].flag)
  BY DEF SameSense, ReadOtherwise
<1>2. \A i \in DOMAIN argv : ~IsFlag(argv[i]) => argv[i].word \in Words(argv)
  BY DEF Words
<1> QED
  BY <1>1, <1>2

\* A flag whose value the two take alike.
LEMMA TakenAgree ==
    ASSUME NEW tool, NEW p, NEW i, NEW no, NEW raw, NEW a, NEW b, NEW okA, NEW okB,
           Agree(a, b), ~Failed(a) => okA = okB
    PROVE  Agree(Taken(tool, p, i, no, raw, a, okA), Taken(tool, p, i, no, raw, b, okB))
<1> DEFINE bare == no \/ raw = <<>>
           said(v) == [property |-> p, value |-> v, next |-> i + IF bare THEN 1 ELSE 2]
           inner(v, ok) == CASE Failed(v)         -> v
                             [] ~Failed(v) /\ ~ok -> Failure("not allowed")
                             [] OTHER             -> said(v)
           x == Taken(tool, p, i, no, raw, a, okA)
           y == Taken(tool, p, i, no, raw, b, okB)
<1>1. CASE no /\ tool.type[p] # "boolean"
  <2>1. x = Failure("only boolean") /\ y = Failure("only boolean")
    BY <1>1 DEF Taken
  <2> QED
    BY <2>1, SameAgree
<1>2. CASE ~no /\ bare /\ tool.type[p] # "boolean"
  <2>1. x = Failure("requires a value") /\ y = Failure("requires a value")
    BY <1>2 DEF Taken
  <2> QED
    BY <2>1, SameAgree
<1>3. CASE ~(no /\ tool.type[p] # "boolean") /\ ~(~no /\ bare /\ tool.type[p] # "boolean")
  <2>1. x = inner(a, okA) /\ y = inner(b, okB)
    BY <1>3 DEF Taken
  <2> HIDE DEF said, x, y
  <2>2. CASE Failed(a) /\ Failed(b)
    <3>1. x = a /\ y = b
      BY <2>1, <2>2
    <3> QED
      BY <3>1 DEF x, y
  <2>3. CASE Failed(a) /\ ~Failed(b)
    <3>1. x = a /\ a.error \in Wider
      BY <2>1, <2>3 DEF Agree
    <3> HIDE <2>1
    <3> QED
      BY <2>3, <3>1 DEF Agree, x, y
  <2>4. CASE ~Failed(a)
    <3>1. a = b /\ okA = okB
      BY <2>4 DEF Agree
    <3>2. x = y
      BY <2>1, <3>1
    <3> QED
      BY <3>2, SameAgree DEF x, y
  <2> QED
    BY <2>2, <2>3, <2>4
<1> QED
  BY <1>1, <1>2, <1>3

LEMMA FlagsAgree ==
    ASSUME NEW tool, IsTool(tool), NEW argv \in Seq(Argument), SameSense(tool, argv),
           NEW i \in 1 .. Len(argv), IsFlag(argv[i])
    PROVE  Agree(NativeFlag(tool, argv, i), PyFlag(tool, argv, i))
<1> DEFINE f     == argv[i].flag
           no    == ScriptNegates(f)
           found == FlagToProperty(tool.params, f)
           p     == found[1]
           raw   == Value(argv, i)
           bare  == no \/ raw = <<>>
           a     == IF bare THEN Unvalued(no) ELSE NativeCoerce(tool.type[p], tool.items, raw[1])
           b     == IF bare THEN Unvalued(no) ELSE PyCoerce(tool.type[p], tool.items, raw[1])
<1>1. i \in DOMAIN argv /\ argv[i] \in Argument
  OBVIOUS
<1>2. f \in Texts /\ NativeNegates(f) = no
  BY <1>1, ArgumentIs, SameSenseIs
<1>3. tool.params \in Seq(Texts) /\ \A q \in ToSet(tool.params) : ~Clash(tool.params, q)
  BY SameSenseIs DEF IsTool
<1>4. ResolvePropertyName(tool.params, ParseFlagName(f).name) = found
  BY <1>2, <1>3, SameProperty
<1>5. ParseFlagName(f).no = no
  BY <1>2 DEF NativeNegates
<1>6. CASE found = <<>>
  <2>1. NativeFlag(tool, argv, i) = Failure("unknown flag")
    BY <1>4, <1>6 DEF NativeFlag
  <2>2. PyFlag(tool, argv, i) = Failure("unknown flag")
    BY <1>6 DEF PyFlag
  <2> QED
    BY <2>1, <2>2, SameAgree
<1>7. CASE found # <<>>
  <2>1. NativeFlag(tool, argv, i) = Taken(tool, p, i, no, raw, a, NativeAllows(tool.enum[p], a))
    BY <1>4, <1>5, <1>7 DEF NativeFlag
  <2>2. PyFlag(tool, argv, i) = Taken(tool, p, i, no, raw, b, PyAllows(tool.enum[p], b))
    BY <1>7 DEF PyFlag
  <2>3. p \in ToSet(tool.params)
    <3> DEFINE n == ParseFlagName(f).name
    <3>1. ResolvePropertyName(tool.params, n) # <<>>
      BY <1>4, <1>7
    <3> HIDE DEF n, found
    <3>2. ResolvePropertyName(tool.params, n)[1] \in ToSet(tool.params)
      BY <1>3, <3>1, ResolvedIs
    <3> QED
      BY <1>4, <3>2 DEF n
  <2>4. raw # <<>> => /\ raw[1] # "nan"
                      /\ raw[1] = "true" => tool.enum[p] = {}
    <3> SUFFICES ASSUME raw # <<>> PROVE raw[1] # "nan" /\ (raw[1] = "true" => tool.enum[p] = {})
      OBVIOUS
    <3>1. i + 1 \in DOMAIN argv /\ ~IsFlag(argv[i + 1]) /\ raw = <<argv[i + 1].word>>
      BY DEF Value
    <3> DEFINE w == argv[i + 1].word
    <3>2. w # "nan" /\ (w = "true" => tool.enum[p] = {})
      BY <2>3, <3>1, SameSenseIs
    <3> HIDE DEF w
    <3>3. raw[1] = w
      BY <3>1 DEF w
    <3> QED
      BY <3>2, <3>3
  <2> HIDE DEF f, no, found, p, raw
  <2>5. Agree(a, b)
    <3>1. CASE bare
      <4>1. a = b
        BY <3>1
      <4> QED
        BY <4>1, SameAgree
    <3>2. CASE ~bare
      <4>1. a = NativeCoerce(tool.type[p], tool.items, raw[1]) /\ b = PyCoerce(tool.type[p], tool.items, raw[1])
        BY <3>2
      <4>2. raw[1] # "nan"
        BY <2>4, <3>2
      <4> HIDE DEF a, b
      <4> QED
        BY <4>1, <4>2, CoercionsAgree
    <3> QED
      BY <3>1, <3>2
  <2>6. CASE tool.enum[p] # {} /\ bare /\ tool.type[p] # "boolean"
    <3>1. CASE no
      <4>1. /\ NativeFlag(tool, argv, i) = Failure("only boolean")
            /\ PyFlag(tool, argv, i) = Failure("only boolean")
        <5> HIDE DEF a, b
        <5> QED
          BY <2>1, <2>2, <2>6, <3>1 DEF Taken
      <4> QED
        BY <4>1, SameAgree
    <3>2. CASE ~no
      <4>1. /\ NativeFlag(tool, argv, i) = Failure("requires a value")
            /\ PyFlag(tool, argv, i) = Failure("requires a value")
        <5>1. raw = <<>>
          BY <2>6, <3>2
        <5> HIDE DEF a, b
        <5> QED
          BY <2>1, <2>2, <2>6, <3>2, <5>1 DEF Taken
      <4> QED
        BY <4>1, SameAgree
    <3> QED
      BY <3>1, <3>2
  <2>7. CASE ~(tool.enum[p] # {} /\ bare /\ tool.type[p] # "boolean")
    <3>1. tool.type[p] = "boolean" => tool.enum[p] = {}
      BY <2>3, SameSenseIs
    <3>2. ~Failed(a) => tool.enum[p] = {} \/ NoBoolean(a)
      <4>1. CASE bare
        BY <2>7, <3>1, <4>1
      <4>2. CASE ~bare
        <5>1. a = NativeCoerce(tool.type[p], tool.items, raw[1])
          BY <4>2
        <5>2. raw[1] = "true" => tool.enum[p] = {}
          BY <2>4, <4>2
        <5> HIDE DEF a
        <5> QED
          BY <5>1, <5>2, CoercedNoBoolean
      <4> QED
        BY <4>1, <4>2
    <3> HIDE DEF a, b
    <3>3. ~Failed(a) => NativeAllows(tool.enum[p], a) = PyAllows(tool.enum[p], b)
      <4>1. ~Failed(a) => b = a
        BY <2>5 DEF Agree
      <4>2. ~Failed(a) => NativeAllows(tool.enum[p], a) = PyAllows(tool.enum[p], a)
        BY <3>2, AllowsAgree
      <4> QED
        BY <4>1, <4>2
    <3> DEFINE okA == NativeAllows(tool.enum[p], a)
               okB == PyAllows(tool.enum[p], b)
    <3>4. ~Failed(a) => okA = okB
      BY <3>3
    <3>5. NativeFlag(tool, argv, i) = Taken(tool, p, i, no, raw, a, okA)
          /\ PyFlag(tool, argv, i) = Taken(tool, p, i, no, raw, b, okB)
      BY <2>1, <2>2
    <3> HIDE DEF okA, okB
    <3>6. Agree(Taken(tool, p, i, no, raw, a, okA), Taken(tool, p, i, no, raw, b, okB))
      BY <2>5, <3>4, TakenAgree
    <3> QED
      BY <3>5, <3>6
  <2> QED
    BY <2>6, <2>7
<1> QED
  BY <1>6, <1>7

\* The two loops keep to the same, or the native one has stopped where it may.
InStep(acc, py) ==
    /\ acc = [next |-> acc.next, reading |-> acc.reading] /\ py = [next |-> py.next, reading |-> py.reading]
    /\ IF Failed(acc.reading) THEN Failed(py.reading) \/ acc.reading.error \in Wider ELSE py = acc

LEMMA StepInStep ==
    ASSUME NEW tool, IsTool(tool), NEW argv \in Seq(Argument), SameSense(tool, argv), NEW i \in 1 .. Len(argv),
           NEW acc, NEW py, InStep(acc, py)
    PROVE  InStep(NativeStep(tool, argv, acc, i), ScriptStep(tool, argv, py, i))
<1> DEFINE arg  == argv[i]
           fa   == NativeFlag(tool, argv, i)
           fb   == PyFlag(tool, argv, i)
           x    == NativeStep(tool, argv, acc, i)
           y    == ScriptStep(tool, argv, py, i)
           ta   == Turn(tool, arg, acc, fa)
           tb   == Turn(tool, arg, py, fb)
<1>1. acc = [next |-> acc.next, reading |-> acc.reading] /\ py = [next |-> py.next, reading |-> py.reading]
  BY DEF InStep
<1>2. /\ x = IF PassesOver(acc, i) THEN acc ELSE ta
      /\ y = IF PassesOver(py, i) THEN py ELSE tb
  BY DEF NativeStep, ScriptStep
<1>3. ASSUME NEW r, NEW c, c = [next |-> c.next, reading |-> c.reading]
      PROVE  LET d == [c EXCEPT !.reading = r] IN d = [next |-> d.next, reading |-> d.reading] /\ d.reading = r
  <2> DEFINE d == [c EXCEPT !.reading = r]
  <2>1. d = [next |-> c.next, reading |-> r]
    BY <1>3
  <2> HIDE DEF d
  <2>2. d.next = c.next /\ d.reading = r
    BY <2>1
  <2> QED
    BY <2>1, <2>2 DEF d
<1>4. /\ Positional(arg) => ta = [acc EXCEPT !.reading = Failure("positional")]
                            /\ tb = [py EXCEPT !.reading = Failure("positional")]
      /\ ~Positional(arg) /\ Failed(fa) => ta = [acc EXCEPT !.reading = fa]
      /\ ~Positional(arg) /\ Failed(fb) => tb = [py EXCEPT !.reading = fb]
  BY DEF Turn
<1>5. tb = [next |-> tb.next, reading |-> tb.reading]
  <2>1. CASE Positional(arg)
    BY <1>1, <1>3, <1>4, <2>1
  <2>2. CASE ~Positional(arg) /\ Failed(fb)
    BY <1>1, <1>3, <1>4, <2>2
  <2>3. CASE ~Positional(arg) /\ ~Failed(fb)
    <3> DEFINE in == [input |-> InsertValue(py.reading.input, fb.property, tool.type[fb.property], fb.value)]
               n  == fb.next
    <3>1. tb = [next |-> n, reading |-> in]
      BY <2>3 DEF Turn
    <3> HIDE DEF in, n, tb
    <3> QED
      BY <3>1
  <2> QED
    BY <2>1, <2>2, <2>3
<1>6. y = [next |-> y.next, reading |-> y.reading]
  <2> HIDE DEF y, tb
  <2> QED
    BY <1>1, <1>2, <1>5
<1>7. Failed(py.reading) => y = py
  BY <1>2 DEF PassesOver
<1>8. CASE Failed(acc.reading)
  <2>1. x = acc
    BY <1>2, <1>8 DEF PassesOver
  <2>2. Failed(py.reading) \/ acc.reading.error \in Wider
    BY <1>8 DEF InStep
  <2> HIDE DEF x, y
  <2> QED
    BY <1>1, <1>6, <1>7, <1>8, <2>1, <2>2 DEF InStep, x, y
<1>9. CASE ~Failed(acc.reading)
  <2>1. py = acc
    BY <1>9 DEF InStep
  <2>2. CASE i < acc.next
    <3>1. x = acc /\ y = acc
      BY <1>2, <2>1, <2>2 DEF PassesOver
    <3> HIDE DEF x, y
    <3> QED
      BY <1>1, <1>9, <3>1 DEF InStep, x, y
  <2>3. CASE ~(i < acc.next)
    <3>1. x = ta /\ y = tb
      BY <1>2, <1>9, <2>1, <2>3 DEF PassesOver
    <3>2. CASE Positional(arg)
      <4>1. ta = tb /\ Failed(ta.reading) /\ ta = [next |-> ta.next, reading |-> ta.reading]
        <5>1. ta = [acc EXCEPT !.reading = Failure("positional")] /\ tb = ta
          BY <1>4, <2>1, <3>2
        <5>2. ta = [next |-> ta.next, reading |-> ta.reading] /\ ta.reading = Failure("positional")
          BY <1>1, <1>3, <5>1
        <5> QED
          BY <5>1, <5>2, FailureFails
      <4> HIDE DEF ta, tb, x, y
      <4> QED
        BY <3>1, <4>1 DEF InStep, x, y
    <3>3. CASE ~Positional(arg)
      <4>1. IsFlag(arg)
        BY <3>3 DEF Positional
      <4>2. Agree(fa, fb)
        BY <4>1, FlagsAgree
      <4>3. CASE Failed(fa)
        <5>1. ta = [next |-> ta.next, reading |-> ta.reading] /\ ta.reading = fa
          BY <1>1, <1>3, <1>4, <3>3, <4>3
        <5>2. Failed(fb) => tb.reading = fb
          BY <1>1, <1>3, <1>4, <3>3
        <5>3. Failed(fb) \/ fa.error \in Wider
          BY <4>2, <4>3 DEF Agree
        <5> HIDE DEF ta, tb, fa, fb, x, y
        <5> QED
          BY <1>6, <3>1, <4>3, <5>1, <5>2, <5>3 DEF InStep, x, y
      <4>4. CASE ~Failed(fa)
        <5>1. fb = fa
          BY <4>2, <4>4 DEF Agree
        <5>2. tb = ta
          BY <2>1, <5>1
        <5>3. x = y
          BY <3>1, <5>2
        <5>4. ~Failed(x.reading)
          <6> DEFINE in == InsertValue(acc.reading.input, fa.property, tool.type[fa.property], fa.value)
                     n  == fa.next
          <6>1. ta = [next |-> n, reading |-> [input |-> in]]
            BY <3>3, <4>4 DEF Turn
          <6> HIDE DEF in, n, ta
          <6>2. ta.reading = [input |-> in]
            BY <6>1
          <6>3. ~Failed([input |-> in])
            BY DEF Failed
          <6> QED
            BY <3>1, <6>2, <6>3
        <5> HIDE DEF x, y
        <5> QED
          BY <1>6, <5>3, <5>4 DEF InStep, x, y
      <4> QED
        BY <4>3, <4>4
    <3> QED
      BY <3>2, <3>3
  <2> QED
    BY <2>2, <2>3
<1> QED
  BY <1>8, <1>9

LEMMA LoopsAgree ==
    ASSUME NEW tool, IsTool(tool), NEW argv \in Seq(Argument), SameSense(tool, argv)
    PROVE  Agree(NativeFrom(tool, argv), ScriptFrom(tool, argv))
<1> DEFINE N == Len(argv)
           f == ArgvRead("native", tool, argv)
           g == ArgvRead("script", tool, argv)
           S == {i \in 0 .. N : InStep(f[i], g[i])}
<1>1. N \in Nat /\ N \in 0 .. N /\ 0 \in 0 .. N
  OBVIOUS
<1>2. 0 \in S
  <2>1. f[0] = Begun /\ g[0] = Begun
    BY ArgvUnfolds
  <2>2. Begun = [next |-> Begun.next, reading |-> Begun.reading] /\ ~Failed(Begun.reading)
    <3>1. Begun.next = 1 /\ Begun.reading = [input |-> NoInput]
      BY DEF Begun
    <3> QED
      BY <3>1 DEF Begun, Failed
  <2>3. InStep(Begun, Begun)
    BY <2>2 DEF InStep
  <2> QED
    BY <1>1, <2>1, <2>3
<1>3. ASSUME NEW n \in 0 .. N, n \in S, n < N PROVE n + 1 \in S
  <2>1. n + 1 \in 1 .. N /\ n + 1 \in 0 .. N /\ (n + 1) - 1 = n
    BY <1>1, <1>3
  <2>2. f[n + 1] = NativeStep(tool, argv, f[n], n + 1)
    <3>1. \A i \in 1 .. N : f[i] = ArgvStep("native", tool, argv, f[i - 1], i)
      BY ArgvUnfolds
    <3> QED
      BY <2>1, <3>1 DEF ArgvStep
  <2>3. g[n + 1] = ScriptStep(tool, argv, g[n], n + 1)
    <3>1. \A i \in 1 .. N : g[i] = ArgvStep("script", tool, argv, g[i - 1], i)
      BY ArgvUnfolds
    <3> QED
      BY <2>1, <3>1 DEF ArgvStep
  <2>4. InStep(f[n], g[n])
    BY <1>3
  <2> HIDE DEF f, g
  <2>5. InStep(NativeStep(tool, argv, f[n], n + 1), ScriptStep(tool, argv, g[n], n + 1))
    BY <2>1, <2>4, StepInStep
  <2> QED
    BY <2>1, <2>2, <2>3, <2>5
<1>4. InStep(f[N], g[N])
  <2> HIDE DEF S
  <2>1. \A i \in 0 .. N : i \in S
    BY <1>1, <1>2, <1>3, Induction
  <2>2. N \in S
    BY <1>1, <2>1
  <2> QED
    BY <2>2 DEF S
<1>5. NativeFrom(tool, argv) = f[N].reading /\ ScriptFrom(tool, argv) = g[N].reading
  BY ArgvUnfolds DEF ArgvFrom
<1> HIDE DEF f, g
<1>6. IF Failed(f[N].reading) THEN Failed(g[N].reading) \/ f[N].reading.error \in Wider ELSE g[N] = f[N]
  BY <1>4 DEF InStep
<1> QED
  BY <1>5, <1>6 DEF Agree

LEMMA ReadsAsNative ==
    ASSUME NEW tool, IsTool(tool), NEW argv \in Seq(Argument)
    PROVE  ScriptReadsAsNative(tool, argv)
<1> DEFINE native == ParseArgv(tool, argv)
           script == ScriptArgs(tool, argv)
<1> SUFFICES ASSUME SameSense(tool, argv) PROVE Agree(native, script)
  BY DEF ScriptReadsAsNative, Agree, SameSense, Wider
<1>1. CASE AsksJson(argv)
  <2>1. native = JsonInput(argv, Json) /\ script = JsonInput(argv, PyJson)
    BY <1>1 DEF ParseArgv, ScriptArgs
  <2>2. CASE Len(argv) = 1 \/ Len(argv) > 2
    <3>1. JsonInput(argv, Json) = JsonInput(argv, PyJson)
      <4>1. CASE Len(argv) = 1
        BY <4>1 DEF JsonInput
      <4>2. CASE Len(argv) > 2
        BY <4>2 DEF JsonInput
      <4> QED
        BY <2>2, <4>1, <4>2
    <3> QED
      BY <2>1, <3>1, SameAgree
  <2>3. CASE ~(Len(argv) = 1) /\ ~(Len(argv) > 2)
    <3>1. Len(argv) = 2 /\ 2 \in DOMAIN argv
      <4>1. argv # <<>>
        BY <1>1 DEF AsksJson
      <4>2. Len(argv) \in Nat /\ Len(argv) # 0
        BY <4>1
      <4> DEFINE l == Len(argv)
      <4>3. l = 2
        <5>1. l \in Nat /\ l # 0 /\ l # 1 /\ ~(l > 2)
          BY <2>3, <4>2
        <5> HIDE DEF l
        <5> QED
          BY <5>1
      <4>4. DOMAIN argv = 1 .. Len(argv)
        OBVIOUS
      <4> QED
        BY <4>3, <4>4
    <3> DEFINE w == argv[2].word
    <3>2. /\ JsonInput(argv, Json) = IF IsFlag(argv[2]) \/ w \notin DOMAIN Json
                                     THEN Failure("no JSON") ELSE [input |-> Json[w]]
          /\ JsonInput(argv, PyJson) = IF IsFlag(argv[2]) \/ w \notin DOMAIN PyJson
                                       THEN Failure("no JSON") ELSE [input |-> PyJson[w]]
      BY <2>3 DEF JsonInput
    <3>3. ~IsFlag(argv[2]) => w # "nan"
      BY <3>1, SameSenseIs
    <3> HIDE DEF w
    <3>4. ~IsFlag(argv[2]) => (w \in DOMAIN PyJson <=> w \in DOMAIN Json)
      BY <3>3, TablesAgree
    <3>5. JsonInput(argv, Json) = JsonInput(argv, PyJson)
      <4> HIDE DEF native, script
      <4>1. CASE IsFlag(argv[2])
        BY <3>2, <4>1
      <4>2. CASE ~IsFlag(argv[2]) /\ w \notin DOMAIN Json
        BY <3>2, <3>4, <4>2
      <4>3. CASE ~IsFlag(argv[2]) /\ w \in DOMAIN Json
        <5>1. PyJson[w] = Json[w]
          BY <4>3, TablesAgree
        <5> QED
          BY <3>2, <3>4, <4>3, <5>1
      <4> QED
        BY <4>1, <4>2, <4>3
    <3> QED
      BY <2>1, <3>5, SameAgree
  <2> QED
    BY <2>2, <2>3
<1>2. CASE ~AsksJson(argv)
  <2> DEFINE from == NativeFrom(tool, argv)
  <2>1. script = ScriptFrom(tool, argv)
    BY <1>2 DEF ScriptArgs
  <2>2. native = IF ~Failed(from) /\ ~(tool.required \subseteq DOMAIN from.input)
                 THEN Failure("missing required") ELSE from
    BY <1>2 DEF ParseArgv
  <2>3. Agree(from, script)
    BY <2>1, LoopsAgree
  <2>4. Failed(Failure("missing required")) /\ Failure("missing required").error \in Wider
    BY DEF Failed, Failure, Wider
  <2> HIDE DEF from, native, script
  <2>5. CASE ~Failed(from) /\ ~(tool.required \subseteq DOMAIN from.input)
    BY <2>2, <2>4, <2>5 DEF Agree
  <2>6. CASE ~(~Failed(from) /\ ~(tool.required \subseteq DOMAIN from.input))
    <3>1. native = from
      BY <2>2, <2>6
    <3> QED
      BY <2>3, <3>1
  <2> QED
    BY <2>5, <2>6 DEF native, script
<1> QED
  BY <1>1, <1>2

\* For a tool and an argv of any length the parser of the generated script reads what
\* parse_argv reads, or refuses what it refuses, but for words that Python reads
\* otherwise, names that clash and the numbers and requirements that are wider.
THEOREM ParsedAlike == Spec => []ParsersAgree
<1>1. Typed => ParsersAgree
  <2> SUFFICES ASSUME Typed, kind = "argv" PROVE ScriptReadsAsNative(input[1], input[2])
    BY DEF ParsersAgree
  <2>1. IsInput(kind, input)
    BY DEF Typed
  <2>2. IsTool(input[1]) /\ input[2] \in Seq(Argument)
    BY <2>1 DEF IsInput
  <2> QED
    BY <2>2, ReadsAsNative
<1> QED
  BY <1>1, TypeCorrect, PTL

----------------------------------------------------------------------------
(* Parameters in their order *)

ThoseOn(s, T, f) ==
    f = [i \in 0 .. Len(s) |->
           IF i = 0 THEN <<>> ELSE IF s[i] \in T THEN Append(f[i - 1], s[i]) ELSE f[i - 1]]
ThoseOf(s, T) == CHOOSE f : ThoseOn(s, T, f)

\* There is the function that Those is written with.
LEMMA ThoseExists ==
    ASSUME NEW S, NEW s \in Seq(S), NEW T
    PROVE  \E f : ThoseOn(s, T, f)
<1> DEFINE N == Len(s)
           add(out, x) == IF x \in T THEN Append(out, x) ELSE out
           step == [p \in (1 .. N) \X Seq(S) |-> add(p[2], s[p[1]])]
<1>1. N \in Nat /\ \A i \in 1 .. N : s[i] \in S
  OBVIOUS
<1>2. \A out \in Seq(S), x \in S : add(out, x) \in Seq(S)
  OBVIOUS
<1> HIDE DEF N, add
<1>3. step \in Steps(N, Seq(S))
  BY <1>1, <1>2 DEF Steps
<1>4. <<>> \in Seq(S)
  OBVIOUS
<1>5. \A i \in 1 .. N, out \in Seq(S) : step[<<i, out>>] = add(out, s[i])
  <2> SUFFICES ASSUME NEW i \in 1 .. N, NEW out \in Seq(S) PROVE step[<<i, out>>] = add(out, s[i])
    OBVIOUS
  <2> DEFINE p == <<i, out>>
  <2>1. p \in (1 .. N) \X Seq(S) /\ p[1] = i /\ p[2] = out
    OBVIOUS
  <2> HIDE DEF p
  <2>2. step[p] = add(p[2], s[p[1]])
    BY <2>1
  <2> QED
    BY <2>1, <2>2 DEF p
<1> HIDE DEF step
<1>6. PICK f \in Loops(N, Seq(S)) : IsLoop(N, <<>>, step, f)
  BY <1>1, <1>3, <1>4, Recursion
<1>7. \A i \in 0 .. N : f[i] = IF i = 0 THEN <<>> ELSE add(f[i - 1], s[i])
  <2> SUFFICES ASSUME NEW i \in 0 .. N, i # 0 PROVE f[i] = add(f[i - 1], s[i])
    BY <1>6 DEF IsLoop
  <2>1. i \in 1 .. N /\ i - 1 \in 0 .. N
    BY <1>1
  <2>2. f[i - 1] \in Seq(S)
    BY <1>6, <2>1 DEF Loops
  <2> QED
    BY <1>5, <1>6, <2>1, <2>2 DEF IsLoop
<1>8. f = [i \in 0 .. N |-> IF i = 0 THEN <<>> ELSE add(f[i - 1], s[i])]
  BY <1>6, <1>7 DEF Loops
<1> QED
  BY <1>8 DEF ThoseOn, N, add

LEMMA ThoseUnfolds ==
    ASSUME NEW S, NEW s \in Seq(S), NEW T
    PROVE  /\ ThoseOf(s, T)[0] = <<>>
           /\ \A i \in 1 .. Len(s) :
                ThoseOf(s, T)[i] = IF s[i] \in T THEN Append(ThoseOf(s, T)[i - 1], s[i]) ELSE ThoseOf(s, T)[i - 1]
           /\ Those(s, T) = ThoseOf(s, T)[Len(s)]
<1> DEFINE f == ThoseOf(s, T)
<1>1. Len(s) \in Nat
  OBVIOUS
<1>2. ThoseOn(s, T, f)
  BY ThoseExists DEF ThoseOf
<1>3. Those(s, T) = f[Len(s)]
  BY DEF Those, ThoseOf, ThoseOn
<1> HIDE DEF f
<1>4. f[0] = <<>> /\ \A i \in 1 .. Len(s) : f[i] = IF s[i] \in T THEN Append(f[i - 1], s[i]) ELSE f[i - 1]
  <2>1. \A i \in 0 .. Len(s) :
          f[i] = IF i = 0 THEN <<>> ELSE IF s[i] \in T THEN Append(f[i - 1], s[i]) ELSE f[i - 1]
    BY <1>2 DEF ThoseOn
  <2>2. 0 \in 0 .. Len(s) /\ \A i \in 1 .. Len(s) : i \in 0 .. Len(s) /\ i # 0
    BY <1>1
  <2> QED
    BY <2>1, <2>2
<1> QED
  BY <1>3, <1>4 DEF f

\* All of them are in S and in T.
LEMMA ThoseAre ==
    ASSUME NEW S, NEW s \in Seq(S), NEW T
    PROVE  Those(s, T) \in Seq(S \cap T)
<1> DEFINE f == ThoseOf(s, T)
           N == Len(s)
           I == {i \in 0 .. N : f[i] \in Seq(S \cap T)}
<1>1. N \in Nat /\ \A i \in 1 .. N : s[i] \in S
  OBVIOUS
<1>2. /\ f[0] = <<>> /\ Those(s, T) = f[N]
      /\ \A i \in 1 .. N : f[i] = IF s[i] \in T THEN Append(f[i - 1], s[i]) ELSE f[i - 1]
  BY ThoseUnfolds
<1> HIDE DEF f, N
<1>3. 0 \in I
  <2>1. <<>> \in Seq(S \cap T) /\ 0 \in 0 .. N
    BY <1>1
  <2>2. f[0] = <<>>
    BY <1>2
  <2> QED
    BY <2>1, <2>2
<1>4. ASSUME NEW i \in 0 .. N, i \in I, i < N PROVE i + 1 \in I
  <2>1. i + 1 \in 1 .. N /\ i + 1 \in 0 .. N /\ (i + 1) - 1 = i
    BY <1>1, <1>4
  <2>2. f[i] \in Seq(S \cap T) /\ s[i + 1] \in S
    BY <1>1, <1>4, <2>1
  <2>3. f[i + 1] = IF s[i + 1] \in T THEN Append(f[i], s[i + 1]) ELSE f[i]
    BY <1>2, <2>1
  <2>4. f[i + 1] \in Seq(S \cap T)
    BY <2>2, <2>3
  <2> QED
    BY <2>1, <2>4
<1>5. \A i \in 0 .. N : i \in I
  <2> HIDE DEF I
  <2> QED
    BY <1>1, <1>3, <1>4, Induction
<1> QED
  BY <1>1, <1>2, <1>5

LEMMA AppendsLast ==
    ASSUME NEW S, NEW a \in Seq(S), NEW b \in Seq(S), NEW x \in S
    PROVE  a \o Append(b, x) = Append(a \o b, x)
<1> DEFINE o == <<x>>
           ab == a \o b
<1>1. o \in Seq(S) /\ ab \in Seq(S)
  OBVIOUS
<1>2. \A c \in Seq(S) : Append(c, x) = c \o o
  <2> SUFFICES ASSUME NEW c \in Seq(S) PROVE Append(c, x) = c \o o
    OBVIOUS
  <2> DEFINE y == Append(c, x)
             z == c \o o
  <2>1. Len(o) = 1 /\ o[1] = x
    OBVIOUS
  <2>2. y \in Seq(S) /\ Len(y) = Len(c) + 1 /\ y[Len(c) + 1] = x /\ \A i \in 1 .. Len(c) : y[i] = c[i]
    OBVIOUS
  <2>3. Len(c) \in Nat
    BY LengthIsNat
  <2> HIDE DEF o, y
  <2>4. IsJoined(S, c, o, z)
    BY <1>1, Joined
  <2> HIDE DEF z
  <2>5. z \in Seq(S) /\ Len(z) = Len(c) + 1 /\ z[Len(c) + 1] = x /\ \A i \in 1 .. Len(c) : z[i] = c[i]
    <3>1. 1 \in 1 .. 1
      OBVIOUS
    <3> QED
      BY <2>1, <2>4, <3>1 DEF IsJoined
  <2>6. \A i \in 1 .. Len(y) : i \in 1 .. Len(c) \/ i = Len(c) + 1
    BY <2>2, <2>3
  <2>7. \A i \in 1 .. Len(y) : y[i] = z[i]
    BY <2>2, <2>5, <2>6
  <2>8. y = z
    BY <2>2, <2>5, <2>7, SameSeq
  <2> QED
    BY <2>8 DEF y, z
<1> HIDE DEF o, ab
<1>3. (a \o b) \o o = a \o (b \o o)
  BY <1>1, Associative
<1> QED
  BY <1>1, <1>2, <1>3 DEF ab

\* Those of T and then the others are s itself, when none of T follows another.
LEMMA ThoseInOrder ==
    ASSUME NEW S, NEW s \in Seq(S), NEW T,
           \A i, j \in 1 .. Len(s) : ~(i < j /\ s[i] \notin T /\ s[j] \in T)
    PROVE  Those(s, T) \o Those(s, S \ T) = s
<1> DEFINE f == ThoseOf(s, T)
           g == ThoseOf(s, S \ T)
           N == Len(s)
           before(i) == SubSeq(s, 1, i)
           other(i) == \E j \in 1 .. i : s[j] \notin T
           part(i) == /\ f[i] \in Seq(S) /\ g[i] \in Seq(S)
                      /\ other(i) => f[i] \o g[i] = before(i)
                      /\ ~other(i) => f[i] = before(i) /\ g[i] = <<>>
           I == {i \in 0 .. N : part(i)}
<1>1. N \in Nat /\ \A i \in 1 .. N : s[i] \in S
  OBVIOUS
<1>2. /\ f[0] = <<>> /\ Those(s, T) = f[N]
      /\ \A i \in 1 .. N : f[i] = IF s[i] \in T THEN Append(f[i - 1], s[i]) ELSE f[i - 1]
  BY ThoseUnfolds
<1>3. /\ g[0] = <<>> /\ Those(s, S \ T) = g[N]
      /\ \A i \in 1 .. N : g[i] = IF s[i] \in S \ T THEN Append(g[i - 1], s[i]) ELSE g[i - 1]
  BY ThoseUnfolds
<1>4. before(0) = <<>> /\ before(N) = s
      /\ \A i \in 0 .. N : i < N => before(i + 1) = Append(before(i), s[i + 1]) /\ before(i) \in Seq(S)
  OBVIOUS
<1>5. \A i, j \in 1 .. N : ~(i < j /\ s[i] \notin T /\ s[j] \in T)
  OBVIOUS
<1> HIDE DEF f, g, N, before
<1>6. 0 \in I
  <2>1. ~other(0) /\ 0 \in 0 .. N /\ <<>> \in Seq(S)
    BY <1>1
  <2>2. f[0] = <<>> /\ g[0] = <<>> /\ before(0) = <<>>
    BY <1>2, <1>3, <1>4
  <2> HIDE DEF other
  <2> QED
    BY <2>1, <2>2
<1>7. ASSUME NEW i \in 0 .. N, i \in I, i < N PROVE i + 1 \in I
  <2> DEFINE x == s[i + 1]
  <2>1. i + 1 \in 1 .. N /\ i + 1 \in 0 .. N /\ (i + 1) - 1 = i /\ x \in S
    BY <1>1, <1>7
  <2>2. part(i)
    BY <1>7
  <2>3. f[i + 1] = IF x \in T THEN Append(f[i], x) ELSE f[i]
    BY <1>2, <2>1
  <2>4. g[i + 1] = IF x \in S \ T THEN Append(g[i], x) ELSE g[i]
    BY <1>3, <2>1
  <2>5. before(i + 1) = Append(before(i), x) /\ before(i) \in Seq(S)
    BY <1>4, <1>7
  <2>6. other(i + 1) <=> (other(i) \/ x \notin T)
    <3>1. \A j \in 1 .. (i + 1) : j \in 1 .. i \/ j = i + 1
      BY <2>1
    <3>2. \A j \in 1 .. i : j \in 1 .. (i + 1)
      BY <2>1
    <3>3. i + 1 \in 1 .. (i + 1)
      BY <2>1
    <3> QED
      BY <3>1, <3>2, <3>3
  <2>7. other(i) => x \notin T
    <3> SUFFICES ASSUME NEW j \in 1 .. i, s[j] \notin T PROVE x \notin T
      OBVIOUS
    <3>1. j \in 1 .. N /\ j < i + 1
      BY <1>1, <2>1
    <3> QED
      BY <1>5, <2>1, <3>1
  <2> HIDE DEF other, x
  <2>8. CASE other(i)
    <3>1. f[i + 1] = f[i] /\ g[i + 1] = Append(g[i], x)
      BY <2>1, <2>3, <2>4, <2>7, <2>8
    <3>2. f[i] \o Append(g[i], x) = Append(f[i] \o g[i], x)
      <4>1. f[i] \in Seq(S) /\ g[i] \in Seq(S) /\ x \in S
        BY <2>1, <2>2
      <4>2. \A a, b \in Seq(S), y \in S : a \o Append(b, y) = Append(a \o b, y)
        BY AppendsLast
      <4> QED
        BY ONLY <4>1, <4>2
    <3>3. g[i + 1] \in Seq(S)
      BY <2>1, <2>2, <3>1
    <3>4. f[i + 1] \o g[i + 1] = before(i + 1)
      BY <2>2, <2>5, <2>8, <3>1, <3>2
    <3> QED
      BY <2>1, <2>2, <2>6, <2>8, <3>1, <3>3, <3>4
  <2>9. CASE ~other(i) /\ x \in T
    <3>1. f[i + 1] = Append(f[i], x) /\ g[i + 1] = g[i]
      BY <2>3, <2>4, <2>9
    <3>2. f[i + 1] \in Seq(S)
      BY <2>1, <2>2, <3>1
    <3>3. f[i + 1] = before(i + 1) /\ g[i + 1] = <<>> /\ g[i + 1] \in Seq(S)
      BY <2>2, <2>5, <2>9, <3>1
    <3> QED
      BY <2>1, <2>6, <2>9, <3>2, <3>3
  <2>10. CASE ~other(i) /\ x \notin T
    <3>1. f[i + 1] = f[i] /\ g[i + 1] = Append(g[i], x)
      BY <2>1, <2>3, <2>4, <2>10
    <3>2. f[i] = before(i) /\ g[i] = <<>> /\ f[i] \in Seq(S)
      BY <2>2, <2>10
    <3>3. before(i) \o Append(<<>>, x) = Append(before(i), x) /\ Append(<<>>, x) \in Seq(S)
      BY <2>1, <2>5
    <3>4. f[i + 1] \o g[i + 1] = before(i + 1)
      BY <2>5, <3>1, <3>2, <3>3
    <3>5. f[i + 1] \in Seq(S) /\ g[i + 1] \in Seq(S)
      BY <3>1, <3>2, <3>3
    <3> QED
      BY <2>1, <2>6, <2>10, <3>4, <3>5
  <2> QED
    BY <2>8, <2>9, <2>10
<1>8. N \in I
  <2> HIDE DEF I
  <2>1. \A i \in 0 .. N : i \in I
    BY <1>1, <1>6, <1>7, Induction
  <2> QED
    BY <1>1, <2>1
<1>9. f[N] \o g[N] = s
  <2>1. part(N) /\ before(N) = s
    BY <1>4, <1>8
  <2> HIDE DEF other
  <2>2. f[N] = s /\ g[N] = <<>> => f[N] \o g[N] = s
    OBVIOUS
  <2> QED
    BY <2>1, <2>2
<1> QED
  BY <1>2, <1>3, <1>9

\* A sequence is one of its own elements.
LEMMA OfItsElements ==
    ASSUME NEW S, NEW s \in Seq(S)
    PROVE  s \in Seq(ToSet(s)) /\ DOMAIN s = 1 .. Len(s)
<1>1. Len(s) \in Nat /\ DOMAIN s = 1 .. Len(s) /\ s = [i \in 1 .. Len(s) |-> s[i]]
  OBVIOUS
<1>2. \A i \in 1 .. Len(s) : s[i] \in ToSet(s)
  BY <1>1 DEF ToSet
<1> DEFINE E == ToSet(s)
           N == Len(s)
<1> HIDE DEF E, N
<1>3. s \in [1 .. N -> E]
  BY <1>1, <1>2 DEF E, N
<1>4. s \in Seq(E)
  BY ONLY <1>1, <1>3 DEF N
<1> QED
  BY <1>1, <1>4 DEF E

\* Where no optional parameter comes before a required one they keep their order.
LEMMA OrderKept ==
    ASSUME NEW t, IsFunction(t), ~Inverted(t)
    PROVE  OrderedParams(t) = t.params
<1> DEFINE P == t.params
           S == ToSet(P)
<1>1. P \in Seq(Seq(NameChar))
  BY DEF IsFunction
<1>2. P \in Seq(S) /\ DOMAIN P = 1 .. Len(P)
  BY <1>1, OfItsElements
<1>3. \A i, j \in 1 .. Len(P) : ~(i < j /\ P[i] \notin t.required /\ P[j] \in t.required)
  BY <1>2 DEF Inverted, Required
<1>4. OrderedParams(t) = Those(P, t.required) \o Those(P, S \ t.required)
  BY Zenon DEF OrderedParams
<1> HIDE DEF P, S
<1>5. Those(P, t.required) \o Those(P, S \ t.required) = P
  BY ONLY <1>2, <1>3, ThoseInOrder
<1> QED
  BY <1>4, <1>5 DEF P

\* The required ones come first.
LEMMA RequiredFirst ==
    ASSUME NEW t, IsFunction(t)
    PROVE  /\ OrderedParams(t) \in Seq(ToSet(t.params))
           /\ \A i, j \in 1 .. Len(OrderedParams(t)) :
                i < j /\ OrderedParams(t)[j] \in t.required => OrderedParams(t)[i] \in t.required
<1> DEFINE P == t.params
           S == ToSet(P)
           a == Those(P, t.required)
           b == Those(P, S \ t.required)
           c == a \o b
<1>1. P \in Seq(Seq(NameChar))
  BY DEF IsFunction
<1>2. P \in Seq(S)
  BY <1>1, OfItsElements
<1>3. OrderedParams(t) = c
  BY Zenon DEF OrderedParams
<1> HIDE DEF P, S
<1>4. a \in Seq(S \cap t.required) /\ b \in Seq(S \cap (S \ t.required))
  BY ONLY <1>2, ThoseAre
<1> HIDE DEF a, b
<1>5. a \in Seq(S) /\ \A i \in 1 .. Len(a) : a[i] \in t.required
  BY <1>4
<1>6. b \in Seq(S) /\ \A i \in 1 .. Len(b) : b[i] \notin t.required
  BY <1>4
<1> HIDE DEF c
<1>7. IsJoined(S, a, b, c)
  BY <1>5, <1>6, Joined DEF c
<1>8. ASSUME NEW i \in 1 .. Len(c), NEW j \in 1 .. Len(c), i < j, c[j] \in t.required PROVE c[i] \in t.required
  <2>1. Len(a) \in Nat /\ Len(b) \in Nat /\ Len(c) = Len(a) + Len(b)
    BY <1>7 DEF IsJoined
  <2>2. CASE j <= Len(a)
    <3>1. i \in 1 .. Len(a)
      BY <1>8, <2>1, <2>2
    <3>2. c[i] = a[i]
      BY <1>7, <3>1 DEF IsJoined
    <3> QED
      BY <1>5, <3>1, <3>2
  <2>3. CASE ~(j <= Len(a))
    <3>1. j - Len(a) \in 1 .. Len(b) /\ Len(a) + (j - Len(a)) = j
      BY <1>8, <2>1, <2>3
    <3>2. c[j] = b[j - Len(a)]
      BY <1>7, <3>1 DEF IsJoined
    <3> QED
      BY <1>6, <1>8, <3>1, <3>2
  <2> QED
    BY <2>2, <2>3
<1>9. c \in Seq(S)
  BY <1>7 DEF IsJoined
<1> QED
  BY <1>3, <1>8, <1>9 DEF P, S

----------------------------------------------------------------------------
(* A name and its words *)

LEMMA CanonicalAppends ==
    ASSUME NEW S, NEW n \in Seq(S), NEW c \in S
    PROVE  Canonical(Append(n, c)) = Adds(Canonical(n), c)
<1> DEFINE m == Append(n, c)
           N == Len(n)
           f == CanonOf(n)
           g == CanonOf(m)
           same == {i \in 0 .. N : f[i] = g[i]}
<1>1. m \in Seq(S) /\ N \in Nat /\ Len(m) = N + 1 /\ m[N + 1] = c /\ \A i \in 1 .. N : m[i] = n[i]
  OBVIOUS
<1> HIDE DEF m, N
<1>2. f[0] = <<>> /\ Canonical(n) = f[N] /\ \A i \in 1 .. N : f[i] = Adds(f[i - 1], n[i])
  BY CanonUnfolds DEF N
<1>3. g[0] = <<>> /\ Canonical(m) = g[N + 1] /\ \A i \in 1 .. (N + 1) : g[i] = Adds(g[i - 1], m[i])
  BY <1>1, CanonUnfolds
<1> HIDE DEF f, g
<1>4. 0 \in same
  BY <1>1, <1>2, <1>3
<1>5. ASSUME NEW i \in 0 .. N, i \in same, i < N PROVE i + 1 \in same
  <2>1. i + 1 \in 1 .. N /\ i + 1 \in 1 .. (N + 1) /\ i + 1 \in 0 .. N /\ (i + 1) - 1 = i
    BY <1>1, <1>5
  <2>2. f[i + 1] = Adds(f[i], n[i + 1])
    BY <1>2, <2>1
  <2>3. g[i + 1] = Adds(g[i], n[i + 1])
    BY <1>1, <1>3, <2>1
  <2>4. f[i] = g[i]
    BY <1>5
  <2> QED
    BY <2>1, <2>2, <2>3, <2>4
<1> HIDE DEF same
<1>6. \A i \in 0 .. N : i \in same
  BY <1>1, <1>4, <1>5, Induction
<1>7. f[N] = g[N]
  BY <1>1, <1>6 DEF same
<1>8. g[N + 1] = Adds(g[N], c)
  <2>1. N + 1 \in 1 .. (N + 1) /\ (N + 1) - 1 = N
    BY <1>1
  <2> QED
    BY <1>1, <1>3, <2>1
<1> QED
  BY <1>2, <1>3, <1>7, <1>8 DEF m

\* One character more: the words gain what the letters gain.
Worded(acc) == acc.out \in Seq(NameChar) /\ acc.sep \in BOOLEAN

LEMMA NameChars ==
    /\ "_" \in NameChar /\ " " \notin NameChar
    /\ \A c \in NameChar : Lower(c) \in NameChar /\ Lower(Lower(c)) = Lower(c)
    /\ \A c \in NameChar : IsUpper(c) => c \notin {"-", "_"} /\ Lower(c) \notin {"-", "_"}
<1>1. DOMAIN Letters = {"A", "B"} /\ Letters["A"] = "a" /\ Letters["B"] = "b"
  BY DEF Letters
<1>2. NameChar = {"A", "B"} \cup {"a", "b", "n", "o", "h", "e", "l", "p", "m", "c"} \cup {"1"} \cup {"_", "-"}
  BY <1>1 DEF NameChar, Small, Digits
<1>3. " " \notin NameChar
  BY <1>2, Zenon
<1>4. \A c \in NameChar : IsUpper(c) => (c = "A" /\ Lower(c) = "a") \/ (c = "B" /\ Lower(c) = "b")
  BY <1>1, Zenon DEF IsUpper, Lower
<1>5. \A c \in NameChar : ~IsUpper(c) => Lower(c) = c
  BY DEF Lower
<1>6. "a" \in NameChar /\ "b" \in NameChar /\ "_" \in NameChar /\ Lower("a") = "a" /\ Lower("b") = "b"
  BY <1>1, <1>2 DEF Lower, IsUpper
<1>7. \A c \in NameChar : Lower(c) \in NameChar /\ Lower(Lower(c)) = Lower(c)
  BY <1>4, <1>5, <1>6
<1>8. \A c \in NameChar : IsUpper(c) => c \notin {"-", "_"} /\ Lower(c) \notin {"-", "_"}
  BY <1>4
<1> QED
  BY <1>3, <1>6, <1>7, <1>8

LEMMA SnakedAdds ==
    ASSUME NEW n \in Seq(NameChar), NEW acc, Worded(acc), NEW i \in 1 .. Len(n)
    PROVE  /\ Worded(Snaked(n, acc, i))
           /\ Canonical(Snaked(n, acc, i).out) = Adds(Canonical(acc.out), n[i])
<1> DEFINE c == n[i]
           out == acc.out
           s == Snaked(n, acc, i)
           under == Append(out, "_")
<1>1. c \in NameChar /\ out \in Seq(NameChar)
  BY DEF Worded
<1>2. under \in Seq(NameChar) /\ Canonical(under) = Canonical(out)
  <2>1. under \in Seq(NameChar) /\ Canonical(under) = Adds(Canonical(out), "_")
    <3>1. \A x \in Seq(NameChar), d \in NameChar :
            Append(x, d) \in Seq(NameChar) /\ Canonical(Append(x, d)) = Adds(Canonical(x), d)
      BY CanonicalAppends
    <3> QED
      BY ONLY <1>1, <3>1, NameChars
  <2> QED
    BY <2>1 DEF Adds
<1>3. \A x \in Seq(NameChar), d \in NameChar :
        Append(x, d) \in Seq(NameChar) /\ Canonical(Append(x, d)) = Adds(Canonical(x), d)
  BY CanonicalAppends
<1> HIDE DEF out, under
<1>4. CASE c = "-"
  <2>0. c \in {"-", " "} /\ ~IsUpper(c)
    BY <1>1, <1>4, NameChars, Zenon
  <2>1. s = [out |-> IF out # <<>> /\ ~acc.sep THEN under ELSE out, sep |-> TRUE]
    BY <2>0, Zenon DEF Snaked, out, under
  <2>2. s.out \in {out, under} /\ s.sep = TRUE
    BY <2>1
  <2>3. Adds(Canonical(out), c) = Canonical(out)
    BY <1>4 DEF Adds
  <2> QED
    BY <1>1, <1>2, <2>2, <2>3 DEF Worded, out
<1>5. CASE IsUpper(c)
  <2> DEFINE w == IF i > 1 /\ ~acc.sep THEN under ELSE out
  <2>1. c # "-" /\ c # " "
    BY <1>1, <1>5, NameChars
  <2>2. s = [out |-> Append(w, Lower(c)), sep |-> FALSE]
    BY <1>5, <2>1, Zenon DEF Snaked, out, under
  <2>3. w \in Seq(NameChar) /\ Canonical(w) = Canonical(out)
    BY <1>1, <1>2
  <2> HIDE DEF w
  <2>4. Lower(c) \in NameChar
    BY <1>1, NameChars
  <2>5. s.out = Append(w, Lower(c)) /\ s.sep = FALSE
    BY <2>2
  <2>6. s.out \in Seq(NameChar) /\ Canonical(s.out) = Adds(Canonical(out), Lower(c))
    BY <1>3, <2>3, <2>4, <2>5
  <2>7. Adds(Canonical(out), Lower(c)) = Adds(Canonical(out), c)
    BY <1>1, <1>5, NameChars DEF Adds
  <2> QED
    BY <2>5, <2>6, <2>7 DEF Worded, out
<1>6. CASE c # "-" /\ ~IsUpper(c)
  <2>1. c # " "
    BY <1>1, NameChars
  <2>2. s = [out |-> Append(out, c), sep |-> c = "_"]
    BY <1>6, <2>1, Zenon DEF Snaked, out
  <2>3. s.out = Append(out, c) /\ s.sep \in BOOLEAN
    <3> DEFINE u == c = "_"
               o == Append(out, c)
    <3>0. s = [out |-> o, sep |-> u]
      BY <2>2
    <3> HIDE DEF u, o
    <3>1. s.out = o /\ s.sep = u
      BY <3>0
    <3>2. u \in BOOLEAN
      BY Zenon DEF u
    <3> QED
      BY <3>1, <3>2, Zenon DEF o
  <2>4. s.out \in Seq(NameChar) /\ Canonical(s.out) = Adds(Canonical(out), c)
    BY <1>1, <1>3, <2>3
  <2> QED
    BY <2>3, <2>4 DEF Worded, out
<1> QED
  BY <1>4, <1>5, <1>6

WordsOn(n, k, f) == f = [i \in 0 .. k |-> IF i = 0 THEN [out |-> <<>>, sep |-> FALSE] ELSE Snaked(n, f[i - 1], i)]
WordsOf(n) == CHOOSE f : WordsOn(n, Len(n), f)

\* There is the function that SnakeCase is written with.
LEMMA WordsExist ==
    ASSUME NEW n, NEW k \in Nat
    PROVE  \E f : WordsOn(n, k, f)
<1> DEFINE bad == {m \in Nat : ~\E f : WordsOn(n, m, f)}
           start == [out |-> <<>>, sep |-> FALSE]
<1> SUFFICES ASSUME bad # {} PROVE FALSE
  OBVIOUS
<1>1. PICK m \in bad : \A l \in bad : m <= l
  <2>1. bad \in SUBSET Nat
    OBVIOUS
  <2> HIDE DEF bad
  <2> QED
    BY <2>1, LeastExists
<1>2. m \in Nat /\ ~\E f : WordsOn(n, m, f)
  OBVIOUS
<1>3. m # 0
  <2> DEFINE g == [i \in 0 .. 0 |-> start]
  <2>1. \A i \in 0 .. 0 : i = 0
    OBVIOUS
  <2>2. WordsOn(n, 0, g)
    BY <2>1 DEF WordsOn
  <2> QED
    BY <1>2, <2>2
<1>4. PICK f : WordsOn(n, m - 1, f)
  <2>1. m - 1 \in Nat /\ ~(m <= m - 1)
    BY <1>2, <1>3
  <2>2. m - 1 \notin bad
    BY <1>1, <2>1
  <2> QED
    BY <2>1, <2>2
<1> HIDE DEF start
<1> DEFINE g == [i \in 0 .. m |-> IF i = m THEN Snaked(n, f[m - 1], m) ELSE f[i]]
<1>5. \A i \in 0 .. (m - 1) : f[i] = IF i = 0 THEN start ELSE Snaked(n, f[i - 1], i)
  BY <1>2, <1>4 DEF WordsOn, start
<1>6. \A i \in 0 .. (m - 1) : i \in 0 .. m /\ i # m /\ g[i] = f[i]
  BY <1>2
<1>7. g[m] = Snaked(n, f[m - 1], m) /\ m - 1 \in 0 .. (m - 1)
  BY <1>2, <1>3
<1>8. g = [i \in 0 .. m |-> g[i]]
  OBVIOUS
<1> HIDE DEF g
<1>9. \A i \in 0 .. m : g[i] = IF i = 0 THEN start ELSE Snaked(n, g[i - 1], i)
  <2> SUFFICES ASSUME NEW i \in 0 .. m
               PROVE  g[i] = IF i = 0 THEN start ELSE Snaked(n, g[i - 1], i)
    OBVIOUS
  <2>1. CASE i = m
    BY <1>3, <1>6, <1>7, <2>1
  <2>2. CASE i # m
    <3>1. i \in 0 .. (m - 1) /\ (i # 0 => i - 1 \in 0 .. (m - 1))
      BY <1>2, <2>2
    <3> QED
      BY <1>5, <1>6, <3>1
  <2> QED
    BY <2>1, <2>2
<1>10. WordsOn(n, m, g)
  BY <1>8, <1>9 DEF WordsOn, start
<1> QED
  BY <1>2, <1>10

LEMMA WordsUnfold ==
    ASSUME NEW S, NEW n \in Seq(S)
    PROVE  /\ WordsOf(n)[0] = [out |-> <<>>, sep |-> FALSE]
           /\ \A i \in 1 .. Len(n) : WordsOf(n)[i] = Snaked(n, WordsOf(n)[i - 1], i)
           /\ SnakeCase(n) = WordsOf(n)[Len(n)].out
<1> DEFINE f == WordsOf(n)
           start == [out |-> <<>>, sep |-> FALSE]
<1>1. Len(n) \in Nat
  OBVIOUS
<1>2. WordsOn(n, Len(n), f)
  BY <1>1, WordsExist DEF WordsOf
<1>3. SnakeCase(n) = f[Len(n)].out
  BY DEF SnakeCase, WordsOf, WordsOn
<1> HIDE DEF f
<1>4. f = [i \in 0 .. Len(n) |-> IF i = 0 THEN start ELSE Snaked(n, f[i - 1], i)]
  BY <1>2 DEF WordsOn
<1> HIDE DEF start
<1>5. f[0] = start /\ \A i \in 1 .. Len(n) : f[i] = Snaked(n, f[i - 1], i)
  BY <1>1, <1>4
<1> QED
  BY <1>3, <1>5 DEF f, start

\* The name of a parameter in Python has the letters of the parameter.
LEMMA SnakeCaseLetters ==
    ASSUME NEW n \in Seq(NameChar)
    PROVE  Canonical(SnakeCase(n)) = Canonical(n)
<1> DEFINE N == Len(n)
           f == WordsOf(n)
           g == CanonOf(n)
           in(i) == Worded(f[i]) /\ Canonical(f[i].out) = g[i]
           I == {i \in 0 .. N : in(i)}
<1>1. N \in Nat
  OBVIOUS
<1>2. /\ f[0] = [out |-> <<>>, sep |-> FALSE] /\ SnakeCase(n) = f[N].out
      /\ \A i \in 1 .. N : f[i] = Snaked(n, f[i - 1], i)
  BY WordsUnfold
<1>3. g[0] = <<>> /\ Canonical(n) = g[N] /\ \A i \in 1 .. N : g[i] = Adds(g[i - 1], n[i])
  BY CanonUnfolds
<1>4. Canonical(<<>>) = <<>>
  <2> DEFINE e == <<>>
  <2>1. e \in Seq(NameChar) /\ Len(e) = 0
    OBVIOUS
  <2> HIDE DEF e
  <2>2. Canonical(e) = <<>>
    BY <2>1, CanonUnfolds
  <2> QED
    BY <2>2 DEF e
<1> HIDE DEF f, g
<1>5. 0 \in I
  <2>1. f[0].out = <<>> /\ f[0].sep = FALSE
    BY <1>2
  <2>2. <<>> \in Seq(NameChar)
    OBVIOUS
  <2>3. in(0)
    BY <1>3, <1>4, <2>1, <2>2 DEF Worded
  <2> QED
    BY <1>1, <2>3
<1>6. ASSUME NEW i \in 0 .. N, i \in I, i < N PROVE i + 1 \in I
  <2>1. i + 1 \in 1 .. N /\ i + 1 \in 0 .. N /\ (i + 1) - 1 = i
    BY <1>1, <1>6
  <2>2. in(i)
    BY <1>6
  <2>3. f[i + 1] = Snaked(n, f[i], i + 1)
    BY <1>2, <2>1
  <2>4. g[i + 1] = Adds(g[i], n[i + 1])
    BY <1>3, <2>1
  <2>5. /\ Worded(Snaked(n, f[i], i + 1))
        /\ Canonical(Snaked(n, f[i], i + 1).out) = Adds(Canonical(f[i].out), n[i + 1])
    BY <2>1, <2>2, SnakedAdds
  <2>6. in(i + 1)
    BY <2>2, <2>3, <2>4, <2>5
  <2> QED
    BY <2>1, <2>6
<1> HIDE DEF I
<1>7. \A i \in 0 .. N : i \in I
  BY <1>1, <1>5, <1>6, Induction
<1>8. in(N)
  BY <1>1, <1>7 DEF I
<1> QED
  BY <1>2, <1>3, <1>8

----------------------------------------------------------------------------
(* Functions as they are told *)

LEMMA FunctionsHold ==
    ASSUME NEW k, k \in {"python", "typescript"}, NEW t, IsFunction(t)
    PROVE  AdvertisedIsCallable(k, t)
<1> DEFINE d == Defined(k, t)
           o == OrderedParams(t)
           param(p) == ParamOf(k, t, p)
<1>1. Inverted(t) \/ Advertised(k, t) = d
  BY OrderKept DEF Defined, Advertised
<1>2. o \in Seq(ToSet(t.params))
      /\ \A i, j \in 1 .. Len(o) : i < j /\ o[j] \in t.required => o[i] \in t.required
  BY RequiredFirst
<1>3. d.params = [i \in DOMAIN o |-> param(o[i])]
  BY DEF Defined, MapSeq
<1> HIDE DEF o
<1>4. DOMAIN o = 1 .. Len(o)
  BY <1>2, OfItsElements
<1>5. DOMAIN d.params = 1 .. Len(o)
  BY <1>3, <1>4
<1>6. \A i \in 1 .. Len(o) : d.params[i].optional = (o[i] \notin t.required)
  BY <1>3, <1>4 DEF ParamOf, Required
<1> HIDE DEF d
<1>7. \A i, j \in DOMAIN d.params : i < j /\ d.params[i].optional => d.params[j].optional
  BY <1>2, <1>5, <1>6
<1>8. ASSUME NEW x \in SentInput(k, t), NEW y \in SentInput(k, t), x[2] = y[2]
      PROVE  Canonical(x[1]) = Canonical(y[1])
  <2>1. PICK p \in ToSet(t.params) : x = <<p, param(p).name>>
    BY DEF SentInput
  <2>2. PICK q \in ToSet(t.params) : y = <<q, param(q).name>>
    BY DEF SentInput
  <2>3. param(p).name = param(q).name /\ x[1] = p /\ y[1] = q
    BY <1>8, <2>1, <2>2
  <2>4. p \in Seq(NameChar) /\ q \in Seq(NameChar)
    BY DEF IsFunction, ToSet
  <2>5. CASE k = "python"
    <3>1. SnakeCase(p) = SnakeCase(q)
      BY <2>3, <2>5 DEF ParamOf
    <3> QED
      BY <2>3, <2>4, <3>1, SnakeCaseLetters
  <2>6. CASE k = "typescript"
    BY <2>3, <2>6 DEF ParamOf
  <2> QED
    BY <2>5, <2>6
<1> QED
  BY <1>1, <1>7, <1>8 DEF AdvertisedIsCallable, d

----------------------------------------------------------------------------
(* The plan of a host *)

\* What the plan has, by what it is made of.
LEMMA PlanIs ==
    ASSUME NEW c
    PROVE  /\ Plan(c).files = ToSet(Rendered(c)) /\ Plan(c).paths = ToSet(ArtifactPaths(c))
           /\ Plan(c).help = HelpOf(c) /\ Plan(c).environment = Environment(c)
           /\ c.kind = "just-bash" => Plan(c).bash[1] = JustBash(c)
BY DEF Plan

\* Each path is that of a file, in the one directory.
LEMMA PathsAre ==
    ASSUME NEW c
    PROVE  ToSet(ArtifactPaths(c)) = {[dir |-> Dir(c), file |-> f] : f \in ToSet(Rendered(c))}
<1> DEFINE R == Rendered(c)
           D == Dir(c)
           at(f) == [dir |-> D, file |-> f]
<1>1. ArtifactPaths(c) = [i \in DOMAIN R |-> at(R[i])]
  BY DEF ArtifactPaths, MapSeq
<1> HIDE DEF R, at
<1>2. ToSet([i \in DOMAIN R |-> at(R[i])]) = {at(f) : f \in ToSet(R)}
  BY DEF ToSet
<1> QED
  BY <1>1, <1>2 DEF R, at

\* The files by the kind of the plan.
LEMMA FilesAre ==
    ASSUME NEW c
    PROVE  /\ c.kind = "cli" => ToSet(Rendered(c)) = {File(c.server, "none")}
           /\ c.kind = "python" => ToSet(Rendered(c)) = {File(c.server, ".py")}
           /\ c.kind = "typescript" => ToSet(Rendered(c)) = {File(c.server, ".ts"), File(c.server, ".d.ts")}
           /\ c.kind = "just-bash" => ToSet(Rendered(c)) = {}
<1>1. \A a : ToSet(<<a>>) = {a}
  BY DEF ToSet
<1>2. \A a, b : ToSet(<<a, b>>) = {a, b}
  BY DEF ToSet
<1>3. ToSet(<<>>) = {}
  BY DEF ToSet
<1>4. CASE c.kind = "cli"
  <2>1. Rendered(c) = <<File(c.server, "none")>>
    BY <1>4 DEF Rendered
  <2> QED
    BY <1>1, <1>4, <2>1
<1>5. CASE c.kind = "python"
  <2>1. Rendered(c) = <<File(c.server, ".py")>>
    BY <1>5 DEF Rendered
  <2> QED
    BY <1>1, <1>5, <2>1
<1>6. CASE c.kind = "typescript"
  <2>1. Rendered(c) = <<File(c.server, ".ts"), File(c.server, ".d.ts")>>
    BY <1>6 DEF Rendered
  <2> QED
    BY <1>2, <1>6, <2>1
<1>7. CASE c.kind = "just-bash"
  <2>1. Rendered(c) = <<>>
    BY <1>7 DEF Rendered
  <2> QED
    BY <1>3, <1>7, <2>1
<1> QED
  BY <1>4, <1>5, <1>6, <1>7

\* The script's branch for a subcommand that one tool has is that tool's, or the help.
LEMMA BranchIs ==
    ASSUME NEW names, NEW N \in Nat, DOMAIN names = 1 .. N, Len(names) = N, NEW i \in 1 .. N,
           \A j \in 1 .. N : Subcommand(names[j]) = Subcommand(names[i]) => j = i
    PROVE  CaseBranch(names, Subcommand(names[i])) \in {names[i], <<"help">>}
<1> DEFINE w == Subcommand(names[i])
           mine(t) == Subcommand(t) = w
           at == SelectInSeq(names, mine)
           I == {j \in 1 .. Len(names) : mine(names[j])}
<1>1. I # {} /\ I \in SUBSET Nat /\ \A j \in I : j = i
  OBVIOUS
<1>2. PICK m \in I : \A k \in I : m <= k
  <2> HIDE DEF I
  <2> QED
    BY <1>1, LeastExists
<1>3. Min(I) \in I
  BY <1>2 DEF Min
<1>4. at = Min(I)
  BY <1>1 DEF SelectInSeq
<1>5. at = i
  BY <1>1, <1>3, <1>4
<1>6. FirstOf(names, LAMBDA t : Subcommand(t) = w) = names[i]
  BY <1>5 DEF FirstOf
<1>7. SomeOf(names, LAMBDA t : Subcommand(t) = w)
  BY DEF SomeOf
<1> QED
  BY <1>6, <1>7 DEF CaseBranch

LEMMA PlansHold ==
    ASSUME NEW c, IsPlan(c)
    PROVE  PlanKeepsItsWord(c)
<1> DEFINE p == Plan(c)
           N == Len(c.tools)
           names == [i \in DOMAIN c.tools |-> c.tools[i].name]
           inDir(f) == [dir |-> Dir(c), file |-> f]
<1>1. /\ p.files = ToSet(Rendered(c)) /\ p.paths = {inDir(f) : f \in ToSet(Rendered(c))}
      /\ p.help = HelpOf(c) /\ p.environment = Environment(c)
      /\ c.kind = "just-bash" => p.bash[1] = JustBash(c)
  BY PlanIs, PathsAre
<1>2. DOMAIN c.tools = 1 .. N /\ \A i \in 1 .. N : IsFunction(c.tools[i])
  BY DEF IsPlan
<1> HIDE DEF p
<1>3. {x.file : x \in p.paths} = p.files
  <2> DEFINE F == ToSet(Rendered(c))
             D == Dir(c)
  <2>1. p.files = F /\ p.paths = {[dir |-> D, file |-> f] : f \in F}
    BY <1>1
  <2> HIDE DEF F, D
  <2>2. \A f : [dir |-> D, file |-> f].file = f
    OBVIOUS
  <2>3. \A x \in p.paths : x.file \in F
    BY <2>1, <2>2
  <2>4. \A f \in F : \E x \in p.paths : x.file = f
    BY <2>1, <2>2
  <2> QED
    BY <2>1, <2>3, <2>4
<1>4. ASSUME c.kind = "cli", c.command \in {<<>>, <<c.server>>}
      PROVE  /\ [dir |-> p.environment.PATH, file |-> File(p.help.command, "none")] \in p.paths
             /\ ~SameSubcommand(c) => \A i \in DOMAIN names :
                  CaseBranch(names, p.help.entries[i]) \in {names[i], <<"help">>}
  <2>1. OrElse(c.command, c.server) = c.server
    BY <1>4 DEF OrElse
  <2>2. HelpOf(c) = ShellHelp(c.server, c) /\ Environment(c) = [PATH |-> Dir(c)]
    BY <1>4, <2>1 DEF HelpOf, Environment
  <2>3. p.help.command = c.server /\ p.environment.PATH = Dir(c)
    BY <1>1, <2>2 DEF ShellHelp
  <2>4. \A i \in DOMAIN names : p.help.entries[i] = Subcommand(names[i])
    BY <1>1, <2>2 DEF ShellHelp, MapSeq
  <2>5. inDir(File(c.server, "none")) \in p.paths
    BY <1>1, <1>4, FilesAre
  <2>6. ASSUME ~SameSubcommand(c), NEW i \in DOMAIN names
        PROVE  CaseBranch(names, Subcommand(names[i])) \in {names[i], <<"help">>}
    <3>1. \A j \in 1 .. N : Subcommand(names[j]) = Subcommand(names[i]) => j = i
      BY <1>2, <2>6 DEF SameSubcommand
    <3>2. N \in Nat /\ DOMAIN names = 1 .. N /\ Len(names) = N /\ i \in 1 .. N
      BY <1>2
    <3> HIDE DEF names, N
    <3> QED
      BY <3>1, <3>2, BranchIs
  <2> QED
    BY <2>3, <2>4, <2>5, <2>6
<1>5. ASSUME c.kind = "python"
      PROVE  /\ p.help.source = [dir |-> p.environment.PYTHONPATH, file |-> File(c.server, ".py")]
             /\ {p.help.source, p.help.details} \subseteq p.paths
  <2>1. HelpOf(c) = CodeHelp(c) /\ Environment(c) = [PYTHONPATH |-> Dir(c)]
    BY <1>5 DEF HelpOf, Environment
  <2>2. CodeHelp(c).source = inDir(File(c.server, ".py")) /\ CodeHelp(c).details = inDir(File(c.server, ".py"))
    BY <1>5 DEF CodeHelp
  <2>3. inDir(File(c.server, ".py")) \in p.paths
    BY <1>1, <1>5, FilesAre
  <2>4. p.environment.PYTHONPATH = Dir(c)
    BY <1>1, <2>1
  <2> QED
    BY <1>1, <2>1, <2>2, <2>3, <2>4
<1>6. ASSUME c.kind = "typescript"
      PROVE  {p.help.source, p.help.details} \subseteq p.paths
  <2>1. HelpOf(c) = CodeHelp(c)
    BY <1>6 DEF HelpOf
  <2>2. CodeHelp(c).source = inDir(File(c.server, ".ts")) /\ CodeHelp(c).details = inDir(File(c.server, ".d.ts"))
    BY <1>6 DEF CodeHelp
  <2>3. inDir(File(c.server, ".ts")) \in p.paths /\ inDir(File(c.server, ".d.ts")) \in p.paths
    BY <1>1, <1>6, FilesAre
  <2> QED
    BY <1>1, <2>1, <2>2, <2>3
<1>7. ASSUME c.kind \in {"python", "typescript"}, NEW i \in DOMAIN c.tools
      PROVE  Inverted(c.tools[i]) \/ p.help.entries[i] = Defined(c.kind, c.tools[i])
  <2>1. HelpOf(c) = CodeHelp(c)
    BY <1>7 DEF HelpOf
  <2>2. p.help.entries[i] = Advertised(c.kind, c.tools[i])
    BY <1>1, <1>7, <2>1 DEF CodeHelp, MapSeq
  <2>3. AdvertisedIsCallable(c.kind, c.tools[i])
    BY <1>2, <1>7, FunctionsHold
  <2> QED
    BY <2>2, <2>3 DEF AdvertisedIsCallable
<1>8. ASSUME c.kind = "just-bash"
      PROVE  /\ p.bash[1].command = p.help.command /\ p.files = {}
             /\ MapSeq(LAMBDA x : x.name, p.bash[1].commands) = p.help.entries
             /\ MapSeq(LAMBDA x : x.tool, p.bash[1].commands) = names
  <2>1. HelpOf(c) = ShellHelp(c.server, c)
    BY <1>8 DEF HelpOf
  <2>2. p.help.command = c.server /\ p.help.entries = [i \in DOMAIN c.tools |-> Subcommand(names[i])]
    BY <1>1, <2>1 DEF ShellHelp, MapSeq
  <2>3. p.bash[1].command = c.server
    <3>1. JustBash(c).command = c.server
      BY DEF JustBash
    <3> QED
      BY <1>1, <1>8, <3>1
  <2>4. p.files = {}
    BY <1>1, <1>8, FilesAre
  <2> DEFINE cs == [i \in DOMAIN c.tools |-> [name |-> Subcommand(c.tools[i].name), tool |-> c.tools[i].name]]
  <2>5. p.bash[1].commands = cs
    BY <1>1, <1>8 DEF JustBash, MapSeq
  <2>6. MapSeq(LAMBDA x : x.name, cs) = [i \in DOMAIN c.tools |-> Subcommand(names[i])]
    BY DEF MapSeq
  <2>7. MapSeq(LAMBDA x : x.tool, cs) = names
    BY DEF MapSeq
  <2> HIDE DEF cs, names
  <2> QED
    BY <2>2, <2>3, <2>4, <2>5, <2>6, <2>7
<1>9. names = MapSeq(LAMBDA t : t.name, c.tools)
  BY DEF MapSeq
<1> HIDE DEF names
<1> QED
  BY <1>3, <1>4, <1>5, <1>6, <1>7, <1>8, <1>9 DEF PlanKeepsItsWord, p

\* The functions that a host is told of can be called as they are told, in Python and
\* in TypeScript (cli/mapping.rs, code clients).
THEOREM FunctionsTrue == Spec => []FunctionsAreAsTold
<1>1. Typed => FunctionsAreAsTold
  <2>1. ASSUME Typed, kind = "function", NEW k \in {"python", "typescript"} PROVE AdvertisedIsCallable(k, input)
    <3>1. IsFunction(input)
      BY <2>1 DEF Typed, IsInput
    <3> QED
      BY <3>1, FunctionsHold
  <2> QED
    BY <2>1 DEF FunctionsAreAsTold
<1> QED
  BY <1>1, TypeCorrect, PTL

\* The files, directories, commands and subcommands that the description of a toolset
\* speaks of are those of its plan.
THEOREM PlanTrue == Spec => []PlanIsAsTold
<1>1. Typed => PlanIsAsTold
  <2>1. ASSUME Typed, kind = "plan" PROVE PlanKeepsItsWord(input)
    <3>1. IsPlan(input)
      BY <2>1 DEF Typed, IsInput
    <3> QED
      BY <3>1, PlansHold
  <2> QED
    BY <2>1 DEF PlanIsAsTold
<1> QED
  BY <1>1, TypeCorrect, PTL

----------------------------------------------------------------------------
(* What the help names can be reached *)

\* A hyphen for an underscore, and a small letter for its capital, change no letters.
LEMMA CharIs ==
    ASSUME NEW c \in Char
    PROVE  /\ Lower(c) \in Char /\ "-" \in Char /\ \A x : Adds(x, "-") = x
           /\ \A x : Adds(x, IF c = "_" THEN "-" ELSE Lower(c)) = Adds(x, c)
<1>1. DOMAIN Letters = {"A", "B"} /\ Letters["A"] = "a" /\ Letters["B"] = "b"
  BY DEF Letters
<1>2. "-" \in Char /\ "a" \in Char /\ "b" \in Char
  BY DEF Char, NameChar, Small
<1>3. \/ c = "A" /\ Lower(c) = "a"
      \/ c = "B" /\ Lower(c) = "b"
      \/ c \notin {"A", "B"} /\ Lower(c) = c
  BY <1>1 DEF Lower, IsUpper
<1>4. Lower("a") = "a" /\ Lower("b") = "b"
  BY <1>1 DEF Lower, IsUpper
<1>5. Lower(c) \in Char /\ Lower(Lower(c)) = Lower(c)
  BY <1>2, <1>3, <1>4
<1>6. \A x : Adds(x, "-") = x
  BY DEF Adds
<1>7. ASSUME NEW x PROVE Adds(x, IF c = "_" THEN "-" ELSE Lower(c)) = Adds(x, c)
  <2>1. CASE c \in {"-", "_"}
    <3>1. Lower(c) = c
      BY <1>3, <2>1
    <3> QED
      BY <2>1, <3>1 DEF Adds
  <2>2. CASE c \notin {"-", "_"}
    <3>1. Lower(c) \notin {"-", "_"}
      BY <1>3, <2>2
    <3> QED
      BY <1>5, <2>2, <3>1 DEF Adds
  <2> QED
    BY <2>1, <2>2
<1> QED
  BY <1>2, <1>5, <1>6, <1>7

\* The loop of Subcommand.
IsDashed(n, f) == f = [i \in 0 .. Len(n) |-> IF i = 0 THEN <<>> ELSE Dashed(n, f[i - 1], i)]
DashedOf(n)    == CHOOSE f : IsDashed(n, f)

LEMMA DashedUnfolds ==
    ASSUME NEW n \in Texts
    PROVE  /\ DashedOf(n)[0] = <<>> /\ Subcommand(n) = DashedOf(n)[Len(n)]
           /\ \A i \in 0 .. Len(n) : DashedOf(n)[i] \in Texts
           /\ \A i \in 1 .. Len(n) : DashedOf(n)[i] = Dashed(n, DashedOf(n)[i - 1], i)
<1> DEFINE N == Len(n)
           add(p) == Dashed(n, p[2], p[1])
           step == [p \in (1 .. N) \X Texts |-> add(p)]
           f == DashedOf(n)
<1>1. N \in Nat /\ (\A i \in 1 .. N : n[i] \in Char) /\ <<>> \in Texts
  BY DEF Texts
<1>2. Subcommand(n) = f[N]
  BY DEF Subcommand, DashedOf, IsDashed
<1>3. \A i \in 1 .. N, w \in Texts : Dashed(n, w, i) \in Texts
  <2> SUFFICES ASSUME NEW i \in 1 .. N, NEW w \in Texts PROVE Dashed(n, w, i) \in Texts
    OBVIOUS
  <2> DEFINE v == IF Hump(n, i) THEN Append(w, "-") ELSE w
             c == IF n[i] = "_" THEN "-" ELSE Lower(n[i])
  <2>0. n[i] \in Char
    BY <1>1
  <2>1. v \in Texts /\ c \in Char
    <3>1. Lower(n[i]) \in Char /\ "-" \in Char
      BY <2>0, CharIs
    <3>2. Append(w, "-") \in Texts
      BY <3>1 DEF Texts
    <3> QED
      BY <3>1, <3>2
  <2>2. Dashed(n, w, i) = Append(v, c)
    BY DEF Dashed
  <2> HIDE DEF v, c
  <2> QED
    BY <2>1, <2>2 DEF Texts
<1>4. \E g : IsDashed(n, g) /\ \A i \in 0 .. N : g[i] \in Texts
  <2>1. \A p \in (1 .. N) \X Texts : add(p) \in Texts /\ step[p] = add(p)
    BY <1>3
  <2>2. step \in Steps(N, Texts)
    <3> HIDE DEF add
    <3> QED
      BY <2>1 DEF Steps
  <2> HIDE DEF N, step
  <2>3. PICK g \in Loops(N, Texts) : IsLoop(N, <<>>, step, g)
    BY <1>1, <2>2, Recursion
  <2>4. ASSUME NEW i \in 0 .. N
        PROVE  g[i] = IF i = 0 THEN <<>> ELSE Dashed(n, g[i - 1], i)
    <3>1. CASE i = 0
      BY <2>3, <3>1 DEF IsLoop
    <3>2. CASE i # 0
      <4>1. i \in 1 .. N /\ g[i - 1] \in Texts
        BY <1>1, <2>3, <2>4, <3>2 DEF Loops
      <4>2. g[i] = step[<<i, g[i - 1]>>]
        BY <2>3, <4>1 DEF IsLoop
      <4>3. step[<<i, g[i - 1]>>] = add(<<i, g[i - 1]>>)
        BY <2>1, <4>1
      <4>4. add(<<i, g[i - 1]>>) = Dashed(n, g[i - 1], i)
        OBVIOUS
      <4> QED
        BY <3>2, <4>2, <4>3, <4>4
    <3> QED
      BY <3>1, <3>2
  <2>5. g = [i \in 0 .. N |-> g[i]] /\ \A i \in 0 .. N : g[i] \in Texts
    BY <2>3 DEF Loops
  <2>6. IsDashed(n, g)
    BY <2>4, <2>5 DEF IsDashed, N
  <2> QED
    BY <2>5, <2>6
<1>5. IsDashed(n, f)
  BY <1>4 DEF DashedOf
<1>6. \A g : IsDashed(n, g) => g[0] = <<>> /\ \A i \in 1 .. N : g[i] = Dashed(n, g[i - 1], i)
  <2> SUFFICES ASSUME NEW g, IsDashed(n, g) PROVE g[0] = <<>> /\ \A i \in 1 .. N : g[i] = Dashed(n, g[i - 1], i)
    OBVIOUS
  <2>1. \A i \in 0 .. N : g[i] = IF i = 0 THEN <<>> ELSE Dashed(n, g[i - 1], i)
    BY DEF IsDashed
  <2>2. 0 \in 0 .. N /\ \A i \in 1 .. N : i \in 0 .. N /\ i # 0
    BY <1>1
  <2> QED
    BY <2>1, <2>2
<1> HIDE DEF f, N
<1>7. f[0] = <<>> /\ \A i \in 1 .. N : f[i] = Dashed(n, f[i - 1], i)
  BY <1>5, <1>6
<1>8. \A i \in 0 .. N : f[i] \in Texts
  <2> DEFINE I == {i \in 0 .. N : f[i] \in Texts}
  <2>1. 0 \in I
    BY <1>1, <1>7
  <2>2. ASSUME NEW i \in 0 .. N, i \in I, i < N PROVE i + 1 \in I
    <3>1. i + 1 \in 1 .. N /\ i + 1 \in 0 .. N /\ (i + 1) - 1 = i /\ f[i] \in Texts
      BY <1>1, <2>2
    <3> QED
      BY <1>3, <1>7, <3>1
  <2> HIDE DEF I
  <2>3. \A i \in 0 .. N : i \in I
    BY <1>1, <2>1, <2>2, Induction
  <2> QED
    BY <2>3 DEF I
<1> QED
  BY <1>2, <1>7, <1>8 DEF f, N

\* A subcommand has the letters of its tool, and so has a flag of its property.
LEMMA SubcommandLetters ==
    ASSUME NEW n \in Texts
    PROVE  Subcommand(n) \in Texts /\ Canonical(Subcommand(n)) = Canonical(n)
<1> DEFINE N == Len(n)
           f == DashedOf(n)
           g == CanonOf(n)
           I == {i \in 0 .. N : Canonical(f[i]) = g[i]}
<1>1. N \in Nat /\ \A i \in 1 .. N : n[i] \in Char
  BY DEF Texts
<1>2. /\ f[0] = <<>> /\ Subcommand(n) = f[N] /\ (\A i \in 0 .. N : f[i] \in Texts)
      /\ \A i \in 1 .. N : f[i] = Dashed(n, f[i - 1], i)
  BY DashedUnfolds
<1>3. g[0] = <<>> /\ Canonical(n) = g[N] /\ \A i \in 1 .. N : g[i] = Adds(g[i - 1], n[i])
  BY CanonUnfolds DEF Texts
<1>4. Canonical(<<>>) = <<>>
  <2> DEFINE e == <<>>
  <2>1. e \in Seq(NameChar) /\ Len(e) = 0
    OBVIOUS
  <2> HIDE DEF e
  <2>2. Canonical(e) = <<>>
    BY <2>1, CanonUnfolds
  <2> QED
    BY <2>2 DEF e
<1> HIDE DEF f, g
<1>5. 0 \in I
  BY <1>1, <1>2, <1>3, <1>4
<1>6. ASSUME NEW i \in 0 .. N, i \in I, i < N PROVE i + 1 \in I
  <2>1. i + 1 \in 1 .. N /\ i + 1 \in 0 .. N /\ (i + 1) - 1 = i
    BY <1>1, <1>6
  <2> DEFINE w == f[i]
             c == n[i + 1]
             v == IF Hump(n, i + 1) THEN Append(w, "-") ELSE w
             d == IF c = "_" THEN "-" ELSE Lower(c)
  <2>2. c \in Char /\ w \in Texts /\ f[i + 1] = Append(v, d) /\ g[i + 1] = Adds(g[i], c) /\ Canonical(w) = g[i]
    <3>1. f[i + 1] = Dashed(n, f[i], i + 1)
      BY <1>2, <2>1
    <3> QED
      BY <1>1, <1>2, <1>3, <1>6, <2>1, <3>1 DEF Dashed
  <2>3. d \in Char /\ "-" \in Char /\ (\A x : Adds(x, "-") = x) /\ \A x : Adds(x, d) = Adds(x, c)
    BY <2>2, CharIs
  <2> HIDE DEF w, c, d
  <2>4. \A x \in Texts, a \in Char : Append(x, a) \in Texts /\ Canonical(Append(x, a)) = Adds(Canonical(x), a)
    BY CanonicalAppends DEF Texts
  <2>5. v \in Texts /\ Canonical(v) = Canonical(w)
    BY <2>2, <2>3, <2>4
  <2> HIDE DEF v
  <2>6. Canonical(f[i + 1]) = g[i + 1]
    BY <2>2, <2>3, <2>4, <2>5
  <2> QED
    BY <2>1, <2>6
<1> HIDE DEF I
<1>7. N \in I
  <2>1. \A i \in 0 .. N : i \in I
    BY <1>1, <1>5, <1>6, Induction
  <2> QED
    BY <1>1, <2>1
<1>8. Canonical(f[N]) = g[N] /\ f[N] \in Texts
  BY <1>1, <1>2, <1>7 DEF I
<1> QED
  BY <1>2, <1>3, <1>8

\* Of a property without a clash, the flag finds it in both parsers, not negated.
FindsItself(P, p) ==
    /\ ResolvePropertyName(P, ParseFlagName(OptionFlag(p)).name) = <<p>>
    /\ FlagToProperty(P, OptionFlag(p)) = <<p>>
    /\ ~NativeNegates(OptionFlag(p)) /\ ~ScriptNegates(OptionFlag(p))

LEMMA FlagFinds ==
    ASSUME NEW P \in Seq(Texts), NEW p \in ToSet(P), ~Clash(P, p), ~Starts(TrimHyphens(OptionFlag(p)), No)
    PROVE  FindsItself(P, p)
<1> DEFINE f == OptionFlag(p)
           t == TrimHyphens(f)
           n == SnakeOf(t)
<1>1. p \in Texts
  BY DEF ToSet
<1>2. f \in Texts /\ Canonical(f) = Canonical(p)
  BY <1>1, SubcommandLetters DEF OptionFlag
<1> HIDE DEF f
<1>3. t \in Texts /\ Canonical(t) = Canonical(f)
  BY <1>2, TrimLetters DEF Texts
<1>4. ~Starts(f, No)
  <2> SUFFICES ASSUME Starts(f, No) PROVE FALSE
    OBVIOUS
  <2>1. t = f
    BY <1>2, NegatedIs
  <2> QED
    BY <2>1 DEF f
<1> HIDE DEF t
<1>5. ParseFlagName(f) = [name |-> n, no |-> FALSE]
  BY DEF ParseFlagName, t, f
<1>6. Canonical(n) = Canonical(p)
  BY <1>2, <1>3, SnakeLetters DEF Texts
<1>7. RawName(f) = f /\ Canonical(SnakeOf(f)) = Canonical(f)
  BY <1>2, <1>4, SnakeLetters DEF RawName, Texts
<1>8. Owns(P, n, ResolvePropertyName(P, n)) /\ Owns(P, f, FlagToProperty(P, f))
  <2>1. Owns(P, n, ResolvePropertyName(P, n))
    BY ResolveOwns
  <2>2. Owns(P, RawName(f), FlagToProperty(P, f))
    BY <1>7, ScriptOwns
  <2> QED
    BY <1>7, <2>1, <2>2
<1>9. \A m, found : Canonical(m) = Canonical(p) /\ Owns(P, m, found) => found = <<p>>
  <2> SUFFICES ASSUME NEW m, NEW found, Canonical(m) = Canonical(p), Owns(P, m, found) PROVE found = <<p>>
    OBVIOUS
  <2>1. found = <<found[1]>> /\ found[1] \in ToSet(P) /\ Canonical(found[1]) = Canonical(p)
    BY DEF Owns
  <2>2. found[1] = p
    BY <2>1 DEF Clash
  <2> QED
    BY <2>1, <2>2
<1> HIDE DEF n
<1>10. ResolvePropertyName(P, n) = <<p>> /\ FlagToProperty(P, f) = <<p>>
  BY <1>2, <1>6, <1>8, <1>9
<1>11. ParseFlagName(f).name = n /\ ParseFlagName(f).no = FALSE
  BY <1>5
<1> QED
  BY <1>4, <1>10, <1>11 DEF FindsItself, NativeNegates, ScriptNegates, f

\* A subcommand that no other tool has leads to its tool, or to the help.
LEMMA SubcommandFinds ==
    ASSUME NEW P \in Seq(Texts), NEW p \in ToSet(P), ~Twin(P, p)
    PROVE  CaseBranch(P, Subcommand(p)) \in {p, <<"help">>}
<1> DEFINE w == Subcommand(p)
           mine(t) == Subcommand(t) = w
           at == SelectInSeq(P, mine)
           I == {j \in 1 .. Len(P) : mine(P[j])}
<1>1. PICK i \in 1 .. Len(P) : P[i] = p
  BY DEF ToSet
<1>2. i \in I /\ I \in SUBSET Nat
  BY <1>1
<1>3. Min(I) \in I
  <2> HIDE DEF I
  <2> QED
    BY <1>2, MinOf
<1>4. at = Min(I)
  BY <1>2 DEF SelectInSeq
<1>5. P[at] \in ToSet(P) /\ Subcommand(P[at]) = w
  <2>1. at \in I /\ DOMAIN P = 1 .. Len(P)
    BY <1>3, <1>4
  <2> HIDE DEF at
  <2>2. at \in DOMAIN P /\ Subcommand(P[at]) = w
    BY <2>1
  <2> QED
    BY <2>2 DEF ToSet
<1>6. FirstOf(P, LAMBDA t : Subcommand(t) = w) = P[at] /\ P[at] = p
  BY <1>5 DEF FirstOf, Twin
<1>7. SomeOf(P, LAMBDA t : Subcommand(t) = w)
  BY <1>1 DEF SomeOf
<1> QED
  BY <1>6, <1>7 DEF CaseBranch

\* The small letters and digits, and the words of them that stand between single
\* separators.
Lows  == Small \cup Digits
Kebab == Lows \cup {"_", "-"}
Clean(s) ==
    /\ s \in Seq(Kebab) /\ Len(s) >= 1 /\ s[1] \in Lows /\ s[Len(s)] \in Lows
    /\ \A i \in 1 .. (Len(s) - 1) : s[i] \in Lows \/ s[i + 1] \in Lows

LEMMA LowChars ==
    /\ Lows \subseteq Kebab /\ Kebab \subseteq NameChar /\ "-" \in Kebab /\ "_" \in Kebab
    /\ \A c \in Kebab \ Lows : ~IsAlnum(c) /\ c \in {"_", "-"}
    /\ \A c \in Lows : IsAlnum(c) /\ Lower(c) = c
    /\ \A c \in NameChar \ Lows : IsAlnum(c) \/ c \in {"_", "-"}
    /\ \A c \in NameChar : IsAlnum(c) => Lower(c) \in Lows
    /\ ~IsAlnum("_") /\ ~IsAlnum("-")
<1>1. DOMAIN Letters = {"A", "B"} /\ Letters["A"] = "a" /\ Letters["B"] = "b"
  BY DEF Letters
<1>2. /\ Lows = {"a", "b", "n", "o", "h", "e", "l", "p", "m", "c"} \cup {"1"}
      /\ NameChar = {"A", "B"} \cup Lows \cup {"_", "-"}
  BY <1>1 DEF NameChar, Lows, Small, Digits
<1>3. \A c : IsAlnum(c) <=> c \in {"A", "B"} \cup Lows
  BY <1>1 DEF IsAlnum, IsUpper, Lows
<1>4. "a" \in Lows /\ "b" \in Lows /\ "A" \notin Lows /\ "B" \notin Lows /\ "_" \notin Lows /\ "-" \notin Lows
  BY <1>2
<1>5. \A c \in Lows : Lower(c) = c
  BY <1>1, <1>4 DEF Lower, IsUpper
<1>6. \A c \in {"A", "B"} : Lower(c) \in Lows
  BY <1>1, <1>4 DEF Lower, IsUpper
<1>7. ~IsAlnum("_") /\ ~IsAlnum("-")
  BY <1>3, <1>4
<1> QED
  BY <1>2, <1>3, <1>4, <1>5, <1>6, <1>7 DEF Kebab

\* What is kept so far: words between single separators, and a separator to come.
Seps == {<<>>, <<"_">>, <<"-">>}
Kempt(acc) == acc = [out |-> acc.out, sep |-> acc.sep] /\ (acc.out = <<>> \/ Clean(acc.out)) /\ acc.sep \in Seps

\* A word between single separators is one still when a separator and a letter follow.
LEMMA WordFollows ==
    ASSUME NEW s, Clean(s), NEW d \in Kebab, NEW c \in Kebab, c \in Lows
    PROVE  Clean(Append(s \o <<d>>, c))
<1> DEFINE e == <<d>>
           z == s \o e
           t == Append(z, c)
           N == Len(s)
<1>1. s \in Seq(Kebab) /\ N \in Nat /\ N >= 1 /\ c \in Kebab
  <2>1. s \in Seq(Kebab) /\ N >= 1
    BY DEF Clean
  <2>2. N \in Nat
    BY ONLY <2>1
  <2> QED
    BY <2>1, <2>2
<1>3. e \in Seq(Kebab) /\ Len(e) = 1 /\ e[1] = d /\ 1 \in 1 .. 1
  OBVIOUS
<1> HIDE DEF e
<1>4. IsJoined(Kebab, s, e, z)
  <2> HIDE DEF z
  <2> QED
    BY <1>1, <1>3, Joined DEF z
<1> HIDE DEF z
<1>5. z \in Seq(Kebab) /\ Len(z) = N + 1 /\ z[N + 1] = d /\ \A i \in 1 .. N : z[i] = s[i]
  BY <1>3, <1>4 DEF IsJoined
<1>6. t \in Seq(Kebab) /\ Len(t) = N + 2 /\ t[N + 2] = c /\ \A i \in 1 .. (N + 1) : t[i] = z[i]
  <2>1. Len(z) + 1 = N + 2
    BY <1>1, <1>5
  <2> QED
    BY <1>1, <1>5, <2>1
<1> HIDE DEF t
<1>7. \A i \in 1 .. N : t[i] = s[i]
  BY <1>1, <1>5, <1>6
<1>8. \A i \in 1 .. ((N + 2) - 1) : t[i] \in Lows \/ t[i + 1] \in Lows
  <2> SUFFICES ASSUME NEW i \in 1 .. ((N + 2) - 1) PROVE t[i] \in Lows \/ t[i + 1] \in Lows
    OBVIOUS
  <2>1. CASE i = N + 1
    <3>1. (N + 1) + 1 = N + 2
      BY <1>1
    <3> QED
      BY <1>6, <2>1, <3>1
  <2>2. CASE i = N
    <3>1. t[N] = s[N] /\ s[N] \in Lows
      BY <1>1, <1>7 DEF Clean
    <3> QED
      BY <2>2, <3>1
  <2>3. CASE i # N /\ i # N + 1
    <3>1. i \in 1 .. (Len(s) - 1) /\ i \in 1 .. N /\ i + 1 \in 1 .. N
      BY <1>1, <2>3
    <3> QED
      BY <1>7, <3>1 DEF Clean
  <2> QED
    BY <2>1, <2>2, <2>3
<1>9. 1 \in 1 .. N /\ N + 2 >= 1
  BY <1>1
<1> QED
  BY <1>6, <1>7, <1>8, <1>9 DEF Clean, t, z, e

\* A word between single separators is one still when a separator and one character,
\* or one character alone, follow it.
LEMMA CleanGrows ==
    ASSUME NEW s, Clean(s), NEW sep \in Seps, NEW c \in Lows
    PROVE  Clean(Append(s \o sep, c))
<1> DEFINE z == s \o sep
           t == Append(z, c)
           N == Len(s)
<1>0. c \in Kebab /\ "_" \in Kebab /\ "-" \in Kebab
  BY DEF Kebab
<1>1. s \in Seq(Kebab) /\ N \in Nat /\ N >= 1 /\ c \in Kebab
  <2>1. s \in Seq(Kebab) /\ N >= 1
    BY DEF Clean
  <2>2. N \in Nat
    BY ONLY <2>1
  <2> QED
    BY <1>0, <2>1, <2>2
<1>2. CASE sep = <<>>
  <2>1. z = s
    BY <1>1, <1>2
  <2>2. t \in Seq(Kebab) /\ Len(t) = N + 1 /\ t[N + 1] = c /\ \A i \in 1 .. N : t[i] = s[i]
    BY <1>1, <2>1
  <2> HIDE DEF t
  <2>3. \A i \in 1 .. ((N + 1) - 1) : t[i] \in Lows \/ t[i + 1] \in Lows
    <3> SUFFICES ASSUME NEW i \in 1 .. ((N + 1) - 1) PROVE t[i] \in Lows \/ t[i + 1] \in Lows
      OBVIOUS
    <3>1. CASE i = N
      BY <2>2, <3>1
    <3>2. CASE i # N
      <4>1. i \in 1 .. (Len(s) - 1) /\ i \in 1 .. N /\ i + 1 \in 1 .. N
        BY <1>1, <3>2
      <4> QED
        BY <2>2, <4>1 DEF Clean
    <3> QED
      BY <3>1, <3>2
  <2>4. 1 \in 1 .. N
    BY <1>1
  <2> QED
    BY <1>1, <2>2, <2>3, <2>4 DEF Clean, t
<1>3. CASE sep # <<>>
  <2>1. sep = <<"_">> \/ sep = <<"-">>
    BY <1>3 DEF Seps
  <2>2. Clean(Append(s \o <<"_">>, c)) /\ Clean(Append(s \o <<"-">>, c))
    BY <1>0, <1>1, WordFollows
  <2> QED
    BY <2>1, <2>2
<1> QED
  BY <1>2, <1>3

LEMMA KemptOn ==
    ASSUME NEW acc, Kempt(acc), NEW c \in NameChar
    PROVE  Kempt(Cleaned(acc, c))
<1> DEFINE s == acc.out
           sep == acc.sep
           new == Cleaned(acc, c)
<1>1. CASE IsAlnum(c)
  <2> DEFINE o == Append(IF s = <<>> THEN <<>> ELSE s \o sep, Lower(c))
  <2>1. new = [out |-> o, sep |-> <<>>]
    BY <1>1 DEF Cleaned
  <2>2. Lower(c) \in Lows /\ Lower(c) \in Kebab
    BY <1>1, LowChars DEF Kebab
  <2>3. Clean(o)
    <3>1. CASE s = <<>>
      <4> DEFINE l == Lower(c)
      <4> HIDE DEF l
      <4>1. o = Append(<<>>, l) /\ l \in Lows /\ l \in Kebab
        BY <2>2, <3>1 DEF l
      <4> HIDE DEF o
      <4>3. o \in Seq(Kebab) /\ Len(o) = 1 /\ o[1] = l
        BY ONLY <4>1
      <4>4. 1 .. (1 - 1) = {}
        OBVIOUS
      <4> QED
        BY <4>1, <4>3, <4>4 DEF Clean
    <3>2. CASE s # <<>>
      <4>1. Clean(s) /\ sep \in Seps
        BY <3>2 DEF Kempt
      <4>2. o = Append(s \o sep, Lower(c))
        BY <3>2
      <4> HIDE DEF o, s, sep
      <4> QED
        BY <2>2, <4>1, <4>2, CleanGrows
    <3> QED
      BY <3>1, <3>2
  <2> HIDE DEF o, new
  <2>4. new.out = o /\ new.sep = <<>>
    BY <2>1
  <2> QED
    BY <2>1, <2>3, <2>4 DEF Kempt, Seps, new
<1>2. CASE ~IsAlnum(c)
  <2> DEFINE n == IF sep = <<>> /\ c \in {"_", "-"} THEN <<c>> ELSE <<"-">>
  <2>1. new = [acc EXCEPT !.sep = n]
    BY <1>2 DEF Cleaned
  <2>2. n \in Seps
    <3>1. CASE sep = <<>> /\ c \in {"_", "-"}
      BY <3>1 DEF Seps
    <3>2. CASE ~(sep = <<>> /\ c \in {"_", "-"})
      BY <3>2 DEF Seps
    <3> QED
      BY <3>1, <3>2
  <2> HIDE DEF n, new
  <2>3. new.out = s /\ new.sep = n /\ new = [out |-> s, sep |-> n]
    BY <2>1 DEF Kempt
  <2> QED
    BY <2>2, <2>3 DEF Kempt, new
<1> QED
  BY <1>1, <1>2

\* The loop of CleanedAll.
Fresh == [out |-> <<>>, sep |-> <<>>]
IsCleaned(n, f) == f = [i \in 0 .. Len(n) |-> IF i = 0 THEN [out |-> <<>>, sep |-> <<>>] ELSE Cleaned(f[i - 1], n[i])]
CleanedOf(n)    == CHOOSE f : IsCleaned(n, f)

LEMMA CleanedUnfolds ==
    ASSUME NEW n \in Seq(NameChar)
    PROVE  /\ CleanedOf(n)[0] = Fresh /\ CleanedAll(n) = CleanedOf(n)[Len(n)].out
           /\ \A i \in 0 .. Len(n) : Kempt(CleanedOf(n)[i])
           /\ \A i \in 1 .. Len(n) : CleanedOf(n)[i] = Cleaned(CleanedOf(n)[i - 1], n[i])
<1> DEFINE N == Len(n)
           A == {acc \in [out : Seq(Kebab), sep : Seps] : Kempt(acc)}
           add(p) == Cleaned(p[2], n[p[1]])
           step == [p \in (1 .. N) \X A |-> add(p)]
           f == CleanedOf(n)
<1>1. N \in Nat /\ \A i \in 1 .. N : n[i] \in NameChar
  OBVIOUS
<1>2. CleanedAll(n) = f[N].out
  BY DEF CleanedAll, CleanedOf, IsCleaned
<1>3. \A acc : Kempt(acc) => acc \in A
  <2> SUFFICES ASSUME NEW acc, Kempt(acc) PROVE acc \in A
    OBVIOUS
  <2> DEFINE o == acc.out
             e == acc.sep
  <2>1. o \in Seq(Kebab) /\ e \in Seps /\ acc = [out |-> o, sep |-> e]
    <3>1. acc = [out |-> o, sep |-> e] /\ (o = <<>> \/ Clean(o)) /\ e \in Seps
      BY DEF Kempt
    <3>2. o \in Seq(Kebab)
      <4> HIDE DEF o, e
      <4>1. CASE o = <<>>
        BY ONLY <4>1
      <4>2. CASE Clean(o)
        BY ONLY <4>2 DEF Clean
      <4> QED
        BY <3>1, <4>1, <4>2
    <3> QED
      BY <3>1, <3>2
  <2> HIDE DEF o, e
  <2>2. acc \in [out : Seq(Kebab), sep : Seps]
    BY <2>1
  <2> QED
    BY <2>2
<1>4. Fresh \in A
  <2>1. Fresh.out = <<>> /\ Fresh.sep = <<>> /\ Fresh = [out |-> Fresh.out, sep |-> Fresh.sep]
    BY DEF Fresh
  <2>2. Kempt(Fresh)
    BY <2>1 DEF Kempt, Seps
  <2> QED
    BY <1>3, <2>2
<1>5. \A i \in 1 .. N, acc \in A : Cleaned(acc, n[i]) \in A
  <2> HIDE DEF A
  <2> SUFFICES ASSUME NEW i \in 1 .. N, NEW acc \in A PROVE Cleaned(acc, n[i]) \in A
    OBVIOUS
  <2>1. Kempt(acc)
    BY DEF A
  <2> QED
    BY <1>1, <1>3, <2>1, KemptOn
<1>6. \A a \in A : Kempt(a)
  OBVIOUS
<1> HIDE DEF A
<1>7. \E g : IsCleaned(n, g) /\ \A i \in 0 .. N : g[i] \in A
  <2>1. \A p \in (1 .. N) \X A : add(p) \in A /\ step[p] = add(p)
    BY <1>5
  <2>2. step \in Steps(N, A)
    <3> HIDE DEF add
    <3> QED
      BY <2>1 DEF Steps
  <2> HIDE DEF N, step
  <2>3. PICK g \in Loops(N, A) : IsLoop(N, Fresh, step, g)
    BY <1>1, <1>4, <2>2, Recursion
  <2>4. ASSUME NEW i \in 0 .. N
        PROVE  g[i] = IF i = 0 THEN Fresh ELSE Cleaned(g[i - 1], n[i])
    <3>1. CASE i = 0
      BY <2>3, <3>1 DEF IsLoop
    <3>2. CASE i # 0
      <4>1. i \in 1 .. N /\ g[i - 1] \in A
        BY <1>1, <2>3, <2>4, <3>2 DEF Loops
      <4>2. g[i] = step[<<i, g[i - 1]>>]
        BY <2>3, <4>1 DEF IsLoop
      <4>3. step[<<i, g[i - 1]>>] = add(<<i, g[i - 1]>>)
        BY <2>1, <4>1
      <4>4. add(<<i, g[i - 1]>>) = Cleaned(g[i - 1], n[i])
        OBVIOUS
      <4> QED
        BY <3>2, <4>2, <4>3, <4>4
    <3> QED
      BY <3>1, <3>2
  <2>5. g = [i \in 0 .. N |-> g[i]] /\ \A i \in 0 .. N : g[i] \in A
    BY <2>3 DEF Loops
  <2>6. IsCleaned(n, g)
    BY <2>4, <2>5 DEF IsCleaned, N, Fresh
  <2> QED
    BY <2>5, <2>6
<1>8. IsCleaned(n, f)
  BY <1>7 DEF CleanedOf
<1>9. \A g : IsCleaned(n, g) => g[0] = Fresh /\ \A i \in 1 .. N : g[i] = Cleaned(g[i - 1], n[i])
  <2> SUFFICES ASSUME NEW g, IsCleaned(n, g) PROVE g[0] = Fresh /\ \A i \in 1 .. N : g[i] = Cleaned(g[i - 1], n[i])
    OBVIOUS
  <2>0. g = [i \in 0 .. N |-> IF i = 0 THEN Fresh ELSE Cleaned(g[i - 1], n[i])]
    BY DEF IsCleaned, Fresh
  <2>1. \A i \in 0 .. N : g[i] = IF i = 0 THEN Fresh ELSE Cleaned(g[i - 1], n[i])
    BY <2>0
  <2>2. 0 \in 0 .. N /\ \A i \in 1 .. N : i \in 0 .. N /\ i # 0
    BY <1>1
  <2> QED
    BY <2>1, <2>2
<1> HIDE DEF f, N
<1>10. f[0] = Fresh /\ \A i \in 1 .. N : f[i] = Cleaned(f[i - 1], n[i])
  BY <1>8, <1>9
<1>11. \A i \in 0 .. N : f[i] \in A
  <2> DEFINE I == {i \in 0 .. N : f[i] \in A}
  <2>1. 0 \in I
    BY <1>1, <1>4, <1>10
  <2>2. ASSUME NEW i \in 0 .. N, i \in I, i < N PROVE i + 1 \in I
    <3>1. i + 1 \in 1 .. N /\ i + 1 \in 0 .. N /\ (i + 1) - 1 = i /\ f[i] \in A
      BY <1>1, <2>2
    <3> QED
      BY <1>5, <1>10, <3>1
  <2> HIDE DEF I
  <2>3. \A i \in 0 .. N : i \in I
    BY <1>1, <2>1, <2>2, Induction
  <2> QED
    BY <2>3 DEF I
<1> QED
  BY <1>2, <1>6, <1>10, <1>11 DEF f, N

\* What was cleaned is clean: reading it again keeps all of it.
LEMMA CleanStays ==
    ASSUME NEW s, Clean(s)
    PROVE  CleanedAll(s) = s
<1> DEFINE N == Len(s)
           f == CleanedOf(s)
           upto(i) == SubSeq(s, 1, i)
           at(i) == IF i = 0 THEN Fresh
                    ELSE IF s[i] \in Lows THEN [out |-> upto(i), sep |-> <<>>]
                    ELSE [out |-> upto(i - 1), sep |-> <<s[i]>>]
           I == {i \in 0 .. N : f[i] = at(i)}
<1>1. s \in Seq(Kebab) /\ N \in Nat /\ N >= 1 /\ \A i \in 1 .. N : s[i] \in Kebab
  BY DEF Clean
<1>2. /\ f[0] = Fresh /\ CleanedAll(s) = f[N].out
      /\ \A i \in 1 .. N : f[i] = Cleaned(f[i - 1], s[i])
  <2>1. s \in Seq(NameChar)
    <3>1. Kebab \subseteq NameChar
      BY LowChars
    <3> QED
      BY <1>1, <3>1
  <2> QED
    BY <2>1, CleanedUnfolds
<1>3. \A i \in 1 .. N : upto(i) \in Seq(Kebab) /\ Len(upto(i)) = i /\ \A k \in 1 .. i : upto(i)[k] = s[k]
  BY <1>1
<1>4. \A i \in 1 .. (N - 1) : Append(upto(i), s[i + 1]) = upto(i + 1)
  <2> SUFFICES ASSUME NEW i \in 1 .. (N - 1) PROVE Append(upto(i), s[i + 1]) = upto(i + 1)
    OBVIOUS
  <2> DEFINE x == upto(i)
             y == upto(i + 1)
             c == s[i + 1]
             z == Append(x, c)
  <2>1. i \in 1 .. N /\ i + 1 \in 1 .. N /\ c \in Kebab
    BY <1>1
  <2>2. /\ x \in Seq(Kebab) /\ Len(x) = i /\ (\A k \in 1 .. i : x[k] = s[k])
        /\ y \in Seq(Kebab) /\ Len(y) = i + 1 /\ \A k \in 1 .. (i + 1) : y[k] = s[k]
    BY <1>3, <2>1
  <2> HIDE DEF x, y
  <2>3. z \in Seq(Kebab) /\ Len(z) = i + 1 /\ z[i + 1] = c /\ \A k \in 1 .. i : z[k] = x[k]
    BY <2>1, <2>2
  <2> HIDE DEF z
  <2>4. \A k \in 1 .. Len(z) : z[k] = y[k]
    BY <2>1, <2>2, <2>3
  <2>5. z = y
    BY <2>2, <2>3, <2>4, SameSeq
  <2> QED
    BY <2>5 DEF x, y, z
<1>5. upto(1) = <<s[1]>>
  <2> DEFINE x == upto(1)
             y == <<s[1]>>
  <2>1. x \in Seq(Kebab) /\ Len(x) = 1 /\ x[1] = s[1]
    BY <1>1, <1>3
  <2>2. y \in Seq(Kebab) /\ Len(y) = 1 /\ y[1] = s[1]
    BY <1>1
  <2> HIDE DEF x, y
  <2>3. \A k \in 1 .. Len(x) : x[k] = y[k]
    BY <2>1, <2>2
  <2> QED
    BY <2>1, <2>2, <2>3, SameSeq DEF x, y
<1>6. upto(N) = s
  <2> DEFINE x == upto(N)
  <2>1. x \in Seq(Kebab) /\ Len(x) = N /\ \A k \in 1 .. N : x[k] = s[k]
    BY <1>1, <1>3
  <2> HIDE DEF x
  <2> QED
    BY <1>1, <2>1, SameSeq DEF x
<1> HIDE DEF f, upto, N
<1>7. 0 \in I
  BY <1>1, <1>2
<1>8. ASSUME NEW i \in 0 .. N, i \in I, i < N PROVE i + 1 \in I
  <2> DEFINE c == s[i + 1]
             acc == f[i]
  <2>1. i + 1 \in 1 .. N /\ i + 1 \in 0 .. N /\ (i + 1) - 1 = i /\ i + 1 # 0 /\ c \in Kebab
    BY <1>1, <1>8
  <2>2. f[i + 1] = Cleaned(acc, c) /\ acc = at(i)
    BY <1>2, <1>8, <2>1
  <2>3. CASE i = 0
    <3>1. acc = Fresh /\ c = s[1] /\ c \in Lows
      BY <2>2, <2>3 DEF Clean
    <3>2. Cleaned(acc, c) = [out |-> Append(<<>>, c), sep |-> <<>>]
      <4>1. IsAlnum(c) /\ Lower(c) = c
        BY <3>1, LowChars
      <4>2. acc.out = <<>>
        BY <3>1 DEF Fresh
      <4> HIDE DEF acc, c
      <4> QED
        BY <4>1, <4>2 DEF Cleaned
    <3>3. Append(<<>>, c) = upto(1)
      BY <1>5, <3>1
    <3>4. at(1) = [out |-> upto(1), sep |-> <<>>]
      BY <3>1
    <3> QED
      BY <2>1, <2>2, <2>3, <3>2, <3>3, <3>4
  <2>4. CASE i # 0 /\ s[i] \in Lows
    <3>1. acc = [out |-> upto(i), sep |-> <<>>] /\ i \in 1 .. N
      BY <1>1, <2>2, <2>4
    <3>2. upto(i) # <<>> /\ upto(i) \o <<>> = upto(i)
      <4>1. upto(i) \in Seq(Kebab) /\ Len(upto(i)) = i
        BY <1>3, <3>1
      <4> QED
        BY <2>4, <4>1
    <3>3. CASE c \in Lows
      <4>1. IsAlnum(c) /\ Lower(c) = c
        BY <3>3, LowChars
      <4>2. acc.out = upto(i) /\ acc.sep = <<>>
        BY <3>1
      <4>3. Cleaned(acc, c) = [out |-> Append(upto(i), c), sep |-> <<>>]
        <5> HIDE DEF acc, c
        <5> QED
          BY <3>2, <4>1, <4>2 DEF Cleaned
      <4>4. Append(upto(i), c) = upto(i + 1)
        BY <1>1, <1>4, <2>1, <3>1
      <4> QED
        BY <2>1, <2>2, <3>3, <4>3, <4>4
    <3>4. CASE c \notin Lows
      <4>1. ~IsAlnum(c) /\ c \in {"_", "-"}
        BY <2>1, <3>4, LowChars
      <4> QED
        <5>1. Cleaned(acc, c) = [out |-> upto(i), sep |-> <<c>>]
          <6> DEFINE u == upto(i)
          <6>1. acc = [out |-> u, sep |-> <<>>] /\ acc.sep = <<>>
            BY <3>1
          <6> HIDE DEF acc, c, u
          <6>2. Cleaned(acc, c) = [acc EXCEPT !.sep = <<c>>]
            BY <4>1, <6>1, Zenon DEF Cleaned
          <6> QED
            BY <6>1, <6>2 DEF u
        <5> QED
          BY <2>1, <2>2, <3>4, <5>1
    <3> QED
      BY <3>3, <3>4
  <2>5. CASE i # 0 /\ s[i] \notin Lows
    <3>1. i - 1 \in 1 .. N /\ i - 1 \in 1 .. (N - 1) /\ i \in 1 .. (N - 1) /\ (i - 1) + 1 = i
      <4>1. i # 1
        BY <2>5 DEF Clean
      <4> QED
        BY <1>1, <1>8, <2>5, <4>1
    <3>2. c \in Lows
      BY <2>5, <3>1 DEF Clean, N
    <3>3. acc = [out |-> upto(i - 1), sep |-> <<s[i]>>]
      BY <2>2, <2>5
    <3>4. upto(i - 1) # <<>> /\ upto(i - 1) \o <<s[i]>> = upto(i)
      <4> DEFINE x == upto(i - 1)
                 d == s[i]
      <4>1. x \in Seq(Kebab) /\ Len(x) = i - 1 /\ i - 1 # 0 /\ d \in Kebab
        BY <1>1, <1>3, <3>1
      <4>2. Append(x, d) = upto(i)
        BY <1>4, <3>1
      <4> HIDE DEF x, d
      <4>3. x # <<>> /\ x \o <<d>> = Append(x, d)
        BY <4>1
      <4> QED
        BY <4>2, <4>3 DEF x, d
    <3>5. IsAlnum(c) /\ Lower(c) = c
      BY <3>2, LowChars
    <3>6. acc.out = upto(i - 1) /\ acc.sep = <<s[i]>>
      BY <3>3
    <3>7. Cleaned(acc, c) = [out |-> Append(upto(i), c), sep |-> <<>>]
      <4> HIDE DEF acc, c
      <4> QED
        BY <3>4, <3>5, <3>6 DEF Cleaned
    <3>8. Append(upto(i), c) = upto(i + 1)
      BY <1>4, <3>1
    <3> QED
      BY <2>1, <2>2, <3>2, <3>7, <3>8
  <2> QED
    BY <2>3, <2>4, <2>5
<1>9. N \in I
  <2> HIDE DEF I
  <2>1. \A i \in 0 .. N : i \in I
    BY <1>1, <1>7, <1>8, Induction
  <2> QED
    BY <1>1, <2>1
<1>10. f[N] = [out |-> s, sep |-> <<>>]
  <2>1. f[N] = at(N) /\ N # 0 /\ s[N] \in Lows
    BY <1>1, <1>9 DEF Clean, N
  <2> QED
    BY <1>6, <2>1
<1> QED
  BY <1>2, <1>10

\* A name that was made a command's is one already.
LEMMA SanitizedOnce ==
    ASSUME NEW n \in Seq(NameChar)
    PROVE  SanitizedCliName(SanitizedCliName(n)) = SanitizedCliName(n)
<1> DEFINE out == CleanedAll(n)
           r == SanitizedCliName(n)
<1>1. out = <<>> \/ Clean(out)
  <2>1. Len(n) \in 0 .. Len(n)
    OBVIOUS
  <2> QED
    BY <2>1, CleanedUnfolds DEF Kempt
<1>2. \A s : Clean(s) /\ s[1] \notin Digits => SanitizedCliName(s) = s
  <2> SUFFICES ASSUME NEW s, Clean(s), s[1] \notin Digits PROVE SanitizedCliName(s) = s
    OBVIOUS
  <2>1. CleanedAll(s) = s /\ s # <<>>
    BY CleanStays DEF Clean
  <2> QED
    BY <2>1 DEF SanitizedCliName
<1>3. Clean(Mcp) /\ Mcp[1] \notin Digits /\ Mcp \in Seq(Kebab) /\ Len(Mcp) = 3 /\ Mcp[1] = "m" /\ Mcp[2] = "c" /\ Mcp[3] = "p"
  <2>1. "m" \in Lows /\ "c" \in Lows /\ "p" \in Lows /\ "m" \notin Digits
    BY DEF Lows, Small, Digits
  <2>2. Mcp \in Seq(Kebab) /\ Len(Mcp) = 3 /\ Mcp[1] = "m" /\ Mcp[2] = "c" /\ Mcp[3] = "p"
    <3>1. "m" \in Kebab /\ "c" \in Kebab /\ "p" \in Kebab
      BY <2>1 DEF Kebab
    <3> QED
      BY <3>1 DEF Mcp
  <2>3. \A i \in 1 .. (3 - 1) : i = 1 \/ i = 2
    OBVIOUS
  <2> QED
    BY <2>1, <2>2, <2>3 DEF Clean
<1> HIDE DEF out
<1>4. CASE out = <<>>
  BY <1>2, <1>3, <1>4 DEF SanitizedCliName, out
<1>5. CASE out # <<>> /\ out[1] \notin Digits
  <2>1. r = out
    BY <1>5 DEF SanitizedCliName, out
  <2> HIDE DEF r
  <2> QED
    BY <1>1, <1>2, <1>5, <2>1 DEF r
<1>6. CASE out # <<>> /\ out[1] \in Digits
  <2> DEFINE d == <<"-">>
             x == d \o out
             z == Mcp \o x
             N == Len(out)
  <2>1. Clean(out) /\ out \in Seq(Kebab) /\ N \in Nat /\ N >= 1
    BY <1>1, <1>6 DEF Clean
  <2>2. d \in Seq(Kebab) /\ Len(d) = 1 /\ 1 \in 1 .. 1 /\ d[1] = "-"
    <3>1. "-" \in Kebab
      BY DEF Kebab
    <3> QED
      BY <3>1
  <2> HIDE DEF d
  <2>3. IsJoined(Kebab, d, out, x)
    BY <2>1, <2>2, Joined
  <2> HIDE DEF x
  <2>4. x \in Seq(Kebab) /\ Len(x) = N + 1 /\ x[1] = "-" /\ \A i \in 1 .. N : x[1 + i] = out[i]
    BY <2>1, <2>2, <2>3 DEF IsJoined
  <2>5. IsJoined(Kebab, Mcp, x, z)
    BY <1>3, <2>4, Joined
  <2> HIDE DEF z
  <2>6. /\ z \in Seq(Kebab) /\ Len(z) = N + 4 /\ (\A i \in 1 .. 3 : z[i] = Mcp[i])
        /\ \A i \in 1 .. (N + 1) : z[3 + i] = x[i]
    BY <1>3, <2>1, <2>4, <2>5 DEF IsJoined
  <2>7. \A i \in 1 .. N : z[4 + i] = out[i]
    <3> SUFFICES ASSUME NEW i \in 1 .. N PROVE z[4 + i] = out[i]
      OBVIOUS
    <3>1. 1 + i \in 1 .. (N + 1) /\ 3 + (1 + i) = 4 + i
      BY <2>1
    <3> QED
      BY <2>4, <2>6, <3>1
  <2>8. Clean(z) /\ z[1] \notin Digits
    <3>1. Mcp[1] \in Lows /\ Mcp[2] \in Lows /\ Mcp[3] \in Lows
      BY <1>3, LowChars DEF Lows, Small
    <3>2. z[1] \in Lows /\ z[2] \in Lows /\ z[3] \in Lows /\ z[1] \notin Digits
      BY <1>3, <2>6, <3>1
    <3>3. z[5] \in Lows
      <4>1. 1 \in 1 .. N /\ 4 + 1 = 5
        BY <2>1
      <4> QED
        BY <2>1, <2>7, <4>1 DEF Clean
    <3>4. z[N + 4] \in Lows
      <4>1. N \in 1 .. N /\ 4 + N = N + 4
        BY <2>1
      <4> QED
        BY <2>1, <2>7, <4>1 DEF Clean
    <3>5. \A i \in 1 .. ((N + 4) - 1) : z[i] \in Lows \/ z[i + 1] \in Lows
      <4> SUFFICES ASSUME NEW i \in 1 .. ((N + 4) - 1) PROVE z[i] \in Lows \/ z[i + 1] \in Lows
        OBVIOUS
      <4>1. CASE i \in 1 .. 3
        BY <3>2, <4>1
      <4>2. CASE i = 4
        BY <3>3, <4>2
      <4>3. CASE i > 4
        <5>1. i - 4 \in 1 .. (Len(out) - 1) /\ i - 4 \in 1 .. N /\ (i - 4) + 1 \in 1 .. N
          BY <2>1, <4>3
        <5>2. 4 + (i - 4) = i /\ 4 + ((i - 4) + 1) = i + 1
          BY <2>1
        <5>3. z[i] = out[i - 4] /\ z[i + 1] = out[(i - 4) + 1]
          BY <2>7, <5>1, <5>2
        <5> QED
          BY <2>1, <5>1, <5>3 DEF Clean
      <4> QED
        BY <2>1, <4>1, <4>2, <4>3
    <3> QED
      BY <2>1, <2>6, <3>2, <3>4, <3>5 DEF Clean
  <2>9. r = z
    BY <1>6 DEF SanitizedCliName, out, z, x, d
  <2> HIDE DEF r
  <2> QED
    BY <1>2, <2>8, <2>9 DEF r
<1> QED
  BY <1>4, <1>5, <1>6

\* What the help names can be reached by the name that it is given there.
LEMMA HelpIsReached ==
    ASSUME NEW x, NEW y, IsName(x), IsName(y)
    PROVE  HelpReaches(<<x, y>>)
<1> DEFINE P == <<x, y>>
<1>1. Seq(NameChar) \subseteq Texts
  <2>1. NameChar \subseteq Char
    BY DEF Char
  <2> HIDE DEF NameChar, Char
  <2> QED
    BY <2>1 DEF Texts
<1>2. x \in Seq(NameChar) /\ y \in Seq(NameChar)
  BY DEF IsName
<1>3. P \in Seq(Texts) /\ ToSet(P) = {x, y}
  <2>1. x \in Texts /\ y \in Texts
    BY <1>1, <1>2
  <2>2. DOMAIN P = {1, 2} /\ P[1] = x /\ P[2] = y
    OBVIOUS
  <2> QED
    BY <2>1, <2>2 DEF ToSet
<1> HIDE DEF P
<1>4. ASSUME NEW p \in ToSet(P)
      PROVE  /\ Clash(P, p) \/ Starts(TrimHyphens(OptionFlag(p)), No) \/ FindsItself(P, p)
             /\ Twin(P, p) \/ CaseBranch(P, Subcommand(p)) \in {p, <<"help">>}
             /\ SanitizedCliName(SanitizedCliName(p)) = SanitizedCliName(p)
  BY <1>2, <1>3, FlagFinds, SubcommandFinds, SanitizedOnce
<1>5. HelpReaches(P)
  BY <1>4, Zenon DEF HelpReaches, FindsItself
<1> QED
  BY <1>5 DEF P

----------------------------------------------------------------------------
(* A command that is written from the help *)

\* The loop of parse_argv.
LEMMA NativeUnfolds ==
    ASSUME NEW t, NEW argv, Len(argv) \in Nat
    PROVE  /\ ArgvRead("native", t, argv)[0] = Begun
           /\ NativeFrom(t, argv) = ArgvRead("native", t, argv)[Len(argv)].reading
           /\ \A i \in 1 .. Len(argv) :
                ArgvRead("native", t, argv)[i] = NativeStep(t, argv, ArgvRead("native", t, argv)[i - 1], i)
<1> DEFINE f == ArgvRead("native", t, argv)
           N == Len(argv)
<1>1. ArgvOn("native", t, argv, N, f)
  BY ArgvExists DEF ArgvRead
<1>2. NativeFrom(t, argv) = f[N].reading
  BY DEF NativeFrom, ArgvRead, ArgvOn, ArgvStep
<1>3. 0 \in 0 .. N /\ \A i \in 1 .. N : i \in 0 .. N /\ i # 0
  OBVIOUS
<1> HIDE DEF f, N
<1>4. f[0] = Begun /\ \A i \in 1 .. N : f[i] = NativeStep(t, argv, f[i - 1], i)
  <2>1. \A i \in 0 .. N : f[i] = IF i = 0 THEN Begun ELSE ArgvStep("native", t, argv, f[i - 1], i)
    BY <1>1 DEF ArgvOn
  <2>2. \A acc, i : ArgvStep("native", t, argv, acc, i) = NativeStep(t, argv, acc, i)
    BY DEF ArgvStep
  <2> QED
    BY <1>3, <2>1, <2>2
<1> QED
  BY <1>2, <1>4 DEF f, N

\* f is a flag of the property p, or of its negation.
Negates(f) == ParseFlagName(f).no
IsFlagOf(t, p, f) ==
    /\ f # <<>> /\ f # JsonFlag /\ Negates(f) \in BOOLEAN
    /\ ResolvePropertyName(t.params, ParseFlagName(f).name) = <<p>>

LEMMA OwnFlagIs ==
    ASSUME NEW t, IsTool(t), NEW p \in ToSet(t.params), HasOwnFlag(t.params, p)
    PROVE  IsFlagOf(t, p, OptionFlag(p)) /\ Negates(OptionFlag(p)) = FALSE
<1>1. t.params \in Seq(Texts)
  BY DEF IsTool
<1>2. FindsItself(t.params, p)
  BY <1>1, FlagFinds DEF HasOwnFlag
<1>3. ParseFlagName(OptionFlag(p)).no = FALSE
  <2> DEFINE n == TrimHyphens(OptionFlag(p))
  <2>1. ~Starts(n, No)
    BY DEF HasOwnFlag
  <2>2. ParseFlagName(OptionFlag(p)) = [name |-> SnakeOf(n), no |-> FALSE]
    BY <2>1 DEF ParseFlagName
  <2> QED
    BY <2>2
<1> QED
  BY <1>2, <1>3 DEF IsFlagOf, Negates, FindsItself, HasOwnFlag

LEMMA NegationIs ==
    ASSUME NEW t, IsTool(t), NEW p \in ToSet(t.params), HasOwnFlag(t.params, p)
    PROVE  IsFlagOf(t, p, No \o OptionFlag(p)) /\ Negates(No \o OptionFlag(p)) = TRUE
<1> DEFINE P == t.params
           g == OptionFlag(p)
           f == No \o g
<1>1. P \in Seq(Texts) /\ p \in Texts
  <2>1. P \in Seq(Texts)
    BY DEF IsTool
  <2> QED
    BY <2>1 DEF ToSet
<1>2. g \in Texts /\ Canonical(g) = Canonical(p)
  BY <1>1, SubcommandLetters DEF OptionFlag
<1>3. No \in Seq(Char) /\ Len(No) = 3 /\ No[1] = "n"
  <2>1. "n" \in Char /\ "o" \in Char /\ "-" \in Char
    BY DEF Char, NameChar, Small
  <2> QED
    BY <2>1 DEF No
<1> HIDE DEF f, g
<1>4. IsJoined(Char, No, g, f)
  BY <1>2, <1>3, Joined DEF f, Texts
<1>5. /\ f \in Texts /\ Len(f) = 3 + Len(g) /\ Len(g) \in Nat /\ (\A i \in 1 .. 3 : f[i] = No[i])
      /\ \A i \in 1 .. Len(g) : f[3 + i] = g[i]
  BY <1>3, <1>4 DEF IsJoined, Texts
<1>6. Starts(f, No)
  <2> DEFINE a == SubSeq(No, 1, 3)
             b == SubSeq(f, 1, 3)
  <2>1. f \in Seq(Char) /\ 3 <= Len(f)
    BY <1>5 DEF Texts
  <2>2. a \in Seq(Char) /\ b \in Seq(Char) /\ Len(a) = 3 /\ Len(b) = 3 /\ \A i \in 1 .. 3 : a[i] = No[i] /\ b[i] = f[i]
    <3>1. a \in Seq(Char) /\ Len(a) = 3 /\ \A i \in 1 .. 3 : a[i] = No[i]
      BY ONLY <1>3
    <3>2. b \in Seq(Char) /\ Len(b) = 3 /\ \A i \in 1 .. 3 : b[i] = f[i]
      BY ONLY <2>1
    <3> QED
      BY <3>1, <3>2
  <2> HIDE DEF a, b
  <2>3. a = b
    BY <1>5, <2>2, SameSeq
  <2>4. Len(No) <= Len(f)
    BY <1>3, <1>5
  <2> QED
    BY <1>3, <2>3, <2>4 DEF Starts, IsPrefix, a, b
<1>7. TrimHyphens(f) = f
  BY <1>5, <1>6, NegatedIs
<1>8. Without(f, No) = g
  <2> DEFINE w == Without(f, No)
  <2>1. w = SubSeq(f, 3 + 1, Len(f))
    BY <1>3 DEF Without
  <2>2. f \in Seq(Char) /\ 3 \in Nat /\ Len(f) \in Nat /\ 3 <= Len(f) /\ Len(f) <= Len(f)
    BY <1>5 DEF Texts
  <2> HIDE DEF w
  <2>3. IsCutOut(Char, f, 3, Len(f), w)
    BY <2>1, <2>2, CutOut
  <2>4. w \in Seq(Char) /\ Len(w) = Len(g) /\ \A i \in 1 .. Len(g) : w[i] = f[3 + i]
    <3>1. Len(f) - 3 = Len(g)
      BY <1>5
    <3> QED
      BY <2>3, <3>1 DEF IsCutOut
  <2>5. w = g
    BY <1>2, <1>5, <2>4, SameSeq DEF Texts
  <2> QED
    BY <2>5 DEF w
<1> DEFINE n == SnakeOf(g)
<1>9. ParseFlagName(f) = [name |-> n, no |-> TRUE]
  BY <1>6, <1>7, <1>8 DEF ParseFlagName
<1>10. Canonical(n) = Canonical(p)
  BY <1>2, SnakeLetters DEF Texts
<1>11. ParseFlagName(f).no = TRUE /\ ParseFlagName(f).name = n
  BY <1>9
<1> HIDE DEF n
<1>12. ResolvePropertyName(P, n) = <<p>>
  <2> DEFINE found == ResolvePropertyName(P, n)
  <2>1. Owns(P, n, found)
    BY <1>1, ResolveOwns
  <2> HIDE DEF found, P
  <2>2. found = <<found[1]>> /\ found[1] \in ToSet(P) /\ Canonical(found[1]) = Canonical(p)
    BY <1>10, <2>1 DEF Owns, P
  <2>3. found[1] = p
    BY <2>2 DEF HasOwnFlag, Clash, P
  <2> QED
    BY <2>2, <2>3 DEF found
<1>13. f # <<>> /\ f # JsonFlag
  <2>1. f[1] = "n" /\ Len(f) >= 3
    BY <1>3, <1>5
  <2>2. JsonFlag[1] = "j"
    BY DEF JsonFlag
  <2> QED
    BY <2>1, <2>2
<1> QED
  BY <1>11, <1>12, <1>13 DEF IsFlagOf, Negates, f, g

\* A flag with the word after it: its value is put into what was read.
Valued(t, p, w) == NativeCoerce(t.type[p], t.items, w)
Takes(t, p, v) == ~Failed(v) /\ NativeAllows(t.enum[p], v)
Puts(t, p, out, v) == InsertValue(out, p, t.type[p], v)
ReadTo(i, out) == [next |-> i, reading |-> [input |-> out]]
HasFlag(argv, i, f) == argv[i] = [flag |-> f]
HasWord(argv, i, w) == Value(argv, i) = <<w>>
ReadPast(i, out) == ReadTo(i + 2, out)

LEMMA ReadToIs ==
    ASSUME NEW i, NEW out
    PROVE  /\ ReadTo(i, out).next = i /\ ReadTo(i, out).reading = [input |-> out]
           /\ ReadTo(i, out).reading.input = out /\ ~Failed(ReadTo(i, out).reading)
BY DEF ReadTo, Failed

\* A turn at a flag, with its value and where the loop goes on.
LEMMA FlagTurns ==
    ASSUME NEW t, NEW argv, NEW i \in Nat, NEW p, NEW f, f # <<>>, argv[i] = [flag |-> f], NEW out, NEW v, NEW k,
           NativeFlag(t, argv, i) = [property |-> p, value |-> v, next |-> k]
    PROVE  NativeStep(t, argv, ReadTo(i, out), i) = ReadTo(k, Puts(t, p, out, v))
<1> DEFINE acc == ReadTo(i, out)
           flag == NativeFlag(t, argv, i)
<1>1. acc.next = i /\ acc.reading.input = out /\ ~Failed(acc.reading)
  BY ReadToIs
<1>2. ~PassesOver(acc, i)
  BY <1>1 DEF PassesOver
<1>3. IsFlag(argv[i]) /\ argv[i].flag = f
  BY DEF IsFlag
<1>4. ~Positional(argv[i])
  BY <1>3 DEF Positional
<1>5. flag.property = p /\ flag.value = v /\ flag.next = k /\ ~Failed(flag)
  BY DEF Failed
<1> HIDE DEF acc, flag
<1>6. Turn(t, argv[i], acc, flag) =
        [next |-> flag.next, reading |-> [input |-> InsertValue(acc.reading.input, flag.property, t.type[flag.property], flag.value)]]
  BY <1>4, <1>5 DEF Turn
<1>7. NativeStep(t, argv, acc, i) = Turn(t, argv[i], acc, flag)
  BY <1>2 DEF NativeStep, flag
<1> QED
  BY <1>1, <1>5, <1>6, <1>7 DEF acc, ReadTo, Puts

LEMMA WordTurns ==
    ASSUME NEW t, NEW argv, NEW i \in Nat, NEW p, NEW f, IsFlagOf(t, p, f), ~Negates(f), HasFlag(argv, i, f), NEW out,
           NEW w, HasWord(argv, i, w), Takes(t, p, Valued(t, p, w))
    PROVE  NativeStep(t, argv, ReadTo(i, out), i) = ReadPast(i, Puts(t, p, out, Valued(t, p, w)))
<1> DEFINE k == i + 2
           v == Valued(t, p, w)
           said == [property |-> p, value |-> v, next |-> k]
<1>1. argv[i].flag = f
  BY DEF HasFlag
<1>2. <<p>>[1] = p /\ <<w>>[1] = w /\ <<p>> # <<>> /\ <<w>> # <<>>
  OBVIOUS
<1> DEFINE no == ParseFlagName(f).no
<1>0. no = FALSE
  BY Zenon DEF Negates, IsFlagOf
<1>3. NativeFlag(t, argv, i) = Taken(t, p, i, FALSE, <<w>>, v, NativeAllows(t.enum[p], v))
  BY <1>0, <1>1, <1>2 DEF HasWord, NativeFlag, IsFlagOf, Valued
<1>4. ~Failed(v) /\ NativeAllows(t.enum[p], v)
  BY DEF Takes
<1> HIDE DEF v
<1>5. Taken(t, p, i, FALSE, <<w>>, v, NativeAllows(t.enum[p], v)) = said
  BY <1>2, <1>4 DEF Taken
<1> HIDE DEF k
<1>6. f # <<>>
  BY DEF IsFlagOf
<1>7. NativeStep(t, argv, ReadTo(i, out), i) = ReadTo(k, Puts(t, p, out, v))
  <2>1. NativeFlag(t, argv, i) = [property |-> p, value |-> v, next |-> k]
    BY <1>3, <1>5, Zenon
  <2>2. argv[i] = [flag |-> f] /\ i \in Nat
    BY DEF HasFlag
  <2> QED
    BY ONLY <1>6, <2>1, <2>2, FlagTurns
<1> QED
  BY <1>7 DEF v, k, ReadPast

\* A flag without a word, of a Boolean.
LEMMA BareTurns ==
    ASSUME NEW t, NEW argv, NEW i \in Nat, NEW p, NEW f, NEW no \in BOOLEAN, IsFlagOf(t, p, f), Negates(f) = no,
           argv[i] = [flag |-> f], NEW out, Value(argv, i) = <<>>, t.type[p] = "boolean", Takes(t, p, Unvalued(no))
    PROVE  NativeStep(t, argv, ReadTo(i, out), i) = ReadTo(i + 1, Puts(t, p, out, Unvalued(no)))
<1> DEFINE v == Unvalued(no)
           said == [property |-> p, value |-> v, next |-> i + 1]
<1>1. argv[i].flag = f
  OBVIOUS
<1>2. <<p>>[1] = p /\ <<p>> # <<>>
  OBVIOUS
<1>3. NativeFlag(t, argv, i) = Taken(t, p, i, no, <<>>, v, NativeAllows(t.enum[p], v))
  BY <1>1, <1>2 DEF NativeFlag, Negates, IsFlagOf
<1>4. ~Failed(v) /\ NativeAllows(t.enum[p], v)
  BY DEF Takes
<1> HIDE DEF v
<1>5. Taken(t, p, i, no, <<>>, v, NativeAllows(t.enum[p], v)) = said
  BY <1>4 DEF Taken
<1>6. f # <<>>
  BY DEF IsFlagOf
<1>7. NativeStep(t, argv, ReadTo(i, out), i) = ReadTo(i + 1, Puts(t, p, out, v))
  BY <1>3, <1>5, <1>6, FlagTurns
<1> QED
  BY <1>7 DEF v

\* The word that was taken is passed over.
LEMMA WordPassed ==
    ASSUME NEW t, NEW argv, NEW i \in Nat, NEW k \in Nat, i < k, NEW out
    PROVE  NativeStep(t, argv, ReadTo(k, out), i) = ReadTo(k, out)
BY ReadToIs DEF NativeStep, PassesOver

\* A flag and its word in a command: two turns of the loop.
LEMMA PairRead ==
    ASSUME NEW t, NEW argv, Len(argv) \in Nat, DOMAIN argv = 1 .. Len(argv),
           NEW h \in Nat, NEW i, NEW j, NEW k, i = h + 1, j = h + 2, k = h + 3, j <= Len(argv),
           NEW p, NEW f, IsFlagOf(t, p, f), ~Negates(f), NEW w, HasFlag(argv, i, f), argv[j] = [word |-> w],
           Takes(t, p, Valued(t, p, w)), NEW out, ArgvRead("native", t, argv)[h] = ReadTo(i, out)
    PROVE  ArgvRead("native", t, argv)[j] = ReadTo(k, Puts(t, p, out, Valued(t, p, w)))
<1> DEFINE r == ArgvRead("native", t, argv)
           N == Len(argv)
           new == Puts(t, p, out, Valued(t, p, w))
<1>1. \A m \in 1 .. N : r[m] = NativeStep(t, argv, r[m - 1], m)
  BY NativeUnfolds
<1> HIDE DEF r
<1>2. /\ i \in Nat /\ j \in Nat /\ k \in Nat /\ i \in 1 .. N /\ j \in 1 .. N /\ i - 1 = h /\ j - 1 = i /\ i + 1 = j
      /\ j < k /\ i + 2 = k
  OBVIOUS
<1>3. HasWord(argv, i, w)
  <2>1. i + 1 \in DOMAIN argv /\ ~IsFlag(argv[i + 1]) /\ argv[i + 1].word = w
    BY <1>2 DEF IsFlag
  <2> QED
    BY <2>1 DEF Value, HasWord
<1>4. r[i] = NativeStep(t, argv, ReadTo(i, out), i)
  BY <1>1, <1>2 DEF r
<1>5. r[i] = ReadTo(k, new)
  <2>1. i \in Nat /\ IsFlagOf(t, p, f) /\ ~Negates(f) /\ HasFlag(argv, i, f) /\ Takes(t, p, Valued(t, p, w))
    BY <1>2
  <2>2. NativeStep(t, argv, ReadTo(i, out), i) = ReadPast(i, Puts(t, p, out, Valued(t, p, w)))
    BY ONLY <1>3, <2>1, WordTurns
  <2> QED
    BY <1>2, <1>4, <2>2 DEF ReadPast
<1> HIDE DEF new
<1>6. r[j] = NativeStep(t, argv, ReadTo(k, new), j)
  BY <1>1, <1>2, <1>5
<1>7. r[j] = ReadTo(k, new)
  BY <1>2, <1>6, WordPassed
<1> QED
  BY <1>7 DEF r, new

\* What was read is the input, when nothing that is required is missing.
LEMMA Parsed ==
    ASSUME NEW t, NEW argv, ~AsksJson(argv), NEW out, NativeFrom(t, argv) = [input |-> out], t.required \subseteq DOMAIN out
    PROVE  ParseArgv(t, argv) = [input |-> out] /\ ~Failed(ParseArgv(t, argv))
<1>1. ~Failed([input |-> out]) /\ [input |-> out].input = out
  BY DEF Failed
<1> QED
  BY <1>1 DEF ParseArgv

LEMMA NoJson ==
    ASSUME NEW t, NEW argv, NEW p, NEW f, IsFlagOf(t, p, f), argv[1] = [flag |-> f]
    PROVE  ~AsksJson(argv)
<1>1. argv[1].flag = f /\ [flag |-> JsonFlag].flag = JsonFlag /\ f # JsonFlag
  BY DEF IsFlagOf
<1> QED
  BY <1>1 DEF AsksJson

\* What the words stand for.
LEMMA JsonWords ==
    /\ DOMAIN Json = {"true", "five", "half", "list", "object"}
    /\ Json["true"] = V("bool", "true") /\ Json["five"] = V("num", "5") /\ Json["half"] = V("num", "0.5")
    /\ Json["list"] = List(<<V("num", "5"), Text("plain")>>) /\ Json["object"] = V("object", "{}")
<1> DEFINE li == List(<<V("num", "5"), Text("plain")>>)
           tr == V("bool", "true")
           fi == V("num", "5")
           ha == V("num", "0.5")
           ob == V("object", "{}")
<1>1. Json = [true |-> tr, five |-> fi, half |-> ha, list |-> li, object |-> ob]
  BY DEF Json
<1> HIDE DEF li, tr, fi, ha, ob
<1>2. /\ DOMAIN Json = {"true", "five", "half", "list", "object"}
      /\ Json["true"] = tr /\ Json["five"] = fi /\ Json["half"] = ha /\ Json["list"] = li /\ Json["object"] = ob
  BY <1>1
<1> QED
  BY <1>2 DEF li, tr, fi, ha, ob

LEMMA OneValue ==
    ASSUME NEW a, NEW b
    PROVE  /\ ~Failed(V(a, b)) /\ Candidates(V(a, b)) = <<V(a, b)>>
           /\ \A enum : enum = {} \/ b \in enum => NativeAllows(enum, V(a, b))
<1> DEFINE v == V(a, b)
<1>1. ~Failed(v) /\ ~IsList(v) /\ v.v = b
  BY DEF V, Failed, IsList
<1> HIDE DEF v
<1>2. Candidates(v) = <<v>>
  BY <1>1 DEF Candidates
<1>3. DOMAIN <<v>> = {1} /\ <<v>>[1] = v
  OBVIOUS
<1>4. \A enum : enum = {} \/ b \in enum => NativeAllows(enum, v)
  BY <1>1, <1>2, <1>3 DEF NativeAllows
<1> QED
  BY <1>1, <1>2, <1>4 DEF v

LEMMA ListIs ==
    ASSUME NEW s
    PROVE  ~Failed(List(s))
BY DEF List, Failed

\* What the types make of a word.
LEMMA ScalarReads ==
    /\ NativeScalar("boolean", "true") = V("bool", "true") /\ NativeScalar("integer", "five") = V("num", "5")
    /\ NativeScalar("number", "half") = V("num", "0.5")
    /\ \A type, w : type \notin {"boolean", "integer", "number"} =>
         NativeScalar(type, w) = IF w \in DOMAIN Json THEN Json[w] ELSE Text(w)
<1> DEFINE tr == V("bool", "true")
           fi == V("num", "5")
           fl == V("num", "5.0")
           ha == V("num", "0.5")
<1>1. NativeScalar("boolean", "true") = tr
  <2> HIDE DEF tr
  <2>1. NativeScalar("boolean", "true") = Read([true |-> tr], "true", "boolean")
    BY DEF NativeScalar, tr
  <2> QED
    BY <2>1 DEF Read
<1>2. NativeScalar("integer", "five") = fi
  <2>1. NativeScalar("integer", "five") = Read(NativeInteger, "five", "integer")
    BY DEF NativeScalar
  <2>2. NativeInteger = [five |-> fi]
    BY DEF NativeInteger
  <2> HIDE DEF fi
  <2> QED
    BY <2>1, <2>2 DEF Read
<1>3. NativeScalar("number", "half") = ha
  <2>1. NativeScalar("number", "half") = Read(NativeNumber, "half", "number")
    BY DEF NativeScalar
  <2>2. NativeNumber = [five |-> fl, half |-> ha]
    BY DEF NativeNumber
  <2> HIDE DEF fl, ha
  <2> QED
    BY <2>1, <2>2 DEF Read
<1>4. ASSUME NEW type, NEW w, type \notin {"boolean", "integer", "number"}
      PROVE  NativeScalar(type, w) = IF w \in DOMAIN Json THEN Json[w] ELSE Text(w)
  BY <1>4 DEF NativeScalar
<1> QED
  BY <1>1, <1>2, <1>3, <1>4

\* Any word is read, where no scalar type is asked for.
LEMMA AnyWord ==
    ASSUME NEW type, type \notin {"boolean", "integer", "number"}, NEW w
    PROVE  ~Failed(NativeScalar(type, w))
<1>1. NativeScalar(type, w) = IF w \in DOMAIN Json THEN Json[w] ELSE Text(w)
  BY ScalarReads
<1>2. \A x \in {"true", "five", "half", "list", "object"} : ~Failed(Json[x])
  <2>1. ~Failed(Json["true"]) /\ ~Failed(Json["five"]) /\ ~Failed(Json["half"]) /\ ~Failed(Json["object"])
    BY JsonWords, OneValue
  <2>2. ~Failed(Json["list"])
    BY JsonWords, ListIs
  <2> QED
    BY <2>1, <2>2
<1>3. ~Failed(Text(w))
  BY OneValue DEF Text
<1>4. DOMAIN Json = {"true", "five", "half", "list", "object"}
  BY JsonWords
<1> QED
  BY <1>1, <1>2, <1>3, <1>4

\* The word for a label that the type can be is read as a value of that label.
CanBe(type, l) ==
    /\ type = "integer" => l = "5"
    /\ type = "number" => l = "0.5"
    /\ type = "boolean" => l = "true"
    /\ type \notin {"boolean", "integer", "number"} => l \notin DOMAIN Json \ {"true"}

LEMMA LabelReads ==
    ASSUME NEW type, NEW l, CanBe(type, l)
    PROVE  WordOf(l) # "list" /\ \E a : NativeScalar(type, WordOf(l)) = V(a, l)
<1>1. WordOf("5") = "five" /\ WordOf("0.5") = "half" /\ WordOf("true") = "true"
  BY DEF WordOf
<1>2. CASE type \in {"boolean", "integer", "number"}
  <2>1. CASE type = "boolean"
    <3>1. l = "true"
      BY <2>1 DEF CanBe
    <3> QED
      BY <1>1, <2>1, <3>1, ScalarReads
  <2>2. CASE type = "integer"
    <3>1. l = "5"
      BY <2>2 DEF CanBe
    <3> QED
      BY <1>1, <2>2, <3>1, ScalarReads
  <2>3. CASE type = "number"
    <3>1. l = "0.5"
      BY <2>3 DEF CanBe
    <3> QED
      BY <1>1, <2>3, <3>1, ScalarReads
  <2> QED
    BY <1>2, <2>1, <2>2, <2>3
<1>3. CASE type \notin {"boolean", "integer", "number"}
  <2>1. l \notin DOMAIN Json \ {"true"}
    BY <1>3 DEF CanBe
  <2>2. \A w : NativeScalar(type, w) = IF w \in DOMAIN Json THEN Json[w] ELSE Text(w)
    BY <1>3, ScalarReads
  <2>3. CASE l = "5"
    BY <1>1, <2>2, <2>3, JsonWords
  <2>4. CASE l = "0.5"
    BY <1>1, <2>2, <2>4, JsonWords
  <2>5. CASE l # "5" /\ l # "0.5"
    <3>1. WordOf(l) = l
      BY <2>5 DEF WordOf
    <3>2. CASE l = "true"
      BY <2>2, <3>1, <3>2, JsonWords
    <3>3. CASE l # "true"
      <4>1. l \notin DOMAIN Json /\ l # "list"
        BY <2>1, <3>3, JsonWords
      <4>2. NativeScalar(type, l) = V("str", l)
        BY <2>2, <4>1 DEF Text
      <4> QED
        BY <3>1, <4>1, <4>2
    <3> QED
      BY <3>2, <3>3
  <2> QED
    BY <2>3, <2>4, <2>5
<1> QED
  BY <1>2, <1>3

LEMMA LabelTaken ==
    ASSUME NEW t, NEW p, NEW l, l \in t.enum[p], Possible(t, p, l)
    PROVE  Takes(t, p, Valued(t, p, WordOf(l)))
<1> DEFINE w == WordOf(l)
           ty == t.type[p]
           type == IF ty = "array" THEN t.items ELSE ty
<1>1. CanBe(type, l)
  <2>1. Possible(t, p, l) <=> CASE type = "integer" -> l = "5" [] type = "number" -> l = "0.5"
                                [] type = "boolean" -> l = "true" [] OTHER -> l \notin DOMAIN Json \ {"true"}
    BY Zenon DEF Possible
  <2> HIDE DEF type
  <2> QED
    BY <2>1 DEF CanBe
<1>2. w # "list" /\ \E a : NativeScalar(type, w) = V(a, l)
  BY <1>1, LabelReads
<1> HIDE DEF w
<1>3. Valued(t, p, w) = NativeScalar(type, w)
  BY <1>2 DEF Valued, NativeCoerce
<1>4. PICK a : Valued(t, p, w) = V(a, l)
  BY <1>2, <1>3
<1>5. Takes(t, p, V(a, l))
  BY OneValue DEF Takes
<1> QED
  BY <1>4, <1>5 DEF w

\* Of each property the word for its type is read, and allowed.
LEMMA SampleTaken ==
    ASSUME NEW t, NEW p, \A l \in t.enum[p] : Possible(t, p, l)
    PROVE  Takes(t, p, Valued(t, p, Sample(t, Told(t, p))))
<1> DEFINE ty == t.type[p]
           items == t.items
           enum == t.enum[p]
           d == TypeDetails(ty, items, enum)
           o == Told(t, p)
           w == Sample(t, o)
<1>1. o.ty = d.ty /\ o.allowed = enum
  BY DEF Told
<1>2. CASE enum # {}
  <2> DEFINE l == CHOOSE x \in enum : TRUE
  <2>1. l \in enum
    BY <1>2
  <2>2. d.ty = "enum"
    BY <1>2 DEF TypeDetails
  <2>3. w = WordOf(l)
    BY <1>1, <2>2, Zenon DEF Sample
  <2> HIDE DEF l, w
  <2> QED
    BY <2>1, <2>3, LabelTaken DEF w
<1>3. CASE enum = {}
  <2>1. \A v : NativeAllows(t.enum[p], v)
    BY <1>3 DEF NativeAllows
  <2>2. ~Failed(Valued(t, p, w))
    <3> DEFINE scalar(x) == CASE x = "boolean" -> "true" [] x = "integer" -> "five"
                              [] x = "number" -> "half" [] OTHER -> "plain"
    <3>0. \A x : x \in {"boolean", "integer", "number"} => scalar(x) # "list" /\ ~Failed(NativeScalar(x, scalar(x)))
      <4>1. scalar("boolean") = "true" /\ scalar("integer") = "five" /\ scalar("number") = "half"
        OBVIOUS
      <4> HIDE DEF scalar
      <4> QED
        BY <4>1, ScalarReads, OneValue
    <3>1. CASE ty = "array"
      <4>1. CASE items \in {"boolean", "integer", "number"}
        <5>1. d.ty = "list"
          BY <1>3, <3>1, <4>1 DEF TypeDetails
        <5>2. w = scalar(items)
          BY <1>1, <5>1, Zenon DEF Sample
        <5> HIDE DEF w, scalar
        <5>3. Valued(t, p, w) = NativeScalar(items, w)
          BY <3>0, <3>1, <4>1, <5>2 DEF Valued, NativeCoerce
        <5> QED
          BY <3>0, <4>1, <5>2, <5>3
      <4>2. CASE items \notin {"boolean", "integer", "number"}
        <5> HIDE DEF w
        <5>1. Valued(t, p, w) = IF w = "list" THEN Json["list"] ELSE NativeScalar(items, w)
          BY <3>1 DEF Valued, NativeCoerce
        <5>2. ~Failed(Json["list"])
          BY JsonWords, ListIs
        <5>3. ~Failed(NativeScalar(items, w))
          BY <4>2, AnyWord
        <5> QED
          BY <5>1, <5>2, <5>3
      <4> QED
        BY <4>1, <4>2
    <3>2. CASE ty \in {"boolean", "integer", "number"}
      <4>1. d.ty = ty
        BY <1>3, <3>2 DEF TypeDetails
      <4>2. w = scalar(ty)
        <5>1. o.ty \notin {"enum", "list", "json array", "json object", "json"}
          BY <1>1, <3>2, <4>1
        <5> QED
          BY <1>1, <4>1, <5>1, Zenon DEF Sample
      <4> HIDE DEF w, scalar
      <4>3. Valued(t, p, w) = NativeScalar(ty, w)
        BY <3>2 DEF Valued, NativeCoerce
      <4> QED
        BY <3>0, <3>2, <4>2, <4>3
    <3>3. CASE ty # "array" /\ ty \notin {"boolean", "integer", "number"}
      <4> HIDE DEF w
      <4>1. Valued(t, p, w) = NativeScalar(ty, w)
        BY <3>3 DEF Valued, NativeCoerce
      <4> QED
        BY <3>3, <4>1, AnyWord
    <3> QED
      BY <3>1, <3>2, <3>3
  <2> QED
    BY <2>1, <2>2 DEF Takes
<1> QED
  BY <1>2, <1>3

\* A command of one option, or of two, is read whole.
LEMMA BegunIs == Begun = ReadTo(1, NoInput)
BY DEF Begun, ReadTo

LEMMA OnePair ==
    ASSUME NEW t, t.required = {}, NEW p, NEW f, IsFlagOf(t, p, f), ~Negates(f), NEW w, Takes(t, p, Valued(t, p, w))
    PROVE  ParseArgv(t, Given(f, w)) = [input |-> Puts(t, p, NoInput, Valued(t, p, w))]
<1> DEFINE argv == Given(f, w)
           r == ArgvRead("native", t, argv)
           out == Puts(t, p, NoInput, Valued(t, p, w))
<1>1. Len(argv) = 2 /\ DOMAIN argv = 1 .. 2 /\ argv[1] = [flag |-> f] /\ argv[2] = [word |-> w]
  BY DEF Given
<1> HIDE DEF argv, r
<1>2. r[0] = ReadTo(1, NoInput) /\ NativeFrom(t, argv) = r[2].reading
  <2>1. Len(argv) \in Nat
    BY <1>1
  <2>2. r[0] = Begun /\ NativeFrom(t, argv) = r[Len(argv)].reading
    BY <2>1, NativeUnfolds DEF r
  <2> QED
    BY <1>1, <2>2, BegunIs
<1>3. r[2] = ReadTo(3, out)
  <2>1. /\ Len(argv) \in Nat /\ DOMAIN argv = 1 .. Len(argv) /\ 0 \in Nat /\ 1 = 0 + 1 /\ 2 = 0 + 2 /\ 3 = 0 + 3
        /\ 2 <= Len(argv) /\ HasFlag(argv, 1, f) /\ argv[2] = [word |-> w]
    BY <1>1 DEF HasFlag
  <2>2. ArgvRead("native", t, argv)[0] = ReadTo(1, NoInput)
    BY <1>2 DEF r
  <2> QED
    BY <2>1, <2>2, PairRead DEF r
<1> HIDE DEF out
<1>4. NativeFrom(t, argv) = [input |-> out]
  BY <1>1, <1>2, <1>3, ReadToIs
<1>5. ~AsksJson(argv)
  BY <1>1, NoJson
<1> QED
  BY <1>4, <1>5, Parsed DEF argv, out

LEMMA OneFlag ==
    ASSUME NEW t, t.required = {}, NEW p, NEW f, NEW no \in BOOLEAN, IsFlagOf(t, p, f), Negates(f) = no,
           t.type[p] = "boolean", Takes(t, p, Unvalued(no))
    PROVE  ParseArgv(t, <<[flag |-> f]>>) = [input |-> Puts(t, p, NoInput, Unvalued(no))]
<1> DEFINE argv == <<[flag |-> f]>>
           r == ArgvRead("native", t, argv)
           out == Puts(t, p, NoInput, Unvalued(no))
<1>1. Len(argv) = 1 /\ DOMAIN argv = 1 .. 1 /\ argv[1] = [flag |-> f] /\ Len(argv) \in Nat /\ 1 \in 1 .. 1 /\ 1 - 1 = 0
  OBVIOUS
<1> HIDE DEF argv, r
<1>2. r[0] = ReadTo(1, NoInput) /\ NativeFrom(t, argv) = r[1].reading /\ r[1] = NativeStep(t, argv, r[0], 1)
  <2>1. /\ r[0] = Begun /\ NativeFrom(t, argv) = r[Len(argv)].reading
        /\ \A i \in 1 .. Len(argv) : r[i] = NativeStep(t, argv, r[i - 1], i)
    BY <1>1, NativeUnfolds DEF r
  <2> QED
    BY <1>1, <2>1, BegunIs
<1>3. Value(argv, 1) = <<>>
  <2>1. 1 + 1 \notin DOMAIN argv
    BY <1>1
  <2> QED
    BY <2>1 DEF Value
<1>4. NativeStep(t, argv, ReadTo(1, NoInput), 1) = ReadTo(1 + 1, out)
  BY <1>1, <1>3, BareTurns
<1> HIDE DEF out
<1>5. NativeFrom(t, argv) = [input |-> out]
  BY <1>1, <1>2, <1>4, ReadToIs
<1>6. ~AsksJson(argv)
  BY <1>1, NoJson
<1> QED
  BY <1>5, <1>6, Parsed DEF argv, out

LEMMA TwoPairs ==
    ASSUME NEW t, t.required = {}, NEW p, NEW f, IsFlagOf(t, p, f), ~Negates(f),
           NEW a, Takes(t, p, Valued(t, p, a)), NEW b, Takes(t, p, Valued(t, p, b))
    PROVE  ParseArgv(t, Given(f, a) \o Given(f, b)) =
             [input |-> Puts(t, p, Puts(t, p, NoInput, Valued(t, p, a)), Valued(t, p, b))]
<1> DEFINE argv == Given(f, a) \o Given(f, b)
           r == ArgvRead("native", t, argv)
           one == Puts(t, p, NoInput, Valued(t, p, a))
           out == Puts(t, p, one, Valued(t, p, b))
<1>1. /\ Len(argv) = 4 /\ DOMAIN argv = 1 .. 4 /\ argv[1] = [flag |-> f] /\ argv[2] = [word |-> a]
      /\ argv[3] = [flag |-> f] /\ argv[4] = [word |-> b]
  BY DEF Given
<1> HIDE DEF argv, r
<1>2. r[0] = ReadTo(1, NoInput) /\ NativeFrom(t, argv) = r[4].reading
  <2>1. Len(argv) \in Nat
    BY <1>1
  <2>2. r[0] = Begun /\ NativeFrom(t, argv) = r[Len(argv)].reading
    BY <2>1, NativeUnfolds DEF r
  <2> QED
    BY <1>1, <2>2, BegunIs
<1>3. Len(argv) \in Nat /\ DOMAIN argv = 1 .. Len(argv) /\ HasFlag(argv, 1, f) /\ HasFlag(argv, 3, f)
  BY <1>1 DEF HasFlag
<1> HIDE DEF one
<1>4. r[2] = ReadTo(3, one)
  <2>1. 0 \in Nat /\ 1 = 0 + 1 /\ 2 = 0 + 2 /\ 3 = 0 + 3 /\ 2 <= Len(argv) /\ ArgvRead("native", t, argv)[0] = ReadTo(1, NoInput)
    BY <1>1, <1>2 DEF r
  <2> QED
    BY <1>1, <1>3, <2>1, PairRead DEF r, one
<1>5. r[4] = ReadTo(5, out)
  <2>1. 2 \in Nat /\ 3 = 2 + 1 /\ 4 = 2 + 2 /\ 5 = 2 + 3 /\ 4 <= Len(argv) /\ ArgvRead("native", t, argv)[2] = ReadTo(3, one)
    BY <1>1, <1>4 DEF r
  <2> QED
    BY <1>1, <1>3, <2>1, PairRead DEF r
<1> HIDE DEF out
<1>6. NativeFrom(t, argv) = [input |-> out]
  BY <1>2, <1>5, ReadToIs
<1>7. ~AsksJson(argv)
  BY <1>1, NoJson
<1> QED
  BY <1>6, <1>7, Parsed DEF argv, out, one

\* What is put into no input, and into what holds a list of p already.
Only(p, v) == [q \in {p} |-> v]

LEMMA PutsOne ==
    ASSUME NEW t, NEW p, NEW v, t.type[p] # "array"
    PROVE  Puts(t, p, NoInput, v) = Only(p, v)
<1>1. DOMAIN NoInput \cup {p} = {p}
  BY DEF NoInput
<1>2. Puts(t, p, NoInput, v) = [q \in DOMAIN NoInput \cup {p} |-> IF q = p THEN v ELSE NoInput[q]]
  BY DEF Puts, InsertValue
<1> QED
  BY <1>1, <1>2 DEF Only

LEMMA PutsFirst ==
    ASSUME NEW t, NEW p, NEW v, t.type[p] = "array", NEW S, Candidates(v) \in Seq(S)
    PROVE  Puts(t, p, NoInput, v) = Only(p, List(Candidates(v)))
<1> DEFINE c == Candidates(v)
<1>1. DOMAIN NoInput \cup {p} = {p} /\ p \notin DOMAIN NoInput
  BY DEF NoInput
<1>2. <<>> \o c = c
  OBVIOUS
<1> HIDE DEF c
<1>3. Puts(t, p, NoInput, v) = [q \in DOMAIN NoInput \cup {p} |-> IF q = p THEN List(<<>> \o c) ELSE NoInput[q]]
  BY <1>1 DEF Puts, InsertValue, c
<1> QED
  BY <1>1, <1>2, <1>3 DEF c, Only

LEMMA PutsNext ==
    ASSUME NEW t, NEW p, NEW s, NEW v, t.type[p] = "array"
    PROVE  Puts(t, p, Only(p, List(s)), v) = Only(p, List(s \o Candidates(v)))
<1> DEFINE out == Only(p, List(s))
           new == List(s \o Candidates(v))
<1>1. DOMAIN out = {p} /\ p \in DOMAIN out /\ DOMAIN out \cup {p} = {p} /\ out[p] = List(s) /\ List(s).list = s
  BY ListItems DEF Only
<1> HIDE DEF out
<1>2. Puts(t, p, out, v) = [q \in DOMAIN out \cup {p} |-> IF q = p THEN new ELSE out[q]]
  BY <1>1 DEF Puts, InsertValue
<1> HIDE DEF new
<1>3. Puts(t, p, out, v) = Only(p, new)
  BY <1>1, <1>2 DEF Only
<1> QED
  BY <1>3 DEF out, new

LEMMA TwoItems ==
    ASSUME NEW a, NEW b
    PROVE  <<a>> \o <<b>> = <<a, b>>
<1> DEFINE x == <<a>>
           y == <<b>>
           z == <<a, b>>
           c == x \o y
<1>1. /\ x \in Seq({a, b}) /\ y \in Seq({a, b}) /\ z \in Seq({a, b}) /\ Len(x) = 1 /\ Len(y) = 1 /\ Len(z) = 2
      /\ x[1] = a /\ y[1] = b /\ z[1] = a /\ z[2] = b
  OBVIOUS
<1> HIDE DEF x, y, z
<1>2. IsJoined({a, b}, x, y, c)
  BY <1>1, Joined
<1> HIDE DEF c
<1>3. c \in Seq({a, b}) /\ Len(c) = 2 /\ c[1] = a /\ c[2] = b
  BY <1>1, <1>2 DEF IsJoined
<1>4. c = z
  <2>1. \A i \in 1 .. Len(c) : i = 1 \/ i = 2
    BY <1>3
  <2> QED
    BY <1>1, <1>3, <2>1, SameSeq
<1> QED
  BY <1>4 DEF c, x, y, z

\* What the types tell.
LEMMA DetailsTell ==
    ASSUME NEW type, NEW items, NEW enum, NEW d, d = TypeDetails(type, items, enum)
    PROVE  /\ d.ty = "boolean" => type = "boolean" /\ enum = {}
           /\ d.hint \in {"array", "repeat or array"} => type = "array" /\ enum = {}
           /\ d.hint = "object" => type = "object" /\ enum = {}
<1>1. CASE enum # {}
  <2> DEFINE ty == "enum"
             hint == "none"
  <2>1. d = [ty |-> ty, complex |-> FALSE, hint |-> hint]
    BY <1>1, Zenon DEF TypeDetails
  <2> HIDE DEF ty, hint
  <2>2. d.ty = ty /\ d.hint = hint
    BY <2>1
  <2> QED
    BY <2>2, Zenon DEF ty, hint
<1>2. CASE enum = {} /\ type = "oneOf"
  <2> DEFINE ty == "json"
             hint == "whole input"
  <2>1. d = [ty |-> ty, complex |-> TRUE, hint |-> hint]
    BY <1>2, Zenon DEF TypeDetails
  <2> HIDE DEF ty, hint
  <2>2. d.ty = ty /\ d.hint = hint
    BY <2>1
  <2> QED
    BY <2>2, Zenon DEF ty, hint
<1>3. CASE enum = {} /\ type = "object"
  <2> DEFINE ty == "json object"
             hint == "object"
  <2>1. d = [ty |-> ty, complex |-> TRUE, hint |-> hint]
    BY <1>3, Zenon DEF TypeDetails
  <2> HIDE DEF ty, hint
  <2>2. d.ty = ty /\ d.hint = hint
    BY <2>1
  <2> QED
    BY <1>3, <2>2, Zenon DEF ty, hint
<1>4. CASE enum = {} /\ type = "array" /\ items \in {"object", "array", "oneOf", "untold"}
  <2> DEFINE ty == "json array"
             hint == "array"
  <2>1. d = [ty |-> ty, complex |-> TRUE, hint |-> hint]
    BY <1>4, Zenon DEF TypeDetails
  <2> HIDE DEF ty, hint
  <2>2. d.ty = ty /\ d.hint = hint
    BY <2>1
  <2> QED
    BY <1>4, <2>2, Zenon DEF ty, hint
<1>5. CASE enum = {} /\ type = "array" /\ items \notin {"object", "array", "oneOf", "untold"}
  <2> DEFINE ty == "list"
             hint == "repeat or array"
  <2>1. d = [ty |-> ty, complex |-> FALSE, hint |-> hint]
    BY <1>5, Zenon DEF TypeDetails
  <2> HIDE DEF ty, hint
  <2>2. d.ty = ty /\ d.hint = hint
    BY <2>1
  <2> QED
    BY <1>5, <2>2, Zenon DEF ty, hint
<1>6. CASE enum = {} /\ type \notin {"oneOf", "object", "array"}
  <2> DEFINE ty == type
             hint == "none"
  <2>1. d = [ty |-> ty, complex |-> FALSE, hint |-> hint]
    BY <1>6, Zenon DEF TypeDetails
  <2> HIDE DEF ty, hint
  <2>2. d.ty = ty /\ d.hint = hint
    BY <2>1
  <2> QED
    BY <1>6, <2>2, Zenon DEF ty, hint
<1> QED
  BY <1>1, <1>2, <1>3, <1>4, <1>5, <1>6, Zenon

\* A word that is read as a value of any kind, of a property that is not limited.
LEMMA FreelyTaken ==
    ASSUME NEW t, NEW p, t.enum[p] = {}, NEW w, ~Failed(Valued(t, p, w))
    PROVE  Takes(t, p, Valued(t, p, w))
BY DEF Takes, NativeAllows

\* What the lines of the help give.
LEMMA BareHolds ==
    ASSUME NEW t, IsTool(t), t.required = {}, NEW p \in ToSet(t.params), HasOwnFlag(t.params, p),
           t.type[p] = "boolean", t.enum[p] = {}
    PROVE  /\ ParseArgv(t, <<[flag |-> OptionFlag(p)]>>) = [input |-> Only(p, V("bool", "true"))]
           /\ ParseArgv(t, <<[flag |-> No \o OptionFlag(p)]>>) = [input |-> Only(p, V("bool", "false"))]
<1>1. IsFlagOf(t, p, OptionFlag(p)) /\ Negates(OptionFlag(p)) = FALSE
  BY OwnFlagIs
<1>2. IsFlagOf(t, p, No \o OptionFlag(p)) /\ Negates(No \o OptionFlag(p)) = TRUE
  BY NegationIs
<1>3. \A no \in BOOLEAN : Takes(t, p, Unvalued(no))
  BY OneValue DEF Takes, Unvalued
<1>4. Unvalued(FALSE) = V("bool", "true") /\ Unvalued(TRUE) = V("bool", "false")
  BY DEF Unvalued
<1>5. FALSE \in BOOLEAN /\ TRUE \in BOOLEAN
  OBVIOUS
<1>6. t.type[p] # "array"
  OBVIOUS
<1>7. ParseArgv(t, <<[flag |-> OptionFlag(p)]>>) = [input |-> Puts(t, p, NoInput, Unvalued(FALSE))]
  BY <1>1, <1>3, <1>5, OneFlag
<1>8. ParseArgv(t, <<[flag |-> No \o OptionFlag(p)]>>) = [input |-> Puts(t, p, NoInput, Unvalued(TRUE))]
  BY <1>2, <1>3, <1>5, OneFlag
<1> QED
  BY <1>4, <1>6, <1>7, <1>8, PutsOne

LEMMA ObjectHolds ==
    ASSUME NEW t, IsTool(t), t.required = {}, NEW p \in ToSet(t.params), HasOwnFlag(t.params, p),
           t.type[p] = "object", t.enum[p] = {}
    PROVE  ParseArgv(t, Given(OptionFlag(p), "object")) = [input |-> Only(p, Json["object"])]
<1>1. IsFlagOf(t, p, OptionFlag(p)) /\ Negates(OptionFlag(p)) = FALSE
  BY OwnFlagIs
<1> DEFINE w == "object"
<1>2. Valued(t, p, w) = Json[w]
  <2>1. Valued(t, p, w) = NativeScalar("object", w)
    BY DEF Valued, NativeCoerce
  <2>2. w \in DOMAIN Json
    BY JsonWords
  <2> QED
    BY <2>1, <2>2, ScalarReads
<1>3. Takes(t, p, Valued(t, p, w))
  <2> DEFINE ob == V("object", "{}")
  <2>1. Json[w] = ob
    BY JsonWords, Zenon
  <2>2. ~Failed(ob)
    BY OneValue, Zenon
  <2> HIDE DEF ob
  <2> QED
    BY <1>2, <2>1, <2>2, FreelyTaken, Zenon
<1>4. t.type[p] # "array"
  OBVIOUS
<1>5. ParseArgv(t, Given(OptionFlag(p), w)) = [input |-> Puts(t, p, NoInput, Valued(t, p, w))]
  BY <1>1, <1>3, OnePair
<1> QED
  BY <1>2, <1>4, <1>5, PutsOne

LEMMA ArrayHolds ==
    ASSUME NEW t, IsTool(t), t.required = {}, NEW p \in ToSet(t.params), HasOwnFlag(t.params, p),
           t.type[p] = "array", t.enum[p] = {}
    PROVE  /\ ParseArgv(t, Given(OptionFlag(p), "list")) = [input |-> Only(p, Json["list"])]
           /\ t.items = "string" =>
                ParseArgv(t, Given(OptionFlag(p), "five") \o Given(OptionFlag(p), "plain")) =
                  [input |-> Only(p, Json["list"])]
<1> DEFINE f == OptionFlag(p)
           a == V("num", "5")
           b == Text("plain")
           s == <<a, b>>
<1>1. IsFlagOf(t, p, f) /\ ~Negates(f)
  BY OwnFlagIs
<1>2. Json["list"] = List(s)
  BY JsonWords
<1> HIDE DEF f
<1>3. ParseArgv(t, Given(f, "list")) = [input |-> Only(p, Json["list"])]
  <2>1. Valued(t, p, "list") = List(s)
    BY <1>2 DEF Valued, NativeCoerce
  <2>2. Takes(t, p, Valued(t, p, "list"))
    BY <2>1, ListIs, FreelyTaken
  <2>3. s \in Seq({a, b})
    OBVIOUS
  <2> HIDE DEF s
  <2>4. Candidates(List(s)) = s
    BY ListItems
  <2>5. Puts(t, p, NoInput, List(s)) = Only(p, List(Candidates(List(s))))
    BY <2>3, <2>4, PutsFirst
  <2>6. ParseArgv(t, Given(f, "list")) = [input |-> Puts(t, p, NoInput, Valued(t, p, "list"))]
    BY <1>1, <2>2, OnePair
  <2> QED
    BY <1>2, <2>1, <2>4, <2>5, <2>6
<1>4. ASSUME t.items = "string"
      PROVE  ParseArgv(t, Given(f, "five") \o Given(f, "plain")) = [input |-> Only(p, Json["list"])]
  <2>1. Valued(t, p, "five") = a /\ Valued(t, p, "plain") = b
    <3>1. Valued(t, p, "five") = NativeScalar("string", "five") /\ Valued(t, p, "plain") = NativeScalar("string", "plain")
      BY <1>4 DEF Valued, NativeCoerce
    <3>2. "five" \in DOMAIN Json /\ Json["five"] = a /\ "plain" \notin DOMAIN Json
      BY JsonWords
    <3> HIDE DEF a, b
    <3>3. NativeScalar("string", "five") = Json["five"] /\ NativeScalar("string", "plain") = Text("plain")
      BY <3>2, ScalarReads
    <3> QED
      BY <3>1, <3>2, <3>3 DEF b
  <2>2. ~Failed(a) /\ ~Failed(b) /\ Candidates(a) = <<a>> /\ Candidates(b) = <<b>>
    BY OneValue DEF Text
  <2> HIDE DEF a, b
  <2>3. Takes(t, p, Valued(t, p, "five")) /\ Takes(t, p, Valued(t, p, "plain"))
    BY <2>1, <2>2, FreelyTaken
  <2>4. Puts(t, p, NoInput, a) = Only(p, List(<<a>>))
    <3>1. Candidates(a) \in Seq({a})
      BY <2>2
    <3> QED
      BY <2>2, <3>1, PutsFirst
  <2>5. Puts(t, p, Only(p, List(<<a>>)), b) = Only(p, List(<<a>> \o <<b>>))
    BY <2>2, PutsNext
  <2>6. <<a>> \o <<b>> = s
    BY TwoItems
  <2>7. ParseArgv(t, Given(f, "five") \o Given(f, "plain")) =
          [input |-> Puts(t, p, Puts(t, p, NoInput, Valued(t, p, "five")), Valued(t, p, "plain"))]
    BY <1>1, <2>3, TwoPairs
  <2> QED
    BY <1>2, <2>1, <2>4, <2>5, <2>6, <2>7
<1> QED
  BY <1>3, <1>4 DEF f

\* The tool alone, whatever it requires.
LEMMA AloneIs ==
    ASSUME NEW tool, IsTool(tool), NEW t, t = [tool EXCEPT !.required = {}]
    PROVE  /\ t.params = tool.params /\ t.type = tool.type /\ t.items = tool.items /\ t.enum = tool.enum
           /\ t.required = {} /\ IsTool(t)
<1> DEFINE a == tool.params
           b == tool.type
           c == tool.items
           d == tool.enum
<1>1. tool = [params |-> a, type |-> b, items |-> c, enum |-> d, required |-> tool.required]
  BY DEF IsTool
<1>2. a \in Seq(Texts) /\ c \in STRING /\ b \in [ToSet(a) -> STRING] /\ d \in [ToSet(a) -> SUBSET STRING]
  BY DEF IsTool
<1> HIDE DEF a, b, c, d
<1>3. t = [params |-> a, type |-> b, items |-> c, enum |-> d, required |-> {}]
  BY <1>1
<1>4. t.params = a /\ t.type = b /\ t.items = c /\ t.enum = d /\ t.required = {}
  BY <1>3
<1>5. IsTool(t)
  <2>1. t = [params |-> t.params, type |-> t.type, items |-> t.items, enum |-> t.enum, required |-> t.required]
    BY <1>3, <1>4
  <2>2. {} \subseteq ToSet(a)
    OBVIOUS
  <2> QED
    BY <1>2, <1>4, <2>1, <2>2 DEF IsTool
<1> QED
  BY <1>4, <1>5 DEF a, b, c, d

LEMMA ToldIs ==
    ASSUME NEW tool, NEW p, NEW o, o = Told(tool, p),
           NEW d, d = TypeDetails(tool.type[p], tool.items, tool.enum[p])
    PROVE  /\ o.flag = OptionFlag(p) /\ o.ty = d.ty /\ o.hint = d.hint /\ o.allowed = tool.enum[p]
           /\ o.required = (p \in tool.required) /\ (o.negation => d.ty = "boolean")
BY DEF Told

\* The lines of the help, one kind after the other.
LEMMA LinesAre ==
    ASSUME NEW tool, NEW o, NEW line, line \in BareLines(o) \cup JsonLines(o) \cup RepeatedLines(tool, o)
    PROVE  \/ o.negation /\ line = <<<<[flag |-> o.flag]>>, V("bool", "true")>>
           \/ o.negation /\ line = <<<<[flag |-> No \o o.flag]>>, V("bool", "false")>>
           \/ o.hint \in {"array", "repeat or array"} /\ line = <<Given(o.flag, "list"), Json["list"]>>
           \/ o.hint = "object" /\ line = <<Given(o.flag, "object"), Json["object"]>>
           \/ /\ o.hint \in {"array", "repeat or array"} /\ tool.items = "string"
              /\ line = <<Given(o.flag, "five") \o Given(o.flag, "plain"), Json["list"]>>
<1>1. CASE line \in BareLines(o)
  BY <1>1, Zenon DEF BareLines
<1>2. CASE line \in JsonLines(o)
  BY <1>2, Zenon DEF JsonLines
<1>3. CASE line \in RepeatedLines(tool, o)
  BY <1>3, Zenon DEF RepeatedLines
<1> QED
  BY <1>1, <1>2, <1>3, Zenon

LEMMA OptionIs ==
    ASSUME NEW tool, IsTool(tool), NEW p \in ToSet(tool.params), HasOwnFlag(tool.params, p),
           \A l \in tool.enum[p] : Possible(tool, p, l)
    PROVE  OptionHolds(tool, Told(tool, p), p)
<1> DEFINE t == [tool EXCEPT !.required = {}]
           o == Told(tool, p)
           f == OptionFlag(p)
           d == TypeDetails(tool.type[p], tool.items, tool.enum[p])
<1>1. /\ t.params = tool.params /\ t.type = tool.type /\ t.items = tool.items /\ t.enum = tool.enum
      /\ t.required = {} /\ IsTool(t)
  BY AloneIs
<1>2. o.flag = f /\ o.hint = d.hint /\ o.allowed = tool.enum[p] /\ (o.negation => d.ty = "boolean")
  BY ToldIs
<1>3. /\ d.ty = "boolean" => tool.type[p] = "boolean" /\ tool.enum[p] = {}
      /\ d.hint \in {"array", "repeat or array"} => tool.type[p] = "array" /\ tool.enum[p] = {}
      /\ d.hint = "object" => tool.type[p] = "object" /\ tool.enum[p] = {}
  <2> DEFINE type == tool.type[p]
             items == tool.items
             enum == tool.enum[p]
             e == d
  <2>1. e = TypeDetails(type, items, enum)
    OBVIOUS
  <2> HIDE DEF type, items, enum, e
  <2>2. /\ e.ty = "boolean" => type = "boolean" /\ enum = {}
        /\ e.hint \in {"array", "repeat or array"} => type = "array" /\ enum = {}
        /\ e.hint = "object" => type = "object" /\ enum = {}
    BY <2>1, DetailsTell, Zenon
  <2> QED
    BY <2>2, Zenon DEF type, items, enum, e
<1>4. p \in ToSet(t.params) /\ HasOwnFlag(t.params, p)
  BY <1>1
<1>5. \A argv : ReadAlone(tool, argv) = ParseArgv(t, argv)
  BY DEF ReadAlone
<1> HIDE DEF t, o, d
<1>6. ASSUME NEW l \in o.allowed PROVE ~Failed(ReadAlone(tool, Given(o.flag, WordOf(l))))
  <2>1. l \in t.enum[p] /\ Possible(t, p, l)
    BY <1>1, <1>2, <1>6 DEF Possible
  <2>2. Takes(t, p, Valued(t, p, WordOf(l)))
    BY <2>1, LabelTaken
  <2>3. IsFlagOf(t, p, f) /\ ~Negates(f)
    BY <1>1, <1>4, OwnFlagIs
  <2> HIDE DEF f
  <2>4. ParseArgv(t, Given(f, WordOf(l))) = [input |-> Puts(t, p, NoInput, Valued(t, p, WordOf(l)))]
    BY <1>1, <2>2, <2>3, OnePair
  <2>5. \A x : ~Failed([input |-> x])
    BY DEF Failed
  <2> QED
    BY <1>2, <1>5, <2>4, <2>5
<1>7. ASSUME NEW line \in BareLines(o) \cup JsonLines(o) \cup RepeatedLines(tool, o)
      PROVE  ReadAlone(tool, line[1]) = [input |-> [q \in {p} |-> line[2]]]
  <2> DEFINE holds(argv, v) == ReadAlone(tool, argv) = [input |-> Only(p, v)]
  <2>1. (t.type[p] = "boolean" /\ t.enum[p] = {}) =>
          holds(<<[flag |-> f]>>, V("bool", "true")) /\ holds(<<[flag |-> No \o f]>>, V("bool", "false"))
    BY <1>1, <1>4, <1>5, BareHolds
  <2>2. (t.type[p] = "object" /\ t.enum[p] = {}) => holds(Given(f, "object"), Json["object"])
    BY <1>1, <1>4, <1>5, ObjectHolds
  <2>3. (t.type[p] = "array" /\ t.enum[p] = {}) =>
          /\ holds(Given(f, "list"), Json["list"])
          /\ t.items = "string" => holds(Given(f, "five") \o Given(f, "plain"), Json["list"])
    BY <1>1, <1>4, <1>5, ArrayHolds
  <2> HIDE DEF holds, f
  <2>4. \E argv, v : line = <<argv, v>> /\ holds(argv, v)
    BY <1>1, <1>2, <1>3, <2>1, <2>2, <2>3, LinesAre, Zenon
  <2>5. PICK argv, v : line = <<argv, v>> /\ holds(argv, v)
    BY <2>4
  <2>6. line[1] = argv /\ line[2] = v
    BY <2>5
  <2> QED
    BY <2>5, <2>6, Zenon DEF holds, Only
<1> QED
  BY <1>2, <1>6, <1>7 DEF OptionHolds, o

\* Those of T are a part of the sequence, and none of them is left out.
LEMMA ThoseSoFar ==
    ASSUME NEW S, NEW s \in Seq(S), NEW T
    PROVE  \A n \in 0 .. Len(s) : ThoseOf(s, T)[n] \in Seq(S)
<1> DEFINE f == ThoseOf(s, T)
           N == Len(s)
           I == {n \in 0 .. N : f[n] \in Seq(S)}
<1>1. N \in Nat /\ \A i \in 1 .. N : s[i] \in S
  OBVIOUS
<1>2. f[0] = <<>> /\ \A i \in 1 .. N : f[i] = IF s[i] \in T THEN Append(f[i - 1], s[i]) ELSE f[i - 1]
  BY ThoseUnfolds
<1> HIDE DEF f, N
<1>3. 0 \in I
  <2>1. <<>> \in Seq(S) /\ 0 \in 0 .. N
    BY <1>1
  <2> QED
    BY <1>2, <2>1
<1>4. ASSUME NEW n \in 0 .. N, n \in I, n < N PROVE n + 1 \in I
  <2>1. n + 1 \in 1 .. N /\ n + 1 \in 0 .. N /\ (n + 1) - 1 = n
    BY <1>1, <1>4
  <2>2. f[n + 1] = IF s[n + 1] \in T THEN Append(f[n], s[n + 1]) ELSE f[n]
    BY <1>2, <2>1
  <2>3. f[n] \in Seq(S) /\ s[n + 1] \in S
    BY <1>1, <1>4, <2>1
  <2>4. f[n + 1] \in Seq(S)
    BY <2>2, <2>3
  <2> QED
    BY <2>1, <2>4
<1>5. \A n \in 0 .. N : n \in I
  <2> HIDE DEF I
  <2> QED
    BY <1>1, <1>3, <1>4, Induction
<1> QED
  BY <1>5 DEF f, N

LEMMA ThoseAll ==
    ASSUME NEW S, NEW s \in Seq(S), NEW T, NEW x \in ToSet(s), x \in T
    PROVE  \E k \in 1 .. Len(Those(s, T)) : Those(s, T)[k] = x
<1> DEFINE f == ThoseOf(s, T)
           N == Len(s)
           I == {n \in 0 .. N : (\E i \in 1 .. n : s[i] = x) => \E k \in 1 .. Len(f[n]) : f[n][k] = x}
<1>1. N \in Nat /\ (\A i \in 1 .. N : s[i] \in S) /\ \E i \in 1 .. N : s[i] = x
  BY DEF ToSet
<1>2. /\ \A i \in 1 .. N : f[i] = IF s[i] \in T THEN Append(f[i - 1], s[i]) ELSE f[i - 1]
      /\ Those(s, T) = f[N]
  BY ThoseUnfolds
<1>3. \A n \in 0 .. N : f[n] \in Seq(S)
  BY ThoseSoFar
<1> HIDE DEF f, N
<1>4. 0 \in I
  BY <1>1
<1>5. ASSUME NEW n \in 0 .. N, n \in I, n < N PROVE n + 1 \in I
  <2>1. n + 1 \in 1 .. N /\ n + 1 \in 0 .. N /\ (n + 1) - 1 = n
    BY <1>1, <1>5
  <2> DEFINE a == f[n]
             b == f[n + 1]
             y == s[n + 1]
  <2>2. b = IF y \in T THEN Append(a, y) ELSE a
    BY <1>2, <2>1
  <2>3. a \in Seq(S) /\ y \in S
    BY <1>1, <1>3, <2>1
  <2>4. (\E i \in 1 .. n : s[i] = x) => \E k \in 1 .. Len(a) : a[k] = x
    BY <1>5
  <2>5. (\E i \in 1 .. (n + 1) : s[i] = x) => y = x \/ \E i \in 1 .. n : s[i] = x
    <3>1. \A i \in 1 .. (n + 1) : i = n + 1 \/ i \in 1 .. n
      BY <2>1
    <3> QED
      BY <3>1
  <2> HIDE DEF a, b, y
  <2>6. CASE y = x
    <3>1. b = Append(a, x) /\ Len(b) = Len(a) + 1 /\ Len(b) \in Nat /\ b[Len(b)] = x
      BY <2>2, <2>3, <2>6
    <3>2. Len(b) \in 1 .. Len(b)
      BY <2>3, <3>1
    <3>3. \E k \in 1 .. Len(b) : b[k] = x
      BY <3>1, <3>2
    <3> QED
      BY <2>1, <3>3 DEF b
  <2>7. CASE (\E i \in 1 .. n : s[i] = x)
    <3>1. PICK k \in 1 .. Len(a) : a[k] = x
      BY <2>4, <2>7
    <3>2. k \in 1 .. Len(b) /\ b[k] = x
      BY <2>2, <2>3, <3>1
    <3> QED
      BY <2>1, <3>2 DEF b
  <2> QED
    BY <2>1, <2>5, <2>6, <2>7
<1>6. \A n \in 0 .. N : n \in I
  <2> HIDE DEF I
  <2> QED
    BY <1>1, <1>4, <1>5, Induction
<1> QED
  <2>1. N \in 0 .. N
    BY <1>1
  <2> QED
    BY <1>1, <1>2, <1>6, <2>1

\* s is the parts of X, of Y and of Z.
InOne(x, X, Y, Z) ==
    /\ x \in X \/ x \in Y \/ x \in Z
    /\ ~(x \in X /\ x \in Y) /\ ~(x \in X /\ x \in Z) /\ ~(x \in Y /\ x \in Z)

LEMMA PartsAdd ==
    ASSUME NEW S, NEW s \in Seq(S), NEW X, NEW Y, NEW Z, \A i \in 1 .. Len(s) : InOne(s[i], X, Y, Z)
    PROVE  Len(s) = Len(Those(s, X)) + Len(Those(s, Y)) + Len(Those(s, Z))
<1> DEFINE a == ThoseOf(s, X)
           b == ThoseOf(s, Y)
           c == ThoseOf(s, Z)
           N == Len(s)
           I == {n \in 0 .. N : Len(a[n]) + Len(b[n]) + Len(c[n]) = n}
<1>1. N \in Nat /\ \A i \in 1 .. N : s[i] \in S
  OBVIOUS
<1>2. /\ a[0] = <<>> /\ Those(s, X) = a[N]
      /\ \A i \in 1 .. N : a[i] = IF s[i] \in X THEN Append(a[i - 1], s[i]) ELSE a[i - 1]
  BY ThoseUnfolds
<1>3. /\ b[0] = <<>> /\ Those(s, Y) = b[N]
      /\ \A i \in 1 .. N : b[i] = IF s[i] \in Y THEN Append(b[i - 1], s[i]) ELSE b[i - 1]
  BY ThoseUnfolds
<1>4. /\ c[0] = <<>> /\ Those(s, Z) = c[N]
      /\ \A i \in 1 .. N : c[i] = IF s[i] \in Z THEN Append(c[i - 1], s[i]) ELSE c[i - 1]
  BY ThoseUnfolds
<1>5. \A n \in 0 .. N : a[n] \in Seq(S) /\ b[n] \in Seq(S) /\ c[n] \in Seq(S)
  BY ThoseSoFar
<1> HIDE DEF a, b, c, N
<1>6. 0 \in I
  <2>1. Len(a[0]) = 0 /\ Len(b[0]) = 0 /\ Len(c[0]) = 0
    BY <1>2, <1>3, <1>4
  <2>2. Len(a[0]) + Len(b[0]) + Len(c[0]) = 0 /\ 0 \in 0 .. N
    BY <1>1, <2>1
  <2> QED
    BY <2>2
<1>7. ASSUME NEW n \in 0 .. N, n \in I, n < N PROVE n + 1 \in I
  <2> DEFINE m == n + 1
             x == s[m]
             p == a[n]
             q == b[n]
             r == c[n]
  <2>1. m \in 1 .. N /\ m \in 0 .. N /\ m - 1 = n
    BY <1>1, <1>7
  <2>2. /\ a[m] = IF x \in X THEN Append(p, x) ELSE p
        /\ b[m] = IF x \in Y THEN Append(q, x) ELSE q
        /\ c[m] = IF x \in Z THEN Append(r, x) ELSE r
    BY <1>2, <1>3, <1>4, <2>1
  <2>3. p \in Seq(S) /\ q \in Seq(S) /\ r \in Seq(S) /\ x \in S
    BY <1>1, <1>5, <2>1
  <2>4. Len(p) + Len(q) + Len(r) = n
    BY <1>7
  <2>5. InOne(x, X, Y, Z)
    BY <2>1 DEF N
  <2> HIDE DEF x, p, q, r
  <2>6. /\ Len(Append(p, x)) = Len(p) + 1 /\ Len(Append(q, x)) = Len(q) + 1 /\ Len(Append(r, x)) = Len(r) + 1
        /\ Len(p) \in Nat /\ Len(q) \in Nat /\ Len(r) \in Nat
    BY <2>3
  <2>7. Len(a[m]) + Len(b[m]) + Len(c[m]) = n + 1
    <3> DEFINE u == Len(p)
               v == Len(q)
               w == Len(r)
               h == Len(a[m])
               j == Len(b[m])
               k == Len(c[m])
    <3>1. u \in Nat /\ v \in Nat /\ w \in Nat /\ u + v + w = n /\ n \in Nat
      BY <1>1, <2>4, <2>6
    <3>2. \/ h = u + 1 /\ j = v /\ k = w
          \/ h = u /\ j = v + 1 /\ k = w
          \/ h = u /\ j = v /\ k = w + 1
      BY <2>2, <2>5, <2>6 DEF InOne
    <3> HIDE DEF u, v, w, h, j, k
    <3>3. h + j + k = n + 1
      BY <3>1, <3>2
    <3> QED
      BY <3>3 DEF h, j, k
  <2> QED
    BY <2>1, <2>7
<1>8. \A n \in 0 .. N : n \in I
  <2> HIDE DEF I
  <2> QED
    BY <1>1, <1>6, <1>7, Induction
<1>9. Len(s) = Len(Those(s, X)) + Len(Those(s, Y)) + Len(Those(s, Z))
  <2>1. N \in 0 .. N /\ N = Len(s)
    BY <1>1 DEF N
  <2>2. Len(a[N]) + Len(b[N]) + Len(c[N]) = N
    BY <1>8, <2>1
  <2>3. Those(s, X) = a[N] /\ Those(s, Y) = b[N] /\ Those(s, Z) = c[N]
    BY <1>2, <1>3, <1>4
  <2> QED
    BY <2>1, <2>2, <2>3, Zenon
<1> QED
  BY <1>9, Zenon

\* The options that are listed are those of the properties, each in its section.
OfSection(t, section) == {p \in ToSet(t.params) : SectionOf(t, p) = section}
AllTold(t, s)   == [i \in DOMAIN s |-> Told(t, s[i])]
Options(t)      == {Told(t, p) : p \in ToSet(t.params)}
ListedIn(t, section) == AllTold(t, Those(t.params, OfSection(t, section)))

LEMMA ListedJoins ==
    ASSUME NEW t
    PROVE  Listed(t) = ListedIn(t, "REQUIRED") \o ListedIn(t, "OPTIONAL") \o ListedIn(t, "COMPLEX")
BY DEF Listed, MapSeq, ListedIn, AllTold, OfSection

LEMMA InASection ==
    ASSUME NEW t, NEW p \in ToSet(t.params)
    PROVE  InOne(p, OfSection(t, "REQUIRED"), OfSection(t, "OPTIONAL"), OfSection(t, "COMPLEX"))
<1>1. SectionOf(t, p) \in {"REQUIRED", "OPTIONAL", "COMPLEX"}
  BY Zenon DEF SectionOf
<1>2. \A section : p \in OfSection(t, section) <=> SectionOf(t, p) = section
  BY DEF OfSection
<1> QED
  BY <1>1, <1>2 DEF InOne

LEMMA ListedPart ==
    ASSUME NEW t, IsTool(t), NEW section, NEW l, l = ListedIn(t, section)
    PROVE  /\ l \in Seq(Options(t)) /\ Len(l) = Len(Those(t.params, OfSection(t, section)))
           /\ \A p \in OfSection(t, section) : \E i \in 1 .. Len(l) : l[i] = Told(t, p)
<1> DEFINE P == t.params
           T == OfSection(t, section)
           s == Those(P, T)
<1>1. P \in Seq(ToSet(P))
  BY OfItsElements DEF IsTool
<1>2. s \in Seq(ToSet(P) \cap T)
  BY <1>1, ThoseAre
<1>3. s \in Seq(ToSet(P))
  BY <1>2
<1>4. \A p \in T : p \in ToSet(P)
  BY DEF OfSection
<1>5. \A p \in T : \E i \in 1 .. Len(s) : s[i] = p
  BY <1>1, <1>4, ThoseAll
<1>6. l = [i \in DOMAIN s |-> Told(t, s[i])]
  BY DEF ListedIn, AllTold
<1> HIDE DEF s, T
<1>7. DOMAIN s = 1 .. Len(s) /\ Len(s) \in Nat /\ \A i \in 1 .. Len(s) : s[i] \in ToSet(P)
  BY <1>3
<1>8. \A i \in 1 .. Len(s) : Told(t, s[i]) \in Options(t)
  BY <1>7 DEF Options
<1>9. l \in Seq(Options(t)) /\ Len(l) = Len(s) /\ \A i \in 1 .. Len(s) : l[i] = Told(t, s[i])
  <2>1. l \in [1 .. Len(s) -> Options(t)]
    BY <1>6, <1>7, <1>8
  <2> QED
    BY <1>6, <1>7, <2>1
<1> QED
  BY <1>5, <1>9 DEF s, T

LEMMA ListedAre ==
    ASSUME NEW t, IsTool(t)
    PROVE  /\ Listed(t) \in Seq(Options(t)) /\ Len(Listed(t)) = Len(t.params)
           /\ \A p \in ToSet(t.params) : \E i \in 1 .. Len(Listed(t)) : Listed(t)[i] = Told(t, p)
<1> DEFINE P == t.params
           Opts == Options(t)
           X == OfSection(t, "REQUIRED")
           Y == OfSection(t, "OPTIONAL")
           Z == OfSection(t, "COMPLEX")
           x == ListedIn(t, "REQUIRED")
           y == ListedIn(t, "OPTIONAL")
           z == ListedIn(t, "COMPLEX")
           xy == x \o y
           l == xy \o z
<1>1. Listed(t) = l
  BY ListedJoins
<1>2. /\ x \in Seq(Opts) /\ Len(x) = Len(Those(P, X)) /\ \A p \in X : \E i \in 1 .. Len(x) : x[i] = Told(t, p)
  BY ListedPart
<1>3. /\ y \in Seq(Opts) /\ Len(y) = Len(Those(P, Y)) /\ \A p \in Y : \E i \in 1 .. Len(y) : y[i] = Told(t, p)
  BY ListedPart
<1>4. /\ z \in Seq(Opts) /\ Len(z) = Len(Those(P, Z)) /\ \A p \in Z : \E i \in 1 .. Len(z) : z[i] = Told(t, p)
  BY ListedPart
<1>5. \A p \in ToSet(P) : InOne(p, X, Y, Z)
  BY InASection
<1>6. P \in Seq(ToSet(P))
  BY OfItsElements DEF IsTool
<1> HIDE DEF x, y, z, X, Y, Z, Opts
<1>7. Len(P) = Len(Those(P, X)) + Len(Those(P, Y)) + Len(Those(P, Z))
  <2>1. \A i \in 1 .. Len(P) : InOne(P[i], X, Y, Z)
    BY <1>5, <1>6
  <2> DEFINE S == ToSet(P)
  <2>2. P \in Seq(S)
    BY <1>6
  <2> HIDE DEF P, S
  <2> QED
    BY <2>1, <2>2, PartsAdd
<1>8. IsJoined(Opts, x, y, xy)
  BY <1>2, <1>3, Joined
<1>9. xy \in Seq(Opts)
  BY <1>8 DEF IsJoined
<1> HIDE DEF xy
<1>10. IsJoined(Opts, xy, z, l)
  BY <1>4, <1>9, Joined
<1> HIDE DEF l
<1>11. l \in Seq(Opts) /\ Len(l) = Len(P)
  <2>1. /\ l \in Seq(Opts) /\ Len(l) = Len(xy) + Len(z) /\ Len(xy) = Len(x) + Len(y)
        /\ Len(x) \in Nat /\ Len(y) \in Nat /\ Len(z) \in Nat
    BY <1>8, <1>10 DEF IsJoined
  <2> QED
    BY <1>2, <1>3, <1>4, <1>7, <2>1
<1>12. /\ Len(x) \in Nat /\ Len(y) \in Nat /\ Len(z) \in Nat /\ Len(xy) = Len(x) + Len(y)
       /\ Len(l) = Len(xy) + Len(z)
       /\ \A i \in 1 .. Len(x) : l[i] = x[i]
       /\ \A i \in 1 .. Len(y) : l[Len(x) + i] = y[i]
       /\ \A i \in 1 .. Len(z) : l[Len(xy) + i] = z[i]
  <2>1. /\ \A i \in 1 .. Len(x) : xy[i] = x[i]
        /\ \A i \in 1 .. Len(y) : xy[Len(x) + i] = y[i]
        /\ Len(x) \in Nat /\ Len(y) \in Nat /\ Len(xy) = Len(x) + Len(y)
    BY <1>8 DEF IsJoined
  <2>2. /\ \A i \in 1 .. Len(xy) : l[i] = xy[i]
        /\ \A i \in 1 .. Len(z) : l[Len(xy) + i] = z[i]
        /\ Len(z) \in Nat /\ Len(l) = Len(xy) + Len(z)
    BY <1>10 DEF IsJoined
  <2>3. \A i \in 1 .. Len(x) : i \in 1 .. Len(xy)
    BY <2>1
  <2>4. \A i \in 1 .. Len(y) : Len(x) + i \in 1 .. Len(xy)
    BY <2>1
  <2> QED
    BY <2>1, <2>2, <2>3, <2>4
<1>13. ASSUME NEW p \in ToSet(P) PROVE \E i \in 1 .. Len(l) : l[i] = Told(t, p)
  <2>1. CASE p \in X
    <3>1. PICK i \in 1 .. Len(x) : x[i] = Told(t, p)
      BY <1>2, <2>1
    <3>2. i \in 1 .. Len(l) /\ l[i] = Told(t, p)
      BY <1>12, <3>1
    <3> QED
      BY <3>2
  <2>2. CASE p \in Y
    <3>1. PICK i \in 1 .. Len(y) : y[i] = Told(t, p)
      BY <1>3, <2>2
    <3>2. Len(x) + i \in 1 .. Len(l) /\ l[Len(x) + i] = Told(t, p)
      BY <1>12, <3>1
    <3> QED
      BY <3>2
  <2>3. CASE p \in Z
    <3>1. PICK i \in 1 .. Len(z) : z[i] = Told(t, p)
      BY <1>4, <2>3
    <3>2. Len(xy) + i \in 1 .. Len(l) /\ l[Len(xy) + i] = Told(t, p)
      BY <1>12, <3>1
    <3> QED
      BY <3>2
  <2> QED
    BY <1>5, <2>1, <2>2, <2>3 DEF InOne
<1> QED
  BY <1>1, <1>11, <1>13 DEF Opts, l

\* The flag and the word of the option k + 1.
LEMMA Halves ==
    ASSUME NEW k \in Nat
    PROVE  /\ ((2 * k + 1) + 1) \div 2 = k + 1 /\ (2 * k + 1) % 2 = 1
           /\ ((2 * k + 2) + 1) \div 2 = k + 1 /\ (2 * k + 2) % 2 = 0
OBVIOUS

LEMMA CommandIs ==
    ASSUME NEW t, NEW opts, NEW N \in Nat, Len(opts) = N, NEW c, c = Command(t, opts)
    PROVE  /\ Len(c) = 2 * N /\ DOMAIN c = 1 .. 2 * N
           /\ \A k \in Nat : k < N => /\ c[2 * k + 1] = [flag |-> opts[k + 1].flag]
                                      /\ c[2 * k + 2] = [word |-> Sample(t, opts[k + 1])]
<1> DEFINE at(o, m) == IF m = 1 THEN [flag |-> o.flag] ELSE [word |-> Sample(t, o)]
           el(i) == at(opts[(i + 1) \div 2], i % 2)
<1>1. c = [i \in 1 .. 2 * N |-> el(i)]
  BY DEF Command
<1>2. \A o : at(o, 1) = [flag |-> o.flag] /\ at(o, 0) = [word |-> Sample(t, o)]
  OBVIOUS
<1> HIDE DEF el
<1>3. DOMAIN c = 1 .. 2 * N /\ \A i \in 1 .. 2 * N : c[i] = el(i)
  BY <1>1
<1>4. Len(c) = 2 * N
  <2> DEFINE S == {el(i) : i \in 1 .. 2 * N}
             K == 2 * N
  <2>1. K \in Nat
    OBVIOUS
  <2>2. c \in [1 .. K -> S]
    BY <1>1
  <2> HIDE DEF S, K
  <2>3. Len(c) = K
    BY <2>1, <2>2
  <2> QED
    BY <2>3 DEF K
<1> HIDE DEF at
<1>5. ASSUME NEW k \in Nat, k < N
      PROVE  c[2 * k + 1] = [flag |-> opts[k + 1].flag] /\ c[2 * k + 2] = [word |-> Sample(t, opts[k + 1])]
  <2>1. 2 * k + 1 \in 1 .. 2 * N /\ 2 * k + 2 \in 1 .. 2 * N
    BY <1>5
  <2>2. c[2 * k + 1] = el(2 * k + 1) /\ c[2 * k + 2] = el(2 * k + 2)
    BY <1>3, <2>1
  <2>3. el(2 * k + 1) = at(opts[k + 1], 1) /\ el(2 * k + 2) = at(opts[k + 1], 0)
    BY Halves DEF el
  <2> QED
    BY <1>2, <2>2, <2>3
<1> QED
  BY <1>3, <1>4, <1>5

\* The tools whose help is held to: each property has its flag, and each label is possible.
EachItsFlag(t) == \A p \in ToSet(t.params) : HasOwnFlag(t.params, p) /\ \A l \in t.enum[p] : Possible(t, p, l)

LEMMA ToldApart ==
    ASSUME NEW t, IsTool(t), EachItsFlag(t), NEW p \in ToSet(t.params), NEW q \in ToSet(t.params), Told(t, p) = Told(t, q)
    PROVE  p = q
<1>1. OptionFlag(p) = OptionFlag(q)
  <2>1. Told(t, p).flag = OptionFlag(p) /\ Told(t, q).flag = OptionFlag(q)
    BY ToldIs
  <2> QED
    BY <2>1
<1>2. IsFlagOf(t, p, OptionFlag(p)) /\ IsFlagOf(t, q, OptionFlag(q))
  BY OwnFlagIs DEF EachItsFlag
<1>3. <<p>> = <<q>>
  BY <1>1, <1>2 DEF IsFlagOf
<1> QED
  BY <1>3

\* The options that are asked for are those of the required properties.
LEMMA AskedAre ==
    ASSUME NEW t, IsTool(t), EachItsFlag(t), NEW a, a = Asked(Listed(t))
    PROVE  /\ Len(a) \in Nat /\ \A i \in 1 .. Len(a) : \E p \in t.required : a[i] = Told(t, p)
           /\ \A p \in t.required : \E i \in 1 .. Len(a) : a[i] = Told(t, p)
<1> DEFINE l == Listed(t)
           S == Options(t)
           T == {o \in ToSet(l) : o.required}
<1>1. l \in Seq(S) /\ \A p \in ToSet(t.params) : \E i \in 1 .. Len(l) : l[i] = Told(t, p)
  BY ListedAre
<1>2. a = Those(l, T)
  BY DEF Asked
<1>3. \A p : Told(t, p).required <=> p \in t.required
  <2>1. ASSUME NEW p PROVE Told(t, p).required = (p \in t.required)
    BY ToldIs
  <2> QED
    BY <2>1
<1>4. t.required \subseteq ToSet(t.params)
  BY DEF IsTool
<1>5. ASSUME NEW o \in S PROVE \E p \in ToSet(t.params) : o = Told(t, p)
  BY <1>5 DEF Options
<1> HIDE DEF l, S
<1>6. ASSUME NEW p \in t.required PROVE Told(t, p) \in T
  <2>1. PICK i \in 1 .. Len(l) : l[i] = Told(t, p)
    BY <1>1, <1>4
  <2>2. Told(t, p) \in ToSet(l)
    BY <1>1, <2>1 DEF ToSet
  <2> QED
    BY <1>3, <2>2
<1>7. \A o \in T : o.required /\ o \in ToSet(l)
  OBVIOUS
<1> HIDE DEF T
<1>8. a \in Seq(S \cap T)
  BY <1>1, <1>2, ThoseAre
<1>9. Len(a) \in Nat /\ \A i \in 1 .. Len(a) : a[i] \in S /\ a[i] \in T
  BY <1>8
<1>10. ASSUME NEW i \in 1 .. Len(a) PROVE \E p \in t.required : a[i] = Told(t, p)
  <2>1. PICK p \in ToSet(t.params) : a[i] = Told(t, p)
    BY <1>5, <1>9
  <2>2. a[i].required
    BY <1>7, <1>9
  <2> QED
    BY <1>3, <2>1, <2>2
<1>11. ASSUME NEW p \in t.required PROVE \E i \in 1 .. Len(a) : a[i] = Told(t, p)
  <2>1. Told(t, p) \in T /\ Told(t, p) \in ToSet(l)
    BY <1>6, <1>7
  <2> QED
    BY <1>1, <1>2, <2>1, ThoseAll
<1> QED
  BY <1>9, <1>10, <1>11

\* The loop over such a command: after each option its property is read.
LEMMA CommandLoops ==
    ASSUME NEW t, IsTool(t), EachItsFlag(t), NEW a, NEW N \in Nat, Len(a) = N,
           \A i \in 1 .. N : \E p \in t.required : a[i] = Told(t, p), NEW c, c = Command(t, a)
    PROVE  \E out : /\ NativeFrom(t, c) = [input |-> out]
                    /\ \A p \in ToSet(t.params) : (\E i \in 1 .. N : a[i] = Told(t, p)) => p \in DOMAIN out
<1> DEFINE r == ArgvRead("native", t, c)
           reads(k, out) == /\ r[2 * k] = ReadTo(2 * k + 1, out)
                            /\ \A p \in ToSet(t.params) : (\E i \in 1 .. k : a[i] = Told(t, p)) => p \in DOMAIN out
           I == {k \in 0 .. N : \E out : reads(k, out)}
<1>1. /\ Len(c) = 2 * N /\ DOMAIN c = 1 .. 2 * N
      /\ \A k \in Nat : k < N => /\ c[2 * k + 1] = [flag |-> a[k + 1].flag]
                                 /\ c[2 * k + 2] = [word |-> Sample(t, a[k + 1])]
  BY CommandIs
<1>2. Len(c) \in Nat /\ DOMAIN c = 1 .. Len(c)
  BY <1>1
<1>3. r[0] = ReadTo(1, NoInput) /\ NativeFrom(t, c) = r[Len(c)].reading
  <2>1. r[0] = Begun /\ NativeFrom(t, c) = r[Len(c)].reading
    BY <1>2, NativeUnfolds
  <2> QED
    BY <2>1, BegunIs
<1> HIDE DEF r
<1>4. 0 \in I
  <2>1. reads(0, NoInput)
    BY <1>3
  <2> HIDE DEF reads
  <2> QED
    BY <2>1
<1>5. ASSUME NEW k \in 0 .. N, k \in I, k < N PROVE k + 1 \in I
  <2>1. PICK out : reads(k, out)
    BY <1>5
  <2> DEFINE m == k + 1
             h == 2 * k
             i == 2 * k + 1
             j == 2 * k + 2
             n == 2 * k + 3
  <2>2. /\ k \in Nat /\ m \in 1 .. N /\ m \in 0 .. N /\ h \in Nat /\ i = h + 1 /\ j = h + 2 /\ n = h + 3
        /\ j <= Len(c) /\ 2 * m = j /\ 2 * m + 1 = n
    BY <1>1, <1>5
  <2>3. PICK p \in t.required : a[m] = Told(t, p)
    BY <2>2
  <2>4. p \in ToSet(t.params)
    BY DEF IsTool
  <2> DEFINE f == OptionFlag(p)
             w == Sample(t, Told(t, p))
             v == Valued(t, p, w)
             new == Puts(t, p, out, v)
  <2>5. c[i] = [flag |-> f] /\ c[j] = [word |-> w]
    <3>1. c[i] = [flag |-> a[m].flag] /\ c[j] = [word |-> Sample(t, a[m])]
      BY <1>1, <1>5, <2>2
    <3>2. Told(t, p).flag = f
      BY ToldIs
    <3> QED
      BY <2>3, <3>1, <3>2
  <2>6. IsFlagOf(t, p, f) /\ ~Negates(f)
    BY <2>4, OwnFlagIs DEF EachItsFlag
  <2>7. Takes(t, p, v)
    BY <2>4, SampleTaken DEF EachItsFlag
  <2>8. r[h] = ReadTo(i, out)
    BY <2>1
  <2> HIDE DEF f, w, h, i, j, n
  <2>9. r[j] = ReadTo(n, new)
    <3>1. HasFlag(c, i, f)
      BY <2>5 DEF HasFlag
    <3>2. ArgvRead("native", t, c)[h] = ReadTo(i, out)
      BY <2>8 DEF r
    <3>3. Takes(t, p, Valued(t, p, w)) /\ h \in Nat /\ i = h + 1 /\ j = h + 2 /\ n = h + 3 /\ j <= Len(c)
      BY <2>2, <2>7
    <3>4. ArgvRead("native", t, c)[j] = ReadTo(n, Puts(t, p, out, Valued(t, p, w)))
      BY ONLY <1>2, <2>5, <2>6, <3>1, <3>2, <3>3, PairRead
    <3> QED
      BY <3>4 DEF r
  <2> HIDE DEF v
  <2>10. DOMAIN new = DOMAIN out \cup {p}
    BY DEF Puts, InsertValue
  <2>11. ASSUME NEW q \in ToSet(t.params), NEW l \in 1 .. m, a[l] = Told(t, q) PROVE q \in DOMAIN new
    <3>1. l = m \/ l \in 1 .. k
      BY <2>2
    <3>2. CASE l = m
      <4>1. q = p
        BY <2>3, <2>4, <2>11, <3>2, ToldApart
      <4> QED
        BY <2>10, <4>1
    <3>3. CASE l \in 1 .. k
      <4>1. q \in DOMAIN out
        BY <2>1, <2>11, <3>3
      <4> QED
        BY <2>10, <4>1
    <3> QED
      BY <3>1, <3>2, <3>3
  <2> HIDE DEF new, m
  <2>12. reads(m, new)
    BY <2>2, <2>9, <2>11
  <2> HIDE DEF reads
  <2>13. m \in I
    BY <2>2, <2>12
  <2> QED
    BY <2>13 DEF m
<1>6. \A k \in 0 .. N : k \in I
  <2> HIDE DEF I
  <2> QED
    BY <1>4, <1>5, Induction
<1>7. PICK out : reads(N, out)
  <2>1. N \in 0 .. N
    OBVIOUS
  <2> HIDE DEF reads
  <2> QED
    BY <1>6, <2>1
<1>8. NativeFrom(t, c) = [input |-> out]
  <2>1. r[2 * N] = ReadTo(2 * N + 1, out)
    BY <1>7
  <2> QED
    BY <1>1, <1>3, <2>1, ReadToIs
<1> QED
  BY <1>7, <1>8

LEMMA CommandReads ==
    ASSUME NEW t, IsTool(t), EachItsFlag(t)
    PROVE  ~Failed(ParseArgv(t, Command(t, Asked(Listed(t)))))
<1> DEFINE a == Asked(Listed(t))
           c == Command(t, a)
           N == Len(a)
<1>1. /\ N \in Nat /\ \A i \in 1 .. N : \E p \in t.required : a[i] = Told(t, p)
      /\ \A p \in t.required : \E i \in 1 .. N : a[i] = Told(t, p)
  BY AskedAre
<1>0. c = Command(t, a)
  OBVIOUS
<1> HIDE DEF a, c, N
<1>2. /\ Len(c) = 2 * N /\ DOMAIN c = 1 .. 2 * N
      /\ \A k \in Nat : k < N => /\ c[2 * k + 1] = [flag |-> a[k + 1].flag]
                                 /\ c[2 * k + 2] = [word |-> Sample(t, a[k + 1])]
  <2>1. Len(a) = N /\ N \in Nat
    BY <1>1 DEF N
  <2> QED
    BY ONLY <1>0, <2>1, CommandIs
<1>3. PICK out : /\ NativeFrom(t, c) = [input |-> out]
                 /\ \A p \in ToSet(t.params) : (\E i \in 1 .. N : a[i] = Told(t, p)) => p \in DOMAIN out
  <2>1. Len(a) = N /\ N \in Nat /\ \A i \in 1 .. N : \E p \in t.required : a[i] = Told(t, p)
    BY <1>1 DEF N
  <2>2. IsTool(t) /\ EachItsFlag(t)
    OBVIOUS
  <2> QED
    BY ONLY <1>0, <2>1, <2>2, CommandLoops
<1>4. t.required \subseteq DOMAIN out
  BY <1>1, <1>3 DEF IsTool
<1>5. ~AsksJson(c)
  <2>1. CASE N = 0
    <3>1. DOMAIN c = {}
      BY <1>2, <2>1
    <3>2. c = <<>>
      BY <1>0, <1>2, <2>1, <3>1 DEF Command, N
    <3> QED
      BY <3>2 DEF AsksJson
  <2>2. CASE N # 0
    <3>1. c[1] = [flag |-> a[1].flag] /\ 1 \in 1 .. N
      <4>1. PICK k \in Nat : k = 0
        OBVIOUS
      <4>2. k < N /\ 2 * k + 1 = 1 /\ k + 1 = 1 /\ 1 \in 1 .. N
        BY <1>1, <2>2, <4>1
      <4> QED
        BY <1>2, <4>2
    <3>2. PICK p \in t.required : a[1] = Told(t, p)
      BY <1>1, <3>1
    <3>3. p \in ToSet(t.params)
      BY DEF IsTool
    <3>4. a[1].flag = OptionFlag(p)
      <4>1. Told(t, p).flag = OptionFlag(p)
        BY ToldIs
      <4> QED
        BY <3>2, <4>1
    <3>5. IsFlagOf(t, p, OptionFlag(p))
      BY <3>3, OwnFlagIs DEF EachItsFlag
    <3> QED
      BY <3>1, <3>4, <3>5, NoJson
  <2> QED
    BY <2>1, <2>2
<1>6. ~Failed(ParseArgv(t, c))
  BY <1>3, <1>4, <1>5, Parsed
<1> QED
  BY <1>6 DEF a, c

LEMMA HelpIsEnough ==
    ASSUME NEW t, IsTool(t)
    PROVE  HelpSuffices(t)
<1> SUFFICES ASSUME EachItsFlag(t)
             PROVE  /\ ~Failed(ParseArgv(t, Command(t, Asked(Listed(t)))))
                    /\ Len(Listed(t)) = Len(t.params)
                    /\ \A p \in ToSet(t.params) : \E i \in DOMAIN Listed(t) : OptionHolds(t, Listed(t)[i], p)
  BY DEF HelpSuffices, EachItsFlag
<1>1. ~Failed(ParseArgv(t, Command(t, Asked(Listed(t)))))
  BY CommandReads
<1> DEFINE l == Listed(t)
<1>2. l \in Seq(Options(t)) /\ Len(l) = Len(t.params) /\ \A p \in ToSet(t.params) : \E i \in 1 .. Len(l) : l[i] = Told(t, p)
  BY ListedAre
<1> HIDE DEF l
<1>3. ASSUME NEW p \in ToSet(t.params) PROVE \E i \in DOMAIN l : OptionHolds(t, l[i], p)
  <2>1. PICK i \in 1 .. Len(l) : l[i] = Told(t, p)
    BY <1>2
  <2>2. OptionHolds(t, Told(t, p), p)
    BY OptionIs DEF EachItsFlag
  <2>3. i \in DOMAIN l
    BY <1>2
  <2> QED
    BY <2>1, <2>2, <2>3
<1> QED
  BY <1>1, <1>2, <1>3 DEF l

\* What the help of a command names as a subcommand or a flag is found by the parser and
\* the scripts, but for names that clash (cli/help.rs, cli/mapping.rs).
THEOREM NamesFound == Spec => []HelpNamesAreFound
<1>1. Typed => HelpNamesAreFound
  <2>1. ASSUME Typed, kind = "names" PROVE HelpReaches(input)
    <3>1. IsName(input[1]) /\ IsName(input[2]) /\ input = <<input[1], input[2]>>
      BY <2>1 DEF Typed, IsInput
    <3> QED
      BY <3>1, HelpIsReached
  <2> QED
    BY <2>1 DEF HelpNamesAreFound
<1> QED
  BY <1>1, TypeCorrect, PTL

\* A command with the options that its help asks for is read, and each line of the help
\* gives the value that it promises (cli/help.rs, cli/parser.rs).
THEOREM HelpTrue == Spec => []HelpIsTrue
<1>1. Typed => HelpIsTrue
  <2>1. ASSUME Typed, kind = "help" PROVE HelpSuffices(input)
    <3>1. IsTool(input)
      BY <2>1 DEF Typed, IsInput
    <3> QED
      BY <3>1, HelpIsEnough
  <2> QED
    BY <2>1 DEF HelpIsTrue
<1> QED
  BY <1>1, TypeCorrect, PTL
=============================================================================
