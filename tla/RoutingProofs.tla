--------------------------- MODULE RoutingProofs ---------------------------
(* Theorems about Routing, for every set of configurations. *)
EXTENDS Routing, TLAPS, WellFoundedInduction

----------------------------------------------------------------------------
(* Names *)

\* The names that the code spells out are strings, and so is the empty one.
LEMMA Literals ==
    /\ Empty \in Name /\ Schema \in Name /\ Invoke \in Name /\ List \in Name
    /\ <<"help">> \in Name
<1>1. /\ "" \in Parts /\ "get" \in Parts /\ "tool" \in Parts /\ "schema" \in Parts
      /\ "invoke" \in Parts /\ "list" \in Parts /\ "tools" \in Parts /\ "help" \in Parts
  BY PartsAssumption DEF PartsAssumption
<1>2. Empty \in Seq(Parts) /\ Schema \in Seq(Parts) /\ Invoke \in Seq(Parts)
      /\ List \in Seq(Parts) /\ <<"help">> \in Seq(Parts)
  <2>1. \A a, b, c \in Parts : <<a>> \in Seq(Parts) /\ <<a, b>> \in Seq(Parts)
                                /\ <<a, b, c>> \in Seq(Parts)
    OBVIOUS
  <2> QED
    BY <1>1, <2>1 DEF Empty, Schema, Invoke, List
<1>3. Empty # None /\ Schema # None /\ Invoke # None /\ List # None /\ <<"help">> # None
  BY DEF Empty, Schema, Invoke, List, None
<1> QED
  BY <1>2, <1>3 DEF Name

\* Two names joined by an underscore are a name.
LEMMA Joined ==
    ASSUME NEW p \in Seq(Parts), NEW q \in Name
    PROVE  p \o q \in Name
<1>1. q \in Seq(Parts) /\ Len(q) > 0
  BY DEF Name, None
<1>2. p \o q \in Seq(Parts) /\ Len(p \o q) = Len(p) + Len(q)
  BY <1>1
<1>3. Len(<<>>) = 0
  OBVIOUS
<1> QED
  BY <1>1, <1>2, <1>3 DEF Name, None

\* A name that begins with p followed by something starts with the prefix of p.
LEMMA OwnPrefix ==
    ASSUME NEW p \in Name, NEW op \in Name
    PROVE  /\ StartsWithPrefix(p \o op, p)
           /\ StartsWithPrefix(Wrapper(p, op), p)
<1>1. IsStrictPrefix(p, p \o op)
  <2>1. p \in Seq(Parts) /\ op \in Seq(Parts) /\ Len(op) > 0
    BY DEF Name, None
  <2>2. Len(p \o op) = Len(p) + Len(op) /\ p \o op \in Seq(Parts)
    BY <2>1
  <2>3. SubSeq(p \o op, 1, Len(p)) = SubSeq(p, 1, Len(p))
    BY <2>1, <2>2
  <2> QED
    BY <2>1, <2>2, <2>3 DEF IsStrictPrefix, IsPrefix
<1> QED
  BY <1>1 DEF StartsWithPrefix, Wrapper

\* If such a name starts with the prefix of q, then p and q are nested.
LEMMA PrefixNested ==
    ASSUME NEW p \in Name, NEW q \in Name, NEW op \in Name,
           \/ StartsWithPrefix(p \o op, q)
           \/ StartsWithPrefix(Wrapper(p, op), q)
    PROVE  Nested(q, p)
<1>1. CASE p = Empty \/ q = Empty
  BY <1>1 DEF Nested
<1>2. CASE p # Empty /\ q # Empty
  <2>1. IsPrefix(q, p \o op)
    BY <1>2 DEF StartsWithPrefix, Wrapper, IsStrictPrefix
  <2>2. p \in Seq(Parts) /\ op \in Seq(Parts) /\ q \in Seq(Parts)
    BY DEF Name
  <2>3. Len(q) <= Len(p \o op) /\ Len(p \o op) = Len(p) + Len(op)
        /\ SubSeq(q, 1, Len(q)) = SubSeq(p \o op, 1, Len(q))
    BY <2>1, <2>2 DEF IsPrefix
  <2>4. ASSUME NEW k \in 1 .. Len(p), k <= Len(q)
        PROVE  q[k] = p[k]
    <3>1. SubSeq(q, 1, Len(q))[k] = q[k]
      BY <2>2, <2>4
    <3>2. SubSeq(p \o op, 1, Len(q))[k] = (p \o op)[k]
      BY <2>2, <2>3, <2>4
    <3>3. (p \o op)[k] = p[k]
      BY <2>2, <2>4
    <3> QED
      BY <3>1, <3>2, <3>3, <2>3
  <2>5. CASE Len(q) <= Len(p)
    <3>1. SubSeq(q, 1, Len(q)) = SubSeq(p, 1, Len(q))
      BY <2>2, <2>4, <2>5
    <3> QED
      BY <3>1, <2>5 DEF Nested, IsPrefix
  <2>6. CASE Len(p) <= Len(q)
    <3>1. SubSeq(p, 1, Len(p)) = SubSeq(q, 1, Len(p))
      BY <2>2, <2>4, <2>6
    <3> QED
      BY <3>1, <2>6 DEF Nested, IsPrefix
  <2> QED
    BY <2>2, <2>5, <2>6
<1> QED
  BY <1>1, <1>2

\* A name that ends in op is recognised by its suffix, and is longer than op when
\* something stands before it.
LEMMA OwnSuffix ==
    ASSUME NEW p \in Seq(Parts), NEW op \in Name
    PROVE  /\ IsSuffix(op, op) /\ IsSuffix(op, p \o op)
           /\ p \in Name => IsStrictSuffix(op, p \o op)
<1>1. op \in Seq(Parts) /\ p \o op \in Seq(Parts) /\ Len(p \o op) = Len(p) + Len(op)
  BY DEF Name
<1>2. ASSUME NEW s \in Seq(Parts)
      PROVE  /\ Reverse(s) \in Seq(Parts) /\ Len(Reverse(s)) = Len(s)
             /\ \A i \in 1 .. Len(s) : Reverse(s)[i] = s[Len(s) - i + 1]
  <2>1. \A i \in 1 .. Len(s) : (Len(s) - i) + 1 \in 1 .. Len(s)
    OBVIOUS
  <2> QED
    BY <2>1 DEF Reverse
<1>3. IsSuffix(op, op)
  BY <1>1, <1>2 DEF IsSuffix, IsPrefix
<1>4. IsSuffix(op, p \o op)
  <2> DEFINE a == Reverse(op)
             b == Reverse(p \o op)
  <2>a. a \in Seq(Parts) /\ Len(a) = Len(op) /\ \A i \in 1 .. Len(op) : a[i] = op[Len(op) - i + 1]
    BY <1>1, <1>2, Zenon
  <2>b. /\ b \in Seq(Parts) /\ Len(b) = Len(p \o op)
        /\ \A i \in 1 .. Len(p \o op) : b[i] = (p \o op)[Len(p \o op) - i + 1]
    BY <1>1, <1>2, Zenon
  <2> HIDE DEF a, b
  <2>1. Len(a) <= Len(b)
    BY <1>1, <2>a, <2>b
  <2>2. ASSUME NEW i \in 1 .. Len(op) PROVE a[i] = b[i]
    <3>1. b[i] = (p \o op)[Len(p) + Len(op) - i + 1] /\ a[i] = op[Len(op) - i + 1]
      BY <1>1, <2>a, <2>b
    <3>2. (p \o op)[Len(p) + (Len(op) - i + 1)] = op[Len(op) - i + 1]
      BY <1>1
    <3> QED
      BY <1>1, <3>1, <3>2
  <2>3. SubSeq(a, 1, Len(a)) = SubSeq(b, 1, Len(a))
    BY <2>a, <2>b, <2>1, <2>2
  <2> QED
    BY <2>1, <2>3 DEF IsSuffix, IsPrefix, a, b
<1>5. p \in Name => op # p \o op
  BY <1>1 DEF Name, None
<1> QED
  BY <1>3, <1>4, <1>5 DEF IsStrictSuffix

\* A search through the backends that has a hit has a first one.
LEMMA FirstExists ==
    ASSUME NEW hits \in SUBSET Nat, hits # {}
    PROVE  \E i \in hits : i \in First(hits)
<1>1. PICK i \in hits : \A j \in hits : ~(<<j, i>> \in OpToRel(<, Nat))
  BY NatLessThanWellFounded, WFMin
<1>2. OpToRel(<, Nat) = {p \in Nat \X Nat : p[1] < p[2]}
  BY Zenon DEF OpToRel
<1>3. \A j \in hits : ~(j < i)
  BY <1>1, <1>2
<1> QED
  BY <1>3 DEF First

----------------------------------------------------------------------------
(* The state *)

\* The tools of a connected backend have passed the filters, and the upstream only
\* ever offers tools of its own.
FilteredAtConnect ==
    /\ \A i \in Servers : offers[i] \subseteq config.servers[i].tools
    /\ \A i \in Backends : backends[i].tools \subseteq Visible(config.servers[i].tools)

StrayCall(k) ==
    \A t \in k.target :
        (/\ k.request.path \in {"mcp", "executable", "bash", "invoke_on"}
         /\ k.request.owner # 0
         /\ t.backend # k.request.owner)
        => /\ t.backend < k.request.owner
           /\ Nested(backends[t.backend].public, backends[k.request.owner].public)

HiddenCall(k) ==
    \A t \in k.target :
        t.op = "invoke" => t.item \in Visible(config.servers[t.backend].tools)

ListedRequest(r, target) ==
    (/\ config.mode = "CompressedTools"
     /\ r.path = "mcp" \/ (r.path = "invoke_on" /\ r.name # Empty)
     /\ r.item \in backends[r.owner].tools
     /\ Distinct(r.owner))
    => \E t \in target : t.backend = r.owner

ReadRequest(r, target) ==
    r.path = "resource" =>
      \E t \in target :
        IF \E i \in Backends : t.item = OwnResource(i)
        THEN t.op = "own" /\ t.item = OwnResource(t.backend)
        ELSE t.op = "read" /\ t.item \in backends[t.backend].resources

\* What the properties say of one call.
Right(k) ==
    /\ StrayCall(k) /\ HiddenCall(k)
    /\ ListedRequest(k.request, k.target) /\ ReadRequest(k.request, k.target)

\* The inductive invariant: a call is only made of a running server, whose backends
\* no longer change, so what its target was when it was dispatched it still is.
IInv ==
    /\ TypeOK
    /\ FilteredAtConnect
    /\ \A k \in Calls : phase = "running" /\ Right(k)

\* A configuration that a constructor accepts gives backends of their type.
LEMMA ConfigTyped ==
    ASSUME TypeOK
    PROVE  /\ config \in ConfigType
           /\ config.servers \in Seq(Server)
           /\ \A i \in Servers : config.servers[i] \in Server
           /\ \A i \in Backends : i \in Servers /\ backends[i] \in Backend
<1>1. config \in ConfigType
  BY ConfigsAssumption DEF TypeOK
<1>2. config.servers \in Seq(Server)
  BY <1>1 DEF ConfigType
<1>3. \A i \in Servers : config.servers[i] \in Server
  BY <1>2 DEF Servers
<1>4. \A i \in Backends : i \in Servers /\ backends[i] \in Backend
  BY <1>2 DEF TypeOK, Backends, Servers
<1> QED
  BY <1>1, <1>2, <1>3, <1>4

\* The backend of a wrapper is the only one, or the first whose prefix matches.
LEMMA WrapperBackend ==
    ASSUME TypeOK, NEW name, NEW j \in BackendForWrapper(name)
    PROVE  /\ j \in Backends
           /\ \/ Len(backends) = 1 /\ j = 1
              \/ /\ StartsWithPrefix(name, backends[j].public)
                 /\ \A i \in Backends : StartsWithPrefix(name, backends[i].public) => j <= i
BY DEF BackendForWrapper, First, Backends, TypeOK

\* If a name begins with the public name of backend i and j is found for it, then j
\* is i, or an earlier backend with a nested name.
LEMMA Found ==
    ASSUME TypeOK, NEW i \in Backends, NEW op \in Name, NEW name,
           name = backends[i].public \o op \/ name = Wrapper(backends[i].public, op),
           NEW j \in BackendForWrapper(name), j # i
    PROVE  j < i /\ Nested(backends[j].public, backends[i].public)
<1>1. backends[i].public \in Name
  BY ConfigTyped DEF Backend
<1>2. /\ j \in Backends
      /\ \/ Len(backends) = 1 /\ j = 1
         \/ /\ StartsWithPrefix(name, backends[j].public)
            /\ \A h \in Backends : StartsWithPrefix(name, backends[h].public) => j <= h
  BY WrapperBackend
<1>3. backends[j].public \in Name
  BY <1>2, ConfigTyped DEF Backend
<1>4. StartsWithPrefix(name, backends[i].public)
  BY <1>1, OwnPrefix
<1>5. ~(Len(backends) = 1 /\ j = 1)
  BY DEF Backends
<1>6. Nested(backends[j].public, backends[i].public)
  BY <1>1, <1>2, <1>3, <1>5, PrefixNested
<1>7. j <= i
  BY <1>2, <1>4, <1>5
<1> QED
  BY <1>2, <1>6, <1>7 DEF Backends, TypeOK

\* invoke_backend only forwards a tool of the filtered list.
LEMMA InvokeTargets ==
    ASSUME TypeOK, FilteredAtConnect, NEW hits \in SUBSET Backends, NEW tool,
           NEW t \in InvokeBackend(hits, tool)
    PROVE  /\ t.op = "invoke" /\ t.backend \in hits
           /\ t.item \in Visible(config.servers[t.backend].tools)
BY DEF InvokeBackend, To, FilteredAtConnect

\* What /exec forwards to an upstream is a tool of the filtered list.
LEMMA ExecTargets ==
    ASSUME TypeOK, FilteredAtConnect, NEW name, NEW wrapped \in BOOLEAN, NEW tool,
           NEW t \in Exec(name, wrapped, tool)
    PROVE  /\ t.op = "invoke"
           /\ t.item \in Visible(config.servers[t.backend].tools)
           /\ t.backend \in BackendForWrapper(name) \/ (Len(backends) = 1 /\ t.backend = 1)
<1>1. BackendForWrapper(name) \subseteq Backends
  BY WrapperBackend
<1>2. (IF Len(backends) = 1 THEN {1} ELSE {}) \subseteq Backends
  BY DEF Backends
<1> QED
  BY <1>1, <1>2, InvokeTargets DEF Exec

\* What the MCP handler call_tool forwards is a tool of the filtered list.
LEMMA CallToolTargets ==
    ASSUME TypeOK, FilteredAtConnect, NEW name, NEW tool, NEW t \in CallTool(name, tool)
    PROVE  /\ t.op = "invoke" => t.item \in Visible(config.servers[t.backend].tools)
           /\ t.backend \in BackendForWrapper(name)
<1>1. BackendForWrapper(name) \subseteq Backends
  BY WrapperBackend
<1>2. CASE t \in InvokeBackend(BackendForWrapper(name), tool)
  BY <1>1, <1>2, InvokeTargets
<1>3. CASE t \in SchemaTarget(name, tool) \cup ListTarget(name)
  BY <1>3 DEF SchemaTarget, ListTarget, To
<1> QED
  BY <1>2, <1>3 DEF CallTool

----------------------------------------------------------------------------
(* What a call is dispatched to *)

Ops == {Schema, Invoke, List}

\* A frontend tool with an owner is named by the owner's public name.
LEMMA FrontendNames ==
    ASSUME TypeOK, NEW f \in FrontendTools, f.owner # 0
    PROVE  /\ f.owner \in Backends
           /\ \E op \in Name : \/ f.name = backends[f.owner].public \o op
                               \/ f.name = Wrapper(backends[f.owner].public, op)
<1>1. Ops \subseteq Name /\ <<"help">> \in Name
  BY Literals DEF Ops
<1>2. CASE f \in HelpTools
  <2>1. PICK i \in Backends : f = [owner |-> i, name |-> backends[i].public \o <<"help">>]
    BY <1>2 DEF HelpTools
  <2>2. f.owner = i /\ f.name = backends[i].public \o <<"help">>
    BY <2>1
  <2> QED
    BY <1>1, <2>2
<1>3. CASE f \in {[owner |-> i, name |-> Wrapper(backends[i].public, op)] :
                    i \in Backends, op \in Wrappers}
  BY <1>1, <1>3 DEF Wrappers, Ops
<1>4. config.mode \in {"CompressedTools", "Cli", "JustBash"}
  BY ConfigTyped DEF ConfigType
<1> QED
  BY <1>2, <1>3, <1>4 DEF FrontendTools

Means(r) ==
    /\ r.owner \in Backends
    /\ r.path \in {"mcp", "executable", "bash"} =>
         \E op \in Name : \/ r.name = backends[r.owner].public \o op
                          \/ r.name = Wrapper(backends[r.owner].public, op)
    /\ r.path = "invoke_on" => r.name = backends[r.owner].public

\* A request names what its owner listed.
LEMMA RequestNames ==
    ASSUME TypeOK, NEW r \in Requests, r.owner # 0
    PROVE  Means(r)
<1>1. Invoke \in Name
  BY Literals
<1>2. ASSUME NEW path \in {"mcp", "executable"}, NEW f \in FrontendTools, NEW u,
             r = Request(path, f.owner, f.name, u)
      PROVE  Means(r)
  <2>1. r.path = path /\ r.owner = f.owner /\ r.name = f.name
    BY <1>2 DEF Request
  <2>2. path # "invoke_on"
    OBVIOUS
  <2> QED
    BY <2>1, <2>2, FrontendNames DEF Means
<1>3. ASSUME NEW path \in {"invoke_on", "invoke"}, NEW i \in Backends, NEW u,
             r = Request(path, i, backends[i].public, u)
      PROVE  Means(r)
  BY <1>3 DEF Request, Means
<1>4. ASSUME NEW i \in Backends, r \in ListedRequests(i)
      PROVE  Means(r)
  BY <1>1, <1>4 DEF ListedRequests, Request, Means
<1>5. {"executable"} \cup (IF config.mode = "CompressedTools" THEN {"mcp"} ELSE {})
        \subseteq {"mcp", "executable"}
  OBVIOUS
<1> QED
  BY <1>2, <1>3, <1>4, <1>5 DEF Requests, ToolRequests

\* The backend a call strays to, for the four paths that go through a wrapper.
LEMMA Strays ==
    ASSUME TypeOK, FilteredAtConnect, NEW r \in Requests, NEW t \in Target(r),
           r.path \in {"mcp", "executable", "bash", "invoke_on"},
           r.owner # 0, t.backend # r.owner
    PROVE  /\ t.backend < r.owner
           /\ Nested(backends[t.backend].public, backends[r.owner].public)
<1>1. Means(r)
  BY RequestNames
<1>2. ~(Len(backends) = 1 /\ t.backend = 1)
  BY <1>1 DEF Means, Backends
<1>3. CASE r.path = "mcp"
  <2>1. t.backend \in BackendForWrapper(r.name)
    BY <1>3, CallToolTargets DEF Target
  <2> QED
    BY <1>1, <1>3, <2>1, Found DEF Means
<1>4. CASE r.path \in {"executable", "bash"}
  <2>1. t \in Exec(r.name, TRUE, r.item)
    BY <1>4 DEF Target
  <2>2. t.backend \in BackendForWrapper(r.name)
    BY <1>2, <2>1, ExecTargets
  <2> QED
    BY <1>1, <1>4, <2>2, Found DEF Means
<1>5. CASE r.path = "invoke_on"
  <2>1. PICK w \in InvokeWrapper(r.name) : t \in Exec(w, TRUE, r.item)
    BY <1>5 DEF Target
  <2>2. r.name = backends[r.owner].public /\ r.name \in Name
    BY <1>1, <1>5, ConfigTyped DEF Means, Backend
  <2>3. w = backends[r.owner].public \o Invoke
    BY <2>1, <2>2 DEF InvokeWrapper, Name
  <2>4. t.backend \in BackendForWrapper(w)
    BY <1>2, <2>1, ExecTargets
  <2>5. Invoke \in Name
    BY Literals
  <2> QED
    BY <1>1, <2>3, <2>4, <2>5, Found DEF Means
<1> QED
  BY <1>3, <1>4, <1>5

\* No path forwards a tool that the filters hide.
LEMMA Hides ==
    ASSUME TypeOK, FilteredAtConnect, NEW r \in Requests, NEW t \in Target(r), t.op = "invoke"
    PROVE  t.item \in Visible(config.servers[t.backend].tools)
<1>1. ASSUME NEW name, NEW wrapped \in BOOLEAN, NEW tool, t \in Exec(name, wrapped, tool)
      PROVE  t.item \in Visible(config.servers[t.backend].tools)
  BY <1>1, ExecTargets
<1>2. r.path \in {"mcp", "executable", "invoke_on", "invoke", "function", "bash", "resource", "prompt"}
  BY DEF Requests, ToolRequests, ListedRequests, Request
<1>3. CASE r.path = "mcp"
  BY <1>3, CallToolTargets DEF Target
<1>4. CASE r.path = "executable" \/ r.path = "function" \/ r.path = "bash"
  BY <1>1, <1>4 DEF Target
<1>5. CASE r.path = "invoke_on" \/ r.path = "invoke"
  BY <1>1, <1>5 DEF Target
<1>6. CASE r.path = "resource"
  <2>1. t \in ReadResource(r.name)
    BY <1>6 DEF Target
  <2>2. t.op \in {"own", "read"}
    <3>1. \/ \E i : t = To("own", i, r.name)
          \/ \E i : t = To("read", i, r.name)
      BY <2>1 DEF ReadResource
    <3> QED
      BY <3>1 DEF To
  <2> QED
    BY <2>2
<1>7. CASE r.path = "prompt"
  <2>1. t \in GetPrompt(r.name)
    BY <1>7 DEF Target
  <2>2. \E i : t = To("prompt", i, r.name)
    BY <2>1 DEF GetPrompt
  <2> QED
    BY <2>2 DEF To
<1> QED
  BY <1>2, <1>3, <1>4, <1>5, <1>6, <1>7

\* A wrapper of a backend whose name is nested with no other is taken for that
\* backend's, and for none other's.
LEMMA DistinctFound ==
    ASSUME TypeOK, NEW i \in Backends, Distinct(i), NEW op \in Name, NEW name,
           name = backends[i].public \o op \/ name = Wrapper(backends[i].public, op)
    PROVE  i \in BackendForWrapper(name)
<1>1. backends[i].public \in Name
  BY ConfigTyped DEF Backend
<1>2. CASE Len(backends) = 1 /\ backends[1].public = Empty
  BY <1>2 DEF BackendForWrapper, Backends
<1>3. CASE ~(Len(backends) = 1 /\ backends[1].public = Empty)
  <2> DEFINE hits == {h \in Backends : StartsWithPrefix(name, backends[h].public)}
  <2>1. BackendForWrapper(name) = First(hits)
    BY <1>3 DEF BackendForWrapper
  <2>2. i \in hits
    BY <1>1, OwnPrefix
  <2>3. hits \in SUBSET Nat
    BY DEF Backends
  <2> HIDE DEF hits
  <2>4. PICK j \in hits : j \in First(hits)
    BY <2>2, <2>3, FirstExists
  <2>5. j \in BackendForWrapper(name)
    BY <2>1, <2>4
  <2>6. CASE j # i
    <3>1. Nested(backends[j].public, backends[i].public)
      BY <2>5, <2>6, Found
    <3>2. j \in Backends \ {i}
      BY <2>5, <2>6, WrapperBackend
    <3> QED
      BY <3>1, <3>2 DEF Distinct, Nested
  <2> QED
    BY <2>5, <2>6
<1> QED
  BY <1>2, <1>3

\* call_tool of a listed wrapper with a listed tool has a target, whichever of the
\* three suffixes the name is recognised by.
LEMMA CallToolServes ==
    ASSUME TypeOK, NEW i \in Backends, Distinct(i), NEW op \in Wrappers,
           NEW tool \in backends[i].tools
    PROVE  \E t \in CallTool(Wrapper(backends[i].public, op), tool) : t.backend = i
<1> DEFINE name == Wrapper(backends[i].public, op)
<1>1. op \in Name /\ op \in Ops
  BY Literals DEF Wrappers, Ops
<1>2. backends[i].public \in Name
  BY ConfigTyped DEF Backend
<1>3. i \in BackendForWrapper(name)
  BY <1>1, DistinctFound
<1>4. IsSuffix(op, name)
  <2>1. backends[i].public \in Seq(Parts)
    BY <1>2 DEF Name
  <2> QED
    BY <1>1, <2>1, OwnSuffix DEF Wrapper
<1> HIDE DEF name
<1>5. /\ To("schema", i, tool) \in SchemaTarget(name, tool)
      /\ To("invoke", i, tool) \in InvokeBackend(BackendForWrapper(name), tool)
      /\ To("list", i, name) \in ListTarget(name)
  BY <1>3 DEF SchemaTarget, InvokeBackend, ListTarget
<1>6. \A o, x : To(o, i, x).backend = i
  BY DEF To
<1>7. \/ To("schema", i, tool) \in CallTool(name, tool)
      \/ To("invoke", i, tool) \in CallTool(name, tool)
      \/ To("list", i, name) \in CallTool(name, tool)
  BY <1>1, <1>4, <1>5 DEF CallTool, Ops
<1>8. \E t \in CallTool(name, tool) : t.backend = i
  BY <1>6, <1>7
<1> QED
  BY <1>8 DEF name

\* invoke_wrapper of the SDK finds the one wrapper of the server it is given.
LEMMA WrapperFound ==
    ASSUME TypeOK, config.mode = "CompressedTools",
           NEW i \in Backends, Distinct(i), backends[i].public # Empty
    PROVE  backends[i].public \o Invoke \in InvokeWrapper(backends[i].public)
<1> DEFINE p == backends[i].public
           m == [owner |-> i, name |-> p \o Invoke]
           matches == {f \in FrontendTools : /\ IsStrictSuffix(Invoke, f.name)
                                             /\ p # None => f.name = p \o Invoke}
<1>1. p \in Name /\ p \in Seq(Parts) /\ p # None /\ Invoke \in Name /\ Invoke \in Wrappers
  BY ConfigTyped, Literals DEF Backend, Name, Wrappers
<1>2. FrontendTools = {[owner |-> j, name |-> Wrapper(backends[j].public, op)] :
                         j \in Backends, op \in Wrappers}
  BY DEF FrontendTools
<1>3. m \in matches
  <2>1. Wrapper(p, Invoke) = p \o Invoke
    BY DEF Wrapper
  <2>2. m \in FrontendTools
    <3>1. [owner |-> i, name |-> Wrapper(backends[i].public, Invoke)] \in FrontendTools
      BY <1>1, <1>2
    <3> QED
      BY <2>1, <3>1
  <2>3. IsStrictSuffix(Invoke, p \o Invoke)
    BY <1>1, OwnSuffix
  <2> QED
    BY <2>2, <2>3
<1>4. ASSUME NEW f \in matches
      PROVE  f = m
  <2>1. PICK j \in Backends, op \in Wrappers :
          f = [owner |-> j, name |-> Wrapper(backends[j].public, op)]
    BY <1>2
  <2>2. f.owner = j /\ f.name = Wrapper(backends[j].public, op) /\ f.name = p \o Invoke
    BY <1>1, <2>1
  <2>3. op \in Name /\ backends[j].public \in Name
    BY Literals, ConfigTyped DEF Wrappers, Backend
  <2>4. CASE j # i
    <3>1. StartsWithPrefix(p \o Invoke, backends[j].public)
      BY <2>2, <2>3, OwnPrefix
    <3>2. Nested(backends[j].public, p)
      BY <1>1, <2>3, <3>1, PrefixNested
    <3> QED
      BY <2>4, <3>2 DEF Distinct, Nested
  <2>5. CASE j = i
    BY <2>1, <2>2, <2>5
  <2> QED
    BY <2>4, <2>5
<1>5. InvokeWrapper(p) = {f.name : f \in {x \in matches : matches = {x}}}
  BY DEF InvokeWrapper
<1> HIDE DEF matches, m
<1>6. matches = {m}
  BY <1>3, <1>4
<1>7. m.name \in InvokeWrapper(p)
  BY <1>3, <1>5, <1>6
<1> QED
  BY <1>7 DEF m

\* An SDK call that names such a server reaches it.
LEMMA InvokeOnServes ==
    ASSUME TypeOK, config.mode = "CompressedTools", NEW i \in Backends, Distinct(i),
           backends[i].public # Empty, NEW tool \in backends[i].tools
    PROVE  \E w \in InvokeWrapper(backends[i].public) : \E t \in Exec(w, TRUE, tool) : t.backend = i
<1> DEFINE w == backends[i].public \o Invoke
<1>1. w \in InvokeWrapper(backends[i].public)
  BY WrapperFound
<1>2. backends[i].public \in Name /\ backends[i].public \in Seq(Parts) /\ Invoke \in Name
  BY ConfigTyped, Literals DEF Backend, Name
<1>3. IsStrictSuffix(Invoke, w)
  BY <1>2, OwnSuffix
<1>4. i \in BackendForWrapper(w)
  BY <1>2, DistinctFound
<1>5. To("invoke", i, tool) \in Exec(w, TRUE, tool) /\ To("invoke", i, tool).backend = i
  BY <1>3, <1>4 DEF Exec, InvokeBackend, To
<1> QED
  BY <1>1, <1>5

\* Both paths of ListedCallServed.
LEMMA Serves ==
    ASSUME TypeOK, NEW r \in Requests
    PROVE  ListedRequest(r, Target(r))
<1> SUFFICES ASSUME config.mode = "CompressedTools",
                    r.path = "mcp" \/ (r.path = "invoke_on" /\ r.name # Empty),
                    r.item \in backends[r.owner].tools, Distinct(r.owner)
             PROVE  \E t \in Target(r) : t.backend = r.owner
  BY DEF ListedRequest
<1>1. r \in ToolRequests
  BY DEF Requests, ListedRequests, Request
<1>2. CASE r.path = "mcp"
  <2>1. PICK path \in {"executable", "mcp"}, f \in FrontendTools, u \in ToolNames :
          r = Request(path, f.owner, f.name, u)
    BY <1>1, <1>2 DEF ToolRequests, Request
  <2>2. PICK j \in Backends, op \in Wrappers :
          f = [owner |-> j, name |-> Wrapper(backends[j].public, op)]
    BY DEF FrontendTools
  <2>3. r.owner = j /\ r.name = Wrapper(backends[j].public, op)
    BY <2>1, <2>2 DEF Request
  <2> QED
    BY <1>2, <2>3, CallToolServes DEF Target
<1>3. CASE r.path = "invoke_on" /\ r.name # Empty
  <2>1. PICK path \in {"invoke_on", "invoke"}, i \in Backends, u \in ToolNames :
          r = Request(path, i, backends[i].public, u)
    BY <1>1, <1>3 DEF ToolRequests, Request
  <2>2. r.owner = i /\ r.name = backends[i].public
    BY <2>1 DEF Request
  <2>3. Target(r) = UNION {Exec(w, TRUE, r.item) : w \in InvokeWrapper(r.name)}
    BY <1>3 DEF Target
  <2>4. \E w \in InvokeWrapper(r.name) : \E t \in Exec(w, TRUE, r.item) : t.backend = i
    BY <1>3, <2>2, InvokeOnServes
  <2> QED
    BY <2>2, <2>3, <2>4
<1> QED
  BY <1>2, <1>3

\* A listed resource has a source, the compressor's own coming first.
LEMMA Reads ==
    ASSUME TypeOK, NEW r \in Requests
    PROVE  ReadRequest(r, Target(r))
<1> SUFFICES ASSUME r.path = "resource"
             PROVE  ReadRequest(r, Target(r))
  BY DEF ReadRequest
<1> DEFINE uri == r.name
           own == {i \in Backends : uri = OwnResource(i)}
           up  == {i \in Backends : uri \in backends[i].resources}
<1>1. PICK h \in Backends : uri \in backends[h].resources \cup {OwnResource(h)}
  BY DEF Requests, ToolRequests, ListedRequests, Request
<1>2. own \in SUBSET Nat /\ up \in SUBSET Nat
  BY DEF Backends
<1>3. Target(r) = IF First(own) # {} THEN {To("own", i, uri) : i \in First(own)}
                  ELSE {To("read", i, uri) : i \in First(up)}
  BY DEF Target, ReadResource
<1>4. /\ \A i : To("own", i, uri).item = uri /\ To("own", i, uri).op = "own"
                /\ To("own", i, uri).backend = i
      /\ \A i : To("read", i, uri).item = uri /\ To("read", i, uri).op = "read"
                /\ To("read", i, uri).backend = i
  BY DEF To
<1>5. CASE own # {}
  <2>1. PICK i \in own : i \in First(own)
    BY <1>2, <1>5, FirstExists
  <2>2. To("own", i, uri) \in Target(r)
    BY <1>3, <2>1
  <2> QED
    BY <1>4, <2>1, <2>2 DEF ReadRequest
<1>6. CASE own = {}
  <2>1. First(own) = {} /\ up # {}
    BY <1>1, <1>6 DEF First
  <2>2. PICK i \in up : i \in First(up)
    BY <1>2, <2>1, FirstExists
  <2>3. To("read", i, uri) \in Target(r)
    BY <1>3, <2>1, <2>2
  <2> QED
    BY <1>4, <1>6, <2>2, <2>3 DEF ReadRequest
<1> QED
  BY <1>5, <1>6

----------------------------------------------------------------------------
(* The invariant *)

\* A server that is starting has no backends and no calls.
LEMMA InitInv == ASSUME Init PROVE IInv
<1>1. config \in ConfigType /\ config.servers \in Seq(Server)
  BY ConfigsAssumption DEF Init, ConfigType
<1>2. offers \in [Servers -> SUBSET Name]
  <2>1. \A i \in Servers : config.servers[i] \in Server
    BY <1>1 DEF Servers
  <2>2. \A i \in Servers : config.servers[i].tools \subseteq Name
    BY <2>1 DEF Server
  <2> QED
    BY <2>2 DEF Init
<1>3. Calls = {}
  BY DEF Init, Calls
<1> QED
  BY <1>1, <1>2, <1>3 DEF Init, IInv, TypeOK, FilteredAtConnect, Servers, Backends

\* What was right of a call stays right while the backends are the same.
LEMMA RightStays ==
    ASSUME UNCHANGED <<config, backends>>
    PROVE  \A k : Right(k) => Right(k)'
<1>1. \A k : StrayCall(k) => StrayCall(k)'
  BY DEF StrayCall
<1>2. \A k : HiddenCall(k) => HiddenCall(k)'
  BY DEF HiddenCall, Visible
<1>3. \A r, target : ListedRequest(r, target) => ListedRequest(r, target)'
  BY DEF ListedRequest, Distinct, Backends
<1>4. \A r, target : ReadRequest(r, target) => ReadRequest(r, target)'
  BY DEF ReadRequest, OwnResource, Backends
<1> QED
  BY <1>1, <1>2, <1>3, <1>4 DEF Right

\* Every step preserves the invariant: connecting filters, and calls are read only.
LEMMA StepInv == ASSUME IInv, [Next]_vars PROVE IInv'
<1> USE DEF IInv
<1>0. config' = config /\ Servers' = Servers /\ \A x : Visible(x)' = Visible(x)
  BY DEF Next, vars, ConnectNext, ConnectFails, Start, UpstreamChanges, Call, UpstreamAnswers,
         CallReturns, Servers, Visible
<1>1. CASE ConnectNext
  <2> DEFINE i == Len(backends) + 1
             s == config.servers[i]
  <2>1. i \in Servers /\ s \in Server /\ backends \in Seq(Backend) /\ Len(backends) \in Nat
    BY <1>1, ConfigTyped DEF ConnectNext, Servers, TypeOK
  <2>2. PICK resources \in {s.resources, {}}, prompts \in {s.prompts, {}} :
          backends' = Append(backends, [public |-> PublicName(s.name), tools |-> Visible(offers[i]),
                                        resources |-> resources, prompts |-> prompts])
    BY <1>1 DEF ConnectNext
  <2> DEFINE b == [public |-> PublicName(s.name), tools |-> Visible(offers[i]),
                   resources |-> resources, prompts |-> prompts]
  <2>3. PublicName(s.name) \in Name
    <3>1. s.name \in Name /\ config.serverName \in Name \cup {None}
      BY <2>1, ConfigTyped DEF Server, ConfigType
    <3>2. config.serverName \o s.name \in Name
      <4>1. <<>> \in Seq(Parts)
        OBVIOUS
      <4>2. config.serverName \in Seq(Parts)
        BY <3>1, <4>1 DEF Name, None
      <4> QED
        BY <3>1, <4>2, Joined
    <3>3. Empty \in Name
      BY Literals
    <3> QED
      BY <3>1, <3>2, <3>3 DEF PublicName
  <2>4. b \in Backend
    <3>1. Visible(offers[i]) \subseteq Name
      BY <2>1 DEF Visible, TypeOK
    <3>2. resources \subseteq Name /\ prompts \subseteq Name
      BY <2>1 DEF Server
    <3> QED
      BY <2>3, <3>1, <3>2 DEF Backend
  <2>5. backends' \in Seq(Backend) /\ Len(backends') = i /\ backends'[i] = b
        /\ \A h \in Backends : backends'[h] = backends[h]
    BY <2>1, <2>2, <2>4 DEF Backends
  <2>6. Visible(offers[i]) \subseteq Visible(config.servers[i].tools)
    BY <2>1 DEF FilteredAtConnect, Visible
  <2>7. FilteredAtConnect'
    <3>1. Backends' = Backends \cup {i}
      BY <2>1, <2>5 DEF Backends
    <3>2. offers' = offers
      BY <1>1 DEF ConnectNext
    <3> QED
      BY <1>0, <2>5, <2>6, <3>1, <3>2 DEF FilteredAtConnect
  <2>8. TypeOK'
    BY <1>0, <1>1, <2>1, <2>5 DEF TypeOK, ConnectNext, Servers
  <2>9. Calls' = {}
    BY <1>1 DEF ConnectNext, Calls
  <2> QED
    BY <2>7, <2>8, <2>9
<1>2. CASE ConnectFails
  BY <1>0, <1>2 DEF ConnectFails, TypeOK, FilteredAtConnect, Calls, Backends
<1>3. CASE Start
  BY <1>0, <1>3 DEF Start, TypeOK, FilteredAtConnect, Calls, Backends
<1>4. ASSUME NEW i \in Servers, UpstreamChanges(i)
      PROVE  IInv'
  <2>1. offers' \in [Servers -> SUBSET Name] /\ \A h \in Servers : offers'[h] \subseteq config.servers[h].tools
    <3>1. PICK t \in config.servers[i].tools :
            offers' = [offers EXCEPT ![i] = IF t \in @ THEN @ \ {t} ELSE @ \cup {t}]
      BY <1>4 DEF UpstreamChanges
    <3>2. config.servers[i].tools \subseteq Name
      BY ConfigTyped DEF Server
    <3> QED
      BY <3>1, <3>2 DEF TypeOK, FilteredAtConnect
  <2>2. UNCHANGED <<config, phase, backends, call>>
    BY <1>4 DEF UpstreamChanges
  <2>3. TypeOK'
    BY <1>0, <2>1, <2>2 DEF TypeOK
  <2>4. FilteredAtConnect'
    BY <1>0, <2>1, <2>2 DEF FilteredAtConnect, Backends
  <2>5. Calls' = Calls
    BY <2>2 DEF Calls
  <2>6. \A k : Right(k) => Right(k)'
    BY <2>2, RightStays
  <2> QED
    BY <2>2, <2>3, <2>4, <2>5, <2>6
<1>5. ASSUME NEW c \in Clients, UNCHANGED <<config, phase, backends, offers>>,
             NEW K, call' = [call EXCEPT ![c] = K],
             \A k \in K : phase = "running" /\ Right(k)
      PROVE  IInv'
  <2>1. TypeOK' /\ FilteredAtConnect'
    BY <1>0, <1>5 DEF TypeOK, FilteredAtConnect, Backends
  <2>2. \A k : Right(k) => Right(k)'
    BY <1>5, RightStays
  <2>3. Calls' \subseteq Calls \cup K
    BY <1>5 DEF Calls, TypeOK
  <2> QED
    BY <1>5, <2>1, <2>2, <2>3
<1>6. ASSUME NEW c \in Clients, Call(c)
      PROVE  IInv'
  <2>1. PICK r \in Requests :
          call' = [call EXCEPT ![c] =
            {[request |-> r, target |-> Target(r),
              state |-> IF Target(r) = {} THEN "unknown"
                        ELSE IF \E t \in Target(r) : t.op \in {"invoke", "read", "prompt"}
                             THEN "sent" ELSE "served"]}]
    BY <1>6 DEF Call
  <2> DEFINE k == [request |-> r, target |-> Target(r),
                   state |-> IF Target(r) = {} THEN "unknown"
                             ELSE IF \E t \in Target(r) : t.op \in {"invoke", "read", "prompt"}
                                  THEN "sent" ELSE "served"]
  <2>2. k.request = r /\ k.target = Target(r)
    OBVIOUS
  <2>3. StrayCall(k) /\ HiddenCall(k)
    BY <2>2, Strays, Hides DEF StrayCall, HiddenCall
  <2>4. ListedRequest(k.request, k.target) /\ ReadRequest(k.request, k.target)
    BY <2>2, Serves, Reads
  <2>5. phase = "running" /\ UNCHANGED <<config, phase, backends, offers>>
    BY <1>6 DEF Call
  <2>6. call' = [call EXCEPT ![c] = {k}]
    BY <2>1
  <2> HIDE DEF k
  <2>7. \A x \in {k} : phase = "running" /\ Right(x)
    BY <2>3, <2>4, <2>5 DEF Right
  <2> QED
    BY <1>5, <2>5, <2>6, <2>7
<1>7. ASSUME NEW c \in Clients, UpstreamAnswers(c)
      PROVE  IInv'
  <2>1. PICK k \in call[c], state \in {"served", "refused"} :
          call' = [call EXCEPT ![c] = {[k EXCEPT !.state = state]}]
    BY <1>7 DEF UpstreamAnswers
  <2>2. k \in Calls
    BY DEF Calls
  <2> DEFINE m == [k EXCEPT !.state = state]
  <2>3. m.request = k.request /\ m.target = k.target
    OBVIOUS
  <2>4. phase = "running" /\ Right(m)
    BY <2>2, <2>3 DEF Right, StrayCall, HiddenCall
  <2>5. UNCHANGED <<config, phase, backends, offers>> /\ call' = [call EXCEPT ![c] = {m}]
    BY <1>7, <2>1 DEF UpstreamAnswers
  <2> HIDE DEF m
  <2> QED
    BY <1>5, <2>4, <2>5
<1>8. ASSUME NEW c \in Clients, CallReturns(c)
      PROVE  IInv'
  BY <1>5, <1>8 DEF CallReturns
<1>9. CASE UNCHANGED vars
  <2>1. TypeOK' /\ FilteredAtConnect' /\ Calls' = Calls /\ phase' = phase
    BY <1>0, <1>9 DEF vars, TypeOK, FilteredAtConnect, Calls, Backends
  <2>2. \A k : Right(k) => Right(k)'
    BY <1>9, RightStays DEF vars
  <2> QED
    BY <2>1, <2>2
<1> QED
  BY <1>1, <1>2, <1>3, <1>4, <1>6, <1>7, <1>8, <1>9 DEF Next

\* The invariant holds in every state, whatever the configuration and the clients.
THEOREM Inductive == Spec => []IInv
BY InitInv, StepInv, PTL DEF Spec

\* Types, for every set of configurations and clients.
THEOREM TypeCorrect == Spec => []TypeOK
<1>1. IInv => TypeOK
  BY DEF IInv
<1> QED
  BY <1>1, Inductive, PTL

\* A call strays only to an earlier server with a nested name: with unrelated names
\* every wrapper reaches its own server, however many there are.
THEOREM NoStray == Spec => []StrayOnlyWhenNested
<1>1. IInv => StrayOnlyWhenNested
  BY DEF IInv, Right, StrayCall, StrayOnlyWhenNested
<1> QED
  BY <1>1, Inductive, PTL

\* A tool that the filters hide is not forwarded to any upstream, on any path.
THEOREM FiltersHold == Spec => []HiddenNeverReached
<1>1. IInv => HiddenNeverReached
  BY DEF IInv, Right, HiddenCall, HiddenNeverReached
<1> QED
  BY <1>1, Inductive, PTL

\* A listed wrapper reaches its server with a listed tool, over MCP and from the SDK,
\* unless its name is nested with another: no other name can take the call away.
THEOREM WrappersWork == Spec => []ListedCallServed
<1>1. IInv => ListedCallServed
  BY DEF IInv, Right, ListedRequest, ListedCallServed
<1> QED
  BY <1>1, Inductive, PTL

\* A listed resource is read from the compressor if it is the compressor's own, else
\* from an upstream that lists it, however many list the same.
THEOREM ReadsFindSource == Spec => []ReadsReachTheirSource
<1>1. IInv => ReadsReachTheirSource
  BY DEF IInv, Right, ReadRequest, ReadsReachTheirSource
<1> QED
  BY <1>1, Inductive, PTL
=============================================================================
