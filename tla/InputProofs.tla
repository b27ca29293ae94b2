---------------------------- MODULE InputProofs ----------------------------
(* Theorems about the pure parts, for all inputs of each kind. *)
EXTENDS Inputs, FiniteSetTheorems, TLAPS, WellFoundedInduction

----------------------------------------------------------------------------
(* Induction, as a fact about sets of numbers *)

\* A set of numbers that is not empty has a least one.
LEMMA LeastExists ==
    ASSUME NEW S \in SUBSET Nat, S # {}
    PROVE  \E n \in S : \A m \in S : n <= m
<1>1. PICK n \in S : \A m \in S : ~(<<m, n>> \in OpToRel(<, Nat))
  BY NatLessThanWellFounded, WFMin
<1>2. OpToRel(<, Nat) = {p \in Nat \X Nat : p[1] < p[2]}
  BY Zenon DEF OpToRel
<1>3. \A m \in S : ~(m < n)
  BY <1>1, <1>2
<1> QED
  BY <1>3

\* Up to N, a set with 0 and with every successor of its elements has all numbers.
LEMMA Induction ==
    ASSUME NEW N \in Nat, NEW S, 0 \in S, \A n \in 0 .. N : n \in S /\ n < N => n + 1 \in S
    PROVE  \A n \in 0 .. N : n \in S
<1> DEFINE bad == {n \in 0 .. N : n \notin S}
<1> SUFFICES ASSUME bad # {} PROVE FALSE
  OBVIOUS
<1>1. PICK m \in bad : \A k \in bad : m <= k
  <2>1. bad \in SUBSET Nat
    OBVIOUS
  <2> HIDE DEF bad
  <2> QED
    BY <2>1, LeastExists
<1>2. m \in 0 .. N /\ m # 0 /\ m \notin S
  OBVIOUS
<1>3. m - 1 \in 0 .. N /\ m - 1 < N /\ (m - 1) + 1 = m
  BY <1>2
<1>4. m - 1 \in S
  BY <1>1, <1>3
<1> QED
  BY <1>2, <1>3, <1>4

\* A loop over N things: the accumulator after each of them.
Steps(N, A) == [(1 .. N) \X A -> A]
Loops(N, A) == [0 .. N -> A]
IsLoop(N, base, step, f) == f[0] = base /\ \A i \in 1 .. N : f[i] = step[<<i, f[i - 1]>>]

\* There is a function that is defined from its own value at the number before.
LEMMA Recursion ==
    ASSUME NEW N \in Nat, NEW A, NEW base \in A, NEW step \in Steps(N, A)
    PROVE  \E f \in Loops(N, A) : IsLoop(N, base, step, f)
<1> USE DEF Steps, Loops, IsLoop
<1> DEFINE upto(n, f) == f[0] = base /\ \A i \in 1 .. n : f[i] = step[<<i, f[i - 1]>>]
           S == {n \in 0 .. N : \E f \in [0 .. n -> A] : upto(n, f)}
<1>1. 0 \in S
  <2> DEFINE z == [i \in 0 .. 0 |-> base]
  <2>1. z \in [0 .. 0 -> A] /\ upto(0, z)
    OBVIOUS
  <2>2. 0 \in 0 .. N
    OBVIOUS
  <2> HIDE DEF z, upto
  <2> QED
    BY <2>1, <2>2
<1>2. ASSUME NEW n \in 0 .. N, n \in S, n < N PROVE n + 1 \in S
  <2>1. PICK f \in [0 .. n -> A] : upto(n, f)
    BY <1>2
  <2> DEFINE v == step[<<n + 1, f[n]>>]
             g == [i \in 0 .. (n + 1) |-> IF i = n + 1 THEN v ELSE f[i]]
  <2>2. n + 1 \in 1 .. N /\ n + 1 \in 0 .. N /\ f[n] \in A /\ v \in A
    BY <1>2
  <2>3. g \in [0 .. (n + 1) -> A]
    BY <1>2, <2>2
  <2>4. g[0] = base
    BY <1>2, <2>1
  <2>5. ASSUME NEW i \in 1 .. (n + 1) PROVE g[i] = step[<<i, g[i - 1]>>]
    <3>1. i - 1 \in 0 .. n /\ g[i - 1] = f[i - 1]
      BY <1>2
    <3>2. CASE i = n + 1
      <4>1. g[i] = v /\ i - 1 = n
        BY <1>2, <3>2
      <4> HIDE DEF g
      <4>2. g[n] = f[n]
        BY <3>1, <4>1
      <4> QED
        BY <3>2, <4>1, <4>2
    <3>3. CASE i # n + 1
      <4>1. i \in 1 .. n /\ g[i] = f[i]
        BY <1>2, <3>3
      <4> QED
        BY <2>1, <3>1, <4>1
    <3> QED
      BY <3>2, <3>3
  <2> HIDE DEF g, v
  <2> QED
    BY <2>2, <2>3, <2>4, <2>5
<1>3. N \in S
  <2> HIDE DEF S
  <2>1. \A n \in 0 .. N : n \in S
    BY <1>1, <1>2, Induction
  <2> QED
    BY <2>1
<1> QED
  BY <1>3

----------------------------------------------------------------------------
(* Sequences by their places *)

LEMMA SameSeq ==
    ASSUME NEW S, NEW a \in Seq(S), NEW b \in Seq(S), Len(a) = Len(b), \A i \in 1 .. Len(a) : a[i] = b[i]
    PROVE  a = b
OBVIOUS

\* c is a and then b, of elements of S.
IsJoined(S, a, b, c) ==
    /\ c \in Seq(S) /\ Len(a) \in Nat /\ Len(b) \in Nat /\ Len(c) = Len(a) + Len(b)
    /\ \A i \in 1 .. Len(a) : c[i] = a[i]
    /\ \A i \in 1 .. Len(b) : c[Len(a) + i] = b[i]

LEMMA Joined ==
    ASSUME NEW S, NEW a \in Seq(S), NEW b \in Seq(S)
    PROVE  IsJoined(S, a, b, a \o b)
BY DEF IsJoined

\* s is a without its first m, up to n.
IsCutOut(S, a, m, n, s) == s \in Seq(S) /\ Len(s) = n - m /\ \A k \in 1 .. (n - m) : s[k] = a[m + k]

LEMMA CutOut ==
    ASSUME NEW S, NEW a \in Seq(S), NEW m \in Nat, NEW n \in Nat, m <= n, n <= Len(a)
    PROVE  IsCutOut(S, a, m, n, SubSeq(a, m + 1, n))
<1> DEFINE s == SubSeq(a, m + 1, n)
<1>1. s \in Seq(S) /\ Len(s) = n - m
  OBVIOUS
<1>2. \A k \in 1 .. (n - m) : s[k] = a[(m + 1) + k - 1] /\ (m + 1) + k - 1 = m + k
  OBVIOUS
<1> HIDE DEF s
<1>3. IsCutOut(S, a, m, n, s)
  BY <1>1, <1>2 DEF IsCutOut
<1> QED
  BY <1>3 DEF s

LEMMA Associative ==
    ASSUME NEW S, NEW a \in Seq(S), NEW b \in Seq(S), NEW c \in Seq(S)
    PROVE  (a \o b) \o c = a \o (b \o c)
<1> DEFINE ab == a \o b
           bc == b \o c
           x == ab \o c
           y == a \o bc
<1>1. IsJoined(S, a, b, ab) /\ IsJoined(S, b, c, bc)
  BY Joined
<1>2. ab \in Seq(S) /\ bc \in Seq(S)
  OBVIOUS
<1> HIDE DEF ab, bc
<1>3. IsJoined(S, ab, c, x) /\ IsJoined(S, a, bc, y)
  BY <1>2, Joined
<1> HIDE DEF x, y
<1>4. x \in Seq(S) /\ y \in Seq(S) /\ Len(x) = Len(y) /\ Len(a) \in Nat /\ Len(b) \in Nat /\ Len(c) \in Nat
      /\ Len(ab) = Len(a) + Len(b) /\ Len(bc) = Len(b) + Len(c) /\ Len(x) = Len(a) + Len(b) + Len(c)
  BY <1>1, <1>3 DEF IsJoined
<1>5. ASSUME NEW i \in 1 .. Len(x) PROVE x[i] = y[i]
  <2>1. CASE i <= Len(a)
    <3>1. i \in 1 .. Len(a) /\ i \in 1 .. Len(ab)
      BY <1>4, <2>1
    <3> QED
      BY <1>1, <1>3, <3>1 DEF IsJoined
  <2>2. CASE i > Len(a) /\ i <= Len(ab)
    <3> DEFINE k == i - Len(a)
    <3>1. i \in 1 .. Len(ab) /\ k \in 1 .. Len(b) /\ k \in 1 .. Len(bc) /\ i = Len(a) + k
      BY <1>4, <2>2
    <3> HIDE DEF k
    <3> QED
      BY <1>1, <1>3, <3>1 DEF IsJoined
  <2>3. CASE i > Len(ab)
    <3> DEFINE k == i - Len(ab)
    <3>1. k \in 1 .. Len(c) /\ i = Len(ab) + k /\ Len(b) + k \in 1 .. Len(bc) /\ i = Len(a) + (Len(b) + k)
      BY <1>4, <2>3
    <3> HIDE DEF k
    <3> QED
      BY <1>1, <1>3, <3>1 DEF IsJoined
  <2> QED
    BY <1>4, <2>1, <2>2, <2>3
<1>6. x = y
  BY <1>4, <1>5, SameSeq
<1> QED
  BY <1>6 DEF x, y, ab, bc

LEMMA MinOf ==
    ASSUME NEW I \in SUBSET Nat, I # {}
    PROVE  Min(I) \in I /\ \A m \in I : Min(I) <= m
<1>1. \E n \in I : \A m \in I : n <= m
  BY LeastExists
<1> QED
  BY <1>1 DEF Min

LEMMA MaxOf ==
    ASSUME NEW N \in Nat, NEW I \in SUBSET (0 .. N), I # {}
    PROVE  Max(I) \in I /\ \A m \in I : Max(I) >= m
<1> DEFINE J == {N - i : i \in I}
<1>1. J \in SUBSET Nat /\ J # {}
  <2>1. \A i \in I : N - i \in Nat
    OBVIOUS
  <2> QED
    BY <2>1
<1>2. PICK j \in J : \A k \in J : j <= k
  <2> HIDE DEF J
  <2> QED
    BY <1>1, LeastExists
<1>3. PICK i \in I : j = N - i
  OBVIOUS
<1>4. \A m \in I : i >= m
  <2> SUFFICES ASSUME NEW m \in I PROVE i >= m
    OBVIOUS
  <2>1. N - m \in J
    OBVIOUS
  <2>2. N - i <= N - m /\ i \in 0 .. N /\ m \in 0 .. N
    BY <1>2, <1>3, <2>1
  <2> QED
    BY <2>2
<1> QED
  BY <1>4 DEF Max

----------------------------------------------------------------------------
(* Launch *)

\* A directory that is announced as on the PATH is one, or the variable's.
LEMMA DirOnPath ==
    ASSUME NEW m \in Hosts, L!CliOutputDir(m).onPath
    PROVE  L!CliOutputDir(m).dir \in m.path \cup {m.variable}
<1> DEFINE I == {i \in 1 .. Len(L!Candidates) : L!Candidates[i] \in m.there /\ L!Candidates[i] \in m.path}
           at == IF I # {} THEN Min(I) ELSE 0
<1>1. L!CliOutputDir(m) =
        CASE m.variable # "none" -> [dir |-> m.variable, onPath |-> TRUE]
          [] m.variable = "none" /\ at > 0 -> [dir |-> L!Candidates[at], onPath |-> TRUE]
          [] OTHER -> [dir |-> "here", onPath |-> FALSE]
  BY DEF L!CliOutputDir, L!SelectInSeq, L!Min, Min
<1>2. at # 0 => at \in I
  <2>1. I \in SUBSET Nat
    OBVIOUS
  <2> HIDE DEF I
  <2> QED
    BY <2>1, MinOf
<1>3. CASE m.variable # "none"
  BY <1>1, <1>3
<1>4. CASE m.variable = "none"
  <2>1. CASE at > 0
    <3>1. L!Candidates[at] \in m.path
      BY <1>2, <2>1
    <3> HIDE DEF at
    <3> QED
      BY <1>1, <1>4, <2>1, <3>1
  <2>2. CASE ~(at > 0)
    <3> HIDE DEF at
    <3> QED
      BY <1>1, <1>4, <2>2
  <2> QED
    BY <2>1, <2>2
<1> QED
  BY <1>3, <1>4

LEMMA WrittenFiles ==
    ASSUME NEW c \in CommandLines
    PROVE  /\ DOMAIN L!Written(c) = 1 .. Len(L!Written(c)) /\ Len(L!Written(c)) \in {1, 2}
           /\ L!ClientArtifactKind(c) = "script" => L!Written(c) = <<[stem |-> L!CliName(c), ext |-> "none"]>>
<1> DEFINE kinds == L!ClientArtifactKind(c)
           file(ext) == [stem |-> L!CliName(c), ext |-> ext]
<1>1. L!Written(c) = CASE kinds = "python"     -> <<file(".py")>>
                       [] kinds = "typescript" -> <<file(".ts"), file(".d.ts")>>
                       [] OTHER                -> <<file("none")>>
  BY DEF L!Written
<1> HIDE DEF kinds
<1>2. CASE kinds = "python"
  <2>1. L!Written(c) = <<file(".py")>>
    BY <1>1, <1>2
  <2> QED
    BY <1>2, <2>1 DEF kinds
<1>3. CASE kinds = "typescript"
  <2>1. L!Written(c) = <<file(".ts"), file(".d.ts")>>
    BY <1>1, <1>3
  <2> QED
    BY <1>3, <2>1 DEF kinds
<1>4. CASE kinds \notin {"python", "typescript"}
  <2>1. L!Written(c) = <<file("none")>>
    BY <1>1, <1>4
  <2> QED
    BY <1>4, <2>1 DEF kinds
<1> QED
  BY <1>2, <1>3, <1>4

\* The script that is announced is one of the files.
LEMMA ScriptIsWritten ==
    ASSUME NEW c \in CommandLines, NEW m
    PROVE  LET r == L!RunCliMode(c, m)
           IN  /\ \E i \in DOMAIN r.files : r.script = r.files[i]
               /\ r.kind = "script" => r.script.ext = "none"
<1> DEFINE files == L!Written(c)
           I == {i \in 1 .. Len(files) : files[i] = [stem |-> L!CliName(c), ext |-> "none"]}
           named == IF I # {} THEN Min(I) ELSE 0
           at == IF named = 0 THEN 1 ELSE named
<1>1. L!RunCliMode(c, m).files = files /\ L!RunCliMode(c, m).kind = L!ClientArtifactKind(c)
  BY DEF L!RunCliMode
<1>2. L!RunCliMode(c, m).script = files[at]
  BY DEF L!RunCliMode, L!SelectInSeq, L!Min, Min
<1> HIDE DEF files
<1>3. DOMAIN files = 1 .. Len(files) /\ Len(files) \in {1, 2}
  BY WrittenFiles DEF files
<1>4. I # {} => Min(I) \in I
  <2>1. I \in SUBSET Nat
    BY <1>3
  <2> HIDE DEF I
  <2> QED
    BY <2>1, MinOf
<1>5. named = 0 \/ named \in 1 .. Len(files)
  BY <1>4
<1> HIDE DEF named
<1>6. at \in DOMAIN files
  BY <1>3, <1>5
<1>7. ASSUME L!ClientArtifactKind(c) = "script" PROVE files[at].ext = "none"
  <2>1. files = <<[stem |-> L!CliName(c), ext |-> "none"]>>
    BY <1>7, WrittenFiles DEF files
  <2>2. at = 1
    BY <1>3, <1>6, <2>1
  <2> QED
    BY <2>1, <2>2
<1> HIDE DEF at
<1> QED
  BY <1>1, <1>2, <1>6, <1>7

\* What is started, case by case.
LEMMA LaunchedCases ==
    ASSUME NEW c \in CommandLines, NEW m \in Hosts
    PROVE  LET r == L!Launched(c, m)
           IN  \/ /\ r.mode \notin {"cli", "just-bash", "compressed-tools"}
                  /\ r.mode = "usage" => ~L!Validate(c) \/ ~c.config
               \/ /\ L!Validate(c) /\ L!TransformMode(c) # "cli" /\ ~L!NothingToRun(c)
                  /\ r = [mode |-> L!TransformMode(c)]
               \/ /\ L!Validate(c) /\ L!TransformMode(c) = "cli" /\ L!Backends(c, m) = 1
                  /\ r = L!RunCliMode(c, m)
<1> DEFINE r == L!Launched(c, m)
<1>1. CASE ~L!Validate(c)
  BY <1>1 DEF L!Launched
<1>2. CASE L!Validate(c) /\ c.sub # "none"
  BY <1>2 DEF L!Launched, CommandLines
<1>3. CASE L!Validate(c) /\ c.sub = "none"
  <2>1. CASE L!NothingToRun(c)
    BY <1>3, <2>1 DEF L!Launched, L!NothingToRun
  <2>2. CASE ~L!NothingToRun(c)
    <3>1. r = CASE L!TransformMode(c) # "cli" -> [mode |-> L!TransformMode(c)]
                [] L!TransformMode(c) = "cli" /\ L!Backends(c, m) # 1 -> [mode |-> "refused"]
                [] OTHER -> L!RunCliMode(c, m)
      BY <1>3, <2>2 DEF L!Launched
    <3> HIDE DEF r
    <3>2. CASE L!TransformMode(c) # "cli"
      BY <1>3, <2>2, <3>1, <3>2 DEF r
    <3>3. CASE L!TransformMode(c) = "cli" /\ L!Backends(c, m) # 1
      <4>1. r = [mode |-> "refused"]
        BY <3>1, <3>3
      <4> QED
        BY <4>1 DEF r
    <3>4. CASE L!TransformMode(c) = "cli" /\ L!Backends(c, m) = 1
      BY <1>3, <3>1, <3>4 DEF r
    <3> QED
      BY <3>2, <3>3, <3>4
  <2> QED
    BY <2>1, <2>2
<1> QED
  BY <1>1, <1>2, <1>3

\* A command line that is valid asks for one thing at most.
LEMMA ValidAsksOnce ==
    ASSUME NEW c \in CommandLines, L!Validate(c)
    PROVE  LET code == c.code # "none" \/ c.python \/ c.typescript
           IN  /\ ~(c.cli /\ c.bash) /\ ~(c.cli /\ code) /\ ~(c.bash /\ code)
               /\ ~(c.code # "none" /\ c.python) /\ ~(c.code # "none" /\ c.typescript)
               /\ ~(c.python /\ c.typescript)
<1> DEFINE code == c.code # "none" \/ c.python \/ c.typescript
           modes == <<c.cli, c.bash, code>>
           langs == <<c.code # "none", c.python, c.typescript>>
<1>1. L!AtMostOne(modes) /\ L!AtMostOne(langs)
  BY DEF L!Validate
<1>2. /\ DOMAIN modes = 1 .. 3 /\ DOMAIN langs = 1 .. 3
      /\ modes[1] = c.cli /\ modes[2] = c.bash /\ modes[3] = code
      /\ langs[1] = (c.code # "none") /\ langs[2] = c.python /\ langs[3] = c.typescript
  OBVIOUS
<1> HIDE DEF modes, langs
<1>3. /\ ~(modes[1] /\ modes[2]) /\ ~(modes[1] /\ modes[3]) /\ ~(modes[2] /\ modes[3])
      /\ ~(langs[1] /\ langs[2]) /\ ~(langs[1] /\ langs[3]) /\ ~(langs[2] /\ langs[3])
  <2>1. \A i, j \in 1 .. 3 : (modes[i] /\ modes[j] => i = j) /\ (langs[i] /\ langs[j] => i = j)
    BY <1>1, <1>2 DEF L!AtMostOne
  <2> QED
    BY <2>1
<1> QED
  BY <1>2, <1>3

LEMMA LaunchedIsAsked ==
    ASSUME NEW c \in CommandLines, NEW m \in Hosts
    PROVE  L!LaunchedAsAsked(c, m)
<1> DEFINE r == L!Launched(c, m)
<1>0. /\ c.code \in {"none", "python", "typescript"} /\ c.mode \in {"compressed-tools", "cli", "just-bash"}
      /\ c.cli \in BOOLEAN /\ c.bash \in BOOLEAN /\ c.python \in BOOLEAN /\ c.typescript \in BOOLEAN
  BY DEF CommandLines
<1>1. ASSUME NEW x \in L!Asked(c), NEW y \in L!Asked(c), x # y
      PROVE  r.mode = "usage"
  <2>1. ~L!Validate(c)
    <3> SUFFICES ASSUME L!Validate(c) PROVE FALSE
      OBVIOUS
    <3> QED
      BY <1>0, <1>1, ValidAsksOnce DEF L!Asked
  <2> QED
    BY <2>1 DEF L!Launched
<1>2. ASSUME r.mode \in {"cli", "just-bash", "compressed-tools"}
      PROVE  \/ L!Asked(c) = {} /\ r.mode = c.mode
             \/ L!Asked(c) = {<<r.mode, IF r.mode = "cli" THEN r.kind ELSE "none">>}
  <2>1. CASE L!Validate(c) /\ L!TransformMode(c) # "cli" /\ r = [mode |-> L!TransformMode(c)]
    <3>1. r.mode = L!TransformMode(c)
      BY <2>1
    <3> HIDE DEF r
    <3> QED
      BY <1>0, <2>1, <3>1, ValidAsksOnce DEF L!Asked, L!TransformMode
  <2>2. CASE L!Validate(c) /\ L!TransformMode(c) = "cli" /\ r = L!RunCliMode(c, m)
    <3>1. r.mode = "cli" /\ r.kind = L!ClientArtifactKind(c)
      BY <2>2 DEF L!RunCliMode
    <3> HIDE DEF r
    <3> QED
      BY <1>0, <2>2, <3>1, ValidAsksOnce DEF L!Asked, L!TransformMode, L!ClientArtifactKind
  <2> QED
    BY <1>2, <2>1, <2>2, LaunchedCases
<1>4. ASSUME r.mode \in {"cli", "just-bash", "compressed-tools"}, L!Backends(c, m) = 0
      PROVE  c.config /\ r.mode # "cli"
  <2>1. /\ L!Validate(c) /\ L!TransformMode(c) # "cli" /\ ~L!NothingToRun(c)
        /\ r = [mode |-> L!TransformMode(c)]
    BY <1>4, LaunchedCases
  <2>2. r.mode # "cli"
    BY <2>1
  <2>3. c.config
    <3> SUFFICES ASSUME ~c.config PROVE FALSE
      OBVIOUS
    <3>1. c.multi \in Nat
      BY DEF CommandLines
    <3> HIDE DEF r
    <3> QED
      BY <1>4, <2>1, <3>1 DEF L!Backends, L!NothingToRun
  <2> QED
    BY <2>2, <2>3
<1>5. ASSUME r.mode = "usage" PROVE ~L!Validate(c) \/ ~c.config
  <2>1. L!TransformMode(c) # "usage"
    BY <1>0 DEF L!TransformMode
  <2>2. L!RunCliMode(c, m).mode = "cli"
    BY DEF L!RunCliMode
  <2> QED
    BY <1>5, <2>1, <2>2, LaunchedCases
<1>3. ASSUME r.mode = "cli"
      PROVE  /\ \E i \in DOMAIN r.files : r.script = r.files[i]
             /\ r.invoke = "name" => \/ r.dir \in m.path /\ r.script.ext = "none"
                                     \/ r.dir = m.variable
  <2>1. r = L!RunCliMode(c, m)
    BY <1>3, LaunchedCases
  <2> DEFINE out == L!OutputDir(c, m)
  <2>2. r.dir = out.dir /\ (r.invoke = "name" => out.onPath /\ L!ClientArtifactKind(c) = "script")
    BY <2>1 DEF L!RunCliMode
  <2>3. ASSUME out.onPath PROVE out.dir \in m.path \cup {m.variable}
    <3>1. CASE c.dir # "none"
      BY <2>3, <3>1 DEF L!OutputDir
    <3>2. CASE c.dir = "none" /\ L!ClientArtifactKind(c) # "script"
      BY <2>3, <3>2 DEF L!OutputDir
    <3>3. CASE c.dir = "none" /\ L!ClientArtifactKind(c) = "script"
      <4>1. out = L!CliOutputDir(m)
        BY <3>3 DEF L!OutputDir
      <4> QED
        BY <2>3, <4>1, DirOnPath
    <3> QED
      BY <3>1, <3>2, <3>3
  <2>4. r.kind = L!ClientArtifactKind(c)
    BY <2>1 DEF L!RunCliMode
  <2> HIDE DEF r, out
  <2> QED
    BY <2>1, <2>2, <2>3, <2>4, ScriptIsWritten
<1> QED
  <2> HIDE DEF r
  <2>1. r = L!Launched(c, m)
    BY DEF r
  <2> QED
    BY <1>1, <1>2, <1>3, <1>4, <1>5, <2>1 DEF L!LaunchedAsAsked

----------------------------------------------------------------------------
(* Answers *)

LEMMA AnswersReach ==
    ASSUME NEW r, r.status \in Nat, r.challenge \in BOOLEAN, r.message \in BOOLEAN, r.attached \in BOOLEAN
    PROVE  B!AnswerIsNotLost(r, r.attached)
<1> DEFINE out  == B!PostOutcome(r, r.attached)
           read == CASE r.content = "events" -> "stream"
                     [] r.content = "json"   -> IF r.message THEN "message" ELSE "accepted"
                     [] OTHER                -> "error"
           asks  == r.status \in {401, 403} /\ r.challenge
           ended == r.status = 404 /\ r.attached
<1>1. /\ asks => out = "error"
      /\ r.status \in {202, 204} => out = "accepted"
      /\ ended => out = "expired"
  BY DEF B!PostOutcome, B!Success
<1>2. ASSUME ~asks, r.status \notin {202, 204}, ~ended
      PROVE  /\ ~B!Success(r.status) => out = IF r.content = "json" /\ r.message THEN "message" ELSE "error"
             /\ B!Success(r.status) => out = read
  BY <1>2 DEF B!PostOutcome, B!Success
<1>3. read \in {"stream", "message", "accepted", "error"}
  OBVIOUS
<1>4. read = "accepted" => r.content = "json" /\ ~r.message
  OBVIOUS
<1>5. r.message /\ r.content = "json" => read = "message"
  OBVIOUS
<1>6. r.status = 405 => B!GetOutcome(r) # "error" /\ B!DeleteOutcome(r) # "error"
  BY DEF B!GetOutcome, B!DeleteOutcome
<1> HIDE DEF out, read
<1>7. /\ r.message /\ r.content = "json" =>
           \/ out = "message" \/ (r.challenge /\ r.status \in {401, 403})
           \/ r.status \in {202, 204} \/ (r.status = 404 /\ r.attached)
      /\ out = "accepted" =>
           r.status \in {202, 204} \/ (B!Success(r.status) /\ r.content = "json" /\ ~r.message)
      /\ out = "expired" => r.attached
  BY <1>1, <1>2, <1>3, <1>4, <1>5
<1> QED
  BY <1>6, <1>7 DEF B!AnswerIsNotLost, out

----------------------------------------------------------------------------
(* Assets *)

LEMMA OneMore ==
    ASSUME NEW x, NEW y, NEW z
    PROVE  <<x, y>> \o <<z>> = <<x, y, z>>
<1> DEFINE S == {x, y, z}
           a == <<x, y>>
           b == <<z>>
           c == <<x, y, z>>
           d == a \o b
<1>1. /\ a \in Seq(S) /\ Len(a) = 2 /\ a[1] = x /\ a[2] = y
      /\ b \in Seq(S) /\ Len(b) = 1 /\ b[1] = z
      /\ c \in Seq(S) /\ Len(c) = 3 /\ c[1] = x /\ c[2] = y /\ c[3] = z
  OBVIOUS
<1> HIDE DEF S, a, b, c
<1>2. IsJoined(S, a, b, d)
  BY <1>1, Joined
<1> HIDE DEF d
<1>3. d \in Seq(S) /\ Len(d) = 3 /\ d[1] = x /\ d[2] = y /\ d[2 + 1] = z
  BY ONLY <1>1, <1>2 DEF IsJoined
<1>4. \A i \in 1 .. Len(d) : d[i] = c[i]
  BY ONLY <1>1, <1>3
<1>5. d = c
  BY <1>1, <1>3, <1>4, SameSeq
<1> QED
  BY <1>5 DEF a, b, c, d

LEMMA StatusHolds ==
    ASSUME NEW c \in [cacheDir : Texts, server : {"none", "present", "absent"}], NEW m \in Machines(Texts)
    PROVE  M!StatusIsTrue(c, m)
<1> DEFINE s     == M!InstallStatus(c, m)
           ready == M!StatusServer(c, m) \notin {<<>>, <<"absent">>}
           has   == M!ModelStoreRoot(c, m) \in m.files
           base  == M!RemoveBase(c.cacheDir, m)
           models  == base \o <<"models">>
           runtime == base \o <<"llama.cpp">>
<1>1. M!PrepareOffline(c, m) =
        IF s = <<>> THEN <<>> ELSE IF s[1].serverReady /\ s[1].modelReady THEN s[1].server ELSE <<>>
  <2>1. CASE M!NoStore(c, m)
    BY <2>1 DEF M!InstallStatus, M!PrepareOffline
  <2>2. CASE ~M!NoStore(c, m)
    <3>1. s = <<[server |-> M!StatusServer(c, m), serverReady |-> ready, modelReady |-> has]>>
      BY <2>2 DEF M!InstallStatus
    <3>2. s # <<>> /\ s[1].serverReady = ready /\ s[1].modelReady = has /\ s[1].server = M!StatusServer(c, m)
      BY <3>1
    <3>3. M!PrepareOffline(c, m) = IF ~has THEN <<>> ELSE M!EnsureServer(c, m)
      BY <2>2 DEF M!PrepareOffline
    <3>4. M!EnsureServer(c, m) = IF ready THEN M!StatusServer(c, m) ELSE <<>>
      BY DEF M!EnsureServer, M!StatusServer
    <3> QED
      BY <3>2, <3>3, <3>4
  <2> QED
    BY <2>1, <2>2
<1>2. ASSUME base # <<>> PROVE M!ModelStoreRoot(c, m) = models /\ M!RuntimeStoreRoot(c, m) = runtime
  <2>1. CASE c.cacheDir # <<>>
    BY <2>1 DEF M!RemoveBase, M!ModelStoreRoot, M!RuntimeStoreRoot
  <2>2. CASE c.cacheDir = <<>> /\ m.variable
    BY <2>2 DEF M!RemoveBase, M!ModelStoreRoot, M!RuntimeStoreRoot, M!DefaultModels, M!DefaultRuntime
  <2>3. CASE c.cacheDir = <<>> /\ ~m.variable
    <3>1. m.home /\ base = <<"home", "mcp-compressor">>
      BY <1>2, <2>3 DEF M!RemoveBase
    <3>2. M!ModelStoreRoot(c, m) = <<"home", "mcp-compressor", "models">> /\ models = <<"home", "mcp-compressor", "models">>
      BY <2>3, <3>1, OneMore DEF M!ModelStoreRoot, M!DefaultModels
    <3>3. M!DefaultRuntime(m) = <<"home", "mcp-compressor", "llama.cpp">>
      <4> DEFINE parent == CASE m.variable -> <<"variable">>
                             [] ~m.variable /\ m.home -> <<"home", "mcp-compressor">>
                             [] OTHER -> <<>>
      <4>1. M!DefaultRuntime(m) = IF parent = <<>> THEN <<>> ELSE parent \o <<"llama.cpp">>
        BY DEF M!DefaultRuntime
      <4>2. parent = <<"home", "mcp-compressor">> /\ parent # <<>>
        BY <2>3, <3>1
      <4> HIDE DEF parent
      <4> QED
        BY <4>1, <4>2, OneMore
    <3>4. M!RuntimeStoreRoot(c, m) = runtime
      <4>1. M!RuntimeStoreRoot(c, m) = M!DefaultRuntime(m)
        BY <2>3 DEF M!RuntimeStoreRoot
      <4> QED
        BY <3>1, <3>3, <4>1, OneMore
    <3> QED
      BY <3>2, <3>4
  <2> QED
    BY <2>1, <2>2, <2>3
<1>3. ASSUME base = <<>> PROVE M!NoStore(c, m)
  <2>1. c.cacheDir = <<>> /\ ~m.variable /\ ~m.home
    <3>1. c.cacheDir = <<>>
      BY <1>3 DEF M!RemoveBase
    <3>2. ~m.variable
      BY <1>3, <3>1 DEF M!RemoveBase
    <3> QED
      BY <1>3, <3>1, <3>2 DEF M!RemoveBase
  <2> QED
    BY <2>1 DEF M!NoStore, M!ModelStoreRoot, M!RuntimeStoreRoot, M!DefaultModels, M!DefaultRuntime
<1>4. ASSUME NEW out \in M!RemoveManaged(c.cacheDir, m),
             M!InstallStatus(c, [m EXCEPT !.files = out.files]) # <<>>
      PROVE  LET t == M!InstallStatus(c, [m EXCEPT !.files = out.files])
             IN  /\ out.ok => ~t[1].modelReady /\ t[1].server # <<"managed">>
                 /\ ~out.ok => t = s \/ ~t[1].modelReady
  <2> DEFINE after == [m EXCEPT !.files = out.files]
             t     == M!InstallStatus(c, after)
  <2>1. /\ after.files = out.files /\ after.variable = m.variable /\ after.home = m.home
        /\ after.supported = m.supported /\ after.path = m.path
    BY DEF Machines
  <2> HIDE DEF after
  <2>2. /\ M!ModelStoreRoot(c, after) = M!ModelStoreRoot(c, m)
        /\ M!RuntimeStoreRoot(c, after) = M!RuntimeStoreRoot(c, m)
    BY <2>1 DEF M!ModelStoreRoot, M!RuntimeStoreRoot, M!DefaultModels, M!DefaultRuntime
  <2>3. ~M!NoStore(c, after) /\ ~M!NoStore(c, m)
    BY <1>4, <2>2 DEF M!InstallStatus, M!NoStore, after
  <2>4. base # <<>>
    BY <1>3, <2>3
  <2>5. t = <<[server |-> M!StatusServer(c, after),
               serverReady |-> M!StatusServer(c, after) \notin {<<>>, <<"absent">>},
               modelReady  |-> M!ModelStoreRoot(c, after) \in after.files]>>
    BY <2>3 DEF M!InstallStatus
  <2>6. t[1].modelReady = (models \in out.files) /\ t[1].server = M!StatusServer(c, after)
    <3>1. M!ModelStoreRoot(c, after) = models /\ after.files = out.files
      BY <1>2, <2>1, <2>2, <2>4
    <3>2. /\ t[1].modelReady = (M!ModelStoreRoot(c, after) \in after.files)
          /\ t[1].server = M!StatusServer(c, after)
      <4> HIDE DEF t
      <4> QED
        BY <2>5
    <3> HIDE DEF t, models
    <3> QED
      BY <3>1, <3>2
  <2>7. out \in {[ok |-> TRUE, files |-> m.files \ {models, runtime}]}
                 \cup {[ok |-> FALSE, files |-> m.files \ gone] : gone \in {{}, {models}, {models, runtime}}}
    BY <2>4 DEF M!RemoveManaged
  <2> HIDE DEF models, runtime, base
  <2>8. ASSUME out.ok PROVE models \notin out.files /\ runtime \notin out.files
    BY <2>7, <2>8
  <2>9. ASSUME ~out.ok PROVE out.files = m.files \/ models \notin out.files
    BY <2>7, <2>9
  <2>10. ASSUME runtime \notin out.files PROVE M!StatusServer(c, after) # <<"managed">>
    <3>1. ~M!RuntimeInstalled(c, after)
      BY <1>2, <2>1, <2>2, <2>4, <2>10 DEF M!RuntimeInstalled
    <3>2. c.server \in {"none", "present", "absent"}
      OBVIOUS
    <3> QED
      BY <3>1, <3>2 DEF M!StatusServer
  <2>11. ASSUME out.files = m.files PROVE t = s
    <3>1. M!RuntimeInstalled(c, after) = M!RuntimeInstalled(c, m)
      BY <2>1, <2>2, <2>11 DEF M!RuntimeInstalled
    <3>2. M!StatusServer(c, after) = M!StatusServer(c, m)
      BY <2>1, <3>1 DEF M!StatusServer
    <3>3. s = <<[server |-> M!StatusServer(c, m), serverReady |-> ready, modelReady |-> has]>>
      BY <2>3 DEF M!InstallStatus
    <3> QED
      BY <2>1, <2>2, <2>5, <2>11, <3>2, <3>3
  <2> HIDE DEF t, s
  <2>12. /\ out.ok => ~t[1].modelReady /\ t[1].server # <<"managed">>
         /\ ~out.ok => t = s \/ ~t[1].modelReady
    BY <2>6, <2>8, <2>9, <2>10, <2>11
  <2> QED
    BY <2>12 DEF t, after
<1> QED
  BY <1>1, <1>4 DEF M!StatusIsTrue

----------------------------------------------------------------------------
(* Models *)

\* The first "/" of a repository is its only one, with a name on each side.
LEMMA FirstSlash ==
    ASSUME NEW s \in Texts, NEW i \in DOMAIN s, {j \in DOMAIN s : s[j] = "/"} = {i}
    PROVE  M!FirstAt(s, "/") = i
<1> DEFINE I == {j \in 1 .. Len(s) : s[j] = "/"}
<1>1. M!FirstAt(s, "/") = IF I # {} THEN Min(I) ELSE 0
  BY DEF M!FirstAt, M!SelectInSeq, M!Min, Min
<1>2. I = {i} /\ i \in Nat
  BY DEF Texts
<1> HIDE DEF I
<1>3. Min(I) \in I
  BY <1>2, MinOf
<1> QED
  BY <1>1, <1>2, <1>3

LEMMA FirstPlace ==
    ASSUME NEW s \in Texts, NEW c
    PROVE  M!FirstAt(s, c) \in 0 .. Len(s)
<1> DEFINE I == {j \in 1 .. Len(s) : s[j] = c}
<1>1. M!FirstAt(s, c) = IF I # {} THEN Min(I) ELSE 0
  BY DEF M!FirstAt, M!SelectInSeq, M!Min, Min
<1>2. I \in SUBSET Nat /\ I \subseteq 0 .. Len(s)
  BY DEF Texts
<1> HIDE DEF I
<1>3. I # {} => Min(I) \in I
  BY <1>2, MinOf
<1>4. 0 \in 0 .. Len(s)
  BY DEF Texts
<1> QED
  BY <1>1, <1>2, <1>3, <1>4

LEMMA LastPlace ==
    ASSUME NEW s \in Texts, NEW c
    PROVE  M!LastAt(s, c) \in 0 .. Len(s)
<1> DEFINE I == {j \in 1 .. Len(s) : s[j] = c}
<1>1. M!LastAt(s, c) = IF I # {} THEN Max(I) ELSE 0
  BY DEF M!LastAt, M!SelectLastInSeq, M!Max, Max
<1>2. Len(s) \in Nat /\ I \in SUBSET (0 .. Len(s))
  BY DEF Texts
<1> HIDE DEF I
<1>3. I # {} => Max(I) \in I
  BY <1>2, MaxOf
<1>4. 0 \in 0 .. Len(s)
  BY DEF Texts
<1> QED
  BY <1>1, <1>2, <1>3, <1>4

\* A file name that was made from texts.
Names == Seq(Char \cup {".", "gguf"})

\* What a reference is read as.
IsRef(m) ==
    /\ m.repo \in Texts /\ m.filename \in Names
    /\ \E i \in DOMAIN m.repo : {j \in DOMAIN m.repo : m.repo[j] = "/"} = {i}
    /\ ~M!HasUp(m.repo) /\ ~M!HasUp(m.filename)
    /\ \A i \in DOMAIN m.filename : m.filename[i] \notin {"/", "backslash"}

LEMMA ParsedRef ==
    ASSUME NEW raw \in Texts, M!ParseModelRef(raw) # <<>>
    PROVE  IsRef(M!ParseModelRef(raw)[1])
<1> DEFINE at    == M!FirstAt(raw, "#")
           part  == IF at = 0 THEN raw ELSE M!Before(raw, at)
           named == M!RepoAndQuant(part)
           file  == IF at = 0 THEN M!DeriveFilename(named.repo, named.quant) ELSE M!After(raw, at)
           split == raw # <<>> /\ (at = 0 \/ (at > 1 /\ at < Len(raw)))
           m     == M!ParseModelRef(raw)[1]
<1>1. /\ split /\ M!IsRepoId(named.repo) /\ file # <<>> /\ M!IsSafeFilename(file)
      /\ m = [repo |-> named.repo, quant |-> named.quant, filename |-> file]
  BY DEF M!ParseModelRef
<1>2. at \in 0 .. Len(raw) /\ part \in Texts
  <2>1. at \in 0 .. Len(raw)
    BY FirstPlace
  <2> HIDE DEF at
  <2> QED
    BY <2>1 DEF M!Before, Texts
<1>3. named.repo \in Texts /\ named.quant \in Texts
  <2> HIDE DEF part
  <2> DEFINE colon == M!LastAt(part, ":")
  <2>1. colon \in 0 .. Len(part)
    BY <1>2, LastPlace
  <2> HIDE DEF colon
  <2>2. named = IF colon > 0 /\ colon < Len(part) /\ M!Contains(M!Before(part, colon), "/")
                THEN [repo |-> M!Before(part, colon), quant |-> M!After(part, colon)]
                ELSE [repo |-> part, quant |-> <<>>]
    BY DEF M!RepoAndQuant, colon
  <2>3. M!Before(part, colon) \in Texts /\ M!After(part, colon) \in Texts /\ <<>> \in Texts
    BY <1>2, <2>1 DEF M!Before, M!After, Texts
  <2> QED
    BY <1>2, <2>2, <2>3
<1>4. file \in Names
  <2> HIDE DEF named, part, at
  <2>1. M!After(raw, at) \in Names
    BY <1>2 DEF M!After, Texts, Names
  <2>2. M!DeriveFilename(named.repo, named.quant) \in Names
    <3> DEFINE slash == M!LastAt(named.repo, "/")
               name == M!After(named.repo, slash)
               base == IF M!IsSuffix(<<"-", "GGUF">>, name) THEN M!Before(name, Len(name) - 1) ELSE name
    <3>1. slash \in 0 .. Len(named.repo)
      BY <1>3, LastPlace
    <3> HIDE DEF slash
    <3>2. name \in Texts
      BY <1>3, <3>1 DEF M!After, Texts
    <3> HIDE DEF name
    <3>3. base \in Texts
      BY <3>2 DEF M!Before, Texts
    <3>4. M!DeriveFilename(named.repo, named.quant)
            = IF named.quant = <<>> THEN <<>> ELSE base \o <<"-">> \o named.quant \o <<".", "gguf">>
      BY DEF M!DeriveFilename, name, slash
    <3> HIDE DEF base
    <3>5. <<"-">> \in Names /\ <<".", "gguf">> \in Names /\ <<>> \in Names /\ Texts \subseteq Names
      <4>1. "-" \in Char
        BY DEF Char, NameChar
      <4> QED
        BY <4>1 DEF Texts, Names
    <3>6. \A u, v \in Names : u \o v \in Names
      BY DEF Names
    <3> QED
      BY <1>3, <3>3, <3>4, <3>5, <3>6
  <2> QED
    BY <2>1, <2>2
<1> HIDE DEF named, file, split
<1>5. m.repo = named.repo /\ m.filename = file
  BY <1>1
<1> HIDE DEF m
<1>6. ~M!HasUp(file) /\ \A i \in DOMAIN file : file[i] \notin {"/", "backslash"}
  <2>1. {"/", "backslash"} \cap M!ToSet(file) = {} /\ ~M!HasUp(file)
    BY <1>1 DEF M!IsSafeFilename
  <2> QED
    BY <2>1 DEF M!ToSet
<1>7. ~M!HasUp(named.repo) /\ \E i \in DOMAIN named.repo : {j \in DOMAIN named.repo : named.repo[j] = "/"} = {i}
  BY <1>1 DEF M!IsRepoId
<1>8. IsRef(m)
  BY <1>3, <1>4, <1>5, <1>6, <1>7 DEF IsRef
<1> QED
  BY <1>8 DEF m

\* A repository is its owner, a "/" and its name, in which there is neither "/" nor a
\* way up.
LEMMA RefParts ==
    ASSUME NEW m, IsRef(m)
    PROVE  /\ M!Owner(m) \in Texts /\ M!Name(m) \in Texts
           /\ m.repo = M!Owner(m) \o <<"/">> \o M!Name(m)
           /\ ~M!HasUp(M!Owner(m)) /\ ~M!HasUp(M!Name(m))
           /\ \A x \in {M!Owner(m), M!Name(m)} : \A k \in DOMAIN x : x[k] # "/" /\ x[k] \in M!ToSet(m.repo)
<1> DEFINE s  == m.repo
           at == M!FirstAt(s, "/")
           x  == M!Before(s, at)
           y  == M!After(s, at)
<1>1. PICK i \in DOMAIN s : {j \in DOMAIN s : s[j] = "/"} = {i}
  BY DEF IsRef
<1>2. s \in Seq(Char) /\ i \in 1 .. Len(s) /\ at = i /\ s[i] = "/"
  BY <1>1, FirstSlash DEF IsRef, Texts
<1>3. /\ x \in Seq(Char) /\ Len(x) = i - 1 /\ \A k \in 1 .. i - 1 : x[k] = s[k]
      /\ y \in Seq(Char) /\ Len(y) = Len(s) - i /\ \A k \in 1 .. Len(s) - i : y[k] = s[k + i]
  <2>1. x \in Seq(Char) /\ Len(x) = i - 1 /\ \A k \in 1 .. i - 1 : x[k] = s[k]
    BY <1>2 DEF M!Before
  <2>2. y \in Seq(Char) /\ Len(y) = Len(s) - i /\ \A k \in 1 .. Len(s) - i : y[k] = s[k + i]
    BY <1>2 DEF M!After
  <2> QED
    BY <2>1, <2>2
<1>4. x = M!Owner(m) /\ y = M!Name(m)
  BY DEF M!Owner, M!Name
<1>5. /\ \A k \in DOMAIN x : k \in 1 .. i - 1
      /\ \A k \in DOMAIN y : k \in 1 .. Len(s) - i
  BY <1>3
<1> HIDE DEF x, y, at
<1>6. ASSUME NEW k \in DOMAIN x PROVE x[k] # "/" /\ x[k] \in M!ToSet(s)
  <2>1. k \in 1 .. Len(s) /\ k # i /\ DOMAIN s = 1 .. Len(s)
    BY <1>2, <1>5
  <2>2. x[k] = s[k]
    BY <1>3, <1>5
  <2> HIDE DEF s
  <2> QED
    BY <1>1, <2>1, <2>2 DEF M!ToSet
<1>7. ASSUME NEW k \in DOMAIN y PROVE y[k] # "/" /\ y[k] \in M!ToSet(s)
  <2>1. k + i \in 1 .. Len(s) /\ k + i # i /\ DOMAIN s = 1 .. Len(s)
    BY <1>2, <1>5
  <2>2. y[k] = s[k + i]
    BY <1>3, <1>5
  <2> HIDE DEF s
  <2> QED
    BY <1>1, <2>1, <2>2 DEF M!ToSet
<1>8. ~M!HasUp(x) /\ ~M!HasUp(y)
  <2>0. ~M!HasUp(s)
    BY DEF IsRef
  <2>1. \A k \in 1 .. Len(s) : ~(k < Len(s) /\ s[k] = "." /\ s[k + 1] = ".")
    <3>1. DOMAIN s = 1 .. Len(s)
      BY <1>2
    <3> HIDE DEF s
    <3> QED
      BY <2>0, <3>1 DEF M!HasUp
  <2> HIDE DEF s
  <2>2. ASSUME M!HasUp(x) PROVE FALSE
    <3>1. PICK k \in DOMAIN x : k < Len(x) /\ x[k] = "." /\ x[k + 1] = "."
      BY <2>2 DEF M!HasUp
    <3>2. k \in 1 .. i - 1 /\ k + 1 \in 1 .. i - 1 /\ k \in 1 .. Len(s) /\ k < Len(s)
      BY <1>2, <1>3, <1>5, <3>1
    <3>3. s[k] = "." /\ s[k + 1] = "."
      BY <1>3, <3>1, <3>2
    <3> QED
      BY <2>1, <3>2, <3>3
  <2>3. ASSUME M!HasUp(y) PROVE FALSE
    <3>1. PICK k \in DOMAIN y : k < Len(y) /\ y[k] = "." /\ y[k + 1] = "."
      BY <2>3 DEF M!HasUp
    <3>2. /\ k \in 1 .. Len(s) - i /\ k + 1 \in 1 .. Len(s) - i
          /\ k + i \in 1 .. Len(s) /\ k + i < Len(s) /\ (k + 1) + i = (k + i) + 1
      BY <1>2, <1>3, <1>5, <3>1
    <3>3. s[k + i] = "." /\ s[(k + i) + 1] = "."
      BY <1>3, <3>1, <3>2
    <3> QED
      BY <2>1, <3>2, <3>3
  <2> QED
    BY <2>2, <2>3
<1>9. s = x \o <<"/">> \o y
  <2> DEFINE bar   == <<"/">>
             front == x \o bar
             z     == front \o y
  <2>1. bar \in Seq(Char) /\ Len(bar) = 1 /\ bar[1] = "/"
    BY <1>2
  <2> HIDE DEF bar
  <2>2. IsJoined(Char, x, bar, front)
    BY <1>3, <2>1, Joined
  <2> HIDE DEF front
  <2>3. /\ front \in Seq(Char) /\ Len(front) = Len(x) + 1 /\ front[Len(x) + 1] = "/"
        /\ \A k \in 1 .. Len(x) : front[k] = x[k]
    <3>1. 1 \in 1 .. Len(bar)
      BY <2>1
    <3> QED
      BY ONLY <2>1, <2>2, <3>1 DEF IsJoined
  <2>4. i \in Nat /\ Len(s) \in Nat /\ i <= Len(s) /\ Len(x) + 1 = i /\ Len(front) = i
    BY <1>2, <1>3, <2>3
  <2>5. IsJoined(Char, front, y, z)
    BY <1>3, <2>3, Joined
  <2> HIDE DEF z
  <2>6. z \in Seq(Char) /\ Len(z) = Len(s)
    <3>1. Len(z) = Len(front) + Len(y) /\ Len(y) = Len(s) - i /\ z \in Seq(Char)
      BY ONLY <1>3, <2>5 DEF IsJoined
    <3> QED
      BY ONLY <2>4, <3>1
  <2>7. ASSUME NEW k \in 1 .. Len(s) PROVE z[k] = s[k]
    <3>0. k \in 1 .. Len(s)
      OBVIOUS
    <3>1. CASE k <= i
      <4>1. k \in 1 .. Len(front) /\ (k = i \/ (k \in 1 .. Len(x) /\ k \in 1 .. i - 1))
        BY ONLY <2>4, <3>0, <3>1
      <4>2. z[k] = front[k]
        BY ONLY <2>5, <4>1 DEF IsJoined
      <4> QED
        BY ONLY <1>2, <1>3, <2>3, <2>4, <4>1, <4>2
    <3>2. CASE k > i
      <4>1. k - i \in 1 .. Len(s) - i /\ (k - i) + i = k /\ i + (k - i) = k
        BY ONLY <2>4, <3>0, <3>2
      <4>2. z[Len(front) + (k - i)] = y[k - i]
        BY ONLY <1>3, <2>5, <4>1 DEF IsJoined
      <4>3. y[k - i] = s[(k - i) + i]
        BY ONLY <1>3, <4>1
      <4> QED
        BY ONLY <2>4, <4>1, <4>2, <4>3
    <3> QED
      BY ONLY <2>4, <3>0, <3>1, <3>2
  <2> QED
    BY <1>2, <2>6, <2>7, SameSeq DEF z, front, bar
<1> QED
  BY <1>3, <1>4, <1>6, <1>7, <1>8, <1>9 DEF Texts

\* What replacing characters leaves.
LEMMA SanitizedText ==
    ASSUME NEW s \in Texts
    PROVE  /\ M!Sanitized(s) \in Texts
           /\ \A k \in DOMAIN M!Sanitized(s) : M!Sanitized(s)[k] \notin {"/", "backslash"}
           /\ ~M!HasUp(s) => ~M!HasUp(M!Sanitized(s))
           /\ (\A k \in DOMAIN s : s[k] \in M!Kept) => M!Sanitized(s) = s
<1> DEFINE z == M!Sanitized(s)
<1>1. s \in Seq(Char) /\ DOMAIN s = 1 .. Len(s) /\ Len(s) \in Nat
  BY DEF Texts
<1>2. z = [k \in 1 .. Len(s) |-> IF s[k] \in M!Kept THEN s[k] ELSE "_"]
  BY <1>1 DEF M!Sanitized
<1>3. "_" \in Char
  BY DEF Char, NameChar
<1>4. z \in Seq(Char) /\ Len(z) = Len(s) /\ DOMAIN z = 1 .. Len(s)
  <2> DEFINE f(k) == IF s[k] \in M!Kept THEN s[k] ELSE "_"
  <2>1. z = [k \in 1 .. Len(s) |-> f(k)]
    BY <1>2
  <2>2. \A k \in 1 .. Len(s) : f(k) \in Char
    <3>1. \A k \in 1 .. Len(s) : s[k] \in Char
      BY <1>1
    <3> QED
      BY <1>3, <3>1
  <2> HIDE DEF f, z
  <2> QED
    BY <1>1, <2>1, <2>2
<1> HIDE DEF z
<1>5. \A k \in 1 .. Len(s) : z[k] = IF s[k] \in M!Kept THEN s[k] ELSE "_"
  BY <1>2
<1>6. \A k \in DOMAIN z : z[k] \notin {"/", "backslash"}
  BY <1>4, <1>5 DEF M!Kept
<1>7. ASSUME M!HasUp(z) PROVE M!HasUp(s)
  <2>1. PICK k \in DOMAIN z : k < Len(z) /\ z[k] = "." /\ z[k + 1] = "."
    BY <1>7 DEF M!HasUp
  <2>2. k \in 1 .. Len(s) /\ k + 1 \in 1 .. Len(s) /\ k < Len(s)
    BY <1>1, <1>4, <2>1
  <2>3. s[k] = "." /\ s[k + 1] = "."
    BY <1>5, <2>1, <2>2
  <2> QED
    BY <1>1, <2>2, <2>3 DEF M!HasUp
<1>8. ASSUME \A k \in DOMAIN s : s[k] \in M!Kept PROVE z = s
  <2>1. \A k \in 1 .. Len(z) : z[k] = s[k]
    BY <1>1, <1>4, <1>5, <1>8
  <2> QED
    BY <1>1, <1>4, <2>1, SameSeq
<1> QED
  BY <1>4, <1>6, <1>7, <1>8 DEF z, Texts

\* A path ends with the name of the file, and begins with the repository unless a part
\* of it leaves no trace.
Part(s)  == M!Sanitized(s)
Trace(s) == IF s \in {<<>>, <<".">>} THEN <<>> ELSE <<s>>

LEMMA KeyParts ==
    ASSUME NEW m, IsRef(m), NEW a, a = Part(M!Owner(m)), NEW b, b = Part(M!Name(m))
    PROVE  LET key == M!CacheKey(m)
           IN  /\ Len(key) \in Nat /\ DOMAIN key = 1 .. Len(key)
               /\ Len(key) \in DOMAIN key /\ key[Len(key)] = m.filename
               /\ \A i \in DOMAIN key : key[i] \in {a, b, <<"main">>, m.filename}
               /\ a \notin {<<>>, <<".">>} /\ b \notin {<<>>, <<".">>} => key[1] = a /\ key[2] = b
<1> DEFINE S     == {a, b, <<"main">>, m.filename}
           key   == M!CacheKey(m)
           front == Trace(a) \o Trace(b)
           ends  == <<<<"main">>, m.filename>>
<1>1. key = front \o ends
  BY DEF M!CacheKey, Part, Trace
<1>2. /\ ends \in Seq(S) /\ Len(ends) = 2 /\ ends[2] = m.filename
      /\ Trace(a) \in Seq(S) /\ Trace(b) \in Seq(S)
  <2>1. \A x \in S : <<x>> \in Seq(S) /\ <<>> \in Seq(S)
    OBVIOUS
  <2>2. a \in S /\ b \in S /\ ends \in Seq(S) /\ Len(ends) = 2 /\ ends[2] = m.filename
    OBVIOUS
  <2> HIDE DEF S
  <2> QED
    BY <2>1, <2>2 DEF Trace
<1>3. ASSUME a \notin {<<>>, <<".">>}, b \notin {<<>>, <<".">>}
      PROVE  /\ Len(Trace(a)) = 1 /\ Trace(a)[1] = a
             /\ Len(Trace(b)) = 1 /\ Trace(b)[1] = b
  BY <1>3 DEF Trace
<1> HIDE DEF S, key, ends
<1>4. IsJoined(S, Trace(a), Trace(b), front)
  BY <1>2, Joined
<1> HIDE DEF front
<1>5. front \in Seq(S) /\ Len(front) \in Nat
  BY <1>4 DEF IsJoined
<1>6. IsJoined(S, front, ends, key)
  BY <1>1, <1>2, <1>5, Joined
<1>7. key \in Seq(S) /\ Len(key) = Len(front) + 2 /\ key[Len(front) + 2] = m.filename
  <2>1. 2 \in 1 .. Len(ends)
    BY <1>2
  <2> QED
    BY ONLY <1>2, <1>5, <1>6, <2>1 DEF IsJoined
<1>8. DOMAIN key = 1 .. Len(key) /\ Len(key) \in DOMAIN key /\ \A i \in DOMAIN key : key[i] \in S
  BY <1>5, <1>7
<1>9. ASSUME a \notin {<<>>, <<".">>}, b \notin {<<>>, <<".">>} PROVE key[1] = a /\ key[2] = b
  <2>1. Len(Trace(a)) = 1 /\ Trace(a)[1] = a /\ Len(Trace(b)) = 1 /\ Trace(b)[1] = b
    BY <1>3, <1>9
  <2>2. Len(front) = 2 /\ front[1] = a /\ front[1 + 1] = b
    BY ONLY <1>4, <2>1 DEF IsJoined
  <2>3. 1 \in 1 .. Len(front) /\ 2 \in 1 .. Len(front) /\ front[2] = b
    BY <2>2
  <2> QED
    BY ONLY <1>6, <2>2, <2>3 DEF IsJoined
<1> QED
  BY <1>5, <1>7, <1>8, <1>9 DEF S, key

LEMMA KeysApart ==
    ASSUME NEW raws \in Texts \X Texts
    PROVE  M!KeysAreApart(raws)
<1> DEFINE m == M!ParseModelRef(raws[1])[1]
           n == M!ParseModelRef(raws[2])[1]
           a(x) == Part(M!Owner(x))
           b2(x) == Part(M!Name(x))
           whole(x) == {a(x), b2(x)} \cap {<<>>, <<".">>} = {}
           exact(x) == M!ToSet(x.repo) \subseteq M!Kept \cup {"/"}
<1> SUFFICES ASSUME M!ParseModelRef(raws[1]) # <<>>, M!ParseModelRef(raws[2]) # <<>>
             PROVE  /\ M!CacheKey(m) = M!CacheKey(n) =>
                         /\ m.filename = n.filename
                         /\ whole(m) /\ whole(n) =>
                              /\ a(m) = a(n) /\ b2(m) = b2(n)
                              /\ exact(m) /\ exact(n) => M!DownloadUrl(m) = M!DownloadUrl(n)
                    /\ \A i \in DOMAIN M!CacheKey(m) :
                         /\ ~M!HasUp(M!CacheKey(m)[i])
                         /\ {"/", "backslash"} \cap M!ToSet(M!CacheKey(m)[i]) = {}
  BY DEF M!KeysAreApart, Part
<1>1. IsRef(m) /\ IsRef(n)
  BY ParsedRef
<1> HIDE DEF m, n
<1>2. \A x \in {m, n} : exact(x) => x.repo = a(x) \o <<"/">> \o b2(x)
  <2> SUFFICES ASSUME NEW x \in {m, n}, exact(x) PROVE x.repo = a(x) \o <<"/">> \o b2(x)
    OBVIOUS
  <2>1. IsRef(x)
    BY <1>1
  <2>2. /\ \A k \in DOMAIN M!Owner(x) : M!Owner(x)[k] \in M!Kept
        /\ \A k \in DOMAIN M!Name(x) : M!Name(x)[k] \in M!Kept
    BY <2>1, RefParts
  <2>3. a(x) = M!Owner(x) /\ b2(x) = M!Name(x)
    BY <2>1, <2>2, RefParts, SanitizedText DEF Part
  <2> HIDE DEF a, b2
  <2> QED
    BY <2>1, <2>3, RefParts
<1>3. ASSUME M!CacheKey(m) = M!CacheKey(n)
      PROVE  /\ m.filename = n.filename
             /\ whole(m) /\ whole(n) =>
                  /\ a(m) = a(n) /\ b2(m) = b2(n)
                  /\ exact(m) /\ exact(n) => M!DownloadUrl(m) = M!DownloadUrl(n)
  <2>1. \A x \in {m, n} : /\ M!CacheKey(x)[Len(M!CacheKey(x))] = x.filename
                          /\ whole(x) => M!CacheKey(x)[1] = a(x) /\ M!CacheKey(x)[2] = b2(x)
    <3> SUFFICES ASSUME NEW x \in {m, n}
                 PROVE  /\ M!CacheKey(x)[Len(M!CacheKey(x))] = x.filename
                        /\ whole(x) => M!CacheKey(x)[1] = a(x) /\ M!CacheKey(x)[2] = b2(x)
      OBVIOUS
    <3>1. IsRef(x)
      BY <1>1
    <3>2. /\ M!CacheKey(x)[Len(M!CacheKey(x))] = x.filename
          /\ a(x) \notin {<<>>, <<".">>} /\ b2(x) \notin {<<>>, <<".">>} =>
               M!CacheKey(x)[1] = a(x) /\ M!CacheKey(x)[2] = b2(x)
      BY <3>1, KeyParts
    <3> HIDE DEF a, b2
    <3> QED
      BY <3>2
  <2> HIDE DEF a, b2, exact
  <2>2. m.filename = n.filename
    BY <1>3, <2>1
  <2>3. ASSUME whole(m), whole(n) PROVE a(m) = a(n) /\ b2(m) = b2(n)
    BY <1>3, <2>1, <2>3
  <2>4. ASSUME whole(m), whole(n), exact(m), exact(n) PROVE M!DownloadUrl(m) = M!DownloadUrl(n)
    <3>1. m.repo = n.repo
      BY <1>2, <2>3, <2>4
    <3> QED
      BY <2>2, <3>1 DEF M!DownloadUrl
  <2> HIDE DEF whole
  <2> QED
    BY <2>2, <2>3, <2>4
<1>4. ASSUME NEW i \in DOMAIN M!CacheKey(m)
      PROVE  /\ ~M!HasUp(M!CacheKey(m)[i])
             /\ {"/", "backslash"} \cap M!ToSet(M!CacheKey(m)[i]) = {}
  <2> DEFINE fine(s) == ~M!HasUp(s) /\ \A k \in DOMAIN s : s[k] \notin {"/", "backslash"}
  <2>1. fine(a(m)) /\ fine(b2(m))
    BY <1>1, RefParts, SanitizedText DEF Part
  <2>2. fine(m.filename)
    BY <1>1 DEF IsRef
  <2>3. fine(<<"main">>)
    BY DEF M!HasUp
  <2>4. M!CacheKey(m)[i] \in {a(m), b2(m), <<"main">>, m.filename}
    BY <1>1, KeyParts
  <2>5. fine(M!CacheKey(m)[i])
    <3> HIDE DEF fine, a, b2
    <3> QED
      BY <2>1, <2>2, <2>3, <2>4
  <2> QED
    BY <2>5 DEF M!ToSet
<1> HIDE DEF a, b2, whole, exact
<1> QED
  BY <1>3, <1>4

----------------------------------------------------------------------------
(* The callback *)

\* A length is a number.
LEMMA LengthIsNat ==
    ASSUME NEW S, NEW s \in Seq(S)
    PROVE  Len(s) \in Nat
OBVIOUS

\* One element and then two.
LEMMA OneAndTwo ==
    ASSUME NEW S, NEW x, NEW k \in Seq(S), Len(k) = 2, <<x>> \in Seq(S), NEW e, e = <<x>> \o k
    PROVE  e \in Seq(S) /\ Len(e) = 3 /\ e[1] = x /\ e[2] = k[1] /\ e[3] = k[2]
<1>1. Len(<<x>>) = 1 /\ <<x>>[1] = x
  OBVIOUS
<1> DEFINE o == <<x>>
<1>2. o \in Seq(S) /\ Len(o) = 1 /\ o[1] = x /\ e = o \o k
  BY <1>1
<1> HIDE DEF o
<1>3. IsJoined(S, o, k, e)
  BY <1>2, Joined
<1>4. e \in Seq(S) /\ Len(e) = 3 /\ e[1] = o[1]
  BY ONLY <1>2, <1>3, Len(k) = 2 DEF IsJoined
<1>5. k[1] = e[1 + 1] /\ k[2] = e[1 + 2]
  BY ONLY <1>2, <1>3, Len(k) = 2 DEF IsJoined
<1> QED
  BY ONLY <1>2, <1>4, <1>5

\* The characters of a query.
Query == Char \cup {"%", "+", "0", "2", "3", "5", "6", "B", "D"} \cup DOMAIN O!Coded
           \cup {"code", "state", "error", "x"}

LEMMA Codes ==
    /\ DOMAIN O!Coded = {"+", "%", "&", "=", O!Space}
    /\ \A s \in DOMAIN O!Coded : /\ O!Coded[s] \in Seq(Query) /\ Len(O!Coded[s]) = 2
                                 /\ "&" \notin {O!Coded[s][1], O!Coded[s][2]}
    /\ \A s, t \in DOMAIN O!Coded : O!Coded[s] = O!Coded[t] => s = t
<1>1. DOMAIN O!Coded = {"+", "%", "&", "=", O!Space}
  BY DEF O!Coded
<1>0. O!Space \notin {"+", "%", "&", "="}
  BY DEF O!Space
<1>2. /\ O!Coded["+"] = <<"2", "B">> /\ O!Coded["%"] = <<"2", "5">> /\ O!Coded["&"] = <<"2", "6">>
      /\ O!Coded["="] = <<"3", "D">> /\ O!Coded[O!Space] = <<"2", "0">>
  BY <1>0 DEF O!Coded
<1>3. \A u, v \in {"0", "2", "3", "5", "6", "B", "D"} :
        <<u, v>> \in Seq(Query) /\ Len(<<u, v>>) = 2 /\ <<u, v>>[1] # "&" /\ <<u, v>>[2] # "&"
  BY DEF Query
<1> DEFINE fine(c) == c \in Seq(Query) /\ Len(c) = 2 /\ c[1] # "&" /\ c[2] # "&"
<1>4. \A s \in DOMAIN O!Coded : fine(O!Coded[s])
  <2>1. fine(<<"2", "B">>) /\ fine(<<"2", "5">>) /\ fine(<<"2", "6">>) /\ fine(<<"3", "D">>) /\ fine(<<"2", "0">>)
    BY <1>3
  <2> HIDE DEF fine
  <2> QED
    BY <1>1, <1>2, <2>1
<1>5. ASSUME NEW s \in DOMAIN O!Coded, NEW t \in DOMAIN O!Coded, O!Coded[s] = O!Coded[t] PROVE s = t
  <2>1. O!Coded[s][2] = O!Coded[t][2]
    BY <1>5
  <2>2. \A u, v : <<u, v>>[2] = v
    OBVIOUS
  <2>3. O!Coded["+"][2] = "B"
    BY ONLY <1>2, <2>2, Zenon
  <2>4. O!Coded["%"][2] = "5"
    BY ONLY <1>2, <2>2, Zenon
  <2>5. O!Coded["&"][2] = "6"
    BY ONLY <1>2, <2>2, Zenon
  <2>6. O!Coded["="][2] = "D"
    BY ONLY <1>2, <2>2, Zenon
  <2>7. O!Coded[O!Space][2] = "0"
    BY ONLY <1>2, <2>2, Zenon
  <2> QED
    BY <1>1, <1>5, <2>1, <2>3, <2>4, <2>5, <2>6, <2>7
<1> QED
  BY <1>1, <1>4, <1>5

\* One character as the provider writes it: itself, or the "%" with its code.
LEMMA EncodedCharIs ==
    ASSUME NEW c \in Char, NEW plus \in BOOLEAN, NEW e, e = O!EncodedChar(c, plus)
    PROVE  /\ e \in Seq(Query) /\ Len(e) > 0 /\ \A i \in 1 .. Len(e) : e[i] # "&"
           /\ \/ Len(e) = 1 /\ (IF e[1] = "+" THEN c = O!Space ELSE c = e[1]) /\ e[1] # "%"
              \/ c \in DOMAIN O!Coded /\ Len(e) = 3 /\ e[1] = "%" /\ <<e[2], e[3]>> = O!Coded[c]
<1>1. CASE c = O!Space /\ plus
  <2>1. e = <<"+">>
    BY <1>1 DEF O!EncodedChar
  <2>2. e \in Seq(Query) /\ Len(e) = 1 /\ e[1] = "+"
    BY <2>1 DEF Query
  <2>3. e[1] # "&" /\ e[1] # "%"
    BY <2>2
  <2>4. \A i \in 1 .. Len(e) : e[i] # "&"
    BY <2>2, <2>3
  <2>5. c = O!Space
    BY <1>1, Zenon
  <2>6. IF e[1] = "+" THEN c = O!Space ELSE c = e[1]
    BY <2>2, <2>5
  <2> QED
    BY <2>2, <2>3, <2>4, <2>6
<1>2. CASE c \in DOMAIN O!Coded /\ ~(c = O!Space /\ plus)
  <2>1. e = <<"%">> \o O!Coded[c]
    BY <1>2 DEF O!EncodedChar
  <2> DEFINE k == O!Coded[c]
  <2>2. k \in Seq(Query) /\ Len(k) = 2 /\ k[1] # "&" /\ k[2] # "&"
    BY <1>2, Codes
  <2>7. e = <<"%">> \o k
    BY <2>1
  <2> HIDE DEF k
  <2>3. <<"%">> \in Seq(Query)
    BY DEF Query
  <2>4. e \in Seq(Query) /\ Len(e) = 3 /\ e[1] = "%" /\ e[2] = k[1] /\ e[3] = k[2]
    BY ONLY <2>2, <2>3, <2>7, OneAndTwo
  <2>5. <<e[2], e[3]>> = k
    BY <2>2, <2>4
  <2>6. \A i \in 1 .. Len(e) : e[i] # "&"
    BY <2>2, <2>4
  <2> QED
    BY <1>2, <2>4, <2>5, <2>6 DEF k
<1>3. CASE c \notin DOMAIN O!Coded
  <2>1. e = <<c>>
    <3>1. c # O!Space
      BY <1>3, Codes
    <3> QED
      BY <1>3, <3>1 DEF O!EncodedChar
  <2>2. c # "+" /\ c # "%" /\ c # "&"
    BY <1>3, Codes
  <2>3. e \in Seq(Query) /\ Len(e) = 1 /\ e[1] = c
    BY <2>1 DEF Query
  <2> QED
    BY <2>2, <2>3
<1> QED
  BY <1>1, <1>2, <1>3
\* Encoded unfolds to a function of the number of characters that are written.
LEMMA EncodedUnfolds ==
    ASSUME NEW v \in Texts, NEW plus \in BOOLEAN
    PROVE  \E f \in [0 .. Len(v) -> Seq(Query)] :
             /\ f[0] = <<>>
             /\ \A i \in 1 .. Len(v) : f[i] = f[i - 1] \o O!EncodedChar(v[i], plus)
             /\ O!Encoded(v, plus) = f[Len(v)]
<1> DEFINE N == Len(v)
           on(f) == f = [i \in 0 .. N |-> IF i = 0 THEN <<>> ELSE f[i - 1] \o O!EncodedChar(v[i], plus)]
           step == [p \in (1 .. N) \X Seq(Query) |-> p[2] \o O!EncodedChar(v[p[1]], plus)]
           out == CHOOSE f : on(f)
<1>1. N \in Nat /\ \A i \in 1 .. N : v[i] \in Char
  BY DEF Texts
<1>2. \A i \in 1 .. N : O!EncodedChar(v[i], plus) \in Seq(Query)
  BY <1>1, EncodedCharIs
<1>3. O!Encoded(v, plus) = out[N]
  BY DEF O!Encoded
<1> HIDE DEF N
<1>4. step \in Steps(N, Seq(Query))
  BY <1>2 DEF Steps
<1>5. \E f : on(f)
  <2>1. <<>> \in Seq(Query)
    OBVIOUS
  <2>2. \A i \in 0 .. N, g \in [0 .. N -> Seq(Query)] :
          i # 0 => step[<<i, g[i - 1]>>] = g[i - 1] \o O!EncodedChar(v[i], plus)
    <3> SUFFICES ASSUME NEW i \in 0 .. N, NEW g \in [0 .. N -> Seq(Query)], i # 0
                 PROVE  step[<<i, g[i - 1]>>] = g[i - 1] \o O!EncodedChar(v[i], plus)
      OBVIOUS
    <3>1. i \in 1 .. N /\ g[i - 1] \in Seq(Query)
      BY <1>1
    <3> DEFINE p == <<i, g[i - 1]>>
    <3>2. p \in (1 .. N) \X Seq(Query) /\ p[1] = i /\ p[2] = g[i - 1]
      BY <3>1
    <3> HIDE DEF p
    <3>3. step[p] = p[2] \o O!EncodedChar(v[p[1]], plus)
      BY <3>2
    <3> QED
      BY <3>2, <3>3 DEF p
  <2> HIDE DEF step
  <2>3. PICK f \in Loops(N, Seq(Query)) : IsLoop(N, <<>>, step, f)
    BY <1>1, <1>4, <2>1, Recursion
  <2>4. \A i \in 0 .. N : f[i] = IF i = 0 THEN <<>> ELSE f[i - 1] \o O!EncodedChar(v[i], plus)
    <3> SUFFICES ASSUME NEW i \in 0 .. N, i # 0 PROVE f[i] = f[i - 1] \o O!EncodedChar(v[i], plus)
      BY <2>3 DEF IsLoop
    <3>1. i \in 1 .. N
      BY <1>1
    <3> QED
      BY <2>2, <2>3, <3>1 DEF IsLoop, Loops
  <2>5. on(f)
    BY <2>3, <2>4 DEF Loops
  <2> QED
    BY <2>5
<1>6. on(out)
  <2> HIDE DEF on
  <2> QED
    BY <1>5
<1> HIDE DEF out
<1>7. out[0] = <<>> /\ \A i \in 1 .. N : out[i] = out[i - 1] \o O!EncodedChar(v[i], plus)
  BY <1>1, <1>6
<1> DEFINE S == {n \in 0 .. N : out[n] \in Seq(Query)}
<1>8. 0 \in S /\ \A n \in 0 .. N : n \in S /\ n < N => n + 1 \in S
  <2>0. <<>> \in Seq(Query) /\ 0 \in 0 .. N
    BY <1>1
  <2>1. 0 \in S
    BY <1>7, <2>0
  <2>2. ASSUME NEW n \in 0 .. N, n \in S, n < N PROVE n + 1 \in S
    <3>1. n + 1 \in 1 .. N /\ n + 1 \in 0 .. N /\ (n + 1) - 1 = n
      BY <1>1, <2>2
    <3>2. out[n + 1] = out[n] \o O!EncodedChar(v[n + 1], plus)
      BY <1>7, <3>1
    <3>3. out[n] \in Seq(Query) /\ O!EncodedChar(v[n + 1], plus) \in Seq(Query)
      BY <1>2, <2>2, <3>1
    <3>4. out[n + 1] \in Seq(Query)
      BY <3>2, <3>3
    <3> QED
      BY <3>1, <3>4
  <2> QED
    BY <2>1, <2>2
<1>9. \A n \in 0 .. N : out[n] \in Seq(Query)
  <2> HIDE DEF S
  <2>1. \A n \in 0 .. N : n \in S
    BY <1>1, <1>8, Induction
  <2> QED
    BY <2>1 DEF S
<1>10. out \in [0 .. N -> Seq(Query)]
  <2>1. out = [i \in 0 .. N |-> out[i]]
    BY <1>6
  <2> QED
    BY <1>9, <2>1
<1> QED
  BY <1>3, <1>7, <1>10 DEF N

\* What is written of the first characters stays where it is.
LEMMA EncodedGrows ==
    ASSUME NEW N \in Nat, NEW f \in [0 .. N -> Seq(Query)],
           NEW e \in [1 .. N -> Seq(Query)], \A i \in 1 .. N : f[i] = f[i - 1] \o e[i]
    PROVE  \A k \in 0 .. N : Len(f[k]) <= Len(f[N]) /\ \A i \in 1 .. Len(f[k]) : f[N][i] = f[k][i]
<1> SUFFICES ASSUME NEW k \in 0 .. N
             PROVE  Len(f[k]) <= Len(f[N]) /\ \A i \in 1 .. Len(f[k]) : f[N][i] = f[k][i]
  OBVIOUS
<1> DEFINE grown(n) == Len(f[k]) <= Len(f[n]) /\ \A i \in 1 .. Len(f[k]) : f[n][i] = f[k][i]
           S == {n \in 0 .. N : n < k \/ grown(n)}
<1>1. 0 \in S
  OBVIOUS
<1>2. ASSUME NEW n \in 0 .. N, n \in S, n < N PROVE n + 1 \in S
  <2>1. n + 1 \in 1 .. N /\ n + 1 \in 0 .. N /\ (n + 1) - 1 = n
    BY <1>2
  <2>2. CASE n + 1 <= k
    <3>1. n + 1 = k \/ n + 1 < k
      BY <2>1, <2>2
    <3> QED
      BY <2>1, <3>1
  <2>3. CASE k < n + 1
    <3>1. grown(n)
      BY <1>2, <2>3
    <3>2. f[n + 1] = f[n] \o e[n + 1] /\ f[n] \in Seq(Query) /\ e[n + 1] \in Seq(Query) /\ f[k] \in Seq(Query)
      BY <2>1
    <3>3. Len(f[n + 1]) = Len(f[n]) + Len(e[n + 1]) /\ \A i \in 1 .. Len(f[n]) : f[n + 1][i] = f[n][i]
      BY <3>2
    <3>4. Len(f[k]) \in Nat /\ Len(f[n]) \in Nat /\ Len(e[n + 1]) \in Nat
      BY <3>2, LengthIsNat, Zenon
    <3>5. Len(f[k]) <= Len(f[n + 1])
      BY <3>1, <3>3, <3>4
    <3>6. ASSUME NEW i \in 1 .. Len(f[k]) PROVE f[n + 1][i] = f[k][i]
      <4>1. i \in 1 .. Len(f[n])
        BY <3>1, <3>4
      <4> QED
        BY <3>1, <3>3, <4>1
    <3> QED
      BY <2>1, <3>5, <3>6
  <2> QED
    BY <2>1, <2>2, <2>3
<1>3. N \in S
  <2> HIDE DEF S
  <2>1. \A n \in 0 .. N : n \in S
    BY <1>1, <1>2, Induction
  <2> QED
    BY <2>1
<1> QED
  BY <1>3

\* Of the codes there is one character each.
LEMMA CharOfCode ==
    ASSUME NEW c \in DOMAIN O!Coded, NEW h, NEW l, <<h, l>> = O!Coded[c]
    PROVE  O!IsCode(h, l) /\ O!CharOf(h, l) = c
<1>1. O!IsCode(h, l)
  BY DEF O!IsCode
<1>2. \E s \in DOMAIN O!Coded : O!Coded[s] = <<h, l>>
  OBVIOUS
<1>3. O!CharOf(h, l) \in DOMAIN O!Coded /\ O!Coded[O!CharOf(h, l)] = <<h, l>>
  BY <1>2, Zenon DEF O!CharOf
<1>4. O!CharOf(h, l) = c
  BY <1>3, Codes
<1> QED
  BY <1>1, <1>4

\* PercentDecode unfolds to what it holds after each character.
LEMMA DecodeUnfolds ==
    ASSUME NEW q \in Seq(Query)
    PROVE  \E read : /\ read[0] = [out |-> <<>>, next |-> 1]
                     /\ \A i \in 1 .. Len(q) : read[i] = O!DecodeStep(q, read[i - 1], i)
                     /\ O!PercentDecode(q) = read[Len(q)].out
<1> DEFINE N == Len(q)
           A == [out : Seq(Query), next : Nat]
           base == [out |-> <<>>, next |-> 1]
           on(f) == f = [i \in 0 .. N |-> IF i = 0 THEN [out |-> <<>>, next |-> 1] ELSE O!DecodeStep(q, f[i - 1], i)]
           step == [p \in (1 .. N) \X A |-> O!DecodeStep(q, p[2], p[1])]
           read == CHOOSE f : on(f)
<1>1. N \in Nat /\ base \in A
  OBVIOUS
<1>2. \A i \in 1 .. N : O!DecodedAt(q, i).char \in Query /\ O!DecodedAt(q, i).next \in Nat
  <2> SUFFICES ASSUME NEW i \in 1 .. N
               PROVE  O!DecodedAt(q, i).char \in Query /\ O!DecodedAt(q, i).next \in Nat
    OBVIOUS
  <2>1. \A h, l : O!IsCode(h, l) => O!CharOf(h, l) \in Query
    <3> SUFFICES ASSUME NEW h, NEW l, O!IsCode(h, l) PROVE O!CharOf(h, l) \in Query
      OBVIOUS
    <3>1. PICK c \in DOMAIN O!Coded : O!Coded[c] = <<h, l>>
      BY DEF O!IsCode
    <3>2. O!CharOf(h, l) = c
      BY <3>1, CharOfCode
    <3> QED
      BY <3>2 DEF Query
  <2>2. O!Space \in Query /\ "%" \in Query /\ q[i] \in Query
    BY Codes DEF Query
  <2> DEFINE d(c, n) == [char |-> c, next |-> n]
  <2>3. \A c \in Query : \A n \in {1, 3} : d(c, i + n).char \in Query /\ d(c, i + n).next \in Nat
    OBVIOUS
  <2>4. \E c \in Query : \E n \in {1, 3} : O!DecodedAt(q, i) = d(c, i + n)
    <3>1. CASE q[i] = "+"
      <4>1. O!DecodedAt(q, i) = d(O!Space, i + 1)
        BY <3>1 DEF O!DecodedAt
      <4> QED
        BY <2>2, <4>1
    <3>2. CASE q[i] = "%" /\ i + 2 <= Len(q)
      <4>1. CASE O!IsCode(q[i + 1], q[i + 2])
        <5>1. O!DecodedAt(q, i) = d(O!CharOf(q[i + 1], q[i + 2]), i + 3)
          BY <3>2, <4>1 DEF O!DecodedAt
        <5> HIDE DEF d
        <5> QED
          BY <2>1, <4>1, <5>1
      <4>2. CASE ~O!IsCode(q[i + 1], q[i + 2])
        <5>1. O!DecodedAt(q, i) = d("%", i + 1)
          BY <3>2, <4>2 DEF O!DecodedAt
        <5> QED
          BY <2>2, <5>1
      <4> QED
        BY <4>1, <4>2
    <3>3. CASE ~(q[i] = "+") /\ ~(q[i] = "%" /\ i + 2 <= Len(q))
      <4>1. O!DecodedAt(q, i) = d(q[i], i + 1)
        BY <3>3 DEF O!DecodedAt
      <4> QED
        BY <2>2, <4>1
    <3> QED
      BY <3>1, <3>2, <3>3
  <2> HIDE DEF d
  <2> QED
    BY <2>3, <2>4
<1>3. \A i \in 1 .. N, acc \in A : O!DecodeStep(q, acc, i) \in A
  <2> SUFFICES ASSUME NEW i \in 1 .. N, NEW acc \in A PROVE O!DecodeStep(q, acc, i) \in A
    OBVIOUS
  <2>1. Append(acc.out, O!DecodedAt(q, i).char) \in Seq(Query)
    BY <1>2
  <2>2. [out |-> Append(acc.out, O!DecodedAt(q, i).char), next |-> O!DecodedAt(q, i).next] \in A
    BY <1>2, <2>1
  <2> QED
    BY <2>2 DEF O!DecodeStep
<1>4. O!PercentDecode(q) = read[N].out
  BY DEF O!PercentDecode
<1> HIDE DEF N
<1>5. \A p \in (1 .. N) \X A : step[p] = O!DecodeStep(q, p[2], p[1])
  OBVIOUS
<1>6. step \in Steps(N, A)
  <2> HIDE DEF A
  <2> QED
    BY <1>3 DEF Steps
<1>7. \E f : on(f)
  <2> HIDE DEF step, A, base
  <2>1. PICK f \in Loops(N, A) : IsLoop(N, base, step, f)
    BY <1>1, <1>6, Recursion
  <2>2. ASSUME NEW i \in 0 .. N, i # 0 PROVE f[i] = O!DecodeStep(q, f[i - 1], i)
    <3>1. i \in 1 .. N /\ f[i - 1] \in A
      BY <1>1, <2>1, <2>2 DEF Loops
    <3>2. <<i, f[i - 1]>> \in (1 .. N) \X A
      BY <3>1
    <3>3. step[<<i, f[i - 1]>>] = O!DecodeStep(q, f[i - 1], i)
      BY <1>5, <3>2
    <3> QED
      BY <2>1, <3>1, <3>3 DEF IsLoop
  <2>3. f[0] = [out |-> <<>>, next |-> 1]
    BY <2>1 DEF IsLoop, base
  <2>4. f = [i \in 0 .. N |-> f[i]]
    BY <2>1 DEF Loops
  <2>5. \A i \in 0 .. N : f[i] = IF i = 0 THEN [out |-> <<>>, next |-> 1] ELSE O!DecodeStep(q, f[i - 1], i)
    BY <2>2, <2>3
  <2>6. on(f)
    BY <2>4, <2>5
  <2> QED
    BY <2>6
<1>8. on(read)
  <2> HIDE DEF on
  <2> QED
    BY <1>7
<1> HIDE DEF read
<1>9. read[0] = [out |-> <<>>, next |-> 1] /\ \A i \in 1 .. N : read[i] = O!DecodeStep(q, read[i - 1], i)
  BY <1>1, <1>8
<1> QED
  BY <1>4, <1>9 DEF N

\* What is decoded is what was encoded.
LEMMA Decoded ==
    ASSUME NEW v \in Texts, NEW plus \in BOOLEAN
    PROVE  /\ O!Encoded(v, plus) \in Seq(Query)
           /\ \A i \in 1 .. Len(O!Encoded(v, plus)) : O!Encoded(v, plus)[i] # "&"
           /\ O!PercentDecode(O!Encoded(v, plus)) = v
<1> DEFINE N == Len(v)
           e == [i \in 1 .. N |-> O!EncodedChar(v[i], plus)]
           q == O!Encoded(v, plus)
<1>1. N \in Nat /\ \A i \in 1 .. N : v[i] \in Char
  BY DEF Texts
<1>2. PICK f \in [0 .. N -> Seq(Query)] :
        f[0] = <<>> /\ (\A i \in 1 .. N : f[i] = f[i - 1] \o O!EncodedChar(v[i], plus)) /\ q = f[N]
  BY EncodedUnfolds
<1>3. q \in Seq(Query)
  BY <1>1, <1>2
<1>4. PICK read : /\ read[0] = [out |-> <<>>, next |-> 1]
                  /\ \A i \in 1 .. Len(q) : read[i] = O!DecodeStep(q, read[i - 1], i)
                  /\ O!PercentDecode(q) = read[Len(q)].out
  BY <1>3, DecodeUnfolds
<1> HIDE DEF N, q
<1>5. \A i \in 1 .. N : e[i] = O!EncodedChar(v[i], plus)
  OBVIOUS
<1>6. e \in [1 .. N -> Seq(Query)]
  BY <1>1, EncodedCharIs
<1> HIDE DEF e
<1>7. \A i \in 1 .. N : f[i] = f[i - 1] \o e[i]
  BY <1>2, <1>5
<1>8. \A k \in 0 .. N : Len(f[k]) <= Len(q) /\ \A i \in 1 .. Len(f[k]) : q[i] = f[k][i]
  BY <1>1, <1>2, <1>6, <1>7, EncodedGrows
<1> DEFINE S == {k \in 0 .. N : /\ read[Len(f[k])] = [out |-> SubSeq(v, 1, k), next |-> Len(f[k]) + 1]
                                /\ \A i \in 1 .. Len(f[k]) : f[k][i] # "&"}
<1>9. 0 \in S
  <2>1. 0 \in 0 .. N /\ Len(f[0]) = 0 /\ SubSeq(v, 1, 0) = <<>>
    BY <1>1, <1>2 DEF Texts
  <2>2. \A i \in 1 .. Len(f[0]) : f[0][i] # "&"
    BY <2>1
  <2>3. read[Len(f[0])] = [out |-> SubSeq(v, 1, 0), next |-> Len(f[0]) + 1]
    BY <1>4, <2>1
  <2> QED
    BY <2>1, <2>2, <2>3
<1>10. ASSUME NEW n \in 0 .. N, n \in S, n < N PROVE n + 1 \in S
  <2> DEFINE k == n + 1
             a == Len(f[n])
             c == v[k]
             was == SubSeq(v, 1, n)
  <2>1. k \in 1 .. N /\ k \in 0 .. N /\ k - 1 = n /\ c \in Char
    BY <1>1, <1>10
  <2>2. f[n] \in Seq(Query) /\ f[k] \in Seq(Query) /\ e[k] \in Seq(Query) /\ f[k] = f[n] \o e[k] /\ e[k] = O!EncodedChar(c, plus)
    BY <1>5, <1>6, <1>7, <2>1
  <2>3. /\ Len(e[k]) > 0 /\ \A i \in 1 .. Len(e[k]) : e[k][i] # "&"
        /\ \/ Len(e[k]) = 1 /\ (IF e[k][1] = "+" THEN c = O!Space ELSE c = e[k][1]) /\ e[k][1] # "%"
           \/ c \in DOMAIN O!Coded /\ Len(e[k]) = 3 /\ e[k][1] = "%" /\ <<e[k][2], e[k][3]>> = O!Coded[c]
    BY <2>1, <2>2, EncodedCharIs
  <2>4. read[a] = [out |-> was, next |-> a + 1] /\ \A i \in 1 .. a : f[n][i] # "&"
    BY <1>10
  <2>5. Append(was, c) = SubSeq(v, 1, k)
    <3>1. v \in Seq(Char) /\ n \in Nat /\ n < Len(v)
      BY <1>1, <1>10 DEF Texts, N
    <3> QED
      BY <3>1
  <2> HIDE DEF c, was, k
  <2>6. a \in Nat /\ Len(f[k]) = a + Len(e[k]) /\ (\A i \in 1 .. Len(e[k]) : f[k][a + i] = e[k][i])
    BY <2>2
  <2>7. \A i \in 1 .. a : f[k][i] = f[n][i]
    BY <2>2
  <2> HIDE DEF a
  <2>8. Len(e[k]) \in Nat /\ Len(q) \in Nat
    BY <1>3, <2>2
  <2>9. a + Len(e[k]) <= Len(q) /\ \A i \in 1 .. Len(e[k]) : q[a + i] = e[k][i]
    <3>1. Len(f[k]) <= Len(q) /\ \A i \in 1 .. Len(f[k]) : q[i] = f[k][i]
      BY <1>8, <2>1
    <3>2. \A i \in 1 .. Len(e[k]) : a + i \in 1 .. Len(f[k])
      BY <2>6, <2>8
    <3> QED
      BY <2>6, <3>1, <3>2
  <2>10. \A i \in 1 .. Len(f[k]) : f[k][i] # "&"
    <3> SUFFICES ASSUME NEW i \in 1 .. Len(f[k]) PROVE f[k][i] # "&"
      OBVIOUS
    <3>1. CASE i <= a
      BY <2>4, <2>6, <2>7, <3>1
    <3>2. CASE i > a
      <4>1. i - a \in 1 .. Len(e[k]) /\ a + (i - a) = i
        BY <2>6, <2>8, <3>2
      <4> QED
        BY <2>3, <2>6, <4>1
    <3> QED
      BY <2>6, <2>8, <3>1, <3>2
  <2>11. \A i \in (a + 1) .. (a + Len(e[k])) : read[i] = O!DecodeStep(q, read[i - 1], i)
    BY <1>4, <2>6, <2>8, <2>9
  <2>12. O!DecodedAt(q, a + 1) = [char |-> c, next |-> a + Len(e[k]) + 1]
    <3>1. CASE Len(e[k]) = 1 /\ (IF e[k][1] = "+" THEN c = O!Space ELSE c = e[k][1]) /\ e[k][1] # "%"
      <4>1. q[a + 1] = e[k][1] /\ q[a + 1] # "%" /\ (a + 1) + 1 = a + Len(e[k]) + 1
        BY <2>6, <2>9, <3>1
      <4>2. CASE q[a + 1] = "+"
        <5>1. O!DecodedAt(q, a + 1) = [char |-> O!Space, next |-> (a + 1) + 1]
          BY <4>2 DEF O!DecodedAt
        <5> QED
          BY <3>1, <4>1, <4>2, <5>1
      <4>3. CASE q[a + 1] # "+"
        <5>1. O!DecodedAt(q, a + 1) = [char |-> q[a + 1], next |-> (a + 1) + 1]
          BY <4>1, <4>3 DEF O!DecodedAt
        <5> QED
          BY <3>1, <4>1, <4>3, <5>1
      <4> QED
        BY <4>2, <4>3
    <3>2. CASE c \in DOMAIN O!Coded /\ Len(e[k]) = 3 /\ e[k][1] = "%" /\ <<e[k][2], e[k][3]>> = O!Coded[c]
      <4>1. q[a + 1] = "%" /\ q[a + 2] = e[k][2] /\ q[a + 3] = e[k][3] /\ a + 3 <= Len(q)
        BY <2>6, <2>9, <3>2
      <4>2. (a + 1) + 1 = a + 2 /\ (a + 1) + 2 = a + 3 /\ (a + 1) + 3 = a + Len(e[k]) + 1
        BY <2>6, <3>2
      <4>3. O!IsCode(q[(a + 1) + 1], q[(a + 1) + 2]) /\ O!CharOf(q[(a + 1) + 1], q[(a + 1) + 2]) = c
        BY <3>2, <4>1, <4>2, CharOfCode
      <4>4. O!DecodedAt(q, a + 1) = [char |-> O!CharOf(q[(a + 1) + 1], q[(a + 1) + 2]), next |-> (a + 1) + 3]
        <5>1. q[a + 1] # "+" /\ (a + 1) + 2 <= Len(q)
          BY <4>1, <4>2
        <5> QED
          BY <4>1, <4>3, <5>1 DEF O!DecodedAt
      <4> QED
        BY <4>2, <4>3, <4>4
    <3> QED
      BY <2>3, <3>1, <3>2
  <2> DEFINE r == [out |-> SubSeq(v, 1, k), next |-> a + Len(e[k]) + 1]
  <2>13. read[a + 1] = r
    <3>1. a + 1 \in (a + 1) .. (a + Len(e[k])) /\ (a + 1) - 1 = a /\ ~(a + 1 < a + 1)
      BY <2>3, <2>6, <2>8
    <3>2. read[a + 1] = O!DecodeStep(q, [out |-> was, next |-> a + 1], a + 1)
      BY <2>4, <2>11, <3>1
    <3> DEFINE d == O!DecodedAt(q, a + 1)
    <3>3. read[a + 1] = [out |-> Append(was, d.char), next |-> d.next]
      BY <3>1, <3>2 DEF O!DecodeStep
    <3>4. d.char = c /\ d.next = a + Len(e[k]) + 1
      BY <2>12
    <3> HIDE DEF d
    <3> QED
      BY <2>5, <3>3, <3>4
  <2>14. \A i \in (a + 2) .. (a + Len(e[k])) : read[i - 1] = r => read[i] = r
    <3> SUFFICES ASSUME NEW i \in (a + 2) .. (a + Len(e[k])), read[i - 1] = r PROVE read[i] = r
      OBVIOUS
    <3>1. i \in (a + 1) .. (a + Len(e[k])) /\ i < a + Len(e[k]) + 1
      BY <2>6, <2>8
    <3>2. read[i] = O!DecodeStep(q, r, i)
      BY <2>11, <3>1
    <3> QED
      BY <3>1, <3>2 DEF O!DecodeStep
  <2> HIDE DEF r
  <2>15. read[a + Len(e[k])] = r
    <3>1. CASE Len(e[k]) = 1
      BY <2>13, <3>1
    <3>2. CASE Len(e[k]) = 3
      <4>1. a + 2 \in (a + 2) .. (a + Len(e[k])) /\ a + 3 \in (a + 2) .. (a + Len(e[k])) /\ (a + 2) - 1 = a + 1
            /\ (a + 3) - 1 = a + 2
        BY <2>6, <3>2
      <4>2. read[a + 2] = r
        BY <2>13, <2>14, <4>1
      <4>3. read[a + 3] = r
        BY <2>14, <4>1, <4>2
      <4> QED
        BY <3>2, <4>3
    <3> QED
      BY <2>3, <3>1, <3>2
  <2>16. read[Len(f[k])] = [out |-> SubSeq(v, 1, k), next |-> Len(f[k]) + 1]
    BY <2>6, <2>15 DEF r
  <2> QED
    BY <2>1, <2>10, <2>16 DEF k
<1>11. N \in S
  <2> HIDE DEF S
  <2>1. \A n \in 0 .. N : n \in S
    BY <1>1, <1>9, <1>10, Induction
  <2> QED
    BY <1>1, <2>1
<1>12. SubSeq(v, 1, N) = v
  BY DEF Texts, N
<1>13. O!PercentDecode(q) = v
  <2> DEFINE all == SubSeq(v, 1, N)
  <2>1. read[Len(q)] = [out |-> all, next |-> Len(q) + 1]
    BY <1>2, <1>11
  <2> HIDE DEF all
  <2>2. read[Len(q)].out = all
    BY <2>1
  <2> QED
    BY <1>4, <1>12, <2>2 DEF all
<1> QED
  BY <1>2, <1>3, <1>11, <1>13 DEF q

\* The parts of a query have no "&" in them.
Plain(s) == s \in Seq(Query) /\ \A i \in 1 .. Len(s) : s[i] # "&"

\* A parameter is read as its key and its value.
LEMMA ParamIs ==
    ASSUME NEW key \in {"code", "state", "error"}, NEW v \in Texts, NEW plus \in BOOLEAN,
           NEW p, p = O!Param(key, v, plus)
    PROVE  Plain(p) /\ O!KeyOf(p) = <<key>> /\ O!PercentDecode(O!ValueOf(p)) = v
<1> DEFINE E == O!Encoded(v, plus)
           head == <<key, "=">>
<1>1. Plain(E) /\ O!PercentDecode(E) = v
  BY Decoded DEF Plain
<1>2. p = head \o E
  BY DEF O!Param
<1>3. head \in Seq(Query) /\ Len(head) = 2 /\ head[1] = key /\ head[2] = "=" /\ head[1] # "=" /\ head[1] # "&" /\ head[2] # "&"
  <2>1. key \in Query /\ "=" \in Query
    BY Codes DEF Query
  <2> QED
    BY <2>1
<1> HIDE DEF head, E
<1>4. p \in Seq(Query) /\ Len(p) = Len(E) + 2 /\ p[1] = head[1] /\ p[2] = head[2] /\ (\A i \in 1 .. Len(E) : p[i + 2] = E[i])
      /\ Len(E) \in Nat /\ E \in Seq(Query)
  <2>1. E \in Seq(Query) /\ Len(E) \in Nat
    BY <1>1 DEF Plain
  <2>2. IsJoined(Query, head, E, p)
    BY <1>2, <1>3, <2>1, Joined
  <2>4. \A i \in 1 .. Len(E) : i + 2 = Len(head) + i
    BY <1>3, <2>1
  <2>5. p[1] = head[1] /\ p[2] = head[2]
    BY <1>3, <2>2 DEF IsJoined
  <2> QED
    BY <1>3, <2>1, <2>2, <2>4, <2>5 DEF IsJoined
<1>5. Plain(p)
  <2> SUFFICES ASSUME NEW i \in 1 .. Len(p) PROVE p[i] # "&"
    BY <1>4 DEF Plain
  <2>1. CASE i > 2
    <3>1. i - 2 \in 1 .. Len(E) /\ (i - 2) + 2 = i
      BY <1>4, <2>1
    <3> QED
      BY <1>1, <1>4, <3>1 DEF Plain
  <2>2. CASE i = 1 \/ i = 2
    BY <1>3, <1>4, <2>2
  <2> QED
    BY <1>4, <2>1, <2>2
<1> DEFINE I == {j \in 1 .. Len(p) : p[j] = "="}
           at == O!SelectInSeq(p, LAMBDA c : c = "=")
<1>6. at = IF I # {} THEN Min(I) ELSE 0
  BY DEF O!SelectInSeq, O!Min, Min
<1>7. I \in SUBSET Nat /\ 2 \in I /\ 1 \notin I /\ 0 \notin I
  BY <1>3, <1>4
<1>8. O!KeyOf(p) = IF at = 0 THEN p ELSE SubSeq(p, 1, at - 1)
  BY DEF O!KeyOf
<1>9. O!ValueOf(p) = IF at = 0 THEN <<>> ELSE SubSeq(p, at + 1, Len(p))
  BY DEF O!ValueOf
<1> HIDE DEF I, at
<1>10. at = 2
  <2>1. Min(I) \in I /\ Min(I) <= 2
    BY <1>7, MinOf
  <2>2. Min(I) \in Nat
    BY <1>7, <2>1
  <2>3. Min(I) = 2
    BY <1>7, <2>1, <2>2
  <2> QED
    BY <1>6, <1>7, <2>3
<1>11. O!KeyOf(p) = <<key>>
  <2>1. O!KeyOf(p) = SubSeq(p, 1, 1)
    BY <1>8, <1>10
  <2>2. SubSeq(p, 1, 1) \in Seq(Query) /\ Len(SubSeq(p, 1, 1)) = 1 /\ SubSeq(p, 1, 1)[1] = key
    BY <1>3, <1>4
  <2> DEFINE s == SubSeq(p, 1, 1)
  <2> HIDE DEF s
  <2>3. s \in Seq(Query) /\ Len(s) = 1 /\ s[1] = key
    BY <2>2 DEF s
  <2>4. s = <<key>>
    BY <2>3
  <2> QED
    BY <2>1, <2>4 DEF s
<1>12. O!ValueOf(p) = E
  <2> DEFINE s == SubSeq(p, 3, Len(p))
  <2>1. O!ValueOf(p) = s
    BY <1>9, <1>10
  <2>2. s \in Seq(Query) /\ Len(s) = Len(E) /\ \A i \in 1 .. Len(E) : s[i] = p[i + 2]
    BY <1>4
  <2> HIDE DEF s
  <2>3. s = E
    BY <1>4, <2>2
  <2> QED
    BY <2>1, <2>3
<1> QED
  BY <1>1, <1>5, <1>11, <1>12

\* A key that one part has is read there.
LEMMA LastOfIs ==
    ASSUME NEW q \in Seq(Query), NEW key, NEW v, NEW p \in O!Pairs(q),
           O!KeyOf(O!PairAt(q, p)) = key, O!PercentDecode(O!ValueOf(O!PairAt(q, p))) = v,
           \A r \in O!Pairs(q) : O!KeyOf(O!PairAt(q, r)) = key => r = p
    PROVE  O!LastOf(q, key) = <<v>>
<1> DEFINE having == {r \in O!Pairs(q) : O!KeyOf(O!PairAt(q, r)) = key}
           last == CHOOSE x \in having : \A y \in having : y[1] <= x[1]
<1>1. O!LastOf(q, key) = IF having = {} THEN <<>> ELSE <<O!PercentDecode(O!ValueOf(O!PairAt(q, last)))>>
  BY DEF O!LastOf
<1>2. having = {p}
  OBVIOUS
<1>3. p[1] \in Nat
  <2>1. O!Cuts(q) \subseteq Nat
    BY DEF O!Cuts
  <2> QED
    BY <2>1 DEF O!Pairs
<1> HIDE DEF having
<1>4. \E x \in having : \A y \in having : y[1] <= x[1]
  BY <1>2, <1>3
<1>5. last \in having
  BY <1>4
<1> HIDE DEF last
<1>6. last = p /\ having # {}
  BY <1>2, <1>5
<1> QED
  BY <1>1, <1>6

\* A key that no part has is not read.
LEMMA LastOfNone ==
    ASSUME NEW q, NEW key, \A r \in O!Pairs(q) : O!KeyOf(O!PairAt(q, r)) # key
    PROVE  O!LastOf(q, key) = <<>>
BY DEF O!LastOf

IsPair(q, a, b) ==
    q \in Seq(Query) /\ \E x, y : O!Pairs(q) = {x, y} /\ O!PairAt(q, x) = a /\ O!PairAt(q, y) = b

IsTriple(q, a, b, c) ==
    /\ q \in Seq(Query)
    /\ \E x, y, z : O!Pairs(q) = {x, y, z} /\ O!PairAt(q, x) = a /\ O!PairAt(q, y) = b /\ O!PairAt(q, z) = c

\* The parts of a query are what stands between its "&".
LEMMA TwoParts ==
    ASSUME NEW a, NEW b, Plain(a), Plain(b), NEW q, q = a \o <<"&">> \o b
    PROVE  IsPair(q, a, b)
<1> DEFINE m == Len(a) + 1
           n == Len(a) + Len(b) + 2
           x == <<0, m>>
           y == <<m, n>>
<1>0. <<"&">> \in Seq(Query) /\ Len(<<"&">>) = 1 /\ <<"&">>[1] = "&"
  <2>1. "&" \in Query
    BY Codes DEF Query
  <2> QED
    BY <2>1
<1>1. a \in Seq(Query) /\ b \in Seq(Query) /\ Len(a) \in Nat /\ Len(b) \in Nat
  BY DEF Plain
<1>2. /\ q \in Seq(Query) /\ Len(q) = Len(a) + Len(b) + 1
      /\ \A i \in 1 .. Len(a) : q[i] = a[i]
      /\ q[Len(a) + 1] = "&"
      /\ \A i \in 1 .. Len(b) : q[m + i] = b[i]
  BY <1>0, <1>1
<1>3. O!Cuts(q) = {0, m, n}
  <2>1. ASSUME NEW i \in 1 .. Len(q) PROVE q[i] = "&" <=> i = m
    <3>1. CASE i < m
      BY <1>1, <1>2, <3>1 DEF Plain
    <3>2. CASE i > m
      <4>1. i - m \in 1 .. Len(b) /\ m + (i - m) = i
        BY <1>1, <1>2, <3>2
      <4> QED
        BY <1>2, <3>2, <4>1 DEF Plain
    <3> QED
      BY <1>1, <1>2, <3>1, <3>2
  <2>2. m \in 1 .. Len(q) /\ DOMAIN q = 1 .. Len(q) /\ Len(q) + 1 = n
    BY <1>1, <1>2
  <2> HIDE DEF m, n
  <2> QED
    BY <2>1, <2>2 DEF O!Cuts
<1>4. O!Pairs(q) = {x, y}
  <2>1. 0 < m /\ m < n /\ m \in Nat /\ n \in Nat
    BY <1>1
  <2> HIDE DEF m, n
  <2> DEFINE D == {0, m, n}
             next(p) == p[1] < p[2] /\ \A c \in D : c <= p[1] \/ c >= p[2]
  <2>2. \A p \in D \X D : next(p) <=> p \in {x, y}
    BY <2>1
  <2>3. {x, y} \subseteq D \X D
    OBVIOUS
  <2>4. O!Pairs(q) = {p \in D \X D : next(p)}
    BY <1>3 DEF O!Pairs
  <2> HIDE DEF x, y, D, next
  <2> QED
    BY <2>2, <2>3, <2>4
<1>5. O!PairAt(q, x) = a
  <2> DEFINE s == SubSeq(q, 1, Len(a))
  <2>1. O!PairAt(q, x) = SubSeq(q, 0 + 1, m - 1) /\ 0 + 1 = 1 /\ m - 1 = Len(a)
    BY <1>1 DEF O!PairAt
  <2>2. s \in Seq(Query) /\ Len(s) = Len(a) /\ \A i \in 1 .. Len(a) : s[i] = q[i]
    BY <1>1, <1>2
  <2>4. \A i \in 1 .. Len(a) : s[i] = a[i]
    BY ONLY <1>2, <2>2
  <2> HIDE DEF s
  <2>3. s = a
    BY <1>1, <2>2, <2>4, SameSeq
  <2> QED
    BY <2>1, <2>3 DEF s
<1>6. O!PairAt(q, y) = b
  <2> DEFINE s == SubSeq(q, m + 1, Len(q))
  <2>1. O!PairAt(q, y) = SubSeq(q, m + 1, n - 1) /\ n - 1 = Len(q)
    BY <1>1, <1>2 DEF O!PairAt
  <2>2. s \in Seq(Query) /\ Len(s) = Len(b) /\ \A i \in 1 .. Len(b) : s[i] = q[m + i]
    BY <1>1, <1>2
  <2> HIDE DEF s
  <2>4. \A i \in 1 .. Len(b) : s[i] = b[i]
    BY ONLY <1>2, <2>2
  <2>3. s = b
    BY <1>1, <2>2, <2>4, SameSeq
  <2> QED
    BY <2>1, <2>3 DEF s
<1> HIDE DEF x, y
<1> QED
  BY <1>2, <1>4, <1>5, <1>6 DEF IsPair

LEMMA ThreeParts ==
    ASSUME NEW a, NEW b, NEW c, Plain(a), Plain(b), Plain(c), NEW q, q = a \o <<"&">> \o b \o <<"&">> \o c
    PROVE  IsTriple(q, a, b, c)
<1> DEFINE l == Len(a) + 1
           m == Len(a) + Len(b) + 2
           n == Len(a) + Len(b) + Len(c) + 3
           x == <<0, l>>
           y == <<l, m>>
           z == <<m, n>>
<1>0. <<"&">> \in Seq(Query) /\ Len(<<"&">>) = 1 /\ <<"&">>[1] = "&"
  <2>1. "&" \in Query
    BY Codes DEF Query
  <2> QED
    BY <2>1
<1>1. a \in Seq(Query) /\ b \in Seq(Query) /\ c \in Seq(Query) /\ Len(a) \in Nat /\ Len(b) \in Nat /\ Len(c) \in Nat
  BY DEF Plain
<1>2. /\ q \in Seq(Query) /\ Len(q) = Len(a) + Len(b) + Len(c) + 2
      /\ \A i \in 1 .. Len(a) : q[i] = a[i]
      /\ q[l] = "&" /\ q[m] = "&"
      /\ \A i \in 1 .. Len(b) : q[l + i] = b[i]
      /\ \A i \in 1 .. Len(c) : q[m + i] = c[i]
  <2> DEFINE front == a \o <<"&">> \o b
  <2>1. /\ front \in Seq(Query) /\ Len(front) = Len(a) + Len(b) + 1
        /\ \A i \in 1 .. Len(a) : front[i] = a[i]
        /\ front[l] = "&"
        /\ \A i \in 1 .. Len(b) : front[l + i] = b[i]
    BY <1>0, <1>1
  <2>2. q = front \o <<"&">> \o c
    OBVIOUS
  <2> HIDE DEF front
  <2>3. /\ q \in Seq(Query) /\ Len(q) = Len(front) + Len(c) + 1
        /\ \A i \in 1 .. Len(front) : q[i] = front[i]
        /\ q[Len(front) + 1] = "&"
        /\ \A i \in 1 .. Len(c) : q[Len(front) + 1 + i] = c[i]
    <3> DEFINE and == <<"&">>
               back == and \o c
    <3>1. and \in Seq(Query) /\ Len(and) = 1 /\ and[1] = "&"
      BY <1>0
    <3>2. q = (front \o and) \o c
      BY <2>2
    <3> HIDE DEF and
    <3>3. q = front \o back
      <4>1. front \in Seq(Query) /\ and \in Seq(Query) /\ c \in Seq(Query)
        BY <1>1, <2>1, <3>1
      <4> HIDE DEF front
      <4>2. (front \o and) \o c = front \o (and \o c)
        BY <4>1, Associative
      <4> QED
        BY <3>2, <4>2
    <3>4. back \in Seq(Query) /\ IsJoined(Query, and, c, back)
      BY <1>1, <3>1, Joined
    <3> HIDE DEF back
    <3>5. IsJoined(Query, front, back, q)
      BY <2>1, <3>3, <3>4, Joined
    <3>6. 1 \in 1 .. Len(back) /\ 1 \in 1 .. Len(and)
          /\ \A i \in 1 .. Len(c) : 1 + i \in 1 .. Len(back) /\ Len(front) + 1 + i = Len(front) + (1 + i)
      BY <1>1, <3>1, <3>4, <3>5 DEF IsJoined
    <3>7. q[Len(front) + 1] = "&"
      BY <3>1, <3>4, <3>5, <3>6 DEF IsJoined
    <3>8. \A i \in 1 .. Len(c) : q[Len(front) + (1 + i)] = c[i]
      BY <3>1, <3>4, <3>5, <3>6 DEF IsJoined
    <3>9. q \in Seq(Query) /\ Len(q) = Len(front) + Len(c) + 1 /\ \A i \in 1 .. Len(front) : q[i] = front[i]
      BY <1>1, <3>1, <3>4, <3>5 DEF IsJoined
    <3>10. \A i \in 1 .. Len(c) : q[Len(front) + 1 + i] = c[i]
      BY <3>6, <3>8
    <3> QED
      BY <3>7, <3>9, <3>10
  <2>4. \A i \in 1 .. Len(a) : i \in 1 .. Len(front)
    BY <1>1, <2>1
  <2>5. l \in 1 .. Len(front) /\ \A i \in 1 .. Len(b) : l + i \in 1 .. Len(front)
    BY <1>1, <2>1
  <2>6. Len(front) + 1 = m
    BY <1>1, <2>1
  <2>7. q \in Seq(Query) /\ Len(q) = Len(a) + Len(b) + Len(c) + 2
    BY <1>1, <2>1, <2>3
  <2>8. \A i \in 1 .. Len(a) : q[i] = a[i]
    BY ONLY <2>1, <2>3, <2>4
  <2>9. \A i \in 1 .. Len(b) : q[l + i] = b[i]
    BY ONLY <2>1, <2>3, <2>5
  <2>10. q[l] = "&"
    BY ONLY <2>1, <2>3, <2>5
  <2>11. q[m] = "&" /\ \A i \in 1 .. Len(c) : q[m + i] = c[i]
    BY ONLY <2>3, <2>6
  <2> QED
    BY <2>7, <2>8, <2>9, <2>10, <2>11
<1>3. O!Cuts(q) = {0, l, m, n}
  <2>1. ASSUME NEW i \in 1 .. Len(q) PROVE q[i] = "&" <=> (i = l \/ i = m)
    <3>1. CASE i < l
      BY <1>1, <1>2, <3>1 DEF Plain
    <3>2. CASE i > l /\ i < m
      <4>1. i - l \in 1 .. Len(b) /\ l + (i - l) = i
        BY <1>1, <1>2, <3>2
      <4> QED
        BY <1>2, <3>2, <4>1 DEF Plain
    <3>3. CASE i > m
      <4>1. i - m \in 1 .. Len(c) /\ m + (i - m) = i /\ i # l
        BY <1>1, <1>2, <3>3
      <4> QED
        BY <1>2, <3>3, <4>1 DEF Plain
    <3>4. CASE i = l \/ i = m
      BY <1>2, <3>4
    <3>5. l \in Nat /\ m \in Nat /\ i \in Nat
      BY <1>1
    <3> HIDE DEF l, m
    <3> QED
      BY <3>1, <3>2, <3>3, <3>4, <3>5
  <2>2. l \in 1 .. Len(q) /\ m \in 1 .. Len(q) /\ DOMAIN q = 1 .. Len(q) /\ Len(q) + 1 = n
    BY <1>1, <1>2
  <2> HIDE DEF l, m, n
  <2> QED
    BY <2>1, <2>2 DEF O!Cuts
<1>4. O!Pairs(q) = {x, y, z}
  <2>1. 0 < l /\ l < m /\ m < n /\ l \in Nat /\ m \in Nat /\ n \in Nat
    BY <1>1
  <2> HIDE DEF l, m, n
  <2> DEFINE D == {0, l, m, n}
             next(p) == p[1] < p[2] /\ \A k \in D : k <= p[1] \/ k >= p[2]
  <2>2. \A p \in D \X D : next(p) <=> p \in {x, y, z}
    BY <2>1
  <2>3. {x, y, z} \subseteq D \X D
    OBVIOUS
  <2>4. O!Pairs(q) = {p \in D \X D : next(p)}
    BY <1>3 DEF O!Pairs
  <2> HIDE DEF x, y, z, D, next
  <2> QED
    BY <2>2, <2>3, <2>4
<1>5. ASSUME NEW i \in Nat, NEW j \in Nat, i <= j, j <= Len(q), NEW t \in Seq(Query), Len(t) = j - i,
             \A k \in 1 .. Len(t) : q[i + k] = t[k]
      PROVE  O!PairAt(q, <<i, j + 1>>) = t
  <2> DEFINE s == SubSeq(q, i + 1, j)
  <2>1. O!PairAt(q, <<i, j + 1>>) = s
    <3>1. O!PairAt(q, <<i, j + 1>>) = SubSeq(q, i + 1, (j + 1) - 1) /\ (j + 1) - 1 = j
      BY <1>5 DEF O!PairAt
    <3> QED
      BY <3>1
  <2>2. IsCutOut(Query, q, i, j, s)
    BY <1>2, <1>5, CutOut
  <2> HIDE DEF s
  <2>3. s = t
    BY <1>5, <2>2, SameSeq DEF IsCutOut
  <2> QED
    BY <2>1, <2>3
<1>6. O!PairAt(q, x) = a
  <2>1. Len(a) <= Len(q) /\ Len(a) = Len(a) - 0 /\ \A k \in 1 .. Len(a) : q[0 + k] = a[k]
    BY <1>1, <1>2
  <2> QED
    BY <1>1, <1>5, <2>1
<1>7. O!PairAt(q, y) = b
  <2>1. l + Len(b) <= Len(q) /\ l <= l + Len(b) /\ Len(b) = (l + Len(b)) - l /\ (l + Len(b)) + 1 = m /\ l \in Nat
        /\ l + Len(b) \in Nat
    BY <1>1, <1>2
  <2> QED
    BY <1>1, <1>2, <1>5, <2>1
<1>8. O!PairAt(q, z) = c
  <2>1. m + Len(c) <= Len(q) /\ m <= m + Len(c) /\ Len(c) = (m + Len(c)) - m /\ (m + Len(c)) + 1 = n /\ m \in Nat
        /\ m + Len(c) \in Nat
    BY <1>1, <1>2
  <2> QED
    BY <1>1, <1>2, <1>5, <2>1
<1> HIDE DEF x, y, z
<1> QED
  BY <1>2, <1>4, <1>6, <1>7, <1>8 DEF IsTriple

\* What the callback makes of a query, by what its three keys are read as.
LEMMA Outcome ==
    ASSUME NEW q, NEW c, NEW s, O!LastOf(q, <<"code">>) = <<c>>, O!LastOf(q, <<"state">>) = <<s>>
    PROVE  /\ O!LastOf(q, <<"error">>) = <<>> =>
                O!ParseCallback(q) = IF <<>> \in {c, s} THEN [result |-> "malformed"]
                                     ELSE [result |-> "success", code |-> c, state |-> s]
           /\ \A x : O!LastOf(q, <<"error">>) = <<x>> => O!ParseCallback(q) = [result |-> "error", error |-> x]
<1> DEFINE code == O!LastOf(q, <<"code">>)
           state == O!LastOf(q, <<"state">>)
           error == O!LastOf(q, <<"error">>)
           bad == \E v \in {code, state} : v \in {<<>>, <<<<>>>>}
<1>1. \A x : <<x>> # <<>> /\ <<x>>[1] = x
  OBVIOUS
<1>2. \A x, y : <<x>> = <<y>> => x = y
  OBVIOUS
<1>3. bad <=> <<>> \in {c, s}
  BY <1>1, <1>2
<1>4. error # <<>> => O!ParseCallback(q) = [result |-> "error", error |-> error[1]]
  BY DEF O!ParseCallback
<1>5. error = <<>> /\ bad => O!ParseCallback(q) = [result |-> "malformed"]
  BY DEF O!ParseCallback
<1>6. error = <<>> /\ ~bad => O!ParseCallback(q) = [result |-> "success", code |-> code[1], state |-> state[1]]
  BY DEF O!ParseCallback
<1>7. code[1] = c /\ state[1] = s
  BY <1>1
<1> HIDE DEF bad, code, state
<1>8. ASSUME error = <<>>
      PROVE  O!ParseCallback(q) = IF <<>> \in {c, s} THEN [result |-> "malformed"]
                                  ELSE [result |-> "success", code |-> c, state |-> s]
  <2>1. CASE bad
    BY <1>3, <1>5, <1>8, <2>1
  <2>2. CASE ~bad
    BY <1>3, <1>6, <1>7, <1>8, <2>2
  <2> QED
    BY <2>1, <2>2
<1>9. ASSUME NEW x, error = <<x>> PROVE O!ParseCallback(q) = [result |-> "error", error |-> x]
  <2>1. error # <<>> /\ error[1] = x
    BY <1>1, <1>9
  <2> HIDE DEF error
  <2> QED
    BY <1>4, <2>1
<1> QED
  BY <1>8, <1>9

\* What the provider sends is what the callback reads.
LEMMA CallbackReads ==
    ASSUME NEW code \in Texts, NEW state \in Texts, NEW plus \in BOOLEAN
    PROVE  O!CallbackIsRead(code, state, plus)
<1> DEFINE c == O!Param("code", code, plus)
           s == O!Param("state", state, plus)
           e == O!Param("error", code, plus)
           x == <<"x">>
           and == <<"&">>
           read == IF <<>> \in {code, state} THEN [result |-> "malformed"]
                   ELSE [result |-> "success", code |-> code, state |-> state]
           keys == {<<"code">>, <<"state">>, <<"error">>}
<1>1. Plain(c) /\ O!KeyOf(c) = <<"code">> /\ O!PercentDecode(O!ValueOf(c)) = code
  BY ParamIs
<1>2. Plain(s) /\ O!KeyOf(s) = <<"state">> /\ O!PercentDecode(O!ValueOf(s)) = state
  BY ParamIs
<1>3. Plain(e) /\ O!KeyOf(e) = <<"error">> /\ O!PercentDecode(O!ValueOf(e)) = code
  BY ParamIs
<1>4. Plain(x) /\ O!KeyOf(x) = <<"x">>
  <2>1. Plain(x)
    <3>1. x \in Seq(Query) /\ Len(x) = 1 /\ x[1] = "x"
      BY DEF Query
    <3> HIDE DEF x
    <3>2. \A i \in 1 .. Len(x) : x[i] # "&"
      BY <3>1
    <3> QED
      BY <3>1, <3>2 DEF Plain
  <2> DEFINE I == {j \in 1 .. Len(x) : x[j] = "="}
             at == O!SelectInSeq(x, LAMBDA k : k = "=")
  <2>2. at = IF I # {} THEN Min(I) ELSE 0
    BY DEF O!SelectInSeq, O!Min, Min
  <2>3. I = {}
    <3>1. Len(x) = 1 /\ x[1] = "x"
      OBVIOUS
    <3> HIDE DEF x
    <3> QED
      BY <3>1
  <2>4. O!KeyOf(x) = IF at = 0 THEN x ELSE SubSeq(x, 1, at - 1)
    BY DEF O!KeyOf
  <2> HIDE DEF at, I
  <2> QED
    BY <2>1, <2>2, <2>3, <2>4
<1>5. \A k, l : <<k>> = <<l>> => k = l
  OBVIOUS
<1>6. /\ <<"code">> # <<"state">> /\ <<"code">> # <<"error">> /\ <<"state">> # <<"error">>
      /\ <<"x">> # <<"code">> /\ <<"x">> # <<"state">> /\ <<"x">> # <<"error">>
  BY <1>5
<1> HIDE DEF c, s, e
<1>7. O!ParseCallback(c \o and \o s) = read
  <2> DEFINE q == c \o and \o s
  <2>0. q = c \o <<"&">> \o s
    OBVIOUS
  <2> HIDE DEF q, read
  <2>1. PICK u, v : O!Pairs(q) = {u, v} /\ O!PairAt(q, u) = c /\ O!PairAt(q, v) = s /\ q \in Seq(Query)
    <3>1. IsPair(q, c, s)
      BY <1>1, <1>2, <2>0, TwoParts
    <3> QED
      BY <3>1 DEF IsPair
  <2>2. O!LastOf(q, <<"code">>) = <<code>>
    BY <1>1, <1>2, <1>6, <2>1, LastOfIs
  <2>3. O!LastOf(q, <<"state">>) = <<state>>
    BY <1>1, <1>2, <1>6, <2>1, LastOfIs
  <2>4. O!LastOf(q, <<"error">>) = <<>>
    BY <1>1, <1>2, <1>6, <2>1, LastOfNone
  <2> QED
    BY <2>2, <2>3, <2>4, Outcome DEF q, read
<1>8. O!ParseCallback(<<"x", "&">> \o s \o and \o c) = read
  <2> DEFINE q == <<"x", "&">> \o s \o and \o c
  <2>1. <<"x", "&">> = x \o and
    <3>1. "x" \in Query /\ "&" \in Query
      BY Codes DEF Query
    <3>2. <<"x", "&">> \in Seq(Query) /\ x \in Seq(Query) /\ and \in Seq(Query)
      BY <3>1
    <3>3. Len(x) = 1 /\ Len(and) = 1 /\ x[1] = "x" /\ and[1] = "&" /\ Len(<<"x", "&">>) = 2
          /\ <<"x", "&">>[1] = "x" /\ <<"x", "&">>[2] = "&"
      OBVIOUS
    <3>4. IsJoined(Query, x, and, x \o and)
      BY <3>2, Joined
    <3> DEFINE t == x \o and
               w == <<"x", "&">>
    <3> HIDE DEF x, and, t, w
    <3>5. t \in Seq(Query) /\ Len(t) = 2 /\ t[1] = "x" /\ t[2] = "&"
      BY <3>3, <3>4 DEF IsJoined, t
    <3>6. w \in Seq(Query) /\ Len(w) = 2 /\ w[1] = "x" /\ w[2] = "&"
      BY <3>2, <3>3 DEF w
    <3>7. w = t
      BY <3>5, <3>6
    <3> QED
      BY <3>7 DEF w, t
  <2>0. q = x \o <<"&">> \o s \o <<"&">> \o c
    BY <2>1
  <2> HIDE DEF q, read, x
  <2>2. PICK t, u, v : /\ O!Pairs(q) = {t, u, v} /\ q \in Seq(Query)
                       /\ O!PairAt(q, t) = x /\ O!PairAt(q, u) = s /\ O!PairAt(q, v) = c
    <3>1. IsTriple(q, x, s, c)
      BY <1>1, <1>2, <1>4, <2>0, ThreeParts
    <3> QED
      BY <3>1 DEF IsTriple
  <2>3. O!LastOf(q, <<"code">>) = <<code>>
    BY <1>1, <1>2, <1>4, <1>6, <2>2, LastOfIs
  <2>4. O!LastOf(q, <<"state">>) = <<state>>
    BY <1>1, <1>2, <1>4, <1>6, <2>2, LastOfIs
  <2>5. O!LastOf(q, <<"error">>) = <<>>
    BY <1>1, <1>2, <1>4, <1>6, <2>2, LastOfNone
  <2> QED
    BY <2>3, <2>4, <2>5, Outcome DEF q, read
<1>9. O!ParseCallback(c \o and \o s \o and \o e) = [result |-> "error", error |-> code]
  <2> DEFINE q == c \o and \o s \o and \o e
  <2>0. q = c \o <<"&">> \o s \o <<"&">> \o e
    OBVIOUS
  <2> HIDE DEF q
  <2>1. PICK t, u, v : /\ O!Pairs(q) = {t, u, v} /\ q \in Seq(Query)
                       /\ O!PairAt(q, t) = c /\ O!PairAt(q, u) = s /\ O!PairAt(q, v) = e
    <3>1. IsTriple(q, c, s, e)
      BY <1>1, <1>2, <1>3, <2>0, ThreeParts
    <3> QED
      BY <3>1 DEF IsTriple
  <2>2. O!LastOf(q, <<"code">>) = <<code>>
    BY <1>1, <1>2, <1>3, <1>6, <2>1, LastOfIs
  <2>3. O!LastOf(q, <<"state">>) = <<state>>
    BY <1>1, <1>2, <1>3, <1>6, <2>1, LastOfIs
  <2>4. O!LastOf(q, <<"error">>) = <<code>>
    BY <1>1, <1>2, <1>3, <1>6, <2>1, LastOfIs
  <2> QED
    BY <2>2, <2>3, <2>4, Outcome DEF q
<1> QED
  BY <1>7, <1>8, <1>9 DEF O!CallbackIsRead, c, s, e

----------------------------------------------------------------------------
(* The inputs of a behaviour *)

\* Every input of a behaviour is one of its kind.
THEOREM TypeCorrect == Spec => []Typed
<1>1. Init => Typed
  BY DEF Init, Typed
<1>2. Typed /\ [Next]_<<kind, input>> => Typed'
  <2> SUFFICES ASSUME Typed, [Next]_<<kind, input>> PROVE Typed'
    OBVIOUS
  <2>1. CASE Next
    BY <2>1 DEF Next, Typed
  <2>2. CASE UNCHANGED <<kind, input>>
    <3>1. kind' = kind /\ input' = input
      BY <2>2
    <3> QED
      BY <3>1 DEF Typed
  <2> QED
    BY <2>1, <2>2
<1> QED
  BY <1>1, <1>2, PTL DEF Spec

\* Whatever the code and the state of an authorization, the callback reads what the
\* provider sent, and an error is never a success.
THEOREM CallbackReadBack == Spec => []CallbackIsRead
<1>1. Typed => CallbackIsRead
  <2> SUFFICES ASSUME Typed, kind = "callback" PROVE O!CallbackIsRead(input.code, input.state, input.plus)
    BY DEF CallbackIsRead
  <2>1. input \in [code : Texts, state : Texts, plus : BOOLEAN]
    BY DEF Typed, IsInput
  <2>2. input.code \in Texts /\ input.state \in Texts /\ input.plus \in BOOLEAN
    BY <2>1
  <2> QED
    BY <2>2, CallbackReads
<1> QED
  BY <1>1, TypeCorrect, PTL

\* Whatever the command line, the configuration and the environment, one mode is
\* started and one client generated, or nothing; an empty server only for a file that
\* lists none.
THEOREM StartsAsAsked == Spec => []StartIsAsAsked
<1>1. Typed => StartIsAsAsked
  <2> SUFFICES ASSUME Typed, kind = "launch" PROVE L!LaunchedAsAsked(input.c, input.machine)
    BY DEF StartIsAsAsked
  <2>1. input \in [c : CommandLines, machine : Hosts]
    BY DEF Typed, IsInput
  <2>2. input.c \in CommandLines /\ input.machine \in Hosts
    BY <2>1
  <2> QED
    BY <2>2, LaunchedIsAsked
<1> QED
  BY <1>1, TypeCorrect, PTL

\* Two models share a file only where replaced characters make their repositories the
\* same, and no path leads out of the store.
THEOREM ModelsApart == Spec => []ModelsAreApart
<1>1. Typed => ModelsAreApart
  <2> SUFFICES ASSUME Typed, kind = "models" PROVE M!KeysAreApart(input)
    BY DEF ModelsAreApart
  <2>1. input \in Texts \X Texts
    BY DEF Typed, IsInput
  <2> QED
    BY <2>1, KeysApart
<1> QED
  BY <1>1, TypeCorrect, PTL

\* The status of the assets is what preparation and removal make of them, a removal
\* that failed halfway included.
THEOREM StatusTrue == Spec => []StatusIsTrue
<1>1. Typed => StatusIsTrue
  <2> SUFFICES ASSUME Typed, kind = "machine" PROVE M!StatusIsTrue(input.config, input.machine)
    BY DEF StatusIsTrue
  <2>1. input.config \in [cacheDir : Texts, server : {"none", "present", "absent"}] /\ input.machine \in Machines(Texts)
    BY DEF Typed, IsInput
  <2> QED
    BY <2>1, StatusHolds
<1> QED
  BY <1>1, TypeCorrect, PTL

\* A message that is answered reaches the caller, whatever the status around it, and a
\* caller is left waiting only where the server accepted or its JSON cannot be read.
THEOREM AnswersKept == Spec => []NoAnswerIsLost
<1>1. Typed => NoAnswerIsLost
  <2> SUFFICES ASSUME Typed, kind = "answer" PROVE B!AnswerIsNotLost(input, input.attached)
    BY DEF NoAnswerIsLost
  <2>1. input \in [status : Nat, content : STRING, challenge : BOOLEAN, message : BOOLEAN, attached : BOOLEAN]
    BY DEF Typed, IsInput
  <2>2. /\ input.status \in Nat /\ input.challenge \in BOOLEAN /\ input.message \in BOOLEAN
        /\ input.attached \in BOOLEAN
    BY <2>1
  <2> QED
    BY <2>2, AnswersReach
<1> QED
  BY <1>1, TypeCorrect, PTL

----------------------------------------------------------------------------
(* The arguments of a backend *)

\* A word is one of those that are given or one that the code itself writes.
ArgText  == Seq(Char \cup {"-H", "=", "--auth", "none"})
ArgLists == Seq(ArgText)
Start == [next |-> 1, parsed |-> B!Unparsed]

\* The loop of parse_backend_args over args.
BackendOn(args, t, n, f) ==
    f = [i \in 0 .. n |-> IF i = 0 THEN [next |-> 1, parsed |-> B!Unparsed] ELSE B!BackendStep(args, t, f[i - 1], i)]
ReadOf(args, t) == CHOOSE f : BackendOn(args, t, Len(args), f)

LEMMA BackendExists ==
    ASSUME NEW args, NEW t, NEW n \in Nat
    PROVE  \E f : BackendOn(args, t, n, f)
<1> DEFINE bad == {m \in Nat : ~\E f : BackendOn(args, t, m, f)}
<1> SUFFICES ASSUME bad # {} PROVE FALSE
  OBVIOUS
<1>1. PICK m \in bad : \A k \in bad : m <= k
  <2>1. bad \in SUBSET Nat
    OBVIOUS
  <2> HIDE DEF bad
  <2> QED
    BY <2>1, LeastExists
<1>2. m \in Nat /\ ~\E f : BackendOn(args, t, m, f)
  OBVIOUS
<1>3. m # 0
  <2> DEFINE g == [i \in 0 .. 0 |-> Start]
  <2>1. \A i \in 0 .. 0 : i = 0
    OBVIOUS
  <2>2. BackendOn(args, t, 0, g)
    BY <2>1 DEF BackendOn, Start
  <2> QED
    BY <1>2, <2>2
<1>4. PICK f : BackendOn(args, t, m - 1, f)
  <2>1. m - 1 \in Nat /\ ~(m <= m - 1)
    BY <1>2, <1>3
  <2>2. m - 1 \notin bad
    BY <1>1, <2>1
  <2> QED
    BY <2>1, <2>2
<1> DEFINE g == [i \in 0 .. m |-> IF i = m THEN B!BackendStep(args, t, f[m - 1], m) ELSE f[i]]
<1>5. \A i \in 0 .. (m - 1) : f[i] = IF i = 0 THEN Start ELSE B!BackendStep(args, t, f[i - 1], i)
  BY <1>2, <1>4 DEF BackendOn, Start
<1>6. \A i \in 0 .. (m - 1) : i \in 0 .. m /\ i # m /\ g[i] = f[i]
  BY <1>2
<1>7. g[m] = B!BackendStep(args, t, f[m - 1], m) /\ m - 1 \in 0 .. (m - 1)
  BY <1>2, <1>3
<1>8. g = [i \in 0 .. m |-> g[i]]
  OBVIOUS
<1> HIDE DEF g
<1>9. \A i \in 0 .. m : g[i] = IF i = 0 THEN Start ELSE B!BackendStep(args, t, g[i - 1], i)
  <2> SUFFICES ASSUME NEW i \in 0 .. m
               PROVE  g[i] = IF i = 0 THEN Start ELSE B!BackendStep(args, t, g[i - 1], i)
    OBVIOUS
  <2>1. CASE i = m
    BY <1>3, <1>6, <1>7, <2>1
  <2>2. CASE i # m
    <3>1. i \in 0 .. (m - 1) /\ (i # 0 => i - 1 \in 0 .. (m - 1))
      BY <1>2, <2>2
    <3> QED
      BY <1>5, <1>6, <3>1
  <2> QED
    BY <2>1, <2>2
<1>10. BackendOn(args, t, m, g)
  BY <1>8, <1>9 DEF BackendOn, Start
<1> QED
  BY <1>2, <1>10

LEMMA ReadUnfolds ==
    ASSUME NEW args \in ArgLists, NEW t
    PROVE  /\ ReadOf(args, t)[0] = Start
           /\ \A i \in 1 .. Len(args) : ReadOf(args, t)[i] = B!BackendStep(args, t, ReadOf(args, t)[i - 1], i)
           /\ B!ParseBackendArgs(args, t) = ReadOf(args, t)[Len(args)].parsed
<1> DEFINE f == ReadOf(args, t)
<1>1. Len(args) \in Nat
  BY DEF ArgLists
<1>2. BackendOn(args, t, Len(args), f)
  BY <1>1, BackendExists DEF ReadOf
<1>3. B!ParseBackendArgs(args, t) = f[Len(args)].parsed
  BY DEF B!ParseBackendArgs, ReadOf, BackendOn
<1> HIDE DEF f
<1>4. f[0] = Start /\ \A i \in 1 .. Len(args) : f[i] = B!BackendStep(args, t, f[i - 1], i)
  BY <1>1, <1>2 DEF BackendOn, Start
<1> QED
  BY <1>3, <1>4 DEF f

\* The words that are taken together from i, their number, and what becomes of them.
Two(z, i)   == B!IsBare(z[i + 1]) /\ i + 1 < Len(z)
Size(z, i)  == IF Two(z, i) THEN 2 ELSE 1
Group(z, i) == IF Two(z, i) THEN <<z[i + 1], z[i + 2]>> ELSE <<z[i + 1]>>
Follows(z, i) == IF Two(z, i) THEN z[i + 2] ELSE SubSeq(z[i + 1], 3, Len(z[i + 1]))
Opt(w)      == CHOOSE x \in B!OptionOf(w) : TRUE
IsTaken(z, i, t) == (Two(z, i) \/ B!IsAssigned(z[i + 1])) /\ B!Accepts(Opt(z[i + 1]), Follows(z, i), t)
Makes(z, i, t, p) == IF IsTaken(z, i, t) THEN B!Setting(p, Opt(z[i + 1]), Follows(z, i)) ELSE B!Kept(p, Group(z, i))

LEMMA GroupStep ==
    ASSUME NEW z \in ArgLists, NEW t, NEW i \in 0 .. (Len(z) - 1), NEW p,
           ReadOf(z, t)[i] = [next |-> i + 1, parsed |-> p]
    PROVE  /\ i + Size(z, i) \in 1 .. Len(z)
           /\ ReadOf(z, t)[i + Size(z, i)] = [next |-> i + Size(z, i) + 1, parsed |-> Makes(z, i, t, p)]
<1> DEFINE f == ReadOf(z, t)
           w == z[i + 1]
           acc == [next |-> i + 1, parsed |-> p]
<1>1. Len(z) \in Nat /\ i + 1 \in 1 .. Len(z) /\ (i + 1) - 1 = i
  BY DEF ArgLists
<1>2. f[i + 1] = B!BackendStep(z, t, acc, i + 1)
  BY <1>1, ReadUnfolds
<1>3. ~(i + 1 < acc.next) /\ i + 1 >= acc.next /\ acc.next = i + 1 /\ acc.parsed = p
  BY <1>1
<1> HIDE DEF acc
<1>4. CASE Two(z, i)
  <2>1. B!BackendStep(z, t, acc, i + 1) = B!Take(acc, w, z[(i + 1) + 1], <<w, z[(i + 1) + 1]>>, t) /\ (i + 1) + 1 = i + 2
    <3>1. B!IsBare(w) /\ i + 1 < Len(z)
      BY <1>4 DEF Two
    <3>2. (i + 1) + 1 = i + 2
      BY <1>1
    <3>3. B!IsBare(z[i + 1]) /\ ~B!IsAssigned(z[i + 1])
      BY <3>1 DEF B!IsBare, B!IsAssigned
    <3>4. B!BackendStep(z, t, acc, i + 1) = B!Take(acc, z[i + 1], z[(i + 1) + 1], <<z[i + 1], z[(i + 1) + 1]>>, t)
      BY <1>3, <3>1, <3>3 DEF B!BackendStep
    <3> QED
      BY <3>2, <3>4
  <2> DEFINE ws == <<w, z[i + 2]>>
  <2>2. Len(ws) = 2
    OBVIOUS
  <2>3. f[i + 1] = B!Take(acc, w, z[i + 2], ws, t)
    BY <1>2, <2>1
  <2>4. Group(z, i) = ws /\ Follows(z, i) = z[i + 2] /\ Size(z, i) = 2
    BY <1>4 DEF Group, Follows, Size
  <2> HIDE DEF ws, w
  <2>5. f[i + 1] = [next |-> i + 3, parsed |-> Makes(z, i, t, p)]
    <3>1. (i + 1) + 2 = i + 3
      BY <1>1
    <3>2. f[i + 1] = [next |-> i + 3, parsed |-> IF B!Accepts(Opt(w), z[i + 2], t) THEN B!Setting(p, Opt(w), z[i + 2])
                                                 ELSE B!Kept(p, ws)]
      BY <1>3, <2>2, <2>3, <3>1 DEF B!Take, Opt
    <3> QED
      BY <1>4, <2>4, <3>2 DEF Makes, IsTaken, w
  <2>6. i + 2 \in 1 .. Len(z) /\ (i + 2) - 1 = i + 1
    BY <1>1, <1>4 DEF Two
  <2>7. f[i + 2] = B!BackendStep(z, t, f[i + 1], i + 2)
    BY <2>6, ReadUnfolds
  <2>8. f[i + 2] = f[i + 1]
    <3>1. f[i + 1].next = i + 3 /\ i + 2 < i + 3
      BY <1>1, <2>5
    <3> QED
      BY <2>7, <3>1 DEF B!BackendStep
  <2>9. (i + 2) + 1 = i + 3
    BY <1>1
  <2> QED
    BY <2>4, <2>5, <2>6, <2>8, <2>9
<1>5. CASE ~Two(z, i)
  <2>1. Size(z, i) = 1 /\ Group(z, i) = <<w>> /\ Follows(z, i) = SubSeq(w, 3, Len(w))
    BY <1>5 DEF Size, Group, Follows
  <2>2. Len(<<w>>) = 1 /\ (i + 1) + 1 = i + 2
    BY <1>1
  <2>3. CASE B!IsAssigned(w)
    <3>1. B!BackendStep(z, t, acc, i + 1) = B!Take(acc, w, SubSeq(w, 3, Len(w)), <<w>>, t)
      BY <1>3, <1>5, <2>3 DEF B!BackendStep, Two
    <3>2. f[i + 1] = [next |-> (i + 1) + 1, parsed |-> IF B!Accepts(Opt(w), SubSeq(w, 3, Len(w)), t)
                                                      THEN B!Setting(p, Opt(w), SubSeq(w, 3, Len(w)))
                                                      ELSE B!Kept(p, <<w>>)]
      BY <1>2, <1>3, <2>2, <3>1 DEF B!Take, Opt
    <3> QED
      BY <1>1, <2>1, <2>3, <3>2 DEF Makes, IsTaken
  <2>4. CASE ~B!IsAssigned(w)
    <3>1. B!BackendStep(z, t, acc, i + 1) = [next |-> (i + 1) + 1, parsed |-> B!Kept(p, <<w>>)]
      BY <1>3, <1>5, <2>4 DEF B!BackendStep, Two
    <3> QED
      BY <1>1, <1>2, <1>5, <2>1, <2>4, <3>1 DEF Makes, IsTaken
  <2> QED
    BY <2>3, <2>4
<1> QED
  BY <1>4, <1>5

\* The group of z from i and that of u from k are the same and come to the same.
GoesAs(z, i, u, k) ==
    /\ u \in ArgLists /\ k \in 0 .. (Len(u) - 1) /\ Size(u, k) = Size(z, i)
    /\ \A t, p : Makes(u, k, t, p) = Makes(z, i, t, p)

\* The same words are taken together, and the same becomes of them, between other
\* words, if what follows the last of all is nothing.
LEMMA SameGroup ==
    ASSUME NEW z \in ArgLists, NEW i \in 0 .. (Len(z) - 1), NEW x \in ArgLists, NEW y \in ArgLists,
           i + Size(z, i) = Len(z) => y = <<>>, NEW u, u = x \o (Group(z, i) \o y)
    PROVE  GoesAs(z, i, u, Len(x))
<1> DEFINE ws == Group(z, i)
           rest == ws \o y
           w == z[i + 1]
<1>1. /\ Len(z) \in Nat /\ i \in Nat /\ i + 1 \in 1 .. Len(z) /\ w \in ArgText
      /\ (i + 1 < Len(z) => i + 2 \in 1 .. Len(z) /\ z[i + 2] \in ArgText)
  BY DEF ArgLists
<1>2. ws \in ArgLists /\ Len(ws) = Size(z, i) /\ ws[1] = w /\ (Two(z, i) => ws[2] = z[i + 2])
  <2>1. CASE Two(z, i)
    <3>1. ws = <<w, z[i + 2]>>
      BY <2>1 DEF Group
    <3>2. w \in ArgText /\ z[i + 2] \in ArgText
      BY <1>1, <2>1 DEF Two
    <3> HIDE DEF w, ws
    <3> QED
      BY <2>1, <3>1, <3>2 DEF Size, ArgLists
  <2>2. CASE ~Two(z, i)
    <3>1. ws = <<w>>
      BY <2>2 DEF Group
    <3> HIDE DEF w, ws
    <3> QED
      BY <1>1, <2>2, <3>1 DEF Size, ArgLists
  <2> QED
    BY <2>1, <2>2
<1>3. Size(z, i) \in {1, 2}
  BY DEF Size
<1>4. IsJoined(ArgText, ws, y, rest) /\ rest \in Seq(ArgText)
  <2> HIDE DEF ws
  <2> QED
    BY <1>2, Joined DEF ArgLists
<1> HIDE DEF rest, ws
<1>5. IsJoined(ArgText, x, rest, u)
  BY <1>4, Joined DEF ArgLists, rest, ws
<1>6. /\ u \in ArgLists /\ Len(x) \in Nat /\ Len(y) \in Nat /\ Len(u) = Len(x) + Size(z, i) + Len(y)
      /\ u[Len(x) + 1] = w
  <2>1. 1 \in 1 .. Len(ws) /\ 1 \in 1 .. Len(rest)
    BY <1>2, <1>3, <1>4 DEF IsJoined
  <2> HIDE DEF w
  <2> QED
    <3>1. u \in ArgLists /\ Len(x) \in Nat /\ Len(y) \in Nat
      BY <1>4, <1>5 DEF IsJoined, ArgLists
    <3>2. Len(u) = Len(x) + Len(rest) /\ Len(rest) = Size(z, i) + Len(y)
      BY <1>2, <1>4, <1>5 DEF IsJoined
    <3>3. u[Len(x) + 1] = rest[1] /\ rest[1] = ws[1]
      BY <1>4, <1>5, <2>1 DEF IsJoined
    <3> QED
      BY <1>2, <1>3, <3>1, <3>2, <3>3
<1>7. Two(z, i) => u[Len(x) + 2] = z[i + 2]
  <2> SUFFICES ASSUME Two(z, i) PROVE u[Len(x) + 2] = z[i + 2]
    OBVIOUS
  <2>1. Size(z, i) = 2
    BY DEF Size
  <2>2. 2 \in 1 .. Len(ws) /\ 2 \in 1 .. Len(rest)
    BY <1>2, <1>4, <2>1 DEF IsJoined
  <2> QED
    BY <1>2, <1>4, <1>5, <2>2 DEF IsJoined
<1>8. Two(u, Len(x)) <=> Two(z, i)
  <2>1. CASE Two(z, i)
    <3>1. Size(z, i) = 2 /\ B!IsBare(w)
      BY <2>1 DEF Size, Two
    <3>2. Len(x) + 1 < Len(u)
      BY <1>6, <3>1
    <3> QED
      BY <1>6, <2>1, <3>1, <3>2 DEF Two
  <2>2. CASE ~Two(z, i)
    <3>1. Size(z, i) = 1
      BY <2>2 DEF Size
    <3>2. CASE B!IsBare(w)
      <4>1. i + 1 = Len(z)
        BY <1>1, <2>2, <3>2 DEF Two
      <4>2. Len(y) = 0
        BY <3>1, <4>1
      <4>3. ~(Len(x) + 1 < Len(u))
        BY <1>6, <3>1, <4>2
      <4> QED
        BY <2>2, <4>3 DEF Two
    <3>3. CASE ~B!IsBare(w)
      BY <1>6, <2>2, <3>3 DEF Two
    <3> QED
      BY <3>2, <3>3
  <2> QED
    BY <2>1, <2>2
<1>9. Size(u, Len(x)) = Size(z, i)
  BY <1>8 DEF Size
<1>10. Group(u, Len(x)) = Group(z, i) /\ Follows(u, Len(x)) = Follows(z, i)
  BY <1>6, <1>7, <1>8 DEF Group, Follows
<1>11. \A t : IsTaken(u, Len(x), t) <=> IsTaken(z, i, t)
  BY <1>6, <1>8, <1>10 DEF IsTaken
<1>12. \A t, p : Makes(u, Len(x), t, p) = Makes(z, i, t, p)
  BY <1>6, <1>10, <1>11 DEF Makes
<1>13. Len(x) \in 0 .. (Len(u) - 1)
  BY <1>3, <1>6
<1> QED
  BY <1>6, <1>9, <1>12, <1>13 DEF GoesAs

\* However words of Y go on after x, x is read as p.
ReadsAs(x, t, p, Y) ==
    \A y \in Y : ReadOf(x \o y, t)[Len(x)] = [next |-> Len(x) + 1, parsed |-> p]

\* What may follow the words up to i of args: nothing after the last.
Rest(args, i) == IF i = Len(args) THEN {<<>>} ELSE ArgLists

LEMMA ReadsOn ==
    ASSUME NEW args \in ArgLists, NEW t, NEW i \in 0 .. (Len(args) - 1), NEW x \in ArgLists, NEW p,
           ReadsAs(x, t, p, ArgLists)
    PROVE  ReadsAs(x \o Group(args, i), t, Makes(args, i, t, p), Rest(args, i + Size(args, i)))
<1> DEFINE ws == Group(args, i)
           xs == x \o ws
           n == i + Size(args, i)
<1>0. ws \in ArgLists /\ Len(ws) = Size(args, i)
  <2>1. /\ Len(args) \in Nat /\ i + 1 \in 1 .. Len(args) /\ args[i + 1] \in ArgText
        /\ (i + 1 < Len(args) => i + 2 \in 1 .. Len(args) /\ args[i + 2] \in ArgText)
    BY DEF ArgLists
  <2>2. CASE Two(args, i)
    <3>1. args[i + 2] \in ArgText
      BY <2>1, <2>2 DEF Two
    <3> QED
      BY <2>1, <2>2, <3>1 DEF Group, ArgLists, Size
  <2>3. CASE ~Two(args, i)
    BY <2>1, <2>3 DEF Group, ArgLists, Size
  <2> QED
    BY <2>2, <2>3
<1> HIDE DEF ws
<1>1. xs \in ArgLists /\ Len(xs) = Len(x) + Size(args, i)
  <2>1. IsJoined(ArgText, x, ws, xs)
    BY <1>0, Joined DEF ArgLists
  <2> QED
    BY <1>0, <2>1 DEF ArgLists, IsJoined
<1> SUFFICES ASSUME NEW y \in Rest(args, n)
             PROVE  ReadOf(xs \o y, t)[Len(xs)] = [next |-> Len(xs) + 1, parsed |-> Makes(args, i, t, p)]
  BY DEF ReadsAs, ws
<1>2. y \in ArgLists /\ (n = Len(args) => y = <<>>)
  <2>1. CASE n = Len(args)
    BY <2>1 DEF Rest, ArgLists
  <2>2. CASE n # Len(args)
    <3>1. Rest(args, n) = ArgLists
      BY <2>2 DEF Rest
    <3> QED
      BY <2>2, <3>1
  <2> QED
    BY <2>1, <2>2
<1> DEFINE u == x \o (ws \o y)
<1>3. u = xs \o y
  <2>1. x \in Seq(ArgText) /\ ws \in Seq(ArgText) /\ y \in Seq(ArgText)
    BY <1>0, <1>2 DEF ArgLists
  <2>2. (x \o ws) \o y = x \o (ws \o y)
    BY ONLY <2>1, Associative, SMTT(20)
  <2> QED
    BY <2>2
<1>4. ws \o y \in ArgLists
  BY <1>0, <1>2 DEF ArgLists
<1>5. ReadOf(u, t)[Len(x)] = [next |-> Len(x) + 1, parsed |-> p]
  BY <1>4 DEF ReadsAs
<1>6. u = x \o (Group(args, i) \o y)
  BY DEF ws
<1> HIDE DEF u
<1>7. /\ u \in ArgLists /\ Len(x) \in 0 .. (Len(u) - 1)
      /\ Size(u, Len(x)) = Size(args, i)
      /\ Makes(u, Len(x), t, p) = Makes(args, i, t, p)
  <2>1. GoesAs(args, i, u, Len(x))
    BY <1>2, <1>6, SameGroup
  <2> QED
    BY <2>1 DEF GoesAs
<1>8. ReadOf(u, t)[Len(x) + Size(u, Len(x))] = [next |-> Len(x) + Size(u, Len(x)) + 1, parsed |-> Makes(u, Len(x), t, p)]
  BY <1>5, <1>7, GroupStep
<1> QED
  BY <1>1, <1>3, <1>7, <1>8

\* The loop of Picked over args.
PickOn(args, I, f) ==
    f = [i \in 0 .. Len(args) |->
           IF i = 0 THEN <<>> ELSE IF i \in I THEN Append(f[i - 1], args[i]) ELSE f[i - 1]]
PickOf(args, I) == CHOOSE f : PickOn(args, I, f)

LEMMA PickUnfolds ==
    ASSUME NEW args \in ArgLists, NEW I
    PROVE  /\ PickOf(args, I)[0] = <<>>
           /\ \A i \in 1 .. Len(args) :
                PickOf(args, I)[i] = IF i \in I THEN Append(PickOf(args, I)[i - 1], args[i]) ELSE PickOf(args, I)[i - 1]
           /\ B!Picked(args, I) = PickOf(args, I)[Len(args)]
<1> DEFINE N == Len(args)
           add(p) == IF p[1] \in I THEN Append(p[2], args[p[1]]) ELSE p[2]
           step == [p \in (1 .. N) \X ArgLists |-> add(p)]
           f == PickOf(args, I)
<1>1. N \in Nat /\ (\A i \in 1 .. N : args[i] \in ArgText) /\ <<>> \in ArgLists
  BY DEF ArgLists
<1>2. B!Picked(args, I) = f[N]
  BY DEF B!Picked, PickOf, PickOn
<1>3. \E g : PickOn(args, I, g)
  <2>1. \A p \in (1 .. N) \X ArgLists : add(p) \in ArgLists
    <3> SUFFICES ASSUME NEW i \in 1 .. N, NEW w \in ArgLists PROVE (IF i \in I THEN Append(w, args[i]) ELSE w) \in ArgLists
      OBVIOUS
    <3>1. Append(w, args[i]) \in ArgLists
      BY <1>1 DEF ArgLists
    <3> QED
      BY <3>1
  <2>2. \A p \in (1 .. N) \X ArgLists : step[p] = add(p)
    OBVIOUS
  <2>3. step \in Steps(N, ArgLists)
    <3> HIDE DEF add
    <3> QED
      BY <2>1 DEF Steps
  <2> HIDE DEF N, step
  <2>4. PICK g \in Loops(N, ArgLists) : IsLoop(N, <<>>, step, g)
    BY <1>1, <2>3, Recursion
  <2>5. ASSUME NEW i \in 0 .. N
        PROVE  g[i] = IF i = 0 THEN <<>> ELSE IF i \in I THEN Append(g[i - 1], args[i]) ELSE g[i - 1]
    <3>1. CASE i = 0
      BY <2>4, <3>1 DEF IsLoop
    <3>2. CASE i # 0
      <4>1. i \in 1 .. N /\ g[i - 1] \in ArgLists
        BY <1>1, <2>4, <2>5, <3>2 DEF Loops
      <4>2. g[i] = step[<<i, g[i - 1]>>]
        BY <2>4, <4>1 DEF IsLoop
      <4>3. step[<<i, g[i - 1]>>] = add(<<i, g[i - 1]>>)
        BY <2>2, <4>1
      <4>4. add(<<i, g[i - 1]>>) = IF i \in I THEN Append(g[i - 1], args[i]) ELSE g[i - 1]
        OBVIOUS
      <4> QED
        BY <3>2, <4>2, <4>3, <4>4
    <3> QED
      BY <3>1, <3>2
  <2>6. g = [i \in 0 .. N |-> g[i]]
    BY <2>4 DEF Loops
  <2>7. PickOn(args, I, g)
    BY <2>5, <2>6 DEF PickOn, N
  <2> QED
    BY <2>7
<1>4. PickOn(args, I, f)
  BY <1>3 DEF PickOf
<1> HIDE DEF f
<1>5. f[0] = <<>> /\ \A i \in 1 .. N : f[i] = IF i \in I THEN Append(f[i - 1], args[i]) ELSE f[i - 1]
  <2>1. \A i \in 0 .. N :
          f[i] = IF i = 0 THEN <<>> ELSE IF i \in I THEN Append(f[i - 1], args[i]) ELSE f[i - 1]
    BY <1>4 DEF PickOn
  <2>2. 0 \in 0 .. N /\ \A i \in 1 .. N : i \in 0 .. N /\ i # 0
    BY <1>1
  <2> QED
    BY <2>1, <2>2
<1> QED
  BY <1>2, <1>5 DEF f

\* The words up to i at the places of I, whatever is picked after them, are x.
PicksTo(args, I, i, x) ==
    \A J \in SUBSET (1 .. Len(args)) : J \cap (1 .. i) = I => PickOf(args, J)[i] = x

LEMMA PicksOn ==
    ASSUME NEW args \in ArgLists, NEW i \in 0 .. (Len(args) - 1), NEW I \in SUBSET (1 .. i), NEW x \in ArgLists,
           PicksTo(args, I, i, x)
    PROVE  /\ PicksTo(args, I \cup ((i + 1) .. (i + Size(args, i))), i + Size(args, i), x \o Group(args, i))
           /\ PicksTo(args, I, i + Size(args, i), x)
<1> DEFINE n == i + Size(args, i)
<1>1. /\ Len(args) \in Nat /\ i \in Nat /\ i + 1 \in 1 .. Len(args) /\ args[i + 1] \in ArgText /\ (i + 1) - 1 = i
      /\ (i + 1 < Len(args) => i + 2 \in 1 .. Len(args) /\ args[i + 2] \in ArgText) /\ (i + 2) - 1 = i + 1
  BY DEF ArgLists
<1>2. \/ Two(args, i) /\ n = i + 2 /\ Group(args, i) = <<args[i + 1], args[i + 2]>> /\ i + 2 <= Len(args)
      \/ ~Two(args, i) /\ n = i + 1 /\ Group(args, i) = <<args[i + 1]>>
  BY <1>1 DEF Size, Group, Two
<1>3. \A a \in ArgText : Append(x, a) = x \o <<a>>
  BY DEF ArgLists
<1>4. \A a, b \in ArgText : Append(Append(x, a), b) = x \o <<a, b>>
  BY DEF ArgLists
<1> HIDE DEF n
<1>5. ASSUME NEW J \in SUBSET (1 .. Len(args)), J \cap (1 .. n) = I \cup ((i + 1) .. n)
      PROVE  PickOf(args, J)[n] = x \o Group(args, i)
  <2> DEFINE f == PickOf(args, J)
  <2>0. \A k \in 1 .. Len(args) : f[k] = IF k \in J THEN Append(f[k - 1], args[k]) ELSE f[k - 1]
    BY PickUnfolds
  <2>1. J \cap (1 .. i) = I
    <3>1. n \in Nat /\ i < n
      BY <1>1, <1>2
    <3>2. \A k : k \in 1 .. i => (k \in 1 .. n /\ k \notin (i + 1) .. n)
      BY <1>1, <3>1
    <3> QED
      BY <1>5, <3>2
  <2>2. PickOf(args, J)[i] = x
    BY <2>1 DEF PicksTo
  <2>3. \A k \in (i + 1) .. n : k \in J
    BY <1>5
  <2>4. PickOf(args, J)[i + 1] = Append(x, args[i + 1])
    <3>1. i + 1 \in J
      BY <1>1, <1>2, <2>3
    <3> QED
      BY <1>1, <2>0, <2>2, <3>1
  <2>5. CASE Two(args, i) /\ n = i + 2 /\ Group(args, i) = <<args[i + 1], args[i + 2]>> /\ i + 2 <= Len(args)
    <3>1. i + 2 \in J /\ i + 2 \in 1 .. Len(args) /\ args[i + 2] \in ArgText
      BY <1>1, <2>3, <2>5
    <3>2. PickOf(args, J)[i + 2] = Append(Append(x, args[i + 1]), args[i + 2])
      BY <1>1, <2>0, <2>4, <3>1
    <3> QED
      BY <1>1, <1>4, <2>5, <3>1, <3>2
  <2>6. CASE ~Two(args, i) /\ n = i + 1 /\ Group(args, i) = <<args[i + 1]>>
    BY <1>1, <1>3, <2>4, <2>6
  <2> QED
    BY <1>2, <2>5, <2>6
<1>6. ASSUME NEW J \in SUBSET (1 .. Len(args)), J \cap (1 .. n) = I
      PROVE  PickOf(args, J)[n] = x
  <2>1. n \in Nat /\ i < n
    BY <1>1, <1>2
  <2>2. \A k : k \in 1 .. i => k \in 1 .. n
    BY <1>1, <2>1
  <2>3. J \cap (1 .. i) = I
    BY <1>6, <2>2
  <2>4. PickOf(args, J)[i] = x
    BY <2>3 DEF PicksTo
  <2>5. \A k \in (i + 1) .. n : k \notin J
    <3>1. \A k \in (i + 1) .. n : k \in 1 .. n /\ k \notin 1 .. i
      BY <1>1, <2>1
    <3> QED
      BY <1>6, <3>1
  <2>6. PickOf(args, J)[i + 1] = x
    <3>1. i + 1 \notin J
      BY <1>1, <2>1, <2>5
    <3> QED
      BY <1>1, <2>4, <3>1, PickUnfolds
  <2>7. CASE Two(args, i) /\ n = i + 2 /\ Group(args, i) = <<args[i + 1], args[i + 2]>> /\ i + 2 <= Len(args)
    <3>1. i + 2 \notin J /\ i + 2 \in 1 .. Len(args)
      BY <1>1, <2>5, <2>7
    <3> QED
      BY <1>1, <2>6, <2>7, <3>1, PickUnfolds
  <2> QED
    BY <1>2, <2>6, <2>7
<1> QED
  BY <1>5, <1>6 DEF PicksTo, n

IsParsed(p) == p = [args |-> p.args, env |-> p.env, cwd |-> p.cwd, timeout |-> p.timeout,
                    headers |-> p.headers, auth |-> p.auth, panics |-> p.panics]

\* set is what an option makes of p, whatever words p has kept.
SetsAlone(p, set, w, v, k) ==
    /\ IsParsed(set) /\ set.args = p.args
    /\ B!Setting([p EXCEPT !.args = k], Opt(w), v) = [set EXCEPT !.args = k]

\* What an option sets has nothing to do with the words that are kept.
LEMMA SettingKeeps ==
    ASSUME NEW p, IsParsed(p), NEW w, B!OptionOf(w) # {}, NEW v, NEW k
    PROVE  SetsAlone(p, B!Setting(p, Opt(w), v), w, v, k)
<1> DEFINE o == Opt(w)
           set == B!Setting(p, o, v)
<1>1. o \in {"header", "cwd", "env", "timeout", "auth"}
  <2>1. o \in B!OptionOf(w)
    BY DEF Opt
  <2> QED
    BY <2>1 DEF B!OptionOf, B!Options
<1> HIDE DEF o
<1>2. CASE o = "header"
  <2> DEFINE new == B!Put(p.headers, B!ParseHeaderArg(v))
  <2>1. [p EXCEPT !.args = k].headers = p.headers
    BY DEF IsParsed
  <2>2. set = [p EXCEPT !.headers = new] /\ B!Setting([p EXCEPT !.args = k], o, v) = [[p EXCEPT !.args = k] EXCEPT !.headers = new]
    BY <1>2, <2>1 DEF B!Setting, IsParsed
  <2> HIDE DEF new, set
  <2> QED
    BY <2>2 DEF IsParsed, SetsAlone, o, set
<1>3. CASE o = "cwd"
  <2>1. set = [p EXCEPT !.cwd = v] /\ B!Setting([p EXCEPT !.args = k], o, v) = [[p EXCEPT !.args = k] EXCEPT !.cwd = v]
    BY <1>3 DEF B!Setting
  <2> HIDE DEF set
  <2> QED
    BY <2>1 DEF IsParsed, SetsAlone, o, set
<1>4. CASE o = "env"
  <2> DEFINE new == B!Put(p.env, B!ParseKeyValueArg(v))
  <2>1. [p EXCEPT !.args = k].env = p.env
    BY DEF IsParsed
  <2>2. set = [p EXCEPT !.env = new] /\ B!Setting([p EXCEPT !.args = k], o, v) = [[p EXCEPT !.args = k] EXCEPT !.env = new]
    BY <1>4, <2>1 DEF B!Setting, IsParsed
  <2> HIDE DEF new, set
  <2> QED
    BY <2>2 DEF IsParsed, SetsAlone, o, set
<1>5. CASE o = "timeout"
  <2> DEFINE new == p.panics \/ ~B!FitsDuration(v)
  <2>1. [p EXCEPT !.args = k].panics = p.panics
    BY DEF IsParsed
  <2>2. /\ set = [p EXCEPT !.timeout = v, !.panics = new]
        /\ B!Setting([p EXCEPT !.args = k], o, v) = [[p EXCEPT !.args = k] EXCEPT !.timeout = v, !.panics = new]
    BY <1>5, <2>1 DEF B!Setting, IsParsed
  <2> HIDE DEF new, set
  <2> QED
    BY <2>2 DEF IsParsed, SetsAlone, o, set
<1>6. CASE o = "auth"
  <2> DEFINE new == B!AuthModes[v[1]]
  <2>1. set = [p EXCEPT !.auth = new] /\ B!Setting([p EXCEPT !.args = k], o, v) = [[p EXCEPT !.args = k] EXCEPT !.auth = new]
    BY <1>6 DEF B!Setting
  <2> HIDE DEF new, set
  <2> QED
    BY <2>1 DEF IsParsed, SetsAlone, o, set
<1> QED
  BY <1>1, <1>2, <1>3, <1>4, <1>5, <1>6

\* Of the words up to i, those at the places of I are kept and would be kept again, and
\* the others alone say all that is set.
FallApart(args, t, i, I, K, T, p) ==
    /\ ReadOf(args, t)[i] = [next |-> i + 1, parsed |-> p] /\ IsParsed(p) /\ p.args = K
    /\ ReadsAs(K, t, [B!Unparsed EXCEPT !.args = K], Rest(args, i))
    /\ ReadsAs(T, t, [p EXCEPT !.args = <<>>], Rest(args, i))
    /\ PicksTo(args, I, i, K) /\ PicksTo(args, (1 .. i) \ I, i, T)

Apart(args, t, i) ==
    \E I \in SUBSET (1 .. i), K \in ArgLists, T \in ArgLists : \E p : FallApart(args, t, i, I, K, T, p)

\* It holds before the first word, and after a group when before it.
LEMMA ApartAtStart ==
    ASSUME NEW args \in ArgLists, NEW t
    PROVE  Apart(args, t, 0)
<1>1. IsParsed(B!Unparsed) /\ B!Unparsed.args = <<>> /\ [B!Unparsed EXCEPT !.args = <<>>] = B!Unparsed
  <2>1. IsParsed(B!Unparsed) /\ B!Unparsed.args = <<>>
    BY DEF IsParsed, B!Unparsed
  <2> QED
    BY <2>1 DEF IsParsed
<1>2. <<>> \in ArgLists /\ {} \in SUBSET (1 .. 0) /\ (1 .. 0) \ {} = {} /\ Len(<<>>) = 0
  BY DEF ArgLists
<1>3. ReadOf(args, t)[0] = [next |-> 0 + 1, parsed |-> B!Unparsed]
  BY ReadUnfolds DEF Start
<1>4. ReadsAs(<<>>, t, B!Unparsed, Rest(args, 0))
  <2>1. ASSUME NEW y \in Rest(args, 0) PROVE ReadOf(<<>> \o y, t)[0] = [next |-> 0 + 1, parsed |-> B!Unparsed]
    <3>1. y \in ArgLists
      BY <1>2 DEF Rest
    <3>2. <<>> \o y = y
      BY <3>1 DEF ArgLists
    <3> QED
      BY <3>1, <3>2, ReadUnfolds DEF Start
  <2> QED
    BY <1>2, <2>1 DEF ReadsAs
<1>5. PicksTo(args, {}, 0, <<>>)
  BY PickUnfolds DEF PicksTo
<1>6. FallApart(args, t, 0, {}, <<>>, <<>>, B!Unparsed)
  BY <1>1, <1>2, <1>3, <1>4, <1>5 DEF FallApart
<1> QED
  BY <1>2, <1>6 DEF Apart

LEMMA ApartOn ==
    ASSUME NEW args \in ArgLists, NEW t, NEW i \in 0 .. (Len(args) - 1), Apart(args, t, i)
    PROVE  i + Size(args, i) \in 1 .. Len(args) /\ Apart(args, t, i + Size(args, i))
<1> DEFINE n == i + Size(args, i)
           g == Group(args, i)
           w == args[i + 1]
           v == Follows(args, i)
<1>0. PICK I \in SUBSET (1 .. i), K \in ArgLists, T \in ArgLists : \E p : FallApart(args, t, i, I, K, T, p)
  BY DEF Apart
<1>1. PICK p : FallApart(args, t, i, I, K, T, p)
  BY <1>0
<1> DEFINE q == Makes(args, i, t, p)
<1>2. n \in 1 .. Len(args) /\ ReadOf(args, t)[n] = [next |-> n + 1, parsed |-> q]
  BY <1>1, GroupStep DEF FallApart
<1>3. Len(args) \in Nat /\ i \in Nat /\ i # Len(args) /\ i < n /\ n \in Nat
  BY <1>2 DEF ArgLists, Size
<1>4. Rest(args, i) = ArgLists /\ Rest(args, n) \subseteq ArgLists
  <2>1. Rest(args, i) = ArgLists
    BY <1>3 DEF Rest
  <2>2. Rest(args, n) \subseteq ArgLists
    <3>1. <<>> \in ArgLists
      BY DEF ArgLists
    <3> QED
      BY <3>1 DEF Rest
  <2> QED
    BY <2>1, <2>2
<1>5. g \in ArgLists
  <2>1. /\ i + 1 \in 1 .. Len(args) /\ args[i + 1] \in ArgText
        /\ (i + 1 < Len(args) => i + 2 \in 1 .. Len(args) /\ args[i + 2] \in ArgText)
    BY <1>3 DEF ArgLists
  <2>2. CASE Two(args, i)
    <3>1. args[i + 2] \in ArgText
      BY <2>1, <2>2 DEF Two
    <3> QED
      BY <2>1, <2>2, <3>1 DEF Group, ArgLists
  <2>3. CASE ~Two(args, i)
    BY <2>1, <2>3 DEF Group, ArgLists
  <2> QED
    BY <2>2, <2>3
<1> DEFINE new == (i + 1) .. n
           J == I \cup new
           R == (1 .. i) \ I
<1>6. /\ J \in SUBSET (1 .. n) /\ I \in SUBSET (1 .. n) /\ R \in SUBSET (1 .. i)
      /\ (1 .. n) \ J = R /\ (1 .. n) \ I = R \cup new
  <2>1. \A k : k \in 1 .. n <=> (k \in 1 .. i \/ k \in new)
    BY <1>3
  <2>2. \A k \in new : k \notin 1 .. i
    BY <1>3
  <2> HIDE DEF new
  <2> QED
    BY <2>1, <2>2
<1>7. PicksTo(args, J, n, K \o g) /\ PicksTo(args, I, n, K)
  BY <1>1, PicksOn DEF FallApart
<1>8. PicksTo(args, R \cup new, n, T \o g) /\ PicksTo(args, R, n, T)
  <2>1. PicksTo(args, R, i, T)
    BY <1>1 DEF FallApart
  <2> HIDE DEF R
  <2> QED
    BY <1>6, <2>1, PicksOn
<1> HIDE DEF n, g, J, R, new
<1>9. \A x, r : ReadsAs(x, t, r, ArgLists) => ReadsAs(x, t, r, Rest(args, n))
  BY <1>4 DEF ReadsAs
<1>10. ReadsAs(K, t, [B!Unparsed EXCEPT !.args = K], ArgLists) /\ ReadsAs(T, t, [p EXCEPT !.args = <<>>], ArgLists)
  BY <1>1, <1>4 DEF FallApart
<1>11. CASE IsTaken(args, i, t)
  <2>1. q = B!Setting(p, Opt(w), v)
    BY <1>11 DEF Makes
  <2>2. B!OptionOf(w) # {}
    BY <1>11 DEF IsTaken, Two, B!IsBare, B!IsAssigned
  <2>3. IsParsed(p) /\ p.args = K
    BY <1>1 DEF FallApart
  <2>4. IsParsed(q) /\ q.args = K /\ B!Setting([p EXCEPT !.args = <<>>], Opt(w), v) = [q EXCEPT !.args = <<>>]
    <3>1. SetsAlone(p, q, w, v, <<>>)
      <4> HIDE DEF q
      <4> QED
        BY <2>1, <2>2, <2>3, SettingKeeps
    <3> HIDE DEF q
    <3> QED
      BY <2>3, <3>1 DEF SetsAlone
  <2>5. ReadsAs(T \o g, t, Makes(args, i, t, [p EXCEPT !.args = <<>>]), Rest(args, n))
    BY <1>10, ReadsOn DEF n, g
  <2>6. Makes(args, i, t, [p EXCEPT !.args = <<>>]) = [q EXCEPT !.args = <<>>]
    BY <1>11, <2>4 DEF Makes
  <2> HIDE DEF q
  <2>7. ReadsAs(T \o g, t, [q EXCEPT !.args = <<>>], Rest(args, n))
    BY <2>5, <2>6
  <2>8. ReadsAs(K, t, [B!Unparsed EXCEPT !.args = K], Rest(args, n))
    BY <1>9, <1>10
  <2>9. FallApart(args, t, n, I, K, T \o g, q)
    BY <1>2, <1>6, <1>7, <1>8, <2>4, <2>7, <2>8 DEF FallApart
  <2>10. T \o g \in ArgLists
    BY <1>5 DEF ArgLists
  <2> QED
    BY <1>2, <1>6, <2>9, <2>10 DEF Apart, n
<1>12. CASE ~IsTaken(args, i, t)
  <2>1. q = B!Kept(p, g)
    BY <1>12 DEF Makes, g
  <2>2. IsParsed(p) /\ p.args = K
    BY <1>1 DEF FallApart
  <2>3. IsParsed(q) /\ q.args = K \o g /\ [q EXCEPT !.args = <<>>] = [p EXCEPT !.args = <<>>]
    BY <2>1, <2>2 DEF IsParsed, B!Kept
  <2> DEFINE u == [B!Unparsed EXCEPT !.args = K]
  <2>4. ReadsAs(K \o g, t, Makes(args, i, t, u), Rest(args, n))
    BY <1>10, ReadsOn DEF n, g
  <2>5. Makes(args, i, t, u) = B!Kept(u, g)
    BY <1>12 DEF Makes, g
  <2>6. B!Kept(u, g) = [B!Unparsed EXCEPT !.args = K \o g]
    BY DEF B!Kept, B!Unparsed
  <2> HIDE DEF q, u
  <2>7. ReadsAs(K \o g, t, [B!Unparsed EXCEPT !.args = K \o g], Rest(args, n))
    BY <2>4, <2>5, <2>6
  <2>8. ReadsAs(T, t, [q EXCEPT !.args = <<>>], Rest(args, n))
    BY <1>9, <1>10, <2>3
  <2>9. FallApart(args, t, n, J, K \o g, T, q)
    BY <1>2, <1>6, <1>7, <1>8, <2>3, <2>7, <2>8 DEF FallApart
  <2>10. K \o g \in ArgLists
    BY <1>5 DEF ArgLists
  <2> QED
    BY <1>2, <1>6, <2>9, <2>10 DEF Apart, n
<1> QED
  BY <1>11, <1>12

LEMMA ApartAtEnd ==
    ASSUME NEW args \in ArgLists, NEW t
    PROVE  Apart(args, t, Len(args))
<1> DEFINE N == Len(args)
           S == {i \in 0 .. N : Apart(args, t, i) \/ (i + 1 \in 0 .. N /\ Apart(args, t, i + 1))}
<1>1. N \in Nat
  BY DEF ArgLists
<1>2. 0 \in S
  BY <1>1, ApartAtStart
<1>3. ASSUME NEW i \in 0 .. N, i \in S, i < N PROVE i + 1 \in S
  <2>1. i + 1 \in 0 .. N /\ i \in 0 .. (Len(args) - 1)
    BY <1>1, <1>3
  <2>2. CASE Apart(args, t, i + 1)
    BY <2>1, <2>2
  <2>3. CASE Apart(args, t, i)
    <3>1. i + Size(args, i) \in 1 .. Len(args) /\ Apart(args, t, i + Size(args, i))
      BY <2>1, <2>3, ApartOn
    <3>2. CASE Size(args, i) = 1
      BY <2>1, <3>1, <3>2
    <3>3. CASE Size(args, i) = 2
      <4>1. i + 2 = (i + 1) + 1 /\ i + 2 \in 0 .. N
        BY <1>1, <2>1, <3>1, <3>3
      <4> QED
        BY <2>1, <3>1, <3>3, <4>1
    <3> QED
      BY <3>2, <3>3 DEF Size
  <2> QED
    BY <1>3, <2>2, <2>3
<1>4. N \in S
  <2> HIDE DEF S
  <2>1. \A i \in 0 .. N : i \in S
    BY <1>1, <1>2, <1>3, Induction
  <2> QED
    BY <1>1, <2>1
<1>5. ~(N + 1 \in 0 .. N)
  BY <1>1
<1> QED
  BY <1>4, <1>5

LEMMA TextsAreArgs == Texts \subseteq ArgText /\ Seq(Texts) \subseteq ArgLists
<1>1. Texts \subseteq ArgText
  BY DEF Texts, ArgText, Char
<1>2. ASSUME NEW s \in Seq(Texts) PROVE s \in Seq(ArgText)
  BY <1>1
<1> QED
  BY <1>1, <1>2 DEF ArgLists

\* However the backend is made, it gets the words that were not read and the settings
\* that the others say.
LEMMA ArgumentsFallApart ==
    ASSUME NEW via \in {"command", "multi", "file"}, NEW command \in STRING, NEW args \in ArgLists
    PROVE  B!ArgumentsAreKept(via, command, args)
<1> DEFINE b == B!MadeBy(via, command, args)
           t == IF B!IsHttpUrl(command) THEN B!Http ELSE B!Stdio
           set == B!ParseBackendArgs(args, t)
           told(x) == IF via = "file" THEN [x EXCEPT !.env = B!FileEnv] ELSE x
           new == B!NewBackend(command, args)
<1>1. new = [command |-> command, transport |-> t, provider |-> <<>>, set |-> set]
  BY DEF B!NewBackend
<1>0. PICK I \in SUBSET (1 .. Len(args)), K \in ArgLists, T \in ArgLists :
        \E p : FallApart(args, t, Len(args), I, K, T, p)
  BY ApartAtEnd DEF Apart
<1>2. PICK p : FallApart(args, t, Len(args), I, K, T, p)
  BY <1>0
<1>3. set = p /\ IsParsed(set) /\ set.args = K
  <2>1. set = ReadOf(args, t)[Len(args)].parsed
    BY ReadUnfolds
  <2> HIDE DEF set
  <2> QED
    BY <1>2, <2>1 DEF FallApart
<1> HIDE DEF t, set
<1>4. b.transport = t /\ b.set = told(set)
  <2>1. CASE via = "command"
    BY <1>1, <2>1 DEF B!MadeBy
  <2>2. CASE via = "multi"
    <3> DEFINE spec == <<"srv", "=", command>>
               at == B!SelectInSeq(spec, LAMBDA c : c = "=")
               J == {j \in 1 .. Len(spec) : spec[j] = "="}
    <3>1. at = IF J # {} THEN Min(J) ELSE 0
      BY DEF B!SelectInSeq, B!Min, Min
    <3>2. J \in SUBSET Nat /\ 2 \in J /\ 1 \notin J /\ 0 \notin J
      OBVIOUS
    <3> HIDE DEF J, at
    <3>3. at = 2
      <4>1. Min(J) \in J /\ Min(J) <= 2
        BY <3>2, MinOf
      <4>2. Min(J) \in Nat /\ Min(J) # 0 /\ Min(J) # 1
        BY <3>2, <4>1
      <4>3. Min(J) = 2
        BY <4>1, <4>2
      <4> QED
        BY <3>1, <3>2, <4>3
    <3>4. B!SplitOnce(spec, "=") = <<SubSeq(spec, 1, 1), SubSeq(spec, 3, 3)>>
      <4>1. B!SplitOnce(spec, "=") = IF at = 0 THEN <<>> ELSE <<SubSeq(spec, 1, at - 1), SubSeq(spec, at + 1, Len(spec))>>
        BY DEF B!SplitOnce, at
      <4>2. Len(spec) = 3
        OBVIOUS
      <4> QED
        BY <3>3, <4>1, <4>2
    <3> DEFINE name == SubSeq(spec, 1, 1)
               rest == SubSeq(spec, 3, 3)
    <3>5. name # <<>> /\ rest # <<>> /\ rest[1] = command
      <4>1. spec \in Seq(STRING \cup {"srv", "="}) /\ Len(spec) = 3 /\ spec[3] = command
        OBVIOUS
      <4> HIDE DEF spec
      <4> QED
        BY <4>1
    <3> HIDE DEF name, rest, spec
    <3>6. B!MultiBackend(spec, args) = <<new>>
      <4> DEFINE pair == <<name, rest>>
      <4>1. pair # <<>> /\ <<>> \notin {pair[i] : i \in DOMAIN pair} /\ pair[2] = rest
        BY <3>5
      <4>2. B!SplitOnce(spec, "=") = pair
        BY <3>4 DEF name, rest
      <4> HIDE DEF pair, new
      <4>3. B!MultiBackend(spec, args) = IF pair = <<>> \/ <<>> \in B!ToSet(pair) THEN <<>> ELSE <<B!NewBackend(pair[2][1], args)>>
        BY <4>2 DEF B!MultiBackend
      <4>4. <<>> \notin B!ToSet(pair)
        BY <4>1 DEF B!ToSet
      <4> QED
        BY <3>5, <4>1, <4>3, <4>4 DEF new
    <3>7. b = new
      BY <2>2, <3>6 DEF B!MadeBy, spec
    <3> HIDE DEF b
    <3> QED
      BY <1>1, <2>2, <3>7
  <2>3. CASE via = "file"
    <3> DEFINE server == [command |-> command, args |-> args, env |-> B!FileEnv]
    <3>1. server.command = command /\ server.args = args /\ server.env = B!FileEnv
      OBVIOUS
    <3>2. b = B!JsonBackend(server)
      BY <2>3 DEF B!MadeBy
    <3> HIDE DEF server
    <3>3. b = [new EXCEPT !.set.env = B!FileEnv]
      BY <3>1, <3>2 DEF B!JsonBackend
    <3> HIDE DEF b, new
    <3>4. b.transport = t /\ b.set = [set EXCEPT !.env = B!FileEnv]
      BY <1>1, <3>3
    <3> QED
      BY <2>3, <3>4
  <2> QED
    BY <2>1, <2>2, <2>3
<1>5. B!Process(b).args = K /\ b.set.args = K /\ [b.set EXCEPT !.args = <<>>] = told([set EXCEPT !.args = <<>>])
  <2> HIDE DEF b
  <2>1. b.set.args = K /\ [b.set EXCEPT !.args = <<>>] = told([set EXCEPT !.args = <<>>])
    BY <1>3, <1>4 DEF IsParsed
  <2> QED
    BY <2>1 DEF B!Process
<1>6. B!ParseBackendArgs(K, t) = [B!Unparsed EXCEPT !.args = K]
  <2>1. <<>> \in Rest(args, Len(args)) /\ K \o <<>> = K
    BY DEF Rest, ArgLists
  <2> DEFINE u == [B!Unparsed EXCEPT !.args = K]
  <2>2. ReadOf(K, t)[Len(K)] = [next |-> Len(K) + 1, parsed |-> u]
    BY <1>2, <2>1 DEF FallApart, ReadsAs
  <2> HIDE DEF u
  <2>3. ReadOf(K, t)[Len(K)].parsed = u
    BY <2>2
  <2> QED
    BY <2>3, ReadUnfolds DEF u
<1>7. B!ParseBackendArgs(T, t) = [set EXCEPT !.args = <<>>]
  <2>1. <<>> \in Rest(args, Len(args)) /\ T \o <<>> = T
    BY DEF Rest, ArgLists
  <2> DEFINE u == [p EXCEPT !.args = <<>>]
  <2>2. ReadOf(T, t)[Len(T)] = [next |-> Len(T) + 1, parsed |-> u]
    BY <1>2, <2>1 DEF FallApart, ReadsAs
  <2> HIDE DEF u
  <2>3. ReadOf(T, t)[Len(T)].parsed = u
    BY <2>2
  <2> QED
    BY <1>3, <2>3, ReadUnfolds DEF u
<1>8. DOMAIN args = 1 .. Len(args)
  BY DEF ArgLists
<1>9. K = B!Picked(args, I) /\ T = B!Picked(args, DOMAIN args \ I)
  <2>1. I \cap (1 .. Len(args)) = I /\ ((1 .. Len(args)) \ I) \cap (1 .. Len(args)) = (1 .. Len(args)) \ I
    OBVIOUS
  <2> QED
    BY <1>2, <1>8, <2>1, PickUnfolds DEF FallApart, PicksTo
<1> HIDE DEF b
<1>10. B!ParseBackendArgs(b.set.args, b.transport) = [B!Unparsed EXCEPT !.args = b.set.args]
  BY <1>4, <1>5, <1>6
<1>11. /\ B!Process(b).args = B!Picked(args, I)
       /\ told(B!ParseBackendArgs(B!Picked(args, DOMAIN args \ I), b.transport)) = [b.set EXCEPT !.args = <<>>]
  BY <1>4, <1>5, <1>7, <1>9
<1>12. I \in SUBSET DOMAIN args
  BY <1>8
<1>13. B!ParseBackendArgs(b.set.args, b.transport) = [B!Unparsed EXCEPT !.args = b.set.args]
       /\ \E J \in SUBSET DOMAIN args :
            /\ B!Process(b).args = B!Picked(args, J)
            /\ told(B!ParseBackendArgs(B!Picked(args, DOMAIN args \ J), b.transport)) = [b.set EXCEPT !.args = <<>>]
  BY <1>10, <1>11, <1>12
<1> QED
  BY <1>13, Zenon DEF B!ArgumentsAreKept, b

\* Every argument of a backend is read as an option to the last word of it or is kept
\* in its place, unless a timeout too long to hold makes the reading panic.
THEOREM ArgumentsKept == Spec => []NoArgumentIsLost
<1>1. Typed => NoArgumentIsLost
  <2> SUFFICES ASSUME Typed, kind = "backend" PROVE B!ArgumentsAreKept(input[1], input[2], input[3])
    BY DEF NoArgumentIsLost
  <2>1. input \in {"command", "multi", "file"} \X STRING \X Seq(Texts)
    BY DEF Typed, IsInput
  <2>2. input[1] \in {"command", "multi", "file"} /\ input[2] \in STRING /\ input[3] \in Seq(Texts)
    BY <2>1
  <2>3. input[3] \in ArgLists
    BY <2>2, TextsAreArgs
  <2> QED
    BY <2>2, <2>3, ArgumentsFallApart
<1> QED
  BY <1>1, TypeCorrect, PTL

----------------------------------------------------------------------------
(* The headers of a server *)

\* A set in some order: each of its elements is there.
LEMMA OneByOne ==
    ASSUME NEW S, IsFiniteSet(S)
    PROVE  /\ B!SetToSeq(S) \in Seq(S)
           /\ \A x \in S : \E k \in 1 .. Len(B!SetToSeq(S)) : B!SetToSeq(S)[k] = x
<1> DEFINE n == Cardinality(S)
           f == B!SetToSeq(S)
<1>1. n \in Nat /\ ExistsBijection(1 .. n, S)
  BY FS_CardinalityType
<1>2. IsFiniteSet(1 .. n) /\ Cardinality(1 .. n) = n
  <2>1. (1 - 1) + 1 = 1 /\ 0 \in Nat
    OBVIOUS
  <2> QED
    BY <1>1, FS_Interval
<1>3. f \in [1 .. n -> S] /\ IsInjective(f)
  <2>1. \E g \in [1 .. n -> S] : IsInjective(g)
    <3>1. PICK g : g \in Bijection(1 .. n, S)
      BY <1>1 DEF ExistsBijection
    <3> QED
      BY <3>1 DEF Bijection, Injection
  <2>2. f = CHOOSE g \in [1 .. n -> S] : IsInjective(g)
    BY Zenon DEF B!SetToSeq, B!Cardinality, Cardinality, B!IsInjective, IsInjective
  <2> QED
    BY <2>1, <2>2
<1>4. f \in Surjection(1 .. n, S)
  <2>1. f \in Injection(1 .. n, S)
    BY <1>3 DEF Injection
  <2> HIDE DEF f, n
  <2> QED
    BY <1>2, <2>1, FS_Injection DEF n
<1> HIDE DEF f, n
<1>5. f \in Seq(S) /\ Len(f) = n
  BY <1>1, <1>3
<1>6. \A x \in S : \E k \in 1 .. n : f[k] = x
  BY <1>4 DEF Surjection
<1> QED
  BY <1>5, <1>6 DEF f

\* The words of the headers of h that z begins with, in the order ns.
HeadersBy(h, ns, z) ==
    /\ ns \in Seq(DOMAIN h) /\ z \in ArgLists /\ Len(z) = 2 * Len(ns)
    /\ \A k \in 1 .. Len(ns) : z[2 * k - 1] = <<"-H">> /\ z[2 * k] = B!HeaderWord(h, ns[k])
    /\ \A n \in DOMAIN h : \E k \in 1 .. Len(ns) : ns[k] = n

LEMMA HeaderWordIs ==
    ASSUME NEW h, IsHeaders(h), NEW n \in DOMAIN h
    PROVE  B!HeaderWord(h, n) \in ArgText
<1>1. n \in ArgText /\ h[n] \in ArgText
  BY TextsAreArgs DEF IsHeaders
<1>2. <<"=">> \in ArgText
  <2>1. "=" \in Char \cup {"-H", "=", "--auth", "none"}
    OBVIOUS
  <2> HIDE DEF Char
  <2> QED
    BY <2>1 DEF ArgText
<1> QED
  BY <1>1, <1>2 DEF B!HeaderWord, ArgText

LEMMA HeaderArgsAre ==
    ASSUME NEW h, IsHeaders(h)
    PROVE  HeadersBy(h, B!SetToSeq(DOMAIN h), B!HeaderArgs(h))
<1> DEFINE ns == B!SetToSeq(DOMAIN h)
           m == Len(ns)
           z == B!HeaderArgs(h)
<1>1. ns \in Seq(DOMAIN h) /\ \A n \in DOMAIN h : \E k \in 1 .. Len(ns) : ns[k] = n
  BY OneByOne DEF IsHeaders
<1>2. z = [i \in 1 .. (2 * m) |-> IF i % 2 = 1 THEN <<"-H">> ELSE B!HeaderWord(h, ns[i \div 2])]
  BY DEF B!HeaderArgs
<1> HIDE DEF ns, z
<1>3. m \in Nat
  BY <1>1
<1> HIDE DEF m
<1>4. \A k \in 1 .. m : ns[k] \in DOMAIN h
  BY <1>1 DEF m
<1>5. \A i \in 1 .. (2 * m) : z[i] \in ArgText
  <2> SUFFICES ASSUME NEW i \in 1 .. (2 * m) PROVE z[i] \in ArgText
    OBVIOUS
  <2>1. CASE i % 2 = 1
    <3>1. z[i] = <<"-H">>
      BY <1>2, <2>1
    <3>2. "-H" \in Char \cup {"-H", "=", "--auth", "none"}
      OBVIOUS
    <3> HIDE DEF Char
    <3> QED
      BY <3>1, <3>2 DEF ArgText
  <2>2. CASE i % 2 # 1
    <3>1. i \div 2 \in 1 .. m
      BY <1>3, <2>2
    <3>2. z[i] = B!HeaderWord(h, ns[i \div 2])
      BY <1>2, <2>2
    <3> QED
      BY <1>4, <3>1, <3>2, HeaderWordIs
  <2> QED
    BY <2>1, <2>2
<1>6. z \in ArgLists /\ Len(z) = 2 * m
  <2>1. z \in [1 .. (2 * m) -> ArgText] /\ 2 * m \in Nat
    BY <1>2, <1>3, <1>5
  <2> QED
    BY <2>1 DEF ArgLists
<1>7. \A k \in 1 .. m : z[2 * k - 1] = <<"-H">> /\ z[2 * k] = B!HeaderWord(h, ns[k])
  <2> SUFFICES ASSUME NEW k \in 1 .. m PROVE z[2 * k - 1] = <<"-H">> /\ z[2 * k] = B!HeaderWord(h, ns[k])
    OBVIOUS
  <2>1. 2 * k - 1 \in 1 .. (2 * m) /\ 2 * k \in 1 .. (2 * m)
    BY <1>3
  <2>2. (2 * k - 1) % 2 = 1 /\ (2 * k) % 2 # 1 /\ (2 * k) \div 2 = k
    BY <1>3
  <2> QED
    BY <1>2, <2>1, <2>2
<1> QED
  BY <1>1, <1>6, <1>7 DEF HeadersBy, m, ns, z

\* A header is read from its word as its name and its value.
LEMMA HeaderIsRead ==
    ASSUME NEW h, IsHeaders(h), NEW n \in DOMAIN h
    PROVE  B!ParseHeaderArg(B!HeaderWord(h, n)) = IF n = <<>> \/ h[n] = <<>> THEN <<>> ELSE <<n, B!InterpolateEnv(h[n])>>
<1> DEFINE C == Char \cup {"-H", "=", "--auth", "none"}
           v == h[n]
           w == B!HeaderWord(h, n)
           N == Len(n)
           at == B!SelectInSeq(w, LAMBDA c : c = "=")
           J == {j \in 1 .. Len(w) : w[j] = "="}
<1>1. n \in Seq(C) /\ v \in Seq(C) /\ <<"=">> \in Seq(C) /\ \A i \in 1 .. Len(n) : n[i] # "="
  <2>1. n \in ArgText /\ h[n] \in ArgText /\ \A i \in DOMAIN n : n[i] # "="
    BY TextsAreArgs DEF IsHeaders
  <2>2. "=" \in C
    OBVIOUS
  <2>3. n \in Seq(C) /\ v \in Seq(C)
    BY <2>1 DEF ArgText
  <2> HIDE DEF C
  <2> QED
    BY <2>1, <2>2, <2>3
<1>2. w = (n \o <<"=">>) \o v
  BY DEF B!HeaderWord
<1> HIDE DEF w, C, v
<1> DEFINE x == n \o <<"=">>
<1>3. IsJoined(C, n, <<"=">>, x) /\ Len(<<"=">>) = 1
  BY <1>1, Joined
<1>4. x \in Seq(C) /\ Len(x) = N + 1 /\ N \in Nat /\ x[N + 1] = "=" /\ \A i \in 1 .. N : x[i] = n[i]
  <2>1. 1 \in 1 .. 1 /\ <<"=">>[1] = "="
    OBVIOUS
  <2> HIDE DEF x
  <2> QED
    BY <1>3, <2>1 DEF IsJoined
<1>5. IsJoined(C, x, v, w)
  <2> HIDE DEF x
  <2> QED
    BY <1>1, <1>2, <1>4, Joined DEF x
<1> HIDE DEF x
<1>6. /\ w \in Seq(C) /\ Len(v) \in Nat /\ Len(w) = N + 1 + Len(v) /\ w[N + 1] = "="
      /\ \A i \in 1 .. N : w[i] = n[i] /\ w[i] # "="
      /\ \A i \in 1 .. Len(v) : w[N + 1 + i] = v[i]
  <2>1. N + 1 \in 1 .. Len(x) /\ \A i \in 1 .. N : i \in 1 .. Len(x)
    BY <1>4
  <2> QED
    BY <1>1, <1>4, <1>5, <2>1 DEF IsJoined
<1>7. at = N + 1
  <2>1. at = IF J # {} THEN Min(J) ELSE 0
    BY DEF B!SelectInSeq, B!Min, Min
  <2>2. J \in SUBSET Nat /\ N + 1 \in J /\ \A i \in J : ~(i < N + 1)
    BY <1>4, <1>6
  <2> HIDE DEF J, at
  <2>3. Min(J) \in J /\ Min(J) <= N + 1
    BY <2>2, MinOf
  <2>4. Min(J) \in Nat /\ ~(Min(J) < N + 1)
    BY <2>2, <2>3
  <2> QED
    BY <1>4, <2>1, <2>2, <2>3, <2>4
<1>8. B!SplitOnce(w, "=") = <<SubSeq(w, 1, N), SubSeq(w, N + 2, Len(w))>>
  <2>1. B!SplitOnce(w, "=") = IF at = 0 THEN <<>> ELSE <<SubSeq(w, 1, at - 1), SubSeq(w, at + 1, Len(w))>>
    BY DEF B!SplitOnce, at
  <2>2. (N + 1) - 1 = N /\ (N + 1) + 1 = N + 2 /\ N + 1 # 0
    BY <1>4
  <2> HIDE DEF at
  <2> QED
    BY <1>7, <2>1, <2>2
<1>9. SubSeq(w, 1, N) = n
  <2>1. IsCutOut(C, w, 0, N, SubSeq(w, 0 + 1, N))
    BY <1>4, <1>6, CutOut
  <2>2. 0 + 1 = 1 /\ N - 0 = N /\ \A k \in 1 .. N : 0 + k = k
    BY <1>4
  <2>3. SubSeq(w, 1, N) \in Seq(C) /\ Len(SubSeq(w, 1, N)) = N /\ \A k \in 1 .. N : SubSeq(w, 1, N)[k] = w[k]
    BY <2>1, <2>2 DEF IsCutOut
  <2> QED
    BY <1>1, <1>6, <2>3, SameSeq
<1>10. SubSeq(w, N + 2, Len(w)) = v
  <2>1. IsCutOut(C, w, N + 1, Len(w), SubSeq(w, (N + 1) + 1, Len(w)))
    BY <1>4, <1>6, CutOut
  <2>2. (N + 1) + 1 = N + 2 /\ Len(w) - (N + 1) = Len(v)
    BY <1>4, <1>6
  <2> DEFINE r == SubSeq(w, N + 2, Len(w))
  <2>3. r \in Seq(C) /\ Len(r) = Len(v) /\ \A k \in 1 .. Len(v) : r[k] = w[N + 1 + k]
    BY <2>1, <2>2 DEF IsCutOut
  <2> HIDE DEF r
  <2> QED
    <3>1. \A k \in 1 .. Len(r) : r[k] = v[k]
      BY <1>6, <2>3
    <3> QED
      BY <1>1, <2>3, <3>1, SameSeq DEF r
<1>11. B!Contains(w, "=")
  <2>1. N + 1 \in 1 .. Len(w)
    BY <1>4, <1>6
  <2> QED
    BY <1>6, <2>1 DEF B!Contains
<1> DEFINE pair == <<n, v>>
<1>12. B!SplitOnce(w, "=") = pair /\ pair # <<>> /\ pair[1] = n /\ pair[2] = v
  BY <1>8, <1>9, <1>10
<1>13. <<>> \in B!ToSet(pair) <=> (n = <<>> \/ v = <<>>)
  <2>1. B!ToSet(pair) = {pair[i] : i \in DOMAIN pair}
    BY DEF B!ToSet
  <2> QED
    BY <2>1
<1> HIDE DEF pair
<1>14. B!ParseHeaderArg(w) = IF pair = <<>> \/ <<>> \in B!ToSet(pair) THEN <<>> ELSE <<pair[1], B!InterpolateEnv(pair[2])>>
  BY <1>11, <1>12 DEF B!ParseHeaderArg
<1> QED
  BY <1>12, <1>13, <1>14 DEF v, w

\* What the arguments and the headers of a server give the header n, and whether an
\* argument is one that can start OAuth.
Gives(s, n) == {B!InterpolateEnv(s.headers[k]) : k \in B!Spelled(s.headers, n)} \cup B!ArgValues(s.args, n)
Asks(s)     == {<<"--auth">>, <<"--auth", "=", "oauth">>} \cap B!ToSet(s.args) # {}

\* What is read has no header that nothing gave, has those of N unless a word was not
\* taken, and leaves OAuth off unless it was asked for.
Carries(s, p, N) ==
    /\ IsParsed(p) /\ p.args \in ArgLists
    /\ p.args # <<>> \/ N \subseteq DOMAIN p.headers
    /\ \A k \in DOMAIN p.headers : p.headers[k] \in Gives(s, B!HeaderName(k))
NoOauth(s, p) == Asks(s) \/ p.auth = "ExplicitHeaders"

\* One more header, or words that are kept, leave it so.
LEMMA PutCarries ==
    ASSUME NEW s, NEW p, NEW N, Carries(s, p, N), NEW x, NEW v, v \in Gives(s, B!HeaderName(x)),
           NEW q, q = [p EXCEPT !.headers = B!Put(p.headers, <<x, v>>)]
    PROVE  Carries(s, q, N \cup {x}) /\ q.auth = p.auth
<1> DEFINE g == B!Put(p.headers, <<x, v>>)
<1>1. DOMAIN g = DOMAIN p.headers \cup {x} /\ \A k \in DOMAIN g : g[k] = IF k = x THEN v ELSE p.headers[k]
  BY DEF B!Put
<1>2. q = [p EXCEPT !.headers = g]
  OBVIOUS
<1> HIDE DEF g
<1>3. IsParsed(q) /\ q.args = p.args /\ q.headers = g /\ q.auth = p.auth
  BY <1>2 DEF Carries, IsParsed
<1>4. \A k \in DOMAIN g : g[k] \in Gives(s, B!HeaderName(k))
  BY <1>1 DEF Carries
<1> QED
  BY <1>1, <1>3, <1>4 DEF Carries

LEMMA KeptCarries ==
    ASSUME NEW s, NEW p, NEW N, Carries(s, p, N), NEW ws \in ArgLists, ws # <<>>, NEW K, NEW q, q = B!Kept(p, ws)
    PROVE  Carries(s, q, K) /\ q.auth = p.auth
<1> DEFINE a == p.args \o ws
<1>1. a \in ArgLists /\ a # <<>>
  BY DEF Carries, ArgLists
<1>2. q = [p EXCEPT !.args = a]
  BY DEF B!Kept
<1> HIDE DEF a
<1>3. IsParsed(q) /\ q.args = a /\ q.headers = p.headers /\ q.auth = p.auth
  BY <1>2 DEF Carries, IsParsed
<1> QED
  BY <1>1, <1>3 DEF Carries

LEMMA GroupIs ==
    ASSUME NEW z \in ArgLists, NEW i \in 0 .. (Len(z) - 1)
    PROVE  Group(z, i) \in ArgLists /\ Group(z, i) # <<>>
<1>1. /\ Len(z) \in Nat /\ i + 1 \in 1 .. Len(z) /\ z[i + 1] \in ArgText
      /\ (i + 1 < Len(z) => i + 2 \in 1 .. Len(z) /\ z[i + 2] \in ArgText)
  BY DEF ArgLists
<1>2. CASE Two(z, i)
  <2>1. z[i + 2] \in ArgText
    BY <1>1, <1>2 DEF Two
  <2> QED
    BY <1>1, <1>2, <2>1 DEF Group, ArgLists
<1>3. CASE ~Two(z, i)
  BY <1>1, <1>3 DEF Group, ArgLists
<1> QED
  BY <1>2, <1>3

LEMMA HasOneOption ==
    ASSUME NEW w, NEW o, o \in B!OptionOf(w)
    PROVE  Opt(w) = o
<1>1. \A x \in B!OptionOf(w) : x = o
  BY DEF B!OptionOf, B!Options
<1> QED
  BY <1>1 DEF Opt

\* A word of the arguments, with what follows it there, leaves it so too.
LEMMA WordCarries ==
    ASSUME NEW s, NEW z \in ArgLists, NEW i \in 0 .. (Len(z) - 1), NEW p, NEW N, Carries(s, p, N), NEW t,
           \E j \in DOMAIN s.args : z[i + 1] = s.args[j],
           Two(z, i) \/ B!IsAssigned(z[i + 1]) => Follows(z, i) \in B!GivenWords(s.args)
    PROVE  Carries(s, Makes(z, i, t, p), N) /\ (NoOauth(s, p) => NoOauth(s, Makes(z, i, t, p)))
<1> DEFINE w == z[i + 1]
           v == Follows(z, i)
           o == Opt(w)
           q == Makes(z, i, t, p)
<1>1. CASE ~IsTaken(z, i, t)
  <2>1. q = B!Kept(p, Group(z, i))
    BY <1>1 DEF Makes
  <2> HIDE DEF q
  <2>2. Carries(s, q, N) /\ q.auth = p.auth
    BY <2>1, GroupIs, KeptCarries
  <2> QED
    BY <2>2 DEF NoOauth, q
<1>2. CASE IsTaken(z, i, t)
  <2>1. q = B!Setting(p, o, v) /\ B!Accepts(o, v, t) /\ v \in B!GivenWords(s.args)
    BY <1>2 DEF Makes, IsTaken
  <2>2. o \in B!OptionOf(w) /\ o \in {"header", "cwd", "env", "timeout", "auth"}
    <3>1. B!OptionOf(w) # {}
      BY <1>2 DEF IsTaken, Two, B!IsBare, B!IsAssigned
    <3>2. o \in B!OptionOf(w)
      BY <3>1 DEF Opt
    <3> QED
      BY <3>2 DEF B!OptionOf, B!Options
  <2>3. IsParsed(p)
    BY DEF Carries
  <2> HIDE DEF q, o, v
  <2>4. CASE o = "header"
    <3> DEFINE pair == B!ParseHeaderArg(v)
    <3>1. q = [p EXCEPT !.headers = B!Put(p.headers, pair)] /\ pair # <<>>
      BY <2>1, <2>4 DEF B!Setting, B!Accepts
    <3>2. pair = <<pair[1], pair[2]>>
      <4> DEFINE sp == B!SplitOnce(v, IF B!Contains(v, "=") THEN "=" ELSE ":")
                 made == <<sp[1], B!InterpolateEnv(sp[2])>>
      <4>1. pair = IF sp = <<>> \/ <<>> \in B!ToSet(sp) THEN <<>> ELSE made
        BY DEF B!ParseHeaderArg
      <4>2. made = <<made[1], made[2]>>
        OBVIOUS
      <4> HIDE DEF pair, sp, made
      <4> QED
        BY <3>1, <4>1, <4>2
    <3>3. pair[2] \in Gives(s, B!HeaderName(pair[1]))
      <4>1. pair[2] \in B!ArgValues(s.args, B!HeaderName(pair[1]))
        BY <2>1, <3>1 DEF B!ArgValues
      <4> QED
        BY <4>1 DEF Gives
    <3> HIDE DEF pair
    <3> DEFINE x == pair[1]
               y == pair[2]
    <3>4. q = [p EXCEPT !.headers = B!Put(p.headers, <<x, y>>)] /\ y \in Gives(s, B!HeaderName(x))
      BY <3>1, <3>2, <3>3
    <3> HIDE DEF x, y
    <3>5. Carries(s, q, N \cup {x}) /\ q.auth = p.auth
      BY <3>4, PutCarries
    <3>6. Carries(s, q, N)
      BY <3>5 DEF Carries
    <3> QED
      BY <3>5, <3>6 DEF NoOauth, q
  <2>5. CASE o = "auth"
    <3>1. q = [p EXCEPT !.auth = B!AuthModes[v[1]]]
      BY <2>1, <2>5 DEF B!Setting
    <3>2. IsParsed(q) /\ q.args = p.args /\ q.headers = p.headers
      <4> DEFINE m == B!AuthModes[v[1]]
      <4>1. q = [p EXCEPT !.auth = m]
        BY <3>1
      <4> HIDE DEF m
      <4> QED
        BY <2>3, <4>1 DEF IsParsed
    <3>3. w \in B!ToSet(s.args) /\ w \in ArgText /\ w # <<>> /\ w[1] = "--auth"
      <4>1. w \in ArgText
        <5>1. i + 1 \in 1 .. Len(z)
          BY DEF ArgLists
        <5> QED
          BY <5>1 DEF ArgLists
      <4>2. w # <<>> /\ w[1] = "--auth"
        BY <2>2, <2>5 DEF B!OptionOf, B!Options
      <4>3. w \in B!ToSet(s.args)
        BY DEF B!ToSet
      <4> QED
        BY <4>1, <4>2, <4>3
    <3>4. CASE Two(z, i)
      <4>1. Len(w) = 1
        BY <3>4 DEF Two, B!IsBare
      <4> HIDE DEF w
      <4>2. w = <<"--auth">>
        BY <3>3, <4>1 DEF ArgText
      <4>3. Asks(s)
        BY <3>3, <4>2 DEF Asks
      <4> QED
        BY <3>2, <4>3 DEF Carries, NoOauth, q
    <3>5. CASE ~Two(z, i)
      <4>1. v = SubSeq(w, 3, Len(w)) /\ B!IsAssigned(w)
        BY <1>2, <3>5 DEF Follows, IsTaken, v
      <4>2. Len(v) = 1 /\ v[1] \in {"oauth", "none"}
        BY <2>1, <2>5 DEF B!Accepts, B!IsAuthMode, B!AuthModes
      <4>3. Len(w) = 3 /\ w[2] = "=" /\ v[1] = w[3]
        <5> HIDE DEF w
        <5>1. w \in Seq(Char \cup {"-H", "=", "--auth", "none"}) /\ Len(w) > 1 /\ w[2] = "="
          BY <3>3, <4>1 DEF ArgText, B!IsAssigned
        <5>2. Len(w) \in Nat /\ 2 <= Len(w) /\ 2 + 1 = 3
          BY <5>1
        <5>3. IsCutOut(Char \cup {"-H", "=", "--auth", "none"}, w, 2, Len(w), SubSeq(w, 2 + 1, Len(w)))
          BY <5>1, <5>2, CutOut
        <5>4. Len(v) = Len(w) - 2 /\ \A k \in 1 .. Len(w) - 2 : v[k] = w[2 + k]
          BY <4>1, <5>2, <5>3 DEF IsCutOut
        <5>5. Len(w) = 3 /\ 1 \in 1 .. Len(w) - 2 /\ 2 + 1 = 3
          <6>1. Len(v) = 1
            BY <4>2
          <6>2. Len(v) = Len(w) - 2
            BY <5>4
          <6>3. Len(w) - 2 = 1
            BY ONLY <6>1, <6>2
          <6>4. Len(w) = 3
            BY ONLY <5>2, <6>3
          <6>5. 1 \in 1 .. 1
            OBVIOUS
          <6> QED
            BY ONLY <6>3, <6>4, <6>5
        <5>6. v[1] = w[2 + 1]
          BY <5>4, <5>5
        <5> QED
          BY <5>1, <5>5, <5>6
      <4> HIDE DEF w
      <4>4. CASE v[1] = "oauth"
        <5>1. w = <<"--auth", "=", "oauth">>
          <6> DEFINE S == Char \cup {"-H", "=", "--auth", "none", "oauth"}
                     c == <<"--auth", "=", "oauth">>
          <6>1. c \in Seq(S) /\ Len(c) = 3 /\ c[1] = "--auth" /\ c[2] = "=" /\ c[3] = "oauth"
            OBVIOUS
          <6>2. w \in Seq(S)
            BY <3>3 DEF ArgText
          <6> HIDE DEF c, S
          <6>3. Len(w) = Len(c) /\ \A k \in 1 .. Len(w) : k \in {1, 2, 3}
            BY <4>3, <6>1
          <6>4. \A k \in 1 .. Len(w) : w[k] = c[k]
            BY <3>3, <4>3, <4>4, <6>1, <6>3
          <6>5. w = c
            BY ONLY <6>1, <6>2, <6>3, <6>4, SameSeq
          <6> QED
            BY <6>5 DEF c
        <5>2. Asks(s)
          BY <3>3, <5>1 DEF Asks
        <5> QED
          BY <3>2, <5>2 DEF Carries, NoOauth, q
      <4>5. CASE v[1] = "none"
        <5> DEFINE m == B!AuthModes[v[1]]
        <5>1. m = "ExplicitHeaders"
          BY <4>5 DEF B!AuthModes
        <5>2. q = [p EXCEPT !.auth = m]
          BY <3>1
        <5> HIDE DEF m
        <5>3. q.auth = "ExplicitHeaders"
          BY <2>3, <5>1, <5>2 DEF IsParsed
        <5> QED
          BY <3>2, <5>3 DEF Carries, NoOauth, q
      <4> QED
        BY <4>2, <4>4, <4>5
    <3> QED
      BY <3>4, <3>5
  <2>6. CASE o \in {"cwd", "env", "timeout"}
    <3>1. IsParsed(q) /\ q.args = p.args /\ q.headers = p.headers /\ q.auth = p.auth
      <4>1. CASE o = "cwd"
        <5>1. q = [p EXCEPT !.cwd = v]
          BY <2>1, <4>1 DEF B!Setting
        <5> QED
          BY <2>3, <5>1 DEF IsParsed
      <4>2. CASE o = "env"
        <5> DEFINE m == B!Put(p.env, B!ParseKeyValueArg(v))
        <5>1. q = [p EXCEPT !.env = m]
          BY <2>1, <4>2 DEF B!Setting
        <5> HIDE DEF m
        <5> QED
          BY <2>3, <5>1 DEF IsParsed
      <4>3. CASE o = "timeout"
        <5> DEFINE m == p.panics \/ ~B!FitsDuration(v)
        <5>1. q = [p EXCEPT !.timeout = v, !.panics = m]
          BY <2>1, <2>3, <4>3 DEF B!Setting, IsParsed
        <5> HIDE DEF m
        <5> QED
          BY <2>3, <5>1 DEF IsParsed
      <4> QED
        BY <2>6, <4>1, <4>2, <4>3
    <3> QED
      BY <3>1 DEF Carries, NoOauth, q
  <2> QED
    BY <2>2, <2>4, <2>5, <2>6
<1> QED
  BY <1>1, <1>2

\* The words of the headers are read first, each of them to its end.
LEMMA HeadersAreRead ==
    ASSUME NEW s, IsServer(s), NEW ns, NEW x, HeadersBy(s.headers, ns, x), NEW y \in ArgLists, NEW z, z = x \o y
    PROVE  \E p : /\ ReadOf(z, B!Http)[Len(x)] = [next |-> Len(x) + 1, parsed |-> p]
                  /\ Carries(s, p, DOMAIN s.headers)
<1> DEFINE h == s.headers
           t == B!Http
           m == Len(ns)
           upto(k) == {ns[j] : j \in 1 .. k}
           good(k, p) == ReadOf(z, t)[2 * k] = [next |-> 2 * k + 1, parsed |-> p] /\ Carries(s, p, upto(k))
           S == {k \in 0 .. m : \E p : good(k, p)}
<1>1. IsHeaders(h) /\ m \in Nat /\ x \in ArgLists /\ Len(x) = 2 * m
  BY DEF IsServer, HeadersBy
<1>2. /\ z \in ArgLists /\ Len(z) \in Nat /\ 2 * m <= Len(z)
      /\ \A k \in 1 .. m : z[2 * k - 1] = <<"-H">> /\ z[2 * k] = B!HeaderWord(h, ns[k]) /\ ns[k] \in DOMAIN h
  <2>1. IsJoined(ArgText, x, y, z)
    BY <1>1, Joined DEF ArgLists
  <2>2. \A k \in 1 .. m : 2 * k - 1 \in 1 .. Len(x) /\ 2 * k \in 1 .. Len(x)
    BY <1>1
  <2>3. z \in ArgLists /\ Len(z) \in Nat /\ 2 * m <= Len(z)
    BY <1>1, <2>1 DEF IsJoined, ArgLists
  <2>4. \A k \in 1 .. m : z[2 * k - 1] = <<"-H">> /\ z[2 * k] = B!HeaderWord(h, ns[k])
    BY <2>1, <2>2 DEF IsJoined, HeadersBy
  <2>5. \A k \in 1 .. m : ns[k] \in DOMAIN h
    BY DEF HeadersBy
  <2> QED
    BY <2>3, <2>4, <2>5
<1>3. 0 \in S
  <2>1. ReadOf(z, t)[2 * 0] = [next |-> 2 * 0 + 1, parsed |-> B!Unparsed]
    <3>1. ReadOf(z, t)[0] = [next |-> 1, parsed |-> B!Unparsed]
      BY <1>2, ReadUnfolds DEF Start
    <3> QED
      BY <3>1
  <2>2. Carries(s, B!Unparsed, upto(0))
    <3>1. upto(0) = {}
      OBVIOUS
    <3>2. DOMAIN B!Nothing = {} /\ <<>> \in ArgLists
      BY DEF B!Nothing, ArgLists
    <3>3. IsParsed(B!Unparsed) /\ B!Unparsed.args = <<>> /\ B!Unparsed.headers = B!Nothing
      BY DEF IsParsed, B!Unparsed
    <3> HIDE DEF upto
    <3> QED
      BY <3>1, <3>2, <3>3 DEF Carries
  <2>3. good(0, B!Unparsed) /\ 0 \in 0 .. m
    BY <1>1, <2>1, <2>2
  <2> HIDE DEF good
  <2> QED
    BY <2>3
<1>4. ASSUME NEW k \in 0 .. m, k \in S, k < m PROVE k + 1 \in S
  <2>1. PICK p : good(k, p)
    BY <1>4
  <2> DEFINE i == 2 * k
             n == ns[k + 1]
             q == Makes(z, i, t, p)
  <2>2. i \in 0 .. (Len(z) - 1) /\ k + 1 \in 1 .. m /\ i + 1 < Len(z) /\ i + 1 = 2 * (k + 1) - 1 /\ i + 2 = 2 * (k + 1)
    BY <1>1, <1>2, <1>4
  <2>3. z[i + 1] = <<"-H">> /\ z[i + 2] = B!HeaderWord(h, n) /\ n \in DOMAIN h
    BY <1>2, <2>2
  <2>4. "header" \in B!OptionOf(<<"-H">>) /\ B!IsBare(<<"-H">>)
    <3>1. "header" \in B!OptionOf(<<"-H">>)
      BY DEF B!OptionOf, B!Options
    <3> QED
      BY <3>1 DEF B!IsBare
  <2>5. Two(z, i) /\ Size(z, i) = 2 /\ Follows(z, i) = B!HeaderWord(h, n) /\ Opt(z[i + 1]) = "header"
    <3>1. Two(z, i)
      BY <2>2, <2>3, <2>4 DEF Two
    <3>2. Opt(z[i + 1]) = "header"
      BY <2>3, <2>4, HasOneOption
    <3> QED
      BY <2>3, <3>1, <3>2 DEF Size, Follows
  <2> HIDE DEF q, i, n
  <2>6. ReadOf(z, t)[i + 2] = [next |-> i + 2 + 1, parsed |-> q]
    <3>1. ReadOf(z, t)[i] = [next |-> i + 1, parsed |-> p]
      BY <2>1 DEF i
    <3>2. z \in ArgLists /\ i \in 0 .. (Len(z) - 1)
      BY <1>2, <2>2
    <3>3. ReadOf(z, t)[i + Size(z, i)] = [next |-> i + Size(z, i) + 1, parsed |-> Makes(z, i, t, p)]
      <4> HIDE DEF t
      <4> QED
        BY ONLY <3>1, <3>2, GroupStep
    <3> QED
      BY <2>5, <3>3 DEF q
  <2>7. upto(k + 1) = upto(k) \cup {n}
    <3>1. \A j : j \in 1 .. (k + 1) <=> (j \in 1 .. k \/ j = k + 1)
      BY <1>4
    <3> QED
      BY <3>1 DEF n
  <2> HIDE DEF upto
  <2>8. Carries(s, q, upto(k + 1))
    <3> DEFINE w == B!HeaderWord(h, n)
    <3>1. CASE B!ParseHeaderArg(w) = <<>>
      <4>1. ~IsTaken(z, i, t)
        BY <2>5, <3>1 DEF IsTaken, B!Accepts
      <4>2. q = B!Kept(p, Group(z, i))
        BY <4>1 DEF Makes, q
      <4> QED
        BY <1>2, <2>1, <2>2, <4>2, GroupIs, KeptCarries
    <3>2. CASE B!ParseHeaderArg(w) # <<>>
      <4> DEFINE v == B!InterpolateEnv(h[n])
      <4>1. B!ParseHeaderArg(w) = <<n, v>>
        BY <1>1, <2>3, <3>2, HeaderIsRead
      <4>2. IsTaken(z, i, t)
        BY <2>5, <3>2 DEF IsTaken, B!Accepts
      <4>3. q = [p EXCEPT !.headers = B!Put(p.headers, B!ParseHeaderArg(w))]
        BY <2>5, <4>2 DEF Makes, q, B!Setting
      <4>4. v \in Gives(s, B!HeaderName(n))
        BY <2>3 DEF Gives, B!Spelled
      <4> HIDE DEF v, w
      <4>5. q = [p EXCEPT !.headers = B!Put(p.headers, <<n, v>>)]
        BY <4>1, <4>3
      <4> QED
        BY <2>1, <2>7, <4>4, <4>5, PutCarries
    <3> QED
      BY <3>1, <3>2
  <2>9. good(k + 1, q)
    BY <2>2, <2>6, <2>8 DEF i
  <2> HIDE DEF good
  <2> QED
    BY <1>1, <2>2, <2>9
<1>5. m \in S
  <2> HIDE DEF S
  <2>1. \A k \in 0 .. m : k \in S
    BY <1>1, <1>3, <1>4, Induction
  <2> QED
    BY <1>1, <2>1
<1>6. PICK p : good(m, p)
  BY <1>5
<1>7. upto(m) = DOMAIN h
  <2>1. \A j \in 1 .. m : ns[j] \in DOMAIN h
    BY <1>2
  <2>2. \A n \in DOMAIN h : \E j \in 1 .. m : ns[j] = n
    BY DEF HeadersBy
  <2> QED
    BY <2>1, <2>2
<1> HIDE DEF upto
<1> QED
  BY <1>1, <1>6, <1>7

\* What is read so far is right in all that is asked of it.
IsReadAt(s, z, i, N, p0) ==
    \E p : /\ ReadOf(z, B!Http)[i] = [next |-> i + 1, parsed |-> p]
           /\ Carries(s, p, N) /\ (NoOauth(s, p0) => NoOauth(s, p))

\* After them come the arguments, to the last of them.
LEMMA RestIsRead ==
    ASSUME NEW s, s.args \in ArgLists, NEW x \in ArgLists, NEW N, NEW p0, NEW z, z = x \o s.args,
           IsReadAt(s, z, Len(x), N, p0)
    PROVE  z \in ArgLists /\ IsReadAt(s, z, Len(z), N, p0)
<1> DEFINE a == s.args
           t == B!Http
           m == Len(a)
           l == Len(x)
           A(i) == IsReadAt(s, z, l + i, N, p0)
           S == {i \in 0 .. m : A(i) \/ (i + 1 \in 0 .. m /\ A(i + 1))}
<1>1. /\ z \in ArgLists /\ l \in Nat /\ m \in Nat /\ Len(z) = l + m
      /\ \A j \in 1 .. m : z[l + j] = a[j] /\ j \in DOMAIN a
  <2>1. IsJoined(ArgText, x, a, z)
    BY Joined DEF ArgLists
  <2>2. DOMAIN a = 1 .. m
    BY DEF ArgLists
  <2> QED
    BY <2>1, <2>2 DEF IsJoined, ArgLists
<1>2. 0 \in S
  BY <1>1
<1>3. ASSUME NEW i \in 0 .. m, A(i), i < m
      PROVE  \E k \in {1, 2} : i + k \in 0 .. m /\ A(i + k)
  <2> DEFINE j == l + i
  <2>1. j \in 0 .. (Len(z) - 1) /\ i + 1 \in 1 .. m /\ j + 1 = l + (i + 1) /\ j + 2 = l + (i + 2)
    BY <1>1, <1>3
  <2>2. PICK p : /\ ReadOf(z, t)[j] = [next |-> j + 1, parsed |-> p]
                 /\ Carries(s, p, N) /\ (NoOauth(s, p0) => NoOauth(s, p))
    BY <1>3 DEF IsReadAt
  <2> HIDE DEF j, t, a
  <2>3. j + Size(z, j) \in 1 .. Len(z) /\ ReadOf(z, t)[j + Size(z, j)] = [next |-> j + Size(z, j) + 1, parsed |-> Makes(z, j, t, p)]
    <3>1. z \in ArgLists /\ ReadOf(z, t)[j] = [next |-> j + 1, parsed |-> p]
      BY <1>1, <2>2
    <3> QED
      BY ONLY <2>1, <3>1, GroupStep
  <2>4. Two(z, j) \/ B!IsAssigned(z[j + 1]) => Follows(z, j) \in B!GivenWords(a)
    <3>1. CASE Two(z, j)
      <4>1. i + 2 \in 1 .. m
        BY <1>1, <1>3, <2>1, <3>1 DEF Two
      <4>2. z[j + 2] = a[i + 2] /\ i + 2 \in DOMAIN a
        BY <1>1, <2>1, <4>1
      <4> QED
        BY <3>1, <4>2 DEF Follows, B!GivenWords
    <3>2. CASE ~Two(z, j) /\ B!IsAssigned(z[j + 1])
      <4>1. z[j + 1] = a[i + 1] /\ i + 1 \in DOMAIN a
        BY <1>1, <2>1
      <4>2. Follows(z, j) = SubSeq(a[i + 1], 3, Len(a[i + 1])) /\ i + 1 \in {k \in DOMAIN a : B!IsAssigned(a[k])}
        BY <3>2, <4>1 DEF Follows
      <4> QED
        BY <4>2 DEF B!GivenWords
    <3> QED
      BY <3>1, <3>2
  <2>5. \E k \in DOMAIN a : z[j + 1] = a[k]
    BY <1>1, <2>1
  <2> DEFINE q == Makes(z, j, t, p)
  <2>6. Carries(s, q, N) /\ (NoOauth(s, p) => NoOauth(s, q))
    <3>1. \E k \in DOMAIN s.args : z[j + 1] = s.args[k]
      BY <2>5 DEF a
    <3>2. Two(z, j) \/ B!IsAssigned(z[j + 1]) => Follows(z, j) \in B!GivenWords(s.args)
      BY <2>4 DEF a
    <3>3. z \in ArgLists /\ Carries(s, p, N)
      BY <1>1, <2>2
    <3> QED
      BY ONLY <2>1, <3>1, <3>2, <3>3, WordCarries
  <2> HIDE DEF q
  <2>7. IsReadAt(s, z, j + Size(z, j), N, p0)
    BY <2>2, <2>3, <2>6 DEF IsReadAt, t, q
  <2>8. Size(z, j) \in {1, 2}
    BY DEF Size
  <2>9. j + Size(z, j) = l + (i + Size(z, j)) /\ i + Size(z, j) \in 0 .. m
    <3>1. \A k \in {1, 2} : j + k \in 1 .. Len(z) => j + k = l + (i + k) /\ i + k \in 0 .. m
      BY <1>1, <1>3 DEF j
    <3> QED
      BY <2>3, <2>8, <3>1
  <2> QED
    BY <2>7, <2>8, <2>9
<1> HIDE DEF A
<1>4. ASSUME NEW i \in 0 .. m, i \in S, i < m PROVE i + 1 \in S
  <2>1. i + 1 \in 0 .. m
    BY <1>1, <1>4
  <2>2. CASE A(i + 1)
    BY <2>1, <2>2
  <2>3. CASE ~A(i + 1)
    <3>1. PICK k \in {1, 2} : i + k \in 0 .. m /\ A(i + k)
      BY <1>3, <1>4, <2>3
    <3>2. k = 2 /\ i + 2 = (i + 1) + 1
      BY <2>3, <3>1
    <3> QED
      BY <2>1, <3>1, <3>2
  <2> QED
    BY <2>2, <2>3
<1>5. m \in S
  <2> HIDE DEF S
  <2>1. \A i \in 0 .. m : i \in S
    BY <1>1, <1>2, <1>4, Induction
  <2> QED
    BY <1>1, <2>1
<1>6. ~(m + 1 \in 0 .. m)
  BY <1>1
<1>7. A(m)
  BY <1>5, <1>6
<1> QED
  BY <1>1, <1>7 DEF A

\* All that a server configures is read: its headers are there or a word is refused,
\* and OAuth is off if it has any, unless its arguments ask for it.
LEMMA ServerIsRead ==
    ASSUME NEW s, IsServer(s), NEW p, p = B!ParseBackendArgs(B!NormalizedArgs(s), B!Http)
    PROVE  Carries(s, p, DOMAIN s.headers) /\ (DOMAIN s.headers = {} \/ NoOauth(s, p))
<1> DEFINE h == s.headers
           a == s.args
           t == B!Http
           z == B!NormalizedArgs(s)
<1>1. IsHeaders(h) /\ a \in ArgLists
  BY TextsAreArgs DEF IsServer
<1>2. \A q : z \in ArgLists /\ IsReadAt(s, z, Len(z), DOMAIN h, q) =>
             Carries(s, p, DOMAIN h) /\ (NoOauth(s, q) => NoOauth(s, p))
  <2> SUFFICES ASSUME NEW q, z \in ArgLists, IsReadAt(s, z, Len(z), DOMAIN h, q)
               PROVE  Carries(s, p, DOMAIN h) /\ (NoOauth(s, q) => NoOauth(s, p))
    OBVIOUS
  <2>1. p = ReadOf(z, t)[Len(z)].parsed
    BY ReadUnfolds
  <2> HIDE DEF z, h
  <2> QED
    BY <2>1 DEF IsReadAt
<1>3. CASE DOMAIN h = {}
  <2>1. z = a /\ a = <<>> \o a /\ <<>> \in ArgLists /\ Len(<<>>) = 0
    BY <1>1, <1>3 DEF B!NormalizedArgs, ArgLists
  <2>2. Carries(s, B!Unparsed, DOMAIN h)
    <3>1. DOMAIN B!Nothing = {} /\ <<>> \in ArgLists
      BY DEF B!Nothing, ArgLists
    <3>2. IsParsed(B!Unparsed) /\ B!Unparsed.args = <<>> /\ B!Unparsed.headers = B!Nothing
      BY DEF IsParsed, B!Unparsed
    <3> QED
      BY <1>3, <3>1, <3>2 DEF Carries
  <2>3. IsReadAt(s, a, 0, DOMAIN h, B!Unparsed)
    <3>1. ReadOf(a, t)[0] = [next |-> 0 + 1, parsed |-> B!Unparsed]
      BY <1>1, ReadUnfolds DEF Start
    <3> QED
      BY <2>2, <3>1 DEF IsReadAt
  <2>4. z \in ArgLists /\ IsReadAt(s, z, Len(z), DOMAIN h, B!Unparsed)
    <3> HIDE DEF z, h
    <3>1. IsReadAt(s, z, Len(<<>>), DOMAIN h, B!Unparsed) /\ z = <<>> \o s.args
      BY <2>1, <2>3
    <3> QED
      BY <1>1, <2>1, <3>1, RestIsRead
  <2> QED
    BY <1>2, <1>3, <2>4
<1>4. CASE DOMAIN h # {}
  <2> DEFINE x == B!HeaderArgs(h)
             o == IF B!Contains(a, <<"--auth">>) THEN <<>> ELSE <<<<"--auth">>, <<"none">>>>
             xo == x \o o
             ns == B!SetToSeq(DOMAIN h)
  <2>1. HeadersBy(h, ns, x) /\ x \in ArgLists /\ Len(x) \in Nat
    <3>1. HeadersBy(h, ns, x)
      BY <1>1, HeaderArgsAre
    <3> HIDE DEF ns, x
    <3> QED
      BY <3>1 DEF HeadersBy, ArgLists
  <2>2. o \in ArgLists
    <3>1. <<"--auth">> \in ArgText /\ <<"none">> \in ArgText /\ <<>> \in ArgLists
      <4>1. "--auth" \in Char \cup {"-H", "=", "--auth", "none"} /\ "none" \in Char \cup {"-H", "=", "--auth", "none"}
        OBVIOUS
      <4> HIDE DEF Char
      <4> QED
        BY <4>1 DEF ArgText, ArgLists
    <3>2. <<<<"--auth">>, <<"none">>>> \in ArgLists
      BY <3>1 DEF ArgLists
    <3> QED
      BY <3>1, <3>2
  <2>3. z = xo \o a
    <3>1. z = x \o o \o a
      BY <1>4 DEF B!NormalizedArgs
    <3> QED
      BY <3>1
  <2> HIDE DEF z, x, ns, o
  <2>4. xo \in ArgLists /\ o \o a \in ArgLists /\ z = x \o (o \o a)
    <3>1. x \in Seq(ArgText) /\ o \in Seq(ArgText) /\ a \in Seq(ArgText)
      BY <1>1, <2>1, <2>2 DEF ArgLists
    <3> HIDE DEF a
    <3>2. (x \o o) \o a = x \o (o \o a)
      BY ONLY <3>1, Associative, SMTT(20)
    <3>3. x \o o \in Seq(ArgText) /\ o \o a \in Seq(ArgText)
      BY ONLY <3>1
    <3> QED
      BY <2>3, <3>2, <3>3 DEF ArgLists
  <2>5. PICK p0 : ReadOf(z, t)[Len(x)] = [next |-> Len(x) + 1, parsed |-> p0] /\ Carries(s, p0, DOMAIN s.headers)
    <3> DEFINE y == o \o a
    <3>1. z = x \o y /\ y \in ArgLists /\ HeadersBy(s.headers, ns, x)
      BY <2>1, <2>4
    <3> HIDE DEF y
    <3> QED
      BY ONLY <3>1, IsServer(s), HeadersAreRead
  <2>6. \E q : IsReadAt(s, z, Len(xo), DOMAIN h, q) /\ NoOauth(s, q)
    <3>1. CASE B!Contains(a, <<"--auth">>)
      <4>1. o = <<>> /\ xo = x
        BY <2>1, <3>1 DEF o, ArgLists
      <4>2. Asks(s)
        <5>1. PICK j \in 1 .. Len(a) : a[j] = <<"--auth">>
          BY <3>1 DEF B!Contains
        <5>2. j \in DOMAIN a
          BY <1>1 DEF ArgLists
        <5> QED
          BY <5>1, <5>2 DEF Asks, B!ToSet
      <4> QED
        BY <2>5, <4>1, <4>2 DEF IsReadAt, NoOauth
    <3>2. CASE ~B!Contains(a, <<"--auth">>)
      <4> DEFINE i == Len(x)
                 q == Makes(z, i, t, p0)
      <4>1. o = <<<<"--auth">>, <<"none">>>>
        BY <3>2 DEF o
      <4>2. IsJoined(ArgText, x, o, xo) /\ IsJoined(ArgText, xo, a, z)
        BY <1>1, <2>1, <2>2, <2>3, <2>4, Joined DEF ArgLists
      <4>3. Len(o) = 2 /\ o[1] = <<"--auth">> /\ o[2] = <<"none">> /\ 1 \in 1 .. Len(o) /\ 2 \in 1 .. Len(o)
        BY <4>1
      <4>4. Len(xo) = i + 2 /\ xo[i + 1] = <<"--auth">> /\ xo[i + 2] = <<"none">>
        BY <4>2, <4>3 DEF IsJoined
      <4>5. /\ z \in ArgLists /\ Len(z) \in Nat /\ i + 2 <= Len(z) /\ i \in Nat
            /\ z[i + 1] = <<"--auth">> /\ z[i + 2] = <<"none">>
        <5>1. i + 1 \in 1 .. Len(xo) /\ i + 2 \in 1 .. Len(xo)
          BY <2>1, <4>4
        <5>2. i \in Nat
          BY <2>1
        <5> HIDE DEF xo, i, a
        <5>3. z \in ArgLists /\ Len(z) = Len(xo) + Len(a) /\ Len(a) \in Nat
          BY <4>2 DEF IsJoined, ArgLists
        <5>4. z[i + 1] = xo[i + 1] /\ z[i + 2] = xo[i + 2]
          BY <4>2, <5>1 DEF IsJoined
        <5> QED
          BY <4>4, <5>2, <5>3, <5>4
      <4>6. "auth" \in B!OptionOf(<<"--auth">>) /\ B!IsBare(<<"--auth">>)
        <5>1. "auth" \in B!OptionOf(<<"--auth">>)
          BY DEF B!OptionOf, B!Options
        <5> QED
          BY <5>1 DEF B!IsBare
      <4> HIDE DEF i, xo
      <4>7. i \in 0 .. (Len(z) - 1) /\ i + 1 < Len(z)
        BY <4>5
      <4>8. Two(z, i) /\ Size(z, i) = 2 /\ Follows(z, i) = <<"none">> /\ Opt(z[i + 1]) = "auth"
        <5>1. Two(z, i)
          BY <4>5, <4>6, <4>7 DEF Two
        <5>2. Opt(z[i + 1]) = "auth"
          BY <4>5, <4>6, HasOneOption
        <5> QED
          BY <4>5, <5>1, <5>2 DEF Size, Follows
      <4>9. IsTaken(z, i, t)
        <5>1. B!IsAuthMode(<<"none">>)
          BY DEF B!IsAuthMode, B!AuthModes
        <5> QED
          BY <4>8, <5>1 DEF IsTaken, B!Accepts
      <4>10. q = [p0 EXCEPT !.auth = "ExplicitHeaders"]
        <5>1. B!AuthModes[<<"none">>[1]] = "ExplicitHeaders"
          BY DEF B!AuthModes
        <5> QED
          BY <4>8, <4>9, <5>1 DEF Makes, B!Setting
      <4>11. Carries(s, q, DOMAIN h) /\ q.auth = "ExplicitHeaders"
        <5> HIDE DEF q
        <5>1. IsParsed(q) /\ q.args = p0.args /\ q.headers = p0.headers /\ q.auth = "ExplicitHeaders"
          BY <2>5, <4>10 DEF Carries, IsParsed
        <5> QED
          BY <2>5, <5>1 DEF Carries
      <4>12. ReadOf(z, t)[i + 2] = [next |-> i + 2 + 1, parsed |-> q]
        <5>1. ReadOf(z, t)[i] = [next |-> i + 1, parsed |-> p0] /\ z \in ArgLists
          BY <2>5, <4>5 DEF i
        <5>2. ReadOf(z, t)[i + Size(z, i)] = [next |-> i + Size(z, i) + 1, parsed |-> q]
          BY ONLY <4>7, <5>1, GroupStep
        <5> HIDE DEF q
        <5> QED
          BY <4>8, <5>2
      <4> HIDE DEF q
      <4> QED
        BY <4>4, <4>11, <4>12 DEF IsReadAt, NoOauth, i
    <3> QED
      BY <3>1, <3>2
  <2>7. PICK q : IsReadAt(s, z, Len(xo), DOMAIN h, q) /\ NoOauth(s, q)
    BY <2>6
  <2>8. z \in ArgLists /\ IsReadAt(s, z, Len(z), DOMAIN h, q)
    <3> HIDE DEF xo, h
    <3> QED
      BY <1>1, <2>3, <2>4, <2>7, RestIsRead
  <2> QED
    BY <1>2, <2>7, <2>8 DEF z
<1> QED
  BY <1>3, <1>4

LEMMA LoweredOnce == \A n : B!HeaderName(B!HeaderName(n)) = B!HeaderName(n)
<1> SUFFICES ASSUME NEW n PROVE B!HeaderName(B!HeaderName(n)) = B!HeaderName(n)
  OBVIOUS
<1> DEFINE low(c) == IF c \in DOMAIN B!Lowered THEN B!Lowered[c] ELSE c
           x == B!HeaderName(n)
<1>1. \A c : low(low(c)) = low(c)
  BY DEF B!Lowered
<1>2. \A y : B!HeaderName(y) = [i \in DOMAIN y |-> low(y[i])]
  BY DEF B!HeaderName
<1> HIDE DEF low, x
<1>3. DOMAIN x = DOMAIN n /\ \A i \in DOMAIN n : x[i] = low(n[i])
  BY <1>2 DEF x
<1>4. B!HeaderName(x) = [i \in DOMAIN n |-> low(n[i])]
  BY <1>1, <1>2, <1>3
<1> QED
  BY <1>2, <1>4 DEF x

\* Every request has what the headers give, and the provider's in their place.
LEMMA RequestsCarry ==
    ASSUME NEW b, NEW r \in B!Requests(b)
    PROVE  /\ B!Names(b.set.headers) \subseteq DOMAIN r
           /\ b.provider = <<>> =>
                \A n \in B!Names(b.set.headers) : \E k \in B!Spelled(b.set.headers, n) : r[n] = b.set.headers[k]
           /\ b.provider # <<>> =>
                \A k \in DOMAIN b.provider[1] :
                  r[B!HeaderName(k)] \in {b.provider[1][j] : j \in B!Spelled(b.provider[1], B!HeaderName(k))}
<1> DEFINE h == b.set.headers
           d == b.provider[1]
<1>1. \A x \in B!BackendHttpHeaders(b) :
        DOMAIN x = B!Names(h) /\ \A n \in B!Names(h) : \E k \in B!Spelled(h, n) : x[n] = h[k]
  BY DEF B!BackendHttpHeaders
<1>2. CASE b.provider = <<>>
  <2>1. r \in B!BackendHttpHeaders(b)
    BY <1>2 DEF B!Requests
  <2> QED
    BY <1>1, <1>2, <2>1
<1>3. CASE b.provider # <<>>
  <2>0. B!Requests(b) = IF B!AreHeaders(d) THEN {B!MergedHeaders(x, d) : x \in B!BackendHttpHeaders(b)} ELSE {}
    BY <1>3 DEF B!Requests
  <2>1. PICK x \in B!BackendHttpHeaders(b) : r = B!MergedHeaders(x, d)
    <3> HIDE DEF d
    <3> QED
      BY <2>0
  <2>2. DOMAIN r = DOMAIN x \cup B!Names(d)
    BY <2>1 DEF B!MergedHeaders
  <2>3. ASSUME NEW k \in DOMAIN d
        PROVE  r[B!HeaderName(k)] \in {d[j] : j \in B!Spelled(d, B!HeaderName(k))}
    <3> DEFINE n == B!HeaderName(k)
               first == CHOOSE j \in B!Spelled(d, n) : TRUE
    <3>1. n \in B!Names(d) /\ k \in B!Spelled(d, n)
      BY DEF B!Names, B!Spelled
    <3>2. n \in DOMAIN d => r[n] = d[n]
      BY <2>1, <2>2, <3>1 DEF B!MergedHeaders
    <3>3. n \notin DOMAIN d => r[n] = d[first]
      BY <2>1, <2>2, <3>1 DEF B!MergedHeaders
    <3>4. first \in B!Spelled(d, n)
      BY <3>1
    <3>5. n \in DOMAIN d => n \in B!Spelled(d, n)
      BY LoweredOnce DEF B!Spelled
    <3> HIDE DEF n, first
    <3>6. r[n] \in {d[j] : j \in B!Spelled(d, n)}
      BY <3>2, <3>3, <3>4, <3>5
    <3> QED
      BY <3>6 DEF n
  <2> QED
    BY <1>1, <1>3, <2>2, <2>3
<1> QED
  BY <1>2, <1>3

\* Only a provider that answers what is no header stops the requests.
LEMMA RequestsGoOut ==
    ASSUME NEW b, B!Requests(b) = {}
    PROVE  b.provider # <<>> /\ ~B!AreHeaders(b.provider[1])
<1> DEFINE h == b.set.headers
           N == B!Names(h)
           first == [n \in N |-> h[CHOOSE k \in B!Spelled(h, n) : TRUE]]
<1>1. \A n \in N : \E k \in DOMAIN h : k \in B!Spelled(h, n)
  BY DEF B!Names, B!Spelled
<1>2. \A n \in N : \E k \in DOMAIN h : k \in B!Spelled(h, n) /\ first[n] = h[k]
  <2> SUFFICES ASSUME NEW n \in N PROVE \E k \in DOMAIN h : k \in B!Spelled(h, n) /\ first[n] = h[k]
    OBVIOUS
  <2> DEFINE c == CHOOSE k \in B!Spelled(h, n) : TRUE
  <2>1. c \in B!Spelled(h, n)
    BY <1>1
  <2>2. first[n] = h[c]
    OBVIOUS
  <2>3. c \in DOMAIN h
    BY <2>1 DEF B!Spelled
  <2> HIDE DEF c, first
  <2> QED
    BY <2>1, <2>2, <2>3
<1>3. first \in [N -> {h[k] : k \in DOMAIN h}]
  <2>1. first = [n \in N |-> first[n]]
    OBVIOUS
  <2> HIDE DEF first
  <2> QED
    BY <1>2, <2>1
<1> HIDE DEF first
<1>4. first \in B!BackendHttpHeaders(b)
  BY <1>2, <1>3 DEF B!BackendHttpHeaders
<1>5. CASE b.provider = <<>>
  BY <1>4, <1>5 DEF B!Requests
<1>6. CASE b.provider # <<>>
  <2> DEFINE d == b.provider[1]
  <2>1. B!Requests(b) = IF B!AreHeaders(d) THEN {B!MergedHeaders(x, d) : x \in B!BackendHttpHeaders(b)} ELSE {}
    BY <1>6 DEF B!Requests
  <2> HIDE DEF d
  <2>2. ~B!AreHeaders(d)
    BY <1>4, <2>1
  <2> QED
    BY <1>6, <2>2 DEF d
<1> QED
  BY <1>5, <1>6

\* The backend of a server of an SDK.
LEMMA SdkBackendIs ==
    ASSUME NEW s, IsServer(s), NEW b, b = B!SdkBackend(s), b.transport = B!Http
    PROVE  LET p == B!ParseBackendArgs(B!NormalizedArgs(s), B!Http)
           IN  /\ b.set.args = p.args /\ b.set.headers = p.headers /\ b.provider = s.provider
               /\ b.set.auth = IF s.provider = <<>> THEN p.auth ELSE "ExplicitHeaders"
<1> DEFINE z == B!NormalizedArgs(s)
           p == B!ParseBackendArgs(z, B!Http)
           target == s.url \o s.command
           n == [command |-> target[1], args |-> z]
           t == IF B!IsHttpUrl(target[1]) THEN B!Http ELSE B!Stdio
           set == B!ParseBackendArgs(z, t)
           new == B!NewBackend(n.command, n.args)
<1>1. target # <<>>
  BY DEF IsServer
<1>2. B!NormalizeSdkServer(s)[1] = n
  BY <1>1 DEF B!NormalizeSdkServer
<1>3. new = [command |-> target[1], transport |-> t, provider |-> <<>>, set |-> set]
  BY DEF B!NewBackend
<1>4. b = IF s.provider = <<>> THEN new ELSE [new EXCEPT !.provider = s.provider, !.set.auth = "ExplicitHeaders"]
  BY <1>2 DEF B!SdkBackend
<1>5. Carries(s, p, DOMAIN s.headers)
  BY ServerIsRead
<1> HIDE DEF z, p, target, n, new, t, set
<1>6. b.transport = t
  BY <1>3, <1>4
<1>7. t = B!Http /\ set = p
  BY <1>6 DEF p, set
<1>8. IsParsed(p)
  BY <1>5 DEF Carries
<1>9. CASE s.provider = <<>>
  BY <1>3, <1>4, <1>7, <1>9 DEF p, z
<1>10. CASE s.provider # <<>>
  <2>1. b.provider = s.provider /\ b.set = [p EXCEPT !.auth = "ExplicitHeaders"]
    BY <1>3, <1>4, <1>7, <1>10
  <2>2. b.set.args = p.args /\ b.set.headers = p.headers /\ b.set.auth = "ExplicitHeaders"
    BY <1>8, <2>1 DEF IsParsed
  <2> QED
    BY <1>10, <2>1, <2>2 DEF p, z
<1> QED
  BY <1>9, <1>10

LEMMA SdkHeadersGoOut ==
    ASSUME NEW s, IsServer(s)
    PROVE  B!SdkHeadersReach(s)
<1> DEFINE b == B!SdkBackend(s)
           h == s.headers
           p == B!ParseBackendArgs(B!NormalizedArgs(s), B!Http)
           given(n) == {B!InterpolateEnv(s.headers[k]) : k \in B!Spelled(s.headers, n)} \cup B!ArgValues(s.args, n)
           asks == {<<"--auth">>, <<"--auth", "=", "oauth">>} \cap B!ToSet(s.args) # {}
           carries(r) ==
             /\ \A n \in B!Names(s.headers) :
                  n \in DOMAIN r /\ (s.provider = <<>> => r[n] \in given(n))
             /\ s.provider # <<>> =>
                  \A k \in DOMAIN s.provider[1] :
                    r[B!HeaderName(k)] \in {s.provider[1][j] : j \in B!Spelled(s.provider[1], B!HeaderName(k))}
<1> SUFFICES ASSUME b.transport = B!Http
             PROVE  CASE B!Connection(b) = "oauth" -> s.provider = <<>> /\ (B!Names(s.headers) = {} \/ asks)
                      [] B!Connection(b) = "refused" -> b.set.args # <<>> \/ ~B!AreHeaders(b.set.headers)
                      [] B!Connection(b) = "headers" ->
                           /\ \A r \in B!Requests(b) : carries(r)
                           /\ B!Requests(b) = {} => s.provider # <<>> /\ ~B!AreHeaders(s.provider[1])
  BY Zenon DEF B!SdkHeadersReach
<1>1. Carries(s, p, DOMAIN h) /\ (DOMAIN h = {} \/ NoOauth(s, p))
  BY ServerIsRead
<1>2. /\ b.set.args = p.args /\ b.set.headers = p.headers /\ b.provider = s.provider
      /\ b.set.auth = IF s.provider = <<>> THEN p.auth ELSE "ExplicitHeaders"
  <2> HIDE DEF b
  <2> QED
    BY SdkBackendIs DEF b
<1>3. \A n : given(n) = Gives(s, n)
  BY DEF Gives
<1>4. asks <=> Asks(s)
  BY DEF Asks
<1> HIDE DEF b, p, given, asks
<1>5. CASE b.set.args # <<>>
  <2>1. B!Connection(b) = "refused"
    BY <1>5 DEF B!Connection
  <2> QED
    BY <1>5, <2>1
<1>6. CASE b.set.args = <<>> /\ B!ShouldUseOauth(b)
  <2>1. B!Connection(b) = "oauth"
    BY <1>6 DEF B!Connection
  <2>2. b.set.auth \in {"OAuth", "Auto"}
    BY <1>6 DEF B!ShouldUseOauth
  <2>3. s.provider = <<>> /\ p.auth # "ExplicitHeaders"
    BY <1>2, <2>2
  <2>4. B!Names(h) = {} \/ Asks(s)
    BY <1>1, <2>3 DEF NoOauth, B!Names
  <2> QED
    BY <1>4, <2>1, <2>3, <2>4
<1>7. CASE b.set.args = <<>> /\ ~B!ShouldUseOauth(b)
  <2>1. B!Connection(b) = IF B!AreHeaders(b.set.headers) THEN "headers" ELSE "refused"
    BY <1>7 DEF B!Connection
  <2>2. CASE ~B!AreHeaders(b.set.headers)
    BY <2>1, <2>2
  <2>3. CASE B!AreHeaders(b.set.headers)
    <3>1. B!Connection(b) = "headers"
      BY <2>1, <2>3
    <3>2. DOMAIN h \subseteq DOMAIN b.set.headers
      BY <1>1, <1>2, <1>7 DEF Carries
    <3>3. B!Names(h) \subseteq B!Names(b.set.headers)
      BY <3>2 DEF B!Names
    <3>4. \A k \in DOMAIN b.set.headers : b.set.headers[k] \in given(B!HeaderName(k))
      BY <1>1, <1>2, <1>3 DEF Carries
    <3>5. ASSUME NEW r \in B!Requests(b) PROVE carries(r)
      <4>1. ASSUME NEW n \in B!Names(h) PROVE n \in DOMAIN r /\ (s.provider = <<>> => r[n] \in given(n))
        <5>1. n \in B!Names(b.set.headers)
          BY <3>3
        <5>2. n \in DOMAIN r
          BY <5>1, RequestsCarry
        <5>3. ASSUME s.provider = <<>> PROVE r[n] \in given(n)
          <6>1. PICK k \in B!Spelled(b.set.headers, n) : r[n] = b.set.headers[k]
            BY <1>2, <5>1, <5>3, RequestsCarry
          <6>2. k \in DOMAIN b.set.headers /\ B!HeaderName(k) = n
            BY DEF B!Spelled
          <6> QED
            BY <3>4, <6>1, <6>2
        <5> QED
          BY <5>2, <5>3
      <4>2. s.provider # <<>> =>
              \A k \in DOMAIN s.provider[1] :
                r[B!HeaderName(k)] \in {s.provider[1][j] : j \in B!Spelled(s.provider[1], B!HeaderName(k))}
        BY <1>2, RequestsCarry
      <4> QED
        BY <4>1, <4>2
    <3>6. B!Requests(b) = {} => s.provider # <<>> /\ ~B!AreHeaders(s.provider[1])
      BY <1>2, RequestsGoOut
    <3> HIDE DEF carries
    <3> QED
      BY <3>1, <3>5, <3>6
  <2> QED
    BY <2>2, <2>3
<1> QED
  BY <1>5, <1>6, <1>7

\* A header that an SDK configures goes out with every request or the server is
\* refused, whatever its arguments, its spelling and its provider.
THEOREM HeadersGoOut == Spec => []HeadersReach
<1>1. Typed => HeadersReach
  <2> SUFFICES ASSUME Typed, kind = "sdk" PROVE B!SdkHeadersReach(input)
    BY DEF HeadersReach
  <2>1. IsServer(input)
    BY DEF Typed, IsInput
  <2> QED
    BY <2>1, SdkHeadersGoOut
<1> QED
  BY <1>1, TypeCorrect, PTL
=============================================================================
