----------------------------- MODULE DataProofs -----------------------------
(***************************************************************************)
(* What is proved about the data that pygira goes through piece by piece:  *)
(* the indented page of a device and the log of a gateway, line by line,   *)
(* and the JSON of a GDS response, layer by layer.  The theorems are by    *)
(* induction, on the number of lines and on the depth of the values.       *)
(***************************************************************************)
EXTENDS DeviceBlob, TksDiagnostics, GdsMatching, SequenceTheorems, WellFoundedInduction, TLAPS

-----------------------------------------------------------------------------
(* Induction *)

LEMMA SmallerIsWellFounded == IsWellFoundedOn({ss \in Nat \X Nat : ss[1] < ss[2]}, Nat)
  BY NatLessThanWellFounded DEF OpToRel

LEMMA SetInduction ==
  ASSUME NEW S, 0 \in S, \A n \in Nat : n \in S => n + 1 \in S
  PROVE  Nat \subseteq S
<1> DEFINE T == Nat \ S
           R == {ss \in Nat \X Nat : ss[1] < ss[2]}
<1> SUFFICES ASSUME T # {} PROVE FALSE
  OBVIOUS
<1>1. PICK x \in T : \A y \in T : ~(<<y, x>> \in R)
  <2>1. T \subseteq Nat
    OBVIOUS
  <2>2. IsWellFoundedOn(R, Nat)
    BY SmallerIsWellFounded
  <2> HIDE DEF T, R
  <2> QED BY <2>1, <2>2, WFMin
<1>2. x - 1 \in Nat /\ x # 0 /\ x - 1 \notin S
  <2>1. x \in Nat /\ x \notin S
    OBVIOUS
  <2> HIDE DEF T, R
  <2>2. x # 0
    BY <2>1
  <2>3. x - 1 \in Nat /\ (x - 1) + 1 = x
    BY <2>1, <2>2
  <2> QED BY <2>1, <2>2, <2>3
<1>3. <<x - 1, x>> \in R
  BY <1>2
<1> QED BY <1>1, <1>2, <1>3

LEMMA Maximum ==
    ASSUME NEW n \in Nat, NEW s \in SUBSET (1 .. n), s # {}
    PROVE  Max(s) \in s /\ \A y \in s : y <= Max(s)
<1> DEFINE S == {k \in Nat : \A t \in SUBSET (1 .. k) :
                                t # {} => \E x \in t : \A y \in t : x >= y}
<1>1. 0 \in S
  <2>1. 1 .. 0 = {} /\ \A t \in SUBSET (1 .. 0) : t = {}
    OBVIOUS
  <2> QED BY <2>1
<1>2. ASSUME NEW k \in Nat, k \in S
      PROVE  k + 1 \in S
  <2> SUFFICES ASSUME NEW t \in SUBSET (1 .. k + 1), t # {}
               PROVE  \E x \in t : \A y \in t : x >= y
    OBVIOUS
  <2>1. CASE k + 1 \in t
    BY <2>1
  <2>2. CASE k + 1 \notin t
    <3>1. t \in SUBSET (1 .. k)
      <4>1. \A x \in t : x \in 1 .. k
        BY <2>2
      <4> QED BY <4>1
    <3> QED BY <3>1, <1>2
  <2> QED BY <2>1, <2>2
<1>3. Nat \subseteq S
  <2> HIDE DEF S
  <2> QED BY <1>1, <1>2, SetInduction
<1>4. \E x \in s : \A y \in s : x >= y
  BY <1>3
<1>5. Max(s) \in s /\ \A y \in s : Max(s) >= y
  BY <1>4 DEF Max
<1>6. ASSUME NEW x \in s, NEW y \in s, x >= y
      PROVE  y <= x
  <2>1. x \in 1 .. n /\ y \in 1 .. n
    OBVIOUS
  <2> QED BY <1>6, <2>1
<1> QED BY <1>5, <1>6

-----------------------------------------------------------------------------
(* The two folds: what a reader knows after one more line is what it does with the line  *)
(* and what it knew before                                                               *)

Unread(kind) == IF kind = "page" THEN NothingParsed ELSE NoSignals
Step(kind, clock, state, line) ==
    IF kind = "page" THEN ParseLine(state, line) ELSE ReadLine(clock, state, line)
Result(kind, clock, lines) ==
    IF kind = "page" THEN Parse(lines) ELSE Signals(lines, clock)

\* g is the function that FoldLeft is defined by: it gives what is known of each set of
\* the lines in D.
Folding(kind, clock, g, lines, D) ==
    g = [s \in SUBSET D |-> IF s = {} THEN Unread(kind)
                            ELSE Step(kind, clock, g[s \ {Max(s)}], lines[Max(s)])]

LEMMA LastOfSegment ==
    ASSUME NEW n \in Nat, NEW s \in SUBSET (1 .. n + 1), n + 1 \in s
    PROVE  Max(s) = n + 1
<1>1. n + 1 \in s /\ \A y \in s : n + 1 >= y
  OBVIOUS
<1>2. Max(s) \in s /\ \A y \in s : Max(s) >= y
  BY <1>1 DEF Max
<1>3. \A x \in s : x \in Nat /\ x <= n + 1
  OBVIOUS
<1>4. ASSUME NEW x \in s, x >= n + 1
      PROVE  x = n + 1
  BY <1>3, <1>4
<1> QED BY <1>1, <1>2, <1>4

LEMMA FoldingStep ==
    ASSUME NEW kind, NEW clock, NEW g, NEW lines, NEW k \in Nat, NEW D, Folding(kind, clock, g, lines, D),
           1 .. k + 1 \in SUBSET D
    PROVE  g[1 .. k + 1] = Step(kind, clock, g[1 .. k], lines[k + 1])
<1> DEFINE s == 1 .. k + 1
<1>1. k + 1 \in s /\ s # {}
  OBVIOUS
<1>2. Max(s) = k + 1
  BY LastOfSegment
<1>3. s \ {k + 1} = 1 .. k
  <2>1. \A x : x \in s \ {k + 1} <=> x \in 1 .. k
    OBVIOUS
  <2> HIDE DEF s
  <2> QED BY <2>1
<1>4. s \in SUBSET D
  OBVIOUS
<1> HIDE DEF s
<1>5. g[s] = Step(kind, clock, g[s \ {Max(s)}], lines[Max(s)])
  BY <1>1, <1>4 DEF Folding
<1> QED BY <1>2, <1>3, <1>5 DEF s

LEMMA FoldingExists ==
    ASSUME NEW kind, NEW clock, NEW lines, NEW n \in Nat
    PROVE  \E g : Folding(kind, clock, g, lines, 1 .. n)
<1> DEFINE S == {k \in Nat : \E g : Folding(kind, clock, g, lines, 1 .. k)}
<1>1. 0 \in S
  <2> DEFINE g == [s \in SUBSET (1 .. 0) |-> Unread(kind)]
  <2>1. SUBSET (1 .. 0) = {{}}
    OBVIOUS
  <2>2. Folding(kind, clock, g, lines, 1 .. 0)
    BY <2>1 DEF Folding
  <2> QED BY <2>2
<1>2. ASSUME NEW k \in Nat, k \in S
      PROVE  k + 1 \in S
  <2>1. PICK g : Folding(kind, clock, g, lines, 1 .. k)
    BY <1>2
  <2> DEFINE h == [s \in SUBSET (1 .. k + 1) |->
                      IF k + 1 \in s THEN Step(kind, clock, g[s \ {k + 1}], lines[k + 1]) ELSE g[s]]
  <2>2. ASSUME NEW s \in SUBSET (1 .. k + 1)
        PROVE  h[s] = IF s = {} THEN Unread(kind)
                      ELSE Step(kind, clock, h[s \ {Max(s)}], lines[Max(s)])
    <3>1. CASE k + 1 \in s
      <4>1. Max(s) = k + 1
        BY <3>1, LastOfSegment
      <4>2. s \ {k + 1} \in SUBSET (1 .. k + 1) /\ k + 1 \notin s \ {k + 1} /\ s # {}
            /\ s \ {k + 1} \in SUBSET (1 .. k)
        BY <3>1
      <4>3. h[s \ {k + 1}] = g[s \ {k + 1}]
        BY <4>2
      <4>4. h[s] = Step(kind, clock, g[s \ {k + 1}], lines[k + 1])
        BY <3>1
      <4> HIDE DEF h
      <4> QED BY <4>1, <4>2, <4>3, <4>4
    <3>2. CASE k + 1 \notin s
      <4>1. /\ s \in SUBSET (1 .. k) /\ s \ {Max(s)} \in SUBSET (1 .. k)
            /\ s \ {Max(s)} \in SUBSET (1 .. k + 1) /\ k + 1 \notin s \ {Max(s)}
        <5>1. \A x \in s : x \in 1 .. k
          BY <3>2
        <5> QED BY <5>1, <3>2
      <4>2. h[s] = g[s] /\ h[s \ {Max(s)}] = g[s \ {Max(s)}]
        BY <3>2, <4>1
      <4>3. g[s] = IF s = {} THEN Unread(kind) ELSE Step(kind, clock, g[s \ {Max(s)}], lines[Max(s)])
        BY <2>1, <4>1 DEF Folding
      <4> HIDE DEF h
      <4> QED BY <4>2, <4>3
    <3> QED BY <3>1, <3>2
  <2>3. Folding(kind, clock, h, lines, 1 .. k + 1)
    <3>1. h = [s \in SUBSET (1 .. k + 1) |-> h[s]]
      OBVIOUS
    <3> HIDE DEF h
    <3> QED BY <2>2, <3>1 DEF Folding
  <2> QED BY <2>3
<1>3. Nat \subseteq S
  <2> HIDE DEF S
  <2> QED BY <1>1, <1>2, SetInduction
<1> QED BY <1>3

SameUpTo(a, b, n) == \A i \in 1 .. n : a[i] = b[i]

LEMMA FoldingsAgree ==
    ASSUME NEW kind, NEW clock, NEW a, NEW b, NEW g, NEW h, NEW m \in Nat, NEW n \in Nat,
           Folding(kind, clock, g, a, 1 .. m), Folding(kind, clock, h, b, 1 .. n),
           m <= n, SameUpTo(a, b, m)
    PROVE  g[1 .. m] = h[1 .. m]
<1> DEFINE S == {k \in Nat : k <= m => g[1 .. k] = h[1 .. k]}
<1>1. 0 \in S
  <2>1. 1 .. 0 = {} /\ {} \in SUBSET (1 .. m) /\ {} \in SUBSET (1 .. n)
    OBVIOUS
  <2>2. g[{}] = Unread(kind) /\ h[{}] = Unread(kind)
    BY <2>1 DEF Folding
  <2> QED BY <2>1, <2>2
<1>2. ASSUME NEW k \in Nat, k \in S
      PROVE  k + 1 \in S
  <2> SUFFICES ASSUME k + 1 <= m
               PROVE  g[1 .. k + 1] = h[1 .. k + 1]
    OBVIOUS
  <2>2. 1 .. k + 1 \in SUBSET (1 .. m) /\ 1 .. k + 1 \in SUBSET (1 .. n)
    <3>1. k + 1 <= n
      OBVIOUS
    <3> QED BY <3>1
  <2>3. g[1 .. k + 1] = Step(kind, clock, g[1 .. k], a[k + 1])
    <3> DEFINE D == 1 .. m
    <3>1. 1 .. k + 1 \in SUBSET D /\ Folding(kind, clock, g, a, D)
      BY <2>2
    <3> HIDE DEF D
    <3> QED BY ONLY k \in Nat, <3>1, FoldingStep
  <2>4. h[1 .. k + 1] = Step(kind, clock, h[1 .. k], b[k + 1])
    <3> DEFINE D == 1 .. n
    <3>1. 1 .. k + 1 \in SUBSET D /\ Folding(kind, clock, h, b, D)
      BY <2>2
    <3> HIDE DEF D
    <3> QED BY ONLY k \in Nat, <3>1, FoldingStep
  <2>5. a[k + 1] = b[k + 1] /\ g[1 .. k] = h[1 .. k]
    BY <1>2 DEF SameUpTo
  <2> QED BY <2>3, <2>4, <2>5
<1>3. Nat \subseteq S
  <2> HIDE DEF S
  <2> QED BY <1>1, <1>2, SetInduction
<1> QED BY <1>3

LEMMA PageIsAFolding ==
    ASSUME NEW lines, NEW clock, \E f : Folding("page", clock, f, lines, DOMAIN lines)
    PROVE  \E g : Folding("page", clock, g, lines, DOMAIN lines) /\ Parse(lines) = g[DOMAIN lines]
<1> DEFINE D == DOMAIN lines
           Folded(f) == f = [s \in SUBSET D |->
                               IF s = {} THEN NothingParsed
                               ELSE ParseLine(f[s \ {Max(s)}], lines[Max(s)])]
           g == CHOOSE f : Folded(f)
<1>1. Parse(lines) = g[D]
  BY DEF Parse, FoldLeft, MapThenFoldSet
<1>2. ASSUME NEW f
      PROVE  Folded(f) <=> Folding("page", clock, f, lines, D)
  BY DEF Folding, Step, Unread
<1> HIDE DEF Folded
<1>3. Folded(g)
  BY <1>2
<1> QED BY <1>1, <1>2, <1>3

LEMMA LogIsAFolding ==
    ASSUME NEW lines, NEW clock, \E f : Folding("log", clock, f, lines, DOMAIN lines)
    PROVE  \E g : Folding("log", clock, g, lines, DOMAIN lines)
                   /\ Signals(lines, clock) = g[DOMAIN lines]
<1> DEFINE D == DOMAIN lines
           Folded(f) == f = [s \in SUBSET D |->
                               IF s = {} THEN NoSignals
                               ELSE ReadLine(clock, f[s \ {Max(s)}], lines[Max(s)])]
           g == CHOOSE f : Folded(f)
<1>1. Signals(lines, clock) = g[D]
  BY DEF Signals, FoldLeft, MapThenFoldSet
<1>2. ASSUME NEW f
      PROVE  Folded(f) <=> Folding("log", clock, f, lines, D)
  BY DEF Folding, Step, Unread
<1> HIDE DEF Folded
<1>3. Folded(g)
  BY <1>2
<1> QED BY <1>1, <1>2, <1>3

Folds(kind, clock, lines) ==
    \E g : /\ Folding(kind, clock, g, lines, 1 .. Len(lines))
           /\ Result(kind, clock, lines) = g[1 .. Len(lines)]

LEMMA ResultIsAFolding ==
    ASSUME NEW kind \in {"page", "log"}, NEW clock, NEW L, NEW lines \in Seq(L)
    PROVE  Folds(kind, clock, lines)
<1>1. DOMAIN lines = 1 .. Len(lines) /\ Len(lines) \in Nat
  BY LenProperties
<1>2. \E f : Folding(kind, clock, f, lines, DOMAIN lines)
  BY <1>1, FoldingExists
<1>3. CASE kind = "page"
  BY <1>1, <1>2, <1>3, PageIsAFolding DEF Result, Folds
<1>4. CASE kind = "log"
  BY <1>1, <1>2, <1>4, LogIsAFolding DEF Result, Folds
<1> QED BY <1>3, <1>4

LEMMA ResultOfNothing ==
    ASSUME NEW kind \in {"page", "log"}, NEW clock
    PROVE  Result(kind, clock, <<>>) = Unread(kind)
<1>1. <<>> \in Seq({}) /\ Len(<<>>) = 0
  OBVIOUS
<1>2. PICK g : Folding(kind, clock, g, <<>>, 1 .. 0) /\ Result(kind, clock, <<>>) = g[1 .. 0]
  <2>1. Folds(kind, clock, <<>>)
    BY <1>1, ResultIsAFolding
  <2> QED BY <1>1, <2>1 DEF Folds
<1>3. 1 .. 0 = {}
  OBVIOUS
<1> QED BY <1>2, <1>3 DEF Folding

LEMMA ResultOfOneMore ==
    ASSUME NEW kind \in {"page", "log"}, NEW clock, NEW L, NEW lines \in Seq(L), NEW line \in L
    PROVE  Result(kind, clock, Append(lines, line)) = Step(kind, clock, Result(kind, clock, lines), line)
<1> DEFINE n == Len(lines)
           more == Append(lines, line)
<1>1. /\ n \in Nat /\ more \in Seq(L) /\ Len(more) = n + 1 /\ more[n + 1] = line
      /\ \A i \in 1 .. n : lines[i] = more[i]
  BY LenProperties, AppendProperties
<1>2. PICK g : Folding(kind, clock, g, lines, 1 .. n) /\ Result(kind, clock, lines) = g[1 .. n]
  BY ResultIsAFolding DEF Folds
<1> HIDE DEF n, more
<1>3. PICK h : Folding(kind, clock, h, more, 1 .. n + 1) /\ Result(kind, clock, more) = h[1 .. n + 1]
  BY <1>1, ResultIsAFolding DEF Folds
<1>4. g[1 .. n] = h[1 .. n]
  <2> DEFINE m == n + 1
  <2>1. n <= m /\ m \in Nat
    BY <1>1
  <2>2. Folding(kind, clock, h, more, 1 .. m)
    BY <1>3
  <2>3. n \in Nat /\ Folding(kind, clock, g, lines, 1 .. n) /\ SameUpTo(lines, more, n)
    BY <1>1, <1>2 DEF SameUpTo
  <2>4. ASSUME NEW i \in Nat, NEW j \in Nat, i <= j,
               Folding(kind, clock, g, lines, 1 .. i), Folding(kind, clock, h, more, 1 .. j),
               SameUpTo(lines, more, i)
        PROVE  g[1 .. i] = h[1 .. i]
    BY ONLY <2>4, FoldingsAgree
  <2> HIDE DEF m
  <2> QED BY ONLY <2>1, <2>2, <2>3, <2>4
<1>5. h[1 .. n + 1] = Step(kind, clock, h[1 .. n], more[n + 1])
  BY <1>1, <1>3, FoldingStep
<1> QED BY <1>1, <1>2, <1>3, <1>4, <1>5 DEF more

LEMMA ParseOfNothing == Parse(<<>>) = NothingParsed
  BY ResultOfNothing DEF Result, Unread

LEMMA ParseOfOneMore ==
    ASSUME NEW L, NEW lines \in Seq(L), NEW line \in L
    PROVE  Parse(Append(lines, line)) = ParseLine(Parse(lines), line)
<1>1. Result("page", 0, Append(lines, line)) = Step("page", 0, Result("page", 0, lines), line)
  BY ResultOfOneMore
<1> QED BY <1>1 DEF Result, Step

LEMMA SignalsOfNothing ==
    ASSUME NEW clock
    PROVE  Signals(<<>>, clock) = NoSignals
  BY ResultOfNothing DEF Result, Unread

LEMMA SignalsOfOneMore ==
    ASSUME NEW clock, NEW L, NEW lines \in Seq(L), NEW line \in L
    PROVE  Signals(Append(lines, line), clock) = ReadLine(clock, Signals(lines, clock), line)
<1>1. Result("log", clock, Append(lines, line)) = Step("log", clock, Result("log", clock, lines), line)
  BY ResultOfOneMore
<1> QED BY <1>1 DEF Result, Step

-----------------------------------------------------------------------------
(* The page: the stack holds the lines that can still get a section below them *)

\* A line's parent comes before it.
LEMMA ParentIsBefore ==
    ASSUME NEW lines, NEW i \in Nat \ {0}
    PROVE  Parent(lines, i) \in 0 .. i - 1
<1> DEFINE less == {j \in 1 .. i - 1 : lines[j].depth < lines[i].depth}
<1>1. CASE less = {}
  BY <1>1 DEF Parent
<1>2. CASE less # {}
  <2>1. less \in SUBSET (1 .. i - 1) /\ i - 1 \in Nat
    OBVIOUS
  <2>2. Parent(lines, i) = Max(less)
    BY <1>2 DEF Parent
  <2> HIDE DEF less
  <2>3. Max(less) \in less
    BY <1>2, <2>1, Maximum
  <2>4. Max(less) \in 1 .. i - 1
    BY <2>1, <2>3
  <2> QED BY <2>2, <2>4
<1> QED BY <1>1, <1>2

Pathing(p, lines, n) ==
    p = [i \in 0 .. n |-> IF i = 0 THEN <<>> ELSE Append(p[Parent(lines, i)], lines[i].key)]

LEMMA PathingExists ==
    ASSUME NEW lines, NEW n \in Nat
    PROVE  \E p : Pathing(p, lines, n)
<1> DEFINE S == {k \in Nat : \E p : Pathing(p, lines, k)}
<1>1. 0 \in S
  <2>1. Pathing([i \in 0 .. 0 |-> <<>>], lines, 0)
    BY DEF Pathing
  <2> QED BY <2>1
<1>2. ASSUME NEW k \in Nat, k \in S
      PROVE  k + 1 \in S
  <2>1. PICK p : Pathing(p, lines, k)
    BY <1>2
  <2> DEFINE Next(f, i) == IF i = 0 THEN <<>> ELSE Append(f[Parent(lines, i)], lines[i].key)
             q == [i \in 0 .. k + 1 |-> IF i = k + 1 THEN Next(p, i) ELSE p[i]]
  <2>2. ASSUME NEW i \in 0 .. k + 1
        PROVE  q[i] = Next(q, i)
    <3>1. CASE i = 0
      <4>1. q[0] = p[0] /\ p[0] = <<>>
        BY <2>1 DEF Pathing
      <4> HIDE DEF q
      <4> QED BY <3>1, <4>1
    <3>2. CASE i # 0
      <4>1. Parent(lines, i) \in 0 .. i - 1
        BY <3>2, ParentIsBefore
      <4>2. q[Parent(lines, i)] = p[Parent(lines, i)]
        <5> DEFINE j == Parent(lines, i)
        <5>1. j \in 0 .. k + 1 /\ j # k + 1
          BY <4>1
        <5> HIDE DEF j
        <5> QED BY <5>1 DEF j
      <4>3. q[i] = Next(p, i)
        <5>1. CASE i = k + 1
          BY <5>1
        <5>2. CASE i # k + 1
          <6>1. i \in 0 .. k /\ q[i] = p[i]
            BY <5>2
          <6> QED BY <6>1, <2>1 DEF Pathing
        <5> QED BY <5>1, <5>2
      <4> HIDE DEF q
      <4> QED BY <3>2, <4>2, <4>3
    <3> QED BY <3>1, <3>2
  <2>3. q = [i \in 0 .. k + 1 |-> q[i]]
    OBVIOUS
  <2> HIDE DEF q
  <2>4. Pathing(q, lines, k + 1)
    BY <2>2, <2>3 DEF Pathing
  <2> QED BY <2>4
<1>3. Nat \subseteq S
  <2> HIDE DEF S
  <2> QED BY <1>1, <1>2, SetInduction
<1> QED BY <1>3

LEMMA ParentsAgree ==
    ASSUME NEW a, NEW b, NEW m \in Nat, \A i \in 1 .. m : a[i] = b[i], NEW i \in 1 .. m
    PROVE  Parent(a, i) = Parent(b, i)
<1>1. {j \in 1 .. i - 1 : a[j].depth < a[i].depth} = {j \in 1 .. i - 1 : b[j].depth < b[i].depth}
  <2>1. ASSUME NEW j \in 1 .. i - 1
        PROVE  a[j] = b[j]
    OBVIOUS
  <2> QED BY <2>1
<1> QED BY <1>1 DEF Parent

LEMMA PathingsAgree ==
    ASSUME NEW a, NEW b, NEW p, NEW q, NEW m \in Nat, NEW n \in Nat,
           Pathing(p, a, m), Pathing(q, b, n), m <= n, \A i \in 1 .. m : a[i] = b[i]
    PROVE  \A i \in 0 .. m : p[i] = q[i]
<1> DEFINE S == {k \in Nat : \A i \in 0 .. k : i <= m => p[i] = q[i]}
<1>1. 0 \in S
  <2>1. p[0] = <<>> /\ q[0] = <<>>
    BY DEF Pathing
  <2>2. \A i \in 0 .. 0 : i = 0
    OBVIOUS
  <2> QED BY <2>1, <2>2
<1>2. ASSUME NEW k \in Nat, k \in S
      PROVE  k + 1 \in S
  <2>1. ASSUME k + 1 <= m
        PROVE  p[k + 1] = q[k + 1]
    <3>1. k + 1 \in 1 .. m /\ k + 1 \in 0 .. m /\ k + 1 \in 0 .. n /\ k + 1 # 0
      BY <2>1
    <3>2. Parent(a, k + 1) = Parent(b, k + 1)
      <4> DEFINE i == k + 1
      <4>1. i \in 1 .. m
        BY <3>1
      <4> HIDE DEF i
      <4>2. Parent(a, i) = Parent(b, i)
        BY <4>1, ParentsAgree
      <4> QED BY <4>2 DEF i
    <3>3. Parent(a, k + 1) \in 0 .. k
      <4>1. k + 1 \in Nat \ {0} /\ (k + 1) - 1 = k
        OBVIOUS
      <4> QED BY <4>1, ParentIsBefore
    <3>4. p[Parent(a, k + 1)] = q[Parent(a, k + 1)]
      BY <1>2, <2>1, <3>3
    <3>5. p[k + 1] = Append(p[Parent(a, k + 1)], a[k + 1].key)
      BY <3>1 DEF Pathing
    <3>6. q[k + 1] = Append(q[Parent(b, k + 1)], b[k + 1].key)
      BY <3>1 DEF Pathing
    <3>7. a[k + 1] = b[k + 1]
      BY <3>1
    <3> QED BY <3>2, <3>4, <3>5, <3>6, <3>7
  <2>2. ASSUME NEW i \in 0 .. k + 1, i <= m
        PROVE  p[i] = q[i]
    <3>1. CASE i = k + 1
      BY <3>1, <2>1, <2>2
    <3>2. CASE i # k + 1
      <4>1. i \in 0 .. k
        BY <3>2
      <4> QED BY <4>1, <1>2, <2>2
    <3> QED BY <3>1, <3>2
  <2> QED BY <2>2
<1>3. Nat \subseteq S
  <2> HIDE DEF S
  <2> QED BY <1>1, <1>2, SetInduction
<1>4. m \in S
  BY <1>3
<1> QED BY <1>4

LEMMA PathOfIsAPathing ==
    ASSUME NEW L, NEW lines \in Seq(L)
    PROVE  Pathing(PathOf(lines), lines, Len(lines))
<1>1. PathOf(lines) = CHOOSE p : Pathing(p, lines, Len(lines))
  BY DEF PathOf, Pathing
<1>2. Len(lines) \in Nat
  BY LenProperties
<1>3. \E p : Pathing(p, lines, Len(lines))
  BY <1>2, PathingExists
<1> QED BY <1>1, <1>3

Texts(Keys, Values) == Seq([depth : Nat, key : Keys, val : Values])

OneMore(lines, line, n, more) ==
    \E Keys, Values : /\ lines \in Texts(Keys, Values)
                      /\ line \in [depth : Nat, key : Keys, val : Values]
                      /\ n = Len(lines) /\ more = Append(lines, line)

PathsGrow(lines, line, n, more) ==
    /\ n \in Nat /\ Len(more) = n + 1
    /\ more[n + 1] = line /\ \A i \in 1 .. n : more[i] = lines[i]
    /\ \A i \in 0 .. n : PathOf(more)[i] = PathOf(lines)[i]
    /\ PathOf(more)[0] = <<>>
    /\ PathOf(more)[n + 1] = Append(PathOf(lines)[Parent(more, n + 1)], line.key)
    /\ Parent(more, n + 1) \in 0 .. n

LEMMA PathsOfOneMore ==
    ASSUME NEW lines, NEW line, NEW n, NEW more, OneMore(lines, line, n, more)
    PROVE  PathsGrow(lines, line, n, more)
<1>0. PICK Keys, Values : /\ lines \in Texts(Keys, Values)
                          /\ line \in [depth : Nat, key : Keys, val : Values]
                          /\ n = Len(lines) /\ more = Append(lines, line)
  BY DEF OneMore
<1>1. /\ n \in Nat /\ more \in Texts(Keys, Values) /\ Len(more) = n + 1 /\ more[n + 1] = line
      /\ \A i \in 1 .. n : more[i] = lines[i]
  BY <1>0, LenProperties, AppendProperties DEF Texts
<1> DEFINE p == PathOf(lines)
           q == PathOf(more)
<1>2. Pathing(p, lines, n)
  BY <1>0, PathOfIsAPathing DEF Texts
<1>3. Pathing(q, more, n + 1)
  BY <1>0, <1>1, PathOfIsAPathing DEF Texts
<1> HIDE DEF p, q
<1>4. \A i \in 0 .. n : p[i] = q[i]
  <2> DEFINE m == n + 1
  <2>1. n \in Nat /\ m \in Nat /\ n <= m /\ Pathing(p, lines, n) /\ Pathing(q, more, m)
        /\ \A i \in 1 .. n : lines[i] = more[i]
    BY <1>1, <1>2, <1>3
  <2> HIDE DEF m
  <2> QED BY ONLY <2>1, PathingsAgree
<1>5. Parent(more, n + 1) \in 0 .. n
  <2>1. n + 1 \in Nat \ {0} /\ (n + 1) - 1 = n
    BY <1>1
  <2> QED BY <2>1, ParentIsBefore
<1>6. 0 \in 0 .. n + 1 /\ n + 1 \in 0 .. n + 1 /\ n + 1 # 0
  BY <1>1
<1>7. q[0] = <<>> /\ q[n + 1] = Append(q[Parent(more, n + 1)], more[n + 1].key)
  BY <1>3, <1>6 DEF Pathing
<1>8. p[Parent(more, n + 1)] = q[Parent(more, n + 1)]
  BY <1>4, <1>5
<1> QED BY <1>1, <1>4, <1>5, <1>7, <1>8 DEF p, q, PathsGrow

\* What the stack holds of the lines so far: at[k] is the line of its k-th entry, 0 for the
\* bottom.  A line whose entry was popped is covered by a later one that is not deeper.
Stacked(stack, lines, path, at) ==
    LET n == Len(lines)
    IN /\ Len(stack) \in Nat \ {0} /\ stack = [k \in 1 .. Len(stack) |-> stack[k]]
       /\ at = [k \in 1 .. Len(stack) |-> at[k]]
       /\ at[1] = 0 /\ stack[1] = Root
       /\ \A k \in 2 .. Len(stack) : /\ at[k] \in 1 .. n
                                     /\ stack[k] = [depth |-> lines[at[k]].depth,
                                                    path |-> path[at[k]]]
       /\ \A j, k \in 1 .. Len(stack) : j < k => at[j] < at[k]
       /\ \A i \in 1 .. n : \E k \in 2 .. Len(stack) :
            at[k] >= i /\ lines[at[k]].depth <= lines[i].depth

Valued(lines, path, p) == {i \in DOMAIN lines : path[i] = p /\ lines[i].val # NoValue}
ValueOf(sections, lines, path, p) ==
    IF Valued(lines, path, p) = {} THEN sections[p] = NoValue
    ELSE \E i \in Valued(lines, path, p) :
            sections[p] = lines[i].val /\ \A j \in Valued(lines, path, p) : j <= i

Sectioned(sections, lines, path) ==
    /\ DOMAIN sections = {path[i] : i \in DOMAIN lines}
    /\ \A p \in DOMAIN sections : ValueOf(sections, lines, path, p)

Nested(lines) ==
    /\ \E at : Stacked(Parse(lines).stack, lines, PathOf(lines), at)
    /\ Sectioned(Parse(lines).sections, lines, PathOf(lines))

LEMMA NestedAgrees ==
    ASSUME NEW lines, Nested(lines)
    PROVE  BlobAgreesWithNesting(lines)
  BY DEF Nested, Sectioned, ValueOf, Valued, BlobAgreesWithNesting, ParseSections

LEMMA NothingIsNested == Nested(<<>>)
<1>1. Parse(<<>>) = NothingParsed
  BY ParseOfNothing
<1> DEFINE at == [k \in 1 .. 1 |-> 0]
<1>2. Stacked(<<Root>>, <<>>, PathOf(<<>>), at)
  <2>1. Len(<<Root>>) = 1 /\ <<Root>>[1] = Root /\ <<Root>> = [k \in 1 .. 1 |-> <<Root>>[k]]
    OBVIOUS
  <2>2. Len(<<>>) = 0
    OBVIOUS
  <2> QED BY <2>1, <2>2 DEF Stacked
<1>3. Sectioned([p \in {} |-> NoValue], <<>>, PathOf(<<>>))
  BY DEF Sectioned
<1> QED BY <1>1, <1>2, <1>3 DEF Nested, NothingParsed

StackGrows(stack, lines, line, n, more) ==
    LET path == PathOf(more)[n + 1]
    IN /\ Append(Last(PopTo(stack, line)).path, line.key) = path
       /\ \E now : Stacked(Append(PopTo(stack, line), [depth |-> line.depth, path |-> path]),
                          more, PathOf(more), now)

LEMMA StackOfOneMore ==
    ASSUME NEW lines, NEW line, NEW n, NEW more, OneMore(lines, line, n, more),
           NEW stack, NEW at, Stacked(stack, lines, PathOf(lines), at)
    PROVE  StackGrows(stack, lines, line, n, more)
<1> DEFINE p == PathOf(lines)
           q == PathOf(more)
           L == Len(stack)
           K == Max(Shallower(stack, line))
           popped == PopTo(stack, line)
<1>1. /\ n \in Nat /\ Len(more) = n + 1 /\ more[n + 1] = line
      /\ \A i \in 1 .. n : more[i] = lines[i]
      /\ \A i \in 0 .. n : q[i] = p[i]
      /\ q[0] = <<>> /\ q[n + 1] = Append(p[Parent(more, n + 1)], line.key)
  <2>1. PathsGrow(lines, line, n, more)
    BY PathsOfOneMore
  <2> QED BY <2>1 DEF PathsGrow
<1>0. PICK Keys, Values : /\ lines \in Texts(Keys, Values)
                          /\ line \in [depth : Nat, key : Keys, val : Values]
                          /\ n = Len(lines) /\ more = Append(lines, line)
  BY DEF OneMore
<1>2. line.depth \in Nat /\ \A i \in 1 .. n : lines[i].depth \in Nat
  <2>1. \A i \in 1 .. n : lines[i] \in [depth : Nat, key : Keys, val : Values]
    BY <1>0, ElementOfSeq DEF Texts
  <2> QED BY <1>0, <2>1
<1>3. /\ L \in Nat \ {0} /\ stack = [k \in 1 .. L |-> stack[k]]
      /\ at[1] = 0 /\ stack[1] = Root
      /\ \A k \in 2 .. L : /\ at[k] \in 1 .. n
                           /\ stack[k].depth = lines[at[k]].depth
                           /\ stack[k].path = p[at[k]]
                           /\ stack[k] = [depth |-> lines[at[k]].depth, path |-> p[at[k]]]
      /\ \A j, k \in 1 .. L : j < k => at[j] < at[k]
      /\ \A i \in 1 .. n : \E k \in 2 .. L : at[k] >= i /\ lines[at[k]].depth <= lines[i].depth
  <2> HIDE DEF p, L
  <2>1. /\ L \in Nat \ {0} /\ stack = [k \in 1 .. L |-> stack[k]]
        /\ at[1] = 0 /\ stack[1] = Root
        /\ \A j, k \in 1 .. L : j < k => at[j] < at[k]
        /\ \A i \in 1 .. n : \E k \in 2 .. L : at[k] >= i /\ lines[at[k]].depth <= lines[i].depth
    BY <1>0 DEF Stacked, L
  <2>2. \A k \in 2 .. L : /\ at[k] \in 1 .. n
                          /\ stack[k] = [depth |-> lines[at[k]].depth, path |-> p[at[k]]]
    BY <1>0 DEF Stacked, L, p
  <2>3. ASSUME NEW k \in 2 .. L
        PROVE  stack[k].depth = lines[at[k]].depth /\ stack[k].path = p[at[k]]
    <3>1. stack[k] = [depth |-> lines[at[k]].depth, path |-> p[at[k]]]
      BY <2>2
    <3> QED BY ONLY <3>1
  <2> QED BY <2>1, <2>2, <2>3
<1> HIDE DEF p, q, L
<1>4. /\ K \in 1 .. L /\ (K = 1 \/ stack[K].depth < line.depth)
      /\ \A k \in 1 .. L : k > K => k # 1 /\ ~(stack[k].depth < line.depth)
  <2> DEFINE s == Shallower(stack, line)
  <2>1. DOMAIN stack = 1 .. L
    BY <1>3
  <2>2. s \in SUBSET (1 .. L) /\ 1 \in s
    BY <1>3, <2>1 DEF Shallower
  <2> HIDE DEF s
  <2>3. Max(s) \in s /\ \A y \in s : y <= Max(s)
    BY <1>3, <2>2, Maximum
  <2>4. ASSUME NEW k \in 1 .. L, k > Max(s)
        PROVE  k \notin s
    <3>1. Max(s) \in 1 .. L
      BY <2>2, <2>3
    <3> QED BY <2>3, <2>4, <3>1
  <2> QED BY <2>1, <2>2, <2>3, <2>4 DEF s, Shallower
<1> HIDE DEF K
<1>5. /\ popped = SubSeq(stack, 1, K) /\ Len(popped) = K
      /\ \A k \in 1 .. K : popped[k] = stack[k]
      /\ popped \in Seq({stack[k] : k \in 1 .. L})
  <2>1. \A k \in 1 .. K : stack[k] \in {stack[j] : j \in 1 .. L}
    BY <1>3, <1>4
  <2>2. 1 \in Int /\ K \in Int /\ 1 <= K /\ K - 1 + 1 = K
    BY <1>3, <1>4
  <2>3. /\ SubSeq(stack, 1, K) \in Seq({stack[j] : j \in 1 .. L})
        /\ Len(SubSeq(stack, 1, K)) = IF 1 <= K THEN K - 1 + 1 ELSE 0
        /\ \A i \in 1 .. K - 1 + 1 : SubSeq(stack, 1, K)[i] = stack[1 + i - 1]
    BY ONLY <2>1, <2>2, SubSeqProperties
  <2>4. popped = SubSeq(stack, 1, K)
    BY DEF PopTo, K
  <2> HIDE DEF popped
  <2>5. \A i \in 1 .. K : i \in 1 .. K - 1 + 1 /\ 1 + i - 1 = i
    BY <2>2
  <2> QED BY <2>2, <2>3, <2>4, <2>5
<1> HIDE DEF popped
<1>6. Last(popped) = stack[K]
  <2>1. K \in 1 .. K
    BY <1>3, <1>4
  <2> QED BY <1>5, <2>1 DEF Last
<1>7. Parent(more, n + 1) = at[K]
  <2> DEFINE less == {j \in 1 .. (n + 1) - 1 : more[j].depth < more[n + 1].depth}
  <2>1. less = {j \in 1 .. n : lines[j].depth < line.depth}
    <3>1. (n + 1) - 1 = n
      BY <1>1
    <3>2. \A j \in 1 .. n : more[j].depth = lines[j].depth
      BY <1>1
    <3> QED BY <1>1, <3>1, <3>2
  <2>2. Parent(more, n + 1) = IF less = {} THEN 0 ELSE Max(less)
    BY DEF Parent
  <2> HIDE DEF less
  <2>3. ASSUME NEW j \in less
        PROVE  K # 1 /\ j <= at[K]
    <3>1. j \in 1 .. n /\ lines[j].depth < line.depth
      BY <2>1
    <3>2. PICK k \in 2 .. L : at[k] >= j /\ lines[at[k]].depth <= lines[j].depth
      BY <1>3, <3>1
    <3>3. at[k] \in 1 .. n /\ stack[k].depth = lines[at[k]].depth
      BY <1>3
    <3>4. stack[k].depth < line.depth
      BY <1>2, <3>1, <3>2, <3>3
    <3>5. k <= K /\ K # 1 /\ k \in 1 .. L /\ K \in 2 .. L
      BY <1>3, <1>4, <3>4
    <3>6. at[k] <= at[K]
      <4>1. CASE k = K
        BY <4>1, <3>3
      <4>2. CASE k # K
        <5>1. k < K
          BY <4>2, <3>5
        <5>2. at[K] \in 1 .. n
          BY <3>5, <1>3
        <5> QED BY <1>1, <1>3, <1>4, <3>3, <3>5, <5>1, <5>2
      <4> QED BY <4>1, <4>2
    <3>7. at[K] \in 1 .. n
      BY <1>3, <3>5
    <3> QED BY <1>1, <3>1, <3>2, <3>3, <3>5, <3>6, <3>7
  <2>4. CASE K = 1
    BY <2>2, <2>3, <2>4, <1>3
  <2>5. CASE K # 1
    <3>1. K \in 2 .. L
      BY <1>3, <1>4, <2>5
    <3>2. at[K] \in less
      BY <1>3, <1>4, <2>1, <2>5, <3>1
    <3>3. less \in SUBSET (1 .. n) /\ less # {}
      BY <2>1, <3>2
    <3>4. Max(less) \in less /\ \A y \in less : y <= Max(less)
      BY <1>1, <3>3, Maximum
    <3>5. Max(less) <= at[K] /\ at[K] <= Max(less) /\ Max(less) \in 1 .. n /\ at[K] \in 1 .. n
      BY <2>3, <3>2, <3>3, <3>4
    <3>6. Max(less) = at[K]
      BY <1>1, <3>5
    <3> QED BY <2>2, <3>3, <3>6
  <2> QED BY <2>4, <2>5
<1>8. stack[K].path = p[at[K]]
  <2>1. CASE K = 1
    <3>1. 0 \in 0 .. n
      BY <1>1
    <3> QED BY <2>1, <3>1, <1>1, <1>3 DEF Root
  <2>2. CASE K # 1
    <3>1. K \in 2 .. L
      BY <1>3, <1>4, <2>2
    <3> QED BY <3>1, <1>3
  <2> QED BY <2>1, <2>2
<1>9. Append(Last(popped).path, line.key) = q[n + 1]
  BY <1>1, <1>6, <1>7, <1>8
<1> DEFINE entry == [depth |-> line.depth, path |-> q[n + 1]]
           then == Append(popped, entry)
           now == [k \in 1 .. K + 1 |-> IF k = K + 1 THEN n + 1 ELSE at[k]]
<1>10. /\ Len(then) = K + 1 /\ then[K + 1] = entry
       /\ \A k \in 1 .. K : then[k] = stack[k]
       /\ then = [k \in 1 .. K + 1 |-> then[k]]
  <2> DEFINE E == {stack[k] : k \in 1 .. L} \cup {entry}
  <2>1. popped \in Seq(E)
    <3>1. {stack[k] : k \in 1 .. L} \subseteq E
      OBVIOUS
    <3> HIDE DEF E
    <3> QED BY <1>5, <3>1, SeqMonotonic
  <2>2. entry \in E
    OBVIOUS
  <2> HIDE DEF E, entry
  <2>3. /\ then \in Seq(E) /\ Len(then) = Len(popped) + 1
        /\ \A i \in 1 .. Len(popped) : then[i] = popped[i]
        /\ then[Len(popped) + 1] = entry
    BY <2>1, <2>2, AppendProperties
  <2> HIDE DEF then
  <2>4. then \in [1 .. Len(then) -> E]
    BY <2>3, LenProperties
  <2> QED BY <1>5, <2>3, <2>4
<1>11. /\ \A k \in 1 .. K : now[k] = at[k]
       /\ now[K + 1] = n + 1 /\ K + 1 \in Nat \ {0}
       /\ now = [k \in 1 .. K + 1 |-> now[k]]
  <2>1. K \in Nat /\ \A k \in 1 .. K : k \in 1 .. K + 1 /\ k # K + 1
    BY <1>3, <1>4
  <2> QED BY <2>1
<1> HIDE DEF then, now
<1>12. now[1] = 0 /\ then[1] = Root
  <2>1. 1 \in 1 .. K
    BY <1>4
  <2> QED BY <2>1, <1>3, <1>10, <1>11
<1>13. ASSUME NEW k \in 2 .. K + 1
       PROVE  /\ now[k] \in 1 .. n + 1
              /\ then[k] = [depth |-> more[now[k]].depth, path |-> q[now[k]]]
  <2>1. CASE k = K + 1
    <3>1. n + 1 \in 1 .. n + 1
      BY <1>1
    <3> QED BY <2>1, <3>1, <1>1, <1>10, <1>11
  <2>2. CASE k # K + 1
    <3>1. k \in 1 .. K /\ k \in 2 .. L
      BY <1>3, <1>4, <2>2
    <3>2. now[k] = at[k] /\ then[k] = stack[k] /\ at[k] \in 1 .. n
          /\ stack[k] = [depth |-> lines[at[k]].depth, path |-> p[at[k]]]
      BY <3>1, <1>3, <1>10, <1>11
    <3>3. at[k] \in 0 .. n /\ at[k] \in 1 .. n + 1
      BY <3>2, <1>1
    <3>4. more[at[k]] = lines[at[k]] /\ q[at[k]] = p[at[k]]
      BY <3>2, <3>3, <1>1
    <3> QED BY <3>2, <3>3, <3>4
  <2> QED BY <2>1, <2>2
<1>14. ASSUME NEW j \in 1 .. K + 1, NEW k \in 1 .. K + 1, j < k
       PROVE  now[j] < now[k]
  <2>1. j \in 1 .. K /\ j \in 1 .. L
    BY <1>3, <1>4, <1>14
  <2>2. CASE k = K + 1
    <3>1. now[j] = at[j] /\ now[k] = n + 1
      BY <1>11, <2>1, <2>2
    <3>2. at[j] \in 0 .. n
      <4>1. CASE j = 1
        BY <4>1, <1>1, <1>3
      <4>2. CASE j # 1
        <5>1. j \in 2 .. L
          BY <4>2, <2>1
        <5>2. at[j] \in 1 .. n
          BY <5>1, <1>3
        <5> QED BY <5>2, <1>1
      <4> QED BY <4>1, <4>2
    <3> QED BY <1>1, <3>1, <3>2
  <2>3. CASE k # K + 1
    <3>1. k \in 1 .. K /\ k \in 1 .. L
      BY <1>3, <1>4, <2>3
    <3> QED BY <1>3, <1>11, <1>14, <2>1, <3>1
  <2> QED BY <2>2, <2>3
<1>15. ASSUME NEW i \in 1 .. n + 1
       PROVE  \E k \in 2 .. K + 1 : now[k] >= i /\ more[now[k]].depth <= more[i].depth
  <2>1. K + 1 \in 2 .. K + 1
    BY <1>3, <1>4
  <2>2. CASE i = n + 1
    <3>1. now[K + 1] >= i /\ more[now[K + 1]].depth <= more[i].depth
      BY <2>2, <1>1, <1>2, <1>11
    <3> QED BY <2>1, <3>1
  <2>3. CASE i # n + 1
    <3>1. i \in 1 .. n
      BY <2>3, <1>1
    <3>2. PICK k \in 2 .. L : at[k] >= i /\ lines[at[k]].depth <= lines[i].depth
      BY <1>3, <3>1
    <3>3. /\ at[k] \in 1 .. n /\ stack[k].depth = lines[at[k]].depth
          /\ more[at[k]] = lines[at[k]] /\ more[i] = lines[i]
      BY <1>1, <1>3, <3>1
    <3>4. CASE k <= K
      <4>1. k \in 1 .. K /\ k \in 2 .. K + 1
        BY <1>3, <1>4, <3>4
      <4>2. now[k] = at[k]
        BY <1>11, <4>1
      <4> QED BY <3>2, <3>3, <4>1, <4>2
    <3>5. CASE ~(k <= K)
      <4>1. k \in 1 .. L /\ k > K
        BY <1>3, <1>4, <3>5
      <4>2. ~(stack[k].depth < line.depth)
        BY <1>4, <4>1
      <4>3. line.depth <= lines[i].depth
        BY <1>2, <3>1, <3>2, <3>3, <4>2
      <4>4. now[K + 1] >= i /\ more[now[K + 1]].depth <= more[i].depth
        BY <1>1, <1>11, <3>1, <3>3, <4>3
      <4> QED BY <2>1, <4>4
    <3> QED BY <3>4, <3>5
  <2> QED BY <2>2, <2>3
<1>16. Stacked(then, more, q, now)
  <2>1. K + 1 = Len(then) /\ n + 1 = Len(more)
    BY <1>1, <1>10
  <2> QED BY <2>1, <1>10, <1>11, <1>12, <1>13, <1>14, <1>15 DEF Stacked
<1> QED BY <1>9, <1>16 DEF popped, q, then, StackGrows

SectionsWith(sections, path, line) ==
    [p \in DOMAIN sections \cup {path} |->
       IF p # path THEN sections[p]
       ELSE IF line.val # NoValue THEN line.val
       ELSE IF path \in DOMAIN sections THEN sections[path] ELSE NoValue]

LEMMA SectionsOfOneMore ==
    ASSUME NEW lines, NEW line, NEW n, NEW more, OneMore(lines, line, n, more),
           NEW sections, Sectioned(sections, lines, PathOf(lines))
    PROVE  Sectioned(SectionsWith(sections, PathOf(more)[n + 1], line), more, PathOf(more))
<1> DEFINE q == PathOf(more)
           r == PathOf(lines)
           path == PathOf(more)[n + 1]
           then == SectionsWith(sections, path, line)
<1>0. PICK Keys, Values : /\ lines \in Texts(Keys, Values)
                          /\ line \in [depth : Nat, key : Keys, val : Values]
                          /\ n = Len(lines) /\ more = Append(lines, line)
  BY DEF OneMore
<1>1. /\ n \in Nat /\ Len(more) = n + 1 /\ more[n + 1] = line
      /\ \A i \in 1 .. n : more[i] = lines[i]
      /\ \A i \in 0 .. n : q[i] = r[i]
  <2>1. PathsGrow(lines, line, n, more)
    BY PathsOfOneMore
  <2> QED BY <2>1 DEF PathsGrow
<1>2. DOMAIN lines = 1 .. n /\ DOMAIN more = 1 .. n + 1
  <2>1. more \in Texts(Keys, Values)
    BY <1>0, AppendProperties DEF Texts
  <2> QED BY <1>0, <1>1, <2>1, LenProperties DEF Texts
<1>3. DOMAIN sections = {r[i] : i \in 1 .. n} /\ \A p \in DOMAIN sections : ValueOf(sections, lines, r, p)
  BY <1>2 DEF Sectioned
<1>4. path = q[n + 1]
  OBVIOUS
<1>10. then = [p \in DOMAIN sections \cup {path} |->
                 IF p # path THEN sections[p]
                 ELSE IF line.val # NoValue THEN line.val
                 ELSE IF path \in DOMAIN sections THEN sections[path] ELSE NoValue]
  BY DEF SectionsWith
<1> HIDE DEF q, r, path, then
<1>5. \A i \in 1 .. n : i \in 1 .. n + 1 /\ i # n + 1 /\ i \in 0 .. n /\ q[i] = r[i] /\ more[i] = lines[i]
  BY <1>1
<1>6. \A i \in 1 .. n + 1 : i = n + 1 \/ i \in 1 .. n
  BY <1>1
<1>7. n + 1 \in 1 .. n + 1
  BY <1>1
<1>8. DOMAIN then = {q[i] : i \in 1 .. n + 1}
  <2>1. {q[i] : i \in 1 .. n + 1} = {r[i] : i \in 1 .. n} \cup {path}
    BY <1>4, <1>5, <1>6, <1>7
  <2> QED BY <1>3, <1>10, <2>1
<1>9. ASSUME NEW p \in DOMAIN then
      PROVE  ValueOf(then, more, q, p)
  <2> DEFINE before == Valued(lines, r, p)
             now == Valued(more, q, p)
  <2>1. \A i : i \in before <=> i \in 1 .. n /\ i \in now
    BY <1>2, <1>5 DEF Valued
  <2>2. \A i \in now : i = n + 1 \/ i \in before
    <3>1. \A i \in now : i \in 1 .. n + 1
      BY <1>2 DEF Valued
    <3> QED BY <1>6, <2>1, <3>1
  <2>3. n + 1 \in now <=> p = path /\ line.val # NoValue
    BY <1>1, <1>2, <1>4, <1>7 DEF Valued
  <2>4. before = {} \/ p \in DOMAIN sections
    BY <1>2, <1>3 DEF Valued
  <2>5. p \in DOMAIN sections => ValueOf(sections, lines, r, p)
    BY <1>3
  <2> HIDE DEF before, now
  <2>6. CASE p = path /\ line.val # NoValue
    <3>1. then[p] = more[n + 1].val /\ n + 1 \in now
      BY <1>1, <1>10, <2>3, <2>6
    <3>2. \A j \in now : j <= n + 1
      BY <1>1, <2>1, <2>2
    <3> QED BY <3>1, <3>2 DEF ValueOf, now
  <2>7. CASE ~(p = path /\ line.val # NoValue)
    <3>1. now = before
      BY <2>1, <2>2, <2>3, <2>7
    <3>2. CASE p \in DOMAIN sections
      <4>1. then[p] = sections[p]
        BY <1>10, <2>7, <3>2
      <4>2. \A i \in before : more[i].val = lines[i].val
        BY <1>5, <2>1
      <4>3. ValueOf(sections, lines, r, p)
        BY <2>5, <3>2
      <4> QED BY <3>1, <4>1, <4>2, <4>3 DEF ValueOf, before, now
    <3>3. CASE p \notin DOMAIN sections
      <4>1. p = path /\ then[p] = NoValue
        BY <1>10, <2>7, <3>3
      <4> QED BY <2>4, <3>1, <3>3, <4>1 DEF ValueOf, now
    <3> QED BY <3>2, <3>3
  <2> QED BY <2>6, <2>7
<1> QED BY <1>2, <1>8, <1>9 DEF Sectioned, q, path, then

LEMMA NestedWithOneMore ==
    ASSUME NEW Keys, NEW Values, NEW lines \in Texts(Keys, Values),
           NEW line \in [depth : Nat, key : Keys, val : Values], Nested(lines)
    PROVE  Nested(Append(lines, line))
<1> DEFINE n == Len(lines)
           more == Append(lines, line)
           stack == Parse(lines).stack
           sections == Parse(lines).sections
           path == PathOf(more)[n + 1]
<1>1. Parse(more) = ParseLine(Parse(lines), line)
  BY ParseOfOneMore DEF Texts
<1>2. OneMore(lines, line, n, more)
  BY DEF OneMore
<1>3. StackGrows(stack, lines, line, n, more)
  <2>1. PICK at : Stacked(stack, lines, PathOf(lines), at)
    BY DEF Nested
  <2> HIDE DEF n, more, stack
  <2> QED BY <1>2, <2>1, StackOfOneMore
<1>4. Sectioned(SectionsWith(sections, path, line), more, PathOf(more))
  <2>1. Sectioned(sections, lines, PathOf(lines))
    BY DEF Nested
  <2> HIDE DEF n, more, sections
  <2> QED BY <1>2, <2>1, SectionsOfOneMore
<1>5. /\ Append(Last(PopTo(stack, line)).path, line.key) = path
      /\ \E now : Stacked(Append(PopTo(stack, line), [depth |-> line.depth, path |-> path]),
                         more, PathOf(more), now)
  BY <1>3 DEF StackGrows
<1>6. Parse(more) = [stack |-> Append(PopTo(stack, line), [depth |-> line.depth, path |-> path]),
                     sections |-> SectionsWith(sections, path, line)]
  BY <1>1, <1>5 DEF ParseLine, SectionsWith
<1> HIDE DEF more, path, stack, sections
<1> QED BY <1>4, <1>5, <1>6 DEF Nested, more

\* The parser of the diagnostic page finds the nesting its indentation spells, whatever
\* the text is.
THEOREM SectionsAreNested ==
    ASSUME NEW Keys, NEW Values, NEW lines \in Texts(Keys, Values)
    PROVE  BlobAgreesWithNesting(lines)
<1> DEFINE Line == [depth : Nat, key : Keys, val : Values]
           S == {n \in Nat : \A text \in Seq(Line) : Len(text) = n => Nested(text)}
<1>1. 0 \in S
  <2>1. \A text \in Seq(Line) : Len(text) = 0 => text = <<>>
    BY EmptySeq
  <2> QED BY <2>1, NothingIsNested
<1>2. ASSUME NEW n \in Nat, n \in S
      PROVE  n + 1 \in S
  <2> SUFFICES ASSUME NEW text \in Seq(Line), Len(text) = n + 1
               PROVE  Nested(text)
    <3> HIDE DEF Line
    <3> QED OBVIOUS
  <2> HIDE DEF Line
  <2>1. text # <<>>
    <3>1. Len(<<>>) = 0
      OBVIOUS
    <3> QED BY <3>1
  <2>2. PICK front \in Seq(Line), line \in Line : text = Append(front, line)
    BY <2>1, SequenceEmptyOrAppend
  <2>3. Len(front) \in Nat /\ Len(text) = Len(front) + 1
    BY <2>2, AppendProperties, LenProperties
  <2>4. Nested(front)
    BY <1>2, <2>3
  <2> QED BY <2>2, <2>4, NestedWithOneMore DEF Line, Texts
<1>3. Nat \subseteq S
  <2> HIDE DEF S
  <2> QED BY <1>1, <1>2, SetInduction
<1>4. Len(lines) \in Nat /\ lines \in Seq(Line)
  BY LenProperties DEF Texts
<1>5. Nested(lines)
  BY <1>3, <1>4
<1> QED BY <1>5, NestedAgrees

-----------------------------------------------------------------------------
(* The log: the latest line of each kind is remembered, and every failure *)

Logs == Seq([at : Nat, says : HealthSigns \cup Labels])

LinesThatSay(log, K) == {i \in DOMAIN log : log[i].says \in K}
Time(log, clock, i) == SyslogTime(Shown(log[i].at), clock)

LastTime(value, log, clock, K) ==
    IF LinesThatSay(log, K) = {} THEN value = Never
    ELSE \E i \in LinesThatSay(log, K) :
            value = Time(log, clock, i) /\ \A j \in LinesThatSay(log, K) : j <= i

LastSaid(value, log, K) ==
    IF LinesThatSay(log, K) = {} THEN value = "unknown"
    ELSE \E i \in LinesThatSay(log, K) : value = log[i].says /\ \A j \in LinesThatSay(log, K) : j <= i

SipSigns == {"sip_memory", "sip_alive", "sip_dead"}
Keepalives == {"sip_alive", "sip_dead"}

FailuresIn(log, clock) == {<<Time(log, clock, i), log[i].says>> : i \in LinesThatSay(log, Labels)}

Recorded(s, log, clock) ==
    /\ s = [resources |-> s.resources, sip |-> s.sip, bus |-> s.bus,
            responsive |-> s.responsive, failures |-> s.failures]
    /\ LastTime(s.resources, log, clock, {"resources"})
    /\ LastTime(s.sip, log, clock, SipSigns)
    /\ LastTime(s.bus, log, clock, {"bus"})
    /\ LastSaid(s.responsive, log, Keepalives)
    /\ s.failures = FailuresIn(log, clock)

LogGrows(log, line, n, more) ==
    /\ n \in Nat /\ DOMAIN log = 1 .. n /\ DOMAIN more = 1 .. n + 1
    /\ more[n + 1] = line /\ \A i \in 1 .. n : more[i] = log[i]

LEMMA LogOfOneMore ==
    ASSUME NEW log \in Logs, NEW line \in [at : Nat, says : HealthSigns \cup Labels]
    PROVE  LogGrows(log, line, Len(log), Append(log, line))
<1> DEFINE more == Append(log, line)
<1>1. /\ more \in Logs /\ Len(more) = Len(log) + 1 /\ more[Len(log) + 1] = line
      /\ \A i \in 1 .. Len(log) : more[i] = log[i]
  BY AppendProperties DEF Logs
<1>2. Len(log) \in Nat /\ DOMAIN log = 1 .. Len(log) /\ DOMAIN more = 1 .. Len(more)
  BY <1>1, LenProperties DEF Logs
<1> QED BY <1>1, <1>2 DEF LogGrows

LEMMA KindsOfOneMore ==
    ASSUME NEW log, NEW line, NEW n, NEW more, LogGrows(log, line, n, more), NEW K
    PROVE  /\ LinesThatSay(more, K) = LinesThatSay(log, K) \cup IF line.says \in K THEN {n + 1} ELSE {}
           /\ \A i \in LinesThatSay(log, K) : i \in Nat /\ i <= n /\ more[i] = log[i]
<1>1. /\ n \in Nat /\ DOMAIN log = 1 .. n /\ DOMAIN more = 1 .. n + 1
      /\ more[n + 1] = line /\ \A i \in 1 .. n : more[i] = log[i]
  BY DEF LogGrows
<1>2. \A i : i \in 1 .. n + 1 <=> i \in 1 .. n \/ i = n + 1
  BY <1>1
<1>3. \A i \in 1 .. n : i \in Nat /\ i <= n
  BY <1>1
<1> QED BY <1>1, <1>2, <1>3 DEF LinesThatSay

LEMMA LastStays ==
    ASSUME NEW log, NEW line, NEW n, NEW more, LogGrows(log, line, n, more), NEW K,
           NEW clock, NEW value, line.says \notin K
    PROVE  /\ LastTime(value, log, clock, K) => LastTime(value, more, clock, K)
           /\ LastSaid(value, log, K) => LastSaid(value, more, K)
<1>1. /\ LinesThatSay(more, K) = LinesThatSay(log, K) \cup IF line.says \in K THEN {n + 1} ELSE {}
      /\ \A i \in LinesThatSay(log, K) : i \in Nat /\ i <= n /\ more[i] = log[i]
  BY KindsOfOneMore
<1>2. LinesThatSay(more, K) = LinesThatSay(log, K) /\ \A i \in LinesThatSay(log, K) : more[i] = log[i]
  BY <1>1
<1> QED BY <1>2 DEF LastTime, LastSaid, Time

LEMMA LastIsNew ==
    ASSUME NEW log, NEW line, NEW n, NEW more, LogGrows(log, line, n, more), NEW K,
           NEW clock, line.says \in K
    PROVE  /\ LastTime(SyslogTime(Shown(line.at), clock), more, clock, K)
           /\ LastSaid(line.says, more, K)
<1>1. /\ LinesThatSay(more, K) = LinesThatSay(log, K) \cup IF line.says \in K THEN {n + 1} ELSE {}
      /\ \A i \in LinesThatSay(log, K) : i \in Nat /\ i <= n /\ more[i] = log[i]
  BY KindsOfOneMore
<1>2. n \in Nat /\ more[n + 1] = line
  BY DEF LogGrows
<1>3. n + 1 \in LinesThatSay(more, K) /\ \A j \in LinesThatSay(more, K) : j <= n + 1
  BY <1>1, <1>2
<1> QED BY <1>2, <1>3 DEF LastTime, LastSaid, Time

LEMMA NothingIsRecorded ==
    ASSUME NEW clock
    PROVE  Recorded(NoSignals, <<>>, clock)
<1>1. \A K : LinesThatSay(<<>>, K) = {}
  BY DEF LinesThatSay
<1> QED BY <1>1 DEF Recorded, NoSignals, FailuresIn, LastTime, LastSaid

LEMMA ReportOfOneMore ==
    ASSUME NEW log \in Logs, NEW line \in [at : Nat, says : HealthSigns \cup Labels],
           NEW clock, NEW s, Recorded(s, log, clock)
    PROVE  Recorded(ReadLine(clock, s, line), Append(log, line), clock)
<1> DEFINE n == Len(log)
           more == Append(log, line)
           time == SyslogTime(Shown(line.at), clock)
           now == ReadLine(clock, s, line)
<1>1. LogGrows(log, line, n, more)
  BY LogOfOneMore
<1>2. now = ReadSignal(s, line.says, time)
  BY DEF ReadLine
<1>3. /\ s = [resources |-> s.resources, sip |-> s.sip, bus |-> s.bus,
              responsive |-> s.responsive, failures |-> s.failures]
      /\ LastTime(s.resources, log, clock, {"resources"})
      /\ LastTime(s.sip, log, clock, SipSigns)
      /\ LastTime(s.bus, log, clock, {"bus"})
      /\ LastSaid(s.responsive, log, Keepalives)
      /\ s.failures = FailuresIn(log, clock)
  BY DEF Recorded
<1>4. line.says \in HealthSigns \cup Labels /\ Labels \cap HealthSigns = {}
  BY FailuresAreNoOtherSignals
<1> HIDE DEF n, more, time, now
<1>5. ASSUME line.says \notin Labels
      PROVE  FailuresIn(more, clock) = FailuresIn(log, clock)
  <2>1. /\ LinesThatSay(more, Labels) = LinesThatSay(log, Labels)
        /\ \A i \in LinesThatSay(log, Labels) : more[i] = log[i]
    <3>1. /\ LinesThatSay(more, Labels) = LinesThatSay(log, Labels) \cup
                                     IF line.says \in Labels THEN {n + 1} ELSE {}
          /\ \A i \in LinesThatSay(log, Labels) : more[i] = log[i]
      BY <1>1, KindsOfOneMore
    <3> QED BY <1>5, <3>1
  <2> QED BY <2>1 DEF Time, FailuresIn
<1>6. ASSUME line.says \in Labels
      PROVE  FailuresIn(more, clock) = FailuresIn(log, clock) \cup {<<time, line.says>>}
  <2>1. /\ LinesThatSay(more, Labels) = LinesThatSay(log, Labels) \cup {n + 1}
        /\ \A i \in LinesThatSay(log, Labels) : more[i] = log[i]
    BY <1>1, <1>6, KindsOfOneMore
  <2>2. more[n + 1] = line
    BY <1>1 DEF LogGrows
  <2>3. time = Time(more, clock, n + 1)
    BY <2>2 DEF Time, time
  <2> QED BY <2>1, <2>2, <2>3 DEF Time, FailuresIn
<1>7. ASSUME line.says = "resources"
      PROVE  Recorded(now, more, clock)
  <2>1. now = [s EXCEPT !.resources = time]
    BY <1>2, <1>4, <1>7 DEF ReadSignal, HealthSigns
  <2>2. now = [resources |-> time, sip |-> s.sip, bus |-> s.bus,
                  responsive |-> s.responsive, failures |-> s.failures]
    BY <1>3, <2>1
  <2>3. LastTime(time, more, clock, {"resources"})
    BY <1>1, <1>7, LastIsNew DEF time
  <2>4. line.says \notin SipSigns \cup {"bus"} \cup Keepalives \cup Labels
    BY <1>4, <1>7 DEF SipSigns, Keepalives, HealthSigns
  <2>5. /\ LastTime(s.sip, more, clock, SipSigns) /\ LastTime(s.bus, more, clock, {"bus"})
        /\ LastSaid(s.responsive, more, Keepalives)
    BY <1>1, <1>3, <2>4, LastStays
  <2>6. now.failures = FailuresIn(more, clock)
    BY <1>3, <1>5, <2>2, <2>4
  <2>7. now = [resources |-> now.resources, sip |-> now.sip, bus |-> now.bus,
               responsive |-> now.responsive, failures |-> now.failures]
    BY <2>2
  <2>8. /\ LastTime(now.resources, more, clock, {"resources"})
        /\ LastTime(now.sip, more, clock, SipSigns) /\ LastTime(now.bus, more, clock, {"bus"})
        /\ LastSaid(now.responsive, more, Keepalives)
    BY <2>2, <2>3, <2>5
  <2> QED BY <2>6, <2>7, <2>8 DEF Recorded
<1>8. ASSUME line.says = "sip_memory"
      PROVE  Recorded(now, more, clock)
  <2>1. now = [s EXCEPT !.sip = time]
    BY <1>2, <1>4, <1>8 DEF ReadSignal, HealthSigns
  <2>2. now = [resources |-> s.resources, sip |-> time, bus |-> s.bus,
                  responsive |-> s.responsive, failures |-> s.failures]
    BY <1>3, <2>1
  <2>3. LastTime(time, more, clock, SipSigns)
    BY <1>1, <1>8, LastIsNew DEF time, SipSigns
  <2>4. line.says \notin {"resources"} \cup {"bus"} \cup Keepalives \cup Labels
    BY <1>4, <1>8 DEF Keepalives, HealthSigns
  <2>5. /\ LastTime(s.resources, more, clock, {"resources"})
        /\ LastTime(s.bus, more, clock, {"bus"}) /\ LastSaid(s.responsive, more, Keepalives)
    BY <1>1, <1>3, <2>4, LastStays
  <2>6. now.failures = FailuresIn(more, clock)
    BY <1>3, <1>5, <2>2, <2>4
  <2>7. now = [resources |-> now.resources, sip |-> now.sip, bus |-> now.bus,
               responsive |-> now.responsive, failures |-> now.failures]
    BY <2>2
  <2>8. /\ LastTime(now.resources, more, clock, {"resources"})
        /\ LastTime(now.sip, more, clock, SipSigns) /\ LastTime(now.bus, more, clock, {"bus"})
        /\ LastSaid(now.responsive, more, Keepalives)
    BY <2>2, <2>3, <2>5
  <2> QED BY <2>6, <2>7, <2>8 DEF Recorded
<1>9. ASSUME line.says \in Keepalives
      PROVE  Recorded(now, more, clock)
  <2>1. now = [s EXCEPT !.sip = time, !.responsive = line.says]
    BY <1>2, <1>4, <1>9 DEF ReadSignal, HealthSigns, Keepalives
  <2>2. now = [resources |-> s.resources, sip |-> time, bus |-> s.bus,
                  responsive |-> line.says, failures |-> s.failures]
    BY <1>3, <2>1
  <2>3. LastTime(time, more, clock, SipSigns) /\ LastSaid(line.says, more, Keepalives)
    <3>1. line.says \in SipSigns
      BY <1>9 DEF SipSigns, Keepalives
    <3> QED BY <1>1, <1>9, <3>1, LastIsNew DEF time
  <2>4. line.says \notin {"resources"} \cup {"bus"} \cup Labels
    BY <1>4, <1>9 DEF Keepalives, HealthSigns
  <2>5. LastTime(s.resources, more, clock, {"resources"}) /\ LastTime(s.bus, more, clock, {"bus"})
    BY <1>1, <1>3, <2>4, LastStays
  <2>6. now.failures = FailuresIn(more, clock)
    BY <1>3, <1>5, <2>2, <2>4
  <2>7. now = [resources |-> now.resources, sip |-> now.sip, bus |-> now.bus,
               responsive |-> now.responsive, failures |-> now.failures]
    BY <2>2
  <2>8. /\ LastTime(now.resources, more, clock, {"resources"})
        /\ LastTime(now.sip, more, clock, SipSigns) /\ LastTime(now.bus, more, clock, {"bus"})
        /\ LastSaid(now.responsive, more, Keepalives)
    BY <2>2, <2>3, <2>5
  <2> QED BY <2>6, <2>7, <2>8 DEF Recorded
<1>10. ASSUME line.says = "bus"
      PROVE  Recorded(now, more, clock)
  <2>1. now = [s EXCEPT !.bus = time]
    BY <1>2, <1>4, <1>10 DEF ReadSignal, HealthSigns
  <2>2. now = [resources |-> s.resources, sip |-> s.sip, bus |-> time,
                  responsive |-> s.responsive, failures |-> s.failures]
    BY <1>3, <2>1
  <2>3. LastTime(time, more, clock, {"bus"})
    BY <1>1, <1>10, LastIsNew DEF time
  <2>4. line.says \notin {"resources"} \cup SipSigns \cup Keepalives \cup Labels
    BY <1>4, <1>10 DEF SipSigns, Keepalives, HealthSigns
  <2>5. /\ LastTime(s.resources, more, clock, {"resources"})
        /\ LastTime(s.sip, more, clock, SipSigns) /\ LastSaid(s.responsive, more, Keepalives)
    BY <1>1, <1>3, <2>4, LastStays
  <2>6. now.failures = FailuresIn(more, clock)
    BY <1>3, <1>5, <2>2, <2>4
  <2>7. now = [resources |-> now.resources, sip |-> now.sip, bus |-> now.bus,
               responsive |-> now.responsive, failures |-> now.failures]
    BY <2>2
  <2>8. /\ LastTime(now.resources, more, clock, {"resources"})
        /\ LastTime(now.sip, more, clock, SipSigns) /\ LastTime(now.bus, more, clock, {"bus"})
        /\ LastSaid(now.responsive, more, Keepalives)
    BY <2>2, <2>3, <2>5
  <2> QED BY <2>6, <2>7, <2>8 DEF Recorded
<1>11. ASSUME line.says \in Labels
      PROVE  Recorded(now, more, clock)
  <2>1. line.says \notin {"resources"} \cup SipSigns \cup {"bus"} \cup Keepalives
    BY <1>4, <1>11 DEF SipSigns, Keepalives, HealthSigns
  <2>2. now = [s EXCEPT !.failures = @ \cup {<<time, line.says>>}]
    BY <1>2, <1>11, <2>1 DEF ReadSignal, SipSigns, Keepalives
  <2>3. now = [resources |-> s.resources, sip |-> s.sip, bus |-> s.bus,
                  responsive |-> s.responsive,
                  failures |-> s.failures \cup {<<time, line.says>>}]
    BY <1>3, <2>2
  <2>4. /\ LastTime(s.resources, more, clock, {"resources"})
        /\ LastTime(s.sip, more, clock, SipSigns) /\ LastTime(s.bus, more, clock, {"bus"})
        /\ LastSaid(s.responsive, more, Keepalives)
    BY <1>1, <1>3, <2>1, LastStays
  <2>6. now.failures = FailuresIn(more, clock)
    BY <1>3, <1>6, <1>11, <2>3
  <2>7. now = [resources |-> now.resources, sip |-> now.sip, bus |-> now.bus,
               responsive |-> now.responsive, failures |-> now.failures]
    BY <2>3
  <2>8. /\ LastTime(now.resources, more, clock, {"resources"})
        /\ LastTime(now.sip, more, clock, SipSigns) /\ LastTime(now.bus, more, clock, {"bus"})
        /\ LastSaid(now.responsive, more, Keepalives)
    BY <2>3, <2>4
  <2> QED BY <2>6, <2>7, <2>8 DEF Recorded
<1>12. Recorded(now, more, clock)
  BY <1>4, <1>7, <1>8, <1>9, <1>10, <1>11 DEF HealthSigns, Keepalives
<1> QED BY <1>12 DEF now, more
LEMMA Multiples ==
    ASSUME NEW n \in Nat, NEW p \in Int, NEW q \in Int, p >= q + 1
    PROVE  p * n >= q * n + n
<1>1. PICK k \in Nat : p = q + 1 + k
  <2>1. p - q - 1 \in Nat /\ p = q + 1 + (p - q - 1)
    OBVIOUS
  <2> QED BY <2>1
<1>2. p * n = q * n + n + k * n /\ k * n >= 0
  BY <1>1
<1>3. p * n \in Int /\ q * n \in Int /\ k * n \in Int
  OBVIOUS
<1> QED BY <1>2, <1>3

\* _syslog_time finds the year that the line does not show, of every line that is less than
\* a year old by a day or at most a day ahead of the clock, for any lengths of the two: New
\* Year may lie anywhere, but for a line ahead of the clock, which is then dated a year back.
THEOREM YearIsGuessed ==
    ASSUME NEW reference \in Nat, NEW at \in Nat,
           reference - at < Year - Day, at - reference <= Day
    PROVE  SyslogTime(Shown(at), reference) = IF DatedBack(at, reference) THEN at - Year ELSE at
<1> DEFINE p == at \div Year
           q == reference \div Year
           s == at % Year
           t == reference % Year
<1>1. Year \in Nat \ {0} /\ Day \in Nat
  BY DiagnosticSteps
<1>2. /\ p \in Int /\ q \in Int /\ s \in 0 .. Year - 1 /\ t \in 0 .. Year - 1
      /\ at = p * Year + s /\ reference = q * Year + t
      /\ p * Year \in Int /\ q * Year \in Int
  BY <1>1
<1>3. /\ SyslogTime(Shown(at), reference) =
           IF (q * Year + s) - reference > Day THEN (q * Year + s) - Year ELSE q * Year + s
      /\ DatedBack(at, reference) <=> at > reference /\ p # q
      /\ Day <= Year
  BY DiagnosticSteps DEF SyslogTime, Shown, DatedBack
<1> HIDE DEF p, q, s, t
<1>4. p <= q + 1
  <2>1. ASSUME p >= q + 2
        PROVE  FALSE
    <3>1. (q + 1) * Year = q * Year + Year
      BY <1>1, <1>2
    <3>2. p * Year >= (q + 1) * Year + Year
      BY <1>1, <1>2, <2>1, Multiples
    <3> QED BY <1>1, <1>2, <1>3, <3>1, <3>2
  <2> QED BY <1>2, <2>1
<1>5. q <= p + 1
  <2>1. ASSUME q >= p + 2
        PROVE  FALSE
    <3>1. (p + 1) * Year = p * Year + Year
      BY <1>1, <1>2
    <3>2. q * Year >= (p + 1) * Year + Year
      BY <1>1, <1>2, <2>1, Multiples
    <3> QED BY <1>1, <1>2, <3>1, <3>2
  <2> QED BY <1>2, <2>1
<1>6. CASE p = q
  BY <1>1, <1>2, <1>3, <1>6
<1>7. CASE q = p + 1
  <2>1. q * Year = p * Year + Year
    BY <1>1, <1>2, <1>7
  <2> QED BY <1>1, <1>2, <1>3, <2>1
<1>8. CASE p = q + 1
  <2>1. p * Year = q * Year + Year
    BY <1>1, <1>2, <1>8
  <2>2. at > reference /\ p # q
    BY <1>1, <1>2, <1>8, <2>1
  <2> QED BY <1>1, <1>2, <1>3, <2>1, <2>2
<1> QED BY <1>2, <1>4, <1>5, <1>6, <1>7, <1>8

LEMMA SignalsAreRecorded ==
    ASSUME NEW log \in Logs, NEW clock
    PROVE  Recorded(Signals(log, clock), log, clock)
<1> DEFINE Line == [at : Nat, says : HealthSigns \cup Labels]
           S == {n \in Nat : \A text \in Seq(Line) :
                                Len(text) = n => Recorded(Signals(text, clock), text, clock)}
<1>1. 0 \in S
  <2>1. \A text \in Seq(Line) : Len(text) = 0 => text = <<>>
    BY EmptySeq
  <2> QED BY <2>1, NothingIsRecorded, SignalsOfNothing
<1>2. ASSUME NEW n \in Nat, n \in S
      PROVE  n + 1 \in S
  <2> SUFFICES ASSUME NEW text \in Seq(Line), Len(text) = n + 1
               PROVE  Recorded(Signals(text, clock), text, clock)
    <3> HIDE DEF Line
    <3> QED OBVIOUS
  <2> HIDE DEF Line
  <2>1. text # <<>>
    <3>1. Len(<<>>) = 0
      OBVIOUS
    <3> QED BY <3>1
  <2>2. PICK front \in Seq(Line), line \in Line : text = Append(front, line)
    BY <2>1, SequenceEmptyOrAppend
  <2>3. Len(front) \in Nat /\ Len(text) = Len(front) + 1
    BY <2>2, AppendProperties, LenProperties
  <2>4. Recorded(Signals(front, clock), front, clock)
    BY <1>2, <2>3
  <2>5. Signals(text, clock) = ReadLine(clock, Signals(front, clock), line)
    BY <2>2, SignalsOfOneMore
  <2>6. front \in Logs /\ line \in [at : Nat, says : HealthSigns \cup Labels]
    BY DEF Line, Logs
  <2> QED BY <2>2, <2>4, <2>5, <2>6, ReportOfOneMore
<1>3. Nat \subseteq S
  <2> HIDE DEF S
  <2> QED BY <1>1, <1>2, SetInduction
<1>4. Len(log) \in Nat /\ log \in Seq(Line)
  BY LenProperties DEF Logs
<1> QED BY <1>3, <1>4

\* The latest line that is a sign of health, as AttentionWhenDue looks for it.
Health(log) == {i \in DOMAIN log : log[i].says \notin Labels}
LatestHealth(log) == CHOOSE i \in Health(log) : \A j \in Health(log) : j <= i

LEMMA TimesAreTrue ==
    ASSUME NEW log \in Logs, NEW reference \in Nat, Datable(log, reference)
    PROVE  /\ Len(log) \in Nat /\ DOMAIN log = 1 .. Len(log)
           /\ \A i \in DOMAIN log : /\ log[i].at \in Nat
                                    /\ log[i].says \in HealthSigns \cup Labels
                                    /\ Time(log, reference, i) = log[i].at
           /\ \A i, j \in DOMAIN log : i <= j => log[i].at <= log[j].at
<1>1. Len(log) \in Nat /\ DOMAIN log = 1 .. Len(log)
  BY LenProperties DEF Logs
<1>2. \A i \in DOMAIN log : log[i] \in [at : Nat, says : HealthSigns \cup Labels]
  BY <1>1, ElementOfSeq DEF Logs
<1>3. ASSUME NEW i \in DOMAIN log
      PROVE  Time(log, reference, i) = log[i].at
  <2>1. /\ log[i].at \in Nat /\ reference - log[i].at < Year - Day
        /\ log[i].at - reference <= Day /\ ~DatedBack(log[i].at, reference)
    BY <1>2 DEF Datable
  <2> QED BY <2>1, YearIsGuessed DEF Time
<1>4. ASSUME NEW i \in DOMAIN log, NEW j \in DOMAIN log, i <= j
      PROVE  log[i].at <= log[j].at
  <2>1. i \in Nat /\ j \in Nat
    BY <1>1
  <2>2. CASE i = j
    BY <1>2, <2>2
  <2>3. CASE i # j
    BY <1>4, <2>1, <2>3 DEF Datable
  <2> QED BY <2>2, <2>3
<1> QED BY <1>1, <1>2, <1>3, <1>4

LEMMA LatestSigns ==
    ASSUME NEW log \in Logs, NEW reference \in Nat, Datable(log, reference),
           NEW K \in SUBSET HealthSigns, NEW value, LastTime(value, log, reference, K)
    PROVE  /\ Health(log) = {} => value = Never
           /\ value # Never => /\ value \in Int /\ Health(log) # {}
                               /\ value <= log[LatestHealth(log)].at
           /\ Health(log) # {} /\ log[LatestHealth(log)].says \in K =>
                value = log[LatestHealth(log)].at
<1> DEFINE m == LatestHealth(log)
<1>1. /\ Len(log) \in Nat /\ DOMAIN log = 1 .. Len(log)
      /\ \A i \in DOMAIN log : log[i].at \in Nat /\ Time(log, reference, i) = log[i].at
      /\ \A i, j \in DOMAIN log : i <= j => log[i].at <= log[j].at
  BY TimesAreTrue
<1>2. LinesThatSay(log, K) \subseteq Health(log) /\ Health(log) \subseteq DOMAIN log
  BY FailuresAreNoOtherSignals DEF LinesThatSay, Health
<1>3. Health(log) # {} => m \in Health(log) /\ \A j \in Health(log) : j <= m
  <2>1. ASSUME Health(log) # {}
        PROVE  \E i \in Health(log) : \A j \in Health(log) : j <= i
    <3>1. Health(log) \in SUBSET (1 .. Len(log))
      BY <1>1, <1>2
    <3> QED BY <1>1, <2>1, <3>1, Maximum
  <2> QED BY <2>1 DEF LatestHealth
<1> HIDE DEF m
<1>4. CASE LinesThatSay(log, K) = {}
  <2>1. value = Never
    BY <1>4 DEF LastTime
  <2>2. Health(log) # {} => log[m].says \notin K
    BY <1>2, <1>3, <1>4 DEF LinesThatSay
  <2> QED BY <2>1, <2>2 DEF m
<1>5. CASE LinesThatSay(log, K) # {}
  <2>1. PICK i \in LinesThatSay(log, K) : value = Time(log, reference, i)
                                   /\ \A j \in LinesThatSay(log, K) : j <= i
    BY <1>5 DEF LastTime
  <2>2. i \in Health(log) /\ i \in DOMAIN log /\ m \in DOMAIN log /\ i <= m
    BY <1>2, <1>3
  <2>3. value = log[i].at /\ value \in Int /\ value <= log[m].at
    BY <1>1, <2>1, <2>2
  <2>4. log[m].says \in K => value = log[m].at
    <3> SUFFICES ASSUME log[m].says \in K
                 PROVE  value = log[m].at
      OBVIOUS
    <3>1. m \in LinesThatSay(log, K)
      BY <2>2 DEF LinesThatSay
    <3>2. m <= i /\ m \in Nat /\ i \in Nat
      BY <1>1, <2>1, <2>2, <3>1
    <3>3. m = i
      BY <2>2, <3>2
    <3> QED BY <2>3, <3>3
  <2> QED BY <2>2, <2>3, <2>4 DEF m
<1> QED BY <1>4, <1>5

LEMMA CutoffIsTrue ==
    ASSUME NEW log \in Logs, NEW reference \in Nat, Datable(log, reference),
           NEW s, Recorded(s, log, reference)
    PROVE  Cutoff(s, reference) =
             (IF Health(log) = {} THEN reference ELSE log[LatestHealth(log)].at) - FailureWindow
<1> DEFINE last == log[LatestHealth(log)].at
           observed == {s.resources, s.sip, s.bus} \ {Never}
<1>1. \A value \in {s.resources, s.sip, s.bus} :
         /\ Health(log) = {} => value = Never
         /\ value # Never => value \in Int /\ Health(log) # {} /\ value <= last
  <2>1. /\ {"resources"} \in SUBSET HealthSigns /\ LastTime(s.resources, log, reference, {"resources"})
        /\ SipSigns \in SUBSET HealthSigns /\ LastTime(s.sip, log, reference, SipSigns)
        /\ {"bus"} \in SUBSET HealthSigns /\ LastTime(s.bus, log, reference, {"bus"})
    BY DEF Recorded, HealthSigns, SipSigns
  <2>2. ASSUME NEW K \in SUBSET HealthSigns, NEW value, LastTime(value, log, reference, K)
        PROVE  /\ Health(log) = {} => value = Never
               /\ value # Never => value \in Int /\ Health(log) # {} /\ value <= last
    BY <2>2, LatestSigns
  <2> HIDE DEF last, observed
  <2>3. /\ Health(log) = {} => s.resources = Never
        /\ s.resources # Never => s.resources \in Int /\ Health(log) # {} /\ s.resources <= last
    BY <2>1, <2>2
  <2>4. /\ Health(log) = {} => s.sip = Never
        /\ s.sip # Never => s.sip \in Int /\ Health(log) # {} /\ s.sip <= last
    BY <2>1, <2>2
  <2>5. /\ Health(log) = {} => s.bus = Never
        /\ s.bus # Never => s.bus \in Int /\ Health(log) # {} /\ s.bus <= last
    BY <2>1, <2>2
  <2> QED BY <2>3, <2>4, <2>5
<1>2. Cutoff(s, reference) =
        (IF observed = {} THEN reference
         ELSE CHOOSE t \in observed : \A u \in observed : u <= t) - FailureWindow
  BY DEF Cutoff
<1>3. CASE Health(log) = {}
  <2>1. observed = {}
    BY <1>1, <1>3
  <2> QED BY <1>2, <1>3, <2>1
<1>4. CASE Health(log) # {}
  <2>1. last \in Nat /\ log[LatestHealth(log)].says \in HealthSigns
    <3>1. /\ Len(log) \in Nat /\ DOMAIN log = 1 .. Len(log)
          /\ \A i \in DOMAIN log : log[i].at \in Nat /\ log[i].says \in HealthSigns \cup Labels
      BY TimesAreTrue
    <3>2. Health(log) \in SUBSET (1 .. Len(log))
      BY <3>1 DEF Health
    <3>3. \E i \in Health(log) : \A j \in Health(log) : j <= i
      BY <1>4, <3>1, <3>2, Maximum
    <3>4. LatestHealth(log) \in Health(log)
      BY <3>3 DEF LatestHealth
    <3> QED BY <3>1, <3>4 DEF Health
  <2>2. last \in {s.resources, s.sip, s.bus}
    <3>1. /\ LastTime(s.resources, log, reference, {"resources"})
          /\ LastTime(s.sip, log, reference, SipSigns) /\ LastTime(s.bus, log, reference, {"bus"})
      BY DEF Recorded
    <3>2. /\ {"resources"} \in SUBSET HealthSigns /\ SipSigns \in SUBSET HealthSigns
          /\ {"bus"} \in SUBSET HealthSigns
      BY DEF HealthSigns, SipSigns
    <3>3. \/ log[LatestHealth(log)].says \in {"resources"}
          \/ log[LatestHealth(log)].says \in SipSigns
          \/ log[LatestHealth(log)].says \in {"bus"}
      BY <2>1 DEF HealthSigns, SipSigns
    <3>4. CASE log[LatestHealth(log)].says \in {"resources"}
      BY <1>4, <3>1, <3>2, <3>4, LatestSigns
    <3>5. CASE log[LatestHealth(log)].says \in SipSigns
      BY <1>4, <3>1, <3>2, <3>5, LatestSigns
    <3>6. CASE log[LatestHealth(log)].says \in {"bus"}
      BY <1>4, <3>1, <3>2, <3>6, LatestSigns
    <3> QED BY <3>3, <3>4, <3>5, <3>6
  <2> HIDE DEF last
  <2>3. last \in observed /\ \A u \in observed : u \in Int /\ u <= last
    BY <1>1, <2>1, <2>2 DEF Never
  <2> HIDE DEF observed
  <2>4. (CHOOSE t \in observed : \A u \in observed : u <= t) = last
    <3>1. \A t \in observed : (\A u \in observed : u <= t) => t = last
      BY <2>1, <2>3
    <3>2. last \in observed /\ \A u \in observed : u <= last
      BY <2>3
    <3> QED BY <3>1, <3>2
  <2> QED BY <1>2, <1>4, <2>3, <2>4 DEF last
<1> QED BY <1>3, <1>4

\* A log whose last keepalive failed calls for attention whatever its times are; of every
\* log that can be dated, lines ahead of the clock included, the summary does so exactly when
\* it is due: the fold keeps the latest line of each kind and every failure (Recorded), the
\* year is found (YearIsGuessed), so the window before the latest sign of health is the true
\* one.  A log with a line ahead of the clock over New Year cannot be dated.
THEOREM AttentionIsDue ==
    ASSUME NEW log \in Logs, NEW reference \in Nat
    PROVE  AttentionWhenDue(log, reference)
<1> DEFINE s == Signals(log, reference)
           health == {i \in DOMAIN log : log[i].says \notin Labels}
           latest == IF health = {} THEN reference
                     ELSE log[CHOOSE i \in health : \A j \in health : j <= i].at
           keepalives == {i \in DOMAIN log : log[i].says \in {"sip_alive", "sip_dead"}}
           due == {log[i].says : i \in {j \in DOMAIN log :
                      log[j].says \in Labels /\ log[j].at >= latest - FailureWindow}}
           dead == \E i \in keepalives : log[i].says = "sip_dead" /\ \A j \in keepalives : j <= i
           needed == Summary("gateway", TRUE, log, reference) = "needs_attention"
<1>1. Recorded(s, log, reference)
  BY SignalsAreRecorded
<1>2. s.responsive = "sip_dead" <=> dead
  <2>1. keepalives = LinesThatSay(log, Keepalives)
    BY DEF LinesThatSay, Keepalives
  <2>2. LastSaid(s.responsive, log, Keepalives)
    BY <1>1 DEF Recorded
  <2> HIDE DEF s, keepalives
  <2>3. CASE keepalives = {}
    BY <2>1, <2>2, <2>3 DEF LastSaid
  <2>4. CASE keepalives # {}
    <3>1. PICK i \in keepalives : s.responsive = log[i].says /\ \A j \in keepalives : j <= i
      BY <2>1, <2>2, <2>4 DEF LastSaid
    <3>2. \A j \in keepalives : j \in Nat
      BY LenProperties DEF keepalives, Logs
    <3>3. \A k \in keepalives : (\A j \in keepalives : j <= k) => k = i
      BY <3>1, <3>2
    <3> QED BY <3>1, <3>3
  <2> QED BY <2>3, <2>4
<1>3. needed <=> RecentFailures(s, reference) # {} \/ s.responsive = "sip_dead"
  BY DEF Summary
<1>4. ASSUME Datable(log, reference)
      PROVE  RecentFailures(s, reference) = due
  <2>1. Cutoff(s, reference) = latest - FailureWindow
    BY <1>1, <1>4, CutoffIsTrue DEF Health, LatestHealth
  <2> HIDE DEF latest
  <2>2. s.failures = {<<log[i].at, log[i].says>> : i \in LinesThatSay(log, Labels)}
    <3>1. \A i \in LinesThatSay(log, Labels) : Time(log, reference, i) = log[i].at
      BY <1>4, TimesAreTrue DEF LinesThatSay
    <3> HIDE DEF s
    <3> QED BY <1>1, <3>1 DEF Recorded, FailuresIn
  <2>3. RecentFailures(s, reference) = due
    <3> HIDE DEF s
    <3>1. RecentFailures(s, reference) =
            {f[2] : f \in {g \in s.failures : g[1] >= latest - FailureWindow}}
      BY <2>1 DEF RecentFailures
    <3>2. due = {log[i].says : i \in {j \in LinesThatSay(log, Labels) : log[j].at >= latest - FailureWindow}}
      BY DEF LinesThatSay
    <3> DEFINE c == latest - FailureWindow
               F == s.failures
               J == LinesThatSay(log, Labels)
               recent == {g \in F : g[1] >= c}
    <3> HIDE DEF c, due
    <3>3. ASSUME NEW x \in {f[2] : f \in recent}
          PROVE  x \in {log[i].says : i \in {j \in J : log[j].at >= c}}
      <4>1. PICK f \in F : f[1] >= c /\ x = f[2]
        OBVIOUS
      <4>2. PICK i \in J : f = <<log[i].at, log[i].says>>
        BY <2>2
      <4>3. f[1] = log[i].at /\ f[2] = log[i].says
        BY <4>2
      <4> QED BY <4>1, <4>3
    <3>4. ASSUME NEW i \in J, log[i].at >= c
          PROVE  log[i].says \in {f[2] : f \in recent}
      <4> DEFINE f == <<log[i].at, log[i].says>>
      <4>1. f \in F
        BY <2>2
      <4>2. f[1] = log[i].at /\ f[2] = log[i].says
        OBVIOUS
      <4> HIDE DEF f
      <4>3. f \in recent
        BY <3>4, <4>1, <4>2
      <4> HIDE DEF recent
      <4> QED BY <4>2, <4>3
    <3>5. {f[2] : f \in recent} = {log[i].says : i \in {j \in J : log[j].at >= c}}
      BY <3>3, <3>4
    <3> QED BY <3>1, <3>2, <3>5 DEF c
  <2> QED BY <2>3
<1>5. /\ dead => needed
      /\ Datable(log, reference) =>
           /\ RecentFailures(s, reference) = due
           /\ needed = (due # {} \/ dead)
  <2> HIDE DEF s, due, dead, needed
  <2> QED BY <1>2, <1>3, <1>4
<1> QED BY <1>5 DEF AttentionWhenDue

-----------------------------------------------------------------------------
(***************************************************************************)
(* Nested JSON values.  The three functions of the depth are built layer   *)
(* by layer in the same way: each layer is determined by the one below it. *)
(***************************************************************************)
Layer(of, depth, below) ==
    IF of = "values" THEN IF depth = 0 THEN Scalars ELSE Scalars \cup ObjectsOf(below)
    ELSE IF of = "comparison"
    THEN [expected \in Json[depth] |-> [echoed \in Json[depth] |-> Covers(below, expected, echoed)]]
    ELSE [v \in Json[depth] |-> NodesBelow(below, v)]

Grounded(of) == \A x, y : Layer(of, 0, x) = Layer(of, 0, y)
Layering(f, of, n) == f = [i \in 0 .. n |-> Layer(of, i, f[i - 1])]
Layered(f, of) == f = [i \in Nat |-> Layer(of, i, f[i - 1])]

LEMMA LayeringExists ==
    ASSUME NEW of, Grounded(of), NEW n \in Nat
    PROVE  \E f : Layering(f, of, n)
<1> DEFINE S == {k \in Nat : \E f : Layering(f, of, k)}
<1>1. 0 \in S
  <2> DEFINE f == [i \in 0 .. 0 |-> Layer(of, 0, 0)]
  <2>1. \A i \in 0 .. 0 : i = 0 /\ f[i] = Layer(of, i, f[i - 1])
    BY DEF Grounded
  <2>2. f = [i \in 0 .. 0 |-> f[i]]
    OBVIOUS
  <2> HIDE DEF f
  <2>3. Layering(f, of, 0)
    BY <2>1, <2>2 DEF Layering
  <2> QED BY <2>3
<1>2. ASSUME NEW k \in Nat, k \in S
      PROVE  k + 1 \in S
  <2>1. PICK p : Layering(p, of, k)
    BY <1>2
  <2> DEFINE q == [i \in 0 .. k + 1 |-> IF i = k + 1 THEN Layer(of, i, p[k]) ELSE p[i]]
  <2>2. \A i \in 0 .. k : q[i] = p[i] /\ q[i] = Layer(of, i, p[i - 1])
    BY <2>1 DEF Layering
  <2>3. q[k + 1] = Layer(of, k + 1, p[k])
    OBVIOUS
  <2>4. q = [i \in 0 .. k + 1 |-> q[i]]
    OBVIOUS
  <2> HIDE DEF q
  <2>5. ASSUME NEW i \in 0 .. k + 1
        PROVE  q[i] = Layer(of, i, q[i - 1])
    <3>1. CASE i = 0
      BY <2>2, <3>1 DEF Grounded
    <3>2. CASE i = k + 1
      <4>1. i - 1 = k /\ k \in 0 .. k
        BY <3>2
      <4> QED BY <2>2, <2>3, <3>2, <4>1
    <3>3. CASE i # 0 /\ i # k + 1
      <4>1. i \in 0 .. k /\ i - 1 \in 0 .. k
        BY <3>3
      <4> QED BY <2>2, <4>1
    <3> QED BY <3>1, <3>2, <3>3
  <2>6. Layering(q, of, k + 1)
    BY <2>4, <2>5 DEF Layering
  <2> QED BY <2>6
<1>3. Nat \subseteq S
  <2> HIDE DEF S
  <2> QED BY <1>1, <1>2, SetInduction
<1> QED BY <1>3

LEMMA LayeringsAgree ==
    ASSUME NEW of, Grounded(of), NEW m \in Nat, NEW n \in Nat, m <= n,
           NEW f, NEW g, Layering(f, of, m), Layering(g, of, n)
    PROVE  f[m] = g[m]
<1> DEFINE S == {k \in Nat : k <= m => f[k] = g[k]}
<1>1. 0 \in S
  <2>1. 0 \in 0 .. m /\ 0 \in 0 .. n
    OBVIOUS
  <2>2. f[0] = Layer(of, 0, f[0 - 1]) /\ g[0] = Layer(of, 0, g[0 - 1])
    BY <2>1 DEF Layering
  <2> QED BY <2>2 DEF Grounded
<1>2. ASSUME NEW k \in Nat, k \in S
      PROVE  k + 1 \in S
  <2> SUFFICES ASSUME k + 1 <= m
               PROVE  f[k + 1] = g[k + 1]
    OBVIOUS
  <2>1. k + 1 \in 0 .. m /\ k + 1 \in 0 .. n /\ (k + 1) - 1 = k /\ f[k] = g[k]
    BY <1>2
  <2>2. f[k + 1] = Layer(of, k + 1, f[(k + 1) - 1]) /\ g[k + 1] = Layer(of, k + 1, g[(k + 1) - 1])
    BY <2>1 DEF Layering
  <2> QED BY <2>1, <2>2
<1>3. Nat \subseteq S
  <2> HIDE DEF S
  <2> QED BY <1>1, <1>2, SetInduction
<1> QED BY <1>3

LEMMA LayersExist ==
    ASSUME NEW of, Grounded(of)
    PROVE  \E f : Layered(f, of)
<1> DEFINE upto(n) == CHOOSE f : Layering(f, of, n)
           F == [n \in Nat |-> upto(n)[n]]
<1>1. ASSUME NEW n \in Nat
      PROVE  Layering(upto(n), of, n)
  BY LayeringExists
<1> HIDE DEF upto
<1>2. ASSUME NEW n \in Nat
      PROVE  F[n] = Layer(of, n, F[n - 1])
  <2>1. n \in 0 .. n /\ upto(n)[n] = Layer(of, n, upto(n)[n - 1])
    BY <1>1 DEF Layering
  <2>2. CASE n = 0
    BY <2>1, <2>2 DEF Grounded
  <2>3. CASE n # 0
    <3>1. n - 1 \in Nat /\ n - 1 \in 0 .. n /\ n - 1 <= n
      BY <2>3
    <3>2. upto(n - 1)[n - 1] = upto(n)[n - 1]
      BY <1>1, <3>1, LayeringsAgree
    <3> QED BY <2>1, <3>1, <3>2
  <2> QED BY <2>2, <2>3
<1>3. F = [n \in Nat |-> F[n]]
  OBVIOUS
<1> HIDE DEF F
<1>4. Layered(F, of)
  BY <1>2, <1>3 DEF Layered
<1> QED BY <1>4

LEMMA JsonLayers ==
    /\ Json[0] = Scalars
    /\ \A d \in Nat : Json[d + 1] = Scalars \cup ObjectsOf(Json[d])
<1>1. Grounded("values")
  BY DEF Grounded, Layer
<1>2. PICK f : Layered(f, "values")
  BY <1>1, LayersExist
<1>3. f = [depth \in Nat |-> IF depth = 0 THEN Scalars ELSE Scalars \cup ObjectsOf(f[depth - 1])]
  BY <1>2 DEF Layered, Layer
<1>4. Json = [depth \in Nat |-> IF depth = 0 THEN Scalars ELSE Scalars \cup ObjectsOf(Json[depth - 1])]
  BY <1>3 DEF Json
<1>5. \A d \in Nat : d + 1 \in Nat /\ d + 1 # 0 /\ (d + 1) - 1 = d
  OBVIOUS
<1> QED BY <1>4, <1>5

LEMMA JsonGrows ==
    ASSUME NEW d \in Nat
    PROVE  Json[d] \subseteq Json[d + 1]
<1> DEFINE S == {k \in Nat : Json[k] \subseteq Json[k + 1]}
<1>1. 0 \in S
  BY JsonLayers
<1>2. ASSUME NEW k \in Nat, k \in S
      PROVE  k + 1 \in S
  <2>1. Json[k] \subseteq Json[k + 1]
    BY <1>2
  <2>2. ObjectsOf(Json[k]) \subseteq ObjectsOf(Json[k + 1])
    BY <2>1 DEF ObjectsOf
  <2>3. k + 1 \in Nat
    OBVIOUS
  <2>4. Json[k + 1] = Scalars \cup ObjectsOf(Json[k])
        /\ Json[(k + 1) + 1] = Scalars \cup ObjectsOf(Json[k + 1])
    BY <2>3, JsonLayers
  <2> QED BY <2>2, <2>3, <2>4
<1>3. Nat \subseteq S
  <2> HIDE DEF S
  <2> QED BY <1>1, <1>2, SetInduction
<1> QED BY <1>3

\* A value is a scalar, or an object of values that are nested less.
IsObject(v, d) ==
    /\ v.kind = "object" /\ v = Object(v.is) /\ d \in Nat \ {0}
    /\ v.is \in [Fields -> Json[d - 1] \cup {Absent}]

LEMMA ValueKinds ==
    ASSUME NEW d \in Nat, NEW v \in Json[d]
    PROVE  \/ v \in Scalars /\ v.kind = "scalar" /\ v = Scalar(v.is)
           \/ IsObject(v, d)
<1>1. CASE d = 0
  BY <1>1, JsonLayers DEF Scalars, Scalar
<1>2. CASE d # 0
  <2>1. d - 1 \in Nat /\ (d - 1) + 1 = d
    BY <1>2
  <2>2. Json[d] = Scalars \cup ObjectsOf(Json[d - 1])
    BY <2>1, JsonLayers
  <2> QED BY <1>2, <2>2 DEF Scalars, Scalar, ObjectsOf, Object, IsObject
<1> QED BY <1>1, <1>2

\* What an object says of a field is a value.
LEMMA GivenValues ==
    ASSUME NEW d, NEW v, IsObject(v, d), NEW key \in Given(v)
    PROVE  key \in Fields /\ v.is[key] \in Json[d - 1] /\ d - 1 \in Nat
BY DEF IsObject, Given, Has

LEMMA ScalarsCompared ==
    ASSUME NEW e \in Scalars, NEW v \in Scalars, NEW deeper
    PROVE  Covers(deeper, e, v) <=> e = v
<1>1. e.kind = "scalar" /\ v.kind = "scalar" /\ e = Scalar(e.is) /\ v = Scalar(v.is)
  BY DEF Scalars, Scalar
<1> QED BY <1>1 DEF Covers

LEMMA ComparisonLayers ==
    ASSUME NEW d \in Nat, NEW e \in Json[d], NEW v \in Json[d]
    PROVE  EchoSubset[d][e][v] <=> Covers(EchoSubset[d - 1], e, v)
<1>1. Grounded("comparison")
  <2> SUFFICES ASSUME NEW x, NEW y
               PROVE  Layer("comparison", 0, x) = Layer("comparison", 0, y)
    BY DEF Grounded
  <2>1. \A a, b \in Json[0] : Covers(x, a, b) = Covers(y, a, b)
    <3> SUFFICES ASSUME NEW a \in Json[0], NEW b \in Json[0]
                 PROVE  Covers(x, a, b) = Covers(y, a, b)
      OBVIOUS
    <3>1. a.kind = "scalar"
      BY JsonLayers DEF Scalars
    <3> QED BY <3>1 DEF Covers
  <2> QED BY <2>1 DEF Layer
<1>2. PICK f : Layered(f, "comparison")
  BY <1>1, LayersExist
<1>3. f = [depth \in Nat |->
             [expected \in Json[depth] |->
                [echoed \in Json[depth] |-> Covers(f[depth - 1], expected, echoed)]]]
  BY <1>2 DEF Layered, Layer
<1>4. EchoSubset = [depth \in Nat |->
             [expected \in Json[depth] |->
                [echoed \in Json[depth] |-> Covers(EchoSubset[depth - 1], expected, echoed)]]]
  BY <1>3 DEF EchoSubset
<1>5. EchoSubset[d] = [expected \in Json[d] |->
         [echoed \in Json[d] |-> Covers(EchoSubset[d - 1], expected, echoed)]]
  BY <1>4
<1>6. EchoSubset[d][e] = [echoed \in Json[d] |-> Covers(EchoSubset[d - 1], e, echoed)]
  BY <1>5
<1>7. EchoSubset[d][e][v] = Covers(EchoSubset[d - 1], e, v)
  BY <1>6
<1> QED BY <1>7

LEMMA NodesLayers ==
    ASSUME NEW d \in Nat, NEW v \in Json[d]
    PROVE  Nodes[d][v] = NodesBelow(Nodes[d - 1], v)
<1>1. Grounded("nodes")
  <2> SUFFICES ASSUME NEW x, NEW y
               PROVE  Layer("nodes", 0, x) = Layer("nodes", 0, y)
    BY DEF Grounded
  <2>1. \A a \in Json[0] : NodesBelow(x, a) = NodesBelow(y, a)
    BY JsonLayers DEF NodesBelow, Scalars
  <2> QED BY <2>1 DEF Layer
<1>2. PICK f : Layered(f, "nodes")
  BY <1>1, LayersExist
<1>3. f = [depth \in Nat |-> [w \in Json[depth] |-> NodesBelow(f[depth - 1], w)]]
  BY <1>2 DEF Layered, Layer
<1>4. Nodes = [depth \in Nat |-> [w \in Json[depth] |-> NodesBelow(Nodes[depth - 1], w)]]
  BY <1>3 DEF Nodes
<1> QED BY <1>4

-----------------------------------------------------------------------------
(* The nodes of a value *)

AnObject == Object("")
At(key, node) == <<<<key>> \o node[1], node[2]>>
NodeSet == Seq(Fields) \X (Scalars \cup {AnObject})

LEMMA Prefixed ==
    ASSUME NEW j \in Fields, NEW k \in Fields, NEW m \in NodeSet, NEW n \in NodeSet
    PROVE  /\ At(j, m) \in NodeSet
           /\ At(j, m)[1] # <<>>
           /\ At(j, m) = At(k, n) => j = k /\ m = n
<1>1. m = <<m[1], m[2]>> /\ n = <<n[1], n[2]>> /\ m[1] \in Seq(Fields) /\ n[1] \in Seq(Fields)
  BY DEF NodeSet
<1> DEFINE p == <<j>> \o m[1]
           q == <<k>> \o n[1]
<1>2. /\ p \in Seq(Fields) /\ Len(p) = 1 + Len(m[1]) /\ p[1] = j
      /\ q \in Seq(Fields) /\ Len(q) = 1 + Len(n[1]) /\ q[1] = k
      /\ Len(m[1]) \in Nat /\ Len(n[1]) \in Nat
  BY <1>1
<1>3. p # <<>>
  BY <1>2
<1>4. p = q => j = k /\ m[1] = n[1]
  <2> SUFFICES ASSUME p = q PROVE j = k /\ m[1] = n[1]
    OBVIOUS
  <2>1. j = k /\ Len(m[1]) = Len(n[1])
    BY <1>2
  <2>2. ASSUME NEW i \in 1 .. Len(m[1])
        PROVE  m[1][i] = n[1][i]
    <3>1. p[i + 1] = m[1][i] /\ q[i + 1] = n[1][i]
      BY <1>1, <2>1
    <3> QED BY <3>1
  <2> HIDE DEF p, q
  <2> QED BY <1>1, <2>1, <2>2, SeqEqual
<1>5. At(j, m) = <<p, m[2]>> /\ At(k, n) = <<q, n[2]>>
  BY DEF At
<1>6. m[2] \in Scalars \cup {AnObject}
  BY DEF NodeSet
<1> HIDE DEF p, q
<1> QED BY <1>1, <1>2, <1>3, <1>4, <1>5, <1>6 DEF NodeSet

LEMMA NodesOfScalar ==
    ASSUME NEW d \in Nat, NEW v \in Json[d], v \in Scalars
    PROVE  Nodes[d][v] = {<<<<>>, v>>}
<1>1. v.kind = "scalar"
  BY DEF Scalars
<1> QED BY <1>1, NodesLayers DEF NodesBelow

LEMMA NodesOfObject ==
    ASSUME NEW d \in Nat, NEW v \in Json[d], IsObject(v, d)
    PROVE  Nodes[d][v] = {<<<<>>, AnObject>>} \cup
             UNION {{At(key, node) : node \in Nodes[d - 1][v.is[key]]} : key \in Given(v)}
<1>1. v.kind # "scalar"
  BY DEF IsObject
<1> QED BY <1>1, NodesLayers DEF NodesBelow, AnObject, At

\* Every node has a path of fields, and every value has a root.
LEMMA NodesAreNodes ==
    ASSUME NEW d \in Nat, NEW v \in Json[d]
    PROVE  Nodes[d][v] \subseteq NodeSet /\ \E x : <<<<>>, x>> \in Nodes[d][v]
<1> DEFINE S == {k \in Nat : \A w \in Json[k] :
                    Nodes[k][w] \subseteq NodeSet /\ \E x : <<<<>>, x>> \in Nodes[k][w]}
<1>1. ASSUME NEW k \in Nat, NEW w \in Json[k], w \in Scalars
      PROVE  Nodes[k][w] \subseteq NodeSet /\ \E x : <<<<>>, x>> \in Nodes[k][w]
  <2>1. <<>> \in Seq(Fields)
    OBVIOUS
  <2>2. Nodes[k][w] = {<<<<>>, w>>}
    BY <1>1, NodesOfScalar
  <2>3. <<<<>>, w>> \in NodeSet
    BY <1>1, <2>1 DEF NodeSet
  <2> QED BY <2>2, <2>3
<1>2. 0 \in S
  <2>1. \A w \in Json[0] : w \in Scalars
    BY JsonLayers
  <2> QED BY <1>1, <2>1
<1>3. ASSUME NEW k \in Nat, k \in S
      PROVE  k + 1 \in S
  <2> DEFINE n == k + 1
  <2>1. n \in Nat /\ n - 1 = k
    OBVIOUS
  <2> HIDE DEF n
  <2>2. ASSUME NEW w \in Json[n], IsObject(w, n)
        PROVE  Nodes[n][w] \subseteq NodeSet /\ <<<<>>, AnObject>> \in Nodes[n][w]
    <3>1. Nodes[n][w] = {<<<<>>, AnObject>>} \cup
            UNION {{At(key, node) : node \in Nodes[k][w.is[key]]} : key \in Given(w)}
      BY <2>1, <2>2, NodesOfObject
    <3>2. ASSUME NEW key \in Given(w), NEW node \in Nodes[k][w.is[key]]
          PROVE  At(key, node) \in NodeSet
      <4>1. key \in Fields /\ w.is[key] \in Json[k]
        BY <2>1, <2>2, GivenValues
      <4>2. node \in NodeSet
        BY <1>3, <4>1
      <4> QED BY <4>1, <4>2, Prefixed
    <3>3. <<<<>>, AnObject>> \in NodeSet
      <4>1. <<>> \in Seq(Fields)
        OBVIOUS
      <4> QED BY <4>1 DEF NodeSet
    <3> QED BY <3>1, <3>2, <3>3
  <2>3. \A w \in Json[n] : w \in Scalars \/ IsObject(w, n)
    BY <2>1, ValueKinds
  <2>4. n \in S
    BY <1>1, <2>1, <2>2, <2>3
  <2> QED BY <2>4 DEF n
<1>4. Nat \subseteq S
  <2> HIDE DEF S
  <2> QED BY <1>2, <1>3, SetInduction
<1> QED BY <1>4

-----------------------------------------------------------------------------
(* The recursion of _is_echo_subset compares nodes *)

\* What is at the root tells the kind, and a scalar by itself.
LEMMA RootsDiffer ==
    ASSUME NEW d \in Nat, NEW e \in Json[d], NEW v \in Json[d]
    PROVE  /\ e \in Scalars /\ v \in Scalars => (Nodes[d][v] \subseteq Nodes[d][e] <=> e = v)
           /\ e \in Scalars /\ IsObject(v, d) => ~(Nodes[d][v] \subseteq Nodes[d][e])
           /\ IsObject(e, d) /\ v \in Scalars => ~(Nodes[d][v] \subseteq Nodes[d][e])
<1>1. \A w \in Scalars : w # AnObject
  <2>1. AnObject.kind = "object" /\ \A w \in Scalars : w.kind = "scalar"
    BY DEF Scalars, AnObject, Object
  <2> QED BY <2>1
<1>2. ASSUME e \in Scalars, v \in Scalars
      PROVE  Nodes[d][v] \subseteq Nodes[d][e] <=> e = v
  <2>1. Nodes[d][e] = {<<<<>>, e>>} /\ Nodes[d][v] = {<<<<>>, v>>}
    BY <1>2, NodesOfScalar
  <2> QED BY <2>1
<1>3. ASSUME e \in Scalars, IsObject(v, d)
      PROVE  ~(Nodes[d][v] \subseteq Nodes[d][e])
  <2>1. Nodes[d][e] = {<<<<>>, e>>} /\ <<<<>>, AnObject>> \in Nodes[d][v]
    BY <1>3, NodesOfScalar, NodesOfObject
  <2> QED BY <1>1, <1>3, <2>1
<1>4. ASSUME IsObject(e, d), v \in Scalars
      PROVE  ~(Nodes[d][v] \subseteq Nodes[d][e])
  <2>1. Nodes[d][v] = {<<<<>>, v>>}
    BY <1>4, NodesOfScalar
  <2>2. ASSUME NEW key \in Given(e), NEW node \in Nodes[d - 1][e.is[key]]
        PROVE  At(key, node) # <<<<>>, v>>
    <3>1. key \in Fields /\ e.is[key] \in Json[d - 1] /\ d - 1 \in Nat
      BY <1>4, <2>2, GivenValues
    <3>2. node \in NodeSet
      BY <2>2, <3>1, NodesAreNodes
    <3>3. At(key, node)[1] # <<>>
      BY <3>1, <3>2, Prefixed
    <3> QED BY <3>3
  <2>3. <<<<>>, v>> \notin Nodes[d][e]
    BY <1>1, <1>4, <2>2, NodesOfObject
  <2> QED BY <2>1, <2>3
<1> QED BY <1>2, <1>3, <1>4

\* The nodes of one object are among those of another if its fields are, each with its nodes.
LEMMA NodesOfFields ==
    ASSUME NEW d \in Nat, NEW e \in Json[d], NEW v \in Json[d], IsObject(e, d), IsObject(v, d)
    PROVE  Nodes[d][v] \subseteq Nodes[d][e] <=>
             \A key \in Given(v) :
                Has(e, key) /\ Nodes[d - 1][v.is[key]] \subseteq Nodes[d - 1][e.is[key]]
<1>1. /\ Nodes[d][e] = {<<<<>>, AnObject>>} \cup
             UNION {{At(key, node) : node \in Nodes[d - 1][e.is[key]]} : key \in Given(e)}
      /\ Nodes[d][v] = {<<<<>>, AnObject>>} \cup
             UNION {{At(key, node) : node \in Nodes[d - 1][v.is[key]]} : key \in Given(v)}
  BY NodesOfObject
<1>2. ASSUME NEW w \in {e, v}, NEW key \in Given(w)
      PROVE  /\ key \in Fields /\ Nodes[d - 1][w.is[key]] \subseteq NodeSet
             /\ \E x : <<<<>>, x>> \in Nodes[d - 1][w.is[key]]
  <2>1. key \in Fields /\ w.is[key] \in Json[d - 1] /\ d - 1 \in Nat
    BY <1>2, GivenValues
  <2> QED BY <2>1, NodesAreNodes
<1>3. ASSUME \A key \in Given(v) :
                Has(e, key) /\ Nodes[d - 1][v.is[key]] \subseteq Nodes[d - 1][e.is[key]]
      PROVE  Nodes[d][v] \subseteq Nodes[d][e]
  <2>1. \A key \in Given(v) : key \in Given(e)
    BY <1>3 DEF Given
  <2> QED BY <1>1, <1>3, <2>1
<1>4. ASSUME Nodes[d][v] \subseteq Nodes[d][e], NEW key \in Given(v)
      PROVE  Has(e, key) /\ Nodes[d - 1][v.is[key]] \subseteq Nodes[d - 1][e.is[key]]
  <2>1. ASSUME NEW node \in Nodes[d - 1][v.is[key]]
        PROVE  key \in Given(e) /\ node \in Nodes[d - 1][e.is[key]]
    <3>1. node \in NodeSet /\ key \in Fields
      BY <1>2, <2>1
    <3>2. At(key, node) \in Nodes[d][v]
      BY <1>1, <2>1
    <3>3. At(key, node) \in Nodes[d][e]
      BY <1>4, <3>2
    <3>4. At(key, node) # <<<<>>, AnObject>>
      <4>1. At(key, node)[1] # <<>>
        BY <3>1, Prefixed
      <4> QED BY <4>1
    <3>5. PICK k \in Given(e) : \E n \in Nodes[d - 1][e.is[k]] : At(key, node) = At(k, n)
      BY <1>1, <3>3, <3>4
    <3>6. PICK n \in Nodes[d - 1][e.is[k]] : At(key, node) = At(k, n)
      BY <3>5
    <3>7. k \in Fields /\ n \in NodeSet
      BY <1>2, <3>6
    <3>8. key = k /\ node = n
      BY <3>1, <3>6, <3>7, Prefixed
    <3> QED BY <3>8
  <2>2. \E node : node \in Nodes[d - 1][v.is[key]]
    BY <1>2
  <2>3. key \in Given(e)
    BY <2>1, <2>2
  <2> QED BY <2>1, <2>3 DEF Given
<1> QED BY <1>3, <1>4

\* Whatever the nesting: an echo is part of a value exactly if its nodes are.
LEMMA EchoIsPartOf ==
    ASSUME NEW d \in Nat, NEW e \in Json[d], NEW v \in Json[d]
    PROVE  EchoSubset[d][e][v] <=> Nodes[d][v] \subseteq Nodes[d][e]
<1> DEFINE S == {k \in Nat : \A a, b \in Json[k] :
                    EchoSubset[k][a][b] <=> Nodes[k][b] \subseteq Nodes[k][a]}
<1>1. ASSUME NEW k \in Nat, NEW a \in Json[k], NEW b \in Json[k],
             a \in Scalars \/ b \in Scalars
      PROVE  EchoSubset[k][a][b] <=> Nodes[k][b] \subseteq Nodes[k][a]
  <2>1. EchoSubset[k][a][b] <=> Covers(EchoSubset[k - 1], a, b)
    BY ComparisonLayers
  <2>2. CASE a \in Scalars /\ b \in Scalars
    BY <2>1, <2>2, ScalarsCompared, RootsDiffer
  <2>3. CASE a \in Scalars /\ IsObject(b, k)
    <3>1. ~Covers(EchoSubset[k - 1], a, b)
      BY <2>3 DEF Covers, Scalars, IsObject
    <3> QED BY <2>1, <2>3, <3>1, RootsDiffer
  <2>4. CASE IsObject(a, k) /\ b \in Scalars
    <3>1. ~Covers(EchoSubset[k - 1], a, b)
      BY <2>4 DEF Covers, Scalars, IsObject
    <3> QED BY <2>1, <2>4, <3>1, RootsDiffer
  <2>5. (a \in Scalars \/ IsObject(a, k)) /\ (b \in Scalars \/ IsObject(b, k))
    BY ValueKinds
  <2> QED BY <1>1, <2>2, <2>3, <2>4, <2>5
<1>2. 0 \in S
  <2>1. \A w \in Json[0] : w \in Scalars
    BY JsonLayers
  <2> QED BY <1>1, <2>1
<1>3. ASSUME NEW k \in Nat, k \in S
      PROVE  k + 1 \in S
  <2> DEFINE n == k + 1
  <2>1. n \in Nat /\ n - 1 = k
    OBVIOUS
  <2> HIDE DEF n
  <2>2. ASSUME NEW a \in Json[n], NEW b \in Json[n], IsObject(a, n), IsObject(b, n)
        PROVE  EchoSubset[n][a][b] <=> Nodes[n][b] \subseteq Nodes[n][a]
    <3>1. EchoSubset[n][a][b] <=>
            \A key \in Given(b) : Has(a, key) /\ EchoSubset[k][a.is[key]][b.is[key]]
      <4>1. EchoSubset[n][a][b] <=> Covers(EchoSubset[k], a, b)
        BY <2>1, ComparisonLayers
      <4>2. a.kind = "object" /\ b.kind = "object"
        BY <2>2 DEF IsObject
      <4> QED BY <4>1, <4>2 DEF Covers
    <3>2. Nodes[n][b] \subseteq Nodes[n][a] <=>
            \A key \in Given(b) :
                Has(a, key) /\ Nodes[k][b.is[key]] \subseteq Nodes[k][a.is[key]]
      BY <2>1, <2>2, NodesOfFields
    <3>3. ASSUME NEW key \in Given(b), Has(a, key)
          PROVE  EchoSubset[k][a.is[key]][b.is[key]]
                   <=> Nodes[k][b.is[key]] \subseteq Nodes[k][a.is[key]]
      <4>1. key \in Fields /\ b.is[key] \in Json[k]
        BY <2>1, <2>2, GivenValues
      <4>2. key \in Given(a)
        BY <3>3, <4>1 DEF Given
      <4>3. a.is[key] \in Json[k]
        BY <2>1, <2>2, <4>2, GivenValues
      <4> QED BY <1>3, <4>1, <4>3
    <3> QED BY <3>1, <3>2, <3>3
  <2>3. \A w \in Json[n] : w \in Scalars \/ IsObject(w, n)
    BY <2>1, ValueKinds
  <2>4. n \in S
    BY <1>1, <2>1, <2>2, <2>3
  <2> QED BY <2>4 DEF n
<1>4. Nat \subseteq S
  <2> HIDE DEF S
  <2> QED BY <1>2, <1>3, SetInduction
<1> QED BY <1>4

\* A value has the same nodes at every depth that admits it.
LEMMA NodesStay ==
    ASSUME NEW d \in Nat, NEW v \in Json[d]
    PROVE  Nodes[d + 1][v] = Nodes[d][v]
<1> DEFINE S == {k \in Nat : \A w \in Json[k] : Nodes[k + 1][w] = Nodes[k][w]}
<1>1. ASSUME NEW k \in Nat, NEW w \in Json[k], w \in Scalars
      PROVE  Nodes[k + 1][w] = Nodes[k][w]
  <2>1. k + 1 \in Nat /\ w \in Json[k + 1]
    BY JsonGrows
  <2>2. Nodes[k][w] = {<<<<>>, w>>}
    BY <1>1, NodesOfScalar
  <2> DEFINE n == k + 1
  <2> HIDE DEF n
  <2>3. n \in Nat /\ w \in Json[n]
    BY <2>1 DEF n
  <2>4. Nodes[n][w] = {<<<<>>, w>>}
    BY <1>1, <2>3, NodesOfScalar
  <2> QED BY <2>2, <2>4 DEF n
<1>2. 0 \in S
  <2>1. \A w \in Json[0] : w \in Scalars
    BY JsonLayers
  <2> QED BY <1>1, <2>1
<1>3. ASSUME NEW k \in Nat, k \in S
      PROVE  k + 1 \in S
  <2> DEFINE n == k + 1
             m == n + 1
  <2>1. n \in Nat /\ n - 1 = k /\ m \in Nat /\ m - 1 = n
    OBVIOUS
  <2>2. Json[n] \subseteq Json[m] /\ \A w \in Json[k] : Nodes[n][w] = Nodes[k][w]
    BY <1>3, <2>1, JsonGrows
  <2> HIDE DEF n, m
  <2>3. ASSUME NEW w \in Json[n], IsObject(w, n)
        PROVE  Nodes[m][w] = Nodes[n][w]
    <3>1. w \in Json[m] /\ IsObject(w, m)
      <4>1. w \in Json[m] /\ w.kind = "object"
        BY <2>2, <2>3 DEF IsObject
      <4> QED BY <2>1, <4>1, ValueKinds
    <3>2. /\ Nodes[n][w] = {<<<<>>, AnObject>>} \cup
               UNION {{At(key, node) : node \in Nodes[k][w.is[key]]} : key \in Given(w)}
          /\ Nodes[m][w] = {<<<<>>, AnObject>>} \cup
               UNION {{At(key, node) : node \in Nodes[n][w.is[key]]} : key \in Given(w)}
      BY <2>1, <2>3, <3>1, NodesOfObject
    <3>3. ASSUME NEW key \in Given(w)
          PROVE  Nodes[n][w.is[key]] = Nodes[k][w.is[key]]
      BY <2>1, <2>2, <2>3, GivenValues
    <3> QED BY <3>2, <3>3
  <2>4. \A w \in Json[n] : w \in Scalars \/ IsObject(w, n)
    BY <2>1, ValueKinds
  <2>5. \A w \in Json[n] : Nodes[n + 1][w] = Nodes[n][w]
    BY <1>1, <2>1, <2>3, <2>4 DEF m
  <2>6. n \in S
    BY <2>1, <2>5
  <2> QED BY <2>6 DEF n
<1>4. Nat \subseteq S
  <2> HIDE DEF S
  <2> QED BY <1>2, <1>3, SetInduction
<1> QED BY <1>4

-----------------------------------------------------------------------------
(* Requests and echoes *)

IsDocument(v) == v \in Json[Nesting] /\ v.kind = "object"

LEMMA DocumentsAreObjects ==
    ASSUME NEW v, IsDocument(v)
    PROVE  v \in Json[Nesting] /\ IsObject(v, Nesting) /\ Nesting \in Nat \ {0}
<1>1. Nesting \in Nat /\ v \in Json[Nesting] /\ v.kind = "object"
  BY MatchingAssumption DEF IsDocument
<1>2. IsObject(v, Nesting)
  BY <1>1, ValueKinds
<1> QED BY <1>1, <1>2 DEF IsObject

LEMMA ObjectsAreValues ==
    ASSUME Nesting \in Nat \ {0}, NEW f \in [Fields -> Json[Nesting - 1] \cup {Absent}]
    PROVE  Object(f) \in Json[Nesting] /\ Object(f).is = f /\ IsObject(Object(f), Nesting)
<1> DEFINE d == Nesting - 1
<1>1. d \in Nat /\ d + 1 = Nesting
  OBVIOUS
<1> HIDE DEF d
<1>2. Json[Nesting] = Scalars \cup ObjectsOf(Json[d])
  BY <1>1, JsonLayers
<1>3. Object(f) \in ObjectsOf(Json[d])
  BY DEF d, Object, ObjectsOf
<1> QED BY <1>2, <1>3 DEF IsObject, Object

\* What the echo's field is compared with.
LEMMA ComparableFields ==
    ASSUME NEW e, NEW v, IsDocument(e), IsDocument(v)
    PROVE  LET c == Comparable(e, v)
           IN /\ c \in Json[Nesting] /\ IsObject(c, Nesting)
              /\ \A key \in Given(v) : c.is[key] = e.is[Counterpart(e, key)]
<1> DEFINE d == Nesting - 1
           g == [e.is EXCEPT !["id"] = e.is["urn"]]
<1>1. /\ e \in Json[Nesting] /\ IsObject(e, Nesting) /\ Nesting \in Nat \ {0}
      /\ e.is \in [Fields -> Json[d] \cup {Absent}]
  BY DocumentsAreObjects DEF IsObject
<1>2. "id" \in Fields /\ "urn" \in Fields
  BY MatchingAssumption
<1>3. CASE Has(v, "id") /\ ~Has(e, "id") /\ Has(e, "urn")
  <2>1. Comparable(e, v) = Object(g)
    BY <1>3 DEF Comparable
  <2>2. g \in [Fields -> Json[d] \cup {Absent}]
    BY <1>1, <1>2
  <2>3. g["id"] = e.is["urn"] /\ \A key \in Fields : key # "id" => g[key] = e.is[key]
    BY <1>1, <1>2
  <2> HIDE DEF g
  <2>4. Object(g) \in Json[Nesting] /\ Object(g).is = g /\ IsObject(Object(g), Nesting)
    BY <1>1, <2>2, ObjectsAreValues
  <2>5. ASSUME NEW key \in Given(v)
        PROVE  g[key] = e.is[Counterpart(e, key)]
    BY <1>3, <2>3 DEF Counterpart, Given
  <2> QED BY <2>1, <2>4, <2>5
<1>4. CASE ~(Has(v, "id") /\ ~Has(e, "id") /\ Has(e, "urn"))
  <2>1. Comparable(e, v) = e
    BY <1>4 DEF Comparable
  <2>2. ASSUME NEW key \in Given(v)
        PROVE  e.is[key] = e.is[Counterpart(e, key)]
    BY <1>4 DEF Counterpart, Given, Has
  <2> QED BY <1>1, <2>1, <2>2
<1> QED BY <1>3, <1>4

\* Whatever a request says and a device echoes, however deep, _requests_match takes the
\* echo for one of the request exactly if every path of it below a field of the request
\* leads to the same in the request (gds.py:65-83).
THEOREM MatchingIsByPaths ==
    ASSUME NEW e, NEW v, IsDocument(e), IsDocument(v)
    PROVE  RequestsMatch(e, v) <=> MatchesByPaths(e, v)
<1> DEFINE c == Comparable(e, v)
           d == Nesting - 1
           s == SharedEcho(c, v)
           f == [key \in Fields |-> IF Has(c, key) THEN v.is[key] ELSE Absent]
<1>1. /\ v \in Json[Nesting] /\ IsObject(v, Nesting) /\ Nesting \in Nat \ {0}
      /\ v.is \in [Fields -> Json[d] \cup {Absent}] /\ IsObject(e, Nesting)
      /\ e.is \in [Fields -> Json[d] \cup {Absent}]
  BY DocumentsAreObjects DEF IsObject
<1>2. /\ c \in Json[Nesting] /\ IsObject(c, Nesting)
      /\ \A key \in Given(v) : c.is[key] = e.is[Counterpart(e, key)]
  BY ComparableFields
<1>3. d \in Nat /\ d + 1 = Nesting
  BY <1>1
<1> HIDE DEF c, d
<1>4. s \in Json[Nesting] /\ IsObject(s, Nesting) /\ s.is = f
  <2>1. f \in [Fields -> Json[d] \cup {Absent}] /\ s = Object(f)
    BY <1>1 DEF SharedEcho
  <2> HIDE DEF f, s
  <2> QED BY <1>1, <2>1, ObjectsAreValues DEF d
<1>5. Given(s) = {key \in Given(v) : Has(c, key)} /\ \A key \in Given(s) : s.is[key] = v.is[key]
  BY <1>4 DEF Given, Has
<1> HIDE DEF s, f
<1>6. IsEchoSubset(c, s) <=> \A key \in Given(s) : EchoSubset[d][c.is[key]][s.is[key]]
  <2>1. IsEchoSubset(c, s) <=> Covers(EchoSubset[d], c, s)
    BY <1>1, <1>2, <1>4, ComparisonLayers DEF IsEchoSubset, d
  <2>2. c.kind = "object" /\ s.kind = "object"
    BY <1>2, <1>4 DEF IsObject
  <2> QED BY <1>5, <2>1, <2>2 DEF Covers
<1>7. ASSUME NEW key \in Given(v), Has(c, key)
      PROVE  EchoSubset[d][c.is[key]][v.is[key]]
               <=> NodesOf(v.is[key]) \subseteq NodesOf(c.is[key])
  <2>1. key \in Given(c)
    BY <1>7 DEF Given
  <2>2. v.is[key] \in Json[d] /\ c.is[key] \in Json[d]
    BY <1>1, <1>2, <2>1, GivenValues DEF d
  <2>3. \A w \in Json[d] : Nodes[Nesting][w] = Nodes[d][w]
    BY <1>3, NodesStay
  <2> QED BY <1>3, <2>2, <2>3, EchoIsPartOf DEF NodesOf
<1>8. \A key \in Given(v) : Has(c, key) <=> Has(e, Counterpart(e, key))
  BY <1>2 DEF Has
<1>9. IsEchoSubset(c, s) <=>
        \A key \in Given(v) : Has(e, Counterpart(e, key)) =>
            NodesOf(v.is[key]) \subseteq NodesOf(e.is[Counterpart(e, key)])
  BY <1>2, <1>5, <1>6, <1>7, <1>8
<1> QED BY <1>9 DEF RequestsMatch, MatchesByPaths, c, s

\* A response finds its own request whatever part of it the device repeats: an echo of the
\* request's own fields, or of parts of them, is accepted.
THEOREM OwnEchoMatches ==
    ASSUME NEW request, NEW echo, IsDocument(request), IsDocument(echo),
           echo.is["command"] = request.is["command"],
           \A key \in Given(echo) :
              /\ Has(request, key)
              /\ NodesOf(echo.is[key]) \subseteq NodesOf(request.is[key])
    PROVE  RequestsMatch(request, echo)
<1>1. \A key \in Given(echo) : Counterpart(request, key) = key
  BY DEF Counterpart
<1>2. MatchesByPaths(request, echo)
  BY <1>1 DEF MatchesByPaths
<1> QED BY <1>2, MatchingIsByPaths

\* Two requests that an echo fits say the same where it repeats a scalar that both have:
\* identical requests apart, a response is ambiguous only for what the device left out.
THEOREM EchoTellsApart ==
    ASSUME NEW a, NEW b, NEW echo, IsDocument(a), IsDocument(b), IsDocument(echo),
           RequestsMatch(a, echo), RequestsMatch(b, echo),
           NEW key \in Given(echo), echo.is[key].kind = "scalar",
           Has(a, Counterpart(a, key)), Has(b, Counterpart(b, key))
    PROVE  a.is[Counterpart(a, key)] = b.is[Counterpart(b, key)]
<1>1. echo.is[key] \in Json[Nesting] /\ echo.is[key] \in Scalars /\ Nesting \in Nat
  <2>1. /\ IsObject(echo, Nesting) /\ Nesting - 1 \in Nat /\ (Nesting - 1) + 1 = Nesting
        /\ Nesting \in Nat
    BY DocumentsAreObjects
  <2>2. echo.is[key] \in Json[Nesting - 1]
    BY <2>1, GivenValues
  <2>3. Json[Nesting - 1] \subseteq Json[Nesting]
    BY <2>1, JsonGrows
  <2>4. echo.is[key] \in Scalars
    BY <2>1, <2>2, ValueKinds DEF IsObject
  <2> QED BY <2>1, <2>2, <2>3, <2>4
<1>2. NodesOf(echo.is[key]) = {<<<<>>, echo.is[key]>>}
  BY <1>1, NodesOfScalar DEF NodesOf
<1>3. ASSUME NEW r \in {a, b}
      PROVE  r.is[Counterpart(r, key)] = echo.is[key]
  <2> DEFINE field == Counterpart(r, key)
             w == r.is[field]
  <2>1. NodesOf(echo.is[key]) \subseteq NodesOf(w)
    BY <1>3, MatchingIsByPaths DEF MatchesByPaths
  <2>2. w \in Json[Nesting]
    <3>1. /\ IsObject(r, Nesting) /\ Nesting - 1 \in Nat /\ (Nesting - 1) + 1 = Nesting
      BY DocumentsAreObjects
    <3>2. field \in Given(r)
      <4>1. Has(r, field)
        OBVIOUS
      <4>2. key \in Fields /\ "urn" \in Fields
        BY MatchingAssumption DEF Given
      <4> QED BY <4>1, <4>2 DEF Counterpart, Given
    <3>3. w \in Json[Nesting - 1]
      BY <3>1, <3>2, GivenValues
    <3>4. Json[Nesting - 1] \subseteq Json[Nesting]
      BY <3>1, JsonGrows
    <3> QED BY <3>3, <3>4
  <2> HIDE DEF w
  <2>3. w \in Scalars \/ IsObject(w, Nesting)
    BY <1>1, <2>2, ValueKinds
  <2>4. w \in Scalars /\ echo.is[key] = w
    BY <1>1, <1>2, <2>1, <2>2, <2>3, RootsDiffer DEF NodesOf
  <2> QED BY <2>4 DEF w
<1> QED BY <1>3
=============================================================================
