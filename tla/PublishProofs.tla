--------------------------- MODULE PublishProofs ---------------------------
(***************************************************************************)
(* Theorems about the numbers a scrape publishes and about the views of    *)
(* them, for whatever a node exposes: any integers, NaN and the            *)
(* infinities, any number of GPUs and of CPUs.                             *)
(***************************************************************************)
EXTENDS Publish, FiniteSetTheorems, WellFoundedInduction, TLAPS

Number == Int \cup Special

-----------------------------------------------------------------------------
(* The arithmetic of floats.  It is closed, and integers give integers     *)
(* where nothing is divided by zero.                                       *)

LEMMA SpecialFacts ==
    /\ Inf # NegInf /\ Inf # NaN /\ NegInf # NaN
    /\ Inf \notin Int /\ NegInf \notin Int /\ NaN \notin Int
    /\ None \notin Number
BY SpecialAssumption DEF Special, Infinite, Number

LEMMA PlusType ==
    ASSUME NEW a \in Number, NEW b \in Number
    PROVE  Plus(a, b) \in Number /\ (a \in Int /\ b \in Int => Plus(a, b) = a + b)
<1>1. CASE a \in Int /\ b \in Int
  BY <1>1, SpecialFacts DEF Plus, Number, Special, Infinite
<1>2. CASE NaN \in {a, b} \/ {a, b} = Infinite
  BY <1>2, SpecialFacts DEF Plus, Number, Special, Infinite
<1>3. CASE ~ (NaN \in {a, b} \/ {a, b} = Infinite) /\ {a, b} \cap Infinite # {}
  BY <1>3, SpecialFacts DEF Plus, Number, Special, Infinite
<1> QED
  BY <1>1, <1>2, <1>3 DEF Number, Special, Infinite

LEMMA MinusType ==
    ASSUME NEW a \in Number, NEW b \in Number
    PROVE  Minus(a, b) \in Number /\ (a \in Int /\ b \in Int => Minus(a, b) = a - b)
<1>1. Negated(b) \in Number /\ (b \in Int => Negated(b) = -b)
  BY SpecialFacts DEF Negated, Number, Special, Infinite
<1>2. ASSUME a \in Int, b \in Int PROVE Minus(a, b) = a - b
  BY <1>1, <1>2, PlusType DEF Minus
<1> QED
  BY <1>1, <1>2, PlusType DEF Minus

\* A comparison of numbers is what it is of integers.
LEMMA LessOfInts ==
    ASSUME NEW a \in Int, NEW b \in Int
    PROVE  (Less(a, b) <=> a < b) /\ (LessEq(a, b) <=> a <= b)
BY SpecialFacts DEF Less, LessEq, Infinite

LEMMA PositiveWhole ==
    ASSUME NEW whole \in Number, Less(0, whole)
    PROVE  ~ LessEq(whole, 0)
<1>1. CASE whole \in Int
  BY <1>1, LessOfInts
<1>2. CASE whole \in Special
  BY <1>2, SpecialFacts DEF LessEq, Less, Special, Infinite
<1> QED
  BY <1>1, <1>2 DEF Number

LEMMA QuotientType ==
    ASSUME NEW part \in Number, NEW whole \in Number, ~ Less(whole, 0)
    PROVE  /\ Quotient(part, whole) \in Number
           /\ part \in Int /\ whole \in Int /\ 0 < whole =>
                 Quotient(part, whole) = part \div whole
<1>1. CASE part \in Int /\ whole \in Int /\ 0 < whole
  <2>1. Quotient(part, whole) = part \div whole
    BY <1>1, SpecialFacts DEF Quotient, Infinite
  <2>2. part \div whole \in Int
    BY <1>1
  <2> QED
    BY <2>1, <2>2 DEF Number
<1>2. CASE part \in Int /\ whole = 0
  BY <1>2, SpecialFacts DEF Quotient, Number, Special, Infinite
<1>3. CASE part \in Special \/ whole \in Special
  BY <1>3, SpecialFacts DEF Quotient, Number, Special, Infinite
<1>4. whole \in Int => 0 <= whole
  BY LessOfInts
<1> QED
  BY <1>1, <1>2, <1>3, <1>4 DEF Number

LEMMA ClampType ==
    ASSUME NEW v \in Number
    PROVE  /\ ClampPercent(v) \in (0 .. Full) \cup {NaN}
           /\ v # NaN => ClampPercent(v) \in 0 .. Full
           /\ v \in Int => ClampPercent(v) = IF v < 0 THEN 0 ELSE IF Full < v THEN Full ELSE v
<1>1. CASE v \in Int
  BY <1>1, LessOfInts DEF ClampPercent, Full
<1>2. CASE v = NaN
  BY <1>2, SpecialFacts DEF ClampPercent, Less
<1>3. CASE v = Inf
  <2>1. ~ Less(Inf, 0) /\ Less(Full, Inf)
    BY SpecialFacts DEF Less, Full, Infinite
  <2> QED
    BY <1>3, <2>1, SpecialFacts DEF ClampPercent, Full
<1>4. CASE v = NegInf
  <2>1. Less(NegInf, 0)
    BY SpecialFacts DEF Less
  <2> QED
    BY <1>4, <2>1, SpecialFacts DEF ClampPercent, Full
<1> QED
  BY <1>1, <1>2, <1>3, <1>4, SpecialFacts DEF Number, Special, Infinite

LEMMA PercentType ==
    ASSUME NEW part \in Number, NEW whole \in Number, ~ LessEq(whole, 0)
    PROVE  /\ Percent(part, whole) \in Number
           /\ part \in Int /\ whole \in Int => Percent(part, whole) \in Int
<1> DEFINE scaled == IF part \in Special THEN part ELSE Full * part
<1>1. scaled \in Number /\ (part \in Int => scaled \in Int)
  BY SpecialFacts DEF Number, Special, Infinite, Full
<1>2. ~ Less(whole, 0)
  BY DEF LessEq
<1>3. whole \in Int => 0 < whole
  BY LessOfInts
<1>4. Percent(part, whole) = Quotient(scaled, whole)
  BY DEF Percent
<1> HIDE DEF scaled
<1>5. Percent(part, whole) \in Number
  BY <1>1, <1>2, <1>4, QuotientType
<1>6. ASSUME part \in Int, whole \in Int PROVE Percent(part, whole) \in Int
  BY <1>1, <1>2, <1>3, <1>4, <1>6, QuotientType
<1> QED
  BY <1>5, <1>6

\* What is computed from numbers is clamped to a percentage or NaN, and to a percentage
\* if they are integers.
LEMMA ClampedPercent ==
    ASSUME NEW part \in Number, NEW whole \in Number, ~ LessEq(whole, 0)
    PROVE  /\ ClampPercent(Percent(part, whole)) \in (0 .. Full) \cup {NaN}
           /\ part \in Int /\ whole \in Int => ClampPercent(Percent(part, whole)) \in 0 .. Full
BY PercentType, ClampType, SpecialFacts

-----------------------------------------------------------------------------
(* The sums over GPUs and CPUs.  A fold over a finite set is a function    *)
(* defined from itself; that there is one, and what it returns, follows    *)
(* by induction over the number of elements, which is stated for sets of   *)
(* naturals.                                                               *)

LEMMA SetInduction ==
    ASSUME NEW T \in SUBSET Nat, 0 \in T, \A n \in T : n + 1 \in T
    PROVE  T = Nat
<1> DEFINE R == OpToRel(<, Nat)
<1> SUFFICES ASSUME Nat \ T # {} PROVE FALSE
  OBVIOUS
<1>1. IsWellFoundedOn(R, Nat)
  BY NatLessThanWellFounded
<1>2. \A i, j \in Nat : i < j => <<i, j>> \in R
  BY DEF OpToRel
<1> HIDE DEF R
<1>3. PICK x \in Nat \ T : \A y \in Nat \ T : ~ (<<y, x>> \in R)
  BY <1>1, WFMin
<1>4. x - 1 \in Nat /\ x - 1 < x /\ x - 1 \notin T
  OBVIOUS
<1> QED
  BY <1>2, <1>3, <1>4

\* The value of the fold at s, given g, its values at smaller sets.
Step(m, g, s) ==
    IF s = {} THEN 0 ELSE LET x == CHOOSE x \in s : TRUE IN Plus(m[x], g[s \ {x}])

UpTo(S, n) == {s \in SUBSET S : Cardinality(s) <= n}

\* Taking the chosen element of a set away leads one level down.
LEMMA LevelDown ==
    ASSUME NEW S, IsFiniteSet(S), NEW n \in Nat, NEW s \in UpTo(S, n + 1), s # {}
    PROVE  s \ {CHOOSE x \in s : TRUE} \in UpTo(S, n)
<1> DEFINE x == CHOOSE x \in s : TRUE
<1>1. x \in s
  OBVIOUS
<1>2. IsFiniteSet(s)
  BY FS_Subset DEF UpTo
<1>3. Cardinality(s) \in Nat /\ Cardinality(s \ {x}) = Cardinality(s) - 1
  BY <1>1, <1>2, FS_RemoveElement, FS_CardinalityType
<1> QED
  BY <1>3 DEF UpTo

LEMMA Levels ==
    ASSUME NEW S, IsFiniteSet(S)
    PROVE  UpTo(S, 0) = {{}} /\ UpTo(S, Cardinality(S)) = SUBSET S /\ Cardinality(S) \in Nat
<1>1. ASSUME NEW s \in SUBSET S
      PROVE  /\ IsFiniteSet(s) /\ Cardinality(s) \in Nat
             /\ Cardinality(s) <= Cardinality(S) /\ (Cardinality(s) = 0 <=> s = {})
  BY FS_Subset, FS_EmptySet, FS_CardinalityType
<1> QED
  BY <1>1, FS_CardinalityType DEF UpTo

LEMMA FoldExists ==
    ASSUME NEW S, IsFiniteSet(S), NEW m
    PROVE  \E g : g = [s \in SUBSET S |-> Step(m, g, s)]
<1> DEFINE T == {n \in Nat : \E g : g = [s \in UpTo(S, n) |-> Step(m, g, s)]}
<1>1. 0 \in T
  <2> DEFINE g == [s \in UpTo(S, 0) |-> 0]
  <2>1. g = [s \in UpTo(S, 0) |-> Step(m, g, s)]
    BY Levels DEF Step
  <2> QED
    BY <2>1
<1>2. ASSUME NEW n \in T PROVE n + 1 \in T
  <2>1. PICK g : g = [s \in UpTo(S, n) |-> Step(m, g, s)]
    OBVIOUS
  <2> DEFINE h == [s \in UpTo(S, n + 1) |-> Step(m, g, s)]
  <2>2. UpTo(S, n) \subseteq UpTo(S, n + 1)
    BY FS_Subset, FS_CardinalityType DEF UpTo
  <2>3. \A s \in UpTo(S, n) : h[s] = g[s]
    BY <2>1, <2>2
  <2>4. ASSUME NEW s \in UpTo(S, n + 1) PROVE Step(m, g, s) = Step(m, h, s)
    <3> HIDE DEF h
    <3>1. s # {} => s \ {CHOOSE x \in s : TRUE} \in UpTo(S, n)
      BY LevelDown
    <3> QED
      BY <2>3, <3>1 DEF Step
  <2>5. h = [s \in UpTo(S, n + 1) |-> Step(m, h, s)]
    BY <2>4
  <2> HIDE DEF h
  <2>6. \E f : f = [s \in UpTo(S, n + 1) |-> Step(m, f, s)]
    BY <2>5
  <2> QED
    BY <2>6
<1>3. T = Nat
  <2> HIDE DEF T
  <2>1. T \in SUBSET Nat
    BY DEF T
  <2> QED
    BY <1>1, <1>2, <2>1, SetInduction
<1>4. Cardinality(S) \in T /\ UpTo(S, Cardinality(S)) = SUBSET S
  BY <1>3, Levels
<1>5. \E g : g = [s \in UpTo(S, Cardinality(S)) |-> Step(m, g, s)]
  BY <1>4
<1> QED
  BY <1>4, <1>5, Zenon

\* A sum of numbers is a number, and one of integers an integer.
LEMMA SumType ==
    ASSUME NEW m, NEW S, IsFiniteSet(S), \A k \in S : m[k] \in Number
    PROVE  /\ FoldFunctionOnSet(Plus, 0, m, S) \in Number
           /\ (\A k \in S : m[k] \in Int) => FoldFunctionOnSet(Plus, 0, m, S) \in Int
<1> DEFINE g == CHOOSE h : h = [s \in SUBSET S |-> Step(m, h, s)]
           Typed(s) == g[s] \in Number /\ ((\A k \in S : m[k] \in Int) => g[s] \in Int)
           T == {n \in Nat : \A s \in UpTo(S, n) : Typed(s)}
<1>1. g = [s \in SUBSET S |-> Step(m, g, s)]
  BY FoldExists
<1>2. FoldFunctionOnSet(Plus, 0, m, S) = g[S]
  BY Zenon DEF FoldFunctionOnSet, MapThenFoldSet, Step
<1> HIDE DEF g
<1>3. 0 \in T
  <2>1. g[{}] = 0
    BY <1>1 DEF Step
  <2> QED
    BY <2>1, Levels DEF Number
<1>4. ASSUME NEW n \in T PROVE n + 1 \in T
  <2> SUFFICES ASSUME NEW s \in UpTo(S, n + 1) PROVE Typed(s)
    OBVIOUS
  <2>1. s \in SUBSET S
    BY DEF UpTo
  <2>2. CASE s = {}
    BY <1>1, <2>2 DEF Step, Number
  <2>3. CASE s # {}
    <3> DEFINE x == CHOOSE x \in s : TRUE
    <3>1. g[s] = Plus(m[x], g[s \ {x}])
      BY <1>1, <2>1, <2>3 DEF Step
    <3>2. x \in S
      BY <2>1, <2>3
    <3>3. Typed(s \ {x})
      BY <2>3, LevelDown
    <3> HIDE DEF x
    <3> QED
      BY <3>1, <3>2, <3>3, PlusType
  <2> QED
    BY <2>2, <2>3
<1>5. T = Nat
  <2> HIDE DEF T
  <2>1. T \in SUBSET Nat
    BY DEF T
  <2> QED
    BY <1>3, <1>4, <2>1, SetInduction
<1>6. Typed(S)
  BY <1>5, Levels
<1> QED
  BY <1>2, <1>6

-----------------------------------------------------------------------------
(* What a collector computes of a body: a percentage or nothing, or NaN of *)
(* a body that holds a special value.                                      *)

Parsed(m) == IsFiniteSet(DOMAIN m) /\ \A k \in DOMAIN m : m[k] \in Number

Plain(m) == \A k \in DOMAIN m : m[k] \in Int

LEMMA PlainBodies ==
    ASSUME NEW m, Parsed(m)
    PROVE  Plain(m) <=> Range(m) \cap Special = {}
BY SpecialFacts DEF Parsed, Plain, Range, Number, Special, Infinite

Percentage(v, m) ==
    v \in (0 .. Full) \cup {None, NaN} /\ (Plain(m) => v \in (0 .. Full) \cup {None})

LEMMA ArcType ==
    ASSUME NEW m, Parsed(m)
    PROVE  Arc(m) \in Number /\ (Plain(m) => Arc(m) \in Nat)
<1>1. CASE Has(m, "ARC") /\ Less(0, m["ARC"])
  BY <1>1, LessOfInts DEF Arc, Has, Parsed, Plain
<1>2. CASE ~ (Has(m, "ARC") /\ Less(0, m["ARC"]))
  BY <1>2 DEF Arc, Number
<1> QED
  BY <1>1, <1>2

LEMMA UsedBytesType ==
    ASSUME NEW m, Parsed(m), Has(m, "MemTotal"), Has(m, "MemAvailable")
    PROVE  UsedBytes(m) \in Number /\ (Plain(m) => UsedBytes(m) \in Int)
<1> DEFINE used == Minus(m["MemTotal"], m["MemAvailable"])
           rest == Minus(used, Arc(m))
<1>1. m["MemTotal"] \in Number /\ m["MemAvailable"] \in Number
      /\ (Plain(m) => m["MemTotal"] \in Int /\ m["MemAvailable"] \in Int)
  BY DEF Has, Parsed, Plain
<1>2. used \in Number /\ (Plain(m) => used \in Int)
  BY <1>1, MinusType
<1> HIDE DEF used
<1>3. rest \in Number /\ (Plain(m) => rest \in Int)
  BY <1>2, ArcType, MinusType
<1>4. UsedBytes(m) \in {used, 0, rest}
  BY DEF UsedBytes, used
<1> QED
  BY <1>2, <1>3, <1>4 DEF Number

LEMMA CachedBytesType ==
    ASSUME NEW m, Parsed(m)
    PROVE  CachedBytes(m) \in Number /\ (Plain(m) => CachedBytes(m) \in Int)
<1> DEFINE cached == IF Has(m, "Cached") THEN m["Cached"] ELSE 0
<1>1. cached \in Number /\ (Plain(m) => cached \in Int)
  BY DEF Has, Parsed, Plain, Number
<1> HIDE DEF cached
<1>2. CachedBytes(m) = Plus(cached, Arc(m))
  BY DEF CachedBytes, cached
<1> QED
  BY <1>1, <1>2, ArcType, PlusType

LEMMA NodeExporterPercentages ==
    ASSUME NEW m, Parsed(m)
    PROVE  Percentage(MemUsed(m), m) /\ Percentage(MemCached(m), m) /\ Percentage(SwapUsed(m), m)
<1>1. Percentage(None, m)
  BY DEF Percentage
<1>2. ASSUME ~ NoMemTotal(m)
      PROVE  /\ Has(m, "MemTotal") /\ m["MemTotal"] \in Number /\ ~ LessEq(m["MemTotal"], 0)
             /\ Plain(m) => m["MemTotal"] \in Int
  BY <1>2 DEF NoMemTotal, Has, Parsed, Plain
<1>3. Percentage(MemUsed(m), m)
  <2>1. CASE NoMemTotal(m) \/ ~ Has(m, "MemAvailable")
    BY <1>1, <2>1 DEF MemUsed
  <2>2. CASE ~ (NoMemTotal(m) \/ ~ Has(m, "MemAvailable"))
    <3>1. MemUsed(m) = ClampPercent(Percent(UsedBytes(m), m["MemTotal"]))
      BY <2>2 DEF MemUsed
    <3> QED
      BY <1>2, <2>2, <3>1, UsedBytesType, ClampedPercent DEF Percentage
  <2> QED
    BY <2>1, <2>2
<1>4. Percentage(MemCached(m), m)
  <2>1. CASE NoMemTotal(m) \/ (~ Has(m, "Cached") /\ Arc(m) = 0)
    BY <1>1, <2>1 DEF MemCached
  <2>2. CASE ~ (NoMemTotal(m) \/ (~ Has(m, "Cached") /\ Arc(m) = 0))
    <3>1. MemCached(m) = ClampPercent(Percent(CachedBytes(m), m["MemTotal"]))
      BY <2>2 DEF MemCached
    <3> QED
      BY <1>2, <2>2, <3>1, CachedBytesType, ClampedPercent DEF Percentage
  <2> QED
    BY <2>1, <2>2
<1>5. Percentage(SwapUsed(m), m)
  <2>1. CASE ~ (Has(m, "SwapTotal") /\ Has(m, "SwapFree") /\ Less(0, m["SwapTotal"]))
    BY <1>1, <2>1 DEF SwapUsed
  <2>2. CASE Has(m, "SwapTotal") /\ Has(m, "SwapFree") /\ Less(0, m["SwapTotal"])
    <3> DEFINE used == Minus(m["SwapTotal"], m["SwapFree"])
    <3>1. m["SwapTotal"] \in Number /\ m["SwapFree"] \in Number
          /\ (Plain(m) => m["SwapTotal"] \in Int /\ m["SwapFree"] \in Int)
      BY <2>2 DEF Has, Parsed, Plain
    <3>2. used \in Number /\ (Plain(m) => used \in Int)
      BY <3>1, MinusType
    <3>3. SwapUsed(m) = ClampPercent(Percent(used, m["SwapTotal"]))
      BY <2>2 DEF SwapUsed
    <3>4. ~ LessEq(m["SwapTotal"], 0)
      BY <2>2, <3>1, PositiveWhole
    <3> HIDE DEF used
    <3> QED
      BY <3>1, <3>2, <3>3, <3>4, ClampedPercent DEF Percentage
  <2> QED
    BY <2>1, <2>2
<1> QED
  BY <1>3, <1>4, <1>5

LEMMA NvMonitorPercentages ==
    ASSUME NEW m, Parsed(m)
    PROVE  /\ Percentage(NvCpu(m), m) /\ Percentage(NvGpu(m), m)
           /\ \A part, whole : Percentage(NvPart(m, part, whole), m)
<1>1. Percentage(None, m)
  BY DEF Percentage
<1>2. ASSUME NEW v \in Number, Plain(m) => v \in Int
      PROVE  Percentage(ClampPercent(v), m)
  BY <1>2, ClampType, SpecialFacts DEF Percentage
<1>3. Percentage(NvCpu(m), m)
  <2>1. \A k \in DOMAIN m : Percentage(ClampPercent(m[k]), m)
    BY <1>2 DEF Parsed, Plain
  <2> QED
    BY <1>1, <2>1 DEF NvCpu, Has
<1>4. Percentage(NvGpu(m), m)
  <2> DEFINE S == GpuSeries(m)
             sum == FoldFunctionOnSet(Plus, 0, m, S)
  <2>1. CASE S = {}
    BY <1>1, <2>1 DEF NvGpu
  <2>2. CASE S # {}
    <3>1. IsFiniteSet(S) /\ \A k \in S : k \in DOMAIN m
      BY FS_Subset DEF GpuSeries, Parsed
    <3>2. Cardinality(S) \in Nat \ {0}
      BY <2>2, <3>1, FS_EmptySet, FS_CardinalityType
    <3> HIDE DEF S
    <3>3. sum \in Number /\ (Plain(m) => sum \in Int)
      BY <3>1, SumType DEF Parsed, Plain
    <3>4. NvGpu(m) = ClampPercent(Quotient(sum, Cardinality(S)))
      BY <2>2 DEF NvGpu, S
    <3> HIDE DEF sum
    <3>5. Cardinality(S) \in Number /\ ~ Less(Cardinality(S), 0)
      BY <3>2, LessOfInts DEF Number
    <3>6. Quotient(sum, Cardinality(S)) \in Number
          /\ (Plain(m) => Quotient(sum, Cardinality(S)) \in Int)
      BY <3>2, <3>3, <3>5, QuotientType
    <3> QED
      BY <1>2, <3>4, <3>6
  <2> QED
    BY <2>1, <2>2
<1>5. ASSUME NEW part, NEW whole PROVE Percentage(NvPart(m, part, whole), m)
  <2>1. CASE ~ (Has(m, whole) /\ Has(m, part) /\ Less(0, m[whole]))
    BY <1>1, <2>1 DEF NvPart
  <2>2. CASE Has(m, whole) /\ Has(m, part) /\ Less(0, m[whole])
    <3>1. m[part] \in Number /\ m[whole] \in Number
          /\ (Plain(m) => m[part] \in Int /\ m[whole] \in Int)
      BY <2>2 DEF Has, Parsed, Plain
    <3>2. NvPart(m, part, whole) = ClampPercent(Percent(m[part], m[whole]))
      BY <2>2 DEF NvPart
    <3>3. ~ LessEq(m[whole], 0)
      BY <2>2, <3>1, PositiveWhole
    <3> QED
      BY <3>1, <3>2, <3>3, ClampedPercent DEF Percentage
  <2> QED
    BY <2>1, <2>2
<1> QED
  BY <1>3, <1>4, <1>5

-----------------------------------------------------------------------------
(* The usage of the CPU, of the counters of two scrapes.                   *)

CpuPercentage(v, m, old) ==
    /\ v \in (0 .. Full) \cup {None, NaN}
    /\ Plain(m) /\ Plain(old) => v \in (0 .. Full) \cup {None}

LEMMA ElapsedType ==
    ASSUME NEW m, Parsed(m), NEW old, Parsed(old), NEW S \in SUBSET Counted(m, old)
    PROVE  /\ Elapsed(m, old, S) \in Number
           /\ Plain(m) /\ Plain(old) => Elapsed(m, old, S) \in Int
<1> DEFINE d == [k \in S |-> Minus(m[k], old[k])]
<1>1. S \subseteq DOMAIN m /\ S \subseteq DOMAIN old
  BY DEF Counted, CpuSeries
<1>2. IsFiniteSet(S)
  BY <1>1, FS_Subset DEF Parsed
<1>3. \A k \in S : /\ d[k] \in Number
                   /\ Plain(m) /\ Plain(old) => d[k] \in Int
  <2> SUFFICES ASSUME NEW k \in S
               PROVE  /\ Minus(m[k], old[k]) \in Number
                      /\ Plain(m) /\ Plain(old) => Minus(m[k], old[k]) \in Int
    OBVIOUS
  <2>1. m[k] \in Number /\ old[k] \in Number
    BY <1>1 DEF Parsed
  <2>2. Plain(m) /\ Plain(old) => m[k] \in Int /\ old[k] \in Int
    BY <1>1 DEF Plain
  <2> QED
    BY <2>1, <2>2, MinusType
<1>4. Elapsed(m, old, S) = FoldFunctionOnSet(Plus, 0, d, S)
  BY DEF Elapsed
<1> HIDE DEF d
<1> QED
  BY <1>2, <1>3, <1>4, SumType

LEMMA CpuUsageType ==
    ASSUME NEW m, Parsed(m), NEW old, Parsed(old)
    PROVE  CpuPercentage(CpuUsage(m, old), m, old)
<1> DEFINE total == Elapsed(m, old, Counted(m, old))
           idle  == Elapsed(m, old, Counted(m, old) \cap Idle)
           plain == Plain(m) /\ Plain(old)
<1>1. total \in Number /\ (plain => total \in Int) /\ idle \in Number /\ (plain => idle \in Int)
  BY ElapsedType
<1>2. CpuUsage(m, old) = IF LessEq(total, 0) THEN None ELSE Share(idle, total)
  BY DEF CpuUsage
<1> HIDE DEF total, idle
<1>3. CASE LessEq(total, 0)
  BY <1>2, <1>3 DEF CpuPercentage
<1>4. CASE ~ LessEq(total, 0)
  <2> DEFINE part == Percent(idle, total)
  <2>1. part \in Number /\ (plain => part \in Int)
    BY <1>1, <1>4, PercentType
  <2> HIDE DEF part
  <2>2. Full \in Int /\ Full \in Number
    BY DEF Full, Number
  <2>3. Minus(Full, part) \in Number /\ (plain => Minus(Full, part) \in Int)
    BY <2>1, <2>2, MinusType
  <2>4. CpuUsage(m, old) = ClampPercent(Minus(Full, part))
    BY <1>2, <1>4 DEF Share, part
  <2>5. plain => Minus(Full, part) # NaN
    BY <2>3, SpecialFacts
  <2> QED
    BY <2>3, <2>4, <2>5, ClampType DEF CpuPercentage
<1> QED
  BY <1>3, <1>4

-----------------------------------------------------------------------------
(* What a scrape publishes.                                                *)

FieldsTyped(s, m, old) ==
    /\ DOMAIN s = {"name", "collects", "reachable"} \cup Fields
    /\ \A f \in Fields : Percentage(s[f], m) \/ (f = "cpu" /\ CpuPercentage(s[f], m, old))

LEMMA NothingTyped ==
    ASSUME NEW m, NEW old
    PROVE  FieldsTyped(Nothing(node), m, old)
BY DEF Nothing, FieldsTyped, Fields, Percentage

LEMMA NodeExporterTyped ==
    ASSUME NEW m, Parsed(m), NEW old, Parsed(old)
    PROVE  FieldsTyped(NodeExporter(m, old), m, old)
<1> DEFINE s == NodeExporter(m, old)
<1>1. Percentage(None, m) /\ CpuPercentage(None, m, old)
  BY DEF Percentage, CpuPercentage
<1>2. /\ s.cpu = Wanted("cpu", CpuUsage(m, old)) /\ s.gpu = None
      /\ s.memUsed = Wanted("mem", MemUsed(m))
      /\ s.memCached = Wanted("mem", MemCached(m))
      /\ s.swapUsed = Wanted("swap", SwapUsed(m))
      /\ DOMAIN s = {"name", "collects", "reachable"} \cup Fields
  BY DEF NodeExporter, Nothing, Fields
<1> HIDE DEF s
<1>3. CpuPercentage(s.cpu, m, old)
  BY <1>1, <1>2, CpuUsageType DEF Wanted
<1>4. /\ Percentage(s.gpu, m) /\ Percentage(s.memUsed, m)
      /\ Percentage(s.memCached, m) /\ Percentage(s.swapUsed, m)
  BY <1>1, <1>2, NodeExporterPercentages DEF Wanted
<1>5. FieldsTyped(s, m, old)
  BY <1>2, <1>3, <1>4 DEF FieldsTyped, Fields
<1> QED
  BY <1>5 DEF s

LEMMA NvMonitorTyped ==
    ASSUME NEW m, Parsed(m), NEW old
    PROVE  FieldsTyped(NvMonitor(m), m, old)
<1> DEFINE s == NvMonitor(m)
<1>1. Percentage(None, m)
  BY DEF Percentage
<1>2. /\ s.cpu = Wanted("cpu", NvCpu(m)) /\ s.gpu = Wanted("gpu", NvGpu(m))
      /\ s.memUsed = Wanted("mem", NvPart(m, "used", "total"))
      /\ s.memCached = Wanted("mem", NvPart(m, "bufcache", "total"))
      /\ s.swapUsed = Wanted("swap", NvPart(m, "swap used", "swap total"))
      /\ DOMAIN s = {"name", "collects", "reachable"} \cup Fields
  BY DEF NvMonitor, Nothing, Fields
<1> HIDE DEF s
<1>3. /\ Percentage(s.cpu, m) /\ Percentage(s.gpu, m) /\ Percentage(s.memUsed, m)
      /\ Percentage(s.memCached, m) /\ Percentage(s.swapUsed, m)
  BY <1>1, <1>2, NvMonitorPercentages DEF Wanted
<1>4. FieldsTyped(s, m, old)
  BY <1>2, <1>3 DEF FieldsTyped, Fields
<1> QED
  BY <1>4 DEF s

-----------------------------------------------------------------------------
(* The invariant: a node that is reachable has the state that its body is  *)
(* collected to, with the counters of some scrape before; every other node *)
(* has none.                                                               *)

Collected ==
    IF node.fmt = "node-exporter"
    THEN \E old : Parsed(old) /\ state = NodeExporter(body, old)
    ELSE state = NvMonitor(body)

IInv ==
    /\ node \in Nodes /\ Parsed(body) /\ Parsed(prev)
    /\ Collected \/ state = Nothing(node)

LEMMA ParsedEmpty == Parsed(<< >>)
<1>1. DOMAIN << >> = {}
  OBVIOUS
<1> QED
  BY <1>1, FS_EmptySet DEF Parsed

LEMMA InvInit == Init => IInv
BY ParsedEmpty DEF Init, IInv

LEMMA SampledParsed ==
    ASSUME NEW m, Parsed(m), NEW old, Parsed(old)
    PROVE  Parsed(Sampled(m, old))
<1> DEFINE r == Restrict(m, CpuSeries(m))
<1>1. CpuSeries(m) \subseteq DOMAIN m
  BY DEF CpuSeries
<1>2. IsFiniteSet(CpuSeries(m))
  BY <1>1, FS_Subset DEF Parsed
<1>3. Parsed(r)
  BY <1>1, <1>2 DEF Restrict, Parsed
<1> QED
  BY <1>3 DEF Sampled

LEMMA InvNext == IInv /\ [Next]_vars => IInv'
<1> SUFFICES ASSUME IInv, [Next]_vars PROVE IInv'
  OBVIOUS
<1>1. node \in Nodes /\ Parsed(body) /\ Parsed(prev)
  BY DEF IInv
<1>2. CASE Collect
  <2>1. node' = node /\ body' \in Bodies[node.fmt] /\ node.fmt \in DOMAIN Bodies
    BY <1>1, <1>2, NodesAssumption DEF Collect
  <2>2. Parsed(body')
    BY <2>1, BodiesAssumption DEF Parsed, Number
  <2>3. Parsed(prev')
    BY <1>1, <1>2, <2>2, SampledParsed DEF Collect
  <2>4. Collected'
    <3>1. CASE node.fmt = "node-exporter"
      <4>1. state' = NodeExporter(body', prev)
        BY <1>2, <3>1 DEF Collect
      <4>2. \E old : Parsed(old) /\ state' = NodeExporter(body', old)
        BY <1>1, <4>1
      <4> QED
        BY <2>1, <3>1, <4>2 DEF Collected, NodeExporter, Nothing, Wanted
    <3>2. CASE node.fmt # "node-exporter"
      BY <1>2, <2>1, <3>2 DEF Collect, Collected, NvMonitor, Nothing, Wanted
    <3> QED
      BY <3>1, <3>2
  <2> QED
    BY <1>1, <2>1, <2>2, <2>3, <2>4 DEF IInv, Parsed
<1>3. CASE CollectFails
  <2>1. Parsed(body')
    BY <1>3, ParsedEmpty DEF CollectFails
  <2> QED
    BY <1>1, <1>3, <2>1 DEF CollectFails, IInv, Parsed
<1>4. CASE UNCHANGED vars
  BY <1>4 DEF vars, IInv, Parsed, Collected, NodeExporter, NvMonitor, Nothing, Wanted
<1> QED
  BY <1>2, <1>3, <1>4 DEF Next

LEMMA Inductive == Spec => []IInv
BY InvInit, InvNext, PTL DEF Spec

LEMMA StateTyped == IInv => \E old : FieldsTyped(state, body, old)
<1> SUFFICES ASSUME IInv PROVE \E old : FieldsTyped(state, body, old)
  OBVIOUS
<1> QED
  BY NothingTyped, NodeExporterTyped, NvMonitorTyped DEF IInv, Collected

\* Whatever a node exposes, a percentage that is published of it is one, and NaN is
\* published only of a node that exposes NaN or an infinity, or whose CPU counters did in
\* the scrape before.
THEOREM AlwaysPercentUnlessNaN == Spec => PercentUnlessNaN
<1> DEFINE Fine(f) == \/ state'[f] \in (0 .. Full) \cup {None}
                      \/ state'[f] = NaN /\ (Exposed(body') \/ (f = "cpu" /\ Exposed(prev)))
<1>1. ASSUME IInv, Next PROVE \A f \in Fields : Fine(f)
  <2>1. /\ node \in Nodes /\ Parsed(prev) /\ Parsed(body')
    <3>1. IInv'
      BY <1>1, InvNext
    <3> QED
      BY <1>1, <3>1 DEF IInv, Parsed
  <2>2. FieldsTyped(state', body', prev)
    <3>1. CASE Collect
      <4>1. state' = NodeExporter(body', prev) \/ state' = NvMonitor(body')
        BY <3>1 DEF Collect
      <4> QED
        BY <2>1, <4>1, NodeExporterTyped, NvMonitorTyped
    <3>2. CASE CollectFails
      BY <3>2, NothingTyped DEF CollectFails
    <3> QED
      BY <1>1, <3>1, <3>2 DEF Next
  <2>3. (Plain(body') <=> ~ Exposed(body')) /\ (Plain(prev) <=> ~ Exposed(prev))
    BY <2>1, PlainBodies DEF Exposed
  <2> QED
    BY <2>2, <2>3 DEF FieldsTyped, Percentage, CpuPercentage
<1>2. IInv /\ [Next]_vars => [\A f \in Fields : Fine(f)]_vars
  BY <1>1
<1> QED
  BY <1>2, Inductive, PTL DEF Spec, PercentUnlessNaN

-----------------------------------------------------------------------------
(* The README's formulas.                                                  *)

\* The percentage of integers is the README's, and nothing of what is not positive.
LEMMA IntPercent ==
    ASSUME NEW part \in Int, NEW whole \in Int, 0 < whole
    PROVE  /\ ClampPercent(Percent(part, whole)) = PercentOf(part, whole)
           /\ part <= 0 => PercentOf(part, whole) = 0
<1> DEFINE p == Full * part
           q == p \div whole
<1>1. part \notin Special /\ p \in Int /\ ~ Less(whole, 0)
  BY SpecialFacts, LessOfInts DEF Special, Infinite, Full
<1>2. Percent(part, whole) = q
  BY <1>1, QuotientType DEF Percent, Number
<1>3. part <= 0 => p <= 0
  BY DEF Full
<1> HIDE DEF p
<1>4. q \in Int /\ (p <= 0 => q <= 0)
  BY <1>1
<1>5. PercentOf(part, whole) = IF q < 0 THEN 0 ELSE IF q > Full THEN Full ELSE q
  BY DEF PercentOf, p
<1> HIDE DEF q
<1>6. ClampPercent(q) = IF q < 0 THEN 0 ELSE IF Full < q THEN Full ELSE q
  BY <1>4, ClampType DEF Number
<1>7. ClampPercent(Percent(part, whole)) = PercentOf(part, whole)
  BY <1>2, <1>4, <1>5, <1>6 DEF Full
<1>8. part <= 0 => PercentOf(part, whole) = 0
  BY <1>3, <1>4, <1>5 DEF Full
<1> QED
  BY <1>7, <1>8

LEMMA DocumentedMemory ==
    ASSUME NEW m, Parsed(m), Plain(m), Amount(m, "MemTotal") > 0
    PROVE  LET total == Amount(m, "MemTotal")
               arc   == IF Amount(m, "ARC") > 0 THEN Amount(m, "ARC") ELSE 0
           IN  /\ MemUsed(m) =
                    IF Has(m, "MemAvailable")
                    THEN PercentOf(total - m["MemAvailable"] - arc, total) ELSE None
               /\ MemCached(m) =
                    IF Has(m, "Cached") \/ arc > 0
                    THEN PercentOf(Amount(m, "Cached") + arc, total) ELSE None
<1> DEFINE total  == m["MemTotal"]
           arc    == IF Amount(m, "ARC") > 0 THEN Amount(m, "ARC") ELSE 0
           cached == Amount(m, "Cached")
<1>1. /\ Has(m, "MemTotal") /\ Amount(m, "MemTotal") = total
      /\ total \in Int /\ 0 < total /\ ~ NoMemTotal(m)
  BY LessOfInts DEF Amount, NoMemTotal, Has, Plain
<1>2. Arc(m) = arc /\ arc \in Nat
  BY LessOfInts DEF Amount, Arc, Has, Plain
<1>3. cached \in Int /\ cached = IF Has(m, "Cached") THEN m["Cached"] ELSE 0
  BY DEF Amount, Has, Plain
<1> HIDE DEF arc, total, cached
<1>4. ASSUME Has(m, "MemAvailable")
      PROVE  MemUsed(m) = PercentOf(total - m["MemAvailable"] - arc, total)
  <2> DEFINE used == total - m["MemAvailable"]
  <2>1. m["MemAvailable"] \in Int /\ used \in Int /\ used - arc \in Int
    BY <1>1, <1>2, <1>4 DEF Has, Plain
  <2>2. Minus(total, m["MemAvailable"]) = used
    BY <1>1, <2>1, MinusType DEF Number
  <2> HIDE DEF used
  <2>3. Minus(used, arc) = used - arc
    BY <1>2, <2>1, MinusType DEF Number
  <2>4. UsedBytes(m) = IF arc = 0 THEN used ELSE IF used - arc < 0 THEN 0 ELSE used - arc
    BY <1>2, <2>1, <2>2, <2>3, LessOfInts DEF UsedBytes, total
  <2>5. MemUsed(m) = ClampPercent(Percent(UsedBytes(m), total))
    BY <1>1, <1>4 DEF MemUsed, total
  <2>6. CASE UsedBytes(m) = used - arc
    BY <1>1, <2>1, <2>5, <2>6, IntPercent DEF used
  <2>7. CASE UsedBytes(m) = 0 /\ used - arc < 0
    BY <1>1, <2>1, <2>5, <2>7, IntPercent DEF used
  <2> QED
    BY <1>2, <2>1, <2>4, <2>6, <2>7
<1>5. ASSUME Has(m, "Cached") \/ arc > 0
      PROVE  MemCached(m) = PercentOf(cached + arc, total)
  <2>1. CachedBytes(m) = Plus(cached, arc)
    BY <1>2, <1>3 DEF CachedBytes
  <2>2. CachedBytes(m) = cached + arc
    <3>1. cached \in Number /\ arc \in Number /\ arc \in Int
      BY <1>2, <1>3 DEF Number
    <3> QED
      BY <1>3, <2>1, <3>1, PlusType
  <2>3. MemCached(m) = ClampPercent(Percent(cached + arc, total))
    BY <1>1, <1>2, <1>5, <2>2 DEF MemCached, total
  <2> QED
    BY <1>1, <1>2, <1>3, <2>3, IntPercent
<1>6. ~ Has(m, "MemAvailable") => MemUsed(m) = None
  BY DEF MemUsed
<1>7. ~ (Has(m, "Cached") \/ arc > 0) => MemCached(m) = None
  BY <1>2 DEF MemCached
<1> QED
  BY <1>1, <1>4, <1>5, <1>6, <1>7 DEF arc, cached

LEMMA DocumentedSwap ==
    ASSUME NEW m, Parsed(m), Plain(m)
    PROVE  SwapUsed(m) =
             IF Amount(m, "SwapTotal") > 0 /\ Has(m, "SwapFree")
             THEN PercentOf(m["SwapTotal"] - m["SwapFree"], m["SwapTotal"]) ELSE None
<1> DEFINE total == m["SwapTotal"]
           free  == m["SwapFree"]
<1>1. CASE ~ (Amount(m, "SwapTotal") > 0 /\ Has(m, "SwapFree"))
  BY <1>1, LessOfInts DEF Amount, SwapUsed, Has, Plain
<1>2. CASE Amount(m, "SwapTotal") > 0 /\ Has(m, "SwapFree")
  <2>1. Has(m, "SwapTotal") /\ total \in Int /\ free \in Int /\ 0 < total
    BY <1>2 DEF Amount, Has, Plain
  <2>2. SwapUsed(m) = ClampPercent(Percent(Minus(total, free), total))
    BY <1>2, <2>1, LessOfInts DEF SwapUsed
  <2> HIDE DEF total, free
  <2>3. Minus(total, free) = total - free
    BY <2>1, MinusType DEF Number
  <2>4. SwapUsed(m) = PercentOf(total - free, total)
    BY <2>1, <2>2, <2>3, IntPercent
  <2> QED
    BY <1>2, <2>4 DEF total, free
<1> QED
  BY <1>1, <1>2

LEMMA DocumentedHolds ==
    ASSUME NEW m, Parsed(m), Plain(m), NEW old
    PROVE  Documented(m, NodeExporter(m, old))
<1> DEFINE s     == NodeExporter(m, old)
           total == Amount(m, "MemTotal")
           arc   == IF Amount(m, "ARC") > 0 THEN Amount(m, "ARC") ELSE 0
           mem   == "mem" \in node.collects /\ total > 0
           swap  == "swap" \in node.collects /\ Amount(m, "SwapTotal") > 0
<1>1. /\ s.memUsed = Wanted("mem", MemUsed(m)) /\ s.memCached = Wanted("mem", MemCached(m))
      /\ s.swapUsed = Wanted("swap", SwapUsed(m))
  BY DEF NodeExporter, Nothing
<1> HIDE DEF s
<1>2. ~ (total > 0) => NoMemTotal(m)
  BY LessOfInts DEF Amount, NoMemTotal, Has, Plain
<1>3. s.memUsed = IF mem /\ Has(m, "MemAvailable")
                  THEN PercentOf(total - m["MemAvailable"] - arc, total) ELSE None
  BY <1>1, <1>2, DocumentedMemory DEF Wanted, MemUsed
<1>4. s.memCached = IF mem /\ (Has(m, "Cached") \/ arc > 0)
                    THEN PercentOf(Amount(m, "Cached") + arc, total) ELSE None
  BY <1>1, <1>2, DocumentedMemory DEF Wanted, MemCached
<1>5. s.swapUsed = IF swap /\ Has(m, "SwapFree")
                   THEN PercentOf(m["SwapTotal"] - m["SwapFree"], m["SwapTotal"]) ELSE None
  BY <1>1, DocumentedSwap DEF Wanted
<1> HIDE DEF mem, swap, total, arc
<1> QED
  BY <1>3, <1>4, <1>5 DEF Documented, mem, swap, total, arc, s

\* Of every body of integers, the memory and swap that are published are those of the
\* README's formulas, and there is no value where the body lacks an operand.
THEOREM AlwaysMatchesReadme == Spec => []MatchesReadme
<1>1. ASSUME IInv PROVE MatchesReadme
  <2> SUFFICES ASSUME node.fmt = "node-exporter", state.reachable, ~ Exposed(body)
               PROVE  Documented(body, state)
    BY DEF MatchesReadme
  <2>1. Parsed(body) /\ Plain(body)
    BY <1>1, PlainBodies DEF IInv, Exposed
  <2>2. PICK old : state = NodeExporter(body, old)
    BY <1>1 DEF IInv, Collected, Nothing
  <2> QED
    BY <2>1, <2>2, DocumentedHolds
<1> QED
  BY <1>1, Inductive, PTL

-----------------------------------------------------------------------------
(* The views.                                                              *)

SnapTyped ==
    \A i \in DOMAIN snap :
        /\ DOMAIN snap[i] = {"name", "collects", "reachable"} \cup Fields
        /\ \A f \in Fields : snap[i][f] \in (0 .. Full) \cup {None, NaN}

LEMMA SnapIsTyped == IInv => SnapTyped
BY StateTyped, PeerAssumption DEF snap, SnapTyped, FieldsTyped, Percentage, CpuPercentage

\* A field without a value is in no view, and this holds of any snapshot.
LEMMA NothingInventedAnyway == NothingInvented
<1> SUFFICES ASSUME NEW i \in DOMAIN snap, NEW f \in Fields, snap[i][f] = None
             PROVE  /\ JSON # None => ~ Has(JSON[i], f)
                    /\ \A list \in Lists : snap[i] \notin Range(Family(f, list))
                    /\ \A k \in DOMAIN HtmlRow(snap[i]) : FieldOf[k] = f =>
                          HtmlRow(snap[i])[k] = <<"na", None>> /\ Tile(snap[i])[k] = None
                    /\ \A list \in Lists : Circle(list) # << >> /\ First(list) = snap[i] =>
                          /\ f = "cpu" => Circle(list).cpu = None
                          /\ f = "memUsed" => Circle(list).mem = None
  BY DEF NothingInvented
<1> DEFINE s == snap[i]
<1> HIDE DEF s
<1>1. JSON # None => ~ Has(JSON[i], f)
  <2> SUFFICES ASSUME JSON # None PROVE f \notin DOMAIN JSON[i]
    BY DEF Has
  <2>1. JSON = [j \in DOMAIN snap |-> Encoded(snap[j])]
    BY DEF JSON
  <2>2. DOMAIN JSON[i] = {g \in DOMAIN s : g \in Fields => s[g] # None}
    BY <2>1 DEF Encoded, Restrict, s
  <2> QED
    BY <2>2 DEF s
<1>2. ASSUME NEW list \in Lists PROVE s \notin Range(Family(f, list))
  <2> SUFFICES ASSUME NEW k \in DOMAIN Family(f, list), Family(f, list)[k] = s PROVE FALSE
    BY DEF Range
  <2>1. k \in DOMAIN Selected(list) /\ Selected(list)[k][f] # None
        /\ Family(f, list)[k] = Selected(list)[k]
    BY DEF Family, Restrict
  <2> QED
    BY <2>1 DEF s
<1>3. ASSUME NEW k \in DOMAIN HtmlRow(s), FieldOf[k] = f
      PROVE  HtmlRow(s)[k] = <<"na", None>> /\ Tile(s)[k] = None
  <2>1. s[f] = None
    BY DEF s
  <2>2. k \in IF s.reachable THEN s.collects \cap Kinds ELSE {}
    BY DEF HtmlRow
  <2>3. HtmlRow(s)[k] = <<HtmlLevel(s[f]), HtmlText(s[f])>>
    BY <1>3, <2>2 DEF HtmlRow
  <2>4. Tile(s)[k] = MeterText(s[f])
    BY <1>3, <2>2 DEF Tile
  <2> QED
    BY <2>1, <2>3, <2>4 DEF HtmlLevel, HtmlText, MeterText
<1>4. ASSUME NEW list \in Lists, Circle(list) # << >>, First(list) = s
      PROVE  (f = "cpu" => Circle(list).cpu = None) /\ (f = "memUsed" => Circle(list).mem = None)
  <2>1. Circle(list) = [cpu |-> Gauge(s, "cpu"), mem |-> Gauge(s, "memUsed")]
    BY <1>4 DEF Circle
  <2>2. Gauge(s, f) = None
    BY DEF Gauge, s
  <2> QED
    BY <2>1, <2>2
<1> QED
  BY <1>1, <1>2, <1>3, <1>4 DEF s

\* Whatever is scraped of a node, what is missing is not shown as a number by any view.
THEOREM NeverInvents == Spec => []NothingInvented
BY NothingInventedAnyway, PTL

\* The texts of one value on both pages.
LEMMA TextsAgree ==
    ASSUME NEW v \in 0 .. Full
    PROVE  IF v % 4 = 1 THEN FmtPct(v) = HtmlText(v) + 1 ELSE FmtPct(v) = HtmlText(v)
<1>1. v \in Int /\ v # NaN /\ v # None
  BY SpecialFacts DEF Full, Number
<1>2. FmtPct(v) = (v + 1) \div 2
  BY <1>1 DEF FmtPct, MathRound
<1>3. HtmlText(v) = IF v % 4 = 3 THEN v \div 2 + 1 ELSE v \div 2
  BY <1>1 DEF HtmlText, Deref, Printf
<1> QED
  BY <1>1, <1>2, <1>3 DEF Full

LEMMA LevelsAgree ==
    ASSUME NEW v, v # NaN
    PROVE  HtmlLevel(v) = ScriptLevel(v)
BY DEF HtmlLevel, ScriptLevel

\* Every row of the page that is loaded is the row of the page that is refreshed.
THEOREM PagesAlwaysAgree == Spec => []PagesAgree
<1>1. ASSUME IInv, JSON # None, NEW i \in DOMAIN snap
      PROVE  LET html   == HtmlRow(snap[i])
                 script == ScriptRow(JSON[i])
             IN  /\ DOMAIN html = DOMAIN script
                 /\ \A k \in DOMAIN html :
                       /\ html[k][1] = script[k][1]
                       /\ IF snap[i][FieldOf[k]] # None /\ snap[i][FieldOf[k]] % 4 = 1
                          THEN script[k][2] = html[k][2] + 1
                          ELSE script[k][2] = html[k][2]
  <2> DEFINE s == snap[i]
             j == JSON[i]
  <2>1. JSON = [l \in DOMAIN snap |-> Encoded(snap[l])] /\ Encodable(s)
    BY <1>1 DEF JSON
  <2>2. DOMAIN s = {"name", "collects", "reachable"} \cup Fields
        /\ \A f \in Fields : s[f] \in (0 .. Full) \cup {None}
    BY <1>1, <2>1, SnapIsTyped DEF SnapTyped, Encodable, Special
  <2>3. j = [f \in {f \in DOMAIN s : f \in Fields => s[f] # None} |-> s[f]]
    BY <2>1 DEF Encoded, Restrict
  <2> HIDE DEF s, j
  <2>4. j.reachable = s.reachable /\ j.collects = s.collects
    BY <2>2, <2>3 DEF Fields
  <2>5. ASSUME NEW k \in Kinds PROVE FieldOf[k] \in Fields /\ Value(j, k) = s[FieldOf[k]]
    <3>1. FieldOf[k] \in Fields
      BY DEF FieldOf, Kinds, Fields
    <3> QED
      BY <2>2, <2>3, <3>1 DEF Value, Has
  <2>6. DOMAIN HtmlRow(s) = DOMAIN ScriptRow(j) /\ DOMAIN HtmlRow(s) \subseteq Kinds
    BY <2>4 DEF HtmlRow, ScriptRow
  <2>7. ASSUME NEW k \in DOMAIN HtmlRow(s)
        PROVE  /\ HtmlRow(s)[k][1] = ScriptRow(j)[k][1]
               /\ IF s[FieldOf[k]] # None /\ s[FieldOf[k]] % 4 = 1
                  THEN ScriptRow(j)[k][2] = HtmlRow(s)[k][2] + 1
                  ELSE ScriptRow(j)[k][2] = HtmlRow(s)[k][2]
    <3> DEFINE v == s[FieldOf[k]]
    <3>1. HtmlRow(s)[k] = <<HtmlLevel(v), HtmlText(v)>>
      BY DEF HtmlRow
    <3>2. ScriptRow(j)[k] = <<ScriptLevel(v), FmtPct(v)>>
      BY <2>4, <2>5, <2>6 DEF HtmlRow, ScriptRow
    <3>3. v \in (0 .. Full) \cup {None} /\ v # NaN
      BY <2>2, <2>5, <2>6, SpecialFacts DEF Number, Special, Full
    <3> HIDE DEF v
    <3>4. CASE v = None
      BY <3>1, <3>2, <3>3, <3>4, LevelsAgree DEF HtmlText, FmtPct, v
    <3>5. CASE v # None
      BY <3>1, <3>2, <3>3, <3>5, LevelsAgree, TextsAgree DEF v
    <3> QED
      BY <3>4, <3>5
  <2> QED
    BY <2>6, <2>7 DEF s, j
<1>2. IInv => PagesAgree
  BY <1>1 DEF PagesAgree
<1> QED
  BY <1>2, Inductive, PTL

=============================================================================
