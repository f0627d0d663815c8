-------------------------- MODULE RunReadingsProofs --------------------------
(* Theorems about the numbers of a run, for whatever run_condition may read: *)
(* windows of any length, any counters, any plan and any options.            *)
EXTENDS RunReadings, ConditionsProofs

-----------------------------------------------------------------------------
(* Order statistics                                                          *)

(* What Sorted counts of values[i]: the values that come before it, and it.  *)
Precede(values, i) ==
    {j \in DOMAIN values :
        values[j] < values[i] \/ (values[j] = values[i] /\ j <= i)}

(* The values that are no greater than one of them.                          *)
UpTo(values, i) == {j \in DOMAIN values : values[j] <= values[i]}

(* Such sets are finite, and no larger than the sequence.                    *)
LEMMA PartOfSequence ==
    ASSUME NEW n \in Nat, NEW S \in SUBSET (1..n)
    PROVE  IsFiniteSet(S) /\ Cardinality(S) \in 0..n
<1>1. IsFiniteSet(1..n) /\ Cardinality(1..n) = n
  <2>1. 1 \in Int /\ n \in Int
    OBVIOUS
  <2>2. /\ IsFiniteSet(1..n)
        /\ Cardinality(1..n) = IF 1 > n THEN 0 ELSE n - 1 + 1
    BY <2>1, FS_Interval
  <2> QED BY <2>2
<1>2. /\ IsFiniteSet(S) /\ Cardinality(S) <= Cardinality(1..n)
  BY <1>1, FS_Subset
<1>3. Cardinality(S) \in Nat
  BY <1>2, FS_CardinalityType
<1> QED BY <1>1, <1>2, <1>3

(* Of two values, one comes before the other, so that the positions they get *)
(* differ, and every position is taken by one.                               *)
LEMMA PositionsAreTaken ==
    ASSUME NEW values \in Seq(Nat), NEW n \in 1..Len(values)
    PROVE  \E i \in 1..Len(values) : Cardinality(Precede(values, i)) = n
<1> DEFINE L == Len(values)
           position == [i \in 1..L |-> Cardinality(Precede(values, i))]
<1>1. /\ L \in Nat /\ DOMAIN values = 1..L
      /\ \A i \in 1..L : values[i] \in Nat
  BY LenProperties, ElementOfSeq
<1> HIDE DEF L
<1>2. ASSUME NEW i \in 1..L
      PROVE  /\ Precede(values, i) \in SUBSET (1..L)
             /\ IsFiniteSet(Precede(values, i))
             /\ i \in Precede(values, i)
             /\ Cardinality(Precede(values, i)) \in 1..L
  <2>1. Precede(values, i) \in SUBSET (1..L) /\ i \in Precede(values, i)
    BY <1>1 DEF Precede
  <2>2. /\ IsFiniteSet(Precede(values, i))
        /\ Cardinality(Precede(values, i)) \in 0..L
    BY <1>1, <2>1, PartOfSequence
  <2>3. Cardinality(Precede(values, i)) # 0
    BY <2>1, <2>2, FS_EmptySet
  <2> QED BY <1>1, <2>1, <2>2, <2>3
<1>3. ASSUME NEW i \in 1..L, NEW j \in 1..L,
             values[i] < values[j] \/ (values[i] = values[j] /\ i < j)
      PROVE  Cardinality(Precede(values, i)) < Cardinality(Precede(values, j))
  <2>1. /\ Precede(values, i) \subseteq Precede(values, j) \ {j}
        /\ j \in Precede(values, j)
    BY <1>1, <1>3 DEF Precede
  <2>2. Cardinality(Precede(values, i)) <= Cardinality(Precede(values, j)) - 1
    BY <1>2, <2>1, LosesOne
  <2> QED BY <1>2, <2>2
<1>4. position \in Injection(1..L, 1..L)
  <2>1. position \in [1..L -> 1..L]
    BY <1>2
  <2>2. ASSUME NEW i \in 1..L, NEW j \in 1..L, i # j
        PROVE  position[i] # position[j]
    <3>1. \/ values[i] < values[j] \/ (values[i] = values[j] /\ i < j)
          \/ values[j] < values[i] \/ (values[j] = values[i] /\ j < i)
      BY <1>1, <2>2
    <3>2. position[i] \in 1..L /\ position[j] \in 1..L
      BY <1>2
    <3> QED BY <1>1, <1>3, <3>1, <3>2
  <2> HIDE DEF position
  <2> QED BY <2>1, <2>2 DEF Injection, IsInjective
<1>5. IsFiniteSet(1..L)
  BY <1>1, PartOfSequence
<1>6. position \in Surjection(1..L, 1..L)
  BY <1>4, <1>5, FS_Injection
<1>7. \E i \in 1..L : position[i] = n
  <2> HIDE DEF position
  <2> QED BY <1>6 DEF Surjection, L
<1> QED BY <1>7 DEF L

(* The rank, rounded up, is the least one that reaches the percentage.       *)
LEMMA RankReaches ==
    ASSUME NEW n \in Nat \ {0}, NEW percent \in 1..100
    PROVE  LET rank == (percent * n + 99) \div 100
           IN  /\ rank \in 1..n
               /\ rank * 100 >= percent * n
               /\ (rank - 1) * 100 < percent * n
<1> DEFINE m == percent * n
           q == (m + 99) \div 100
           r == (m + 99) % 100
<1>1. m \in Nat /\ 1 <= m /\ m <= 100 * n
  <2>1. /\ \A a \in Nat : a * n \in Nat
        /\ \A a, b \in Nat : a <= b => a * n <= b * n
    OBVIOUS
  <2>2. 1 * n <= m /\ m <= 100 * n
    BY <2>1
  <2> QED BY <2>1, <2>2
<1> HIDE DEF m
<1>2. q \in Nat /\ r \in 0..99 /\ m + 99 = (100 * q) + r
  <2> DEFINE a == m + 99
             d == 100
  <2>1. a \in Nat /\ d \in Nat \ {0} /\ d - 1 = 99
    BY <1>1
  <2> HIDE DEF a, d
  <2>2. a \div d \in Nat /\ a % d \in 0..99 /\ a = (d * (a \div d)) + (a % d)
    BY <2>1, DivisionWithRest
  <2> QED BY <2>2 DEF a, d
<1> HIDE DEF q, r
<1>3. q * 100 >= m /\ (q - 1) * 100 < m
  BY <1>1, <1>2
<1>4. q \in 1..n
  BY <1>1, <1>2, <1>3
<1> QED BY <1>3, <1>4 DEF m, q

(* Percentile returns a value that the percentage of them does not exceed,   *)
(* and no smaller one is like that.                                          *)
LEMMA PercentileRank ==
    ASSUME NEW values \in Seq(Nat), values # <<>>, NEW percent \in 1..100
    PROVE  \E i \in 1..Len(values) :
              /\ Percentile(values, percent) = values[i]
              /\ Cardinality(UpTo(values, i)) * 100 >= percent * Len(values)
              /\ \A j \in 1..Len(values) : values[j] < values[i] =>
                    Cardinality(UpTo(values, j)) * 100
                        < percent * Len(values)
<1> DEFINE L == Len(values)
           m == percent * Len(values)
           rank == (percent * Len(values) + 99) \div 100
           At(i) == Cardinality(Precede(values, i)) = rank
           i == CHOOSE i \in DOMAIN values : At(i)
<1>1. /\ L \in Nat /\ DOMAIN values = 1..L
      /\ \A j \in 1..L : values[j] \in Nat
  BY LenProperties, ElementOfSeq
<1>2. L # 0
  BY <1>1, EmptySeq
<1>3. m \in Nat /\ rank \in 1..L /\ rank * 100 >= m /\ (rank - 1) * 100 < m
  <2>1. rank \in 1..L /\ rank * 100 >= m /\ (rank - 1) * 100 < m
    BY <1>1, <1>2, RankReaches
  <2>2. percent \in Nat
    OBVIOUS
  <2> QED BY <1>1, <2>1, <2>2
<1>4. i \in 1..L /\ At(i)
  <2>1. \E j \in 1..L : At(j)
    BY <1>3, PositionsAreTaken
  <2> QED BY <1>1, <2>1
<1>5. Percentile(values, percent) = values[i]
  <2>1. Percentile(values, percent) =
           Sorted(values)[Min({Monus(rank, 1), L - 1}) + 1]
    BY DEF Percentile
  <2>2. Monus(rank, 1) = rank - 1
    BY <1>3 DEF Monus
  <2>3. Min({rank - 1, L - 1}) = rank - 1
    BY <1>1, <1>3 DEF Min
  <2>4. Sorted(values)[rank] = values[i]
    BY <1>1, <1>3 DEF Sorted, Precede
  <2>5. (rank - 1) + 1 = rank
    BY <1>3
  <2> QED BY <2>1, <2>2, <2>3, <2>4, <2>5
<1> HIDE DEF i, rank, m
<1>6. ASSUME NEW j \in 1..L
      PROVE  /\ UpTo(values, j) \in SUBSET (1..L)
             /\ Precede(values, j) \subseteq UpTo(values, j)
             /\ IsFiniteSet(UpTo(values, j))
             /\ Cardinality(UpTo(values, j)) \in Nat
  <2>1. /\ UpTo(values, j) \in SUBSET (1..L)
        /\ Precede(values, j) \subseteq UpTo(values, j)
    BY <1>1 DEF UpTo, Precede
  <2> QED BY <1>1, <2>1, PartOfSequence
<1>7. Cardinality(UpTo(values, i)) * 100 >= m
  <2>1. rank <= Cardinality(UpTo(values, i))
    BY <1>4, <1>6, FS_Subset
  <2> QED BY <1>3, <1>4, <1>6, <2>1
<1>8. ASSUME NEW j \in 1..L, values[j] < values[i]
      PROVE  Cardinality(UpTo(values, j)) * 100 < m
  <2>1. /\ UpTo(values, j) \subseteq Precede(values, i) \ {i}
        /\ i \in Precede(values, i)
    BY <1>1, <1>4, <1>8 DEF UpTo, Precede
  <2>2. IsFiniteSet(Precede(values, i))
    BY <1>4, <1>6, FS_Subset
  <2>3. Cardinality(UpTo(values, j)) <= rank - 1
    BY <1>4, <2>1, <2>2, LosesOne
  <2> QED BY <1>3, <1>6, <2>3
<1> QED BY <1>4, <1>5, <1>7, <1>8 DEF m

(* The value in the last position is the greatest.                           *)
LEMMA GreatestValue ==
    ASSUME NEW values \in Seq(Nat), values # <<>>
    PROVE  \E i \in 1..Len(values) :
              \A j \in 1..Len(values) : values[j] <= values[i]
<1> DEFINE L == Len(values)
<1>1. /\ L \in Nat /\ DOMAIN values = 1..L
      /\ \A i \in 1..L : values[i] \in Nat
  BY LenProperties, ElementOfSeq
<1>2. L \in 1..L
  BY <1>1, EmptySeq
<1>3. PICK i \in 1..L : Cardinality(Precede(values, i)) = L
  BY <1>2, PositionsAreTaken
<1>4. Precede(values, i) = 1..L
  <2>1. Precede(values, i) \in SUBSET (1..L)
    BY <1>1 DEF Precede
  <2>2. IsFiniteSet(1..L) /\ Cardinality(1..L) = L
    <3>1. 1 \in Int /\ L \in Int
      BY <1>1
    <3>2. Cardinality(1..L) = IF 1 > L THEN 0 ELSE L - 1 + 1
      BY <3>1, FS_Interval
    <3>3. IsFiniteSet(1..L)
      BY <3>1, FS_Interval
    <3> QED BY <1>1, <1>2, <3>2, <3>3
  <2> QED BY <1>3, <2>1, <2>2, FS_Subset
<1>5. ASSUME NEW j \in 1..L PROVE values[j] <= values[i]
  <2>1. values[j] < values[i] \/ values[j] = values[i]
    BY <1>4 DEF Precede
  <2> QED BY <1>1, <2>1
<1> QED BY <1>5

-----------------------------------------------------------------------------
(* The health window                                                         *)

Latencies(probes) == [i \in DOMAIN probes |-> probes[i].latency]

LEMMA LatenciesType ==
    ASSUME NEW probes \in Seq(Probes)
    PROVE  /\ Latencies(probes) \in Seq(Nat)
           /\ Len(Latencies(probes)) = Len(probes) /\ Len(probes) \in Nat
           /\ DOMAIN probes = 1..Len(probes)
           /\ \A i \in 1..Len(probes) :
                 /\ Latencies(probes)[i] = probes[i].latency
                 /\ probes[i].latency \in Nat
           /\ probes = <<>> <=> Latencies(probes) = <<>>
           /\ probes # <<>> => Len(probes) # 0
<1> DEFINE L == Len(probes)
<1>1. L \in Nat /\ DOMAIN probes = 1..L
  BY LenProperties
<1>2. \A i \in 1..L : probes[i].latency \in Nat
  <2>1. \A i \in 1..L : probes[i] \in Probes
    BY ElementOfSeq
  <2> QED BY <2>1 DEF Probes
<1>3. Latencies(probes) = [i \in 1..L |-> probes[i].latency]
  BY <1>1 DEF Latencies
<1>4. Latencies(probes) \in [1..L -> Nat]
  BY <1>2, <1>3
<1>5. Latencies(probes) \in Seq(Nat) /\ Len(Latencies(probes)) = L
  BY <1>1, <1>4, LenProperties
<1>6. /\ probes = <<>> <=> L = 0
      /\ Latencies(probes) = <<>> <=> L = 0
  BY <1>5, EmptySeq
<1> QED BY <1>1, <1>2, <1>3, <1>5, <1>6

(* The percentile of a window is one of its latencies.                       *)
LEMMA SummaryPercentile ==
    ASSUME NEW probes \in Seq(Probes), probes # <<>>
    PROVE  LET L == Len(probes)
               Within(latency) ==
                   Cardinality({i \in DOMAIN probes :
                                   probes[i].latency <= latency})
           IN  \E i \in 1..L :
                 /\ Summary(probes).p95 = probes[i].latency
                 /\ Within(probes[i].latency) * 100 >= 95 * L
                 /\ \A j \in 1..L : probes[j].latency < probes[i].latency =>
                       Within(probes[j].latency) * 100 < 95 * L
<1> DEFINE lat == Latencies(probes)
           L == Len(probes)
<1>1. /\ lat \in Seq(Nat) /\ Len(lat) = L /\ lat # <<>>
      /\ DOMAIN probes = 1..L
      /\ \A i \in 1..L : lat[i] = probes[i].latency
  BY LatenciesType
<1>2. DOMAIN lat = 1..L
  BY <1>1, LenProperties
<1>3. Summary(probes).p95 = Percentile(lat, 95)
  BY DEF Summary, Latencies
<1> HIDE DEF lat, L
<1> DEFINE Within(latency) ==
             Cardinality({j \in DOMAIN probes : probes[j].latency <= latency})
<1>4. \A i \in 1..L : Cardinality(UpTo(lat, i)) = Within(probes[i].latency)
  <2>1. ASSUME NEW i \in 1..L
        PROVE  UpTo(lat, i) =
                  {j \in DOMAIN probes : probes[j].latency <= probes[i].latency}
    BY <1>1, <1>2 DEF UpTo
  <2> QED BY <2>1
<1>5. 95 \in 1..100
  OBVIOUS
<1>6. \E i \in 1..Len(lat) :
         /\ Percentile(lat, 95) = lat[i]
         /\ Cardinality(UpTo(lat, i)) * 100 >= 95 * Len(lat)
         /\ \A j \in 1..Len(lat) : lat[j] < lat[i] =>
               Cardinality(UpTo(lat, j)) * 100 < 95 * Len(lat)
  <2> HIDE DEF Within
  <2> QED BY <1>1, <1>5, PercentileRank
<1> HIDE DEF Within
<1>7. PICK i \in 1..L :
         /\ Percentile(lat, 95) = lat[i]
         /\ Cardinality(UpTo(lat, i)) * 100 >= 95 * L
         /\ \A j \in 1..L : lat[j] < lat[i] =>
               Cardinality(UpTo(lat, j)) * 100 < 95 * L
  BY <1>1, <1>6
<1>8. /\ Summary(probes).p95 = probes[i].latency
      /\ Within(probes[i].latency) * 100 >= 95 * L
  BY <1>1, <1>3, <1>4, <1>7
<1>9. \A j \in 1..L : probes[j].latency < probes[i].latency =>
         Within(probes[j].latency) * 100 < 95 * L
  BY <1>1, <1>4, <1>7
<1> QED BY <1>8, <1>9 DEF L, Within

(* What ServiceHealthSummary::validate looks at.                             *)
LEMMA SummaryType ==
    ASSUME NEW probes \in Seq(Probes)
    PROVE  LET health == Summary(probes)
           IN  /\ health.checks = Len(probes) /\ Len(probes) \in Nat
               /\ health.successes \in 0..Len(probes)
               /\ health.p95 \in Nat /\ health.max \in Nat
               /\ health.p95 <= health.max
               /\ probes # <<>> <=> Len(probes) > 0
<1> DEFINE lat == Latencies(probes)
           L == Len(probes)
           values == {0} \cup Range(lat)
<1>1. /\ lat \in Seq(Nat) /\ Len(lat) = L /\ L \in Nat
      /\ DOMAIN probes = 1..L /\ (lat = <<>> <=> probes = <<>>)
  BY LatenciesType
<1>2. /\ DOMAIN lat = 1..L /\ \A i \in 1..L : lat[i] \in Nat
      /\ probes # <<>> <=> L > 0
  BY <1>1, LenProperties, ElementOfSeq, EmptySeq
<1>3. /\ Summary(probes).checks = L
      /\ Summary(probes).successes =
            Cardinality({i \in 1..L : probes[i].success})
      /\ Summary(probes).p95 = Percentile(lat, 95)
      /\ Summary(probes).max = Max(values)
  BY <1>1 DEF Summary, Latencies
<1>4. Cardinality({i \in 1..L : probes[i].success}) \in 0..L
  BY <1>1, PartOfSequence
<1> HIDE DEF lat, L
<1>5. /\ values \in SUBSET Nat
      /\ \E m \in values : \A v \in values : m >= v
  <2>1. CASE lat = <<>>
    <3>1. values = {0}
      BY <1>1, <1>2, <2>1 DEF Range
    <3> QED BY <3>1
  <2>2. CASE lat # <<>>
    <3>1. PICK i \in 1..L : \A j \in 1..L : lat[j] <= lat[i]
      BY <1>1, <2>2, GreatestValue
    <3>2. lat[i] \in values /\ \A v \in values : lat[i] >= v
      BY <1>2, <3>1 DEF Range
    <3>3. values \in SUBSET Nat
      BY <1>2 DEF Range
    <3> QED BY <3>2, <3>3
  <2> QED BY <2>1, <2>2
<1>6. Max(values) \in values /\ \A v \in values : Max(values) >= v
  BY <1>5 DEF Max
<1>7. Percentile(lat, 95) \in values
  <2>1. CASE lat = <<>>
    BY <2>1 DEF Percentile
  <2>2. CASE lat # <<>>
    <3>1. 95 \in 1..100
      OBVIOUS
    <3>2. \E i \in 1..L : Percentile(lat, 95) = lat[i]
      BY <1>1, <2>2, <3>1, PercentileRank
    <3> QED BY <1>2, <3>2 DEF Range
  <2> QED BY <2>1, <2>2
<1>8. Percentile(lat, 95) \in Nat /\ Percentile(lat, 95) <= Max(values)
  <2> HIDE DEF values
  <2> QED BY <1>5, <1>6, <1>7
<1> QED BY <1>1, <1>2, <1>3, <1>4, <1>5, <1>6, <1>8 DEF L

-----------------------------------------------------------------------------
(* What a reading is read as                                                 *)

(* Whatever the run starts from and reads is a reading.                      *)
LEMMA ReadableAlways == Spec => [](read \in Readable)
<1>1. Init => read \in Readable
  BY ReadingsAssumption DEF Init
<1>2. read \in Readable /\ [RunCondition]_read => (read \in Readable)'
  BY ReadingsAssumption DEF RunCondition
<1> QED BY <1>1, <1>2, PTL DEF Spec

(* The fields of a reading.                                                  *)
LEMMA ReadableFields ==
    ASSUME read \in Readable
    PROVE  /\ read.condition \in Plan /\ read.probes \in Seq(Probes)
           /\ read.milliseconds \in Nat /\ read.ticks \in Nat
           /\ read.sent[1] \in Nat /\ read.sent[2] \in Nat
           /\ read.received[1] \in Nat /\ read.received[2] \in Nat
           /\ read.cpu[1] \in [1..10 -> Nat] /\ read.cpu[2] \in [1..10 -> Nat]
           /\ read.answer \in {"native", "generic", "absent"}
<1>1. /\ read.condition \in Plan /\ read.probes \in Seq(Probes)
      /\ read.milliseconds \in Nat /\ read.ticks \in Nat
      /\ read.sent \in [1..2 -> Nat] /\ read.received \in [1..2 -> Nat]
      /\ read.cpu \in [1..2 -> [1..10 -> Nat]]
      /\ read.answer \in {"native", "generic", "absent"}
  BY DEF Readable
<1>2. 1 \in 1..2 /\ 2 \in 1..2
  OBVIOUS
<1>3. /\ read.sent[1] \in Nat /\ read.sent[2] \in Nat
      /\ read.received[1] \in Nat /\ read.received[2] \in Nat
  BY <1>1, <1>2
<1>4. read.cpu[1] \in [1..10 -> Nat] /\ read.cpu[2] \in [1..10 -> Nat]
  BY <1>1, <1>2
<1> QED BY <1>1, <1>3, <1>4

(* PercentileIsNearestRank, for a window of any length.                      *)
LEMMA PercentileOfAny == read \in Readable => PercentileIsNearestRank
<1> SUFFICES ASSUME read \in Readable, read.probes # <<>>
             PROVE  PercentileIsNearestRank
  BY DEF PercentileIsNearestRank
<1> DEFINE probes == read.probes
           L == Len(probes)
           Within(latency) ==
               Cardinality({i \in DOMAIN probes : probes[i].latency <= latency})
           Reaches(latency) == Within(latency) * 100 >= 95 * L
           Reached == {probes[i].latency : i \in
                          {j \in DOMAIN probes : Reaches(probes[j].latency)}}
<1>1. /\ probes \in Seq(Probes) /\ probes # <<>>
  BY ReadableFields
<1>2. PICK i \in 1..L :
         /\ Summary(probes).p95 = probes[i].latency
         /\ Within(probes[i].latency) * 100 >= 95 * L
         /\ \A j \in 1..L : probes[j].latency < probes[i].latency =>
               Within(probes[j].latency) * 100 < 95 * L
  BY <1>1, SummaryPercentile
<1>3. /\ DOMAIN probes = 1..L /\ L \in Nat
      /\ \A j \in 1..L : probes[j].latency \in Nat
  BY <1>1, LatenciesType
<1>4. ASSUME NEW j \in 1..L PROVE Within(probes[j].latency) \in Nat
  <2>1. {k \in DOMAIN probes : probes[k].latency <= probes[j].latency}
           \in SUBSET (1..L)
    BY <1>3
  <2> QED BY <1>3, <2>1, PartOfSequence
<1> HIDE DEF probes, L, Within
<1>5. probes[i].latency \in Reached
  BY <1>2, <1>3
<1>6. ASSUME NEW v \in Reached PROVE probes[i].latency <= v
  <2>1. PICK j \in 1..L : v = probes[j].latency /\ Reaches(probes[j].latency)
    BY <1>3
  <2>2. ~(probes[j].latency < probes[i].latency)
    BY <1>2, <1>3, <1>4, <2>1
  <2> QED BY <1>3, <2>1, <2>2
<1>7. Reached \in SUBSET Nat
  BY <1>3
<1>8. Min(Reached) = probes[i].latency
  <2> HIDE DEF Reached
  <2>1. Min(Reached) \in Reached /\ \A v \in Reached : Min(Reached) <= v
    BY <1>5, <1>6 DEF Min
  <2>2. Min(Reached) <= probes[i].latency /\ probes[i].latency <= Min(Reached)
    BY <1>5, <1>6, <2>1
  <2>3. Min(Reached) \in Nat /\ probes[i].latency \in Nat
    BY <1>3, <1>7, <2>1
  <2> QED BY <2>2, <2>3
<1> QED BY <1>2, <1>8 DEF PercentileIsNearestRank, probes, L, Within

(* MaintainedMeansServed, for a window of any length and any limits.         *)
LEMMA MaintainedOfAny == read \in Readable => MaintainedMeansServed
<1> DEFINE probes == read.probes
           L == Len(probes)
           Answered == {i \in DOMAIN probes : probes[i].success}
           InTime == {i \in DOMAIN probes : probes[i].latency <= MaxP95}
<1> SUFFICES ASSUME read \in Readable, ServiceMaintained(Summary(probes))
             PROVE  /\ Cardinality(Answered) * 100 >= MinSuccessPercent * L
                    /\ Cardinality(InTime) * 100 >= 95 * L
  BY DEF MaintainedMeansServed
<1>1. probes \in Seq(Probes)
  BY ReadableFields
<1>2. /\ DOMAIN probes = 1..L /\ L \in Nat
      /\ \A j \in 1..L : probes[j].latency \in Nat
  BY <1>1, LatenciesType
<1>3. Cardinality(Answered) * 100 >= MinSuccessPercent * L
  BY DEF ServiceMaintained, Summary
<1>4. Summary(probes).p95 <= MaxP95 /\ probes # <<>> /\ MaxP95 \in Nat
  BY <1>1, SummaryType, ThresholdAssumption DEF ServiceMaintained
<1> DEFINE Within(latency) ==
               {i \in DOMAIN probes : probes[i].latency <= latency}
<1>5. PICK i \in 1..L :
         /\ Summary(probes).p95 = probes[i].latency
         /\ Cardinality(Within(probes[i].latency)) * 100 >= 95 * L
  BY <1>1, <1>4, SummaryPercentile
<1>6. /\ InTime \in SUBSET (1..L)
      /\ Within(probes[i].latency) \subseteq InTime
  BY <1>2, <1>4, <1>5
<1>7. /\ IsFiniteSet(InTime) /\ Cardinality(InTime) \in Nat
      /\ Cardinality(Within(probes[i].latency)) <= Cardinality(InTime)
      /\ Cardinality(Within(probes[i].latency)) \in Nat
  <2> HIDE DEF InTime, Within
  <2> QED BY <1>2, <1>6, PartOfSequence, FS_Subset, FS_CardinalityType
<1>8. Cardinality(InTime) * 100 >= 95 * L
  <2> HIDE DEF InTime, Within, L, probes
  <2> QED BY <1>2, <1>5, <1>7
<1> QED BY <1>3, <1>8

-----------------------------------------------------------------------------
(* The load                                                                  *)

(* What a paced load has sent after every tick.                              *)
IsPaced(after, pps, ticks) ==
    after = [n \in 0..ticks |->
                IF n = 0 THEN [sent |-> 0, carried |-> 0]
                ELSE [sent |-> after[n - 1].sent
                                  + Burst(after[n - 1].carried, pps).packets,
                      carried |-> Burst(after[n - 1].carried, pps).carried]]

(* One tick takes the quotient and the rest of what is due to those of what  *)
(* is due a tick later.                                                      *)
LEMMA BurstCarries ==
    ASSUME NEW due \in Nat, NEW pps \in Nat
    PROVE  /\ (due \div TicksPerSecond)
                 + Burst(due % TicksPerSecond, pps).packets
                 = (due + pps) \div TicksPerSecond
           /\ Burst(due % TicksPerSecond, pps).carried
                 = (due + pps) % TicksPerSecond
<1> DEFINE T == TicksPerSecond
           q == due \div T
           c == due % T
           p == (c + pps) \div T
           r == (c + pps) % T
<1>1. T \in Nat \ {0}
  BY ThresholdAssumption
<1>2. Burst(c, pps).packets = p /\ Burst(c, pps).carried = r
  BY DEF Burst
<1> HIDE DEF T
<1>3. q \in Nat /\ c \in 0..(T - 1) /\ due = (T * q) + c
  BY <1>1, DivisionWithRest
<1> HIDE DEF q, c
<1>4. c + pps \in Nat
  BY <1>1, <1>3
<1>5. p \in Nat /\ r \in 0..(T - 1) /\ c + pps = (T * p) + r
  BY <1>1, <1>4, DivisionWithRest
<1> HIDE DEF p, r
<1>6. due + pps = (T * (q + p)) + r
  <2>1. T * (q + p) = (T * q) + (T * p)
    BY <1>1, <1>3, <1>5
  <2>2. T * q \in Nat /\ T * p \in Nat
    BY <1>1, <1>3, <1>5
  <2> QED BY <1>1, <1>3, <1>5, <2>1, <2>2
<1>7. q + p \in Nat
  BY <1>3, <1>5
<1>8. (due + pps) \div T = q + p /\ (due + pps) % T = r
  <2> DEFINE w == q + p
  <2>1. w \in Nat /\ due + pps = (T * w) + r
    BY <1>6, <1>7
  <2> HIDE DEF w
  <2>2. ((T * w) + r) \div T = w /\ ((T * w) + r) % T = r
    BY <1>1, <1>5, <2>1, DivisionUnique
  <2> QED BY <2>1, <2>2 DEF w
<1> QED BY <1>2, <1>8 DEF T, q, c, p, r

(* Whatever the ticks do not divide is carried over: after any number of     *)
(* them no packet is missing but the fraction of one.                        *)
LEMMA PacedIs ==
    ASSUME NEW pps \in Nat, NEW ticks \in Nat
    PROVE  Paced(pps, ticks) = (ticks * pps) \div TicksPerSecond
<1> DEFINE T == TicksPerSecond
           Exact(n) == [sent |-> (n * pps) \div T, carried |-> (n * pps) % T]
           exact == [n \in 0..ticks |-> Exact(n)]
<1>1. T \in Nat \ {0}
  BY ThresholdAssumption
<1>2. Exact(0) = [sent |-> 0, carried |-> 0]
  <2>1. 0 * pps = 0 /\ 0 \div T = 0 /\ 0 % T = 0
    BY <1>1
  <2> QED BY <2>1
<1>3. ASSUME NEW n \in 1..ticks
      PROVE  Exact(n) =
                [sent |-> Exact(n - 1).sent
                             + Burst(Exact(n - 1).carried, pps).packets,
                 carried |-> Burst(Exact(n - 1).carried, pps).carried]
  <2> DEFINE due == (n - 1) * pps
  <2>1. n - 1 \in Nat
    OBVIOUS
  <2>2. due \in Nat /\ due + pps = n * pps
    BY <2>1
  <2> HIDE DEF due
  <2>3. /\ (due \div T) + Burst(due % T, pps).packets = (due + pps) \div T
        /\ Burst(due % T, pps).carried = (due + pps) % T
    BY <2>2, BurstCarries
  <2>4. Exact(n - 1) = [sent |-> due \div T, carried |-> due % T]
    BY DEF due
  <2>5. Exact(n) = [sent |-> (due + pps) \div T, carried |-> (due + pps) % T]
    BY <2>2
  <2> HIDE DEF Exact, T
  <2> QED BY <2>3, <2>4, <2>5
<1> HIDE DEF Exact
<1>4. IsPaced(exact, pps, ticks)
  <2>1. ASSUME NEW n \in 0..ticks, n # 0
        PROVE  n \in 1..ticks /\ n - 1 \in 0..ticks
    BY <2>1
  <2> QED BY <1>2, <1>3, <2>1 DEF IsPaced
<1>5. ASSUME NEW after, IsPaced(after, pps, ticks)
      PROVE  after[ticks] = Exact(ticks)
  <2> DEFINE Bad == {n \in 0..ticks : after[n] # Exact(n)}
  <2>1. CASE Bad = {}
    BY <2>1
  <2>2. CASE Bad # {}
    <3>1. Bad \in SUBSET Nat
      OBVIOUS
    <3>2. PICK n \in Bad : \A m \in Bad : n <= m
      BY <2>2, <3>1, LeastElement
    <3>3. n \in 0..ticks /\ after[n] # Exact(n)
      BY <3>2
    <3>4. n # 0
      <4>1. after[0] = [sent |-> 0, carried |-> 0]
        BY <1>5 DEF IsPaced
      <4> QED BY <1>2, <3>3, <4>1
    <3>5. n \in 1..ticks /\ n - 1 \in 0..ticks
      BY <3>3, <3>4
    <3>6. after[n - 1] = Exact(n - 1)
      <4>1. n - 1 \notin Bad
        <5> HIDE DEF Bad
        <5> QED BY <3>2, <3>5
      <4> QED BY <3>5, <4>1
    <3>7. after[n] =
             [sent |-> after[n - 1].sent
                          + Burst(after[n - 1].carried, pps).packets,
              carried |-> Burst(after[n - 1].carried, pps).carried]
      BY <1>5, <3>3, <3>4 DEF IsPaced
    <3> QED BY <1>3, <3>3, <3>5, <3>6, <3>7
  <2> QED BY <2>1, <2>2
<1>6. Paced(pps, ticks) = (CHOOSE after : IsPaced(after, pps, ticks))[ticks].sent
  BY DEF Paced, IsPaced
<1>7. IsPaced(CHOOSE after : IsPaced(after, pps, ticks), pps, ticks)
  <2> HIDE DEF exact
  <2> QED BY <1>4
<1>8. Paced(pps, ticks) = Exact(ticks).sent
  BY <1>5, <1>6, <1>7
<1> QED BY <1>8 DEF Exact

(* SlowSenderIsNoticed, for any rate and any number of ticks a second.       *)
LEMMA SlowSenderOfAny == read \in Readable => SlowSenderIsNoticed
<1> DEFINE T == TicksPerSecond
           pps == read.condition.pps
           ticks == read.ticks
           P == Paced(pps, ticks)
<1> SUFFICES ASSUME read \in Readable, read.milliseconds = 1000,
                    read.sent = <<0, P>>
             PROVE  /\ LoadAchieved(RunOf(read)) =>
                          ticks * 100 >= MinLoadDelivery * T
                    /\ ticks = T => LoadAchieved(RunOf(read))
  BY DEF SlowSenderIsNoticed
<1>1. /\ T \in Nat \ {0} /\ MinLoadDelivery \in Nat /\ MinLoadDelivery <= 100
      /\ ticks \in Nat /\ pps \in Nat \ {0}
  <2>1. read.condition \in Plan /\ ticks \in Nat
    BY ReadableFields
  <2>2. PICK i \in 1..Len(PpsSteps) : pps = PpsSteps[i]
    BY <2>1 DEF Plan
  <2>3. MaxPps \in Nat
    BY DEF MaxPps
  <2>4. pps \in 1..MaxPps
    BY <2>2, PpsStepsType
  <2>5. pps \in Nat \ {0}
    BY <2>3, <2>4
  <2> QED BY <2>1, <2>5, ThresholdAssumption
<1>2. P = (ticks * pps) \div T /\ P \in Nat
  <2> HIDE DEF pps, ticks
  <2>1. P = (ticks * pps) \div T
    BY <1>1, PacedIs
  <2>2. ticks * pps \in Nat
    BY <1>1
  <2> HIDE DEF P
  <2> QED BY <1>1, <2>1, <2>2, DivisionWithRest
<1>3. LoadAchieved(RunOf(read)) <=> P * 100 >= MinLoadDelivery * pps
  <2>2. RunOf(read).sent = P
    BY <1>2 DEF RunOf, Monus
  <2>3. /\ RunOf(read).targetPps = pps
        /\ RunOf(read).milliseconds = 1000
    BY DEF RunOf
  <2>4. LoadAchieved(RunOf(read)) <=>
           P * 1000 * 100 >= MinLoadDelivery * pps * 1000
    BY <2>2, <2>3 DEF LoadAchieved
  <2>5. MinLoadDelivery * pps \in Nat
    BY <1>1
  <2> HIDE DEF P
  <2> QED BY <1>2, <2>4, <2>5
<1> HIDE DEF P, T, pps, ticks
<1>4. P \in Nat /\ T * P <= ticks * pps /\ ticks * pps \in Nat
  <2> DEFINE N == ticks * pps
  <2>1. N \in Nat /\ T \in Nat /\ P = N \div T
    BY <1>1, <1>2
  <2> HIDE DEF N
  <2>2. P \in Nat /\ N % T \in 0..(T - 1) /\ N = (T * P) + (N % T)
    BY <1>1, <2>1, DivisionWithRest
  <2>3. T * P \in Nat
    BY <2>1, <2>2
  <2>4. ASSUME NEW n \in Nat, NEW m \in Nat, NEW r \in Nat, n = m + r
        PROVE  m <= n
    BY <2>4
  <2>5. N % T \in Nat
    BY <2>1, <2>2
  <2>6. T * P <= N
    BY <2>1, <2>2, <2>3, <2>4, <2>5
  <2> QED BY <2>1, <2>2, <2>6 DEF N
<1>5. ASSUME P * 100 >= MinLoadDelivery * pps
      PROVE  ticks * 100 >= MinLoadDelivery * T
  <2>1. T * (P * 100) >= T * (MinLoadDelivery * pps)
    <3> DEFINE a == P * 100
               b == MinLoadDelivery * pps
    <3>1. a \in Nat /\ b \in Nat /\ a >= b
      BY <1>1, <1>4, <1>5
    <3> HIDE DEF a, b
    <3>2. T * a >= T * b
      BY <1>1, <3>1
    <3> QED BY <3>2 DEF a, b
  <2>2. (ticks * 100) * pps >= (MinLoadDelivery * T) * pps
    <3>1. T * (P * 100) = (T * P) * 100
      BY <1>1, <1>4
    <3>2. (ticks * 100) * pps = (ticks * pps) * 100
      BY <1>1
    <3>3. T * (MinLoadDelivery * pps) = (MinLoadDelivery * T) * pps
      BY <1>1
    <3>4. T * P \in Nat /\ (MinLoadDelivery * T) * pps \in Nat
      BY <1>1, <1>4
    <3> QED BY <1>4, <2>1, <3>1, <3>2, <3>3, <3>4
  <2> DEFINE a == ticks * 100
             b == MinLoadDelivery * T
  <2>3. a \in Nat /\ b \in Nat
    BY <1>1
  <2>4. a * pps >= b * pps
    BY <2>2
  <2> HIDE DEF a, b
  <2>5. a >= b
    <3> SUFFICES ASSUME a + 1 <= b PROVE FALSE
      BY <2>3
    <3>1. (a + 1) * pps <= b * pps
      BY <1>1, <2>3
    <3>2. (a + 1) * pps = (a * pps) + pps /\ a * pps \in Nat /\ b * pps \in Nat
      BY <1>1, <2>3
    <3> QED BY <1>1, <2>4, <3>1, <3>2
  <2> QED BY <2>5 DEF a, b
<1>6. ASSUME ticks = T PROVE P * 100 >= MinLoadDelivery * pps
  <2>1. P = pps
    <3>1. ((T * pps) + 0) \div T = pps
      BY <1>1, DivisionUnique
    <3>2. ticks * pps = (T * pps) + 0
      BY <1>1, <1>6
    <3> QED BY <1>2, <3>1, <3>2
  <2>2. \A a, b \in Nat : a <= b => a * pps <= b * pps
    BY <1>1
  <2>3. MinLoadDelivery * pps <= 100 * pps
    BY <1>1, <2>2
  <2> QED BY <1>1, <2>1, <2>3
<1> QED BY <1>3, <1>5, <1>6

-----------------------------------------------------------------------------
(* The CPU                                                                   *)

LEMMA EightFields == IsFiniteSet(1..8) /\ 4 \in 1..8 /\ 5 \in 1..8
<1>1. 1 \in Int /\ 8 \in Int
  OBVIOUS
<1>2. IsFiniteSet(1..8)
  BY <1>1, FS_Interval
<1>3. 4 \in 1..8 /\ 5 \in 1..8
  OBVIOUS
<1> QED BY <1>2, <1>3

(* The total of a line of /proc/stat is the sum of its first eight fields.   *)
LEMMA SnapshotIs ==
    ASSUME NEW fields \in [1..10 -> Nat]
    PROVE  /\ CpuSnapshot(fields).total = Sum(fields, 1..8)
           /\ CpuSnapshot(fields).idle = fields[4] + fields[5]
           /\ CpuSnapshot(fields).total \in Nat
           /\ CpuSnapshot(fields).idle \in Nat
           /\ \A i \in 1..8 : fields[i] \in Nat
<1>1. Min({8, Len(fields)}) = 8
  <2>1. Len(fields) = 10
    OBVIOUS
  <2>2. Min({8, 10}) \in {8, 10} /\ \A n \in {8, 10} : Min({8, 10}) <= n
    BY DEF Min
  <2> QED BY <2>1, <2>2
<1>2. CpuSnapshot(fields).total = Sum(fields, 1..8)
  BY <1>1 DEF CpuSnapshot, MapThenSumSet, MapThenFoldSet, Sum, IsSum, Pick
<1>3. \A i \in 1..8 : fields[i] \in Nat
  OBVIOUS
<1>4. Sum(fields, 1..8) \in Nat
  BY <1>3, EightFields, SumType
<1>5. CpuSnapshot(fields).idle = fields[4] + fields[5]
  BY DEF CpuSnapshot
<1> QED BY <1>2, <1>3, <1>4, <1>5, EightFields

(* The percentage is one, also when the counters run backwards.              *)
LEMMA BusyIsPercent ==
    ASSUME NEW a \in [total : Nat, idle : Nat],
           NEW b \in [total : Nat, idle : Nat]
    PROVE  CpuBusyPercent(a, b) \in 0..100
<1> DEFINE total == Monus(b.total, a.total)
           idle == Monus(b.idle, a.idle)
           busy == Monus(total, idle)
<1>1. total \in Nat /\ idle \in Nat
  BY DEF Monus
<1>2. CpuBusyPercent(a, b) = IF total = 0 THEN 0 ELSE (busy * 100) \div total
  BY DEF CpuBusyPercent
<1> HIDE DEF total, idle
<1>3. busy \in Nat /\ busy <= total
  BY <1>1 DEF Monus
<1> HIDE DEF busy
<1>4. CASE total # 0
  <2> DEFINE q == (busy * 100) \div total
  <2>1. total \in Nat \ {0} /\ busy * 100 \in Nat /\ total * 100 \in Nat
        /\ busy * 100 <= total * 100
    BY <1>1, <1>3, <1>4
  <2>2. q \in Nat
    BY <2>1, DivisionWithRest
  <2>3. q <= (total * 100) \div total
    BY <2>1, DivisionMonotone
  <2>4. ((total * 100) + 0) \div total = 100
    BY <2>1, DivisionUnique
  <2>5. (total * 100) + 0 = total * 100
    BY <2>1
  <2> HIDE DEF q
  <2>6. q \in 0..100
    BY <2>2, <2>3, <2>4, <2>5
  <2> QED BY <1>2, <1>4, <2>6 DEF q
<1> QED BY <1>2, <1>4

(* CpuBusyIsAShareOfTime, for counters of any size.                          *)
LEMMA CpuBusyOfAny == read \in Readable => CpuBusyIsAShareOfTime
<1> DEFINE f == read.cpu[1]
           g == read.cpu[2]
           spent == [i \in 1..8 |-> g[i] - f[i]]
           all == Sum(spent, 1..8)
<1>1. MapThenSumSet(LAMBDA i : spent[i], 1..8) = all
  BY DEF MapThenSumSet, MapThenFoldSet, Sum, IsSum, Pick
<1> SUFFICES ASSUME read \in Readable, \A i \in 1..8 : spent[i] >= 0, all > 0
             PROVE  RunOf(read).cpuBusy =
                       ((all - spent[4] - spent[5]) * 100) \div all
  BY <1>1 DEF CpuBusyIsAShareOfTime
<1>2. f \in [1..10 -> Nat] /\ g \in [1..10 -> Nat]
  BY ReadableFields
<1>3. RunOf(read).cpuBusy = CpuBusyPercent(CpuSnapshot(f), CpuSnapshot(g))
  BY DEF RunOf
<1> HIDE DEF f, g
<1>4. /\ \A i \in 1..8 : f[i] \in Nat /\ g[i] \in Nat
      /\ CpuSnapshot(f).total = Sum(f, 1..8)
      /\ CpuSnapshot(g).total = Sum(g, 1..8)
      /\ CpuSnapshot(f).idle = f[4] + f[5]
      /\ CpuSnapshot(g).idle = g[4] + g[5]
      /\ Sum(f, 1..8) \in Nat /\ Sum(g, 1..8) \in Nat
  BY <1>2, SnapshotIs
<1>5. /\ \A i \in 1..8 : spent[i] \in Nat
      /\ \A i \in 1..8 : g[i] = f[i] + spent[i]
  BY <1>4
<1>6. spent[4] = g[4] - f[4] /\ spent[5] = g[5] - f[5]
  BY EightFields
<1> HIDE DEF spent
<1>7. Sum(g, 1..8) = Sum(f, 1..8) + all
  BY <1>4, <1>5, EightFields, SumAdds
<1>8. spent[4] + spent[5] <= all /\ all \in Nat
  BY <1>5, EightFields, SumCoversTwo, SumType
<1>9. spent[4] \in Nat /\ spent[5] \in Nat /\ f[4] \in Nat /\ f[5] \in Nat
      /\ g[4] \in Nat /\ g[5] \in Nat
  BY <1>4, <1>5, EightFields
<1> HIDE DEF all
<1>10. Monus(CpuSnapshot(g).total, CpuSnapshot(f).total) = all
  BY <1>4, <1>7, <1>8 DEF Monus
<1>11. Monus(CpuSnapshot(g).idle, CpuSnapshot(f).idle) = spent[4] + spent[5]
  BY <1>4, <1>6, <1>9 DEF Monus
<1>12. Monus(all, spent[4] + spent[5]) = all - spent[4] - spent[5]
  BY <1>8, <1>9 DEF Monus
<1> QED BY <1>3, <1>8, <1>10, <1>11, <1>12 DEF CpuBusyPercent

-----------------------------------------------------------------------------
(* The run                                                                   *)

(* RunnerRunsAreValid, for any reading.                                      *)
LEMMA ValidityOfAny == read \in Readable => RunnerRunsAreValid
<1> DEFINE run == RunOf(read)
           condition == read.condition
<1> SUFFICES ASSUME read \in Readable PROVE RunnerRunsAreValid
  OBVIOUS
<1>1. /\ condition.repetition \in 1..Repetitions
      /\ \E i \in 1..Len(PpsSteps) : condition.pps = PpsSteps[i]
  BY ReadableFields DEF Plan
<1>2. run.repetition > 0 /\ run.repetition <= Repetitions
  <2>1. run.repetition = condition.repetition
    BY DEF RunOf
  <2> QED BY <1>1, <2>1, RepetitionsType
<1>3. run.targetPps > 0 /\ run.targetPps \in Range(PpsSteps)
  <2>1. PICK i \in 1..Len(PpsSteps) : run.targetPps = PpsSteps[i]
    BY <1>1 DEF RunOf
  <2>2. PpsSteps[i] > 0
    <3>1. MaxPps \in Nat
      BY DEF MaxPps
    <3> QED BY <3>1, PpsStepsType
  <2>3. DOMAIN PpsSteps = 1..Len(PpsSteps)
    BY PpsStepsAssumption, LenProperties DEF ValidPpsSteps
  <2> QED BY <2>1, <2>2, <2>3 DEF Range
<1>4. SweepIsValid(run)
  BY <1>2, <1>3, PpsStepsAssumption DEF SweepIsValid
<1>5. run.cpuBusy \in 0..100
  <2>1. read.cpu[1] \in [1..10 -> Nat] /\ read.cpu[2] \in [1..10 -> Nat]
    BY ReadableFields
  <2>2. /\ CpuSnapshot(read.cpu[1]) \in [total : Nat, idle : Nat]
        /\ CpuSnapshot(read.cpu[2]) \in [total : Nat, idle : Nat]
    <3>1. ASSUME NEW fields \in [1..10 -> Nat]
          PROVE  CpuSnapshot(fields) \in [total : Nat, idle : Nat]
      <4>1. CpuSnapshot(fields).total \in Nat /\ CpuSnapshot(fields).idle \in Nat
        BY SnapshotIs
      <4>2. CpuSnapshot(fields) = [total |-> CpuSnapshot(fields).total,
                                   idle |-> CpuSnapshot(fields).idle]
        BY DEF CpuSnapshot
      <4> QED BY <4>1, <4>2
    <3> QED BY <2>1, <3>1
  <2>3. run.cpuBusy = CpuBusyPercent(CpuSnapshot(read.cpu[1]),
                                     CpuSnapshot(read.cpu[2]))
    BY DEF RunOf
  <2> QED BY <2>2, <2>3, BusyIsPercent
<1>6. HealthIsValid(run.health) <=> read.probes # <<>>
  <2>1. run.health = Summary(read.probes)
    BY DEF RunOf
  <2>2. read.probes \in Seq(Probes)
    BY ReadableFields
  <2> QED BY <2>1, <2>2, SummaryType DEF HealthIsValid
<1>7. /\ run.received = Monus(read.received[2], read.received[1])
      /\ run.sent = Monus(read.sent[2], read.sent[1])
      /\ run.dropPoint = condition.dropPoint
      /\ run.attachMode = AttachMode(condition.dropPoint, read.answer)
  BY DEF RunOf
<1>8. condition.dropPoint = "xdp" =>
         (AttachMode(condition.dropPoint, read.answer)
             \notin {"not_used", "unknown"} <=> read.answer # "absent")
  BY ReadableFields DEF AttachMode
<1> HIDE DEF run, condition
<1>9. IsValid(run) <=>
         /\ read.probes # <<>>
         /\ Monus(read.received[2], read.received[1])
               <= Monus(read.sent[2], read.sent[1])
         /\ condition.dropPoint = "xdp" => read.answer # "absent"
  BY <1>2, <1>3, <1>4, <1>5, <1>6, <1>7, <1>8 DEF IsValid
<1> QED BY <1>9 DEF RunnerRunsAreValid, run, condition
-----------------------------------------------------------------------------
(* For any set of readings, windows of any length and latencies of any size: *)
(* what summary() reports as p95 is the nearest-rank 95th percentile.        *)
THEOREM PercentileCorrect == Spec => []PercentileIsNearestRank
BY ReadableAlways, PercentileOfAny, PTL

(* For any two limits: a service counts as maintained only if the required   *)
(* share of its probes was answered and 95% of them within the limit.        *)
THEOREM MaintainedCorrect == Spec => []MaintainedMeansServed
BY ReadableAlways, MaintainedOfAny, PTL

(* At any rate and any number of ticks a second, with the remainder that     *)
(* send_tick carries over: load_achieved tells a sender that missed ticks    *)
(* from one that missed none.                                                *)
THEOREM SlowSenderCorrect == Spec => []SlowSenderIsNoticed
BY ReadableAlways, SlowSenderOfAny, PTL

(* For any two lines of /proc/stat that do not run backwards: the saturating *)
(* subtractions of cpu_busy_percent give the share of the time that was      *)
(* neither idle nor waiting.                                                 *)
THEOREM CpuBusyCorrect == Spec => []CpuBusyIsAShareOfTime
BY ReadableAlways, CpuBusyOfAny, PTL

(* For any sweep and whatever counters run_condition reads: of the checks of *)
(* ExperimentRun::validate none but the three that depend on other processes *)
(* can refuse its run.                                                       *)
THEOREM ValidityCorrect == Spec => []RunnerRunsAreValid
BY ReadableAlways, ValidityOfAny, PTL
=============================================================================
