-------------------------- MODULE ConditionsProofs --------------------------
(* Facts about the plan of a sweep, for every list of rates and every number *)
(* of repetitions.                                                           *)
EXTENDS Conditions, SequenceTheorems, NumberLemmas, TLAPS

-----------------------------------------------------------------------------
(* The repetitions are a positive number. *)
LEMMA RepetitionsType == Repetitions \in Nat \ {0}
BY RepetitionsAssumption, SMTT(60)

(* parse_pps_steps accepts at least one step, and every step is a rate. *)
LEMMA PpsStepsType ==
    /\ Len(PpsSteps) \in Nat \ {0}
    /\ \A i \in 1..Len(PpsSteps) : PpsSteps[i] \in 1..MaxPps
<1>1. PpsSteps \in Seq(1..MaxPps) /\ PpsSteps # <<>>
  BY PpsStepsAssumption DEF ValidPpsSteps
<1>2. Len(PpsSteps) \in Nat /\ \A i \in 1..Len(PpsSteps) : PpsSteps[i] \in 1..MaxPps
  BY <1>1, LenProperties, ElementOfSeq
<1>3. Len(PpsSteps) # 0
  BY <1>1, EmptySeq
<1> QED BY <1>2, <1>3

(* rate_order permutes the steps: position i of an even repetition holds the *)
(* step Len - i + 1.                                                         *)
LEMMA RateOrderType ==
    ASSUME NEW rep \in Nat, NEW i \in 1..Len(PpsSteps)
    PROVE  \E k \in 1..Len(PpsSteps) : RateOrder(rep)[i] = PpsSteps[k]
<1>1. CASE rep % 2 = 0
  <2>1. Len(PpsSteps) - i + 1 \in 1..Len(PpsSteps)
    BY PpsStepsType
  <2> QED BY <1>1, <2>1 DEF RateOrder
<1>2. CASE rep % 2 # 0
  BY <1>2 DEF RateOrder
<1> QED BY <1>1, <1>2

(* The rotated order holds drop points only. *)
LEMMA ConditionOrderType ==
    ASSUME NEW rep \in Nat \ {0}, NEW j \in 1..3
    PROVE  ConditionOrder(rep)[j] \in DropPoints
<1>1. (((j - 1) + (rep - 1)) % 3) + 1 \in 1..3
  OBVIOUS
<1> QED BY <1>1 DEF ConditionOrder, AllDropPoints, DropPoints

(* Every position of the loops stands for a measurement of the plan. *)
LEMMA ConditionType ==
    ASSUME NEW p \in Positions
    PROVE  /\ ConditionAt(p) \in Plan
           /\ ConditionAt(p).pps \in 1..MaxPps
           /\ ConditionAt(p).dropPoint \in DropPoints
<1>1. p.rep \in 1..Repetitions /\ p.rate \in 1..Len(PpsSteps) /\ p.cond \in 1..3
  BY DEF Positions
<1>2. p.rep \in Nat \ {0}
  BY <1>1, RepetitionsType
<1>3. PICK k \in 1..Len(PpsSteps) : RateOrder(p.rep)[p.rate] = PpsSteps[k]
  BY <1>1, <1>2, RateOrderType
<1>4. ConditionOrder(p.rep)[p.cond] \in DropPoints
  BY <1>1, <1>2, ConditionOrderType
<1>5. PpsSteps[k] \in 1..MaxPps
  BY PpsStepsType
<1> QED BY <1>1, <1>3, <1>4, <1>5 DEF ConditionAt, Plan

(* The loops move from a position to a position, or end. *)
LEMMA NextPositionType ==
    ASSUME NEW p \in Positions
    PROVE  NextPosition(p) \in Positions \cup {EndPosition}
<1>1. p.rep \in 1..Repetitions /\ p.rate \in 1..Len(PpsSteps) /\ p.cond \in 1..3
  BY DEF Positions
<1> DEFINE L == Len(PpsSteps)
           R == Repetitions
<1>2. L \in Nat \ {0} /\ R \in Nat \ {0}
  BY PpsStepsType, RepetitionsType
<1>3. p.rep \in 1..R /\ p.rate \in 1..L /\ p.cond \in 1..3
  BY <1>1
<1> HIDE DEF L, R
<1>4. CASE p.cond < 3
  <2>1. p.cond + 1 \in 1..3
    BY <1>3, <1>4
  <2>2. NextPosition(p) = [rep |-> p.rep, rate |-> p.rate, cond |-> p.cond + 1]
    BY <1>4 DEF NextPosition
  <2> QED BY <2>1, <2>2, <1>1 DEF Positions
<1>5. CASE ~(p.cond < 3) /\ p.rate < L
  <2>1. p.rate + 1 \in 1..L
    BY <1>2, <1>3, <1>5
  <2>2. NextPosition(p) = [rep |-> p.rep, rate |-> p.rate + 1, cond |-> 1]
    BY <1>5 DEF NextPosition, L
  <2> QED BY <2>1, <2>2, <1>1 DEF Positions, L
<1>6. CASE ~(p.cond < 3) /\ ~(p.rate < L)
  <2>1. NextPosition(p) = [rep |-> p.rep + 1, rate |-> 1, cond |-> 1]
    BY <1>6 DEF NextPosition, L
  <2>2. CASE p.rep < R
    <3>1. p.rep + 1 \in 1..R /\ 1 \in 1..L
      BY <1>2, <1>3, <2>2
    <3> QED BY <2>1, <3>1 DEF Positions, L, R
  <2>3. CASE ~(p.rep < R)
    <3>1. p.rep = R
      BY <1>2, <1>3, <2>3
    <3> QED BY <2>1, <3>1 DEF EndPosition, R
  <2> QED BY <2>2, <2>3
<1> QED BY <1>4, <1>5, <1>6

(* The loops start at a position, and where they end is none. *)
LEMMA EndIsNoPosition == EndPosition \notin Positions /\ FirstPosition \in Positions
<1> DEFINE L == Len(PpsSteps)
           R == Repetitions
<1>1. L \in Nat \ {0} /\ R \in Nat \ {0}
  BY PpsStepsType, RepetitionsType
<1>2. EndPosition.rep = R + 1 /\ FirstPosition = [rep |-> 1, rate |-> 1, cond |-> 1]
  BY DEF EndPosition, FirstPosition
<1>3. Positions = [rep : 1..R, rate : 1..L, cond : 1..3]
  BY DEF Positions
<1> HIDE DEF L, R
<1>4. 1 \in 1..R /\ 1 \in 1..L /\ 1 \in 1..3 /\ R + 1 \notin 1..R
  BY <1>1
<1> QED BY <1>2, <1>3, <1>4

-----------------------------------------------------------------------------
(* Every measurement of the plan has one position in the loops.              *)

(* parse_pps_steps compares neighbours only; that orders all of them: the    *)
(* least step that is not above an earlier one would be below its neighbour. *)
LEMMA PpsStepsIncrease ==
    ASSUME NEW i \in 1..Len(PpsSteps), NEW j \in 1..Len(PpsSteps), i < j
    PROVE  PpsSteps[i] < PpsSteps[j]
<1> DEFINE Behind == {k \in 1..Len(PpsSteps) :
                        i < k /\ ~(PpsSteps[i] < PpsSteps[k])}
<1>1. SUFFICES ASSUME Behind # {} PROVE FALSE
  OBVIOUS
<1>2. Len(PpsSteps) \in Nat /\ Behind \in SUBSET Nat
  BY PpsStepsType
<1>3. \A k \in 1..Len(PpsSteps) : PpsSteps[k] \in Int
  <2>1. 1..MaxPps \subseteq Int
    OBVIOUS
  <2> QED BY <2>1, PpsStepsType
<1>4. PICK k \in Behind : \A n \in Behind : k <= n
  BY <1>1, <1>2, LeastElement
<1>5. /\ k \in 1..Len(PpsSteps) /\ i < k /\ ~(PpsSteps[i] < PpsSteps[k])
      /\ k - 1 \in 1..(Len(PpsSteps) - 1) /\ k - 1 \in 1..Len(PpsSteps)
      /\ (k - 1) + 1 = k
  BY <1>2, <1>4
<1>6. PpsSteps[k - 1] < PpsSteps[k]
  BY <1>5, PpsStepsAssumption DEF ValidPpsSteps
<1>7. CASE i = k - 1
  BY <1>5, <1>6, <1>7
<1>8. CASE i < k - 1
  <2>1. k - 1 \notin Behind
    BY <1>2, <1>4, <1>5
  <2>2. PpsSteps[i] < PpsSteps[k - 1]
    BY <1>5, <1>8, <2>1
  <2> QED BY <1>3, <1>5, <1>6, <2>2
<1> QED BY <1>2, <1>5, <1>7, <1>8

(* rate_order and condition_order are permutations.                          *)
LEMMA RateOrderInjective ==
    ASSUME NEW rep \in Nat,
           NEW i \in 1..Len(PpsSteps), NEW j \in 1..Len(PpsSteps),
           RateOrder(rep)[i] = RateOrder(rep)[j]
    PROVE  i = j
<1>1. ASSUME NEW k \in 1..Len(PpsSteps), NEW l \in 1..Len(PpsSteps),
             PpsSteps[k] = PpsSteps[l]
      PROVE  k = l
  <2>1. \A n \in 1..Len(PpsSteps) : PpsSteps[n] \in Int
    <3>1. 1..MaxPps \subseteq Int
      OBVIOUS
    <3> QED BY <3>1, PpsStepsType
  <2> QED BY <1>1, <2>1, PpsStepsIncrease
<1>2. CASE rep % 2 = 0
  <2> DEFINE k == Len(PpsSteps) - i + 1
             l == Len(PpsSteps) - j + 1
  <2>1. k \in 1..Len(PpsSteps) /\ l \in 1..Len(PpsSteps)
    BY PpsStepsType
  <2>2. RateOrder(rep)[i] = PpsSteps[k] /\ RateOrder(rep)[j] = PpsSteps[l]
    BY <1>2 DEF RateOrder
  <2> HIDE DEF k, l
  <2>3. k = l
    BY <1>1, <2>1, <2>2
  <2> QED BY <2>3, PpsStepsType DEF k, l
<1>3. CASE rep % 2 # 0
  BY <1>1, <1>3 DEF RateOrder
<1> QED BY <1>2, <1>3

LEMMA RateOrderOnto ==
    ASSUME NEW rep \in Nat, NEW k \in 1..Len(PpsSteps)
    PROVE  \E i \in 1..Len(PpsSteps) : RateOrder(rep)[i] = PpsSteps[k]
<1>1. CASE rep % 2 = 0
  <2> DEFINE i == Len(PpsSteps) - k + 1
  <2>1. i \in 1..Len(PpsSteps) /\ Len(PpsSteps) - i + 1 = k
    BY PpsStepsType
  <2>2. RateOrder(rep)[i] = PpsSteps[Len(PpsSteps) - i + 1]
    BY <1>1, <2>1 DEF RateOrder
  <2> QED BY <2>1, <2>2
<1>2. CASE rep % 2 # 0
  BY <1>2 DEF RateOrder
<1> QED BY <1>1, <1>2

LEMMA ConditionOrderPermutes ==
    ASSUME NEW rep \in Nat \ {0}
    PROVE  /\ \A i, j \in 1..3 :
                 ConditionOrder(rep)[i] = ConditionOrder(rep)[j] => i = j
           /\ \A d \in DropPoints : \E j \in 1..3 : ConditionOrder(rep)[j] = d
<1> DEFINE r == (rep - 1) % 3
           at(j) == (((j - 1) + (rep - 1)) % 3) + 1
<1>1. r \in 0..2
  OBVIOUS
<1>2. \A j \in 1..3 : at(j) = IF j + r <= 3 THEN j + r ELSE j + r - 3
  OBVIOUS
<1>3. \A j \in 1..3 : ConditionOrder(rep)[j] = AllDropPoints[at(j)]
  BY DEF ConditionOrder
<1> HIDE DEF r, at
<1>4. at(1) = r + 1
  BY <1>1, <1>2
<1>5. at(2) = IF r = 2 THEN 1 ELSE r + 2
  BY <1>1, <1>2
<1>6. at(3) = IF r = 0 THEN 3 ELSE r
  BY <1>1, <1>2
<1>7. /\ AllDropPoints[1] = "application" /\ AllDropPoints[2] = "netfilter"
      /\ AllDropPoints[3] = "xdp"
  BY DEF AllDropPoints
<1>8. /\ r = 0 => /\ ConditionOrder(rep)[1] = "application"
                  /\ ConditionOrder(rep)[2] = "netfilter"
                  /\ ConditionOrder(rep)[3] = "xdp"
      /\ r = 1 => /\ ConditionOrder(rep)[1] = "netfilter"
                  /\ ConditionOrder(rep)[2] = "xdp"
                  /\ ConditionOrder(rep)[3] = "application"
      /\ r = 2 => /\ ConditionOrder(rep)[1] = "xdp"
                  /\ ConditionOrder(rep)[2] = "application"
                  /\ ConditionOrder(rep)[3] = "netfilter"
  BY <1>3, <1>4, <1>5, <1>6, <1>7
<1>9. r = 0 \/ r = 1 \/ r = 2
  BY <1>1
<1>10. \A j \in 1..3 : j = 1 \/ j = 2 \/ j = 3
  OBVIOUS
<1> QED BY <1>8, <1>9, <1>10 DEF DropPoints

(* The loops measure nothing twice within one experiment.                    *)
LEMMA ConditionInjective ==
    ASSUME NEW p \in Positions, NEW q \in Positions,
           ConditionAt(p) = ConditionAt(q)
    PROVE  p = q
<1>1. /\ p.rep \in 1..Repetitions /\ q.rep \in 1..Repetitions
      /\ p.rate \in 1..Len(PpsSteps) /\ q.rate \in 1..Len(PpsSteps)
      /\ p.cond \in 1..3 /\ q.cond \in 1..3
      /\ p = [rep |-> p.rep, rate |-> p.rate, cond |-> p.cond]
      /\ q = [rep |-> q.rep, rate |-> q.rate, cond |-> q.cond]
  BY DEF Positions
<1>2. p.rep \in Nat \ {0}
  <2>1. p.rep \in 1..Repetitions
    BY <1>1
  <2> QED BY <2>1, RepetitionsType
<1>3. /\ p.rep = q.rep
      /\ RateOrder(p.rep)[p.rate] = RateOrder(q.rep)[q.rate]
      /\ ConditionOrder(p.rep)[p.cond] = ConditionOrder(q.rep)[q.cond]
  BY DEF ConditionAt
<1>4. p.rate = q.rate
  BY <1>1, <1>2, <1>3, RateOrderInjective
<1>5. p.cond = q.cond
  BY <1>1, <1>2, <1>3, ConditionOrderPermutes
<1> QED BY <1>1, <1>3, <1>4, <1>5

(* From the first position on, all of the plan is left to measure; from the  *)
(* end of the loops, nothing.                                                *)
LEMMA RemainingAtTheEnds ==
    Remaining(FirstPosition) = Plan /\ Remaining(EndPosition) = {}
<1>1. \A q \in Positions : /\ q.rep \in 1..Repetitions
                           /\ q.rate \in 1..Len(PpsSteps) /\ q.cond \in 1..3
  BY DEF Positions
<1>2. \A q \in Positions : NotBefore(FirstPosition, q)
  <2>1. Repetitions \in Nat /\ Len(PpsSteps) \in Nat
    BY PpsStepsType, RepetitionsType
  <2>2. /\ FirstPosition.rep = 1 /\ FirstPosition.rate = 1
        /\ FirstPosition.cond = 1
    BY DEF FirstPosition
  <2> QED BY <1>1, <2>1, <2>2 DEF NotBefore
<1>3. \A q \in Positions : ~NotBefore(EndPosition, q)
  BY <1>1, RepetitionsType DEF NotBefore, EndPosition
<1>4. Remaining(EndPosition) = {}
  BY <1>3 DEF Remaining
<1>5. Remaining(FirstPosition) \subseteq Plan
  BY ConditionType DEF Remaining
<1>6. ASSUME NEW c \in Plan PROVE c \in Remaining(FirstPosition)
  <2>1. /\ c.repetition \in 1..Repetitions /\ c.dropPoint \in DropPoints
        /\ \E k \in 1..Len(PpsSteps) : c.pps = PpsSteps[k]
        /\ c = [repetition |-> c.repetition, pps |-> c.pps,
                dropPoint |-> c.dropPoint]
    BY DEF Plan
  <2>2. c.repetition \in Nat \ {0}
    <3>1. c.repetition \in 1..Repetitions
      BY <2>1
    <3> QED BY <3>1, RepetitionsType
  <2>3. PICK i \in 1..Len(PpsSteps) : RateOrder(c.repetition)[i] = c.pps
    BY <2>1, <2>2, RateOrderOnto
  <2>4. PICK j \in 1..3 : ConditionOrder(c.repetition)[j] = c.dropPoint
    BY <2>1, <2>2, ConditionOrderPermutes
  <2> DEFINE q == [rep |-> c.repetition, rate |-> i, cond |-> j]
  <2>5. q \in Positions
    BY <2>1 DEF Positions
  <2>6. ConditionAt(q) = c
    BY <2>1, <2>3, <2>4 DEF ConditionAt
  <2> QED BY <1>2, <2>5, <2>6 DEF Remaining
<1> QED BY <1>4, <1>5, <1>6

(* One turn of the loops takes one measurement off what is left.             *)
LEMMA RemainingStep ==
    ASSUME NEW p \in Positions
    PROVE  /\ ConditionAt(p) \in Remaining(p)
           /\ Remaining(NextPosition(p)) = Remaining(p) \ {ConditionAt(p)}
<1> DEFINE n == NextPosition(p)
<1>1. /\ p.rep \in 1..Repetitions
      /\ p.rate \in 1..Len(PpsSteps) /\ p.cond \in 1..3
      /\ p = [rep |-> p.rep, rate |-> p.rate, cond |-> p.cond]
  BY DEF Positions
<1>2. /\ Len(PpsSteps) \in Nat /\ Repetitions \in Nat
  BY PpsStepsType, RepetitionsType
<1>3. NotBefore(p, p)
  BY <1>1, <1>2 DEF NotBefore
<1>4. ASSUME NEW q \in Positions
      PROVE  NotBefore(n, q) <=> NotBefore(p, q) /\ q # p
  <2>1. /\ q.rep \in 1..Repetitions
        /\ q.rate \in 1..Len(PpsSteps) /\ q.cond \in 1..3
        /\ q = [rep |-> q.rep, rate |-> q.rate, cond |-> q.cond]
    BY DEF Positions
  <2>2. q = p <=> q.rep = p.rep /\ q.rate = p.rate /\ q.cond = p.cond
    BY <1>1, <2>1
  <2>3. CASE p.cond < 3
    <3>1. n.rep = p.rep /\ n.rate = p.rate /\ n.cond = p.cond + 1
      BY <2>3 DEF NextPosition
    <3> HIDE DEF n
    <3> QED BY <1>1, <1>2, <2>1, <2>2, <3>1 DEF NotBefore
  <2>4. CASE ~(p.cond < 3) /\ p.rate < Len(PpsSteps)
    <3>1. n.rep = p.rep /\ n.rate = p.rate + 1 /\ n.cond = 1
      BY <2>4 DEF NextPosition
    <3> HIDE DEF n
    <3> QED BY <1>1, <1>2, <2>1, <2>2, <2>4, <3>1 DEF NotBefore
  <2>5. CASE ~(p.cond < 3) /\ ~(p.rate < Len(PpsSteps))
    <3>1. n.rep = p.rep + 1 /\ n.rate = 1 /\ n.cond = 1
      BY <2>5 DEF NextPosition
    <3> HIDE DEF n
    <3> QED BY <1>1, <1>2, <2>1, <2>2, <2>5, <3>1 DEF NotBefore
  <2> QED BY <2>3, <2>4, <2>5
<1> HIDE DEF n
<1>5. ConditionAt(p) \in Remaining(p)
  BY <1>3 DEF Remaining
<1>6. \A q \in Positions : ConditionAt(q) = ConditionAt(p) => q = p
  BY ConditionInjective
<1>7. Remaining(n) = Remaining(p) \ {ConditionAt(p)}
  BY <1>4, <1>6 DEF Remaining
<1> QED BY <1>5, <1>7 DEF n
=============================================================================
