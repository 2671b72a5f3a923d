------------------------------ MODULE EarlyProofs ------------------------------
(***************************************************************************)
(* Proofs about EarlyFrames.tla, for every page size, every map the        *)
(* firmware may report and every sequence of requests.                     *)
(***************************************************************************)
EXTENDS EarlyFrames, FiniteSetTheorems, SequenceTheorems, WellFoundedInduction, TLAPS

-----------------------------------------------------------------------------
(* Arithmetic of alignment.                                                *)

(* A multiple of a is a times something, and the other way round.          *)
LEMMA Multiples ==
  ASSUME NEW a \in Nat \ {0}, NEW v \in Nat
  PROVE  /\ v % a = 0 => v = a * (v \div a) /\ v \div a \in Nat
         /\ \A k \in Nat : (a * k) % a = 0 /\ (a * k) \div a = k
<1>1. v = a * (v \div a) + (v % a) /\ v \div a \in Nat /\ v % a \in 0 .. a - 1
  OBVIOUS
<1>2. ASSUME NEW k \in Nat PROVE (a * k) % a = 0 /\ (a * k) \div a = k
  <2> DEFINE q == (a * k) \div a
             r == (a * k) % a
  <2>1. a * k = a * q + r /\ q \in Nat /\ r \in 0 .. a - 1
    OBVIOUS
  <2> HIDE DEF q, r
  <2>2. a * (k - q) = r
    BY <2>1
  <2>3. k - q = 0
    <3>1. CASE k - q >= 1
      <4>1. a * (k - q) >= a * 1
        BY <2>1, <3>1
      <4>2. QED
        BY <2>1, <2>2, <4>1
    <3>2. CASE k - q <= -1
      <4>1. a * (k - q) <= a * (-1)
        BY <2>1, <3>2
      <4>2. QED
        BY <2>1, <2>2, <4>1
    <3>3. QED
      BY <2>1, <3>1, <3>2
  <2>4. QED
    BY <2>1, <2>2, <2>3 DEF q, r
<1>3. QED
  BY <1>1, <1>2

(* Two multiples differ by a multiple, and a multiple of a multiple of a   *)
(* is one of a.                                                            *)
LEMMA MultipleSums ==
  ASSUME NEW a \in Nat \ {0}, NEW v \in Nat, NEW w \in Nat, v % a = 0, w % a = 0
  PROVE  /\ (v + w) % a = 0
         /\ v < w => v + a <= w
<1>1. PICK k \in Nat, l \in Nat : v = a * k /\ w = a * l
  BY Multiples
<1>2. v + w = a * (k + l) /\ k + l \in Nat
  BY <1>1
<1>3. (v + w) % a = 0
  <2>1. (a * (k + l)) % a = 0
    BY <1>2, Multiples
  <2>2. QED
    BY <1>2, <2>1
<1>4. ASSUME v < w PROVE v + a <= w
  <2>1. k < l
    <3>1. CASE k >= l
      <4>1. a * k >= a * l
        BY <3>1
      <4>2. QED
        BY <1>1, <1>4, <4>1
    <3>2. QED
      BY <3>1
  <2>2. k + 1 <= l
    BY <2>1
  <2>3. a * (k + 1) <= a * l
    BY <2>2
  <2>4. a * (k + 1) = a * k + a
    OBVIOUS
  <2>5. QED
    BY <1>1, <2>3, <2>4
<1>5. QED
  BY <1>3, <1>4

(* A multiple of a multiple of a is one of a.                              *)
LEMMA MultipleOfMultiple ==
  ASSUME NEW a \in Nat \ {0}, NEW b \in Nat \ {0}, NEW v \in Nat, v % b = 0, b % a = 0
  PROVE  v % a = 0
<1>1. PICK k \in Nat, l \in Nat : v = b * k /\ b = a * l
  BY Multiples
<1>2. v = a * (l * k) /\ l * k \in Nat
  BY <1>1
<1>3. QED
  BY <1>2, Multiples

(* align_down: the last multiple that is not above.                        *)
LEMMA AlignDownIs ==
  ASSUME NEW v \in Nat, NEW a \in Nat \ {0}
  PROVE  /\ AlignDown(v, a) \in Nat /\ AlignDown(v, a) % a = 0
         /\ AlignDown(v, a) <= v /\ v < AlignDown(v, a) + a
         /\ \A m \in Nat : m % a = 0 /\ m <= v => m <= AlignDown(v, a)
<1>1. v = a * (v \div a) + (v % a) /\ v \div a \in Nat /\ v % a \in 0 .. a - 1
  OBVIOUS
<1>2. AlignDown(v, a) = a * (v \div a)
  BY <1>1 DEF AlignDown
<1>3. AlignDown(v, a) \in Nat /\ AlignDown(v, a) % a = 0
  BY <1>1, <1>2, Multiples
<1>4. AlignDown(v, a) <= v /\ v < AlignDown(v, a) + a
  BY <1>1, <1>2
<1>5. ASSUME NEW m \in Nat, m % a = 0, m <= v PROVE m <= AlignDown(v, a)
  BY <1>3, <1>4, <1>5, MultipleSums
<1>6. QED
  BY <1>3, <1>4, <1>5

(* align_up: the first multiple that is not below.                         *)
LEMMA AlignUpIs ==
  ASSUME NEW v \in Nat, NEW a \in Nat \ {0}
  PROVE  /\ AlignUp(v, a) \in Nat /\ AlignUp(v, a) % a = 0
         /\ v <= AlignUp(v, a) /\ AlignUp(v, a) <= v + a - 1
         /\ \A m \in Nat : m % a = 0 /\ v <= m => AlignUp(v, a) <= m
<1>1. v + a - 1 \in Nat
  OBVIOUS
<1>2. /\ AlignUp(v, a) \in Nat /\ AlignUp(v, a) % a = 0
      /\ AlignUp(v, a) <= v + a - 1 /\ v + a - 1 < AlignUp(v, a) + a
  BY <1>1, AlignDownIs DEF AlignUp
<1>3. ASSUME NEW m \in Nat, m % a = 0, v <= m PROVE AlignUp(v, a) <= m
  BY <1>2, <1>3, MultipleSums
<1>4. QED
  BY <1>2, <1>3

-----------------------------------------------------------------------------
(* Least and greatest addresses.                                           *)

(* A set of naturals has a least element, which Min finds: of the sets of  *)
(* numbers up to one of them, one has no other inside it.                  *)
LEMMA MinIs ==
  ASSUME NEW S \in SUBSET Nat, S # {}
  PROVE  Min(S) \in S /\ \A x \in S : Min(S) <= x
<1> DEFINE Upto == {0 .. x : x \in S}
<1>1. Upto \subseteq FiniteSubsetsOf(Nat) /\ Upto # {}
  <2>1. ASSUME NEW x \in S PROVE 0 .. x \in FiniteSubsetsOf(Nat)
    <3>1. IsFiniteSet(0 .. x)
      BY FS_Interval
    <3>2. QED
      BY <3>1 DEF FiniteSubsetsOf
  <2>2. QED
    BY <2>1
<1>2. PICK T \in Upto : \A U \in Upto : ~(<<U, T>> \in StrictSubsetOrdering(Nat))
  <2> HIDE DEF Upto
  <2>1. QED
    BY <1>1, FS_StrictSubsetOrderingWellFounded, WFMin
<1>3. PICK m \in S : T = 0 .. m
  BY <1>2
<1>4. ASSUME NEW x \in S, x < m PROVE FALSE
  <2>1. 0 .. x \in Upto /\ 0 .. x \subseteq 0 .. m /\ m \in 0 .. m /\ m \notin 0 .. x
    BY <1>4
  <2>2. <<0 .. x, T>> \in StrictSubsetOrdering(Nat)
    BY <1>3, <2>1 DEF StrictSubsetOrdering
  <2>3. QED
    BY <1>2, <2>1, <2>2
<1>5. \E i \in S : \A x \in S : i <= x
  BY <1>4
<1>6. QED
  BY <1>5 DEF Min

(* And a greatest one, when it is bounded, which Max finds.                *)
LEMMA MaxIs ==
  ASSUME NEW S \in SUBSET Nat, S # {}, NEW top \in Nat, \A x \in S : x <= top
  PROVE  Max(S) \in S /\ \A x \in S : x <= Max(S)
<1> DEFINE Above == {n \in Nat : \A x \in S : x <= n}
<1>1. Above \in SUBSET Nat /\ Above # {}
  OBVIOUS
<1>2. Min(Above) \in Above /\ \A n \in Above : Min(Above) <= n
  <2> HIDE DEF Above
  <2>1. QED
    BY <1>1, MinIs
<1>3. PICK m \in Nat : m \in Above /\ \A n \in Above : m <= n
  BY <1>2
<1>4. m \in S
  <2> SUFFICES ASSUME m \notin S PROVE FALSE
    OBVIOUS
  <2>1. \A x \in S : x < m
    BY <1>3
  <2>2. m # 0
    <3>1. PICK x \in S : x < m
      BY <2>1
    <3>2. QED
      BY <3>1
  <2>3. m - 1 \in Nat /\ \A x \in S : x <= m - 1
    BY <1>3, <2>1, <2>2
  <2>4. QED
    BY <1>3, <2>3
<1>5. \E x \in S : \A y \in S : x >= y
  BY <1>3, <1>4
<1>6. Max(S) \in S /\ \A y \in S : Max(S) >= y
  <2> DEFINE Greatest(x) == x \in S /\ \A y \in S : x >= y
  <2>1. \E x : Greatest(x)
    BY <1>5
  <2>2. Max(S) = CHOOSE x : Greatest(x)
    BY Zenon DEF Max
  <2> HIDE DEF Greatest
  <2>3. Greatest(Max(S))
    BY <2>1, <2>2, Zenon
  <2>4. QED
    BY <2>3 DEF Greatest
<1>7. QED
  BY <1>6

-----------------------------------------------------------------------------
(* Cutting the reserved ranges out of a usable one.                        *)

Inside(address, range) == range.start <= address /\ address < range.end

Unreserved(address, reserved) == \A r \in reserved : ~Inside(address, r)

(* covering_reserved_end: from a cursor up to what it returns everything   *)
(* is reserved, and when it returns the cursor, the cursor is not.         *)
LEMMA CoveringEndIs ==
  ASSUME NEW reserved \in SUBSET FrameRanges, NEW limit \in Addresses, limit % PageSize = 0,
         NEW cursor \in Nat, cursor < limit
  PROVE  LET covered == CoveringEnd(cursor, limit, reserved)
         IN  /\ covered \in cursor .. limit
             /\ covered # cursor => covered % PageSize = 0
             /\ \A a \in cursor .. covered - 1 : ~Unreserved(a, reserved)
             /\ covered = cursor => Unreserved(cursor, reserved)
<1> DEFINE over == {s \in reserved : s.start <= cursor /\ s.end > cursor}
           ends == {r.end : r \in over}
           last == Max(ends \cup {cursor})
           covered == CoveringEnd(cursor, limit, reserved)
<1>1. \A r \in reserved : r.start \in Nat /\ r.end \in Nat /\ r.end <= AddressLimit
                          /\ r.end % PageSize = 0
  BY EarlyAssumption DEF FrameRanges, Addresses
<1>2. limit \in Nat /\ limit <= AddressLimit /\ AddressLimit \in Nat
  BY EarlyAssumption DEF Addresses
<1>3. ends \cup {cursor} \in SUBSET Nat /\ \A x \in ends \cup {cursor} : x <= AddressLimit
  BY <1>1, <1>2
<1>4. last \in ends \cup {cursor} /\ \A x \in ends \cup {cursor} : x <= last
  <2> HIDE DEF ends
  <2>1. QED
    BY <1>2, <1>3, MaxIs
<1>5. covered = Min({limit, last})
  BY DEF CoveringEnd
<1> HIDE DEF last, covered
<1>6. last \in Nat /\ last >= cursor /\ (last # cursor => last % PageSize = 0)
  BY <1>1, <1>3, <1>4
<1>7. covered \in {limit, last} /\ covered <= limit /\ covered <= last
  <2>1. {limit, last} \in SUBSET Nat
    BY <1>2, <1>6
  <2>2. QED
    BY <1>5, <2>1, MinIs
<1>8. covered \in cursor .. limit /\ (covered # cursor => covered % PageSize = 0)
  BY <1>2, <1>6, <1>7
<1>9. ASSUME NEW a \in cursor .. covered - 1 PROVE ~Unreserved(a, reserved)
  <2>1. last # cursor
    BY <1>6, <1>7, <1>8, <1>9
  <2>2. PICK r \in over : last = r.end
    BY <1>4, <2>1
  <2>3. Inside(a, r)
    BY <1>1, <1>6, <1>7, <1>8, <1>9, <2>2 DEF Inside
  <2>4. QED
    BY <2>2, <2>3 DEF Unreserved
<1>10. ASSUME covered = cursor PROVE Unreserved(cursor, reserved)
  <2>1. last = cursor
    BY <1>7, <1>10
  <2>2. ASSUME NEW r \in reserved, Inside(cursor, r) PROVE FALSE
    <3>1. r.end \in ends
      BY <2>2 DEF Inside
    <3>2. r.end <= cursor
      BY <1>4, <2>1, <3>1
    <3>3. QED
      BY <1>1, <2>2, <3>2 DEF Inside
  <2>3. QED
    BY <2>2 DEF Unreserved
<1>11. QED
  BY <1>8, <1>9, <1>10 DEF covered

(* next_reserved_start: no reserved range begins between the cursor and    *)
(* what it returns.                                                        *)
LEMMA NextStartIs ==
  ASSUME NEW reserved \in SUBSET FrameRanges, NEW limit \in Addresses, limit % PageSize = 0,
         NEW cursor \in Nat, cursor < limit, Unreserved(cursor, reserved)
  PROVE  LET end == NextStart(cursor, limit, reserved)
         IN  /\ end \in cursor + 1 .. limit /\ end % PageSize = 0
             /\ \A a \in cursor .. end - 1 : Unreserved(a, reserved)
<1> DEFINE later == {s \in reserved : s.start > cursor}
           starts == {r.start : r \in later} \cup {limit}
           end == NextStart(cursor, limit, reserved)
<1>1. \A r \in reserved : r.start \in Nat /\ r.end \in Nat /\ r.start % PageSize = 0
  BY EarlyAssumption DEF FrameRanges, Addresses
<1>2. limit \in Nat
  BY EarlyAssumption DEF Addresses
<1>3. starts \in SUBSET Nat /\ limit \in starts
  BY <1>1, <1>2
<1>4. end \in starts /\ \A x \in starts : end <= x
  <2>1. end = Min(starts)
    BY DEF NextStart
  <2> HIDE DEF starts, end
  <2>2. QED
    BY <1>3, <2>1, MinIs
<1> HIDE DEF end
<1>5. end \in cursor + 1 .. limit /\ end % PageSize = 0
  BY <1>1, <1>2, <1>3, <1>4
<1>6. ASSUME NEW a \in cursor .. end - 1, NEW r \in reserved, Inside(a, r) PROVE FALSE
  <2>1. CASE r.start > cursor
    <3>1. end <= r.start
      BY <1>4, <2>1
    <3>2. QED
      BY <1>1, <1>5, <1>6, <3>1 DEF Inside
  <2>2. CASE r.start <= cursor
    <3>1. cursor < r.end
      BY <1>1, <1>5, <1>6 DEF Inside
    <3>2. QED
      BY <2>2, <3>1 DEF Unreserved, Inside
  <2>3. QED
    BY <1>1, <2>1, <2>2
<1>7. QED
  BY <1>5, <1>6 DEF Unreserved, end

-----------------------------------------------------------------------------
(* Sequences of ranges.                                                    *)

Holds(ranges, address) == \E i \in DOMAIN ranges : Inside(address, ranges[i])

Follows(range, other) == other.end <= range.start

Apart(ranges) ==
  \A i, j \in DOMAIN ranges :
    i # j => Follows(ranges[i], ranges[j]) \/ Follows(ranges[j], ranges[i])

(* What push puts behind the ranges that are there.                        *)
LEMMA JoinedElements ==
  ASSUME NEW s \in Seq(FrameRanges), NEW t \in Seq(FrameRanges)
  PROVE  /\ s \o t \in Seq(FrameRanges) /\ DOMAIN s = 1 .. Len(s) /\ DOMAIN t = 1 .. Len(t)
         /\ Len(s) \in Nat /\ Len(t) \in Nat /\ DOMAIN (s \o t) = 1 .. Len(s) + Len(t)
         /\ \A i \in DOMAIN s : i \in DOMAIN (s \o t) /\ (s \o t)[i] = s[i]
         /\ \A i \in DOMAIN t : /\ Len(s) + i \in DOMAIN (s \o t)
                                /\ (s \o t)[Len(s) + i] = t[i]
         /\ \A i \in DOMAIN (s \o t) :
              \/ i \in DOMAIN s /\ (s \o t)[i] = s[i]
              \/ i - Len(s) \in DOMAIN t /\ (s \o t)[i] = t[i - Len(s)]
<1>1. /\ s \o t \in Seq(FrameRanges) /\ Len(s \o t) = Len(s) + Len(t)
      /\ \A i \in 1 .. Len(s) + Len(t) :
           (s \o t)[i] = IF i <= Len(s) THEN s[i] ELSE t[i - Len(s)]
  BY ConcatProperties
<1>2. /\ Len(s) \in Nat /\ Len(t) \in Nat /\ DOMAIN s = 1 .. Len(s) /\ DOMAIN t = 1 .. Len(t)
  OBVIOUS
<1>3. DOMAIN (s \o t) = 1 .. Len(s) + Len(t)
  BY <1>1
<1> DEFINE u == s \o t
<1> HIDE DEF u
<1>4. \A i \in 1 .. Len(s) + Len(t) : u[i] = IF i <= Len(s) THEN s[i] ELSE t[i - Len(s)]
  BY <1>1 DEF u
<1>5. DOMAIN u = 1 .. Len(s) + Len(t)
  BY <1>3 DEF u
<1>6. \A i \in DOMAIN s : i \in DOMAIN u /\ u[i] = s[i]
  BY <1>2, <1>4, <1>5
<1>7. ASSUME NEW i \in DOMAIN t PROVE Len(s) + i \in DOMAIN u /\ u[Len(s) + i] = t[i]
  <2>1. Len(s) + i \in 1 .. Len(s) + Len(t) /\ ~(Len(s) + i <= Len(s)) /\ (Len(s) + i) - Len(s) = i
    BY <1>2
  <2>2. QED
    BY <1>4, <1>5, <2>1
<1>8. ASSUME NEW i \in DOMAIN u
      PROVE  \/ i \in DOMAIN s /\ u[i] = s[i]
             \/ i - Len(s) \in DOMAIN t /\ u[i] = t[i - Len(s)]
  BY <1>2, <1>4, <1>5
<1>9. QED
  BY <1>1, <1>2, <1>3, <1>6, <1>7, <1>8 DEF u

(* The result holds what either holds, and its ranges are apart when those *)
(* of both are, and of one from the other.                                 *)
LEMMA JoinedRanges ==
  ASSUME NEW s \in Seq(FrameRanges), NEW t \in Seq(FrameRanges)
  PROVE  /\ \A a : Holds(s \o t, a) <=> Holds(s, a) \/ Holds(t, a)
         /\ /\ Apart(s) /\ Apart(t)
            /\ \A i \in DOMAIN s, j \in DOMAIN t : Follows(s[i], t[j]) \/ Follows(t[j], s[i])
            => Apart(s \o t)
<1> DEFINE u == s \o t
<1>1. /\ Len(s) \in Nat /\ DOMAIN s = 1 .. Len(s) /\ DOMAIN t = 1 .. Len(t) /\ Len(t) \in Nat
      /\ \A i \in DOMAIN s : i \in DOMAIN u /\ u[i] = s[i]
      /\ \A i \in DOMAIN t : Len(s) + i \in DOMAIN u /\ u[Len(s) + i] = t[i]
      /\ \A i \in DOMAIN u :
           \/ i \in DOMAIN s /\ u[i] = s[i]
           \/ i - Len(s) \in DOMAIN t /\ u[i] = t[i - Len(s)]
      /\ DOMAIN u = 1 .. Len(s) + Len(t)
  BY JoinedElements
<1> HIDE DEF u
<1>2. ASSUME NEW a PROVE Holds(u, a) <=> Holds(s, a) \/ Holds(t, a)
  <2>1. Holds(u, a) => Holds(s, a) \/ Holds(t, a)
    BY <1>1 DEF Holds
  <2>2. Holds(s, a) => Holds(u, a)
    BY <1>1 DEF Holds
  <2>3. ASSUME Holds(t, a) PROVE Holds(u, a)
    <3>1. PICK i \in DOMAIN t : Inside(a, t[i])
      BY <2>3 DEF Holds
    <3>2. Len(s) + i \in DOMAIN u /\ Inside(a, u[Len(s) + i])
      BY <1>1, <3>1
    <3>3. QED
      BY <3>2 DEF Holds
  <2>4. QED
    BY <2>1, <2>2, <2>3
<1>3. ASSUME Apart(s), Apart(t),
             \A i \in DOMAIN s, j \in DOMAIN t : Follows(s[i], t[j]) \/ Follows(t[j], s[i])
      PROVE  Apart(u)
  <2>1. ASSUME NEW i \in DOMAIN u, NEW j \in DOMAIN u, i # j
        PROVE  Follows(u[i], u[j]) \/ Follows(u[j], u[i])
    <3>1. CASE i \in DOMAIN s /\ u[i] = s[i]
      <4>1. CASE j \in DOMAIN s /\ u[j] = s[j]
        BY <1>3, <2>1, <3>1, <4>1 DEF Apart
      <4>2. CASE j - Len(s) \in DOMAIN t /\ u[j] = t[j - Len(s)]
        BY <1>3, <3>1, <4>2
      <4>3. QED
        BY <1>1, <4>1, <4>2
    <3>2. CASE i - Len(s) \in DOMAIN t /\ u[i] = t[i - Len(s)]
      <4>1. CASE j \in DOMAIN s /\ u[j] = s[j]
        BY <1>3, <3>2, <4>1
      <4>2. CASE j - Len(s) \in DOMAIN t /\ u[j] = t[j - Len(s)]
        <5>1. i - Len(s) # j - Len(s)
          BY <1>1, <2>1
        <5>2. QED
          BY <1>3, <3>2, <4>2, <5>1 DEF Apart
      <4>3. QED
        BY <1>1, <4>1, <4>2
    <3>3. QED
      BY <1>1, <3>1, <3>2
  <2>2. QED
    BY <2>1 DEF Apart
<1>4. QED
  BY <1>2, <1>3 DEF u

-----------------------------------------------------------------------------
(* push_available_range.                                                   *)

Segment(from, to) == [start |-> from, end |-> to]

(* What the loop does from a cursor on, when f is what it does from later  *)
(* ones on.                                                                *)
SegmentsAt(f, cursor, limit, reserved) ==
  IF cursor = limit THEN << >>
  ELSE IF CoveringEnd(cursor, limit, reserved) # cursor
       THEN f[CoveringEnd(cursor, limit, reserved)]
       ELSE <<Segment(cursor, NextStart(cursor, limit, reserved))>>
              \o f[NextStart(cursor, limit, reserved)]

Loops(f, limit, reserved) ==
  f = [cursor \in 0 .. limit |-> SegmentsAt(f, cursor, limit, reserved)]

(* Every turn of the loop moves the cursor on, so it ends: there is such a *)
(* function, and Segments is its value at the start of the range.          *)
LEMMA LoopEnds ==
  ASSUME NEW reserved \in SUBSET FrameRanges, NEW limit \in Addresses, limit % PageSize = 0
  PROVE  \E f : Loops(f, limit, reserved)
<1> DEFINE At(f, c) == SegmentsAt(f, c, limit, reserved)
           Exists(k) == \E f : f = [c \in limit - k .. limit |-> At(f, c)]
           Bad == {k \in 0 .. limit : ~Exists(k)}
<1>1. limit \in Nat
  BY EarlyAssumption DEF Addresses
<1>2. Exists(0)
  <2>1. limit - 0 .. limit = {limit}
    BY <1>1
  <2> DEFINE g == [c \in {limit} |-> << >>]
  <2>2. \A c \in {limit} : At(g, c) = << >>
    BY DEF SegmentsAt
  <2>3. g = [c \in {limit} |-> At(g, c)]
    BY <2>2
  <2>4. QED
    BY <2>1, <2>3
<1>3. ASSUME NEW k \in Nat, k < limit, Exists(k)
      PROVE  Exists(k + 1)
  <2>1. PICK f : f = [c \in limit - k .. limit |-> At(f, c)]
    BY <1>3
  <2> DEFINE g == [c \in limit - (k + 1) .. limit |-> At(f, c)]
  <2>2. \A c \in limit - k .. limit : c \in limit - (k + 1) .. limit /\ g[c] = f[c]
    BY <1>1, <2>1
  <2>3. ASSUME NEW c \in limit - (k + 1) .. limit
        PROVE  At(f, c) = At(g, c)
    <3>1. CASE c = limit
      BY <3>1 DEF SegmentsAt
    <3>2. CASE c # limit
      <4>1. c \in Nat /\ c < limit
        BY <1>1, <1>3, <3>2
      <4> DEFINE covered == CoveringEnd(c, limit, reserved)
                 next == NextStart(c, limit, reserved)
      <4>2. covered \in c .. limit /\ (covered = c => Unreserved(c, reserved))
        BY <4>1, CoveringEndIs
      <4>3. covered = c => next \in c + 1 .. limit
        BY <4>1, <4>2, NextStartIs
      <4> HIDE DEF covered, next
      <4>4. covered # c => f[covered] = g[covered]
        BY <1>1, <1>3, <2>2, <4>1, <4>2
      <4>5. ASSUME covered = c PROVE f[next] = g[next]
        <5>1. next \in c + 1 .. limit
          BY <4>3, <4>5
        <5>2. next \in limit - k .. limit
          BY <1>1, <1>3, <4>1, <5>1
        <5>3. QED
          BY <2>2, <5>2
      <4>6. QED
        BY <3>2, <4>4, <4>5 DEF SegmentsAt, covered, next
    <3>3. QED
      BY <3>1, <3>2
  <2>4. g = [c \in limit - (k + 1) .. limit |-> At(g, c)]
    BY <2>3
  <2>5. QED
    BY <2>4
<1> HIDE DEF Exists
<1>4. Bad = {}
  <2> SUFFICES ASSUME Bad # {} PROVE FALSE
    OBVIOUS
  <2>1. Bad \in SUBSET Nat
    BY <1>1
  <2>2. PICK k \in Bad : \A m \in Bad : k <= m
    <3> HIDE DEF Bad
    <3>1. QED
      BY <2>1, MinIs
  <2>3. k # 0 /\ k - 1 \in Nat /\ k - 1 < limit /\ k - 1 \notin Bad
    BY <1>1, <1>2, <2>2
  <2>4. Exists(k - 1) /\ (k - 1) + 1 = k
    BY <1>1, <2>3, <2>2
  <2>5. Exists(k)
    BY <1>3, <2>3, <2>4
  <2>6. QED
    BY <2>2, <2>5
<1>5. Exists(limit)
  BY <1>1, <1>4
<1>6. limit - limit = 0
  BY <1>1
<1>7. QED
  BY <1>5, <1>6 DEF Exists, Loops

(* So Segments unfolds as the loop does.                                   *)
LEMMA SegmentsLoop ==
  ASSUME NEW reserved \in SUBSET FrameRanges, NEW range \in FrameRanges
  PROVE  \E f : Loops(f, range.end, reserved) /\ Segments(range, reserved) = f[range.start]
<1> DEFINE f == CHOOSE g : Loops(g, range.end, reserved)
<1>1. range.end \in Addresses /\ range.end % PageSize = 0
  BY DEF FrameRanges
<1>2. Loops(f, range.end, reserved)
  BY <1>1, LoopEnds, Zenon
<1>3. Segments(range, reserved) = f[range.start]
  BY Zenon DEF Segments, Loops, SegmentsAt, Segment
<1>4. QED
  BY <1>2, <1>3

(* What is left of the addresses from lo to hi: ranges that lie there,     *)
(* apart from each other, and hold what no reserved range does.            *)
Cut(ranges, lo, hi, reserved) ==
  /\ ranges \in Seq(FrameRanges)
  /\ \A i \in DOMAIN ranges : lo <= ranges[i].start /\ ranges[i].end <= hi
  /\ Apart(ranges)
  /\ \A a \in lo .. hi - 1 : Holds(ranges, a) <=> Unreserved(a, reserved)

(* A covered cursor moves on and pushes nothing.                           *)
LEMMA CutSkips ==
  ASSUME NEW reserved, NEW lo \in Nat, NEW mid \in lo .. AddressLimit,
         NEW hi \in mid .. AddressLimit, NEW s, Cut(s, mid, hi, reserved),
         \A a \in lo .. mid - 1 : ~Unreserved(a, reserved)
  PROVE  Cut(s, lo, hi, reserved)
<1>1. AddressLimit \in Nat /\ mid \in Nat /\ hi \in Nat /\ lo <= mid
  BY EarlyAssumption
<1>2. ASSUME NEW i \in DOMAIN s
      PROVE  /\ s[i].start \in Nat /\ s[i].end \in Nat /\ lo <= s[i].start
             /\ mid <= s[i].start /\ s[i].end <= hi
  <2>1. s[i] \in FrameRanges
    BY DEF Cut
  <2>2. s[i].start \in Nat /\ s[i].end \in Nat
    BY <1>1, <2>1 DEF FrameRanges, Addresses
  <2>3. mid <= s[i].start /\ s[i].end <= hi
    BY DEF Cut
  <2>4. QED
    BY <1>1, <2>2, <2>3
<1>3. ASSUME NEW a \in lo .. hi - 1 PROVE Holds(s, a) <=> Unreserved(a, reserved)
  <2>1. CASE a < mid
    <3>1. ~Holds(s, a)
      BY <1>1, <1>2, <2>1 DEF Holds, Inside
    <3>2. ~Unreserved(a, reserved)
      BY <1>1, <2>1
    <3>3. QED
      BY <3>1, <3>2
  <2>2. CASE a >= mid
    <3>1. a \in mid .. hi - 1
      BY <1>1, <2>2
    <3>2. QED
      BY <3>1 DEF Cut
  <2>3. QED
    BY <1>1, <2>1, <2>2
<1>4. QED
  BY <1>2, <1>3 DEF Cut

(* A free one pushes the segment up to the next reserved start.            *)
LEMMA CutTakes ==
  ASSUME NEW reserved, NEW lo \in Nat, NEW mid \in lo + 1 .. AddressLimit,
         NEW hi \in mid .. AddressLimit, NEW s, Cut(s, mid, hi, reserved),
         Segment(lo, mid) \in FrameRanges,
         \A a \in lo .. mid - 1 : Unreserved(a, reserved)
  PROVE  Cut(<<Segment(lo, mid)>> \o s, lo, hi, reserved)
<1> DEFINE first == <<Segment(lo, mid)>>
           u == first \o s
<1>1. AddressLimit \in Nat /\ mid \in Nat /\ hi \in Nat /\ lo < mid /\ mid <= hi
  BY EarlyAssumption
<1>2. ASSUME NEW i \in DOMAIN s
      PROVE  /\ s[i].start \in Nat /\ s[i].end \in Nat /\ lo <= s[i].start
             /\ mid <= s[i].start /\ s[i].end <= hi
  <2>1. s[i] \in FrameRanges
    BY DEF Cut
  <2>2. s[i].start \in Nat /\ s[i].end \in Nat
    BY <1>1, <2>1 DEF FrameRanges, Addresses
  <2>3. mid <= s[i].start /\ s[i].end <= hi
    BY DEF Cut
  <2>4. QED
    BY <1>1, <2>2, <2>3
<1>3. /\ first \in Seq(FrameRanges) /\ s \in Seq(FrameRanges)
      /\ DOMAIN first = {1} /\ first[1].start = lo /\ first[1].end = mid
  BY DEF Cut, Segment
<1> HIDE DEF first
<1>4. u \in Seq(FrameRanges)
  BY <1>3, JoinedElements
<1>5. \A i \in DOMAIN u : u[i] = first[1] \/ \E j \in DOMAIN s : u[i] = s[j]
  <2>1. \A i \in DOMAIN u :
          \/ i \in DOMAIN first /\ u[i] = first[i]
          \/ i - Len(first) \in DOMAIN s /\ u[i] = s[i - Len(first)]
    BY <1>3, JoinedElements
  <2> HIDE DEF u
  <2>2. QED
    BY <1>3, <2>1
<1>6. \A i \in DOMAIN u : lo <= u[i].start /\ u[i].end <= hi
  BY <1>1, <1>2, <1>3, <1>5
<1>7. Apart(u)
  <2>1. Apart(first)
    BY <1>3 DEF Apart
  <2>2. Apart(s)
    BY DEF Cut
  <2>3. \A i \in DOMAIN first, j \in DOMAIN s : Follows(first[i], s[j]) \/ Follows(s[j], first[i])
    BY <1>1, <1>2, <1>3 DEF Follows
  <2>4. QED
    BY <1>3, <2>1, <2>2, <2>3, JoinedRanges
<1>8. ASSUME NEW a \in lo .. hi - 1 PROVE Holds(u, a) <=> Unreserved(a, reserved)
  <2>1. Holds(u, a) <=> Holds(first, a) \/ Holds(s, a)
    BY <1>3, JoinedRanges
  <2>2. Holds(first, a) <=> a < mid
    BY <1>1, <1>3 DEF Holds, Inside
  <2>3. CASE a < mid
    BY <1>1, <2>1, <2>2, <2>3
  <2>4. CASE a >= mid
    <3>1. a \in mid .. hi - 1 /\ ~(a < mid)
      BY <1>1, <2>4
    <3>2. Holds(s, a) <=> Unreserved(a, reserved)
      BY <3>1 DEF Cut
    <3>3. QED
      BY <2>1, <2>2, <3>1, <3>2
  <2>5. QED
    BY <1>1, <2>3, <2>4
<1>9. QED
  BY <1>4, <1>6, <1>7, <1>8 DEF Cut, first

(* So the loop leaves what it should: at the last cursor that it got wrong *)
(* one turn would have gone wrong.                                         *)
LEMMA SegmentsCut ==
  ASSUME NEW reserved \in SUBSET FrameRanges, NEW range \in FrameRanges
  PROVE  Cut(Segments(range, reserved), range.start, range.end, reserved)
<1> DEFINE limit == range.end
<1>1. /\ limit \in Nat /\ limit \in Addresses /\ limit % PageSize = 0
      /\ limit <= AddressLimit /\ AddressLimit \in Nat
      /\ range.start \in Nat /\ range.start < limit /\ range.start % PageSize = 0
  BY EarlyAssumption DEF FrameRanges, Addresses
<1>2. PICK f : Loops(f, limit, reserved) /\ Segments(range, reserved) = f[range.start]
  BY SegmentsLoop
<1> HIDE DEF limit
<1>3. \A c \in 0 .. limit : f[c] = SegmentsAt(f, c, limit, reserved)
  BY <1>2 DEF Loops
<1> DEFINE Wrong(c) == ~Cut(f[c], c, limit, reserved)
           Bad == {k \in 0 .. limit : (limit - k) % PageSize = 0 /\ Wrong(limit - k)}
<1>4. Bad = {}
  <2> SUFFICES ASSUME Bad # {} PROVE FALSE
    OBVIOUS
  <2>1. Bad \in SUBSET Nat
    BY <1>1
  <2>2. PICK k \in Bad : \A m \in Bad : k <= m
    <3> HIDE DEF Bad
    <3>1. QED
      BY <2>1, MinIs
  <2> DEFINE c == limit - k
  <2>3. /\ k \in 0 .. limit /\ c \in 0 .. limit /\ c \in Nat /\ c <= limit
        /\ c % PageSize = 0 /\ Wrong(c)
    BY <1>1, <2>2
  <2> HIDE DEF Wrong
  <2>4. ASSUME NEW d \in c + 1 .. limit, d % PageSize = 0 PROVE ~Wrong(d)
    <3>1. limit - d \in 0 .. limit /\ limit - d < k /\ limit - (limit - d) = d
      BY <1>1, <2>3, <2>4
    <3>2. limit - d \notin Bad
      BY <2>2, <3>1
    <3>3. QED
      BY <2>4, <3>1, <3>2
  <2> HIDE DEF c
  <2>5. f[c] = SegmentsAt(f, c, limit, reserved)
    BY <1>3, <2>3
  <2>6. CASE c = limit
    <3>1. f[c] = << >>
      BY <2>5, <2>6 DEF SegmentsAt
    <3>2. << >> \in Seq(FrameRanges) /\ DOMAIN << >> = {}
      OBVIOUS
    <3>3. c .. limit - 1 = {}
      BY <1>1, <2>6
    <3>4. Cut(<< >>, c, limit, reserved)
      BY <3>2, <3>3 DEF Cut, Apart
    <3>5. QED
      BY <2>3, <3>1, <3>4 DEF Wrong
  <2>7. CASE c # limit
    <3> DEFINE covered == CoveringEnd(c, limit, reserved)
               next == NextStart(c, limit, reserved)
    <3>1. c < limit
      BY <1>1, <2>3, <2>7
    <3>2. /\ covered \in c .. limit
          /\ covered # c => covered % PageSize = 0
          /\ \A a \in c .. covered - 1 : ~Unreserved(a, reserved)
          /\ covered = c => Unreserved(c, reserved)
      BY <1>1, <2>3, <3>1, CoveringEndIs
    <3>3. covered = c =>
            /\ next \in c + 1 .. limit /\ next % PageSize = 0
            /\ \A a \in c .. next - 1 : Unreserved(a, reserved)
      BY <1>1, <2>3, <3>1, <3>2, NextStartIs
    <3>4. f[c] = IF covered # c THEN f[covered] ELSE <<Segment(c, next)>> \o f[next]
      BY <2>5, <2>7 DEF SegmentsAt
    <3> HIDE DEF covered, next
    <3>5. CASE covered # c
      <4>1. covered \in c + 1 .. limit
        BY <1>1, <2>3, <3>2, <3>5
      <4>2. Cut(f[covered], covered, limit, reserved)
        BY <2>4, <3>2, <3>5, <4>1 DEF Wrong
      <4>3. covered \in c .. AddressLimit /\ limit \in covered .. AddressLimit
        BY <1>1, <2>3, <4>1
      <4>4. Cut(f[covered], c, limit, reserved)
        BY <2>3, <3>2, <4>2, <4>3, CutSkips
      <4>5. QED
        BY <2>3, <3>4, <3>5, <4>4 DEF Wrong
    <3>6. CASE covered = c
      <4>1. next \in c + 1 .. limit /\ next % PageSize = 0
        BY <3>3, <3>6
      <4>2. Cut(f[next], next, limit, reserved)
        BY <2>4, <4>1 DEF Wrong
      <4>3. next \in c + 1 .. AddressLimit /\ limit \in next .. AddressLimit
        BY <1>1, <2>3, <4>1
      <4>4. Segment(c, next) \in FrameRanges
        <5>1. c \in Addresses /\ next \in Addresses /\ c < next
          BY <1>1, <2>3, <4>1 DEF Addresses
        <5>2. QED
          BY <2>3, <4>1, <5>1 DEF Segment, FrameRanges
      <4>5. Cut(<<Segment(c, next)>> \o f[next], c, limit, reserved)
        BY <2>3, <3>3, <3>6, <4>2, <4>3, <4>4, CutTakes
      <4>6. QED
        BY <2>3, <3>4, <3>6, <4>5 DEF Wrong
    <3>7. QED
      BY <3>5, <3>6
  <2>8. QED
    BY <2>6, <2>7
<1>5. limit - (limit - range.start) = range.start /\ limit - range.start \in 0 .. limit
  BY <1>1
<1>6. Cut(f[range.start], range.start, limit, reserved)
  BY <1>1, <1>4, <1>5
<1>7. QED
  BY <1>2, <1>6 DEF limit

-----------------------------------------------------------------------------
(* The ranges of all usable regions, one after the other.                  *)

Flattens(f, parts) ==
  f = [i \in 1 .. Len(parts) |-> IF i = 1 THEN parts[i] ELSE f[i - 1] \o parts[i]]

(* The concatenation of the first parts is defined for each number of them.*)
LEMMA FlattenExists ==
  ASSUME NEW parts, Len(parts) \in Nat
  PROVE  \E f : Flattens(f, parts)
<1> DEFINE n == Len(parts)
           At(f, i) == IF i = 1 THEN parts[i] ELSE f[i - 1] \o parts[i]
           Exists(k) == \E f : f = [i \in 1 .. k |-> At(f, i)]
           Bad == {k \in 0 .. n : ~Exists(k)}
<1>1. n \in Nat
  OBVIOUS
<1>2. Exists(0)
  <2> DEFINE g == [i \in 1 .. 0 |-> << >>]
  <2>1. g = [i \in 1 .. 0 |-> At(g, i)]
    OBVIOUS
  <2>2. QED
    BY <2>1
<1>3. ASSUME NEW k \in Nat, Exists(k) PROVE Exists(k + 1)
  <2>1. PICK f : f = [i \in 1 .. k |-> At(f, i)]
    BY <1>3
  <2> DEFINE g == [i \in 1 .. k + 1 |-> At(f, i)]
  <2>2. ASSUME NEW i \in 1 .. k PROVE g[i] = f[i]
    <3>1. i \in 1 .. k + 1
      OBVIOUS
    <3>2. g[i] = At(f, i)
      BY <3>1
    <3> HIDE DEF g
    <3>3. f[i] = At(f, i)
      BY <2>1
    <3>4. QED
      BY <3>2, <3>3
  <2>3. ASSUME NEW i \in 1 .. k + 1 PROVE At(f, i) = At(g, i)
    <3>1. CASE i = 1
      BY <3>1
    <3>2. CASE i # 1
      <4>1. i - 1 \in 1 .. k
        BY <3>2
      <4> HIDE DEF g
      <4>2. g[i - 1] = f[i - 1]
        BY <2>2, <4>1
      <4>3. QED
        BY <3>2, <4>2
    <3>3. QED
      BY <3>1, <3>2
  <2>4. g = [i \in 1 .. k + 1 |-> At(g, i)]
    BY <2>3
  <2>5. QED
    BY <2>4
<1> HIDE DEF Exists, n
<1>4. Bad = {}
  <2> SUFFICES ASSUME Bad # {} PROVE FALSE
    OBVIOUS
  <2>1. Bad \in SUBSET Nat
    BY <1>1
  <2>2. PICK k \in Bad : \A m \in Bad : k <= m
    <3> HIDE DEF Bad
    <3>1. QED
      BY <2>1, MinIs
  <2>3. k # 0 /\ k - 1 \in Nat /\ k - 1 \in 0 .. n /\ k - 1 \notin Bad
    BY <1>1, <1>2, <2>2
  <2>4. Exists(k - 1) /\ (k - 1) + 1 = k
    BY <2>2, <2>3
  <2>5. Exists(k)
    BY <1>3, <2>3, <2>4
  <2>6. QED
    BY <2>2, <2>5
<1>5. Exists(n)
  BY <1>1, <1>4
<1>6. QED
  BY <1>5 DEF Exists, Flattens, n

(* Each part is apart, and from each other part.                           *)
PartsApart(parts) ==
  /\ \A i \in DOMAIN parts : Apart(parts[i])
  /\ \A i, j \in DOMAIN parts :
       i # j => \A k \in DOMAIN parts[i], l \in DOMAIN parts[j] :
                  Follows(parts[i][k], parts[j][l]) \/ Follows(parts[j][l], parts[i][k])

(* The whole so far: the first n parts.                                    *)
Joined(whole, parts, n) ==
  /\ whole \in Seq(FrameRanges)
  /\ \A i \in DOMAIN whole :
       \E j \in 1 .. n : \E k \in DOMAIN parts[j] : whole[i] = parts[j][k]
  /\ \A a : Holds(whole, a) <=> \E j \in 1 .. n : Holds(parts[j], a)
  /\ PartsApart(parts) => Apart(whole)

(* One more part.                                                          *)
LEMMA JoinedNext ==
  ASSUME NEW parts \in Seq(Seq(FrameRanges)), NEW n \in Nat, n + 1 \in DOMAIN parts,
         NEW whole, Joined(whole, parts, n)
  PROVE  Joined(whole \o parts[n + 1], parts, n + 1)
<1> DEFINE next == parts[n + 1]
           u == whole \o next
<1>1. whole \in Seq(FrameRanges) /\ next \in Seq(FrameRanges)
  BY DEF Joined
<1>2. n + 1 \in 1 .. n + 1 /\ \A j \in 1 .. n : j \in 1 .. n + 1 /\ j # n + 1 /\ j \in DOMAIN parts
  OBVIOUS
<1>3. \A j \in 1 .. n + 1 : j = n + 1 \/ j \in 1 .. n
  OBVIOUS
<1> HIDE DEF next
<1>4. u \in Seq(FrameRanges)
  BY <1>1, JoinedElements
<1>5. ASSUME NEW i \in DOMAIN u
      PROVE  \E j \in 1 .. n + 1 : \E k \in DOMAIN parts[j] : u[i] = parts[j][k]
  <2>1. \/ i \in DOMAIN whole /\ u[i] = whole[i]
        \/ i - Len(whole) \in DOMAIN next /\ u[i] = next[i - Len(whole)]
    BY <1>1, JoinedElements
  <2> HIDE DEF u
  <2>2. CASE i \in DOMAIN whole /\ u[i] = whole[i]
    <3>1. PICK j \in 1 .. n : \E k \in DOMAIN parts[j] : whole[i] = parts[j][k]
      BY <2>2 DEF Joined
    <3>2. QED
      BY <1>2, <2>2, <3>1
  <2>3. CASE i - Len(whole) \in DOMAIN next /\ u[i] = next[i - Len(whole)]
    BY <1>2, <2>3 DEF next
  <2>4. QED
    BY <2>1, <2>2, <2>3
<1>6. ASSUME NEW a PROVE Holds(u, a) <=> \E j \in 1 .. n + 1 : Holds(parts[j], a)
  <2>1. Holds(u, a) <=> Holds(whole, a) \/ Holds(next, a)
    BY <1>1, JoinedRanges
  <2>2. Holds(whole, a) <=> \E j \in 1 .. n : Holds(parts[j], a)
    BY DEF Joined
  <2>3. (\E j \in 1 .. n + 1 : Holds(parts[j], a)) <=>
          (\E j \in 1 .. n : Holds(parts[j], a)) \/ Holds(next, a)
    BY <1>2, <1>3, Zenon DEF next
  <2>4. QED
    BY <2>1, <2>2, <2>3
<1>7. ASSUME PartsApart(parts) PROVE Apart(u)
  <2>1. Apart(whole) /\ Apart(next)
    BY <1>7 DEF Joined, PartsApart, next
  <2>2. ASSUME NEW i \in DOMAIN whole, NEW k \in DOMAIN next
        PROVE  Follows(whole[i], next[k]) \/ Follows(next[k], whole[i])
    <3>1. PICK j \in 1 .. n : \E l \in DOMAIN parts[j] : whole[i] = parts[j][l]
      BY DEF Joined
    <3>2. QED
      BY <1>2, <1>7, <3>1 DEF PartsApart, next
  <2>3. QED
    BY <1>1, <2>1, <2>2, JoinedRanges
<1>8. QED
  BY <1>4, <1>5, <1>6, <1>7 DEF Joined, next

(* The first part is the join of the parts up to it.                       *)
LEMMA JoinedFirst ==
  ASSUME NEW parts \in Seq(Seq(FrameRanges)), 1 \in DOMAIN parts
  PROVE  Joined(parts[1], parts, 1)
<1>1. parts[1] \in Seq(FrameRanges) /\ 1 .. 1 = {1}
  OBVIOUS
<1>2. QED
  BY <1>1 DEF Joined, PartsApart

(* So the concatenation is the join of all the parts.                      *)
LEMMA FlattenJoins ==
  ASSUME NEW parts \in Seq(Seq(FrameRanges))
  PROVE  Joined(FlattenSeq(parts), parts, Len(parts))
<1> DEFINE n == Len(parts)
<1>1. n \in Nat /\ DOMAIN parts = 1 .. n
  OBVIOUS
<1>2. CASE n = 0
  <2>1. FlattenSeq(parts) = parts /\ parts = << >>
    BY <1>2, EmptySeq DEF FlattenSeq
  <2>2. << >> \in Seq(FrameRanges) /\ DOMAIN << >> = {} /\ 1 .. 0 = {}
    OBVIOUS
  <2>3. Joined(<< >>, parts, 0)
    BY <2>2 DEF Joined, Holds, Apart
  <2>4. QED
    BY <1>2, <2>1, <2>3
<1>3. CASE n # 0
  <2> DEFINE f == CHOOSE g : Flattens(g, parts)
  <2>1. Flattens(f, parts)
    BY <1>1, FlattenExists, Zenon
  <2>2. FlattenSeq(parts) = f[n]
    BY <1>3, Zenon DEF FlattenSeq, Flattens
  <2> HIDE DEF f
  <2>3. \A i \in 1 .. n : f[i] = IF i = 1 THEN parts[i] ELSE f[i - 1] \o parts[i]
    BY <2>1 DEF Flattens
  <2> DEFINE Wrong(i) == ~Joined(f[i], parts, i)
             Bad == {i \in 1 .. n : Wrong(i)}
  <2>4. Bad = {}
    <3> HIDE DEF n
    <3> SUFFICES ASSUME Bad # {} PROVE FALSE
      OBVIOUS
    <3>1. Bad \in SUBSET Nat
      BY <1>1
    <3>2. PICK i \in Bad : \A m \in Bad : i <= m
      <4> HIDE DEF Bad
      <4>1. QED
        BY <3>1, MinIs
    <3>3. i \in 1 .. n /\ Wrong(i) /\ n \in Nat
      BY <1>1, <3>2
    <3> HIDE DEF Wrong
    <3>4. CASE i = 1
      <4>1. f[1] = parts[1]
        BY <2>3, <3>3, <3>4
      <4>2. QED
        BY <1>1, <3>3, <3>4, <4>1, JoinedFirst DEF Wrong
    <3>5. CASE i # 1
      <4>1. i - 1 \in Nat /\ i - 1 \in 1 .. n /\ (i - 1) + 1 = i /\ i - 1 < i
        BY <3>3, <3>5
      <4>2. i - 1 \notin Bad
        BY <3>2, <4>1
      <4>3. Joined(f[i - 1], parts, i - 1)
        BY <4>1, <4>2 DEF Wrong
      <4>4. Joined(f[i - 1] \o parts[(i - 1) + 1], parts, (i - 1) + 1)
        BY <1>1, <3>3, <4>1, <4>3, JoinedNext
      <4>5. f[i] = f[i - 1] \o parts[i]
        BY <2>3, <3>3, <3>5
      <4>6. QED
        BY <3>3, <4>1, <4>4, <4>5 DEF Wrong
    <3>6. QED
      BY <3>4, <3>5
  <2>5. n \in 1 .. n
    BY <1>1, <1>3
  <2>6. QED
    BY <2>2, <2>4, <2>5
<1>4. QED
  BY <1>2, <1>3

-----------------------------------------------------------------------------
(* normalize_memory_regions_with_reserved.                                 *)

Contributes(region) == region.kind = "Usable" /\ HasWholePage(region)

(* A region that contributes gives a frame range, inside the region.       *)
LEMMA WholePagesIs ==
  ASSUME NEW region \in MemoryRegions, HasWholePage(region)
  PROVE  /\ WholePages(region) \in FrameRanges
         /\ region.start <= WholePages(region).start
         /\ WholePages(region).end <= region.end
<1>1. region.start \in Nat /\ region.end \in Nat /\ region.end < AddressLimit
      /\ region.start \in Addresses /\ region.end \in Addresses
      /\ AddressLimit \in Nat /\ PageSize \in Nat \ {0}
  BY EarlyAssumption DEF MemoryRegions, Addresses
<1>2. /\ AlignUp(region.start, PageSize) \in Nat /\ AlignUp(region.start, PageSize) % PageSize = 0
      /\ region.start <= AlignUp(region.start, PageSize)
  BY <1>1, AlignUpIs
<1>3. /\ AlignDown(region.end, PageSize) \in Nat /\ AlignDown(region.end, PageSize) % PageSize = 0
      /\ AlignDown(region.end, PageSize) <= region.end
  BY <1>1, AlignDownIs
<1>4. AlignUp(region.start, PageSize) < AlignDown(region.end, PageSize)
  BY DEF HasWholePage
<1>5. /\ AlignUp(region.start, PageSize) \in Addresses
      /\ AlignDown(region.end, PageSize) \in Addresses
  BY <1>1, <1>2, <1>3, <1>4 DEF Addresses
<1>6. QED
  BY <1>2, <1>3, <1>4, <1>5 DEF WholePages, FrameRanges

SomeRanges == [start : Nat, end : Nat]

(* The bounds of a frame range are numbers.                                *)
LEMMA RangesAreSome == \A r \in FrameRanges : r \in SomeRanges
BY EarlyAssumption DEF FrameRanges, Addresses, SomeRanges

(* What a region contributes.                                              *)
Part(region, reserved) ==
  IF Contributes(region) THEN Segments(WholePages(region), reserved) ELSE << >>

(* It gives ranges of its whole pages, that hold the unreserved addresses  *)
(* of those, and nothing when it is not usable or has none.                *)
LEMMA PartIs ==
  ASSUME NEW reserved \in SUBSET FrameRanges, NEW region \in MemoryRegions
  PROVE  /\ Part(region, reserved) \in Seq(FrameRanges)
         /\ Apart(Part(region, reserved))
         /\ \A i \in DOMAIN Part(region, reserved) :
              /\ Contributes(region)
              /\ WholePages(region).start <= Part(region, reserved)[i].start
              /\ Part(region, reserved)[i].end <= WholePages(region).end
         /\ \A a \in Nat : Holds(Part(region, reserved), a) <=>
              Contributes(region) /\ Inside(a, WholePages(region)) /\ Unreserved(a, reserved)
<1>1. CASE Contributes(region)
  <2> DEFINE w == WholePages(region)
             s == Segments(w, reserved)
  <2>1. w \in FrameRanges
    BY <1>1, WholePagesIs DEF Contributes
  <2>2. w.start \in Nat /\ w.end \in Nat
    BY <2>1, EarlyAssumption DEF FrameRanges, Addresses
  <2> HIDE DEF w
  <2>3. Cut(s, w.start, w.end, reserved)
    BY <2>1, SegmentsCut
  <2>4. Part(region, reserved) = s
    BY <1>1 DEF Part, w
  <2> HIDE DEF s
  <2>5. ASSUME NEW i \in DOMAIN s
        PROVE  s[i].start \in Nat /\ s[i].end \in Nat /\ w.start <= s[i].start /\ s[i].end <= w.end
    <3>1. s[i] \in FrameRanges
      BY <2>3 DEF Cut
    <3>2. s[i].start \in Nat /\ s[i].end \in Nat
      BY <3>1, EarlyAssumption DEF FrameRanges, Addresses
    <3>3. QED
      BY <2>3, <3>2 DEF Cut
  <2>6. ASSUME NEW a \in Nat
        PROVE  Holds(s, a) <=> Inside(a, w) /\ Unreserved(a, reserved)
    <3>1. CASE Inside(a, w)
      <4>1. a \in w.start .. w.end - 1
        BY <2>2, <3>1 DEF Inside
      <4>2. QED
        BY <2>3, <3>1, <4>1 DEF Cut
    <3>2. CASE ~Inside(a, w)
      <4>1. ~Holds(s, a)
        BY <2>2, <2>5, <3>2 DEF Holds, Inside
      <4>2. QED
        BY <3>2, <4>1
    <3>3. QED
      BY <3>1, <3>2
  <2>7. s \in Seq(FrameRanges) /\ Apart(s)
    BY <2>3 DEF Cut
  <2>8. QED
    BY <1>1, <2>4, <2>5, <2>6, <2>7 DEF w
<1>2. CASE ~Contributes(region)
  <2>1. Part(region, reserved) = << >>
    BY <1>2 DEF Part
  <2>2. << >> \in Seq(FrameRanges) /\ DOMAIN << >> = {}
    OBVIOUS
  <2>3. QED
    BY <1>2, <2>1, <2>2 DEF Apart, Holds
<1>3. QED
  BY <1>1, <1>2

(* The firmware's usable regions do not overlap.                           *)
Tidy(regions) ==
  \A i, j \in DOMAIN regions :
    i # j /\ regions[i].kind = "Usable" /\ regions[j].kind = "Usable" =>
      Follows(regions[i], regions[j]) \/ Follows(regions[j], regions[i])

(* The map is a sequence of frame ranges that holds an address when the    *)
(* whole pages of a usable region do and no reserved range does, and whose *)
(* ranges are apart when the regions are.                                  *)
LEMMA NormalizedIs ==
  ASSUME NEW regions \in Seq(MemoryRegions), NEW reserved \in SUBSET FrameRanges
  PROVE  /\ Normalized(regions, reserved) \in Seq(FrameRanges)
         /\ \A a \in Nat : Holds(Normalized(regions, reserved), a) <=>
              \E j \in DOMAIN regions :
                /\ Contributes(regions[j]) /\ Inside(a, WholePages(regions[j]))
                /\ Unreserved(a, reserved)
         /\ Tidy(regions) => Apart(Normalized(regions, reserved))
<1> DEFINE parts == [i \in DOMAIN regions |-> Part(regions[i], reserved)]
           n == Len(parts)
<1>1. DOMAIN regions = 1 .. Len(regions) /\ Len(regions) \in Nat
      /\ \A i \in DOMAIN regions : regions[i] \in MemoryRegions
  OBVIOUS
<1>2. ASSUME NEW i \in DOMAIN regions PROVE Part(regions[i], reserved) \in Seq(FrameRanges)
  BY <1>1, PartIs
<1>3. /\ parts \in Seq(Seq(FrameRanges)) /\ DOMAIN parts = DOMAIN regions
      /\ 1 .. n = DOMAIN regions
  <2>1. parts \in [1 .. Len(regions) -> Seq(FrameRanges)]
    BY <1>1, <1>2
  <2>2. parts \in Seq(Seq(FrameRanges))
    BY <1>1, <2>1
  <2>3. DOMAIN parts = DOMAIN regions
    OBVIOUS
  <2> HIDE DEF parts
  <2>4. QED
    BY <2>2, <2>3
<1>4. Normalized(regions, reserved) = FlattenSeq(parts)
  BY Zenon DEF Normalized, Part, Contributes
<1>5. \A i \in DOMAIN regions : parts[i] = Part(regions[i], reserved)
  OBVIOUS
<1> HIDE DEF parts
<1>6. Joined(FlattenSeq(parts), parts, n)
  BY <1>3, FlattenJoins
<1> DEFINE map == FlattenSeq(parts)
<1> HIDE DEF map
<1>7. ASSUME NEW a \in Nat
      PROVE  Holds(map, a) <=>
               \E j \in DOMAIN regions :
                 /\ Contributes(regions[j]) /\ Inside(a, WholePages(regions[j]))
                 /\ Unreserved(a, reserved)
  <2>1. Holds(map, a) <=> \E j \in DOMAIN regions : Holds(parts[j], a)
    BY <1>3, <1>6, Zenon DEF Joined, map
  <2>2. \A j \in DOMAIN regions :
          Holds(parts[j], a) <=>
            Contributes(regions[j]) /\ Inside(a, WholePages(regions[j])) /\ Unreserved(a, reserved)
    BY <1>1, <1>5, PartIs
  <2>3. QED
    BY <2>1, <2>2, Zenon
<1>8. ASSUME Tidy(regions) PROVE Apart(map)
  <2>1. \A i \in DOMAIN parts : Apart(parts[i])
    BY <1>1, <1>3, <1>5, PartIs
  <2>2. ASSUME NEW i \in DOMAIN regions, NEW j \in DOMAIN regions, i # j,
               NEW k \in DOMAIN parts[i], NEW l \in DOMAIN parts[j]
        PROVE  Follows(parts[i][k], parts[j][l]) \/ Follows(parts[j][l], parts[i][k])
    <3> DEFINE v == WholePages(regions[i])
               w == WholePages(regions[j])
    <3>1. /\ Contributes(regions[i]) /\ v.start <= parts[i][k].start /\ parts[i][k].end <= v.end
      BY <1>1, <1>5, PartIs
    <3>2. /\ Contributes(regions[j]) /\ w.start <= parts[j][l].start /\ parts[j][l].end <= w.end
      BY <1>1, <1>5, PartIs
    <3>3. /\ v \in FrameRanges /\ regions[i].start <= v.start /\ v.end <= regions[i].end
      BY <1>1, <3>1, WholePagesIs DEF Contributes
    <3>4. /\ w \in FrameRanges /\ regions[j].start <= w.start /\ w.end <= regions[j].end
      BY <1>1, <3>2, WholePagesIs DEF Contributes
    <3> HIDE DEF v, w
    <3>5. Follows(regions[i], regions[j]) \/ Follows(regions[j], regions[i])
      BY <1>8, <2>2, <3>1, <3>2 DEF Tidy, Contributes
    <3>6. parts[i][k] \in FrameRanges /\ parts[j][l] \in FrameRanges
      BY <1>2, <1>5
    <3>7. parts[i][k] \in SomeRanges /\ parts[j][l] \in SomeRanges
      BY <3>6, RangesAreSome
    <3>8. v \in SomeRanges /\ w \in SomeRanges
      BY <3>3, <3>4, RangesAreSome
    <3>9. regions[i] \in MemoryRegions /\ regions[j] \in MemoryRegions
      BY <1>1
    <3>10. /\ regions[i].start \in Nat /\ regions[i].end \in Nat
           /\ regions[j].start \in Nat /\ regions[j].end \in Nat
      BY <3>9, EarlyAssumption DEF MemoryRegions, Addresses
    <3>11. Follows(v, w) \/ Follows(w, v)
      BY <3>3, <3>4, <3>5, <3>8, <3>10 DEF Follows, SomeRanges
    <3>12. QED
      BY <3>1, <3>2, <3>7, <3>8, <3>11 DEF Follows, SomeRanges
  <2>3. PartsApart(parts)
    BY <1>3, <2>1, <2>2 DEF PartsApart
  <2>4. QED
    BY <1>6, <2>3 DEF Joined, map
<1>9. map \in Seq(FrameRanges)
  BY <1>6 DEF Joined, map
<1>10. QED
  BY <1>4, <1>7, <1>8, <1>9 DEF map

-----------------------------------------------------------------------------
(* Allocation.                                                             *)

(* normalize_layout raises an alignment to a page: to one that is a        *)
(* multiple of both.                                                       *)
LEMMA AlignIs ==
  ASSUME NEW layout \in Layouts
  PROVE  /\ Align(layout) \in Nat \ {0}
         /\ Align(layout) % PageSize = 0 /\ Align(layout) % layout.align = 0
<1> DEFINE a == layout.align
           b == Align(layout)
<1>1. a \in Nat \ {0} /\ PageSize \in Nat \ {0} /\ (a % PageSize = 0 \/ PageSize % a = 0)
  BY EarlyAssumption
<1>2. b \in {a, PageSize} /\ a <= b /\ PageSize <= b
  <2>1. {a, PageSize} \in SUBSET Nat /\ a + PageSize \in Nat
        /\ \A x \in {a, PageSize} : x <= a + PageSize
    BY <1>1
  <2>2. Max({a, PageSize}) \in {a, PageSize} /\ \A x \in {a, PageSize} : x <= Max({a, PageSize})
    BY <2>1, MaxIs
  <2>3. QED
    BY <2>2 DEF Align
<1> HIDE DEF a, b
<1>3. a % a = 0 /\ PageSize % PageSize = 0
  <2>1. (a * 1) % a = 0 /\ (PageSize * 1) % PageSize = 0 /\ 1 \in Nat
    BY <1>1, Multiples
  <2>2. a * 1 = a /\ PageSize * 1 = PageSize
    BY <1>1
  <2>3. QED
    BY <2>1, <2>2
<1>4. CASE a % PageSize = 0
  <2>1. PageSize <= a
    <3>1. 0 % PageSize = 0 /\ 0 \in Nat /\ 0 < a
      BY <1>1
    <3>2. 0 + PageSize <= a
      BY <1>1, <1>4, <3>1, MultipleSums
    <3>3. QED
      BY <1>1, <3>2
  <2>2. b = a
    BY <1>1, <1>2, <2>1
  <2>3. QED
    BY <1>1, <1>3, <1>4, <2>2 DEF a, b
<1>5. CASE PageSize % a = 0
  <2>1. a <= PageSize
    <3>1. 0 % a = 0 /\ 0 \in Nat /\ 0 < PageSize
      BY <1>1
    <3>2. 0 + a <= PageSize
      BY <1>1, <1>5, <3>1, MultipleSums
    <3>3. QED
      BY <1>1, <3>2
  <2>2. b = PageSize
    BY <1>1, <1>2, <2>1
  <2>3. QED
    BY <1>1, <1>3, <1>5, <2>2 DEF a, b
<1>6. QED
  BY <1>1, <1>4, <1>5

(* allocate_from_range: a place at or after the cursor with the size and   *)
(* the alignment asked for, that ends on a page boundary.                  *)
LEMMA PlaceIs ==
  ASSUME NEW layout \in Layouts, layout.size > 0, NEW cursor \in Nat
  PROVE  LET place == Place(layout, cursor)
         IN  /\ place.start \in Nat /\ place.end \in Nat
             /\ cursor <= place.start /\ place.start < place.end
             /\ place.end - place.start >= layout.size
             /\ place.start % layout.align = 0 /\ place.end % PageSize = 0
<1> DEFINE a == Align(layout)
           start == AlignUp(cursor, a)
           length == AlignUp(layout.size, PageSize)
<1>1. layout.size \in Nat /\ layout.align \in Nat \ {0} /\ PageSize \in Nat \ {0}
  BY EarlyAssumption
<1>2. a \in Nat \ {0} /\ a % PageSize = 0 /\ a % layout.align = 0
  BY AlignIs
<1> HIDE DEF a
<1>3. start \in Nat /\ start % a = 0 /\ cursor <= start
  BY <1>2, AlignUpIs
<1>4. length \in Nat /\ length % PageSize = 0 /\ layout.size <= length
  BY <1>1, AlignUpIs
<1>5. Place(layout, cursor) = [start |-> start, end |-> start + length]
  BY Zenon DEF Place, a
<1> HIDE DEF start, length
<1>6. start % PageSize = 0 /\ start % layout.align = 0
  BY <1>1, <1>2, <1>3, MultipleOfMultiple
<1>7. (start + length) % PageSize = 0
  BY <1>1, <1>3, <1>4, <1>6, MultipleSums
<1>8. start < start + length /\ start + length \in Nat /\ (start + length) - start >= layout.size
  BY <1>1, <1>3, <1>4
<1>9. QED
  BY <1>3, <1>5, <1>6, <1>7, <1>8

-----------------------------------------------------------------------------
(* The invariant.                                                          *)

(* A grant is what was asked for, from the part of a range that its cursor *)
(* has passed.                                                             *)
GrantOK(g, ranges, next) ==
  /\ g.range.start \in Nat /\ g.range.end \in Nat
  /\ g.range.start < g.range.end
  /\ g.range.end - g.range.start >= g.layout.size
  /\ g.range.start % g.layout.align = 0
  /\ \E i \in DOMAIN ranges :
       ranges[i].start <= g.range.start /\ g.range.end <= next[i]

CursorsOK(ranges, next) ==
  /\ next \in Seq(Addresses) /\ DOMAIN next = DOMAIN ranges
  /\ \A i \in DOMAIN ranges :
       next[i] \in ranges[i].start .. ranges[i].end /\ next[i] % PageSize = 0

GrantsFollow(grants) ==
  \A g, h \in grants : g # h => Follows(g.range, h.range) \/ Follows(h.range, g.range)

(* The allocator was made from a map, and what it has granted lies behind  *)
(* its cursors, without overlaps when the map was tidy.                    *)
Manages(map) ==
  /\ boot = [regions |-> map[1], reserved |-> map[2]]
  /\ allocator = [ranges |-> Normalized(map[1], map[2]), next |-> allocator.next]
  /\ Len(Normalized(map[1], map[2])) \in 1 .. MapCapacity
  /\ CursorsOK(Normalized(map[1], map[2]), allocator.next)
  /\ \A g \in granted : GrantOK(g, Normalized(map[1], map[2]), allocator.next)
  /\ Tidy(map[1]) => GrantsFollow(granted)

EarlyOK ==
  \/ allocator = None /\ boot = None /\ granted = {}
  \/ \E map \in MemoryMaps : Manages(map)

(* None is no allocator.                                                   *)
LEMMA ManagerIsSome ==
  ASSUME NEW map \in MemoryMaps, Manages(map)
  PROVE  allocator # None
<1>1. map[1] \in Seq(MemoryRegions) /\ map[2] \in SUBSET FrameRanges
  BY MapAssumption
<1>2. Normalized(map[1], map[2]) \in Seq(FrameRanges)
  BY <1>1, NormalizedIs
<1>3. allocator \in [ranges : Seq(FrameRanges), next : Seq(Addresses)]
  BY <1>2 DEF Manages, CursorsOK
<1>4. QED
  BY <1>3, MapAssumption

(* init_from_regions puts every cursor at the start of its range.          *)
LEMMA InitFromRegionsOK ==
  ASSUME EarlyOK, NEW map \in MemoryMaps, InitFromRegions(map[1], map[2])
  PROVE  EarlyOK'
<1> DEFINE ranges == Normalized(map[1], map[2])
           next == [i \in DOMAIN ranges |-> ranges[i].start]
<1>1. map[1] \in Seq(MemoryRegions) /\ map[2] \in SUBSET FrameRanges
  BY MapAssumption
<1>2. ranges \in Seq(FrameRanges)
  BY <1>1, NormalizedIs
<1>3. /\ Len(ranges) \in 1 .. MapCapacity
      /\ allocator' = [ranges |-> ranges, next |-> next]
      /\ boot' = [regions |-> map[1], reserved |-> map[2]]
      /\ allocator = None /\ granted' = granted
  BY DEF InitFromRegions
<1>4. granted = {}
  BY <1>3, ManagerIsSome DEF EarlyOK
<1> HIDE DEF ranges
<1>5. DOMAIN ranges = 1 .. Len(ranges) /\ Len(ranges) \in Nat
      /\ \A i \in DOMAIN ranges : ranges[i] \in FrameRanges
  BY <1>2
<1>6. \A i \in DOMAIN ranges : ranges[i].start \in Addresses
  BY <1>5 DEF FrameRanges
<1>7. CursorsOK(ranges, next)
  <2>1. next \in [1 .. Len(ranges) -> Addresses]
    BY <1>5, <1>6
  <2>2. next \in Seq(Addresses)
    BY <1>5, <2>1
  <2>3. ASSUME NEW i \in DOMAIN ranges
        PROVE  next[i] \in ranges[i].start .. ranges[i].end /\ next[i] % PageSize = 0
    <3>1. ranges[i] \in FrameRanges /\ next[i] = ranges[i].start
      BY <1>5
    <3>2. QED
      BY <3>1, EarlyAssumption DEF FrameRanges, Addresses
  <2>4. QED
    BY <2>2, <2>3 DEF CursorsOK
<1>8. /\ allocator'.next = next /\ allocator' = [ranges |-> ranges, next |-> allocator'.next]
  BY <1>3
<1> HIDE DEF next
<1>9. Manages(map)'
  BY <1>3, <1>4, <1>7, <1>8 DEF Manages, GrantsFollow, ranges
<1>10. QED
  BY <1>9 DEF EarlyOK

(* allocate moves the cursor of one range past what it grants.             *)
LEMMA AllocateOK ==
  ASSUME EarlyOK, NEW layout \in Layouts, Allocate(layout)
  PROVE  EarlyOK'
<1>1. allocator # None
  BY DEF Allocate
<1>2. PICK map \in MemoryMaps : Manages(map)
  BY <1>1 DEF EarlyOK
<1> DEFINE ranges == Normalized(map[1], map[2])
           fitting == {i \in DOMAIN allocator.ranges : Fits(layout, i)}
<1>3. map[1] \in Seq(MemoryRegions) /\ map[2] \in SUBSET FrameRanges
  BY MapAssumption
<1>4. ranges \in Seq(FrameRanges) /\ (Tidy(map[1]) => Apart(ranges))
  BY <1>3, NormalizedIs
<1>5. /\ boot = [regions |-> map[1], reserved |-> map[2]]
      /\ allocator = [ranges |-> ranges, next |-> allocator.next]
      /\ Len(ranges) \in 1 .. MapCapacity
      /\ CursorsOK(ranges, allocator.next)
      /\ \A g \in granted : GrantOK(g, ranges, allocator.next)
      /\ Tidy(map[1]) => GrantsFollow(granted)
  BY <1>2 DEF Manages
<1>6. allocator.ranges = ranges
  BY <1>5
<1> HIDE DEF ranges
<1>7. DOMAIN ranges = 1 .. Len(ranges) /\ \A i \in DOMAIN ranges : ranges[i] \in FrameRanges
  BY <1>4
<1>8. fitting # {} /\ fitting \in SUBSET Nat
  BY <1>6, <1>7 DEF Allocate
<1>9. Min(fitting) \in fitting
  <2> HIDE DEF fitting
  <2>1. QED
    BY <1>8, MinIs
<1>10. PICK i : /\ i \in fitting /\ layout.size > 0
                /\ allocator' = [allocator EXCEPT !.next[i] = Place(layout, allocator.next[i]).end]
                /\ granted' = granted \cup {[range |-> Place(layout, allocator.next[i]),
                                             layout |-> layout,
                                             nth |-> Cardinality(granted)]}
                /\ boot' = boot
  BY <1>9 DEF Allocate
<1> DEFINE next == allocator.next
           place == Place(layout, next[i])
           moved == [next EXCEPT ![i] = place.end]
           grant == [range |-> place, layout |-> layout, nth |-> Cardinality(granted)]
<1>11. i \in DOMAIN ranges /\ Fits(layout, i)
  BY <1>6, <1>10
<1>12. /\ next \in Seq(Addresses) /\ DOMAIN next = DOMAIN ranges
       /\ \A j \in DOMAIN ranges :
            next[j] \in ranges[j].start .. ranges[j].end /\ next[j] % PageSize = 0
  BY <1>5 DEF CursorsOK
<1>13. allocator' = [ranges |-> ranges, next |-> moved]
  BY <1>5, <1>10
<1>14. allocator'.next = moved /\ granted' = granted \cup {grant} /\ boot' = boot
  BY <1>10, <1>13
<1>15. place.end < AddressLimit /\ place.end <= ranges[i].end
  BY <1>6, <1>11 DEF Fits
<1> HIDE DEF next
<1>16. ASSUME NEW j \in DOMAIN ranges
       PROVE  /\ ranges[j].start \in Nat /\ ranges[j].end \in Nat /\ next[j] \in Nat
              /\ next[j] \in Addresses /\ ranges[j].start <= next[j] /\ next[j] <= ranges[j].end
  <2>1. ranges[j] \in SomeRanges
    BY <1>7, RangesAreSome
  <2>2. next[j] \in Addresses
    BY <1>7, <1>12
  <2>3. QED
    BY <1>12, <2>1, <2>2, EarlyAssumption DEF SomeRanges, Addresses
<1>17. /\ place.start \in Nat /\ place.end \in Nat
       /\ next[i] <= place.start /\ place.start < place.end
       /\ place.end - place.start >= layout.size
       /\ place.start % layout.align = 0 /\ place.end % PageSize = 0
  BY <1>10, <1>11, <1>16, PlaceIs
<1> HIDE DEF place
<1>18. /\ DOMAIN moved = DOMAIN ranges /\ moved[i] = place.end
       /\ \A j \in DOMAIN ranges : j # i => moved[j] = next[j]
  BY <1>11, <1>12
<1>19. moved \in Seq(Addresses)
  <2>1. place.end \in Addresses
    BY <1>15, <1>17, EarlyAssumption DEF Addresses
  <2>2. next \in [1 .. Len(ranges) -> Addresses] /\ Len(ranges) \in Nat
    BY <1>4, <1>7, <1>12, <1>16
  <2>3. moved \in [1 .. Len(ranges) -> Addresses]
    BY <2>1, <2>2
  <2>4. QED
    BY <2>2, <2>3
<1> HIDE DEF moved
<1>20. \A j \in DOMAIN ranges : moved[j] \in Nat /\ next[j] <= moved[j]
  BY <1>11, <1>16, <1>17, <1>18
<1>21. CursorsOK(ranges, moved)
  <2>1. ASSUME NEW j \in DOMAIN ranges
        PROVE  moved[j] \in ranges[j].start .. ranges[j].end /\ moved[j] % PageSize = 0
    <3>1. CASE j = i
      BY <1>11, <1>15, <1>16, <1>17, <1>18, <3>1
    <3>2. CASE j # i
      BY <1>12, <1>18, <3>2
    <3>3. QED
      BY <3>1, <3>2
  <2>2. QED
    BY <1>18, <1>19, <2>1 DEF CursorsOK
<1>22. GrantOK(grant, ranges, moved)
  BY <1>11, <1>16, <1>17, <1>18 DEF GrantOK
<1>23. ASSUME NEW g \in granted PROVE GrantOK(g, ranges, moved)
  <2>1. GrantOK(g, ranges, next)
    BY <1>5 DEF next
  <2>2. PICK j \in DOMAIN ranges : ranges[j].start <= g.range.start /\ g.range.end <= next[j]
    BY <2>1 DEF GrantOK
  <2>3. g.range.end <= moved[j]
    BY <1>16, <1>20, <2>1, <2>2 DEF GrantOK
  <2>4. QED
    BY <2>1, <2>2, <2>3 DEF GrantOK
<1>24. ASSUME Tidy(map[1]) PROVE GrantsFollow(granted')
  <2>1. GrantsFollow(granted) /\ Apart(ranges)
    BY <1>4, <1>5, <1>24
  <2>2. ASSUME NEW g \in granted PROVE Follows(g.range, place) \/ Follows(place, g.range)
    <3>1. GrantOK(g, ranges, next)
      BY <1>5 DEF next
    <3>2. PICK j \in DOMAIN ranges : ranges[j].start <= g.range.start /\ g.range.end <= next[j]
      BY <3>1 DEF GrantOK
    <3>3. g.range.start \in Nat /\ g.range.end \in Nat
      BY <3>1 DEF GrantOK
    <3>4. CASE j = i
      BY <1>11, <1>16, <1>17, <3>2, <3>3, <3>4 DEF Follows
    <3>5. CASE j # i
      <4>1. Follows(ranges[i], ranges[j]) \/ Follows(ranges[j], ranges[i])
        BY <1>11, <2>1, <3>5 DEF Apart
      <4>2. QED
        BY <1>11, <1>15, <1>16, <1>17, <3>2, <3>3, <4>1 DEF Follows
    <3>6. QED
      BY <3>4, <3>5
  <2>3. \A g \in granted' : g \in granted \/ g = grant
    BY <1>14
  <2>4. grant.range = place
    OBVIOUS
  <2> HIDE DEF grant
  <2>5. QED
    BY <2>1, <2>2, <2>3, <2>4 DEF GrantsFollow
<1>25. Manages(map)'
  <2>1. \A g \in granted' : GrantOK(g, ranges, moved)
    BY <1>14, <1>22, <1>23
  <2>2. QED
    BY <1>5, <1>13, <1>14, <1>21, <1>24, <2>1 DEF Manages, ranges
<1>26. QED
  BY <1>25 DEF EarlyOK

(* Every step of the allocator keeps the invariant.                        *)
LEMMA EarlyInvariant == Spec => []EarlyOK
<1>1. Init => EarlyOK
  BY DEF Init, EarlyOK
<1>2. EarlyOK /\ [Next]_vars => EarlyOK'
  <2> SUFFICES ASSUME EarlyOK, [Next]_vars PROVE EarlyOK'
    OBVIOUS
  <2>1. CASE \E map \in MemoryMaps : InitFromRegions(map[1], map[2])
    BY <2>1, InitFromRegionsOK
  <2>2. CASE \E layout \in Layouts : Allocate(layout)
    BY <2>2, AllocateOK
  <2>3. CASE UNCHANGED vars
    BY <2>3, Zenon DEF vars, EarlyOK, Manages, GrantOK
  <2>4. QED
    BY <2>1, <2>2, <2>3 DEF Next
<1>3. QED
  BY <1>1, <1>2, PTL DEF Spec

-----------------------------------------------------------------------------
(* What the allocator promises.                                            *)

(* What an allocator that manages a map has.                               *)
LEMMA Managed ==
  ASSUME EarlyOK, allocator # None
  PROVE  \E map \in MemoryMaps :
           /\ map[1] \in Seq(MemoryRegions) /\ map[2] \in SUBSET FrameRanges
           /\ allocator.ranges = Normalized(map[1], map[2])
           /\ allocator.ranges \in Seq(FrameRanges)
           /\ boot.regions = map[1] /\ boot.reserved = map[2]
           /\ Manages(map)
<1>1. PICK map \in MemoryMaps : Manages(map)
  BY DEF EarlyOK
<1>2. map[1] \in Seq(MemoryRegions) /\ map[2] \in SUBSET FrameRanges
  BY MapAssumption
<1>3. Normalized(map[1], map[2]) \in Seq(FrameRanges)
  BY <1>2, NormalizedIs
<1>4. allocator.ranges = Normalized(map[1], map[2])
      /\ boot.regions = map[1] /\ boot.reserved = map[2]
  BY <1>1 DEF Manages
<1>5. QED
  BY <1>1, <1>2, <1>3, <1>4

(* The cursors stay in their ranges and on page boundaries, so that        *)
(* remaining, which subtracts one from the other, is never negative.       *)
THEOREM EarlyTypeCorrect == Spec => []TypeOK
<1>1. EarlyOK => TypeOK
  <2> SUFFICES ASSUME EarlyOK, allocator # None
               PROVE  /\ Len(allocator.ranges) \in 1 .. MapCapacity
                      /\ \A i \in DOMAIN allocator.ranges :
                           LET range == allocator.ranges[i]
                           IN  /\ range.start < range.end /\ range.end < AddressLimit
                               /\ allocator.next[i] \in range.start .. range.end
                               /\ \A a \in {range.start, range.end, allocator.next[i]} :
                                    a % PageSize = 0
    BY DEF TypeOK
  <2>1. PICK map \in MemoryMaps :
           /\ allocator.ranges = Normalized(map[1], map[2])
           /\ allocator.ranges \in Seq(FrameRanges) /\ Manages(map)
    BY Managed
  <2>2. Len(allocator.ranges) \in 1 .. MapCapacity
        /\ CursorsOK(allocator.ranges, allocator.next)
    BY <2>1 DEF Manages
  <2>3. ASSUME NEW i \in DOMAIN allocator.ranges
        PROVE  LET range == allocator.ranges[i]
               IN  /\ range.start < range.end /\ range.end < AddressLimit
                   /\ allocator.next[i] \in range.start .. range.end
                   /\ \A a \in {range.start, range.end, allocator.next[i]} : a % PageSize = 0
    <3>1. allocator.ranges[i] \in FrameRanges
      BY <2>1
    <3>2. allocator.next[i] \in allocator.ranges[i].start .. allocator.ranges[i].end
          /\ allocator.next[i] % PageSize = 0
      BY <2>2 DEF CursorsOK
    <3>3. QED
      BY <3>1, <3>2, EarlyAssumption DEF FrameRanges, Addresses
  <2>4. QED
    BY <2>2, <2>3
<1>2. QED
  BY <1>1, EarlyInvariant, PTL

(* A grant holds the size and has the alignment that was asked for, and is *)
(* part of one range of the map: allocate_from_range never hands out a     *)
(* block that runs on into the hole after its range.                       *)
THEOREM GrantsFit == Spec => []GrantsFitOneRange
<1>1. EarlyOK => GrantsFitOneRange
  <2> SUFFICES ASSUME EarlyOK, NEW g \in granted
               PROVE  /\ g.range.end - g.range.start >= g.layout.size
                      /\ g.range.start % g.layout.align = 0
                      /\ \E i \in DOMAIN allocator.ranges :
                           Bytes(g.range) \subseteq Bytes(allocator.ranges[i])
    BY DEF GrantsFitOneRange
  <2>1. allocator # None
    BY ManagerIsSome DEF EarlyOK
  <2>2. PICK map \in MemoryMaps :
           /\ allocator.ranges = Normalized(map[1], map[2])
           /\ allocator.ranges \in Seq(FrameRanges) /\ Manages(map)
    BY <2>1, Managed
  <2>3. GrantOK(g, allocator.ranges, allocator.next)
        /\ CursorsOK(allocator.ranges, allocator.next)
    BY <2>2 DEF Manages
  <2>4. PICK i \in DOMAIN allocator.ranges :
           allocator.ranges[i].start <= g.range.start /\ g.range.end <= allocator.next[i]
    BY <2>3 DEF GrantOK
  <2>5. allocator.ranges[i] \in SomeRanges
    BY <2>2, RangesAreSome
  <2>6. allocator.next[i] \in allocator.ranges[i].start .. allocator.ranges[i].end
    BY <2>3 DEF CursorsOK
  <2>7. Bytes(g.range) \subseteq Bytes(allocator.ranges[i])
    BY <2>3, <2>4, <2>5, <2>6 DEF GrantOK, SomeRanges, Bytes
  <2>8. QED
    BY <2>3, <2>7 DEF GrantOK
<1>2. QED
  BY <1>1, EarlyInvariant, PTL

RegionsTidy == allocator # None => Tidy(boot.regions)

(* While the firmware's usable regions do not overlap, no byte is handed   *)
(* out twice, whatever the order of the requests and their alignment.      *)
THEOREM GrantsApart == Spec => [](RegionsTidy => GrantsAreDisjoint)
<1>1. EarlyOK => (RegionsTidy => GrantsAreDisjoint)
  <2> SUFFICES ASSUME EarlyOK, RegionsTidy, NEW g \in granted, NEW h \in granted, g # h
               PROVE  Bytes(g.range) \cap Bytes(h.range) = {}
    BY DEF GrantsAreDisjoint
  <2>1. allocator # None
    BY ManagerIsSome DEF EarlyOK
  <2>2. PICK map \in MemoryMaps : boot.regions = map[1] /\ Manages(map)
    BY <2>1, Managed
  <2>3. Follows(g.range, h.range) \/ Follows(h.range, g.range)
    BY <2>1, <2>2 DEF RegionsTidy, Manages, GrantsFollow
  <2>4. /\ g.range.start \in Nat /\ g.range.end \in Nat
        /\ h.range.start \in Nat /\ h.range.end \in Nat
    BY <2>2 DEF Manages, GrantOK
  <2>5. QED
    BY <2>3, <2>4 DEF Follows, Bytes
<1>2. QED
  BY <1>1, EarlyInvariant, PTL

-----------------------------------------------------------------------------
(* The map is exact.                                                       *)

(* The page of an address: a page boundary is at or below the one exactly  *)
(* when it is at or below the other.                                       *)
LEMMA PageIs ==
  ASSUME NEW a \in Nat
  PROVE  LET p == a \div PageSize
         IN  /\ p \in Nat /\ p * PageSize \in Nat /\ (p + 1) * PageSize = p * PageSize + PageSize
             /\ p * PageSize <= a /\ a < p * PageSize + PageSize
             /\ (p * PageSize) % PageSize = 0 /\ (p * PageSize + PageSize) % PageSize = 0
             /\ \A m \in Nat : m % PageSize = 0 /\ m <= a => m <= p * PageSize
             /\ \A m \in Nat : m % PageSize = 0 /\ a < m => p * PageSize + PageSize <= m
<1> DEFINE p == a \div PageSize
           start == PageSize * p
<1>1. PageSize \in Nat \ {0}
  BY EarlyAssumption
<1>2. a = start + (a % PageSize) /\ p \in Nat /\ a % PageSize \in 0 .. PageSize - 1
  BY <1>1
<1> HIDE DEF p
<1>3. start = p * PageSize /\ (p + 1) * PageSize = p * PageSize + PageSize
      /\ start \in Nat /\ PageSize * (p + 1) = start + PageSize
  BY <1>1, <1>2
<1>4. start % PageSize = 0 /\ (start + PageSize) % PageSize = 0
  <2>1. start % PageSize = 0
    BY <1>1, <1>2, Multiples
  <2>2. (PageSize * (p + 1)) % PageSize = 0
    <3>1. p + 1 \in Nat
      BY <1>2
    <3>2. QED
      BY <1>1, <3>1, Multiples
  <2>3. QED
    BY <1>3, <2>1, <2>2
<1> HIDE DEF start
<1>5. start <= a /\ a < start + PageSize
  BY <1>1, <1>2, <1>3
<1>6. ASSUME NEW m \in Nat, m % PageSize = 0, m <= a PROVE m <= start
  <2>1. start < m => start + PageSize <= m
    BY <1>1, <1>3, <1>4, <1>6, MultipleSums
  <2>2. QED
    BY <1>1, <1>3, <1>5, <1>6, <2>1
<1>7. ASSUME NEW m \in Nat, m % PageSize = 0, a < m PROVE start + PageSize <= m
  <2>1. start < m
    BY <1>3, <1>5, <1>7
  <2>2. QED
    BY <1>1, <1>3, <1>4, <1>7, <2>1, MultipleSums
<1>8. QED
  BY <1>2, <1>3, <1>4, <1>5, <1>6, <1>7 DEF p

(* A page that a region holds is one of its whole pages, and the other way *)
(* round: rounding its ends gives up no page and takes none in.            *)
LEMMA PageOfRegion ==
  ASSUME NEW a \in Nat, NEW region \in MemoryRegions
  PROVE  LET p == a \div PageSize
             page == [start |-> p * PageSize, end |-> (p + 1) * PageSize]
         IN  Bytes(page) \subseteq Bytes(region) <=>
               HasWholePage(region) /\ Inside(a, WholePages(region))
<1> DEFINE start == (a \div PageSize) * PageSize
           page == [start |-> (a \div PageSize) * PageSize,
                    end |-> ((a \div PageSize) + 1) * PageSize]
           up == AlignUp(region.start, PageSize)
           down == AlignDown(region.end, PageSize)
<1>1. PageSize \in Nat \ {0} /\ AddressLimit \in Nat
  BY EarlyAssumption
<1>2. region.start \in Nat /\ region.end \in Nat /\ region.end < AddressLimit
  BY <1>1 DEF MemoryRegions, Addresses
<1>3. /\ start \in Nat /\ start <= a /\ a < start + PageSize
      /\ start % PageSize = 0 /\ (start + PageSize) % PageSize = 0
      /\ \A m \in Nat : m % PageSize = 0 /\ m <= a => m <= start
      /\ \A m \in Nat : m % PageSize = 0 /\ a < m => start + PageSize <= m
  BY PageIs
<1>4. page.start = start /\ page.end = start + PageSize
  BY PageIs
<1>5. /\ up \in Nat /\ up % PageSize = 0 /\ region.start <= up
      /\ up <= region.start + PageSize - 1
      /\ \A m \in Nat : m % PageSize = 0 /\ region.start <= m => up <= m
  BY <1>1, <1>2, AlignUpIs
<1>6. /\ down \in Nat /\ down % PageSize = 0 /\ down <= region.end
      /\ \A m \in Nat : m % PageSize = 0 /\ m <= region.end => m <= down
  BY <1>1, <1>2, AlignDownIs
<1>7. /\ HasWholePage(region) <=> region.start + PageSize - 1 < AddressLimit /\ up < down
      /\ Inside(a, WholePages(region)) <=> up <= a /\ a < down
  BY DEF HasWholePage, CanAlignUp, WholePages, Inside
<1> HIDE DEF start, page, up, down
<1>8. Bytes(page) = start .. start + PageSize - 1
  BY <1>1, <1>3, <1>4 DEF Bytes
<1>9. ASSUME Bytes(page) \subseteq Bytes(region)
      PROVE  HasWholePage(region) /\ Inside(a, WholePages(region))
  <2>1. region.start <= start /\ start + PageSize <= region.end
    <3>1. start \in Bytes(page) /\ start + PageSize - 1 \in Bytes(page)
      BY <1>1, <1>3, <1>8
    <3>2. start \in region.start .. region.end - 1
          /\ start + PageSize - 1 \in region.start .. region.end - 1
      BY <1>9, <3>1 DEF Bytes
    <3>3. QED
      BY <1>1, <1>2, <1>3, <3>2
  <2>2. up <= start /\ start + PageSize <= down
    BY <1>1, <1>3, <1>5, <1>6, <2>1
  <2>3. QED
    BY <1>1, <1>2, <1>3, <1>5, <1>6, <1>7, <2>1, <2>2
<1>10. ASSUME HasWholePage(region), Inside(a, WholePages(region))
       PROVE  Bytes(page) \subseteq Bytes(region)
  <2>1. up <= start /\ start + PageSize <= down
    BY <1>3, <1>5, <1>6, <1>7, <1>10
  <2>2. region.start <= start /\ start + PageSize <= region.end
    BY <1>1, <1>2, <1>3, <1>5, <1>6, <2>1
  <2>3. Bytes(region) = region.start .. region.end - 1
    BY DEF Bytes
  <2>4. QED
    BY <1>1, <1>2, <1>3, <1>8, <2>2, <2>3
<1>11. QED
  BY <1>9, <1>10 DEF page

(* And a page meets a reserved range only when that holds all of it.       *)
LEMMA PageOfReserved ==
  ASSUME NEW a \in Nat, NEW r \in FrameRanges
  PROVE  LET p == a \div PageSize
             page == [start |-> p * PageSize, end |-> (p + 1) * PageSize]
         IN  Bytes(page) \cap Bytes(r) = {} <=> ~Inside(a, r)
<1> DEFINE start == (a \div PageSize) * PageSize
           page == [start |-> (a \div PageSize) * PageSize,
                    end |-> ((a \div PageSize) + 1) * PageSize]
<1>1. PageSize \in Nat \ {0}
  BY EarlyAssumption
<1>2. r.start \in Nat /\ r.end \in Nat /\ r.start % PageSize = 0 /\ r.end % PageSize = 0
  BY EarlyAssumption DEF FrameRanges, Addresses
<1>3. /\ start \in Nat /\ start <= a /\ a < start + PageSize
      /\ start % PageSize = 0 /\ (start + PageSize) % PageSize = 0
  BY PageIs
<1>4. page.start = start /\ page.end = start + PageSize
  BY PageIs
<1> HIDE DEF start, page
<1>5. Bytes(page) = start .. start + PageSize - 1
  BY <1>1, <1>3, <1>4 DEF Bytes
<1>6. Bytes(r) = r.start .. r.end - 1
  BY DEF Bytes
<1>7. ASSUME NEW b \in Bytes(page), b \in Bytes(r) PROVE Inside(a, r)
  <2>1. b \in Nat /\ start <= b /\ b < start + PageSize /\ r.start <= b /\ b < r.end
    BY <1>1, <1>2, <1>3, <1>5, <1>6, <1>7
  <2>2. r.start <= start
    <3>1. start < r.start => start + PageSize <= r.start
      BY <1>1, <1>2, <1>3, MultipleSums
    <3>2. QED
      BY <1>1, <1>2, <1>3, <2>1, <3>1
  <2>3. start + PageSize <= r.end
    <3>1. start < r.end
      BY <1>2, <1>3, <2>1
    <3>2. QED
      BY <1>1, <1>2, <1>3, <3>1, MultipleSums
  <2>4. QED
    BY <1>1, <1>2, <1>3, <2>2, <2>3 DEF Inside
<1>8. ASSUME Inside(a, r) PROVE a \in Bytes(page) /\ a \in Bytes(r)
  BY <1>1, <1>2, <1>3, <1>5, <1>6, <1>8 DEF Inside
<1>9. QED
  BY <1>7, <1>8 DEF page

(* The allocator manages the available pages of the map, every one and no  *)
(* other: splitting around reserved ranges that overlap, touch, lie inside *)
(* one another or across a region's edge loses nothing and leaks nothing.  *)
THEOREM MapExact == Spec => []MapIsExact
<1> DEFINE ManagedBytes == UNION {Bytes(allocator.ranges[i]) : i \in DOMAIN allocator.ranges}
           Page(p) == [start |-> p * PageSize, end |-> (p + 1) * PageSize]
           AvailablePage(p) ==
             /\ \E i \in DOMAIN boot.regions :
                  /\ boot.regions[i].kind = "Usable"
                  /\ Bytes(Page(p)) \subseteq Bytes(boot.regions[i])
             /\ \A r \in boot.reserved : Bytes(Page(p)) \cap Bytes(r) = {}
<1>1. ASSUME EarlyOK, allocator # None
      PROVE  ManagedBytes = {a \in 0 .. AddressLimit - 1 : a \div PageSize \in Available}
  <2>1. PICK map \in MemoryMaps :
           /\ map[1] \in Seq(MemoryRegions) /\ map[2] \in SUBSET FrameRanges
           /\ allocator.ranges = Normalized(map[1], map[2])
           /\ allocator.ranges \in Seq(FrameRanges)
           /\ boot.regions = map[1] /\ boot.reserved = map[2]
    BY <1>1, Managed
  <2> DEFINE ranges == allocator.ranges
             regions == map[1]
             reserved == map[2]
  <2>2. AddressLimit \in Nat /\ PageSize \in Nat \ {0}
    BY EarlyAssumption
  <2>3. ASSUME NEW i \in DOMAIN ranges
        PROVE  /\ ranges[i].start \in Nat /\ ranges[i].end \in Nat
               /\ ranges[i].end < AddressLimit
    <3>1. ranges[i] \in FrameRanges
      BY <2>1
    <3>2. QED
      BY <2>2, <3>1 DEF FrameRanges, Addresses
  <2>4. ManagedBytes = {a \in 0 .. AddressLimit - 1 : Holds(ranges, a)}
    <3> HIDE DEF ranges
    <3>1. ManagedBytes = UNION {Bytes(ranges[i]) : i \in DOMAIN ranges}
      BY DEF ranges
    <3>2. ASSUME NEW i \in DOMAIN ranges
          PROVE  Bytes(ranges[i]) = {a \in 0 .. AddressLimit - 1 : Inside(a, ranges[i])}
      BY <2>2, <2>3 DEF Bytes, Inside
    <3> HIDE DEF ManagedBytes
    <3>3. ASSUME NEW a PROVE a \in ManagedBytes <=> \E i \in DOMAIN ranges : a \in Bytes(ranges[i])
      BY <3>1
    <3>4. ASSUME NEW a
          PROVE  a \in ManagedBytes <=> a \in 0 .. AddressLimit - 1 /\ Holds(ranges, a)
      <4>1. \A i \in DOMAIN ranges :
              a \in Bytes(ranges[i]) <=> a \in 0 .. AddressLimit - 1 /\ Inside(a, ranges[i])
        BY <3>2
      <4>2. QED
        BY <3>3, <4>1, Zenon DEF Holds
    <3>5. QED
      BY <3>4
  <2>5. ASSUME NEW a \in 0 .. AddressLimit - 1
        PROVE  Holds(ranges, a) <=> AvailablePage(a \div PageSize)
    <3> DEFINE p == a \div PageSize
    <3>1. a \in Nat
      BY <2>2
    <3>2. Holds(ranges, a) <=>
            \E j \in DOMAIN regions :
              /\ Contributes(regions[j]) /\ Inside(a, WholePages(regions[j]))
              /\ Unreserved(a, reserved)
      BY <2>1, <3>1, NormalizedIs
    <3>3. ASSUME NEW j \in DOMAIN regions
          PROVE  Bytes(Page(p)) \subseteq Bytes(regions[j]) <=>
                   HasWholePage(regions[j]) /\ Inside(a, WholePages(regions[j]))
      <4>1. regions[j] \in MemoryRegions
        BY <2>1
      <4>2. QED
        BY <3>1, <4>1, PageOfRegion
    <3>4. Unreserved(a, reserved) <=> \A r \in reserved : Bytes(Page(p)) \cap Bytes(r) = {}
      <4>1. \A r \in reserved : Bytes(Page(p)) \cap Bytes(r) = {} <=> ~Inside(a, r)
        BY <2>1, <3>1, PageOfReserved
      <4> HIDE DEF Page, p
      <4>2. QED
        BY <4>1 DEF Unreserved
    <3> HIDE DEF Page, p
    <3>5. AvailablePage(p) <=>
            /\ \E j \in DOMAIN regions :
                 regions[j].kind = "Usable" /\ Bytes(Page(p)) \subseteq Bytes(regions[j])
            /\ \A r \in reserved : Bytes(Page(p)) \cap Bytes(r) = {}
      BY <2>1
    <3> HIDE DEF AvailablePage, regions, reserved, ranges
    <3>6. AvailablePage(p) <=>
            /\ \E j \in DOMAIN regions : Contributes(regions[j]) /\ Inside(a, WholePages(regions[j]))
            /\ Unreserved(a, reserved)
      BY <3>3, <3>4, <3>5 DEF Contributes
    <3>7. QED
      BY <3>2, <3>6 DEF p
  <2>6. ASSUME NEW a \in 0 .. AddressLimit - 1, AvailablePage(a \div PageSize)
        PROVE  a \div PageSize \in 0 .. AddressLimit \div PageSize - 1
    <3> DEFINE p == a \div PageSize
    <3>1. a \in Nat
      BY <2>2
    <3>2. p \in Nat /\ p * PageSize \in Nat /\ (p + 1) * PageSize = p * PageSize + PageSize
      BY <3>1, PageIs
    <3> HIDE DEF p
    <3>3. PICK j \in DOMAIN regions : Bytes(Page(p)) \subseteq Bytes(regions[j])
      BY <2>1, <2>6 DEF p
    <3>4. regions[j] \in MemoryRegions
      BY <2>1
    <3>5. regions[j].end \in Nat /\ regions[j].end < AddressLimit /\ regions[j].start \in Nat
      BY <2>2, <3>4 DEF MemoryRegions, Addresses
    <3>6. Bytes(Page(p)) = p * PageSize .. (p * PageSize + PageSize) - 1
      BY <3>2 DEF Bytes
    <3>7. Bytes(regions[j]) = regions[j].start .. regions[j].end - 1
      BY DEF Bytes
    <3> HIDE DEF Page
    <3>8. (p * PageSize + PageSize) - 1 \in Bytes(regions[j])
      BY <2>2, <3>2, <3>3, <3>6
    <3>9. PageSize * (p + 1) <= AddressLimit
      BY <2>2, <3>2, <3>5, <3>7, <3>8
    <3>10. p + 1 <= AddressLimit \div PageSize
      <4> DEFINE q == AddressLimit \div PageSize
      <4>1. AddressLimit = PageSize * q + (AddressLimit % PageSize) /\ q \in Nat
            /\ AddressLimit % PageSize \in 0 .. PageSize - 1
        BY <2>2
      <4> HIDE DEF q
      <4>2. CASE p + 1 > q
        <5>1. p >= q
          BY <3>2, <4>1, <4>2
        <5>2. PageSize * p >= PageSize * q
          BY <2>2, <3>2, <4>1, <5>1
        <5>3. PageSize * (p + 1) = PageSize * p + PageSize
          BY <2>2, <3>2
        <5>4. PageSize * p \in Nat /\ PageSize * q \in Nat
          BY <2>2, <3>2, <4>1
        <5>5. QED
          BY <2>2, <3>9, <4>1, <5>2, <5>3, <5>4
      <4>3. QED
        BY <3>2, <4>1, <4>2 DEF q
    <3>11. AddressLimit \div PageSize \in Nat
      BY <2>2
    <3>12. QED
      BY <3>2, <3>10, <3>11 DEF p
  <2>7. Available = {p \in 0 .. AddressLimit \div PageSize - 1 : AvailablePage(p)}
    BY Zenon DEF Available
  <2> HIDE DEF AvailablePage, ManagedBytes, ranges
  <2>8. \A a \in 0 .. AddressLimit - 1 : Holds(ranges, a) <=> a \div PageSize \in Available
    BY <2>5, <2>6, <2>7
  <2>9. QED
    BY <2>4, <2>8
<1>2. EarlyOK => MapIsExact
  BY <1>1 DEF MapIsExact
<1>3. QED
  BY <1>2, EarlyInvariant, PTL
=============================================================================
