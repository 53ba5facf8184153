-------------------------- MODULE Portal_proofs --------------------------
(***************************************************************************)
(* Theorems about the browser tab, for any sittings: any members, officers *)
(* and loans, any number of calls under way, answers in any order.         *)
(*                                                                         *)
(* First the screening tool, whose invariant is that what is on screen was *)
(* computed from the controls; then what the views show, whose invariant   *)
(* IInv tells what each call on the wire may still bring.                  *)
(***************************************************************************)
EXTENDS Portal, FiniteSetTheorems, SequenceTheorems, WellFoundedInduction, TLAPS

----------------------------------------------------------------------------
(* The arithmetic of the screening tool                                  *)

LEMMA GreatestOfTwo ==
  ASSUME NEW x \in Int, NEW y \in Int
  PROVE  Max({x, y}) = IF x >= y THEN x ELSE y
<1> DEFINE m == IF x >= y THEN x ELSE y
<1>1. m \in {x, y} /\ \A z \in {x, y} : m >= z
  OBVIOUS
<1>2. \A n \in {x, y} : (\A z \in {x, y} : n >= z) => n = m
  OBVIOUS
<1> QED
  BY <1>1, <1>2 DEF Max

LEMMA LeastOfTwo ==
  ASSUME NEW x \in Int, NEW y \in Int
  PROVE  Min({x, y}) = IF x =< y THEN x ELSE y
<1> DEFINE m == IF x =< y THEN x ELSE y
<1>1. m \in {x, y} /\ \A z \in {x, y} : m =< z
  OBVIOUS
<1>2. \A n \in {x, y} : (\A z \in {x, y} : n =< z) => n = m
  OBVIOUS
<1> QED
  BY <1>1, <1>2 DEF Min

LEMMA ClipIs ==
  ASSUME NEW x \in Int, NEW hi \in Nat
  PROVE  Clip(x, hi) = IF x < 0 THEN 0 ELSE IF x > hi THEN hi ELSE x
<1>1. Min({hi, x}) = IF hi =< x THEN hi ELSE x
  BY LeastOfTwo
<1>2. Max({0, Min({hi, x})}) = IF 0 >= Min({hi, x}) THEN 0 ELSE Min({hi, x})
  BY <1>1, GreatestOfTwo
<1> QED
  BY <1>1, <1>2 DEF Clip

LEMMA Quotient ==
  ASSUME NEW a \in Nat, NEW b \in Nat \ {0}
  PROVE  /\ a \div b \in Nat
         /\ b * (a \div b) =< a
         /\ a < b * (a \div b) + b
OBVIOUS

LEMMA Rounded ==
  ASSUME NEW num \in Nat, NEW den \in Nat \ {0}
  PROVE  /\ HalfUp(num, den) \in Nat
         /\ 2 * (den * HalfUp(num, den)) =< 2 * num + den
         /\ 2 * num + den < 2 * (den * HalfUp(num, den)) + 2 * den
<1> DEFINE q == HalfUp(num, den)
<1>1. 2 * num + den \in Nat /\ 2 * den \in Nat \ {0}
  OBVIOUS
<1>2. q \in Nat /\ (2 * den) * q =< 2 * num + den /\ 2 * num + den < (2 * den) * q + 2 * den
  BY <1>1, Quotient DEF HalfUp
<1>3. (2 * den) * q = 2 * (den * q)
  BY <1>2
<1> QED
  BY <1>2, <1>3

\* A larger fraction is never rounded to less.
LEMMA RoundedMonotone ==
  ASSUME NEW a \in Nat, NEW b \in Nat, NEW d \in Nat \ {0}, NEW e \in Nat \ {0},
         a * e =< b * d
  PROVE  HalfUp(a, d) =< HalfUp(b, e)
<1> DEFINE p == HalfUp(a, d)
           q == HalfUp(b, e)
<1>1. p \in Nat /\ 2 * (d * p) =< 2 * a + d
  BY Rounded
<1>2. q \in Nat /\ 2 * b + e < 2 * (e * q) + 2 * e
  BY Rounded
<1> HIDE DEF p, q
<1> SUFFICES ASSUME q < p PROVE FALSE
  BY <1>1, <1>2 DEF p, q
<1>3. e * (2 * (d * p)) =< e * (2 * a + d)
  BY <1>1
<1>4. d * (2 * b + e) < d * (2 * (e * q) + 2 * e)
  BY <1>2
<1>5. (d * e) * (q + 1) =< (d * e) * p
  BY <1>1, <1>2
<1>6. e * (2 * (d * p)) = 2 * ((d * e) * p) /\ e * (2 * a + d) = 2 * (a * e) + d * e
  BY <1>1
<1>7. /\ d * (2 * b + e) = 2 * (b * d) + d * e
      /\ d * (2 * (e * q) + 2 * e) = 2 * ((d * e) * q) + 2 * (d * e)
  BY <1>2
<1>8. (d * e) * (q + 1) = (d * e) * q + d * e
  BY <1>2
<1>9. /\ a * e \in Int /\ b * d \in Int /\ d * e \in Int
      /\ (d * e) * p \in Int /\ (d * e) * q \in Int
  BY <1>1, <1>2
<1> QED
  BY <1>3, <1>4, <1>5, <1>6, <1>7, <1>8, <1>9

\* What a render can show: any number a control takes, any list of flags.
Candidates ==
    [consent : BOOLEAN, simpanan : Nat, cicilan : Int, tenure : Nat, hadir : Nat,
     income : Nat, debt : Nat, stability : {"tetap", "musiman", "tidak_tetap"},
     verified : BOOLEAN, vouch : {"ya", "ragu", "tidak"},
     reputation : {"baik", "cukup", "kurang"}, know : Nat, size : Nat,
     flags : Seq([jenis : Jenis, verified : BOOLEAN])]

LEMMA CountedFlags ==
  ASSUME NEW c \in Candidates, NEW which \in SUBSET DOMAIN c.flags, NEW jenis
  PROVE  /\ IsFiniteSet(OfKind(c, which, jenis))
         /\ Cardinality(OfKind(c, which, jenis)) \in Nat
<1>1. c.flags \in Seq([jenis : Jenis, verified : BOOLEAN])
  BY DEF Candidates
<1>2. DOMAIN c.flags = 1..Len(c.flags) /\ Len(c.flags) \in Nat
  BY <1>1
<1>3. IsFiniteSet(DOMAIN c.flags)
  BY <1>2, FS_Interval
<1>4. IsFiniteSet(OfKind(c, which, jenis))
  BY <1>3, FS_Subset DEF OfKind
<1> QED
  BY <1>4, FS_CardinalityType

LEMMA DeductedNat ==
  ASSUME NEW c \in Candidates, NEW which \in SUBSET DOMAIN c.flags
  PROVE  Deducted(c, which) \in Nat
<1> DEFINE n(jenis) == Cardinality(OfKind(c, which, jenis))
<1>1. \A jenis \in Jenis : n(jenis) \in Nat
  BY CountedFlags
<1>2. \A jenis \in Jenis : Deduction(jenis) \in Nat
  BY DEF Jenis, Deduction
<1> DEFINE of(jenis) == Deduction(jenis) * n(jenis)
<1>3. \A jenis \in Jenis : of(jenis) \in Nat
  BY <1>1, <1>2
<1>4. Deducted(c, which) =
        100 * (of("Tunggakan tersembunyi") + of("Ketidaksesuaian data")
               + of("Catatan hukum keuangan") + of("Berita negatif keuangan"))
  BY DEF Deducted
<1> DEFINE x == of("Tunggakan tersembunyi")
           y == of("Ketidaksesuaian data")
           z == of("Catatan hukum keuangan")
           w == of("Berita negatif keuangan")
<1>5. x \in Nat /\ y \in Nat /\ z \in Nat /\ w \in Nat
  BY <1>3 DEF Jenis
<1>6. Deducted(c, which) = 100 * (x + y + z + w)
  BY <1>4
<1> HIDE DEF n, of, x, y, z, w
<1> QED
  BY <1>5, <1>6

LEMMA PenaltyNat ==
  ASSUME NEW c \in Candidates
  PROVE  Penalty(c) \in Nat
BY DeductedNat DEF Penalty, Verified

LEMMA SizeIs ==
  ASSUME NEW c \in Candidates
  PROVE  /\ Size(c) = (IF c.size > 0 THEN c.size ELSE 1)
         /\ Size(c) \in Nat \ {0}
<1>1. c.size \in Nat
  BY DEF Candidates
<1>2. Size(c) = IF c.size >= 1 THEN c.size ELSE 1
  BY <1>1, GreatestOfTwo DEF Size
<1> QED
  BY <1>1, <1>2

LEMMA IncomeNat ==
  ASSUME NEW c \in Candidates
  PROVE  Income(c) \in Nat \ {0}
BY DEF Candidates, Income

LEMMA DenNat ==
  ASSUME NEW c \in Candidates
  PROVE  Den(c) \in Nat \ {0}
<1>1. Income(c) \in Nat \ {0} /\ Size(c) \in Nat \ {0}
  BY IncomeNat, SizeIs
<1> HIDE DEF Income, Size
<1>2. \A x, y \in Nat \ {0} : x * y \in Nat \ {0}
  OBVIOUS
<1> QED
  BY <1>1, <1>2 DEF Den

LEMMA ClipNat ==
  \A x \in Int, hi \in Nat : Clip(x, hi) \in Nat /\ Clip(x, hi) =< hi
BY ClipIs

LEMMA ClipMonotone ==
  ASSUME NEW x \in Int, NEW y \in Int, NEW hi \in Nat, x =< y
  PROVE  Clip(x, hi) =< Clip(y, hi)
BY ClipIs

LEMMA PilarsNat ==
  ASSUME NEW c \in Candidates
  PROVE  Pilar1(c) \in Nat /\ Pilar2(c) \in Nat /\ Pilar3(c) \in Nat
<1>1. /\ c.simpanan \in Nat /\ c.cicilan \in Int /\ c.tenure \in Nat /\ c.hadir \in Nat
      /\ c.verified \in BOOLEAN
      /\ c.stability \in {"tetap", "musiman", "tidak_tetap"}
      /\ c.vouch \in {"ya", "ragu", "tidak"} /\ c.reputation \in {"baik", "cukup", "kurang"}
  BY DEF Candidates
<1>2. /\ Clip(c.simpanan, 100) \in Nat /\ Clip(c.cicilan, 100) \in Nat
      /\ Clip(c.tenure, 24) \in Nat /\ Clip(c.hadir, 100) \in Nat
  <2>1. /\ c.simpanan \in Int /\ c.tenure \in Int /\ c.hadir \in Int
        /\ 100 \in Nat /\ 24 \in Nat
    BY <1>1
  <2> QED
    BY <1>1, <2>1, ClipNat, Zenon
<1>3. Pilar1(c) \in Nat
  BY <1>1, <1>2 DEF Pilar1
<1>4. Pilar2(c) \in Nat
  BY <1>1 DEF Pilar2
<1>5. Pilar3(c) \in Nat
  BY <1>1 DEF Pilar3
<1> QED
  BY <1>3, <1>4, <1>5

LEMMA DsrNat ==
  ASSUME NEW c \in Candidates
  PROVE  Dsr(c) \in Nat
<1>1. c.income \in Nat /\ c.debt \in Nat
  BY DEF Candidates
<1> DEFINE free == 450 * (7 * c.income - 10 * c.debt)
           most == 1800 * c.income
<1>2. free \in Int /\ most \in Nat
  BY <1>1
<1>3. c.income > 0 => Dsr(c) = Clip(free, most)
  BY DEF Dsr
<1> HIDE DEF free, most
<1>4. Clip(free, most) \in Nat
  BY <1>2, ClipNat
<1> QED
  BY <1>3, <1>4 DEF Dsr

LEMMA KenalNat ==
  ASSUME NEW c \in Candidates
  PROVE  Kenal(c) \in Nat /\ EngineKenal(c) \in Nat /\ EngineKenal(c) =< Kenal(c)
         /\ (c.size > 0 => EngineKenal(c) = Kenal(c))
<1>1. c.know \in Nat /\ c.size \in Nat /\ Size(c) \in Nat
  BY SizeIs DEF Candidates
<1> DEFINE known == 800 * c.know
           most == 800 * Size(c)
<1>2. known \in Int /\ most \in Nat /\ Kenal(c) = Clip(known, most)
  BY <1>1 DEF Kenal
<1> HIDE DEF known, most
<1>3. Kenal(c) \in Nat
  BY <1>2, ClipNat
<1> QED
  BY <1>1, <1>3 DEF EngineKenal

LEMMA PointsInt ==
  ASSUME NEW c \in Candidates, NEW kenal \in Nat
  PROVE  Points(c, kenal) \in Int
<1>1. /\ Den(c) \in Nat /\ Size(c) \in Nat /\ Income(c) \in Nat /\ Dsr(c) \in Nat
      /\ Penalty(c) \in Nat
      /\ Pilar1(c) \in Nat /\ Pilar2(c) \in Nat /\ Pilar3(c) \in Nat
  BY DenNat, SizeIs, IncomeNat, DsrNat, PenaltyNat, PilarsNat
<1>2. Pilar1(c) + Pilar2(c) + Pilar3(c) - Penalty(c) \in Int
  BY <1>1
<1>3. \A x, y \in Int : x * y \in Int
  OBVIOUS
<1>4. \A x, y, z \in Int : x + y + z \in Int
  OBVIOUS
<1> QED
  BY <1>1, <1>2, <1>3, <1>4, kenal \in Int DEF Points

LEMMA ClippedNat ==
  ASSUME NEW c \in Candidates, NEW kenal \in Nat
  PROVE  /\ Clipped(c, kenal) \in Nat
         /\ 100 * Den(c) \in Nat \ {0}
<1>1. Points(c, kenal) \in Int /\ 10000 * Den(c) \in Nat /\ 100 * Den(c) \in Nat \ {0}
  BY PointsInt, DenNat
<1> QED
  BY <1>1, ClipNat DEF Clipped

LEMMA EvenBelowUp ==
  ASSUME NEW num \in Nat, NEW den \in Nat \ {0}
  PROVE  /\ HalfUp(num, den) \in Nat /\ HalfEven(num, den) \in Int
         /\ HalfEven(num, den) # HalfUp(num, den) =>
                HalfUp(num, den) % 2 = 1 /\ HalfEven(num, den) = HalfUp(num, den) - 1
BY Rounded DEF HalfEven

\* The bands begin at even scores, so the engine's rounding moves no candidate.
LEMMA SameBand ==
  ASSUME NEW c \in Candidates, NEW up \in Nat, up % 2 = 1
  PROVE  Band(c, up - 1) = Band(c, up)
<1>1. up # 50 /\ up # 70
  OBVIOUS
<1>2. (up < 50 <=> up - 1 < 50) /\ (up < 70 <=> up - 1 < 70)
  BY <1>1
<1> QED
  BY <1>2 DEF Band

LEMMA EngineBelow ==
  ASSUME NEW c \in Candidates
  PROVE  LET up == HalfUp(Clipped(c, Kenal(c)), 100 * Den(c)) IN
         /\ up \in Nat /\ EngineScore(c) \in Int /\ EngineScore(c) =< up
         /\ c.size > 0 => \/ EngineScore(c) = up
                          \/ up % 2 = 1 /\ EngineScore(c) = up - 1
<1> DEFINE num == Clipped(c, Kenal(c))
           low == Clipped(c, EngineKenal(c))
           den == 100 * Den(c)
<1>1. num \in Nat /\ low \in Nat /\ den \in Nat \ {0}
  BY ClippedNat, KenalNat
<1>2. c.size > 0 => low = num
  BY KenalNat
<1>3. low =< num
  <2>1. EngineKenal(c) =< Kenal(c) /\ EngineKenal(c) \in Nat /\ Kenal(c) \in Nat
    BY KenalNat
  <2>2. Points(c, EngineKenal(c)) =< Points(c, Kenal(c))
    <3>1. Income(c) \in Nat /\ Points(c, EngineKenal(c)) \in Int /\ Points(c, Kenal(c)) \in Int
      BY IncomeNat, PointsInt, <2>1
    <3>2. Income(c) * EngineKenal(c) =< Income(c) * Kenal(c)
      BY <2>1, <3>1
    <3> DEFINE rest == Den(c) * (Pilar1(c) + Pilar2(c) + Pilar3(c) - Penalty(c))
               dsr == Size(c) * Dsr(c)
    <3>3. rest \in Int /\ dsr \in Int
      <4>1. /\ Den(c) \in Int /\ Size(c) \in Int /\ Dsr(c) \in Int
            /\ Pilar1(c) + Pilar2(c) + Pilar3(c) - Penalty(c) \in Int
        BY DenNat, SizeIs, DsrNat, PilarsNat, PenaltyNat
      <4>2. \A x, y \in Int : x * y \in Int
        OBVIOUS
      <4> QED
        BY <4>1, <4>2
    <3>4. /\ Income(c) * EngineKenal(c) \in Int /\ Income(c) * Kenal(c) \in Int
      BY <2>1, <3>1
    <3>5. /\ Points(c, EngineKenal(c)) = rest + dsr + Income(c) * EngineKenal(c)
          /\ Points(c, Kenal(c)) = rest + dsr + Income(c) * Kenal(c)
      BY DEF Points
    <3> HIDE DEF rest, dsr
    <3> QED
      BY <3>2, <3>3, <3>4, <3>5
  <2>3. 10000 * Den(c) \in Nat
    BY DenNat
  <2> QED
    BY <2>1, <2>2, <2>3, PointsInt, ClipMonotone DEF Clipped
<1> HIDE DEF num, low, den
<1>4. low * den =< num * den
  BY <1>1, <1>3
<1>5. HalfUp(low, den) =< HalfUp(num, den)
  BY <1>1, <1>4, RoundedMonotone
<1>6. EngineScore(c) = HalfEven(low, den)
  BY DEF EngineScore, low, den
<1>7. /\ HalfUp(low, den) \in Nat /\ HalfEven(low, den) \in Int
      /\ HalfEven(low, den) # HalfUp(low, den) =>
             HalfUp(low, den) % 2 = 1 /\ HalfEven(low, den) = HalfUp(low, den) - 1
  BY <1>1, EvenBelowUp
<1>8. HalfUp(num, den) \in Nat
  BY <1>1, EvenBelowUp
<1>9. HalfEven(low, den) =< HalfUp(num, den)
  BY <1>5, <1>7, <1>8
<1> QED
  BY <1>2, <1>6, <1>7, <1>8, <1>9 DEF num, den

----------------------------------------------------------------------------
(* Flags *)

LEMMA RemovedAt ==
  ASSUME NEW E, NEW s \in Seq(E), NEW i \in 1..Len(s)
  PROVE  /\ RemoveAt(s, i) \in Seq(E)
         /\ Len(RemoveAt(s, i)) = Len(s) - 1
         /\ \A j \in 1..(Len(s) - 1) :
                RemoveAt(s, i)[j] = IF j < i THEN s[j] ELSE s[j + 1]
<1> DEFINE n == Len(s)
           a == SubSeq(s, 1, i - 1)
           b == SubSeq(s, i + 1, n)
<1>1. n \in Nat /\ i \in 1..n /\ \A j \in 1..n : s[j] \in E
  OBVIOUS
<1> HIDE DEF n
<1>2. /\ a \in Seq(E) /\ Len(a) = i - 1
      /\ \A j \in 1..(i - 1) : a[j] = s[j]
  <2>1. i - 1 \in Int /\ 1 \in Int /\ \A j \in 1..(i - 1) : s[j] \in E
    BY <1>1
  <2>2. /\ a \in Seq(E) /\ Len(a) = IF 1 <= i - 1 THEN (i - 1) - 1 + 1 ELSE 0
        /\ \A j \in 1..((i - 1) - 1 + 1) : a[j] = s[1 + j - 1]
    BY <2>1, SubSeqProperties
  <2> HIDE DEF a
  <2>3. (i - 1) - 1 + 1 = i - 1 /\ \A j \in 1..(i - 1) : 1 + j - 1 = j
    BY <1>1
  <2> QED
    BY <2>2, <2>3, <1>1
<1>3. /\ b \in Seq(E) /\ Len(b) = n - i
      /\ \A j \in 1..(n - i) : b[j] = s[i + j]
  <2>1. i + 1 \in Int /\ n \in Int /\ \A j \in (i + 1)..n : s[j] \in E
    BY <1>1
  <2>2. /\ b \in Seq(E) /\ Len(b) = IF i + 1 <= n THEN n - (i + 1) + 1 ELSE 0
        /\ \A j \in 1..(n - (i + 1) + 1) : b[j] = s[i + 1 + j - 1]
    BY <2>1, SubSeqProperties
  <2> HIDE DEF b
  <2>3. n - (i + 1) + 1 = n - i /\ \A j \in 1..(n - i) : i + 1 + j - 1 = i + j
    BY <1>1
  <2> QED
    BY <2>2, <2>3, <1>1
<1> HIDE DEF a, b
<1>4. /\ a \o b \in Seq(E) /\ Len(a \o b) = n - 1
      /\ \A j \in 1..(n - 1) : (a \o b)[j] = IF j =< i - 1 THEN a[j] ELSE b[j - (i - 1)]
  <2>1. (i - 1) + (n - i) = n - 1
    BY <1>1
  <2> QED
    BY <1>2, <1>3, <2>1, ConcatProperties
<1>5. ASSUME NEW j \in 1..(n - 1)
      PROVE  (a \o b)[j] = IF j < i THEN s[j] ELSE s[j + 1]
  <2>1. CASE j < i
    BY <1>1, <1>2, <1>4, <2>1
  <2>2. CASE ~(j < i)
    <3>1. j - (i - 1) \in 1..(n - i) /\ i + (j - (i - 1)) = j + 1 /\ ~(j =< i - 1)
      BY <2>2, <1>1
    <3> QED
      BY <1>3, <1>4, <2>2, <3>1
  <2> QED
    BY <2>1, <2>2
<1> QED
  BY <1>4, <1>5 DEF RemoveAt, a, b, n

LEMMA WithoutFlag ==
  ASSUME NEW c \in Candidates, NEW i \in DOMAIN c.flags
  PROVE  LET d == [c EXCEPT !.flags = RemoveAt(@, i)] IN
         /\ d \in Candidates
         /\ Len(d.flags) = Len(c.flags) - 1
         /\ \A j \in 1..(Len(c.flags) - 1) :
                d.flags[j] = IF j < i THEN c.flags[j] ELSE c.flags[j + 1]
<1>1. c.flags \in Seq([jenis : Jenis, verified : BOOLEAN])
  BY DEF Candidates
<1>2. i \in 1..Len(c.flags)
  BY <1>1
<1>3. /\ RemoveAt(c.flags, i) \in Seq([jenis : Jenis, verified : BOOLEAN])
      /\ Len(RemoveAt(c.flags, i)) = Len(c.flags) - 1
      /\ \A j \in 1..(Len(c.flags) - 1) :
             RemoveAt(c.flags, i)[j] = IF j < i THEN c.flags[j] ELSE c.flags[j + 1]
  BY <1>1, <1>2, RemovedAt
<1>4. [c EXCEPT !.flags = RemoveAt(@, i)].flags = RemoveAt(c.flags, i)
  BY DEF Candidates
<1>5. [c EXCEPT !.flags = RemoveAt(@, i)] \in Candidates
  BY <1>3 DEF Candidates
<1> QED
  BY <1>3, <1>4, <1>5

\* The verified flags of a kind are as many without one that is not verified.
LEMMA SameVerified ==
  ASSUME NEW c \in Candidates, NEW i \in DOMAIN c.flags \ Verified(c), NEW jenis
  PROVE  LET d == [c EXCEPT !.flags = RemoveAt(@, i)] IN
         /\ Cardinality(OfKind(d, Verified(d), jenis))
            = Cardinality(OfKind(c, Verified(c), jenis))
         /\ OfKind(d, Verified(d), jenis) = {}
            <=> OfKind(c, Verified(c), jenis) = {}
<1> DEFINE d == [c EXCEPT !.flags = RemoveAt(@, i)]
           n == Len(c.flags)
           C == OfKind(c, Verified(c), jenis)
           D == OfKind(d, Verified(d), jenis)
           f == [j \in C |-> IF j < i THEN j ELSE j - 1]
<1>1. c.flags \in Seq([jenis : Jenis, verified : BOOLEAN])
  BY DEF Candidates
<1>2. n \in Nat /\ DOMAIN c.flags = 1..n /\ i \in 1..n /\ ~c.flags[i].verified
  BY <1>1 DEF Verified
<1>3. /\ d \in Candidates /\ Len(d.flags) = n - 1
      /\ \A j \in 1..(n - 1) : d.flags[j] = IF j < i THEN c.flags[j] ELSE c.flags[j + 1]
  BY WithoutFlag
<1>4. DOMAIN d.flags = 1..(n - 1)
  <2>1. d.flags \in Seq([jenis : Jenis, verified : BOOLEAN])
    BY <1>3 DEF Candidates
  <2> QED
    BY <1>3, <2>1
<1>5. IsFiniteSet(C)
  BY CountedFlags DEF Verified
<1> HIDE DEF d
<1>6. C = {j \in 1..n : c.flags[j].verified /\ c.flags[j].jenis = jenis}
  BY <1>2 DEF Verified, OfKind
<1>7. D = {j \in 1..(n - 1) : d.flags[j].verified /\ d.flags[j].jenis = jenis}
  BY <1>4 DEF Verified, OfKind
<1>8. i \notin C
  BY <1>2, <1>6
<1> HIDE DEF n, C, D
<1>9. \A j \in C : f[j] \in D
  <2> TAKE j \in C
  <2>1. j \in 1..n /\ j # i /\ c.flags[j].verified /\ c.flags[j].jenis = jenis
    BY <1>6, <1>8
  <2>2. CASE j < i
    BY <2>1, <2>2, <1>2, <1>3, <1>7
  <2>3. CASE j > i
    <3>1. j - 1 \in 1..(n - 1) /\ ~(j - 1 < i) /\ (j - 1) + 1 = j
      BY <2>1, <2>3, <1>2
    <3>2. d.flags[j - 1] = c.flags[j]
      BY <3>1, <1>3
    <3> QED
      BY <2>1, <2>3, <3>1, <3>2, <1>2, <1>7
  <2> QED
    BY <2>1, <2>2, <2>3, <1>2
<1>10. \A k \in D : \E j \in C : f[j] = k
  <2> TAKE k \in D
  <2>1. k \in 1..(n - 1) /\ d.flags[k].verified /\ d.flags[k].jenis = jenis
    BY <1>7
  <2>2. CASE k < i
    <3>1. k \in C
      BY <2>1, <2>2, <1>2, <1>3, <1>6
    <3> QED
      BY <2>2, <3>1
  <2>3. CASE k >= i
    <3>1. k + 1 \in 1..n /\ ~(k + 1 < i) /\ (k + 1) - 1 = k
      BY <2>1, <2>3, <1>2
    <3>2. k + 1 \in C
      BY <2>1, <2>3, <3>1, <1>2, <1>3, <1>6
    <3> QED
      BY <3>1, <3>2
  <2> QED
    BY <2>1, <2>2, <2>3, <1>2
<1>11. \A j, k \in C : f[j] = f[k] => j = k
  <2> TAKE j, k \in C
  <2>1. j \in 1..n /\ k \in 1..n /\ j # i /\ k # i
    BY <1>6, <1>8
  <2> QED
    BY <2>1, <1>2
<1>12. f \in Bijection(C, D)
  <2>1. f \in [C -> D]
    BY <1>9
  <2> HIDE DEF f
  <2> QED
    BY <2>1, <1>10, <1>11 DEF Bijection, Injection, Surjection, IsInjective
<1>13. ExistsBijection(C, D)
  BY <1>12 DEF ExistsBijection
<1>14. Cardinality(D) = Cardinality(C)
  BY <1>5, <1>13, FS_Bijection
<1> HIDE DEF f
<1> QED
  BY <1>9, <1>10, <1>14 DEF C, D, d

----------------------------------------------------------------------------
(* The screening tool in the tab *)

Scored ==
    /\ tool.cand \in Candidates
    /\ tool.result = Analysis(tool.cand)

LEMMA PresetsAreCandidates ==
  ASSUME NEW name \in {"sri", "x", "y", "blank"}
  PROVE  Preset(name) \in Candidates
<1>1. FlagsOf(name) \in Seq([jenis : Jenis, verified : BOOLEAN])
  <2>1. /\ Flag("Tunggakan tersembunyi", TRUE) \in [jenis : Jenis, verified : BOOLEAN]
        /\ Flag("Berita negatif keuangan", FALSE) \in [jenis : Jenis, verified : BOOLEAN]
    BY DEF Flag, Jenis
  <2>2. \A E : \A flag \in E : <<flag>> \in Seq(E) /\ <<>> \in Seq(E)
    OBVIOUS
  <2> QED
    BY <2>1, <2>2 DEF FlagsOf
<1> QED
  BY <1>1 DEF Preset, Candidates

LEMMA ControlKeeps ==
  ASSUME NEW c \in Candidates, NEW field \in DOMAIN Controls, NEW value \in Controls[field]
  PROVE  [c EXCEPT ![field] = value] \in Candidates
<1>1. field \in {"simpanan", "cicilan", "tenure", "hadir", "income", "debt", "stability",
                 "verified", "vouch", "reputation", "know", "size"}
  BY DEF Controls
<1>2. /\ Controls["simpanan"] \subseteq Nat /\ Controls["cicilan"] \subseteq Int
      /\ Controls["tenure"] \subseteq Nat /\ Controls["hadir"] \subseteq Nat
      /\ Controls["income"] \subseteq Nat /\ Controls["debt"] \subseteq Nat
      /\ Controls["stability"] = {"tetap", "musiman", "tidak_tetap"}
      /\ Controls["verified"] = BOOLEAN /\ Controls["vouch"] = {"ya", "ragu", "tidak"}
      /\ Controls["reputation"] = {"baik", "cukup", "kurang"}
      /\ Controls["know"] \subseteq Nat /\ Controls["size"] \subseteq Nat
  BY DEF Controls
<1>3. CASE field = "simpanan"
  BY <1>2, <1>3 DEF Candidates
<1>4. CASE field = "cicilan"
  BY <1>2, <1>4 DEF Candidates
<1>5. CASE field = "tenure"
  BY <1>2, <1>5 DEF Candidates
<1>6. CASE field = "hadir"
  BY <1>2, <1>6 DEF Candidates
<1>7. CASE field = "income"
  BY <1>2, <1>7 DEF Candidates
<1>8. CASE field = "debt"
  BY <1>2, <1>8 DEF Candidates
<1>9. CASE field = "stability"
  BY <1>2, <1>9 DEF Candidates
<1>10. CASE field = "verified"
  BY <1>2, <1>10 DEF Candidates
<1>11. CASE field = "vouch"
  BY <1>2, <1>11 DEF Candidates
<1>12. CASE field = "reputation"
  BY <1>2, <1>12 DEF Candidates
<1>13. CASE field = "know"
  BY <1>2, <1>13 DEF Candidates
<1>14. CASE field = "size"
  BY <1>2, <1>14 DEF Candidates
<1> QED
  BY <1>1, <1>3, <1>4, <1>5, <1>6, <1>7, <1>8, <1>9, <1>10, <1>11, <1>12, <1>13, <1>14

\* The effect's dependencies are all that the controls have.
LEMMA RenderScores ==
  ASSUME Scored, NEW c \in Candidates, NEW edits, Render(c, edits)
  PROVE  Scored'
<1>1. tool'.cand = c
  BY DEF Render
<1>2. CASE \E field \in Dependencies : c[field] # tool.cand[field]
  BY <1>1, <1>2 DEF Render, Scored
<1>3. CASE \A field \in Dependencies : c[field] = tool.cand[field]
  <2>1. tool.cand \in Candidates
    BY DEF Scored
  <2>2. DOMAIN c = Dependencies /\ DOMAIN tool.cand = Dependencies
    BY <2>1 DEF Candidates, Dependencies, Controls
  <2>3. c = tool.cand
    <3>1. c = [field \in DOMAIN c |-> c[field]]
      BY DEF Candidates
    <3>2. tool.cand = [field \in DOMAIN tool.cand |-> tool.cand[field]]
      BY <2>1 DEF Candidates
    <3> QED
      BY <1>3, <2>2, <3>1, <3>2
  <2> QED
    BY <1>1, <1>3, <2>3 DEF Render, Scored
<1> QED
  BY <1>2, <1>3

LEMMA ClickScores ==
  ASSUME Scored, ScreenClick
  PROVE  Scored'
<1> DEFINE c == tool.cand
<1>1. c \in Candidates
  BY DEF Scored
<1>2. ASSUME NEW name \in {"sri", "x", "y", "blank"}, LoadPreset(name)
      PROVE  Scored'
  BY <1>2, PresetsAreCandidates, RenderScores DEF LoadPreset
<1>3. CASE SetConsent
  <2>1. [c EXCEPT !.consent = ~@] \in Candidates
    BY <1>1 DEF Candidates
  <2> QED
    BY <1>3, <2>1, RenderScores DEF SetConsent, Edit
<1>4. CASE AddFlag
  <2>1. [c EXCEPT !.flags = Append(@, Flag("Berita negatif keuangan", FALSE))] \in Candidates
    <3>1. Flag("Berita negatif keuangan", FALSE) \in [jenis : Jenis, verified : BOOLEAN]
      BY DEF Flag, Jenis
    <3>2. c.flags \in Seq([jenis : Jenis, verified : BOOLEAN])
      BY <1>1 DEF Candidates
    <3>3. Append(c.flags, Flag("Berita negatif keuangan", FALSE))
          \in Seq([jenis : Jenis, verified : BOOLEAN])
      BY <3>1, <3>2, AppendProperties
    <3> QED
      BY <1>1, <3>3 DEF Candidates
  <2> QED
    BY <1>4, <2>1, RenderScores DEF AddFlag, Edit
<1>5. ASSUME NEW field \in DOMAIN Controls, NEW value \in Controls[field],
             SetControl(field, value)
      PROVE  Scored'
  <2>1. [c EXCEPT ![field] = value] \in Candidates
    BY <1>1, ControlKeeps
  <2> QED
    BY <1>5, <2>1, RenderScores DEF SetControl, Edit
<1>6. ASSUME NEW i \in DOMAIN c.flags, RemoveFlag(i)
      PROVE  Scored'
  <2>1. [c EXCEPT !.flags = RemoveAt(@, i)] \in Candidates
    BY <1>1, WithoutFlag
  <2> QED
    BY <1>6, <2>1, RenderScores DEF RemoveFlag, Edit
<1>7. ASSUME NEW i \in DOMAIN c.flags, NEW jenis \in Jenis, NEW verified \in BOOLEAN,
             UpdateFlag(i, jenis, verified)
      PROVE  Scored'
  <2>1. [c EXCEPT !.flags[i] = Flag(jenis, verified)] \in Candidates
    <3>1. Flag(jenis, verified) \in [jenis : Jenis, verified : BOOLEAN]
      BY DEF Flag
    <3>2. [c.flags EXCEPT ![i] = Flag(jenis, verified)]
          \in Seq([jenis : Jenis, verified : BOOLEAN])
      BY <1>1, <3>1 DEF Candidates
    <3> QED
      BY <1>1, <3>2 DEF Candidates
  <2> QED
    BY <1>7, <2>1, RenderScores DEF UpdateFlag, Edit
<1> QED
  BY <1>2, <1>3, <1>4, <1>5, <1>6, <1>7 DEF ScreenClick

LEMMA MountedScores ==
  /\ Mounted("x").cand \in Candidates
  /\ Mounted("x").result = Analysis(Mounted("x").cand)
BY PresetsAreCandidates DEF Mounted

LEMMA AgreesWhenScored ==
  ASSUME Scored
  PROVE  ToolAgreesWithEngine
<1> DEFINE c == tool.cand
           up == HalfUp(Clipped(c, Kenal(c)), 100 * Den(c))
<1>1. c \in Candidates
  BY DEF Scored
<1> SUFFICES ASSUME c.consent
             PROVE  /\ c.size > 0 => /\ tool.result.band = Band(c, EngineScore(c))
                                     /\ tool.result.score - EngineScore(c) \in {0, 1}
                    /\ tool.result.score >= EngineScore(c)
  BY DEF ToolAgreesWithEngine
<1>2. tool.result.score = up /\ tool.result.band = Band(c, up)
  BY DEF Scored, Analysis
<1>3. /\ up \in Nat /\ EngineScore(c) \in Int /\ EngineScore(c) =< up
      /\ c.size > 0 => \/ EngineScore(c) = up
                       \/ up % 2 = 1 /\ EngineScore(c) = up - 1
  BY <1>1, EngineBelow
<1>4. up % 2 = 1 => Band(c, up - 1) = Band(c, up)
  BY <1>1, <1>3, SameBand
<1> HIDE DEF up
<1> QED
  BY <1>2, <1>3, <1>4

LEMMA HoldsWhenScored ==
  ASSUME Scored
  PROVE  UnverifiedOnlyHolds
<1> DEFINE c == tool.cand
<1>1. c \in Candidates /\ tool.result = Analysis(c)
  BY DEF Scored
<1> SUFFICES ASSUME NEW i \in DOMAIN c.flags \ Verified(c)
             PROVE  LET without == Analysis([c EXCEPT !.flags = RemoveAt(@, i)]) IN
                    /\ tool.result.score = without.score
                    /\ tool.result.band = "MERAH" => without.band = "MERAH"
                    /\ tool.result.band # "HIJAU"
  BY DEF UnverifiedOnlyHolds
<1> DEFINE d == [c EXCEPT !.flags = RemoveAt(@, i)]
<1>2. /\ d.consent = c.consent
      /\ \A field \in DOMAIN Controls : d[field] = c[field]
  BY <1>1 DEF Candidates, Controls
<1>3. Penalty(d) = Penalty(c)
  <2>1. \A jenis : Cardinality(OfKind(d, Verified(d), jenis))
                   = Cardinality(OfKind(c, Verified(c), jenis))
    BY <1>1, SameVerified, Zenon
  <2> DEFINE in(e, jenis) == Cardinality(OfKind(e, Verified(e), jenis))
  <2>2. /\ in(d, "Tunggakan tersembunyi") = in(c, "Tunggakan tersembunyi")
        /\ in(d, "Ketidaksesuaian data") = in(c, "Ketidaksesuaian data")
        /\ in(d, "Catatan hukum keuangan") = in(c, "Catatan hukum keuangan")
        /\ in(d, "Berita negatif keuangan") = in(c, "Berita negatif keuangan")
    BY <2>1, Zenon
  <2> HIDE DEF d
  <2> QED
    BY <2>2 DEF Penalty, Deducted
<1>4. Serious(d) <=> Serious(c)
  <2>1. \A jenis : OfKind(d, Verified(d), jenis) = {}
                   <=> OfKind(c, Verified(c), jenis) = {}
    BY <1>1, SameVerified, Zenon
  <2> HIDE DEF d
  <2> QED
    BY <2>1 DEF Serious, OfKind
<1>5. Clipped(d, Kenal(d)) = Clipped(c, Kenal(c)) /\ Den(d) = Den(c)
  <2> HIDE DEF d
  <2>1. Income(d) = Income(c) /\ Size(d) = Size(c) /\ Den(d) = Den(c)
    BY <1>2 DEF Income, Size, Den, Controls
  <2>2. Pilar1(d) = Pilar1(c) /\ Pilar2(d) = Pilar2(c) /\ Pilar3(d) = Pilar3(c)
    BY <1>2 DEF Pilar1, Pilar2, Pilar3, Controls
  <2>3. Dsr(d) = Dsr(c) /\ Kenal(d) = Kenal(c)
    BY <1>2, <2>1 DEF Dsr, Kenal, Controls
  <2> QED
    BY <1>3, <2>1, <2>2, <2>3 DEF Clipped, Points
<1>6. c.flags # <<>>
  BY <1>1 DEF Candidates
<1> DEFINE up == HalfUp(Clipped(c, Kenal(c)), 100 * Den(c))
<1>7. Analysis(d).score = Analysis(c).score
  BY <1>2, <1>5 DEF Analysis
<1>8. c.consent => /\ Analysis(c).band = Band(c, up)
                   /\ Analysis(d).band = Band(d, up)
  BY <1>2, <1>5 DEF Analysis
<1>9. Band(c, up) = "MERAH" => Band(d, up) = "MERAH"
  BY <1>4 DEF Band
<1>10. Band(c, up) # "HIJAU"
  BY <1>6 DEF Band
<1>11. ~c.consent => Analysis(c).band = "DITOLAK"
  BY DEF Analysis
<1> HIDE DEF d, up
<1> QED
  BY <1>1, <1>7, <1>8, <1>9, <1>10, <1>11 DEF d

----------------------------------------------------------------------------
(* A better record *)

\* A larger share of a larger whole: x of p and y of q, p and q the wholes.
LEMMA ClipShare ==
  ASSUME NEW x \in Int, NEW y \in Int, NEW p \in Nat \ {0}, NEW q \in Nat \ {0},
         NEW k \in Nat, x * q =< y * p
  PROVE  Clip(x, k * p) * q =< Clip(y, k * q) * p
<1> DEFINE kp == k * p
           kq == k * q
<1>1. kp \in Nat /\ kq \in Nat /\ kp * q = kq * p
  OBVIOUS
<1>2. /\ Clip(x, kp) = (IF x < 0 THEN 0 ELSE IF x > kp THEN kp ELSE x)
      /\ Clip(y, kq) = (IF y < 0 THEN 0 ELSE IF y > kq THEN kq ELSE y)
  BY <1>1, ClipIs
<1> HIDE DEF kp, kq
<1>3. CASE x < 0
  <2>1. Clip(x, kp) = 0 /\ Clip(y, kq) \in Nat
    BY <1>1, <1>2, <1>3
  <2>2. Clip(x, kp) * q = 0 /\ Clip(y, kq) * p >= 0
    BY <2>1
  <2> QED
    BY <2>2 DEF kp, kq
<1>4. CASE x >= 0
  <2>1. y >= 0
    <3> SUFFICES ASSUME y < 0 PROVE FALSE
      OBVIOUS
    <3>1. y * p < 0 /\ x * q >= 0
      BY <1>4
    <3> QED
      BY <3>1
  <2>2. CASE y > kq
    <3>1. Clip(y, kq) = kq /\ Clip(x, kp) =< kp /\ Clip(x, kp) \in Nat
      BY <1>1, <1>2, <2>1, <2>2
    <3>2. Clip(x, kp) * q =< kp * q
      BY <3>1, <1>1
    <3> QED
      BY <3>1, <3>2, <1>1 DEF kp, kq
  <2>3. CASE ~(y > kq)
    <3>1. y * p =< kq * p
      BY <2>3, <1>1
    <3>2. x =< kp
      <4> SUFFICES ASSUME x > kp PROVE FALSE
        BY <1>1
      <4>1. x * q > kp * q
        BY <1>1
      <4>2. x * q \in Int /\ y * p \in Int /\ kp * q \in Int
        BY <1>1
      <4> QED
        BY <3>1, <4>1, <4>2, <1>1
    <3>3. Clip(x, kp) = x /\ Clip(y, kq) = y
      BY <1>1, <1>2, <1>4, <2>1, <2>3, <3>2
    <3> QED
      BY <3>3 DEF kp, kq
  <2> QED
    BY <2>2, <2>3
<1> QED
  BY <1>3, <1>4

\* Debt weighs less on a higher income.
LEMMA DsrBetter ==
  ASSUME NEW c \in Candidates, NEW d \in Candidates,
         d.income >= c.income, d.debt =< c.debt
  PROVE  Dsr(c) * Income(d) =< Dsr(d) * Income(c)
<1>1. c.income \in Nat /\ d.income \in Nat /\ c.debt \in Nat /\ d.debt \in Nat
  BY DEF Candidates
<1>2. CASE c.income = 0
  <2>1. Dsr(c) = 0 /\ Dsr(d) \in Nat /\ Income(c) = 1 /\ Income(d) \in Nat
    BY <1>1, <1>2, DsrNat, IncomeNat DEF Dsr, Income
  <2> QED
    BY <2>1
<1>3. CASE c.income > 0
  <2> DEFINE p == c.income
             q == d.income
             x == 450 * (7 * p - 10 * c.debt)
             y == 450 * (7 * q - 10 * d.debt)
  <2>1. p \in Nat \ {0} /\ q \in Nat \ {0} /\ x \in Int /\ y \in Int
    BY <1>1, <1>3
  <2>2. x * q =< y * p
    <3>1. d.debt * p =< c.debt * q
      <4>1. d.debt * p =< c.debt * p /\ c.debt * p =< c.debt * q
        BY <1>1
      <4>2. d.debt * p \in Int /\ c.debt * p \in Int /\ c.debt * q \in Int
        BY <1>1
      <4> QED
        BY <4>1, <4>2
    <3>2. x * q = 3150 * (p * q) - 4500 * (c.debt * q)
      BY <1>1
    <3>3. y * p = 3150 * (p * q) - 4500 * (d.debt * p)
      BY <1>1
    <3>4. p * q \in Int /\ c.debt * q \in Int /\ d.debt * p \in Int
      BY <1>1
    <3> QED
      BY <3>1, <3>2, <3>3, <3>4
  <2>3. Dsr(c) = Clip(x, 1800 * p) /\ Dsr(d) = Clip(y, 1800 * q)
    BY <1>1, <1>3 DEF Dsr
  <2>4. Income(c) = p /\ Income(d) = q
    BY <1>1, <1>3 DEF Income
  <2> HIDE DEF p, q, x, y
  <2> QED
    BY <2>1, <2>2, <2>3, <2>4, ClipShare
<1> QED
  BY <1>1, <1>2, <1>3
LEMMA PilarsBetter ==
  ASSUME NEW c \in Candidates, NEW d \in Candidates, Better(c, d)
  PROVE  Pilar1(c) =< Pilar1(d) /\ Pilar2(c) = Pilar2(d) /\ Pilar3(c) = Pilar3(d)
<1>1. /\ c.simpanan \in Int /\ c.cicilan \in Int /\ c.tenure \in Int /\ c.hadir \in Int
      /\ d.simpanan \in Int /\ d.cicilan \in Int /\ d.tenure \in Int /\ d.hadir \in Int
      /\ 100 \in Nat /\ 24 \in Nat
  BY DEF Candidates
<1>2. /\ c.simpanan =< d.simpanan /\ c.cicilan =< d.cicilan /\ c.tenure =< d.tenure
      /\ c.hadir =< d.hadir
      /\ d.stability = c.stability /\ d.verified = c.verified /\ d.vouch = c.vouch
      /\ d.reputation = c.reputation
  BY <1>1 DEF Better
<1>3. /\ Clip(c.simpanan, 100) =< Clip(d.simpanan, 100)
      /\ Clip(c.cicilan, 100) =< Clip(d.cicilan, 100)
      /\ Clip(c.tenure, 24) =< Clip(d.tenure, 24)
      /\ Clip(c.hadir, 100) =< Clip(d.hadir, 100)
  BY <1>1, <1>2, ClipMonotone, Zenon
<1>4. /\ Clip(c.simpanan, 100) \in Nat /\ Clip(d.simpanan, 100) \in Nat
      /\ Clip(c.cicilan, 100) \in Nat /\ Clip(d.cicilan, 100) \in Nat
      /\ Clip(c.tenure, 24) \in Nat /\ Clip(d.tenure, 24) \in Nat
      /\ Clip(c.hadir, 100) \in Nat /\ Clip(d.hadir, 100) \in Nat
  BY <1>1, ClipNat, Zenon
<1>5. Pilar1(c) =< Pilar1(d)
  BY <1>1, <1>2, <1>3, <1>4 DEF Pilar1
<1>6. Pilar2(c) = Pilar2(d) /\ Pilar3(c) = Pilar3(d)
  BY <1>2 DEF Pilar2, Pilar3
<1> QED
  BY <1>5, <1>6

LEMMA FlagsBetter ==
  ASSUME NEW c \in Candidates, NEW d \in Candidates, Better(c, d)
  PROVE  Penalty(d) =< Penalty(c) /\ (Serious(d) => Serious(c))
<1>1. CASE d.flags = c.flags
  <2>1. Verified(d) = Verified(c)
    BY <1>1 DEF Verified
  <2>2. \A jenis : OfKind(d, Verified(d), jenis) = OfKind(c, Verified(c), jenis)
    BY <1>1, <2>1 DEF OfKind
  <2> DEFINE in(e, jenis) == Cardinality(OfKind(e, Verified(e), jenis))
  <2>5. /\ in(d, "Tunggakan tersembunyi") = in(c, "Tunggakan tersembunyi")
        /\ in(d, "Ketidaksesuaian data") = in(c, "Ketidaksesuaian data")
        /\ in(d, "Catatan hukum keuangan") = in(c, "Catatan hukum keuangan")
        /\ in(d, "Berita negatif keuangan") = in(c, "Berita negatif keuangan")
    BY <2>2, Zenon
  <2>3. Deducted(d, Verified(d)) = Deducted(c, Verified(c))
    BY <2>5 DEF Deducted
  <2>4. Serious(d) = Serious(c)
    BY <1>1, <2>1 DEF Serious
  <2> QED
    BY <2>3, <2>4, PenaltyNat DEF Penalty
<1>2. CASE d.flags = <<>>
  <2>1. Verified(d) = {}
    BY <1>2 DEF Verified
  <2>2. ~Serious(d)
    BY <2>1 DEF Serious
  <2>3. \A jenis : OfKind(d, Verified(d), jenis) = {}
    BY <2>1 DEF OfKind
  <2> DEFINE x == Cardinality(OfKind(d, Verified(d), "Tunggakan tersembunyi"))
             y == Cardinality(OfKind(d, Verified(d), "Ketidaksesuaian data"))
             z == Cardinality(OfKind(d, Verified(d), "Catatan hukum keuangan"))
             w == Cardinality(OfKind(d, Verified(d), "Berita negatif keuangan"))
  <2>4. x = 0 /\ y = 0 /\ z = 0 /\ w = 0
    BY <2>3, FS_EmptySet
  <2>6. Penalty(d) = 100 * (25 * x + 12 * y + 20 * z + 10 * w)
    BY DEF Penalty, Deducted, Deduction
  <2> HIDE DEF x, y, z, w
  <2>7. Penalty(d) = 0
    BY <2>4, <2>6
  <2> QED
    BY <2>2, <2>7, PenaltyNat
<1> QED
  BY <1>1, <1>2 DEF Better

LEMMA PointsBetter ==
  ASSUME NEW c \in Candidates, NEW d \in Candidates, Better(c, d)
  PROVE  Points(c, Kenal(c)) * Den(d) =< Points(d, Kenal(d)) * Den(c)
<1> DEFINE S == Size(c)
           I == Income(c)
           J == Income(d)
           bc == Pilar1(c) + Pilar2(c) + Pilar3(c) - Penalty(c)
           bd == Pilar1(d) + Pilar2(d) + Pilar3(d) - Penalty(d)
           rc == Dsr(c)
           rd == Dsr(d)
           kc == Kenal(c)
           kd == Kenal(d)
<1>1. d.size = c.size /\ d.know >= c.know /\ d.income >= c.income /\ d.debt =< c.debt
  BY DEF Better
<1>2. Size(d) = S
  BY <1>1 DEF Size
<1>3. S \in Nat \ {0} /\ I \in Nat \ {0} /\ J \in Nat \ {0}
  BY SizeIs, IncomeNat
<1>4. bc \in Int /\ bd \in Int /\ bc =< bd
  BY PilarsNat, PilarsBetter, PenaltyNat, FlagsBetter
<1>5. rc \in Nat /\ rd \in Nat /\ rc * J =< rd * I
  BY <1>1, DsrNat, DsrBetter
<1>6. kc \in Nat /\ kd \in Nat /\ kc =< kd
  <2> DEFINE x == 800 * c.know
             y == 800 * d.know
             most == 800 * Size(c)
  <2>1. c.know \in Nat /\ d.know \in Nat
    BY DEF Candidates
  <2>2. x \in Int /\ y \in Int /\ most \in Nat /\ x =< y
    BY <1>1, <1>3, <2>1
  <2>3. kc = Clip(x, most) /\ kd = Clip(y, most)
    BY <1>2 DEF Kenal
  <2> HIDE DEF x, y, most
  <2>4. Clip(x, most) =< Clip(y, most)
    BY <2>2, ClipMonotone
  <2> QED
    BY <2>3, <2>4, KenalNat
<1>7. /\ Den(c) = I * S /\ Den(d) = J * S
      /\ Points(c, kc) = (I * S) * bc + S * rc + I * kc
      /\ Points(d, kd) = (J * S) * bd + S * rd + J * kd
  BY <1>2 DEF Points, Den
<1> HIDE DEF S, I, J, bc, bd, rc, rd, kc, kd
<1> DEFINE W == (I * S) * (J * S)
           Q == S * S
           V == (I * J) * S
<1>8. W \in Nat /\ Q \in Nat /\ V \in Nat
  BY <1>3
<1>9. Points(c, kc) * Den(d) = W * bc + Q * (rc * J) + V * kc
  <2>1. ((I * S) * bc) * (J * S) = W * bc
    BY <1>3, <1>4
  <2>2. (S * rc) * (J * S) = Q * (rc * J)
    BY <1>3, <1>5
  <2>3. (I * kc) * (J * S) = V * kc
    BY <1>3, <1>6
  <2>4. (I * S) * bc \in Int /\ S * rc \in Int /\ I * kc \in Int /\ J * S \in Int
    BY <1>3, <1>4, <1>5, <1>6
  <2>5. \A x, y, z, t \in Int : (x + y + z) * t = x * t + y * t + z * t
    OBVIOUS
  <2> QED
    BY <1>7, <2>1, <2>2, <2>3, <2>4, <2>5
<1>10. Points(d, kd) * Den(c) = W * bd + Q * (rd * I) + V * kd
  <2>1. ((J * S) * bd) * (I * S) = W * bd
    BY <1>3, <1>4
  <2>2. (S * rd) * (I * S) = Q * (rd * I)
    BY <1>3, <1>5
  <2>3. (J * kd) * (I * S) = V * kd
    BY <1>3, <1>6
  <2>4. (J * S) * bd \in Int /\ S * rd \in Int /\ J * kd \in Int /\ I * S \in Int
    BY <1>3, <1>4, <1>5, <1>6
  <2>5. \A x, y, z, t \in Int : (x + y + z) * t = x * t + y * t + z * t
    OBVIOUS
  <2> QED
    BY <1>7, <2>1, <2>2, <2>3, <2>4, <2>5
<1> HIDE DEF W, Q, V
<1>11. W * bc =< W * bd /\ Q * (rc * J) =< Q * (rd * I) /\ V * kc =< V * kd
  <2>1. \A x \in Nat, y, z \in Int : y =< z => x * y =< x * z
    OBVIOUS
  <2>2. rc * J \in Int /\ rd * I \in Int
    BY <1>3, <1>5
  <2> QED
    BY <1>4, <1>5, <1>6, <1>8, <2>1, <2>2
<1>12. /\ W * bc \in Int /\ W * bd \in Int /\ Q * (rc * J) \in Int /\ Q * (rd * I) \in Int
       /\ V * kc \in Int /\ V * kd \in Int
  BY <1>3, <1>4, <1>5, <1>6, <1>8
<1> QED
  BY <1>9, <1>10, <1>11, <1>12 DEF kc, kd

LEMMA ScoreBetter ==
  ASSUME NEW c \in Candidates, NEW d \in Candidates, Better(c, d)
  PROVE  HalfUp(Clipped(c, Kenal(c)), 100 * Den(c)) =< HalfUp(Clipped(d, Kenal(d)), 100 * Den(d))
<1> DEFINE x == Points(c, Kenal(c))
           y == Points(d, Kenal(d))
           p == Den(c)
           q == Den(d)
           a == Clipped(c, Kenal(c))
           b == Clipped(d, Kenal(d))
<1>1. x \in Int /\ y \in Int /\ p \in Nat \ {0} /\ q \in Nat \ {0} /\ a \in Nat /\ b \in Nat
  BY KenalNat, PointsInt, DenNat, ClippedNat
<1>2. x * q =< y * p
  BY PointsBetter
<1>3. a = Clip(x, 10000 * p) /\ b = Clip(y, 10000 * q)
  BY DEF Clipped
<1> HIDE DEF x, y, p, q, a, b
<1>4. a * q =< b * p
  BY <1>1, <1>2, <1>3, ClipShare
<1>5. 100 * p \in Nat \ {0} /\ 100 * q \in Nat \ {0} /\ a * (100 * q) =< b * (100 * p)
  <2>1. a * (100 * q) = 100 * (a * q) /\ b * (100 * p) = 100 * (b * p)
    BY <1>1
  <2>2. a * q \in Int /\ b * p \in Int
    BY <1>1
  <2> QED
    BY <1>1, <1>4, <2>1, <2>2
<1> DEFINE u == 100 * p
           v == 100 * q
<1> HIDE DEF u, v
<1>6. HalfUp(a, u) =< HalfUp(b, v)
  BY <1>1, <1>5, RoundedMonotone DEF u, v
<1> QED
  BY <1>6 DEF u, v, a, b, p, q

LEMMA BetterWhenScored ==
  ASSUME Scored, Scored', Better(tool.cand, tool'.cand)
  PROVE  Rank(tool'.result.band) >= Rank(tool.result.band)
<1> DEFINE c == tool.cand
           d == tool'.cand
           up == HalfUp(Clipped(c, Kenal(c)), 100 * Den(c))
           upd == HalfUp(Clipped(d, Kenal(d)), 100 * Den(d))
<1>1. c \in Candidates /\ d \in Candidates /\ c.consent /\ d.consent
      /\ (d.flags = c.flags \/ d.flags = <<>>)
  BY DEF Scored, Better
<1>2. tool.result = Analysis(c) /\ tool'.result = Analysis(d)
  BY DEF Scored
<1>3. tool.result.band = Band(c, up) /\ tool'.result.band = Band(d, upd)
  BY <1>1, <1>2 DEF Analysis
<1>4. up =< upd /\ up \in Nat /\ upd \in Nat
  BY <1>1, ScoreBetter, EngineBelow
<1>5. Serious(d) => Serious(c)
  BY <1>1, FlagsBetter
<1> HIDE DEF up, upd, c, d
<1>6. Band(c, up) \in {"MERAH", "KUNING", "HIJAU"} /\ Band(d, upd) \in {"MERAH", "KUNING", "HIJAU"}
  BY DEF Band
<1>7. Band(d, upd) = "MERAH" => Band(c, up) = "MERAH"
  BY <1>4, <1>5 DEF Band
<1>8. Band(c, up) = "HIJAU" => Band(d, upd) = "HIJAU"
  BY <1>1, <1>4, <1>5 DEF Band
<1> QED
  BY <1>3, <1>6, <1>7, <1>8 DEF Rank

----------------------------------------------------------------------------
(* The screening tool                                                    *)

LEMMA ScoredInitially ==
  ASSUME Init
  PROVE  Scored
<1>1. "x" \in {"sri", "x", "y", "blank"} /\ tool = Mounted("x")
  BY DEF Init
<1>2. Preset("x") \in Candidates
  BY <1>1, PresetsAreCandidates
<1> QED
  BY <1>1, <1>2 DEF Scored, Mounted

LEMMA ScoredStep ==
  ASSUME Scored, [Next]_<<vars, tool>>
  PROVE  Scored'
<1>1. CASE tool' = tool
  BY <1>1 DEF Scored
<1>2. CASE tool' = Mounted("x")
  BY <1>2, MountedScores DEF Scored
<1>3. CASE ScreenClick
  BY <1>3, ClickScores
<1> QED
  BY <1>1, <1>2, <1>3 DEF Next, Screening

LEMMA ScoredAlways == Spec => []Scored
<1> QED
  BY ScoredInitially, ScoredStep, PTL DEF Spec

\* Whatever was changed in which order, the tool shows the score and the band
\* that the engine of the backend gives the controls on screen: the same points
\* or, by rounding them differently, one more.
THEOREM ScreeningAgrees == Spec => []ToolAgreesWithEngine
<1> QED
  BY ScoredAlways, AgreesWhenScored, PTL

\* A flag that nobody has verified keeps the band from being green, and neither
\* costs a point nor makes it red, for any list of flags.
THEOREM RumoursHold == Spec => []UnverifiedOnlyHolds
<1> QED
  BY ScoredAlways, HoldsWhenScored, PTL

\* A better record, a smaller debt or a higher income never worsens the band
\* from one render to the next, through every rounding on the way.
THEOREM BetterCorrect == Spec => BetterNeverWorsens
<1>1. Scored /\ Scored' =>
        [Better(tool.cand, tool'.cand) => Rank(tool'.result.band) >= Rank(tool.result.band)]_tool
  BY BetterWhenScored
<1> QED
  BY <1>1, ScoredAlways, PTL DEF BetterNeverWorsens

----------------------------------------------------------------------------
(* The parts of the inductive invariant.  Each is a predicate of the values  *)
(* it speaks of - rows d, calls c, doubt u, member m, view on screen, state  *)
(* a of the phone and p of the panel - so that it can be stated of a state   *)
(* and of the next one alike.                                                *)

KycWrites == {"approveKyc", "rejectKyc", "resetPassword"}
LoanWrites == {"approveLoan", "rejectLoan", "bailout"}
PanelKinds == KycWrites \cup LoanWrites \cup
              {"loadAll", "getMemberDetail", "bootstrapOnchain", "onchainStatus"}
AppKinds == {"loadData", "getMe", "createSaving", "applyLoan", "sanggahLoan"}
Kinds == AppKinds \cup PanelKinds \cup {"login", "me"}

MembersIn(d) == {u \in DOMAIN d.role : d.role[u] = "Anggota"}
RowIn(d) == [id : DOMAIN d.role, balance : Nat]
SavingsIn(d, u) == [i \in 1..d.rows[u] |-> d.rows[u] + 1 - i]
Kas == Item("kas", None)
PanelItemsIn(d) ==
    {Item("member", m) : m \in MembersIn(d)} \cup {Item("loan", l) : l \in DOMAIN d.loans} \cup {Kas}

\* Concerns, of given rows.
Touched(d, r) ==
    CASE r.kind \in {"login", "me", "getMe"} -> {Balance}
      [] r.kind = "loadData" -> {Savings}
      [] r.kind = "createSaving" -> {Savings, Balance}
      [] r.kind \in {"sanggahLoan", "approveLoan", "rejectLoan"} -> {Item("loan", r.about)}
      [] r.kind \in KycWrites \cup {"getMemberDetail"} -> {Item("member", r.about)}
      [] r.kind = "bailout" -> {Item("loan", r.about), Kas}
      [] r.kind = "loadAll" -> PanelItemsIn(d)
      [] OTHER -> {}

\* Surface, of given rows and session.
ViewOf(d, ld, m) == IF ld THEN "splash" ELSE IF m = None THEN "login" ELSE d.role[m.id]

Served(r) == r.phase = "done"
Booked(r) == r.kind = "createSaving" /\ r.phase = "done"
\* The read r may be trusted about x.
Trusted(r, u, x) == x \in r.clean \/ x \notin u

IsCall(r) ==
    r = [kind |-> r.kind, about |-> r.about, who |-> r.who, live |-> r.live,
         phase |-> r.phase, got |-> r.got, clean |-> r.clean]

\* What a call is about.
AboutOk(d, r) ==
    /\ r.kind \in {"login", "loadData", "createSaving", "applyLoan"} => r.about \in DOMAIN d.role
    /\ r.kind \in KycWrites \cup {"getMemberDetail"} => r.about \in MembersIn(d)
    /\ r.kind \in LoanWrites \cup {"sanggahLoan"} => r.about \in DOMAIN d.loans

\* What an answer has, whatever happened since.
GotOk(d, r) ==
    r.phase = "done" =>
        /\ r.kind \in {"login", "me", "getMe"} =>
               /\ r.got \in RowIn(d)
               /\ r.got.id = IF r.kind = "login" THEN r.about ELSE r.who
        /\ r.kind = "loadAll" => /\ DOMAIN r.got.members \subseteq MembersIn(d)
                                 /\ DOMAIN r.got.loans \subseteq DOMAIN d.loans
        /\ r.kind = "applyLoan" => /\ r.got = [id |-> r.got.id, loan |-> r.got.loan]
                                   /\ r.got.id \in DOMAIN d.loans

CallOk(d, r) ==
    /\ IsCall(r)
    /\ r.kind \in Kinds
    /\ r.live \in {"mounted", "unmounted", "gone"}
    /\ r.phase \in {"sent", "done", "failed"}
    /\ r.who \in DOMAIN d.role \cup {None}
    /\ AboutOk(d, r) /\ GotOk(d, r)
    /\ r.clean \subseteq Touched(d, r)
    /\ r.kind \in Writes => r.clean = {}
    /\ r.live = "gone" => r.kind \in Writes /\ r.phase = "sent"
    /\ r.live = "unmounted" => r.kind \in {"createSaving", "getMe"}

CallsOk(d, c) == \A i \in DOMAIN c : CallOk(d, c[i])

DbOk(d) ==
    /\ d = [role |-> d.role, kyc |-> d.kyc, pw |-> d.pw, rows |-> d.rows,
            loans |-> d.loans, kas |-> d.kas]
    /\ d.role \in [DOMAIN d.role -> {"Anggota", "Pengurus"}]
    /\ d.kyc \in [MembersIn(d) -> {"Requested", "Approved", "Rejected"}]
    /\ d.pw \in [MembersIn(d) -> Nat]
    /\ d.rows \in [DOMAIN d.role -> Nat]
    /\ DOMAIN d.loans \in {{}, {"l1"}, {"l1", "l2"}}
    /\ d.kas \in Nat
    /\ None \notin DOMAIN d.role /\ None \notin RowIn(d)

SessionOk(d, tok, st, m, ld) ==
    /\ st = m
    /\ m \in RowIn(d) \cup {None}
    /\ tok \in DOMAIN d.role \cup {None}
    /\ ld \in BOOLEAN

AppOk(d, view, a) ==
    /\ a = [savings |-> a.savings, group |-> a.group, applied |-> a.applied,
            busy |-> a.busy, qris |-> a.qris, showSanggah |-> a.showSanggah]
    /\ a.qris \in DOMAIN d.role \cup {None}
    /\ a.applied # None => /\ a.applied = [id |-> a.applied.id, loan |-> a.applied.loan]
                           /\ a.applied.id \in DOMAIN d.loans
    /\ view # "Anggota" => a = FreshApp

PanelOk(d, view, p) ==
    /\ p = [members |-> p.members, loans |-> p.loans, kas |-> p.kas, onchain |-> p.onchain,
            loading |-> p.loading, busyId |-> p.busyId, credential |-> p.credential,
            detailId |-> p.detailId, detail |-> p.detail]
    /\ DOMAIN p.members \subseteq MembersIn(d)
    /\ DOMAIN p.loans \subseteq DOMAIN d.loans
    /\ p.credential # None => p.credential.id \in MembersIn(d)
    /\ p.detailId # None => p.detailId \in MembersIn(d)
    /\ p.detailId = None => p.detail = None
    /\ view # "Pengurus" => p = FreshPanel

\* A view's calls are there while it is on screen, and the check of the token
\* goes with the splash screen.
Placed(c, view, tok, ld) ==
    \A i \in DOMAIN c :
        /\ c[i].live = "mounted" /\ c[i].kind \in AppKinds => view = "Anggota"
        /\ c[i].live = "mounted" /\ c[i].kind \in PanelKinds => view = "Pengurus"
        /\ c[i].kind = "me" => /\ ld /\ c[i].who = tok
                              /\ \A j \in DOMAIN c : c[j].kind = "me" => j = i
        /\ ld => c[i].kind = "me" \/ c[i].live = "gone"

\* A read that is clean overlaps nothing, and a write that overlaps a call whose
\* view is on screen leaves its items in doubt.
Apart(d, c) ==
    \A i, j \in DOMAIN c : i # j => Touched(d, c[i]) \cap c[j].clean = {}
Doubted(d, c, u) ==
    \A i, j \in DOMAIN c :
        i # j /\ c[i].kind \in Writes =>
            \A x \in Touched(d, c[i]) \cap Touched(d, c[j]) :
                c[j].live = "mounted" \/ x = Balance => x \in u

\* A booked deposit is missing from the list and from the balance until it is
\* answered, and in no other way do they differ from the rows.
SavingsKept(d, c, u, m, a, view) ==
    /\ view = "Anggota" /\ Savings \notin u =>
        /\ (\A i \in DOMAIN c : ~Booked(c[i])) => a.savings = SavingsIn(d, m.id)
        /\ \A i \in DOMAIN c : Booked(c[i]) =>
               /\ c[i].live = "mounted"
               /\ c[i].about = m.id => <<c[i].got>> \o a.savings = SavingsIn(d, m.id)
    /\ \A i \in DOMAIN c : c[i].kind = "loadData" /\ Trusted(c[i], u, Savings) =>
           /\ c[i].about = m.id
           /\ Served(c[i]) => c[i].got = SavingsIn(d, m.id)

BalanceKept(d, c, u, m) ==
    /\ (m # None /\ Balance \notin u /\ \A i \in DOMAIN c : ~Booked(c[i])) =>
           m.balance = d.rows[m.id]
    /\ \A i \in DOMAIN c :
           c[i].kind \in {"login", "me", "getMe"} /\ Served(c[i]) /\ Trusted(c[i], u, Balance) =>
               c[i].got.balance = d.rows[c[i].got.id]

\* A loan that was just applied for is nobody else's yet.
AppliedKept(d, c, u, a) ==
    /\ (a.applied # None /\ Item("loan", a.applied.id) \notin u
        /\ \A i \in DOMAIN c :
               ~(c[i].kind = "sanggahLoan" /\ Served(c[i]) /\ c[i].about = a.applied.id)) =>
           a.applied.loan = d.loans[a.applied.id]
    /\ \A i \in DOMAIN c :
           c[i].kind = "sanggahLoan" /\ Served(c[i]) /\ Item("loan", c[i].about) \notin u =>
               c[i].got = d.loans[c[i].about]
    /\ \A i \in DOMAIN c : c[i].kind = "applyLoan" /\ Served(c[i]) =>
           /\ c[i].got.loan = d.loans[c[i].got.id]
           /\ a.applied # None => a.applied.id # c[i].got.id
           /\ \A j \in DOMAIN c :
                  /\ Item("loan", c[i].got.id) \notin Touched(d, c[j])
                  /\ j # i /\ c[j].kind = "applyLoan" /\ Served(c[j]) => c[j].got.id # c[i].got.id

LoansKept(d, c, u, p) ==
    /\ \A l \in DOMAIN p.loans :
           (Item("loan", l) \notin u
            /\ \A i \in DOMAIN c : ~(c[i].kind \in LoanWrites /\ Served(c[i]) /\ c[i].about = l)) =>
               p.loans[l] = d.loans[l]
    /\ \A i \in DOMAIN c : Served(c[i]) /\ Item("loan", c[i].about) \notin u =>
           /\ c[i].kind \in {"approveLoan", "rejectLoan"} => c[i].got = d.loans[c[i].about]
           /\ c[i].kind = "bailout" => c[i].got.loan = d.loans[c[i].about]
    /\ \A i \in DOMAIN c : c[i].kind = "loadAll" /\ Served(c[i]) =>
           \A l \in DOMAIN c[i].got.loans :
               Trusted(c[i], u, Item("loan", l)) => c[i].got.loans[l] = d.loans[l]

KasKept(d, c, u, p) ==
    /\ (p.kas # None /\ Kas \notin u
        /\ \A i \in DOMAIN c : ~(c[i].kind = "bailout" /\ Served(c[i]))) =>
           p.kas = d.kas
    /\ \A i \in DOMAIN c : Served(c[i]) =>
           /\ c[i].kind = "bailout" /\ Kas \notin u => c[i].got.kas = d.kas
           /\ c[i].kind = "loadAll" /\ Trusted(c[i], u, Kas) => c[i].got.kas = d.kas

MembersKept(d, c, u, p) ==
    /\ \A m \in DOMAIN p.members :
           (Item("member", m) \notin u
            /\ \A i \in DOMAIN c :
                   ~(c[i].kind \in {"approveKyc", "rejectKyc"} /\ Served(c[i]) /\ c[i].about = m)) =>
               p.members[m] = d.kyc[m]
    /\ \A i \in DOMAIN c : Served(c[i]) /\ Item("member", c[i].about) \notin u =>
           /\ c[i].kind = "approveKyc" => c[i].got.kyc = d.kyc[c[i].about]
           /\ c[i].kind = "rejectKyc" => c[i].got = d.kyc[c[i].about]
    /\ \A i \in DOMAIN c : c[i].kind = "loadAll" /\ Served(c[i]) =>
           \A m \in DOMAIN c[i].got.members :
               Trusted(c[i], u, Item("member", m)) => c[i].got.members[m] = d.kyc[m]

\* While the card or the drawer is open nothing that is not in doubt is under
\* way for its member.
OnCard(p, m) == p.credential # None /\ p.credential.id = m
CardKept(d, c, u, p) ==
    /\ (p.credential # None /\ Item("member", p.credential.id) \notin u) =>
           p.credential.pw = d.pw[p.credential.id]
    /\ (p.detail # None /\ Item("member", p.detailId) \notin u) =>
           p.detail = d.kyc[p.detailId]
    /\ \A i \in DOMAIN c :
           /\ Served(c[i]) /\ Item("member", c[i].about) \notin u =>
                  /\ c[i].kind = "approveKyc" /\ c[i].got.tempPassword # None =>
                         c[i].got.tempPassword = d.pw[c[i].about]
                  /\ c[i].kind = "resetPassword" => c[i].got = d.pw[c[i].about]
                  /\ c[i].kind = "getMemberDetail" => c[i].got = d.kyc[c[i].about]
           /\ c[i].kind = "getMemberDetail" => p.detailId = c[i].about
           /\ (c[i].kind \in KycWrites /\ c[i].live = "mounted"
               /\ Item("member", c[i].about) \notin u) =>
                  ~OnCard(p, c[i].about) /\ p.detailId # c[i].about
           /\ c[i].kind = "loadAll" =>
                  \A m \in MembersIn(d) : Item("member", m) \in c[i].clean =>
                      ~OnCard(p, m) /\ p.detailId # m

View == ViewOf(db, loading, member)

TypesOk ==
    /\ cast \in Casts
    /\ db.role = cast.db.role
    /\ DbOk(db)
    /\ SessionOk(db, token, stored, member, loading)
    /\ AppOk(db, View, app) /\ PanelOk(db, View, panel)
    /\ CallsOk(db, inFlight)
    /\ Placed(inFlight, View, token, loading)

Overlaps == Apart(db, inFlight) /\ Doubted(db, inFlight, doubt)

Kept ==
    /\ SavingsKept(db, inFlight, doubt, member, app, View)
    /\ BalanceKept(db, inFlight, doubt, member)
    /\ AppliedKept(db, inFlight, doubt, app)
    /\ LoansKept(db, inFlight, doubt, panel)
    /\ KasKept(db, inFlight, doubt, panel)
    /\ MembersKept(db, inFlight, doubt, panel)
    /\ CardKept(db, inFlight, doubt, panel)

IInv == TypesOk /\ Overlaps /\ Kept

----------------------------------------------------------------------------
(* What a call concerns *)

LEMMA ItemIs ==
  ASSUME NEW s, NEW k, NEW t, NEW l
  PROVE  Item(s, k) = Item(t, l) <=> s = t /\ k = l
<1>1. Item(s, k) = Item(t, l) => Item(s, k).sort = Item(t, l).sort /\ Item(s, k).key = Item(t, l).key
  OBVIOUS
<1>2. Item(s, k).sort = s /\ Item(s, k).key = k /\ Item(t, l).sort = t /\ Item(t, l).key = l
  BY DEF Item
<1> QED
  BY <1>1, <1>2

LEMMA TouchedIs ==
  ASSUME NEW d, NEW r, r.kind \in Kinds
  PROVE  /\ \A l : Item("loan", l) \in Touched(d, r) <=>
                \/ r.kind \in LoanWrites \cup {"sanggahLoan"} /\ r.about = l
                \/ r.kind = "loadAll" /\ l \in DOMAIN d.loans
         /\ \A m : Item("member", m) \in Touched(d, r) <=>
                \/ r.kind \in KycWrites \cup {"getMemberDetail"} /\ r.about = m
                \/ r.kind = "loadAll" /\ m \in MembersIn(d)
         /\ Kas \in Touched(d, r) <=> r.kind \in {"bailout", "loadAll"}
         /\ Savings \in Touched(d, r) <=> r.kind \in {"loadData", "createSaving"}
         /\ Balance \in Touched(d, r) <=> r.kind \in {"login", "me", "getMe", "createSaving"}
<1> USE DEF Kinds, AppKinds, PanelKinds, KycWrites, LoanWrites
<1>0. /\ "loan" # "member" /\ "loan" # "kas" /\ "loan" # "savings" /\ "loan" # "balance"
      /\ "member" # "kas" /\ "member" # "savings" /\ "member" # "balance"
      /\ "kas" # "savings" /\ "kas" # "balance" /\ "savings" # "balance"
  OBVIOUS
<1>1. CASE r.kind \in {"login", "me", "getMe"}
  BY <1>1, <1>0, ItemIs DEF Touched, Kas, Savings, Balance
<1>2. CASE r.kind = "loadData"
  BY <1>2, <1>0, ItemIs DEF Touched, Kas, Savings, Balance
<1>3. CASE r.kind = "createSaving"
  BY <1>3, <1>0, ItemIs DEF Touched, Kas, Savings, Balance
<1>4. CASE r.kind \in {"sanggahLoan", "approveLoan", "rejectLoan"}
  BY <1>4, <1>0, ItemIs DEF Touched, Kas, Savings, Balance
<1>5. CASE r.kind \in KycWrites \cup {"getMemberDetail"}
  BY <1>5, <1>0, ItemIs DEF Touched, Kas, Savings, Balance
<1>6. CASE r.kind = "bailout"
  BY <1>6, <1>0, ItemIs DEF Touched, Kas, Savings, Balance
<1>7. CASE r.kind = "loadAll"
  <2>1. Touched(d, r) = PanelItemsIn(d)
    BY <1>7 DEF Touched
  <2>2. \A l : Item("loan", l) \in PanelItemsIn(d) <=> l \in DOMAIN d.loans
    BY <1>0, ItemIs DEF PanelItemsIn, Kas
  <2>3. \A m : Item("member", m) \in PanelItemsIn(d) <=> m \in MembersIn(d)
    BY <1>0, ItemIs DEF PanelItemsIn, Kas
  <2>4. Kas \in PanelItemsIn(d) /\ Savings \notin PanelItemsIn(d) /\ Balance \notin PanelItemsIn(d)
    BY <1>0, ItemIs DEF PanelItemsIn, Kas, Savings, Balance
  <2> QED
    BY <1>7, <2>1, <2>2, <2>3, <2>4
<1>8. CASE r.kind \in {"applyLoan", "bootstrapOnchain", "onchainStatus"}
  BY <1>8, <1>0, ItemIs DEF Touched
<1> QED
  BY <1>1, <1>2, <1>3, <1>4, <1>5, <1>6, <1>7, <1>8

LEMMA ConcernsIs ==
  ASSUME NEW r
  PROVE  Concerns(r) = Touched(db, r)
<1>1. PanelItems = PanelItemsIn(db)
  BY DEF PanelItems, PanelItemsIn, MemberItems, LoanItems, Members, Users, MembersIn, Kas
<1> QED
  BY <1>1 DEF Concerns, Touches, Touched, KycWrites, Kas

----------------------------------------------------------------------------
(* Views that are not on screen, or have just been mounted *)

LEMMA NotGone ==
  ASSUME NEW d, NEW r, CallOk(d, r), Served(r)
  PROVE  r.live # "gone"
BY DEF CallOk, Served

LEMMA MountedIs ==
  ASSUME NEW d, NEW r, CallOk(d, r), r.live # "gone", r.kind \notin {"createSaving", "getMe"}
  PROVE  r.live = "mounted"
BY DEF CallOk

LEMMA WritesAre ==
  ASSUME NEW d, NEW r, CallOk(d, r), r.live # "mounted", r.kind # "getMe"
  PROVE  r.kind \in Writes
BY DEF CallOk, Writes

LEMMA PanelKept ==
  ASSUME NEW d, NEW c, NEW u, NEW p, NEW view, NEW tok, NEW ld,
         DbOk(d), CallsOk(d, c), PanelOk(d, view, p), Placed(c, view, tok, ld),
         view # "Pengurus"
  PROVE  LoansKept(d, c, u, p) /\ KasKept(d, c, u, p) /\ MembersKept(d, c, u, p)
         /\ CardKept(d, c, u, p)
<1>1. p = FreshPanel
  BY DEF PanelOk
<1>2. /\ DOMAIN p.loans = {} /\ DOMAIN p.members = {} /\ p.kas = None /\ p.credential = None
      /\ p.detailId = None /\ p.detail = None
  BY <1>1 DEF FreshPanel
<1>3. ASSUME NEW i \in DOMAIN c, c[i].kind \in PanelKinds
      PROVE  ~Served(c[i]) /\ c[i].live # "mounted" /\ c[i].kind \in Writes
  <2>1. CallOk(d, c[i]) /\ c[i].live # "mounted"
    BY <1>3 DEF CallsOk, Placed
  <2>2. c[i].kind # "getMe" /\ c[i].kind # "createSaving"
    BY <1>3 DEF PanelKinds, KycWrites, LoanWrites
  <2> QED
    BY <2>1, <2>2, NotGone, MountedIs, WritesAre
<1>4. "loadAll" \notin Writes /\ "getMemberDetail" \notin Writes
  BY DEF Writes
<1>5. LoansKept(d, c, u, p)
  BY <1>2, <1>3 DEF LoansKept, PanelKinds, LoanWrites
<1>6. KasKept(d, c, u, p)
  BY <1>2, <1>3 DEF KasKept, PanelKinds, LoanWrites
<1>7. MembersKept(d, c, u, p)
  BY <1>2, <1>3 DEF MembersKept, PanelKinds, KycWrites
<1>8. CardKept(d, c, u, p)
  BY <1>2, <1>3, <1>4 DEF CardKept, PanelKinds, KycWrites
<1> QED
  BY <1>5, <1>6, <1>7, <1>8

LEMMA PhoneKept ==
  ASSUME NEW d, NEW c, NEW u, NEW m, NEW a, NEW view, NEW tok, NEW ld,
         CallsOk(d, c), AppOk(d, view, a), Placed(c, view, tok, ld),
         view # "Anggota"
  PROVE  SavingsKept(d, c, u, m, a, view) /\ AppliedKept(d, c, u, a)
<1>1. a.applied = None
  BY DEF AppOk, FreshApp
<1>2. ASSUME NEW i \in DOMAIN c, c[i].kind \in {"loadData", "applyLoan", "sanggahLoan"}
      PROVE  ~Served(c[i]) /\ c[i].kind \in Writes
  <2>1. CallOk(d, c[i]) /\ c[i].live # "mounted"
    BY <1>2 DEF CallsOk, Placed, AppKinds
  <2>2. c[i].kind # "getMe" /\ c[i].kind # "createSaving"
    BY <1>2
  <2> QED
    BY <2>1, <2>2, NotGone, MountedIs, WritesAre
<1>3. "loadData" \notin Writes
  BY DEF Writes
<1>4. SavingsKept(d, c, u, m, a, view)
  BY <1>2, <1>3 DEF SavingsKept
<1>5. AppliedKept(d, c, u, a)
  BY <1>1, <1>2 DEF AppliedKept
<1> QED
  BY <1>4, <1>5

\* A view that was just mounted has nothing on screen, and no answer is under way to it.
LEMMA FreshKept ==
  ASSUME NEW d, NEW c, NEW u, NEW m, NEW view, NEW tok, NEW ld,
         DbOk(d), CallsOk(d, c), Placed(c, view, tok, ld),
         view = "Anggota" => Savings \in u,
         \A i \in DOMAIN c :
             /\ Served(c[i]) => c[i].kind \in {"login", "me", "getMe", "createSaving"}
             /\ c[i].kind = "loadData" => c[i].about = m.id
             /\ c[i].kind # "getMemberDetail"
  PROVE  /\ SavingsKept(d, c, u, m, FreshApp, view)
         /\ AppliedKept(d, c, u, FreshApp)
         /\ LoansKept(d, c, u, FreshPanel) /\ KasKept(d, c, u, FreshPanel)
         /\ MembersKept(d, c, u, FreshPanel) /\ CardKept(d, c, u, FreshPanel)
<1>1. /\ DOMAIN FreshPanel.loans = {} /\ DOMAIN FreshPanel.members = {}
      /\ FreshPanel.kas = None /\ FreshPanel.credential = None
      /\ FreshPanel.detailId = None /\ FreshPanel.detail = None /\ FreshApp.applied = None
  BY DEF FreshPanel, FreshApp
<1> HIDE DEF FreshPanel, FreshApp
<1>2. SavingsKept(d, c, u, m, FreshApp, view)
  BY DEF SavingsKept
<1>3. AppliedKept(d, c, u, FreshApp)
  BY <1>1 DEF AppliedKept
<1>4. LoansKept(d, c, u, FreshPanel)
  BY <1>1 DEF LoansKept, LoanWrites
<1>5. KasKept(d, c, u, FreshPanel)
  BY <1>1 DEF KasKept
<1>6. MembersKept(d, c, u, FreshPanel)
  BY <1>1 DEF MembersKept
<1>7. CardKept(d, c, u, FreshPanel)
  <2>1. \A m2 : ~OnCard(FreshPanel, m2)
    BY <1>1 DEF OnCard
  <2>2. \A m2 \in MembersIn(d) : FreshPanel.detailId # m2
    BY <1>1 DEF DbOk, MembersIn
  <2>3. \A i \in DOMAIN c : c[i].kind \in KycWrites => c[i].about \in MembersIn(d)
    BY DEF CallsOk, CallOk, AboutOk
  <2> QED
    BY <1>1, <2>1, <2>2, <2>3 DEF CardKept, KycWrites
<1> QED
  BY <1>2, <1>3, <1>4, <1>5, <1>6, <1>7

----------------------------------------------------------------------------
(* Calls that stay as they were, while those in the slots of gone are over   *)
(* or have failed, and others were sent.                                     *)

Alike(r, s) ==
    /\ s.kind = r.kind /\ s.about = r.about /\ s.who = r.who /\ s.phase = r.phase /\ s.got = r.got
    /\ s.clean \subseteq r.clean

\* The doubts of what the remaining calls concern remain.
Passed(d, c, u, cN, uN, gone) ==
    /\ DOMAIN c \ gone \subseteq DOMAIN cN
    /\ \A i \in DOMAIN cN : IF i \in DOMAIN c \ gone THEN Alike(c[i], cN[i]) ELSE ~Served(cN[i])
    /\ \A i \in DOMAIN c \ gone : \A x \in Touched(d, c[i]) : x \in u => x \in uN

LEMMA StillTrusted ==
  ASSUME NEW d, NEW c, NEW u, NEW cN, NEW uN, NEW gone, Passed(d, c, u, cN, uN, gone),
         NEW i \in DOMAIN cN, i \in DOMAIN c \ gone, NEW x \in Touched(d, c[i]),
         Trusted(cN[i], uN, x)
  PROVE  Trusted(c[i], u, x)
BY DEF Passed, Trusted, Alike

LEMMA BalancePassed ==
  ASSUME NEW d, NEW c, NEW u, NEW m, NEW cN, NEW uN, NEW gone,
         CallsOk(d, c), BalanceKept(d, c, u, m), Passed(d, c, u, cN, uN, gone)
  PROVE  /\ \A i \in DOMAIN cN :
                cN[i].kind \in {"login", "me", "getMe"} /\ Served(cN[i]) /\ Trusted(cN[i], uN, Balance) =>
                    cN[i].got.balance = d.rows[cN[i].got.id]
         /\ (Balance \in u => Balance \in uN)
            /\ (\A i \in DOMAIN c \cap gone : Booked(c[i]) => Balance \in uN) =>
                BalanceKept(d, cN, uN, m)
<1>1. ASSUME NEW i \in DOMAIN cN, cN[i].kind \in {"login", "me", "getMe"}, Served(cN[i]),
             Trusted(cN[i], uN, Balance)
      PROVE  cN[i].got.balance = d.rows[cN[i].got.id]
  <2>1. i \in DOMAIN c \ gone /\ Alike(c[i], cN[i])
    BY <1>1 DEF Passed
  <2>2. CallOk(d, c[i]) /\ c[i].kind \in Kinds
    BY <2>1 DEF CallsOk, CallOk
  <2>3. Balance \in Touched(d, c[i])
    BY <1>1, <2>1, <2>2, TouchedIs DEF Alike
  <2>4. Trusted(c[i], u, Balance)
    BY <1>1, <2>1, <2>3, StillTrusted
  <2> QED
    BY <1>1, <2>1, <2>4 DEF BalanceKept, Alike, Served
<1>2. ASSUME Balance \in u => Balance \in uN,
             \A i \in DOMAIN c \cap gone : Booked(c[i]) => Balance \in uN,
             m # None, Balance \notin uN, \A i \in DOMAIN cN : ~Booked(cN[i])
      PROVE  m.balance = d.rows[m.id]
  <2>1. ASSUME NEW i \in DOMAIN c PROVE ~Booked(c[i])
    <3>1. CASE i \in gone
      BY <1>2, <3>1
    <3>2. CASE i \notin gone
      BY <1>2, <3>2 DEF Passed, Booked, Alike
    <3> QED
      BY <3>1, <3>2
  <2> QED
    BY <1>2, <2>1 DEF BalanceKept
<1> QED
  BY <1>1, <1>2 DEF BalanceKept

LEMMA SavingsPassed ==
  ASSUME NEW d, NEW c, NEW u, NEW m, NEW a, NEW view, NEW cN, NEW uN, NEW aN, NEW gone,
         CallsOk(d, c), SavingsKept(d, c, u, m, a, view), Passed(d, c, u, cN, uN, gone),
         Savings \in u => Savings \in uN,
         aN.savings = a.savings,
         \A i \in DOMAIN c \ gone : cN[i].live = c[i].live,
         \A i \in DOMAIN c \cap gone : Booked(c[i]) => Savings \in uN,
         \A i \in DOMAIN cN : cN[i].kind = "loadData" /\ Trusted(cN[i], uN, Savings) =>
             i \in DOMAIN c \ gone \/ cN[i].about = m.id
  PROVE  SavingsKept(d, cN, uN, m, aN, view)
<1>1. ASSUME view = "Anggota", Savings \notin uN
      PROVE  /\ (\A i \in DOMAIN cN : ~Booked(cN[i])) => aN.savings = SavingsIn(d, m.id)
             /\ \A i \in DOMAIN cN : Booked(cN[i]) =>
                    /\ cN[i].live = "mounted"
                    /\ cN[i].about = m.id => <<cN[i].got>> \o aN.savings = SavingsIn(d, m.id)
  <2>1. Savings \notin u /\ \A i \in DOMAIN c \cap gone : ~Booked(c[i])
    BY <1>1
  <2>2. ASSUME \A i \in DOMAIN cN : ~Booked(cN[i]), NEW i \in DOMAIN c PROVE ~Booked(c[i])
    <3>1. CASE i \in gone
      BY <2>1, <3>1
    <3>2. CASE i \notin gone
      BY <2>2, <3>2 DEF Passed, Booked, Alike
    <3> QED
      BY <3>1, <3>2
  <2>3. (\A i \in DOMAIN cN : ~Booked(cN[i])) => aN.savings = SavingsIn(d, m.id)
    BY <1>1, <2>1, <2>2 DEF SavingsKept
  <2>4. ASSUME NEW i \in DOMAIN cN, Booked(cN[i])
        PROVE  /\ cN[i].live = "mounted"
               /\ cN[i].about = m.id => <<cN[i].got>> \o aN.savings = SavingsIn(d, m.id)
    <3>1. i \in DOMAIN c \ gone /\ Alike(c[i], cN[i])
      BY <2>4 DEF Passed, Booked, Served
    <3>2. Booked(c[i])
      BY <2>4, <3>1 DEF Booked, Alike
    <3>3. /\ c[i].live = "mounted"
          /\ c[i].about = m.id => <<c[i].got>> \o a.savings = SavingsIn(d, m.id)
      BY <1>1, <2>1, <3>1, <3>2 DEF SavingsKept
    <3> QED
      BY <3>1, <3>3 DEF Alike
  <2> QED
    BY <2>3, <2>4
<1>2. ASSUME NEW i \in DOMAIN cN, cN[i].kind = "loadData", Trusted(cN[i], uN, Savings)
      PROVE  cN[i].about = m.id /\ (Served(cN[i]) => cN[i].got = SavingsIn(d, m.id))
  <2>1. CASE i \in DOMAIN c \ gone
    <3>1. Alike(c[i], cN[i]) /\ c[i].kind \in Kinds
      BY <2>1 DEF Passed, CallsOk, CallOk
    <3>2. Savings \in Touched(d, c[i])
      BY <1>2, <3>1, TouchedIs DEF Alike
    <3>3. Trusted(c[i], u, Savings)
      BY <1>2, <2>1, <3>2, StillTrusted
    <3> QED
      BY <1>2, <2>1, <3>1, <3>3 DEF SavingsKept, Alike, Served
  <2>2. CASE ~(i \in DOMAIN c \ gone)
    BY <1>2, <2>2 DEF Passed
  <2> QED
    BY <2>1, <2>2
<1> QED
  BY <1>1, <1>2 DEF SavingsKept

LEMMA AppliedCalls ==
  ASSUME NEW d, NEW c, NEW u, NEW a, NEW cN, NEW uN, NEW gone,
         CallsOk(d, c), AppliedKept(d, c, u, a), Passed(d, c, u, cN, uN, gone),
         \A j \in DOMAIN cN : \A l : Item("loan", l) \in Touched(d, cN[j]) =>
             \/ \E k \in DOMAIN c : Item("loan", l) \in Touched(d, c[k])
             \/ a.applied # None /\ l = a.applied.id
  PROVE  /\ \A i \in DOMAIN cN :
                cN[i].kind = "sanggahLoan" /\ Served(cN[i]) /\ Item("loan", cN[i].about) \notin uN =>
                    cN[i].got = d.loans[cN[i].about]
         /\ \A i \in DOMAIN cN : cN[i].kind = "applyLoan" /\ Served(cN[i]) =>
                /\ i \in DOMAIN c \ gone /\ cN[i].got = c[i].got
                   /\ c[i].kind = "applyLoan" /\ Served(c[i])
                /\ cN[i].got.loan = d.loans[cN[i].got.id]
                /\ \A j \in DOMAIN cN :
                       /\ Item("loan", cN[i].got.id) \notin Touched(d, cN[j])
                       /\ j # i /\ cN[j].kind = "applyLoan" /\ Served(cN[j]) =>
                              cN[j].got.id # cN[i].got.id
<1>1. ASSUME NEW i \in DOMAIN cN, Served(cN[i])
      PROVE  i \in DOMAIN c \ gone /\ Alike(c[i], cN[i]) /\ Served(c[i]) /\ c[i].kind \in Kinds
  <2>1. i \in DOMAIN c \ gone /\ Alike(c[i], cN[i])
    BY <1>1 DEF Passed
  <2> QED
    BY <1>1, <2>1 DEF Alike, Served, CallsOk, CallOk
<1>2. ASSUME NEW i \in DOMAIN cN, cN[i].kind = "sanggahLoan", Served(cN[i]),
             Item("loan", cN[i].about) \notin uN
      PROVE  cN[i].got = d.loans[cN[i].about]
  <2>1. i \in DOMAIN c \ gone /\ Alike(c[i], cN[i]) /\ Served(c[i]) /\ c[i].kind \in Kinds
    BY <1>1, <1>2
  <2>2. Item("loan", c[i].about) \in Touched(d, c[i])
    BY <1>2, <2>1, TouchedIs DEF Alike
  <2>3. Item("loan", c[i].about) \notin u
    BY <1>2, <2>1, <2>2 DEF Passed, Alike
  <2> QED
    BY <1>2, <2>1, <2>3 DEF AppliedKept, Alike
<1>3. ASSUME NEW i \in DOMAIN cN, cN[i].kind = "applyLoan", Served(cN[i])
      PROVE  /\ i \in DOMAIN c \ gone /\ cN[i].got = c[i].got
                /\ c[i].kind = "applyLoan" /\ Served(c[i])
             /\ cN[i].got.loan = d.loans[cN[i].got.id]
             /\ \A j \in DOMAIN cN :
                    /\ Item("loan", cN[i].got.id) \notin Touched(d, cN[j])
                    /\ j # i /\ cN[j].kind = "applyLoan" /\ Served(cN[j]) =>
                           cN[j].got.id # cN[i].got.id
  <2>1. i \in DOMAIN c \ gone /\ cN[i].got = c[i].got /\ c[i].kind = "applyLoan" /\ Served(c[i])
    BY <1>1, <1>3 DEF Alike
  <2>2. /\ c[i].got.loan = d.loans[c[i].got.id]
        /\ a.applied # None => a.applied.id # c[i].got.id
        /\ \A j \in DOMAIN c :
               /\ Item("loan", c[i].got.id) \notin Touched(d, c[j])
               /\ j # i /\ c[j].kind = "applyLoan" /\ Served(c[j]) => c[j].got.id # c[i].got.id
    BY <2>1 DEF AppliedKept
  <2>3. ASSUME NEW j \in DOMAIN cN PROVE Item("loan", cN[i].got.id) \notin Touched(d, cN[j])
    BY <2>1, <2>2
  <2>4. ASSUME NEW j \in DOMAIN cN, j # i, cN[j].kind = "applyLoan", Served(cN[j])
        PROVE  cN[j].got.id # cN[i].got.id
    BY <1>1, <2>1, <2>2, <2>4 DEF Alike
  <2> QED
    BY <2>1, <2>2, <2>3, <2>4
<1> QED
  BY <1>2, <1>3

LEMMA AppliedPassed ==
  ASSUME NEW d, NEW c, NEW u, NEW a, NEW cN, NEW uN, NEW aN, NEW gone,
         CallsOk(d, c), AppliedKept(d, c, u, a), Passed(d, c, u, cN, uN, gone),
         aN.applied = a.applied,
         \A j \in DOMAIN cN : \A l : Item("loan", l) \in Touched(d, cN[j]) =>
             \/ \E k \in DOMAIN c : Item("loan", l) \in Touched(d, c[k])
             \/ a.applied # None /\ l = a.applied.id,
         a.applied # None =>
             (Item("loan", a.applied.id) \in u => Item("loan", a.applied.id) \in uN),
         \A i \in DOMAIN c \cap gone :
             c[i].kind = "sanggahLoan" /\ Served(c[i]) => Item("loan", c[i].about) \in uN
  PROVE  AppliedKept(d, cN, uN, aN)
<1>1. /\ \A i \in DOMAIN cN :
             cN[i].kind = "sanggahLoan" /\ Served(cN[i]) /\ Item("loan", cN[i].about) \notin uN =>
                 cN[i].got = d.loans[cN[i].about]
      /\ \A i \in DOMAIN cN : cN[i].kind = "applyLoan" /\ Served(cN[i]) =>
             /\ i \in DOMAIN c \ gone /\ cN[i].got = c[i].got
                /\ c[i].kind = "applyLoan" /\ Served(c[i])
             /\ cN[i].got.loan = d.loans[cN[i].got.id]
             /\ \A j \in DOMAIN cN :
                    /\ Item("loan", cN[i].got.id) \notin Touched(d, cN[j])
                    /\ j # i /\ cN[j].kind = "applyLoan" /\ Served(cN[j]) =>
                           cN[j].got.id # cN[i].got.id
  BY AppliedCalls
<1>2. ASSUME aN.applied # None, Item("loan", aN.applied.id) \notin uN,
             \A i \in DOMAIN cN :
                 ~(cN[i].kind = "sanggahLoan" /\ Served(cN[i]) /\ cN[i].about = aN.applied.id)
      PROVE  aN.applied.loan = d.loans[aN.applied.id]
  <2>1. ASSUME NEW i \in DOMAIN c
        PROVE  ~(c[i].kind = "sanggahLoan" /\ Served(c[i]) /\ c[i].about = a.applied.id)
    <3>1. CASE i \in gone
      BY <1>2, <3>1
    <3>2. CASE i \notin gone
      BY <1>2, <3>2 DEF Passed, Alike, Served
    <3> QED
      BY <3>1, <3>2
  <2> QED
    BY <1>2, <2>1 DEF AppliedKept
<1>3. ASSUME NEW i \in DOMAIN cN, cN[i].kind = "applyLoan", Served(cN[i])
      PROVE  aN.applied # None => aN.applied.id # cN[i].got.id
  BY <1>1, <1>3 DEF AppliedKept
<1> QED
  BY <1>1, <1>2, <1>3 DEF AppliedKept

LEMMA LoansPassed ==
  ASSUME NEW d, NEW c, NEW u, NEW p, NEW cN, NEW uN, NEW pN, NEW gone,
         CallsOk(d, c), LoansKept(d, c, u, p), Passed(d, c, u, cN, uN, gone),
         \A i \in DOMAIN c : c[i].kind = "loadAll" /\ Served(c[i]) =>
             DOMAIN c[i].got.loans \subseteq DOMAIN d.loans,
         \A l \in DOMAIN pN.loans :
             \/ /\ l \in DOMAIN p.loans /\ pN.loans[l] = p.loans[l]
                /\ Item("loan", l) \in u => Item("loan", l) \in uN
                /\ \A i \in DOMAIN c \cap gone :
                       c[i].kind \in LoanWrites /\ Served(c[i]) /\ c[i].about = l =>
                           Item("loan", l) \in uN
             \/ Item("loan", l) \notin uN => pN.loans[l] = d.loans[l]
  PROVE  LoansKept(d, cN, uN, pN)
<1>1. ASSUME NEW i \in DOMAIN cN, Served(cN[i])
      PROVE  i \in DOMAIN c \ gone /\ Alike(c[i], cN[i]) /\ Served(c[i]) /\ c[i].kind \in Kinds
  <2>1. i \in DOMAIN c \ gone /\ Alike(c[i], cN[i])
    BY <1>1 DEF Passed
  <2> QED
    BY <1>1, <2>1 DEF Alike, Served, CallsOk, CallOk
<1>2. ASSUME NEW l \in DOMAIN pN.loans, Item("loan", l) \notin uN,
             \A i \in DOMAIN cN : ~(cN[i].kind \in LoanWrites /\ Served(cN[i]) /\ cN[i].about = l)
      PROVE  pN.loans[l] = d.loans[l]
  <2>1. SUFFICES ASSUME l \in DOMAIN p.loans, pN.loans[l] = p.loans[l], Item("loan", l) \notin u,
                        \A i \in DOMAIN c \cap gone :
                            ~(c[i].kind \in LoanWrites /\ Served(c[i]) /\ c[i].about = l)
                 PROVE  pN.loans[l] = d.loans[l]
    BY <1>2
  <2>2. ASSUME NEW i \in DOMAIN c
        PROVE  ~(c[i].kind \in LoanWrites /\ Served(c[i]) /\ c[i].about = l)
    <3>1. CASE i \in gone
      BY <2>1, <3>1
    <3>2. CASE i \notin gone
      BY <1>2, <3>2 DEF Passed, Alike, Served
    <3> QED
      BY <3>1, <3>2
  <2> QED
    BY <2>1, <2>2 DEF LoansKept
<1>3. ASSUME NEW i \in DOMAIN cN, Served(cN[i]), Item("loan", cN[i].about) \notin uN,
             cN[i].kind \in LoanWrites
      PROVE  /\ cN[i].kind \in {"approveLoan", "rejectLoan"} => cN[i].got = d.loans[cN[i].about]
             /\ cN[i].kind = "bailout" => cN[i].got.loan = d.loans[cN[i].about]
  <2>1. i \in DOMAIN c \ gone /\ Alike(c[i], cN[i]) /\ Served(c[i]) /\ c[i].kind \in Kinds
    BY <1>1, <1>3
  <2>2. Item("loan", c[i].about) \in Touched(d, c[i])
    BY <1>3, <2>1, TouchedIs DEF Alike
  <2>3. Item("loan", c[i].about) \notin u
    BY <1>3, <2>1, <2>2 DEF Passed, Alike
  <2> QED
    BY <2>1, <2>3 DEF LoansKept, Alike
<1>4. ASSUME NEW i \in DOMAIN cN, cN[i].kind = "loadAll", Served(cN[i]),
             NEW l \in DOMAIN cN[i].got.loans, Trusted(cN[i], uN, Item("loan", l))
      PROVE  cN[i].got.loans[l] = d.loans[l]
  <2>1. i \in DOMAIN c \ gone /\ Alike(c[i], cN[i]) /\ Served(c[i]) /\ c[i].kind \in Kinds
    BY <1>1, <1>4
  <2>2. Item("loan", l) \in Touched(d, c[i])
    BY <1>4, <2>1, TouchedIs DEF Alike
  <2>3. Trusted(c[i], u, Item("loan", l))
    BY <1>4, <2>1, <2>2, StillTrusted
  <2> QED
    BY <1>4, <2>1, <2>3 DEF LoansKept, Alike
<1> QED
  BY <1>2, <1>3, <1>4 DEF LoansKept, LoanWrites

LEMMA KasPassed ==
  ASSUME NEW d, NEW c, NEW u, NEW p, NEW cN, NEW uN, NEW pN, NEW gone,
         CallsOk(d, c), KasKept(d, c, u, p), Passed(d, c, u, cN, uN, gone),
         \/ /\ pN.kas = p.kas
            /\ Kas \in u => Kas \in uN
            /\ \A i \in DOMAIN c \cap gone : c[i].kind = "bailout" /\ Served(c[i]) => Kas \in uN
         \/ pN.kas # None /\ Kas \notin uN => pN.kas = d.kas
  PROVE  KasKept(d, cN, uN, pN)
<1>1. ASSUME NEW i \in DOMAIN cN, Served(cN[i])
      PROVE  i \in DOMAIN c \ gone /\ Alike(c[i], cN[i]) /\ Served(c[i]) /\ c[i].kind \in Kinds
  <2>1. i \in DOMAIN c \ gone /\ Alike(c[i], cN[i])
    BY <1>1 DEF Passed
  <2> QED
    BY <1>1, <2>1 DEF Alike, Served, CallsOk, CallOk
<1>2. ASSUME pN.kas # None, Kas \notin uN,
             \A i \in DOMAIN cN : ~(cN[i].kind = "bailout" /\ Served(cN[i]))
      PROVE  pN.kas = d.kas
  <2>1. SUFFICES ASSUME pN.kas = p.kas, Kas \notin u,
                        \A i \in DOMAIN c \cap gone : ~(c[i].kind = "bailout" /\ Served(c[i]))
                 PROVE  pN.kas = d.kas
    BY <1>2
  <2>2. ASSUME NEW i \in DOMAIN c PROVE ~(c[i].kind = "bailout" /\ Served(c[i]))
    <3>1. CASE i \in gone
      BY <2>1, <3>1
    <3>2. CASE i \notin gone
      BY <1>2, <3>2 DEF Passed, Alike, Served
    <3> QED
      BY <3>1, <3>2
  <2> QED
    BY <1>2, <2>1, <2>2 DEF KasKept
<1>3. ASSUME NEW i \in DOMAIN cN, Served(cN[i]), cN[i].kind \in {"bailout", "loadAll"}
      PROVE  /\ cN[i].kind = "bailout" /\ Kas \notin uN => cN[i].got.kas = d.kas
             /\ cN[i].kind = "loadAll" /\ Trusted(cN[i], uN, Kas) => cN[i].got.kas = d.kas
  <2>1. i \in DOMAIN c \ gone /\ Alike(c[i], cN[i]) /\ Served(c[i]) /\ c[i].kind \in Kinds
    BY <1>1, <1>3
  <2>2. Kas \in Touched(d, c[i])
    BY <1>3, <2>1, TouchedIs DEF Alike
  <2>3. Kas \notin uN => Kas \notin u
    BY <2>1, <2>2 DEF Passed
  <2>4. Trusted(cN[i], uN, Kas) => Trusted(c[i], u, Kas)
    BY <2>1, <2>2, StillTrusted
  <2> QED
    BY <2>1, <2>3, <2>4 DEF KasKept, Alike
<1> QED
  BY <1>2, <1>3 DEF KasKept

LEMMA MembersPassed ==
  ASSUME NEW d, NEW c, NEW u, NEW p, NEW cN, NEW uN, NEW pN, NEW gone,
         CallsOk(d, c), MembersKept(d, c, u, p), Passed(d, c, u, cN, uN, gone),
         \A m \in DOMAIN pN.members :
             \/ /\ m \in DOMAIN p.members /\ pN.members[m] = p.members[m]
                /\ Item("member", m) \in u => Item("member", m) \in uN
                /\ \A i \in DOMAIN c \cap gone :
                       c[i].kind \in {"approveKyc", "rejectKyc"} /\ Served(c[i]) /\ c[i].about = m =>
                           Item("member", m) \in uN
             \/ Item("member", m) \notin uN => pN.members[m] = d.kyc[m]
  PROVE  MembersKept(d, cN, uN, pN)
<1>1. ASSUME NEW i \in DOMAIN cN, Served(cN[i])
      PROVE  i \in DOMAIN c \ gone /\ Alike(c[i], cN[i]) /\ Served(c[i]) /\ c[i].kind \in Kinds
             /\ CallOk(d, c[i])
  <2>1. i \in DOMAIN c \ gone /\ Alike(c[i], cN[i])
    BY <1>1 DEF Passed
  <2> QED
    BY <1>1, <2>1 DEF Alike, Served, CallsOk, CallOk
<1>2. ASSUME NEW m \in DOMAIN pN.members, Item("member", m) \notin uN,
             \A i \in DOMAIN cN :
                 ~(cN[i].kind \in {"approveKyc", "rejectKyc"} /\ Served(cN[i]) /\ cN[i].about = m)
      PROVE  pN.members[m] = d.kyc[m]
  <2>1. SUFFICES ASSUME m \in DOMAIN p.members, pN.members[m] = p.members[m],
                        Item("member", m) \notin u,
                        \A i \in DOMAIN c \cap gone :
                            ~(c[i].kind \in {"approveKyc", "rejectKyc"} /\ Served(c[i])
                              /\ c[i].about = m)
                 PROVE  pN.members[m] = d.kyc[m]
    BY <1>2
  <2>2. ASSUME NEW i \in DOMAIN c
        PROVE  ~(c[i].kind \in {"approveKyc", "rejectKyc"} /\ Served(c[i]) /\ c[i].about = m)
    <3>1. CASE i \in gone
      BY <2>1, <3>1
    <3>2. CASE i \notin gone
      BY <1>2, <3>2 DEF Passed, Alike, Served
    <3> QED
      BY <3>1, <3>2
  <2> QED
    BY <2>1, <2>2 DEF MembersKept
<1>3. ASSUME NEW i \in DOMAIN cN, Served(cN[i]), Item("member", cN[i].about) \notin uN,
             cN[i].kind \in {"approveKyc", "rejectKyc"}
      PROVE  /\ cN[i].kind = "approveKyc" => cN[i].got.kyc = d.kyc[cN[i].about]
             /\ cN[i].kind = "rejectKyc" => cN[i].got = d.kyc[cN[i].about]
  <2>1. i \in DOMAIN c \ gone /\ Alike(c[i], cN[i]) /\ Served(c[i]) /\ c[i].kind \in Kinds
    BY <1>1, <1>3
  <2>2. Item("member", c[i].about) \in Touched(d, c[i])
    BY <1>3, <2>1, TouchedIs DEF Alike, KycWrites
  <2>3. Item("member", c[i].about) \notin u
    BY <1>3, <2>1, <2>2 DEF Passed, Alike
  <2> QED
    BY <2>1, <2>3 DEF MembersKept, Alike
<1>4. ASSUME NEW i \in DOMAIN cN, cN[i].kind = "loadAll", Served(cN[i]),
             NEW m \in DOMAIN cN[i].got.members, Trusted(cN[i], uN, Item("member", m))
      PROVE  cN[i].got.members[m] = d.kyc[m]
  <2>1. i \in DOMAIN c \ gone /\ Alike(c[i], cN[i]) /\ Served(c[i]) /\ c[i].kind \in Kinds
        /\ CallOk(d, c[i])
    BY <1>1, <1>4
  <2>2. c[i].kind = "loadAll" /\ m \in DOMAIN c[i].got.members
    BY <1>4, <2>1 DEF Alike
  <2>3. m \in MembersIn(d)
    BY <2>1, <2>2 DEF CallOk, GotOk, Served
  <2>4. Item("member", m) \in Touched(d, c[i])
    BY <2>1, <2>2, <2>3, TouchedIs
  <2>5. Trusted(c[i], u, Item("member", m))
    BY <1>4, <2>1, <2>4, StillTrusted
  <2> QED
    BY <2>1, <2>2, <2>5 DEF MembersKept, Alike
<1> QED
  BY <1>2, <1>3, <1>4 DEF MembersKept

LEMMA CardPassed ==
  ASSUME NEW d, NEW c, NEW u, NEW p, NEW cN, NEW uN, NEW pN, NEW gone,
         CallsOk(d, c), CallsOk(d, cN), CardKept(d, c, u, p), Passed(d, c, u, cN, uN, gone),
         \A i \in DOMAIN c \ gone : cN[i].live = c[i].live,
         pN.credential # None /\ Item("member", pN.credential.id) \notin uN =>
             pN.credential.pw = d.pw[pN.credential.id],
         pN.detail # None /\ Item("member", pN.detailId) \notin uN =>
             pN.detail = d.kyc[pN.detailId],
         \A i \in DOMAIN cN : cN[i].kind = "getMemberDetail" => pN.detailId = cN[i].about,
         \A i \in DOMAIN cN : \A m \in MembersIn(d) :
             (OnCard(pN, m) \/ pN.detailId = m)
             /\ (OnCard(p, m) \/ p.detailId = m => ~(i \in DOMAIN c \ gone)) =>
                 /\ cN[i].kind \in KycWrites /\ cN[i].live = "mounted" /\ cN[i].about = m =>
                        Item("member", m) \in uN
                 /\ cN[i].kind = "loadAll" => Item("member", m) \notin cN[i].clean
  PROVE  CardKept(d, cN, uN, pN)
<1>1. ASSUME NEW i \in DOMAIN cN, Served(cN[i])
      PROVE  i \in DOMAIN c \ gone /\ Alike(c[i], cN[i]) /\ Served(c[i]) /\ c[i].kind \in Kinds
  <2>1. i \in DOMAIN c \ gone /\ Alike(c[i], cN[i])
    BY <1>1 DEF Passed
  <2> QED
    BY <1>1, <2>1 DEF Alike, Served, CallsOk, CallOk
<1>2. ASSUME NEW i \in DOMAIN cN, Served(cN[i]), Item("member", cN[i].about) \notin uN,
             cN[i].kind \in KycWrites \cup {"getMemberDetail"}
      PROVE  /\ cN[i].kind = "approveKyc" /\ cN[i].got.tempPassword # None =>
                    cN[i].got.tempPassword = d.pw[cN[i].about]
             /\ cN[i].kind = "resetPassword" => cN[i].got = d.pw[cN[i].about]
             /\ cN[i].kind = "getMemberDetail" => cN[i].got = d.kyc[cN[i].about]
  <2>1. i \in DOMAIN c \ gone /\ Alike(c[i], cN[i]) /\ Served(c[i]) /\ c[i].kind \in Kinds
    BY <1>1, <1>2
  <2>2. Item("member", c[i].about) \in Touched(d, c[i])
    BY <1>2, <2>1, TouchedIs DEF Alike
  <2>3. Item("member", c[i].about) \notin u
    BY <1>2, <2>1, <2>2 DEF Passed, Alike
  <2> QED
    BY <2>1, <2>3 DEF CardKept, Alike
<1>3. ASSUME NEW i \in DOMAIN cN, cN[i].kind \in KycWrites, cN[i].live = "mounted",
             Item("member", cN[i].about) \notin uN
      PROVE  ~OnCard(pN, cN[i].about) /\ pN.detailId # cN[i].about
  <2> DEFINE m == cN[i].about
  <2>1. m \in MembersIn(d)
    BY <1>3 DEF CallsOk, CallOk, AboutOk
  <2>2. SUFFICES ASSUME OnCard(pN, m) \/ pN.detailId = m
                 PROVE  FALSE
    OBVIOUS
  <2>3. (OnCard(p, m) \/ p.detailId = m) /\ i \in DOMAIN c \ gone
    BY <1>3, <2>1, <2>2
  <2>4. Alike(c[i], cN[i]) /\ c[i].live = "mounted" /\ c[i].kind \in Kinds
    BY <1>3, <2>3 DEF Passed, CallsOk, CallOk
  <2>5. Item("member", m) \in Touched(d, c[i]) /\ c[i].kind \in KycWrites /\ c[i].about = m
    BY <1>3, <2>4, TouchedIs DEF Alike
  <2>6. Item("member", m) \notin u
    BY <1>3, <2>3, <2>5 DEF Passed
  <2> QED
    BY <2>3, <2>4, <2>5, <2>6 DEF CardKept
<1>4. ASSUME NEW i \in DOMAIN cN, cN[i].kind = "loadAll", NEW m \in MembersIn(d),
             Item("member", m) \in cN[i].clean
      PROVE  ~OnCard(pN, m) /\ pN.detailId # m
  <2>1. SUFFICES ASSUME OnCard(pN, m) \/ pN.detailId = m
                 PROVE  FALSE
    OBVIOUS
  <2>2. (OnCard(p, m) \/ p.detailId = m) /\ i \in DOMAIN c \ gone
    BY <1>4, <2>1
  <2>3. Alike(c[i], cN[i])
    BY <2>2 DEF Passed
  <2> QED
    BY <1>4, <2>2, <2>3 DEF CardKept, Alike
<1> QED
  BY <1>2, <1>3, <1>4 DEF CardKept, KycWrites

----------------------------------------------------------------------------
(* Launch *)

\* The slot a new call takes is one that is free.
LEMMA SlotTaken ==
  ASSUME NEW n \in Nat, NEW I \in SUBSET (1..n), I # {}
  PROVE  Min(I) \in I
<1> DEFINE R == OpToRel(<, Nat)
<1>4. I \subseteq Nat
  OBVIOUS
<1>1. PICK x \in I : \A y \in I : <<y, x>> \notin R
  BY <1>4, WFMin, NatLessThanWellFounded
<1>2. \A y, z \in Nat : y < z => <<y, z>> \in R
  BY DEF OpToRel
<1> HIDE DEF R
<1>3. ASSUME NEW y \in I PROVE x <= y
  <2>1. x \in Nat /\ y \in Nat /\ ~(y < x)
    BY <1>1, <1>2, <1>4
  <2> QED
    BY <2>1
<1> QED
  BY <1>3 DEF Min

\* What a launch makes of the calls that remain, and of the new one.
LEMMA LaunchNone ==
  ASSUME NEW rest, NEW unsure, Launch(rest, <<>>, unsure),
         \A i \in DOMAIN rest : IsCall(rest[i])
  PROVE  /\ DOMAIN inFlight' = DOMAIN rest
         /\ \A i \in DOMAIN rest : inFlight'[i] = rest[i]
         /\ doubt' = unsure
<1>1. Range(<<>>) = {}
  BY DEF Range
<1>2. UNION {Concerns(c) : c \in Range(<<>>)} = {}
  BY <1>1
<1>3. /\ doubt' = unsure
      /\ inFlight' = [i \in DOMAIN rest |-> [rest[i] EXCEPT !.clean = @ \ {}]]
  BY <1>2 DEF Launch
<1>4. /\ DOMAIN inFlight' = DOMAIN rest
      /\ \A i \in DOMAIN rest : inFlight'[i] = [rest[i] EXCEPT !.clean = @ \ {}]
  BY <1>3
<1>5. \A i \in DOMAIN rest : [rest[i] EXCEPT !.clean = @ \ {}] = rest[i]
  BY DEF IsCall
<1> QED
  BY <1>3, <1>4, <1>5

LEMMA LaunchOne ==
  ASSUME NEW rest, NEW c, NEW unsure, Launch(rest, <<c>>, unsure), cast.calls \in Nat
  PROVE  LET others == UNION {Concerns(rest[i]) : i \in DOMAIN rest} IN
         /\ doubt' = unsure \cup (Concerns(c) \cap others)
         /\ \E k : /\ k \notin DOMAIN rest
                   /\ DOMAIN inFlight' = DOMAIN rest \cup {k}
                   /\ inFlight'[k] = [c EXCEPT !.clean = @ \ others]
                   /\ \A i \in DOMAIN rest :
                          inFlight'[i] = [rest[i] EXCEPT !.clean = @ \ Concerns(c)]
<1> DEFINE others == UNION {Concerns(rest[i]) : i \in DOMAIN rest}
           free == (1..cast.calls) \ DOMAIN rest
           k == Min(free)
<1>1. Range(<<c>>) = {c} /\ <<c>>[1] = c /\ <<c>> # <<>>
  BY DEF Range
<1>2. UNION {Concerns(d) : d \in Range(<<c>>)} = Concerns(c)
  BY <1>1
<1>3. /\ free # {}
      /\ doubt' = unsure \cup (Concerns(c) \cap others)
      /\ inFlight' = [i \in DOMAIN rest \cup {k} |->
                          IF i \in DOMAIN rest THEN [rest[i] EXCEPT !.clean = @ \ Concerns(c)]
                          ELSE [c EXCEPT !.clean = @ \ others]]
  BY <1>1, <1>2 DEF Launch
<1>4. k \in free
  BY <1>3, SlotTaken
<1>5. k \notin DOMAIN rest
  BY <1>4
<1> HIDE DEF k, others
<1>6. /\ DOMAIN inFlight' = DOMAIN rest \cup {k}
      /\ inFlight'[k] = [c EXCEPT !.clean = @ \ others]
      /\ \A i \in DOMAIN rest : inFlight'[i] = [rest[i] EXCEPT !.clean = @ \ Concerns(c)]
  BY <1>3, <1>5
<1> QED
  BY <1>3, <1>5, <1>6 DEF others

Less(r, S) == [r EXCEPT !.clean = S]

LEMMA CleanLess ==
  ASSUME NEW d, NEW r, CallOk(d, r), NEW S, S \subseteq r.clean
  PROVE  /\ CallOk(d, Less(r, S))
         /\ Alike(r, Less(r, S)) /\ Less(r, S).live = r.live
         /\ Less(r, S).clean = S
         /\ Touched(d, Less(r, S)) = Touched(d, r)
<1> DEFINE s == Less(r, S)
<1>1. r = [kind |-> r.kind, about |-> r.about, who |-> r.who, live |-> r.live,
           phase |-> r.phase, got |-> r.got, clean |-> r.clean]
  BY DEF CallOk, IsCall
<1>2. s = [kind |-> r.kind, about |-> r.about, who |-> r.who, live |-> r.live,
           phase |-> r.phase, got |-> r.got, clean |-> S]
  BY <1>1 DEF Less
<1> HIDE DEF s
<1>3. /\ s.kind = r.kind /\ s.about = r.about /\ s.who = r.who /\ s.live = r.live
      /\ s.phase = r.phase /\ s.got = r.got /\ s.clean = S
  BY <1>2
<1>4. Touched(d, s) = Touched(d, r)
  BY <1>3 DEF Touched
<1>5. IsCall(s)
  BY <1>2, <1>3 DEF IsCall
<1>6. AboutOk(d, s) /\ GotOk(d, s)
  BY <1>3 DEF CallOk, AboutOk, GotOk
<1>7. CallOk(d, s)
  BY <1>3, <1>4, <1>5, <1>6 DEF CallOk
<1>8. Alike(r, s)
  BY <1>3 DEF Alike
<1> QED
  BY <1>3, <1>4, <1>7, <1>8 DEF s

\* The calls that remain and the new one overlap in what is in doubt, and are
\* clean where they do not overlap.
LEMMA Joined ==
  ASSUME NEW d, NEW rest, NEW c, NEW k, NEW cN, NEW u, NEW uN, NEW others,
         others = UNION {Touched(d, rest[i]) : i \in DOMAIN rest},
         CallsOk(d, rest), Apart(d, rest), Doubted(d, rest, u), CallOk(d, c),
         uN = u \cup (Touched(d, c) \cap others),
         k \notin DOMAIN rest, DOMAIN cN = DOMAIN rest \cup {k},
         cN[k] = Less(c, c.clean \ others),
         \A i \in DOMAIN rest : cN[i] = Less(rest[i], rest[i].clean \ Touched(d, c))
  PROVE  CallsOk(d, cN) /\ Apart(d, cN) /\ Doubted(d, cN, uN)
<1>1. ASSUME NEW i \in DOMAIN rest
      PROVE  /\ CallOk(d, rest[i]) /\ CallOk(d, cN[i]) /\ Alike(rest[i], cN[i])
             /\ cN[i].live = rest[i].live /\ cN[i].clean = rest[i].clean \ Touched(d, c)
             /\ Touched(d, cN[i]) = Touched(d, rest[i]) /\ Touched(d, rest[i]) \subseteq others
  <2>2. Touched(d, rest[i]) \subseteq others
    OBVIOUS
  <2>1. CallOk(d, rest[i]) /\ rest[i].clean \ Touched(d, c) \subseteq rest[i].clean
    BY DEF CallsOk
  <2>3. cN[i] = Less(rest[i], rest[i].clean \ Touched(d, c))
    OBVIOUS
  <2> DEFINE r == rest[i]
             S == rest[i].clean \ Touched(d, c)
  <2> HIDE DEF r, S
  <2>4. CallOk(d, r) /\ S \subseteq r.clean /\ cN[i] = Less(r, S)
    BY <2>1, <2>3 DEF r, S
  <2>5. /\ CallOk(d, r) /\ CallOk(d, cN[i]) /\ Alike(r, cN[i])
        /\ cN[i].live = r.live /\ cN[i].clean = S /\ Touched(d, cN[i]) = Touched(d, r)
    BY <2>4, CleanLess
  <2> QED
    BY <2>2, <2>5 DEF r, S
<1>2. /\ CallOk(d, cN[k]) /\ Alike(c, cN[k]) /\ cN[k].live = c.live
      /\ cN[k].clean = c.clean \ others /\ Touched(d, cN[k]) = Touched(d, c)
  <2>1. c.clean \ others \subseteq c.clean
    OBVIOUS
  <2> QED
    BY <2>1, CleanLess
<1>3. CallsOk(d, cN)
  BY <1>1, <1>2 DEF CallsOk
<1>4. Apart(d, cN)
  <2>1. ASSUME NEW i \in DOMAIN cN, NEW j \in DOMAIN cN, i # j
        PROVE  Touched(d, cN[i]) \cap cN[j].clean = {}
    <3>1. CASE i = k
      BY <1>1, <1>2, <2>1, <3>1
    <3>2. CASE j = k /\ i # k
      BY <1>1, <1>2, <3>2
    <3>3. CASE i # k /\ j # k
      BY <1>1, <2>1, <3>3 DEF Apart
    <3> QED
      BY <3>1, <3>2, <3>3
  <2> QED
    BY <2>1 DEF Apart
<1>5. Doubted(d, cN, uN)
  <2>1. ASSUME NEW i \in DOMAIN cN, NEW j \in DOMAIN cN, i # j, cN[i].kind \in Writes,
               NEW x \in Touched(d, cN[i]) \cap Touched(d, cN[j]),
               cN[j].live = "mounted" \/ x = Balance
        PROVE  x \in uN
    <3>1. CASE i = k
      BY <1>1, <1>2, <2>1, <3>1
    <3>2. CASE j = k /\ i # k
      BY <1>1, <1>2, <2>1, <3>2
    <3>3. CASE i # k /\ j # k
      <4>1. rest[i].kind \in Writes /\ x \in Touched(d, rest[i]) \cap Touched(d, rest[j])
            /\ (rest[j].live = "mounted" \/ x = Balance) /\ i \in DOMAIN rest /\ j \in DOMAIN rest
        BY <1>1, <2>1, <3>3 DEF Alike
      <4> QED
        BY <2>1, <4>1 DEF Doubted
    <3> QED
      BY <3>1, <3>2, <3>3
  <2> QED
    BY <2>1 DEF Doubted
<1> QED
  BY <1>3, <1>4, <1>5

LEMMA LaunchedNone ==
  ASSUME NEW rest, NEW unsure, Launch(rest, <<>>, unsure),
         CallsOk(db, rest), Apart(db, rest), Doubted(db, rest, unsure)
  PROVE  /\ doubt' = unsure
         /\ DOMAIN inFlight' = DOMAIN rest
         /\ \A i \in DOMAIN rest : inFlight'[i] = rest[i]
         /\ CallsOk(db, inFlight') /\ Apart(db, inFlight') /\ Doubted(db, inFlight', doubt')
<1>1. \A i \in DOMAIN rest : IsCall(rest[i])
  BY DEF CallsOk, CallOk
<1>2. /\ DOMAIN inFlight' = DOMAIN rest
      /\ \A i \in DOMAIN rest : inFlight'[i] = rest[i]
      /\ doubt' = unsure
  BY <1>1, LaunchNone
<1> QED
  BY <1>2 DEF CallsOk, Apart, Doubted

LEMMA LaunchedOne ==
  ASSUME NEW rest, NEW c, NEW unsure, Launch(rest, <<c>>, unsure), cast.calls \in Nat,
         CallsOk(db, rest), Apart(db, rest), Doubted(db, rest, unsure), CallOk(db, c)
  PROVE  LET others == UNION {Touched(db, rest[i]) : i \in DOMAIN rest} IN
         /\ doubt' = unsure \cup (Touched(db, c) \cap others)
         /\ \E k : /\ k \notin DOMAIN rest
                   /\ DOMAIN inFlight' = DOMAIN rest \cup {k}
                   /\ inFlight'[k] = Less(c, c.clean \ others)
                   /\ \A i \in DOMAIN rest :
                          inFlight'[i] = Less(rest[i], rest[i].clean \ Touched(db, c))
         /\ CallsOk(db, inFlight') /\ Apart(db, inFlight') /\ Doubted(db, inFlight', doubt')
<1> DEFINE others == UNION {Touched(db, rest[i]) : i \in DOMAIN rest}
<1>1. Concerns(c) = Touched(db, c) /\ \A i \in DOMAIN rest : Concerns(rest[i]) = Touched(db, rest[i])
  BY ConcernsIs
<1>2. UNION {Concerns(rest[i]) : i \in DOMAIN rest} = others
  BY <1>1
<1>3. /\ doubt' = unsure \cup (Touched(db, c) \cap others)
      /\ \E k : /\ k \notin DOMAIN rest
                /\ DOMAIN inFlight' = DOMAIN rest \cup {k}
                /\ inFlight'[k] = Less(c, c.clean \ others)
                /\ \A i \in DOMAIN rest :
                       inFlight'[i] = Less(rest[i], rest[i].clean \ Touched(db, c))
  <2>1. /\ doubt' = unsure \cup (Concerns(c) \cap UNION {Concerns(rest[i]) : i \in DOMAIN rest})
        /\ \E k : /\ k \notin DOMAIN rest
                  /\ DOMAIN inFlight' = DOMAIN rest \cup {k}
                  /\ inFlight'[k] = Less(c, c.clean \ UNION {Concerns(rest[i]) : i \in DOMAIN rest})
                  /\ \A i \in DOMAIN rest :
                         inFlight'[i] = Less(rest[i], rest[i].clean \ Concerns(c))
    BY LaunchOne DEF Less
  <2> QED
    BY <1>1, <1>2, <2>1
<1> HIDE DEF others
<1>4. PICK k : /\ k \notin DOMAIN rest
               /\ DOMAIN inFlight' = DOMAIN rest \cup {k}
               /\ inFlight'[k] = Less(c, c.clean \ others)
               /\ \A i \in DOMAIN rest :
                      inFlight'[i] = Less(rest[i], rest[i].clean \ Touched(db, c))
  BY <1>3
<1>5. CallsOk(db, inFlight') /\ Apart(db, inFlight') /\ Doubted(db, inFlight', doubt')
  BY <1>3, <1>4, Joined DEF others
<1> QED
  BY <1>3, <1>4, <1>5 DEF others

----------------------------------------------------------------------------
(* Steps that leave the session and the rows as they are *)

\* The calls in the slots of gone are over, those of news were sent, and what
\* the new ones share with the others is in doubt.
After(d, c, u, cN, uN, gone, news) ==
    /\ Passed(d, c, u, cN, uN, gone)
    /\ \A j \in DOMAIN c \ gone :
           /\ cN[j].live = c[j].live
           /\ \A n \in news : /\ cN[j].clean \cap Touched(d, n) = {}
                              /\ Touched(d, n) \cap Touched(d, c[j]) \subseteq uN
    /\ \A j \in DOMAIN cN : j \in DOMAIN c \ gone \/
           \E n \in news : Alike(n, cN[j]) /\ cN[j].live = n.live
    /\ CallsOk(d, cN) /\ Apart(d, cN) /\ Doubted(d, cN, uN)

LEMMA RestOver ==
  ASSUME CallsOk(db, inFlight), Overlaps, NEW gone, NEW rest, NEW unsure,
         DOMAIN rest = DOMAIN inFlight \ gone,
         \A j \in DOMAIN rest : rest[j] = inFlight[j],
         \A j \in DOMAIN rest : \A x \in Touched(db, inFlight[j]) : x \in doubt => x \in unsure
  PROVE  CallsOk(db, rest) /\ Apart(db, rest) /\ Doubted(db, rest, unsure)
<1>1. CallsOk(db, rest)
  BY DEF CallsOk
<1>2. Apart(db, rest)
  BY DEF Apart, Overlaps
<1>3. Doubted(db, rest, unsure)
  BY DEF Doubted, Overlaps
<1> QED
  BY <1>1, <1>2, <1>3

LEMMA AfterNone ==
  ASSUME CallsOk(db, inFlight), Overlaps, NEW gone, NEW rest, NEW unsure,
         DOMAIN rest = DOMAIN inFlight \ gone,
         \A j \in DOMAIN rest : rest[j] = inFlight[j],
         \A j \in DOMAIN rest : \A x \in Touched(db, inFlight[j]) : x \in doubt => x \in unsure,
         Launch(rest, <<>>, unsure)
  PROVE  After(db, inFlight, doubt, inFlight', doubt', gone, {}) /\ doubt' = unsure
<1>1. CallsOk(db, rest) /\ Apart(db, rest) /\ Doubted(db, rest, unsure)
  BY RestOver
<1>2. /\ doubt' = unsure
      /\ DOMAIN inFlight' = DOMAIN rest
      /\ \A i \in DOMAIN rest : inFlight'[i] = rest[i]
      /\ CallsOk(db, inFlight') /\ Apart(db, inFlight') /\ Doubted(db, inFlight', doubt')
  BY <1>1, LaunchedNone
<1>3. Passed(db, inFlight, doubt, inFlight', doubt', gone)
  BY <1>2 DEF Passed, Alike
<1> QED
  BY <1>2, <1>3 DEF After

LEMMA AfterOne ==
  ASSUME CallsOk(db, inFlight), Overlaps, NEW gone, NEW rest, NEW unsure, NEW n,
         DOMAIN rest = DOMAIN inFlight \ gone,
         \A j \in DOMAIN rest : rest[j] = inFlight[j],
         \A j \in DOMAIN rest : \A x \in Touched(db, inFlight[j]) : x \in doubt => x \in unsure,
         cast.calls \in Nat, CallOk(db, n), ~Served(n),
         Launch(rest, <<n>>, unsure)
  PROVE  /\ After(db, inFlight, doubt, inFlight', doubt', gone, {n})
         /\ unsure \subseteq doubt' /\ doubt' \subseteq unsure \cup Touched(db, n)
<1> DEFINE others == UNION {Touched(db, rest[i]) : i \in DOMAIN rest}
<1>1. CallsOk(db, rest) /\ Apart(db, rest) /\ Doubted(db, rest, unsure)
  BY RestOver
<1>2. /\ doubt' = unsure \cup (Touched(db, n) \cap others)
      /\ \E k : /\ k \notin DOMAIN rest
                /\ DOMAIN inFlight' = DOMAIN rest \cup {k}
                /\ inFlight'[k] = Less(n, n.clean \ others)
                /\ \A i \in DOMAIN rest :
                       inFlight'[i] = Less(rest[i], rest[i].clean \ Touched(db, n))
      /\ CallsOk(db, inFlight') /\ Apart(db, inFlight') /\ Doubted(db, inFlight', doubt')
  BY <1>1, LaunchedOne
<1>3. \A i \in DOMAIN rest : Touched(db, rest[i]) \subseteq others
  OBVIOUS
<1> HIDE DEF others
<1>4. PICK k : /\ k \notin DOMAIN rest
               /\ DOMAIN inFlight' = DOMAIN rest \cup {k}
               /\ inFlight'[k] = Less(n, n.clean \ others)
               /\ \A i \in DOMAIN rest :
                      inFlight'[i] = Less(rest[i], rest[i].clean \ Touched(db, n))
  BY <1>2
<1>5. Alike(n, inFlight'[k]) /\ inFlight'[k].live = n.live
  <2>1. n.clean \ others \subseteq n.clean
    OBVIOUS
  <2> QED
    BY <1>4, <2>1, CleanLess
<1>6. ASSUME NEW j \in DOMAIN rest
      PROVE  /\ Alike(inFlight[j], inFlight'[j]) /\ inFlight'[j].live = inFlight[j].live
             /\ inFlight'[j].clean \cap Touched(db, n) = {}
             /\ Touched(db, n) \cap Touched(db, inFlight[j]) \subseteq doubt'
  <2> DEFINE r == inFlight[j]
             S == r.clean \ Touched(db, n)
  <2>1. inFlight'[j] = Less(r, S) /\ CallOk(db, r) /\ S \subseteq r.clean /\ S \cap Touched(db, n) = {}
    BY <1>4 DEF CallsOk
  <2> HIDE DEF r, S
  <2>2. Alike(r, inFlight'[j]) /\ inFlight'[j].live = r.live /\ inFlight'[j].clean = S
    BY <2>1, CleanLess
  <2>3. Touched(db, inFlight[j]) \subseteq others
    BY <1>3
  <2> QED
    BY <1>2, <2>1, <2>2, <2>3 DEF r
<1>7. Passed(db, inFlight, doubt, inFlight', doubt', gone)
  <2>1. ASSUME NEW i \in DOMAIN inFlight', i \notin DOMAIN rest PROVE ~Served(inFlight'[i])
    BY <1>4, <1>5, <2>1 DEF Alike, Served
  <2> QED
    BY <1>2, <1>4, <1>6, <2>1 DEF Passed
<1>8. \A j \in DOMAIN inFlight' : j \in DOMAIN inFlight \ gone \/
          \E r \in {n} : Alike(r, inFlight'[j]) /\ inFlight'[j].live = r.live
  BY <1>4, <1>5
<1> QED
  BY <1>2, <1>6, <1>7, <1>8 DEF After

LEMMA SurfaceIs == Surface = View
BY DEF Surface, View, ViewOf

LEMMA WithoutIs ==
  ASSUME NEW i
  PROVE  /\ DOMAIN Without(i) = DOMAIN inFlight \ {i}
         /\ \A j \in DOMAIN Without(i) : Without(i)[j] = inFlight[j]
BY DEF Without, Restrict

\* What a read clears concerns no other call.
LEMMA ClearedKeeps ==
  ASSUME Overlaps, NEW i \in DOMAIN inFlight, NEW j \in DOMAIN inFlight, j # i,
         NEW x \in Touched(db, inFlight[j]), x \in doubt
  PROVE  x \in Cleared(i)
BY DEF Overlaps, Apart, Cleared

LEMMA ViewIs ==
  ASSUME TypesOk
  PROVE  /\ View \in {"splash", "login", "Anggota", "Pengurus"}
         /\ View \in {"Anggota", "Pengurus"} => ~loading /\ member # None /\ member \in RowIn(db)
<1>1. member # None => member \in RowIn(db) /\ member.id \in DOMAIN db.role
  BY DEF TypesOk, SessionOk, RowIn
<1>2. \A m \in DOMAIN db.role : db.role[m] \in {"Anggota", "Pengurus"}
  BY DEF TypesOk, DbOk
<1> QED
  BY <1>1, <1>2 DEF View, ViewOf

LEMMA PlacedAfter ==
  ASSUME NEW d, NEW c, NEW u, NEW cN, NEW uN, NEW gone, NEW news, NEW view, NEW tok,
         After(d, c, u, cN, uN, gone, news), Placed(c, view, tok, FALSE),
         \A n \in news : /\ n.kind # "me"
                         /\ n.live = "mounted" /\ n.kind \in AppKinds => view = "Anggota"
                         /\ n.live = "mounted" /\ n.kind \in PanelKinds => view = "Pengurus"
  PROVE  Placed(cN, view, tok, FALSE)
<1>1. ASSUME NEW i \in DOMAIN cN
      PROVE  /\ cN[i].live = "mounted" /\ cN[i].kind \in AppKinds => view = "Anggota"
             /\ cN[i].live = "mounted" /\ cN[i].kind \in PanelKinds => view = "Pengurus"
             /\ cN[i].kind # "me"
  <2>1. CASE i \in DOMAIN c \ gone
    <3>1. Alike(c[i], cN[i]) /\ cN[i].live = c[i].live
      BY <2>1 DEF After, Passed
    <3> QED
      BY <2>1, <3>1 DEF Placed, Alike
  <2>2. CASE ~(i \in DOMAIN c \ gone)
    <3>1. PICK n \in news : Alike(n, cN[i]) /\ cN[i].live = n.live
      BY <2>2 DEF After
    <3> QED
      BY <3>1 DEF Alike
  <2> QED
    BY <2>1, <2>2
<1> QED
  BY <1>1 DEF Placed

\* A step of the panel disturbs only what the panel shows.
LEMMA OfficerStep ==
  ASSUME IInv, View = "Pengurus", UNCHANGED <<session, db, app, cast>>,
         NEW gone, NEW news, After(db, inFlight, doubt, inFlight', doubt', gone, news),
         \A n \in news : n.kind \in PanelKinds,
         Balance \in doubt => Balance \in doubt',
         \A i \in DOMAIN inFlight \cap gone : inFlight[i].kind # "createSaving",
         PanelOk(db, "Pengurus", panel'),
         LoansKept(db, inFlight', doubt', panel'), KasKept(db, inFlight', doubt', panel'),
         MembersKept(db, inFlight', doubt', panel'), CardKept(db, inFlight', doubt', panel')
  PROVE  IInv'
<1>1. /\ db' = db /\ app' = app /\ cast' = cast /\ token' = token /\ stored' = stored
      /\ member' = member /\ loading' = loading
  BY DEF session
<1>2. View' = View /\ loading = FALSE
  BY <1>1, ViewIs DEF View, IInv, TypesOk, SessionOk
<1>3. \A n \in news : n.kind # "me" /\ n.kind \notin AppKinds
  BY DEF PanelKinds, AppKinds, KycWrites, LoanWrites
<1>4. Placed(inFlight', View, token, loading)
  BY <1>2, <1>3, PlacedAfter DEF IInv, TypesOk
<1>5. CallsOk(db, inFlight') /\ Apart(db, inFlight') /\ Doubted(db, inFlight', doubt')
  BY DEF After
<1>6. TypesOk'
  BY <1>1, <1>2, <1>4, <1>5 DEF IInv, TypesOk
<1>7. SavingsKept(db, inFlight', doubt', member, app, View) /\ AppliedKept(db, inFlight', doubt', app)
  <2>1. AppOk(db, View, app) /\ View # "Anggota"
    BY DEF IInv, TypesOk
  <2> QED
    BY <1>4, <1>5, <2>1, PhoneKept
<1>8. BalanceKept(db, inFlight', doubt', member)
  <2>1. CallsOk(db, inFlight) /\ BalanceKept(db, inFlight, doubt, member)
        /\ Passed(db, inFlight, doubt, inFlight', doubt', gone)
    BY DEF IInv, TypesOk, Kept, After
  <2>2. \A i \in DOMAIN inFlight \cap gone : Booked(inFlight[i]) => Balance \in doubt'
    BY DEF Booked
  <2> QED
    BY <2>1, <2>2, BalancePassed
<1>9. Kept'
  BY <1>1, <1>2, <1>7, <1>8 DEF Kept
<1> QED
  BY <1>1, <1>5, <1>6, <1>9 DEF IInv, Overlaps

\* A step of the phone disturbs only what the phone shows.
LEMMA PhoneStep ==
  ASSUME IInv, View = "Anggota", UNCHANGED <<session, db, panel, cast>>,
         NEW gone, NEW news, After(db, inFlight, doubt, inFlight', doubt', gone, news),
         \A n \in news : n.kind \in AppKinds,
         AppOk(db, "Anggota", app'),
         SavingsKept(db, inFlight', doubt', member, app', "Anggota"),
         BalanceKept(db, inFlight', doubt', member),
         AppliedKept(db, inFlight', doubt', app')
  PROVE  IInv'
<1>1. /\ db' = db /\ panel' = panel /\ cast' = cast /\ token' = token /\ stored' = stored
      /\ member' = member /\ loading' = loading
  BY DEF session
<1>2. View' = View /\ loading = FALSE
  BY <1>1, ViewIs DEF View, IInv, TypesOk, SessionOk
<1>3. \A n \in news : n.kind # "me" /\ n.kind \notin PanelKinds
  BY DEF PanelKinds, AppKinds, KycWrites, LoanWrites
<1>4. Placed(inFlight', View, token, loading)
  BY <1>2, <1>3, PlacedAfter DEF IInv, TypesOk
<1>5. CallsOk(db, inFlight') /\ Apart(db, inFlight') /\ Doubted(db, inFlight', doubt')
  BY DEF After
<1>6. TypesOk'
  BY <1>1, <1>2, <1>4, <1>5 DEF IInv, TypesOk
<1>7. LoansKept(db, inFlight', doubt', panel) /\ KasKept(db, inFlight', doubt', panel)
      /\ MembersKept(db, inFlight', doubt', panel) /\ CardKept(db, inFlight', doubt', panel)
  <2>1. DbOk(db) /\ PanelOk(db, View, panel) /\ View # "Pengurus"
    BY DEF IInv, TypesOk
  <2> QED
    BY <1>4, <1>5, <2>1, PanelKept
<1>8. Kept'
  BY <1>1, <1>2, <1>7 DEF Kept
<1> QED
  BY <1>1, <1>5, <1>6, <1>8 DEF IInv, Overlaps

----------------------------------------------------------------------------
(* Calls that are sent and calls that are over *)

LEMMA CallIs ==
  ASSUME NEW kind, NEW about, NEW who
  PROVE  /\ Call(kind, about, who).kind = kind /\ Call(kind, about, who).about = about
         /\ Call(kind, about, who).who = who /\ Call(kind, about, who).live = "mounted"
         /\ Call(kind, about, who).phase = "sent" /\ ~Served(Call(kind, about, who))
         /\ IsCall(Call(kind, about, who))
         /\ Call(kind, about, who).clean \subseteq Touched(db, Call(kind, about, who))
         /\ kind \in Writes => Call(kind, about, who).clean = {}
<1> DEFINE n == Call(kind, about, who)
<1>1. n = [kind |-> kind, about |-> about, who |-> who, live |-> "mounted",
           phase |-> "sent", got |-> None,
           clean |-> IF kind \in Writes THEN {} ELSE Touches(kind, about)]
  BY DEF Call
<1> HIDE DEF n
<1>2. n.kind = kind /\ n.about = about /\ n.who = who /\ n.live = "mounted" /\ n.phase = "sent"
      /\ n.got = None /\ n.clean = IF kind \in Writes THEN {} ELSE Touches(kind, about)
  BY <1>1
<1>3. IsCall(n)
  BY <1>1, <1>2 DEF IsCall
<1>4. Touches(kind, about) = Concerns(n)
  BY <1>2 DEF Concerns
<1>5. n.clean \subseteq Touched(db, n)
  BY <1>2, <1>4, ConcernsIs
<1> QED
  BY <1>2, <1>3, <1>5 DEF n, Served

LEMMA CallOkIs ==
  ASSUME NEW kind, NEW about, NEW who,
         kind \in Kinds, who \in DOMAIN db.role \cup {None},
         kind \in {"login", "loadData", "createSaving", "applyLoan"} => about \in DOMAIN db.role,
         kind \in KycWrites \cup {"getMemberDetail"} => about \in MembersIn(db),
         kind \in LoanWrites \cup {"sanggahLoan"} => about \in DOMAIN db.loans
  PROVE  CallOk(db, Call(kind, about, who))
<1> DEFINE n == Call(kind, about, who)
<1>1. /\ n.kind = kind /\ n.about = about /\ n.who = who /\ n.live = "mounted"
      /\ n.phase = "sent" /\ IsCall(n) /\ n.clean \subseteq Touched(db, n)
      /\ kind \in Writes => n.clean = {}
  BY CallIs
<1> HIDE DEF n
<1>2. AboutOk(db, n) /\ GotOk(db, n)
  BY <1>1 DEF AboutOk, GotOk
<1>3. CallOk(db, n)
  BY <1>1, <1>2 DEF CallOk
<1> QED
  BY <1>3 DEF n

LEMMA CastIs ==
  ASSUME TypesOk
  PROVE  cast.calls \in Nat /\ cast.accounts \subseteq DOMAIN db.role
         /\ token \in DOMAIN db.role \cup {None}
BY CastsAreStored DEF TypesOk, SessionOk

LEMMA AfterSend ==
  ASSUME IInv, NEW kind, NEW about, Send(kind, about), CallOk(db, Call(kind, about, token))
  PROVE  /\ After(db, inFlight, doubt, inFlight', doubt', {}, {Call(kind, about, token)})
         /\ doubt \subseteq doubt' /\ doubt' \subseteq doubt \cup Touched(db, Call(kind, about, token))
<1>1. Launch(inFlight, <<Call(kind, about, token)>>, doubt)
  BY DEF Send
<1>2. CallsOk(db, inFlight) /\ Overlaps /\ cast.calls \in Nat /\ ~Served(Call(kind, about, token))
  BY CastIs, CallIs DEF IInv, TypesOk
<1>3. DOMAIN inFlight = DOMAIN inFlight \ {}
  OBVIOUS
<1> QED
  BY <1>1, <1>2, <1>3, AfterOne

LEMMA AfterOver ==
  ASSUME IInv, NEW i \in DOMAIN inFlight, NEW unsure, Launch(Without(i), <<>>, unsure),
         \A j \in DOMAIN inFlight \ {i} : \A x \in Touched(db, inFlight[j]) :
             x \in doubt => x \in unsure
  PROVE  After(db, inFlight, doubt, inFlight', doubt', {i}, {}) /\ doubt' = unsure
<1>1. /\ DOMAIN Without(i) = DOMAIN inFlight \ {i}
      /\ \A j \in DOMAIN Without(i) : Without(i)[j] = inFlight[j]
  BY WithoutIs
<1>2. CallsOk(db, inFlight) /\ Overlaps
  BY DEF IInv, TypesOk
<1> QED
  BY <1>1, <1>2, AfterNone

LEMMA AfterOverSend ==
  ASSUME IInv, NEW i \in DOMAIN inFlight, NEW unsure, NEW n, Launch(Without(i), <<n>>, unsure),
         \A j \in DOMAIN inFlight \ {i} : \A x \in Touched(db, inFlight[j]) :
             x \in doubt => x \in unsure,
         CallOk(db, n), ~Served(n)
  PROVE  /\ After(db, inFlight, doubt, inFlight', doubt', {i}, {n})
         /\ unsure \subseteq doubt' /\ doubt' \subseteq unsure \cup Touched(db, n)
<1>1. /\ DOMAIN Without(i) = DOMAIN inFlight \ {i}
      /\ \A j \in DOMAIN Without(i) : Without(i)[j] = inFlight[j]
  BY WithoutIs
<1>2. CallsOk(db, inFlight) /\ Overlaps /\ cast.calls \in Nat
  BY CastIs DEF IInv, TypesOk
<1> QED
  BY <1>1, <1>2, AfterOne

LEMMA AfterIdle ==
  ASSUME IInv
  PROVE  After(db, inFlight, doubt, inFlight, doubt, {}, {})
<1>1. Passed(db, inFlight, doubt, inFlight, doubt, {})
  BY DEF Passed, Alike
<1> QED
  BY <1>1 DEF After, IInv, TypesOk, Overlaps

\* An answer to the panel finds it on screen.
LEMMA AnswersPanel ==
  ASSUME IInv, NEW i \in DOMAIN inFlight, inFlight[i].phase \in {"done", "failed"},
         inFlight[i].kind \in PanelKinds
  PROVE  View = "Pengurus" /\ inFlight[i].live = "mounted"
<1>1. CallOk(db, inFlight[i])
  BY DEF IInv, TypesOk, CallsOk
<1>2. inFlight[i].live = "mounted"
  BY <1>1 DEF CallOk, PanelKinds, KycWrites, LoanWrites
<1> QED
  BY <1>2 DEF IInv, TypesOk, Placed

LEMMA PanelStep ==
  ASSUME IInv, View = "Pengurus", UNCHANGED <<session, db, app, cast>>,
         NEW gone, NEW news, After(db, inFlight, doubt, inFlight', doubt', gone, news),
         \A n \in news : n.kind \in PanelKinds,
         Balance \in doubt => Balance \in doubt',
         \A i \in DOMAIN inFlight \cap gone : inFlight[i].kind # "createSaving",
         PanelOk(db, "Pengurus", panel'),
         \A l \in DOMAIN panel'.loans :
             \/ /\ l \in DOMAIN panel.loans /\ panel'.loans[l] = panel.loans[l]
                /\ Item("loan", l) \in doubt => Item("loan", l) \in doubt'
                /\ \A i \in DOMAIN inFlight \cap gone :
                       inFlight[i].kind \in LoanWrites /\ Served(inFlight[i])
                       /\ inFlight[i].about = l => Item("loan", l) \in doubt'
             \/ Item("loan", l) \notin doubt' => panel'.loans[l] = db.loans[l],
         \/ /\ panel'.kas = panel.kas
            /\ Kas \in doubt => Kas \in doubt'
            /\ \A i \in DOMAIN inFlight \cap gone :
                   inFlight[i].kind = "bailout" /\ Served(inFlight[i]) => Kas \in doubt'
         \/ panel'.kas # None /\ Kas \notin doubt' => panel'.kas = db.kas,
         \A m \in DOMAIN panel'.members :
             \/ /\ m \in DOMAIN panel.members /\ panel'.members[m] = panel.members[m]
                /\ Item("member", m) \in doubt => Item("member", m) \in doubt'
                /\ \A i \in DOMAIN inFlight \cap gone :
                       inFlight[i].kind \in {"approveKyc", "rejectKyc"} /\ Served(inFlight[i])
                       /\ inFlight[i].about = m => Item("member", m) \in doubt'
             \/ Item("member", m) \notin doubt' => panel'.members[m] = db.kyc[m],
         panel'.credential # None /\ Item("member", panel'.credential.id) \notin doubt' =>
             panel'.credential.pw = db.pw[panel'.credential.id],
         panel'.detail # None /\ Item("member", panel'.detailId) \notin doubt' =>
             panel'.detail = db.kyc[panel'.detailId],
         \A i \in DOMAIN inFlight' :
             inFlight'[i].kind = "getMemberDetail" => panel'.detailId = inFlight'[i].about,
         \A i \in DOMAIN inFlight' : \A m \in MembersIn(db) :
             (OnCard(panel', m) \/ panel'.detailId = m)
             /\ (OnCard(panel, m) \/ panel.detailId = m => ~(i \in DOMAIN inFlight \ gone)) =>
                 /\ inFlight'[i].kind \in KycWrites /\ inFlight'[i].live = "mounted"
                    /\ inFlight'[i].about = m => Item("member", m) \in doubt'
                 /\ inFlight'[i].kind = "loadAll" => Item("member", m) \notin inFlight'[i].clean
  PROVE  IInv'
<1>1. CallsOk(db, inFlight) /\ Passed(db, inFlight, doubt, inFlight', doubt', gone)
      /\ CallsOk(db, inFlight') /\ \A i \in DOMAIN inFlight \ gone : inFlight'[i].live = inFlight[i].live
  BY DEF IInv, TypesOk, After
<1>2. LoansKept(db, inFlight, doubt, panel) /\ KasKept(db, inFlight, doubt, panel)
      /\ MembersKept(db, inFlight, doubt, panel) /\ CardKept(db, inFlight, doubt, panel)
  BY DEF IInv, Kept
<1>3. LoansKept(db, inFlight', doubt', panel')
  <2>1. \A i \in DOMAIN inFlight : inFlight[i].kind = "loadAll" /\ Served(inFlight[i]) =>
            DOMAIN inFlight[i].got.loans \subseteq DOMAIN db.loans
    BY <1>1 DEF CallsOk, CallOk, GotOk, Served
  <2> QED
    BY <1>1, <1>2, <2>1, LoansPassed
<1>4. KasKept(db, inFlight', doubt', panel')
  BY <1>1, <1>2, KasPassed
<1>5. MembersKept(db, inFlight', doubt', panel')
  BY <1>1, <1>2, MembersPassed
<1>6. CardKept(db, inFlight', doubt', panel')
  BY <1>1, <1>2, CardPassed
<1> QED
  BY <1>3, <1>4, <1>5, <1>6, OfficerStep

----------------------------------------------------------------------------
(* The panel *)

\* What is left as it was when no answer is taken over.
LEMMA PanelQuiet ==
  ASSUME IInv, View = "Pengurus", UNCHANGED <<session, db, app, cast>>,
         NEW gone, NEW news, After(db, inFlight, doubt, inFlight', doubt', gone, news),
         \A n \in news : /\ n.kind \in PanelKinds \ {"getMemberDetail"}
                         /\ \/ panel.credential = None /\ panel.detailId = None
                            \/ n.kind \notin KycWrites \cup {"loadAll"},
         doubt \subseteq doubt',
         \A i \in DOMAIN inFlight \cap gone :
             /\ inFlight[i].kind # "createSaving"
             /\ inFlight[i].kind \in KycWrites \cup LoanWrites => ~Served(inFlight[i]),
         PanelOk(db, "Pengurus", panel'),
         /\ panel'.members = panel.members /\ panel'.loans = panel.loans /\ panel'.kas = panel.kas
            /\ panel'.credential = panel.credential /\ panel'.detailId = panel.detailId,
         panel'.detail = panel.detail \/ panel'.detail = None
  PROVE  IInv'
<1>1. CardKept(db, inFlight, doubt, panel) /\ CallsOk(db, inFlight) /\ DbOk(db)
  BY DEF IInv, Kept, TypesOk
<1>2. ASSUME NEW i \in DOMAIN inFlight', inFlight'[i].kind = "getMemberDetail"
      PROVE  panel'.detailId = inFlight'[i].about
  <2>1. i \in DOMAIN inFlight \ gone
    <3>1. SUFFICES ASSUME NEW n \in news, Alike(n, inFlight'[i]) PROVE FALSE
      BY DEF After
    <3> QED
      BY <1>2, <3>1 DEF Alike
  <2>2. Alike(inFlight[i], inFlight'[i])
    BY <2>1 DEF After, Passed
  <2> QED
    BY <1>1, <1>2, <2>1, <2>2 DEF CardKept, Alike
<1>3. ASSUME NEW i \in DOMAIN inFlight', NEW m \in MembersIn(db),
             OnCard(panel', m) \/ panel'.detailId = m,
             OnCard(panel, m) \/ panel.detailId = m => ~(i \in DOMAIN inFlight \ gone)
      PROVE  inFlight'[i].kind \notin KycWrites \cup {"loadAll"}
  <2>1. OnCard(panel, m) \/ panel.detailId = m
    BY <1>3 DEF OnCard
  <2>2. m # None
    BY <1>1 DEF DbOk, MembersIn
  <2>3. panel.credential # None \/ panel.detailId # None
    BY <2>1, <2>2 DEF OnCard
  <2>4. PICK n \in news : Alike(n, inFlight'[i])
    BY <1>3, <2>1 DEF After
  <2> QED
    BY <2>3, <2>4 DEF Alike
<1>4. \A n \in news : n.kind \in PanelKinds
  OBVIOUS
<1>5. panel'.credential # None /\ Item("member", panel'.credential.id) \notin doubt' =>
          panel'.credential.pw = db.pw[panel'.credential.id]
  BY <1>1 DEF CardKept
<1>6. panel'.detail # None /\ Item("member", panel'.detailId) \notin doubt' =>
          panel'.detail = db.kyc[panel'.detailId]
  BY <1>1 DEF CardKept
<1>7. \A l \in DOMAIN panel'.loans :
          /\ l \in DOMAIN panel.loans /\ panel'.loans[l] = panel.loans[l]
          /\ Item("loan", l) \in doubt => Item("loan", l) \in doubt'
          /\ \A i \in DOMAIN inFlight \cap gone :
                 inFlight[i].kind \in LoanWrites /\ Served(inFlight[i])
                 /\ inFlight[i].about = l => Item("loan", l) \in doubt'
  OBVIOUS
<1>8. /\ panel'.kas = panel.kas
      /\ Kas \in doubt => Kas \in doubt'
      /\ \A i \in DOMAIN inFlight \cap gone :
             inFlight[i].kind = "bailout" /\ Served(inFlight[i]) => Kas \in doubt'
  BY DEF LoanWrites
<1>9. \A m \in DOMAIN panel'.members :
          /\ m \in DOMAIN panel.members /\ panel'.members[m] = panel.members[m]
          /\ Item("member", m) \in doubt => Item("member", m) \in doubt'
          /\ \A i \in DOMAIN inFlight \cap gone :
                 inFlight[i].kind \in {"approveKyc", "rejectKyc"} /\ Served(inFlight[i])
                 /\ inFlight[i].about = m => Item("member", m) \in doubt'
  BY DEF KycWrites
<1> QED
  BY <1>2, <1>3, <1>4, <1>5, <1>6, <1>7, <1>8, <1>9, PanelStep

LEMMA OnDeskIs ==
  ASSUME OnDesk
  PROVE  View = "Pengurus" /\ panel.credential = None /\ panel.detailId = None
BY SurfaceIs DEF OnDesk

\* A button sends a call and is disabled, or the panel is loading.
LEMMA PanelSends ==
  ASSUME IInv, OnDesk, NEW kind \in PanelKinds \ {"getMemberDetail"}, NEW about,
         Send(kind, about), UNCHANGED <<session, db, app, cast>>,
         kind \in KycWrites => about \in MembersIn(db),
         kind \in LoanWrites => about \in DOMAIN db.loans,
         PanelOk(db, "Pengurus", panel'),
         /\ panel'.members = panel.members /\ panel'.loans = panel.loans /\ panel'.kas = panel.kas
            /\ panel'.credential = panel.credential /\ panel'.detailId = panel.detailId,
         panel'.detail = panel.detail
  PROVE  IInv'
<1> DEFINE n == Call(kind, about, token)
<1>1. View = "Pengurus" /\ panel.credential = None /\ panel.detailId = None
  BY OnDeskIs
<1>2. CallOk(db, n)
  <2>1. token \in DOMAIN db.role \cup {None}
    BY CastIs DEF IInv
  <2> QED
    BY <2>1, CallOkIs DEF Kinds, PanelKinds, KycWrites, LoanWrites
<1>3. /\ After(db, inFlight, doubt, inFlight', doubt', {}, {n})
      /\ doubt \subseteq doubt'
  BY <1>2, AfterSend
<1>4. n.kind = kind
  BY CallIs
<1> HIDE DEF n
<1> QED
  BY <1>1, <1>3, <1>4, PanelQuiet

LEMMA PanelIs ==
  ASSUME IInv
  PROVE  /\ panel = [members |-> panel.members, loans |-> panel.loans, kas |-> panel.kas,
                     onchain |-> panel.onchain, loading |-> panel.loading,
                     busyId |-> panel.busyId, credential |-> panel.credential,
                     detailId |-> panel.detailId, detail |-> panel.detail]
         /\ DOMAIN panel.members \subseteq MembersIn(db)
         /\ DOMAIN panel.loans \subseteq DOMAIN db.loans
         /\ panel.credential # None => panel.credential.id \in MembersIn(db)
         /\ panel.detailId # None => panel.detailId \in MembersIn(db)
         /\ panel.detailId = None => panel.detail = None
         /\ CardKept(db, inFlight, doubt, panel) /\ CallsOk(db, inFlight) /\ DbOk(db)
BY DEF IInv, TypesOk, PanelOk, Kept

LEMMA RefreshStep ==
  ASSUME IInv, Refresh
  PROVE  IInv'
<1>1. panel' = [panel EXCEPT !.loading = TRUE] /\ OnDesk /\ Send("loadAll", None)
      /\ UNCHANGED <<session, db, app, cast>>
  BY DEF Refresh
<1>2. /\ panel'.members = panel.members /\ panel'.loans = panel.loans /\ panel'.kas = panel.kas
      /\ panel'.credential = panel.credential /\ panel'.detailId = panel.detailId
      /\ panel'.detail = panel.detail
  BY <1>1, PanelIs
<1>3. PanelOk(db, "Pengurus", panel')
  BY <1>1, PanelIs DEF PanelOk
<1>4. "loadAll" \in PanelKinds \ {"getMemberDetail"} /\ "loadAll" \notin KycWrites \cup LoanWrites
  BY DEF PanelKinds, KycWrites, LoanWrites
<1> QED
  BY <1>1, <1>2, <1>3, <1>4, PanelSends

LEMMA WorkStep ==
  ASSUME IInv, NEW kind \in KycWrites \cup LoanWrites \cup {"bootstrapOnchain"}, NEW id,
         kind \in KycWrites => id \in MembersIn(db),
         kind \in LoanWrites => id \in DOMAIN db.loans,
         Work(kind, id)
  PROVE  IInv'
<1>1. panel' = [panel EXCEPT !.busyId = id] /\ OnDesk /\ Send(kind, id)
      /\ UNCHANGED <<session, db, app, cast>>
  BY DEF Work, Enabled
<1>2. /\ panel'.members = panel.members /\ panel'.loans = panel.loans /\ panel'.kas = panel.kas
      /\ panel'.credential = panel.credential /\ panel'.detailId = panel.detailId
      /\ panel'.detail = panel.detail
  BY <1>1, PanelIs
<1>3. PanelOk(db, "Pengurus", panel')
  BY <1>1, PanelIs DEF PanelOk
<1>4. kind \in PanelKinds \ {"getMemberDetail"}
  BY DEF PanelKinds, KycWrites, LoanWrites
<1> QED
  BY <1>1, <1>2, <1>3, <1>4, PanelSends

LEMMA OpenDrawerStep ==
  ASSUME IInv, NEW m, OpenDrawer(m)
  PROVE  IInv'
<1> DEFINE n == Call("getMemberDetail", m, token)
<1>1. panel' = [panel EXCEPT !.detailId = m] /\ OnDesk /\ Send("getMemberDetail", m)
      /\ UNCHANGED <<session, db, app, cast>> /\ m \in MembersIn(db)
  BY DEF OpenDrawer, Members, Users, MembersIn
<1>2. /\ panel'.members = panel.members /\ panel'.loans = panel.loans /\ panel'.kas = panel.kas
      /\ panel'.credential = panel.credential /\ panel'.detailId = m
      /\ panel'.detail = panel.detail
  BY <1>1, PanelIs
<1>3. View = "Pengurus" /\ panel.credential = None /\ panel.detailId = None /\ panel.detail = None
  BY <1>1, OnDeskIs, PanelIs
<1>4. m # None
  BY <1>1, PanelIs DEF DbOk, MembersIn
<1>5. PanelOk(db, "Pengurus", panel')
  BY <1>1, <1>3, <1>4, PanelIs DEF PanelOk
<1>6. CallOk(db, n)
  <2>1. token \in DOMAIN db.role \cup {None}
    BY CastIs DEF IInv
  <2> QED
    BY <1>1, <2>1, CallOkIs DEF Kinds, PanelKinds, KycWrites, LoanWrites
<1>7. /\ After(db, inFlight, doubt, inFlight', doubt', {}, {n})
      /\ doubt \subseteq doubt'
  BY <1>1, <1>6, AfterSend
<1>8. n.kind = "getMemberDetail" /\ n.about = m /\ Item("member", m) \in Touched(db, n)
  <2>1. n.kind = "getMemberDetail" /\ n.about = m
    BY CallIs
  <2> QED
    BY <2>1, <1>6, TouchedIs DEF CallOk
<1> HIDE DEF n
<1>9. ASSUME NEW i \in DOMAIN inFlight', i \in DOMAIN inFlight
      PROVE  inFlight'[i].kind # "getMemberDetail"
  <2>1. Alike(inFlight[i], inFlight'[i])
    BY <1>7, <1>9 DEF After, Passed
  <2>2. inFlight[i].kind = "getMemberDetail" => inFlight[i].about = None
    BY <1>3, <1>9, PanelIs DEF CardKept
  <2>3. inFlight[i].kind = "getMemberDetail" => inFlight[i].about \in MembersIn(db)
    BY <1>9, PanelIs DEF CallsOk, CallOk, AboutOk
  <2> QED
    BY <2>1, <2>2, <2>3, PanelIs DEF Alike, DbOk, MembersIn
<1>10. ASSUME NEW i \in DOMAIN inFlight', i \notin DOMAIN inFlight
       PROVE  inFlight'[i].kind = "getMemberDetail" /\ inFlight'[i].about = m
  BY <1>7, <1>8, <1>10 DEF After, Alike
<1>11. ASSUME NEW i \in DOMAIN inFlight', NEW x \in MembersIn(db),
              OnCard(panel', x) \/ panel'.detailId = x
       PROVE  /\ inFlight'[i].kind \in KycWrites /\ inFlight'[i].live = "mounted"
                 /\ inFlight'[i].about = x => Item("member", x) \in doubt'
              /\ inFlight'[i].kind = "loadAll" => Item("member", x) \notin inFlight'[i].clean
  <2>1. x = m
    BY <1>2, <1>3, <1>11 DEF OnCard
  <2>2. CASE i \notin DOMAIN inFlight
    BY <1>10, <2>2 DEF KycWrites
  <2>3. CASE i \in DOMAIN inFlight
    <3>1. /\ Alike(inFlight[i], inFlight'[i]) /\ inFlight'[i].clean \cap Touched(db, n) = {}
          /\ Touched(db, n) \cap Touched(db, inFlight[i]) \subseteq doubt'
      BY <1>7, <2>3 DEF After, Passed
    <3>2. inFlight[i].kind \in Kinds
      BY <2>3, PanelIs DEF CallsOk, CallOk
    <3>3. inFlight[i].kind \in KycWrites /\ inFlight[i].about = m =>
              Item("member", m) \in Touched(db, inFlight[i])
      BY <3>2, TouchedIs
    <3> QED
      BY <1>8, <2>1, <3>1, <3>3 DEF Alike
  <2> QED
    BY <2>2, <2>3
<1>12. \A n2 \in {n} : n2.kind \in PanelKinds
  BY <1>8 DEF PanelKinds
<1>13. \A i \in DOMAIN inFlight' :
           inFlight'[i].kind = "getMemberDetail" => panel'.detailId = inFlight'[i].about
  BY <1>2, <1>9, <1>10
<1> QED
  BY <1>1, <1>2, <1>3, <1>7, <1>5, <1>11, <1>12, <1>13, PanelStep

LEMMA CloseDrawerStep ==
  ASSUME IInv, CloseDrawer
  PROVE  IInv'
<1> DEFINE gone == {i \in DOMAIN inFlight : inFlight[i].kind = "getMemberDetail"}
<1>1. /\ panel' = [panel EXCEPT !.detailId = None, !.detail = None]
      /\ inFlight' = [i \in DOMAIN inFlight \ gone |-> inFlight[i]]
      /\ UNCHANGED <<session, db, app, doubt, cast>> /\ View = "Pengurus"
  <2>1. DOMAIN inFlight \ gone = {i \in DOMAIN inFlight : inFlight[i].kind # "getMemberDetail"}
    OBVIOUS
  <2> QED
    BY <2>1, SurfaceIs DEF CloseDrawer, Restrict
<1>2. /\ panel'.members = panel.members /\ panel'.loans = panel.loans /\ panel'.kas = panel.kas
      /\ panel'.credential = panel.credential /\ panel'.detailId = None
      /\ panel'.detail = None
  BY <1>1, PanelIs
<1>3. PanelOk(db, "Pengurus", panel')
  BY <1>1, PanelIs DEF PanelOk
<1>4. After(db, inFlight, doubt, inFlight', doubt', gone, {})
  <2>1. Passed(db, inFlight, doubt, inFlight', doubt', gone)
    BY <1>1 DEF Passed, Alike
  <2>2. CallsOk(db, inFlight') /\ Apart(db, inFlight') /\ Doubted(db, inFlight', doubt')
    BY <1>1 DEF IInv, TypesOk, Overlaps, CallsOk, Apart, Doubted
  <2> QED
    BY <1>1, <2>1, <2>2 DEF After
<1>5. \A i \in DOMAIN inFlight' : i \in DOMAIN inFlight \ gone
                                  /\ inFlight'[i].kind # "getMemberDetail"
  BY <1>1
<1>6. \A i \in gone : inFlight[i].kind \notin KycWrites \cup LoanWrites \cup {"createSaving"}
  BY DEF KycWrites, LoanWrites
<1>7. doubt' = doubt
  BY <1>1
<1> HIDE DEF gone
<1>8. ASSUME NEW m \in MembersIn(db), OnCard(panel', m) \/ panel'.detailId = m
      PROVE  OnCard(panel, m)
  BY <1>2, <1>8, PanelIs DEF OnCard, DbOk, MembersIn
<1>9. panel'.credential # None /\ Item("member", panel'.credential.id) \notin doubt' =>
          panel'.credential.pw = db.pw[panel'.credential.id]
  BY <1>2, <1>7, PanelIs DEF CardKept
<1>10. \A i \in gone : /\ inFlight[i].kind \notin LoanWrites /\ inFlight[i].kind # "bailout"
                       /\ inFlight[i].kind \notin {"approveKyc", "rejectKyc"}
                       /\ inFlight[i].kind # "createSaving"
  BY <1>6 DEF KycWrites, LoanWrites
<1>11. \A i \in DOMAIN inFlight' : \A m \in MembersIn(db) :
           ~((OnCard(panel', m) \/ panel'.detailId = m)
             /\ (OnCard(panel, m) \/ panel.detailId = m => ~(i \in DOMAIN inFlight \ gone)))
  BY <1>5, <1>8
<1>12. \A i \in DOMAIN inFlight' :
           inFlight'[i].kind = "getMemberDetail" => panel'.detailId = inFlight'[i].about
  BY <1>5
<1>13. panel'.detail # None /\ Item("member", panel'.detailId) \notin doubt' =>
           panel'.detail = db.kyc[panel'.detailId]
  BY <1>2
<1>14. \A i \in DOMAIN inFlight \cap gone : inFlight[i].kind # "createSaving"
  BY <1>10
<1>15. \A l \in DOMAIN panel'.loans :
           /\ l \in DOMAIN panel.loans /\ panel'.loans[l] = panel.loans[l]
           /\ Item("loan", l) \in doubt => Item("loan", l) \in doubt'
           /\ \A i \in DOMAIN inFlight \cap gone :
                  inFlight[i].kind \in LoanWrites /\ Served(inFlight[i])
                  /\ inFlight[i].about = l => Item("loan", l) \in doubt'
  BY <1>2, <1>7, <1>10
<1>16. \A m \in DOMAIN panel'.members :
           /\ m \in DOMAIN panel.members /\ panel'.members[m] = panel.members[m]
           /\ Item("member", m) \in doubt => Item("member", m) \in doubt'
           /\ \A i \in DOMAIN inFlight \cap gone :
                  inFlight[i].kind \in {"approveKyc", "rejectKyc"} /\ Served(inFlight[i])
                  /\ inFlight[i].about = m => Item("member", m) \in doubt'
  BY <1>2, <1>7, <1>10
<1>17. /\ panel'.kas = panel.kas
       /\ Kas \in doubt => Kas \in doubt'
       /\ \A i \in DOMAIN inFlight \cap gone :
              inFlight[i].kind = "bailout" /\ Served(inFlight[i]) => Kas \in doubt'
  BY <1>2, <1>7, <1>10
<1> QED
  BY <1>1, <1>3, <1>4, <1>7, <1>9, <1>11, <1>12, <1>13, <1>14, <1>15, <1>16, <1>17, PanelStep

LEMMA CloseCredentialStep ==
  ASSUME IInv, CloseCredential
  PROVE  IInv'
<1>1. /\ panel' = [panel EXCEPT !.credential = None] /\ inFlight' = inFlight /\ doubt' = doubt
      /\ UNCHANGED <<session, db, app, cast>> /\ View = "Pengurus"
  BY SurfaceIs DEF CloseCredential
<1>2. /\ panel'.members = panel.members /\ panel'.loans = panel.loans /\ panel'.kas = panel.kas
      /\ panel'.credential = None /\ panel'.detailId = panel.detailId
      /\ panel'.detail = panel.detail
  BY <1>1, PanelIs
<1>3. PanelOk(db, "Pengurus", panel')
  BY <1>1, PanelIs DEF PanelOk
<1>4. After(db, inFlight, doubt, inFlight', doubt', {}, {})
  BY <1>1, AfterIdle
<1>5. ASSUME NEW m \in MembersIn(db), OnCard(panel', m) \/ panel'.detailId = m
      PROVE  panel.detailId = m
  BY <1>2, <1>5 DEF OnCard
<1>6. panel'.detail # None /\ Item("member", panel'.detailId) \notin doubt' =>
          panel'.detail = db.kyc[panel'.detailId]
  BY <1>1, <1>2, PanelIs DEF CardKept
<1>7. \A i \in DOMAIN inFlight' :
          inFlight'[i].kind = "getMemberDetail" => panel'.detailId = inFlight'[i].about
  BY <1>1, <1>2, PanelIs DEF CardKept
<1> QED
  BY <1>1, <1>2, <1>3, <1>4, <1>5, <1>6, <1>7, PanelStep

----------------------------------------------------------------------------
(* The answers to the panel *)

LEMMA NoNews ==
  ASSUME NEW d, NEW c, NEW u, NEW cN, NEW uN, NEW gone, After(d, c, u, cN, uN, gone, {}),
         NEW j \in DOMAIN cN
  PROVE  j \in DOMAIN c \ gone /\ Alike(c[j], cN[j]) /\ cN[j].live = c[j].live
BY DEF After, Passed

LEMMA CallIn ==
  ASSUME IInv, NEW i \in DOMAIN inFlight
  PROVE  CallOk(db, inFlight[i]) /\ inFlight[i].kind \in Kinds
BY DEF IInv, TypesOk, CallsOk, CallOk

\* An answer that only ends its call.
LEMMA AnswerQuiet ==
  ASSUME IInv, NEW i \in DOMAIN inFlight, inFlight[i].kind \in PanelKinds,
         inFlight[i].phase \in {"done", "failed"},
         Over(i), UNCHANGED <<session, db, app, cast>>,
         inFlight[i].kind \in KycWrites \cup LoanWrites => ~Served(inFlight[i]),
         PanelOk(db, "Pengurus", panel'),
         /\ panel'.members = panel.members /\ panel'.loans = panel.loans /\ panel'.kas = panel.kas
            /\ panel'.credential = panel.credential /\ panel'.detailId = panel.detailId,
         panel'.detail = panel.detail \/ panel'.detail = None
  PROVE  IInv'
<1>1. View = "Pengurus"
  BY AnswersPanel
<1>2. After(db, inFlight, doubt, inFlight', doubt', {i}, {}) /\ doubt' = doubt
  <2>1. Launch(Without(i), <<>>, doubt)
    BY DEF Over
  <2> QED
    BY <2>1, AfterOver
<1>3. inFlight[i].kind # "createSaving"
  BY DEF PanelKinds, KycWrites, LoanWrites
<1> QED
  BY <1>1, <1>2, <1>3, PanelQuiet

\* An answer that is taken over while what is in doubt stays so.
LEMMA AnswerTaken ==
  ASSUME IInv, NEW i \in DOMAIN inFlight, inFlight[i].kind \in PanelKinds,
         inFlight[i].phase \in {"done", "failed"},
         Over(i), UNCHANGED <<session, db, app, cast>>,
         PanelOk(db, "Pengurus", panel'),
         \A l \in DOMAIN panel'.loans :
             \/ /\ l \in DOMAIN panel.loans /\ panel'.loans[l] = panel.loans[l]
                /\ inFlight[i].kind \in LoanWrites => inFlight[i].about # l
             \/ Item("loan", l) \notin doubt => panel'.loans[l] = db.loans[l],
         \/ panel'.kas = panel.kas /\ inFlight[i].kind # "bailout"
         \/ panel'.kas # None /\ Kas \notin doubt => panel'.kas = db.kas,
         \A m \in DOMAIN panel'.members :
             \/ /\ m \in DOMAIN panel.members /\ panel'.members[m] = panel.members[m]
                /\ inFlight[i].kind \in {"approveKyc", "rejectKyc"} => inFlight[i].about # m
             \/ Item("member", m) \notin doubt => panel'.members[m] = db.kyc[m],
         \/ panel'.credential = panel.credential
         \/ /\ inFlight[i].kind \in KycWrites
            /\ panel'.credential.id = inFlight[i].about
            /\ Item("member", inFlight[i].about) \notin doubt =>
                   panel'.credential.pw = db.pw[inFlight[i].about],
         panel'.detailId = panel.detailId,
         panel'.detail # None /\ Item("member", panel'.detailId) \notin doubt =>
             panel'.detail = db.kyc[panel'.detailId]
  PROVE  IInv'
<1>1. View = "Pengurus"
  BY AnswersPanel
<1>2. After(db, inFlight, doubt, inFlight', doubt', {i}, {}) /\ doubt' = doubt
  <2>1. Launch(Without(i), <<>>, doubt)
    BY DEF Over
  <2> QED
    BY <2>1, AfterOver
<1>3. inFlight[i].kind # "createSaving"
  BY DEF PanelKinds, KycWrites, LoanWrites
<1>4. CallOk(db, inFlight[i]) /\ inFlight[i].kind \in Kinds
  BY CallIn
<1>5. ASSUME NEW j \in DOMAIN inFlight', NEW m \in MembersIn(db),
             OnCard(panel', m) \/ panel'.detailId = m,
             OnCard(panel, m) \/ panel.detailId = m => ~(j \in DOMAIN inFlight \ {i})
      PROVE  /\ inFlight'[j].kind \in KycWrites /\ inFlight'[j].live = "mounted"
                /\ inFlight'[j].about = m => Item("member", m) \in doubt'
             /\ inFlight'[j].kind = "loadAll" => Item("member", m) \notin inFlight'[j].clean
  <2>1. j \in DOMAIN inFlight \ {i} /\ Alike(inFlight[j], inFlight'[j])
        /\ inFlight'[j].live = inFlight[j].live
    BY <1>2, NoNews
  <2>2. inFlight[i].kind \in KycWrites /\ inFlight[i].about = m
    BY <1>5, <2>1 DEF OnCard
  <2>3. Item("member", m) \in Touched(db, inFlight[i]) /\ inFlight[i].kind \in Writes
    BY <1>4, <2>2, TouchedIs DEF KycWrites, Writes
  <2>4. Item("member", m) \notin inFlight[j].clean
    BY <2>1, <2>3 DEF IInv, Overlaps, Apart
  <2>5. ASSUME inFlight[j].kind \in KycWrites, inFlight[j].about = m, inFlight[j].live = "mounted"
        PROVE  Item("member", m) \in doubt
    <3>1. Item("member", m) \in Touched(db, inFlight[j])
      BY <2>1, <2>5, CallIn, TouchedIs
    <3> QED
      BY <2>1, <2>3, <2>5, <3>1 DEF IInv, Overlaps, Doubted
  <2> QED
    BY <1>2, <2>1, <2>4, <2>5 DEF Alike
<1>6. \A j \in DOMAIN inFlight' :
          inFlight'[j].kind = "getMemberDetail" => panel'.detailId = inFlight'[j].about
  BY <1>2, NoNews, PanelIs DEF Alike, CardKept
<1>7. panel'.credential # None /\ Item("member", panel'.credential.id) \notin doubt' =>
          panel'.credential.pw = db.pw[panel'.credential.id]
  BY <1>2, PanelIs DEF CardKept
<1>8. \A l \in DOMAIN panel'.loans :
             \/ /\ l \in DOMAIN panel.loans /\ panel'.loans[l] = panel.loans[l]
                /\ Item("loan", l) \in doubt => Item("loan", l) \in doubt'
                /\ \A j \in DOMAIN inFlight \cap {i} :
                       inFlight[j].kind \in LoanWrites /\ Served(inFlight[j])
                       /\ inFlight[j].about = l => Item("loan", l) \in doubt'
             \/ Item("loan", l) \notin doubt' => panel'.loans[l] = db.loans[l]
  BY <1>2
<1>9. \/ /\ panel'.kas = panel.kas
         /\ Kas \in doubt => Kas \in doubt'
         /\ \A j \in DOMAIN inFlight \cap {i} :
                inFlight[j].kind = "bailout" /\ Served(inFlight[j]) => Kas \in doubt'
      \/ panel'.kas # None /\ Kas \notin doubt' => panel'.kas = db.kas
  BY <1>2
<1>10. \A m \in DOMAIN panel'.members :
             \/ /\ m \in DOMAIN panel.members /\ panel'.members[m] = panel.members[m]
                /\ Item("member", m) \in doubt => Item("member", m) \in doubt'
                /\ \A j \in DOMAIN inFlight \cap {i} :
                       inFlight[j].kind \in {"approveKyc", "rejectKyc"} /\ Served(inFlight[j])
                       /\ inFlight[j].about = m => Item("member", m) \in doubt'
             \/ Item("member", m) \notin doubt' => panel'.members[m] = db.kyc[m]
  BY <1>2 DEF KycWrites
<1>11. panel'.detail # None /\ Item("member", panel'.detailId) \notin doubt' =>
           panel'.detail = db.kyc[panel'.detailId]
  BY <1>2
<1>12. \A j \in DOMAIN inFlight \cap {i} : inFlight[j].kind # "createSaving"
  BY <1>3
<1>13. Balance \in doubt => Balance \in doubt'
  BY <1>2
<1> QED
  BY <1>1, <1>2, <1>5, <1>6, <1>7, <1>8, <1>9, <1>10, <1>11, <1>12, <1>13, PanelStep

LEMMA ArrivedIs ==
  ASSUME NEW i, NEW kind, Arrived(i, kind)
  PROVE  /\ inFlight[i].kind = kind /\ inFlight[i].phase \in {"done", "failed"}
         /\ Ok(i) <=> Served(inFlight[i])
         /\ Got(i) = inFlight[i].got /\ About(i) = inFlight[i].about
BY DEF Arrived, Ok, Got, About, Served

LEMMA WithMemberIs ==
  ASSUME IInv, NEW m \in MembersIn(db), NEW kyc
  PROVE  LET p == WithMember(panel, m, kyc) IN
         /\ p = [panel EXCEPT !.members = p.members]
         /\ DOMAIN p.members = DOMAIN panel.members
         /\ \A x \in DOMAIN p.members : p.members[x] = IF x = m THEN kyc ELSE panel.members[x]
<1>1. CASE m \in DOMAIN panel.members
  <2>1. WithMember(panel, m, kyc) = [panel EXCEPT !.members = [panel.members EXCEPT ![m] = kyc]]
    BY <1>1 DEF WithMember
  <2> DEFINE f == [panel.members EXCEPT ![m] = kyc]
  <2>2. DOMAIN f = DOMAIN panel.members
        /\ \A x \in DOMAIN f : f[x] = IF x = m THEN kyc ELSE panel.members[x]
    <3> DEFINE g == panel.members
    <3> HIDE DEF g
    <3>1. DOMAIN [g EXCEPT ![m] = kyc] = DOMAIN g
          /\ \A x \in DOMAIN g : [g EXCEPT ![m] = kyc][x] = IF x = m THEN kyc ELSE g[x]
      OBVIOUS
    <3> QED
      BY <3>1 DEF g
  <2> HIDE DEF f
  <2>3. WithMember(panel, m, kyc) = [panel EXCEPT !.members = f]
    BY <2>1 DEF f
  <2>4. [panel EXCEPT !.members = f].members = f
    BY PanelIs
  <2> QED
    BY <2>2, <2>3, <2>4
<1>2. CASE m \notin DOMAIN panel.members
  <2>1. WithMember(panel, m, kyc) = panel
    BY <1>2 DEF WithMember
  <2>2. panel = [panel EXCEPT !.members = panel.members]
    BY PanelIs
  <2> QED
    BY <1>2, <2>1, <2>2
<1> QED
  BY <1>1, <1>2

LEMMA WithLoanIs ==
  ASSUME IInv, NEW l, NEW loan
  PROVE  LET p == WithLoan(panel, l, loan) IN
         /\ p = [panel EXCEPT !.loans = p.loans]
         /\ DOMAIN p.loans = DOMAIN panel.loans
         /\ \A x \in DOMAIN p.loans : p.loans[x] = IF x = l THEN loan ELSE panel.loans[x]
<1>1. CASE l \in DOMAIN panel.loans
  <2>1. WithLoan(panel, l, loan) = [panel EXCEPT !.loans = [panel.loans EXCEPT ![l] = loan]]
    BY <1>1 DEF WithLoan
  <2> DEFINE f == [panel.loans EXCEPT ![l] = loan]
  <2>2. DOMAIN f = DOMAIN panel.loans
        /\ \A x \in DOMAIN f : f[x] = IF x = l THEN loan ELSE panel.loans[x]
    <3> DEFINE g == panel.loans
    <3> HIDE DEF g
    <3>1. DOMAIN [g EXCEPT ![l] = loan] = DOMAIN g
          /\ \A x \in DOMAIN g : [g EXCEPT ![l] = loan][x] = IF x = l THEN loan ELSE g[x]
      OBVIOUS
    <3> QED
      BY <3>1 DEF g
  <2> HIDE DEF f
  <2>3. WithLoan(panel, l, loan) = [panel EXCEPT !.loans = f]
    BY <2>1 DEF f
  <2>4. [panel EXCEPT !.loans = f].loans = f
    BY PanelIs
  <2> QED
    BY <2>2, <2>3, <2>4
<1>2. CASE l \notin DOMAIN panel.loans
  <2>1. WithLoan(panel, l, loan) = panel
    BY <1>2 DEF WithLoan
  <2>2. panel = [panel EXCEPT !.loans = panel.loans]
    BY PanelIs
  <2> QED
    BY <1>2, <2>1, <2>2
<1> QED
  BY <1>1, <1>2

\* A failed answer only enables the button again.
LEMMA AnswerFailed ==
  ASSUME IInv, NEW i \in DOMAIN inFlight, inFlight[i].kind \in PanelKinds,
         inFlight[i].phase \in {"done", "failed"}, ~Ok(i), NEW p, Answered(i, p)
  PROVE  IInv'
<1>1. panel' = [panel EXCEPT !.busyId = None] /\ Over(i) /\ UNCHANGED <<session, db, app, cast>>
  BY DEF Answered, Done
<1>2. /\ panel'.members = panel.members /\ panel'.loans = panel.loans /\ panel'.kas = panel.kas
      /\ panel'.credential = panel.credential /\ panel'.detailId = panel.detailId
      /\ panel'.detail = panel.detail
  BY <1>1, PanelIs
<1>3. PanelOk(db, "Pengurus", panel')
  BY <1>1, PanelIs DEF PanelOk
<1>4. ~Served(inFlight[i])
  BY DEF Ok, Served
<1> QED
  BY <1>1, <1>2, <1>3, <1>4, AnswerQuiet

LEMMA KycKinds ==
  /\ "approveKyc" \in KycWrites /\ "rejectKyc" \in KycWrites /\ "resetPassword" \in KycWrites
  /\ "approveLoan" \in LoanWrites /\ "rejectLoan" \in LoanWrites /\ "bailout" \in LoanWrites
  /\ KycWrites \cup LoanWrites \subseteq PanelKinds
  /\ "loadAll" \in PanelKinds /\ "getMemberDetail" \in PanelKinds
  /\ "bootstrapOnchain" \in PanelKinds /\ "onchainStatus" \in PanelKinds
  /\ KycWrites \cap (LoanWrites \cup {"loadAll", "getMemberDetail", "bootstrapOnchain",
                                     "onchainStatus"}) = {}
  /\ LoanWrites \cap {"loadAll", "getMemberDetail", "bootstrapOnchain", "onchainStatus"} = {}
BY DEF KycWrites, LoanWrites, PanelKinds

LEMMA KycApprovedStep ==
  ASSUME IInv, NEW i \in DOMAIN inFlight, KycApproved(i)
  PROVE  IInv'
<1> DEFINE m == inFlight[i].about
           got == inFlight[i].got
           q == WithMember(panel, m, got.kyc)
           p == IF got.tempPassword = None THEN q
                ELSE [q EXCEPT !.credential = [id |-> m, pw |-> got.tempPassword]]
<1>1. /\ inFlight[i].kind = "approveKyc" /\ inFlight[i].phase \in {"done", "failed"}
      /\ Answered(i, p)
  BY DEF KycApproved, Arrived, About, Got
<1>2. CallOk(db, inFlight[i]) /\ m \in MembersIn(db)
  BY <1>1, CallIn, KycKinds DEF CallOk, AboutOk
<1>3. CASE ~Ok(i)
  BY <1>1, <1>3, AnswerFailed, KycKinds
<1>4. CASE Ok(i)
  <2>1. panel' = [p EXCEPT !.busyId = None] /\ Over(i) /\ UNCHANGED <<session, db, app, cast>>
    BY <1>1, <1>4 DEF Answered, Done
  <2>2. /\ q = [panel EXCEPT !.members = q.members]
        /\ DOMAIN q.members = DOMAIN panel.members
        /\ \A x \in DOMAIN q.members : q.members[x] = IF x = m THEN got.kyc ELSE panel.members[x]
    BY <1>2, WithMemberIs
  <2>3. Served(inFlight[i])
    BY <1>4 DEF Ok, Served
  <2>4. /\ Item("member", m) \notin doubt => got.kyc = db.kyc[m]
        /\ Item("member", m) \notin doubt /\ got.tempPassword # None => got.tempPassword = db.pw[m]
    BY <1>1, <2>3 DEF IInv, Kept, MembersKept, CardKept
  <2> DEFINE cred == IF got.tempPassword = None THEN panel.credential
                     ELSE [id |-> m, pw |-> got.tempPassword]
             mem == q.members
  <2> HIDE DEF q, m, got
  <2>5. p = [panel EXCEPT !.members = mem, !.credential = cred]
    <3>1. q = [panel EXCEPT !.members = mem] /\ q.credential = panel.credential
      BY <2>2, PanelIs
    <3>2. q = [panel EXCEPT !.members = mem, !.credential = panel.credential]
      BY <3>1, PanelIs
    <3> QED
      BY <3>1, <3>2, PanelIs
  <2> HIDE DEF p, mem
  <2>6. panel' = [panel EXCEPT !.members = mem, !.credential = cred, !.busyId = None]
    BY <2>1, <2>5, PanelIs
  <2>7. cred = panel.credential \/ (cred = [id |-> m, pw |-> got.tempPassword] /\ got.tempPassword # None)
    OBVIOUS
  <2> HIDE DEF cred
  <2>8. /\ panel'.members = mem /\ panel'.loans = panel.loans /\ panel'.kas = panel.kas
        /\ panel'.credential = cred /\ panel'.detailId = panel.detailId
        /\ panel'.detail = panel.detail
    BY <2>6, PanelIs
  <2>9. PanelOk(db, "Pengurus", panel')
    <3>1. cred # None => cred.id \in MembersIn(db)
      BY <1>2, <2>7, PanelIs
    <3> QED
      BY <2>2, <2>6, <3>1, PanelIs DEF PanelOk, mem
  <2> QED
    BY <1>1, <2>1, <2>2, <2>4, <2>7, <2>8, <2>9, PanelIs, AnswerTaken, KycKinds DEF m, mem, CardKept
<1> QED
  BY <1>3, <1>4

LEMMA KycRejectedStep ==
  ASSUME IInv, NEW i \in DOMAIN inFlight, KycRejected(i)
  PROVE  IInv'
<1> DEFINE m == inFlight[i].about
           got == inFlight[i].got
           q == WithMember(panel, m, got)
<1>1. /\ inFlight[i].kind = "rejectKyc" /\ inFlight[i].phase \in {"done", "failed"}
      /\ Answered(i, q)
  BY DEF KycRejected, Arrived, About, Got
<1>2. CallOk(db, inFlight[i]) /\ m \in MembersIn(db)
  BY <1>1, CallIn, KycKinds DEF CallOk, AboutOk
<1>3. CASE ~Ok(i)
  BY <1>1, <1>3, AnswerFailed, KycKinds
<1>4. CASE Ok(i)
  <2>1. panel' = [q EXCEPT !.busyId = None] /\ Over(i) /\ UNCHANGED <<session, db, app, cast>>
    BY <1>1, <1>4 DEF Answered, Done
  <2>2. /\ q = [panel EXCEPT !.members = q.members]
        /\ DOMAIN q.members = DOMAIN panel.members
        /\ \A x \in DOMAIN q.members : q.members[x] = IF x = m THEN got ELSE panel.members[x]
    BY <1>2, WithMemberIs
  <2>3. Served(inFlight[i])
    BY <1>4 DEF Ok, Served
  <2>4. Item("member", m) \notin doubt => got = db.kyc[m]
    BY <1>1, <2>3 DEF IInv, Kept, MembersKept
  <2> DEFINE mem == q.members
  <2> HIDE DEF q, m, got, mem
  <2>6. panel' = [panel EXCEPT !.members = mem, !.busyId = None]
    BY <2>1, <2>2, PanelIs DEF mem
  <2>8. /\ panel'.members = mem /\ panel'.loans = panel.loans /\ panel'.kas = panel.kas
        /\ panel'.credential = panel.credential /\ panel'.detailId = panel.detailId
        /\ panel'.detail = panel.detail
    BY <2>6, PanelIs
  <2>9. PanelOk(db, "Pengurus", panel')
    BY <2>2, <2>6, PanelIs DEF PanelOk, mem
  <2> QED
    BY <1>1, <2>1, <2>2, <2>4, <2>8, <2>9, PanelIs, AnswerTaken, KycKinds DEF m, mem, CardKept
<1> QED
  BY <1>3, <1>4

LEMMA PasswordResetStep ==
  ASSUME IInv, NEW i \in DOMAIN inFlight, PasswordReset(i)
  PROVE  IInv'
<1> DEFINE m == inFlight[i].about
           got == inFlight[i].got
           p == [panel EXCEPT !.credential = [id |-> m, pw |-> got]]
<1>1. /\ inFlight[i].kind = "resetPassword" /\ inFlight[i].phase \in {"done", "failed"}
      /\ Answered(i, p)
  BY DEF PasswordReset, Arrived, About, Got
<1>2. CallOk(db, inFlight[i]) /\ m \in MembersIn(db)
  BY <1>1, CallIn, KycKinds DEF CallOk, AboutOk
<1>3. CASE ~Ok(i)
  BY <1>1, <1>3, AnswerFailed, KycKinds
<1>4. CASE Ok(i)
  <2>1. panel' = [p EXCEPT !.busyId = None] /\ Over(i) /\ UNCHANGED <<session, db, app, cast>>
    BY <1>1, <1>4 DEF Answered, Done
  <2>3. Served(inFlight[i])
    BY <1>4 DEF Ok, Served
  <2>4. Item("member", m) \notin doubt => got = db.pw[m]
    BY <1>1, <2>3 DEF IInv, Kept, CardKept
  <2> DEFINE cred == [id |-> m, pw |-> got]
  <2>5. cred.id = m /\ cred.pw = got /\ cred = [id |-> cred.id, pw |-> cred.pw]
    OBVIOUS
  <2>6. panel' = [panel EXCEPT !.credential = cred, !.busyId = None]
    BY <2>1, PanelIs
  <2> HIDE DEF m, got, cred, p
  <2>7. cred # None \/ cred = None
    OBVIOUS
  <2>8. /\ panel'.members = panel.members /\ panel'.loans = panel.loans /\ panel'.kas = panel.kas
        /\ panel'.credential = cred /\ panel'.detailId = panel.detailId
        /\ panel'.detail = panel.detail
    BY <2>6, PanelIs
  <2>9. PanelOk(db, "Pengurus", panel')
    BY <1>2, <2>5, <2>6, PanelIs DEF PanelOk
  <2> QED
    BY <1>1, <2>1, <2>4, <2>5, <2>8, <2>9, PanelIs, AnswerTaken, KycKinds DEF m, CardKept
<1> QED
  BY <1>3, <1>4

LEMMA LoanDecidedStep ==
  ASSUME IInv, NEW i \in DOMAIN inFlight, LoanDecided(i)
  PROVE  IInv'
<1> DEFINE l == inFlight[i].about
           got == inFlight[i].got
           q == WithLoan(panel, l, got)
<1>1. /\ inFlight[i].kind \in {"approveLoan", "rejectLoan"} /\ inFlight[i].phase \in {"done", "failed"}
      /\ Answered(i, q)
  BY DEF LoanDecided, Arrived, About, Got
<1>3. CASE ~Ok(i)
  BY <1>1, <1>3, AnswerFailed, KycKinds
<1>4. CASE Ok(i)
  <2>1. panel' = [q EXCEPT !.busyId = None] /\ Over(i) /\ UNCHANGED <<session, db, app, cast>>
    BY <1>1, <1>4 DEF Answered, Done
  <2>2. /\ q = [panel EXCEPT !.loans = q.loans]
        /\ DOMAIN q.loans = DOMAIN panel.loans
        /\ \A x \in DOMAIN q.loans : q.loans[x] = IF x = l THEN got ELSE panel.loans[x]
    BY WithLoanIs
  <2>3. Served(inFlight[i])
    BY <1>4 DEF Ok, Served
  <2>4. Item("loan", l) \notin doubt => got = db.loans[l]
    BY <1>1, <2>3 DEF IInv, Kept, LoansKept
  <2> DEFINE lns == q.loans
  <2> HIDE DEF q, l, got, lns
  <2>6. panel' = [panel EXCEPT !.loans = lns, !.busyId = None]
    BY <2>1, <2>2, PanelIs DEF lns
  <2>8. /\ panel'.members = panel.members /\ panel'.loans = lns /\ panel'.kas = panel.kas
        /\ panel'.credential = panel.credential /\ panel'.detailId = panel.detailId
        /\ panel'.detail = panel.detail
    BY <2>6, PanelIs
  <2>9. PanelOk(db, "Pengurus", panel')
    BY <2>2, <2>6, PanelIs DEF PanelOk, lns
  <2> QED
    BY <1>1, <2>1, <2>2, <2>4, <2>8, <2>9, PanelIs, AnswerTaken, KycKinds DEF l, lns, CardKept
<1> QED
  BY <1>3, <1>4

LEMMA BailedOutStep ==
  ASSUME IInv, NEW i \in DOMAIN inFlight, BailedOut(i)
  PROVE  IInv'
<1> DEFINE l == inFlight[i].about
           got == inFlight[i].got
           q == WithLoan(panel, l, got.loan)
<1>1. /\ inFlight[i].kind = "bailout" /\ inFlight[i].phase \in {"done", "failed"}
      /\ Answered(i, LoanAndFund(panel, i))
  BY DEF BailedOut, Arrived
<1>3. CASE ~Ok(i)
  BY <1>1, <1>3, AnswerFailed, KycKinds
<1>4. CASE Ok(i)
  <2>1. /\ panel' = [LoanAndFund(panel, i) EXCEPT !.busyId = None] /\ Over(i)
        /\ UNCHANGED <<session, db, app, cast>>
    BY <1>1, <1>4 DEF Answered, Done
  <2>2. /\ q = [panel EXCEPT !.loans = q.loans]
        /\ DOMAIN q.loans = DOMAIN panel.loans
        /\ \A x \in DOMAIN q.loans : q.loans[x] = IF x = l THEN got.loan ELSE panel.loans[x]
    BY WithLoanIs
  <2>3. Served(inFlight[i])
    BY <1>4 DEF Ok, Served
  <2>4. /\ Item("loan", l) \notin doubt => got.loan = db.loans[l]
        /\ Kas \notin doubt => got.kas = db.kas
    BY <1>1, <2>3 DEF IInv, Kept, LoansKept, KasKept
  <2>5. LoanAndFund(panel, i) = [q EXCEPT !.kas = IF @ = None THEN None ELSE got.kas]
    BY DEF LoanAndFund, About, Got
  <2> DEFINE lns == q.loans
             fund == IF panel.kas = None THEN None ELSE got.kas
  <2> HIDE DEF q, l, got, lns
  <2>6. panel' = [panel EXCEPT !.loans = lns, !.kas = fund, !.busyId = None]
    <3>1. q.kas = panel.kas
      BY <2>2, PanelIs
    <3>2. LoanAndFund(panel, i) = [panel EXCEPT !.loans = lns, !.kas = fund]
      BY <2>2, <2>5, <3>1, PanelIs DEF lns
    <3> QED
      BY <2>1, <3>2, PanelIs
  <2>7. fund # None /\ Kas \notin doubt => fund = db.kas
    BY <2>4
  <2> HIDE DEF fund
  <2>8. /\ panel'.members = panel.members /\ panel'.loans = lns /\ panel'.kas = fund
        /\ panel'.credential = panel.credential /\ panel'.detailId = panel.detailId
        /\ panel'.detail = panel.detail
    BY <2>6, PanelIs
  <2>9. PanelOk(db, "Pengurus", panel')
    BY <2>2, <2>6, PanelIs DEF PanelOk, lns
  <2> QED
    BY <1>1, <2>1, <2>2, <2>4, <2>7, <2>8, <2>9, PanelIs, AnswerTaken, KycKinds DEF l, lns, CardKept
<1> QED
  BY <1>3, <1>4

LEMMA OnchainStatusStep ==
  ASSUME IInv, NEW i \in DOMAIN inFlight, OnchainStatus(i)
  PROVE  IInv'
<1>1. /\ inFlight[i].kind = "onchainStatus" /\ inFlight[i].phase \in {"done", "failed"}
      /\ Answered(i, [panel EXCEPT !.onchain = TRUE])
  BY DEF OnchainStatus, Arrived
<1>2. \/ panel' = [panel EXCEPT !.onchain = TRUE, !.busyId = None]
      \/ panel' = [panel EXCEPT !.busyId = None]
  BY <1>1, PanelIs DEF Answered, Done
<1>3. /\ panel'.members = panel.members /\ panel'.loans = panel.loans /\ panel'.kas = panel.kas
      /\ panel'.credential = panel.credential /\ panel'.detailId = panel.detailId
      /\ panel'.detail = panel.detail
  BY <1>2, PanelIs
<1>4. PanelOk(db, "Pengurus", panel')
  BY <1>2, PanelIs DEF PanelOk
<1>5. Over(i) /\ UNCHANGED <<session, db, app, cast>>
  BY <1>1 DEF Answered
<1> QED
  BY <1>1, <1>3, <1>4, <1>5, AnswerQuiet, KycKinds

LEMMA BootstrappedStep ==
  ASSUME IInv, NEW i \in DOMAIN inFlight, Bootstrapped(i)
  PROVE  IInv'
<1>1. /\ inFlight[i].kind = "bootstrapOnchain" /\ inFlight[i].phase \in {"done", "failed"}
      /\ UNCHANGED <<session, db, app, cast>>
  BY DEF Bootstrapped, Arrived
<1>2. CASE Ok(i)
  <2> DEFINE n == Call("onchainStatus", None, token)
  <2>1. Launch(Without(i), <<n>>, doubt) /\ panel' = panel
    BY <1>2 DEF Bootstrapped
  <2>2. CallOk(db, n)
    <3>1. token \in DOMAIN db.role \cup {None}
      BY CastIs DEF IInv
    <3> QED
      BY <3>1, CallOkIs, KycKinds DEF Kinds
  <2>3. n.kind = "onchainStatus" /\ ~Served(n)
    BY CallIs
  <2> HIDE DEF n
  <2>4. After(db, inFlight, doubt, inFlight', doubt', {i}, {n}) /\ doubt \subseteq doubt'
    BY <2>1, <2>2, <2>3, AfterOverSend
  <2>5. View = "Pengurus"
    BY <1>1, AnswersPanel, KycKinds
  <2>6. PanelOk(db, "Pengurus", panel')
    BY <2>1, <2>5 DEF IInv, TypesOk
  <2>7. \A n2 \in {n} : /\ n2.kind \in PanelKinds \ {"getMemberDetail"}
                        /\ n2.kind \notin KycWrites \cup {"loadAll"}
    BY <2>3, KycKinds
  <2>8. \A j \in DOMAIN inFlight \cap {i} :
            /\ inFlight[j].kind # "createSaving"
            /\ inFlight[j].kind \notin KycWrites \cup LoanWrites
    BY <1>1, KycKinds
  <2> QED
    BY <1>1, <2>1, <2>4, <2>5, <2>6, <2>7, <2>8, PanelQuiet
<1>3. CASE ~Ok(i)
  <2>1. Over(i) /\ panel' = [panel EXCEPT !.busyId = None]
    BY <1>3 DEF Bootstrapped, Done
  <2>2. /\ panel'.members = panel.members /\ panel'.loans = panel.loans /\ panel'.kas = panel.kas
        /\ panel'.credential = panel.credential /\ panel'.detailId = panel.detailId
        /\ panel'.detail = panel.detail
    BY <2>1, PanelIs
  <2>3. PanelOk(db, "Pengurus", panel')
    BY <2>1, PanelIs DEF PanelOk
  <2> QED
    BY <1>1, <2>1, <2>2, <2>3, AnswerQuiet, KycKinds
<1> QED
  BY <1>2, <1>3

LEMMA DetailLoadedStep ==
  ASSUME IInv, NEW i \in DOMAIN inFlight, DetailLoaded(i)
  PROVE  IInv'
<1> DEFINE shown == IF Ok(i) THEN Got(i) ELSE None
<1>1. /\ inFlight[i].kind = "getMemberDetail" /\ inFlight[i].phase \in {"done", "failed"}
      /\ panel' = [panel EXCEPT !.detail = shown] /\ Over(i)
      /\ UNCHANGED <<session, db, app, cast>>
  BY DEF DetailLoaded, Arrived
<1>2. panel.detailId = inFlight[i].about /\ inFlight[i].about \in MembersIn(db)
  BY <1>1, CallIn, PanelIs, KycKinds DEF CardKept, CallOk, AboutOk
<1>3. shown # None /\ Item("member", panel.detailId) \notin doubt => shown = db.kyc[panel.detailId]
  BY <1>1, <1>2, PanelIs DEF CardKept, Ok, Got, Served
<1> HIDE DEF shown
<1>4. /\ panel'.members = panel.members /\ panel'.loans = panel.loans /\ panel'.kas = panel.kas
      /\ panel'.credential = panel.credential /\ panel'.detailId = panel.detailId
      /\ panel'.detail = shown
  BY <1>1, PanelIs
<1>5. panel.detailId # None
  BY <1>2, PanelIs DEF DbOk, MembersIn
<1>6. PanelOk(db, "Pengurus", panel')
  BY <1>1, <1>5, PanelIs DEF PanelOk
<1> QED
  BY <1>1, <1>3, <1>4, <1>6, AnswerTaken, KycKinds

LEMMA LoadAllStep ==
  ASSUME IInv, NEW i \in DOMAIN inFlight, LoadAll(i)
  PROVE  IInv'
<1> DEFINE got == inFlight[i].got
           unsure(old) == Cleared(i) \cup (doubt \cap UNION
                  {IF "members" \in old THEN MemberItems ELSE {},
                   IF "loans" \in old THEN LoanItems ELSE {},
                   IF "groups" \in old THEN {Item("kas", None)} ELSE {}})
<1>1. /\ inFlight[i].kind = "loadAll" /\ inFlight[i].phase \in {"done", "failed"}
      /\ UNCHANGED <<session, db, app, cast>>
  BY DEF LoadAll, Arrived
<1>2. PICK old : /\ Ok(i) \/ ("members" \in old /\ "loans" \in old /\ "groups" \in old)
                 /\ panel' = [panel EXCEPT
                        !.members = IF "members" \in old THEN @ ELSE got.members,
                        !.loans = IF "loans" \in old THEN @ ELSE got.loans,
                        !.kas = IF "groups" \in old THEN @ ELSE got.kas,
                        !.loading = FALSE]
                 /\ Launch(Without(i), <<>>, unsure(old))
  <2>1. PICK kept \in SUBSET {"members", "loans", "groups"} :
           LET old == IF Ok(i) THEN kept ELSE {"members", "loans", "groups"} IN
           /\ panel' = [panel EXCEPT
                  !.members = IF "members" \in old THEN @ ELSE Got(i).members,
                  !.loans = IF "loans" \in old THEN @ ELSE Got(i).loans,
                  !.kas = IF "groups" \in old THEN @ ELSE Got(i).kas,
                  !.loading = FALSE]
           /\ Launch(Without(i), <<>>, unsure(old))
    BY DEF LoadAll
  <2> DEFINE old == IF Ok(i) THEN kept ELSE {"members", "loans", "groups"}
  <2> HIDE DEF unsure
  <2>2. Ok(i) \/ ("members" \in old /\ "loans" \in old /\ "groups" \in old)
    OBVIOUS
  <2>3. /\ panel' = [panel EXCEPT
                  !.members = IF "members" \in old THEN @ ELSE got.members,
                  !.loans = IF "loans" \in old THEN @ ELSE got.loans,
                  !.kas = IF "groups" \in old THEN @ ELSE got.kas,
                  !.loading = FALSE]
        /\ Launch(Without(i), <<>>, unsure(old))
    BY <2>1 DEF Got
  <2> HIDE DEF old
  <2> QED
    BY <2>2, <2>3
<1> DEFINE u == unsure(old)
<1>3. /\ \A x \in doubt : x \notin inFlight[i].clean => x \in u
      /\ u \subseteq doubt
      /\ "members" \in old => \A m \in MembersIn(db) : Item("member", m) \in doubt => Item("member", m) \in u
      /\ "loans" \in old => \A l \in DOMAIN db.loans : Item("loan", l) \in doubt => Item("loan", l) \in u
      /\ "groups" \in old => (Kas \in doubt => Kas \in u)
  BY DEF Cleared, MemberItems, LoanItems, Kas, Members, Users, MembersIn
<1> HIDE DEF unsure, u, got
<1>4. View = "Pengurus"
  BY <1>1, AnswersPanel, KycKinds
<1>5. After(db, inFlight, doubt, inFlight', doubt', {i}, {}) /\ doubt' = u
  <2>1. \A j \in DOMAIN inFlight \ {i} : \A x \in Touched(db, inFlight[j]) : x \in doubt => x \in u
    BY <1>3 DEF IInv, Overlaps, Apart
  <2> QED
    BY <1>2, <2>1, AfterOver DEF u
<1> DEFINE mem == IF "members" \in old THEN panel.members ELSE got.members
           lns == IF "loans" \in old THEN panel.loans ELSE got.loans
           fund == IF "groups" \in old THEN panel.kas ELSE got.kas
<1>6. panel' = [panel EXCEPT !.members = mem, !.loans = lns, !.kas = fund, !.loading = FALSE]
  BY <1>2
<1>7. CallOk(db, inFlight[i]) /\ inFlight[i].kind \in Kinds
  BY CallIn
<1>8. \A x : x \notin u => Trusted(inFlight[i], doubt, x)
  BY <1>3 DEF Trusted
<1>9. Served(inFlight[i]) => /\ DOMAIN got.members \subseteq MembersIn(db)
                             /\ DOMAIN got.loans \subseteq DOMAIN db.loans
  BY <1>1, <1>7 DEF CallOk, GotOk, Served, got
<1>10. Served(inFlight[i]) \/ ("members" \in old /\ "loans" \in old /\ "groups" \in old)
  BY <1>2 DEF Ok, Served
<1>11. DOMAIN mem \subseteq MembersIn(db) /\ DOMAIN lns \subseteq DOMAIN db.loans
  BY <1>9, <1>10, PanelIs
<1>12. \A l \in DOMAIN lns :
           \/ /\ l \in DOMAIN panel.loans /\ lns[l] = panel.loans[l]
              /\ Item("loan", l) \in doubt => Item("loan", l) \in u
           \/ Item("loan", l) \notin u => lns[l] = db.loans[l]
  <2>1. CASE "loans" \in old
    BY <1>3, <2>1, PanelIs
  <2>2. CASE "loans" \notin old
    BY <1>1, <1>8, <1>10, <2>2 DEF IInv, Kept, LoansKept, got
  <2> QED
    BY <2>1, <2>2
<1>13. \/ fund = panel.kas /\ (Kas \in doubt => Kas \in u)
       \/ Kas \notin u => fund = db.kas
  BY <1>1, <1>3, <1>8, <1>10 DEF IInv, Kept, KasKept, got
<1>14. \A m \in DOMAIN mem :
           \/ /\ m \in DOMAIN panel.members /\ mem[m] = panel.members[m]
              /\ Item("member", m) \in doubt => Item("member", m) \in u
           \/ Item("member", m) \notin u => mem[m] = db.kyc[m]
  <2>1. CASE "members" \in old
    BY <1>3, <2>1, PanelIs
  <2>2. CASE "members" \notin old
    BY <1>1, <1>8, <1>10, <2>2 DEF IInv, Kept, MembersKept, got
  <2> QED
    BY <2>1, <2>2
<1> HIDE DEF mem, lns, fund
<1>15. /\ panel'.members = mem /\ panel'.loans = lns /\ panel'.kas = fund
       /\ panel'.credential = panel.credential /\ panel'.detailId = panel.detailId
       /\ panel'.detail = panel.detail
  BY <1>6, PanelIs
<1>16. PanelOk(db, "Pengurus", panel')
  BY <1>6, <1>11, PanelIs DEF PanelOk
<1>17. \A m : Item("member", m) \in inFlight[i].clean => m \in MembersIn(db)
  BY <1>1, <1>7, TouchedIs, KycKinds DEF CallOk
<1>18. panel'.credential # None /\ Item("member", panel'.credential.id) \notin doubt' =>
           panel'.credential.pw = db.pw[panel'.credential.id]
  <2>1. panel.credential # None =>
            (Item("member", panel.credential.id) \in doubt => Item("member", panel.credential.id) \in u)
    BY <1>1, <1>3, <1>17, PanelIs DEF CardKept, OnCard
  <2> QED
    BY <1>5, <1>15, <2>1, PanelIs DEF CardKept
<1>19. panel'.detail # None /\ Item("member", panel'.detailId) \notin doubt' =>
           panel'.detail = db.kyc[panel'.detailId]
  <2>1. Item("member", panel.detailId) \in doubt => Item("member", panel.detailId) \in u
    BY <1>1, <1>3, <1>17, PanelIs DEF CardKept
  <2> QED
    BY <1>5, <1>15, <2>1, PanelIs DEF CardKept
<1>20. \A j \in DOMAIN inFlight' :
           inFlight'[j].kind = "getMemberDetail" => panel'.detailId = inFlight'[j].about
  BY <1>5, <1>15, NoNews, PanelIs DEF Alike, CardKept
<1>21. Balance \in doubt => Balance \in doubt'
  <2>1. Balance \notin inFlight[i].clean
    BY <1>1, <1>7, TouchedIs, KycKinds DEF CallOk
  <2> QED
    BY <1>3, <1>5, <2>1
<1>22. \A j \in DOMAIN inFlight' : \A m \in MembersIn(db) :
           ~((OnCard(panel', m) \/ panel'.detailId = m)
             /\ (OnCard(panel, m) \/ panel.detailId = m => ~(j \in DOMAIN inFlight \ {i})))
  BY <1>5, <1>15, NoNews DEF OnCard
<1>23. \A j \in DOMAIN inFlight \cap {i} :
           /\ inFlight[j].kind # "createSaving" /\ inFlight[j].kind \notin LoanWrites
           /\ inFlight[j].kind # "bailout" /\ inFlight[j].kind \notin {"approveKyc", "rejectKyc"}
  BY <1>1, KycKinds
<1>24. \A l \in DOMAIN panel'.loans :
             \/ /\ l \in DOMAIN panel.loans /\ panel'.loans[l] = panel.loans[l]
                /\ Item("loan", l) \in doubt => Item("loan", l) \in doubt'
                /\ \A j \in DOMAIN inFlight \cap {i} :
                       inFlight[j].kind \in LoanWrites /\ Served(inFlight[j])
                       /\ inFlight[j].about = l => Item("loan", l) \in doubt'
             \/ Item("loan", l) \notin doubt' => panel'.loans[l] = db.loans[l]
  BY <1>5, <1>12, <1>15, <1>23
<1>25. \/ /\ panel'.kas = panel.kas
          /\ Kas \in doubt => Kas \in doubt'
          /\ \A j \in DOMAIN inFlight \cap {i} :
                 inFlight[j].kind = "bailout" /\ Served(inFlight[j]) => Kas \in doubt'
       \/ panel'.kas # None /\ Kas \notin doubt' => panel'.kas = db.kas
  BY <1>5, <1>13, <1>15, <1>23
<1>26. \A m \in DOMAIN panel'.members :
             \/ /\ m \in DOMAIN panel.members /\ panel'.members[m] = panel.members[m]
                /\ Item("member", m) \in doubt => Item("member", m) \in doubt'
                /\ \A j \in DOMAIN inFlight \cap {i} :
                       inFlight[j].kind \in {"approveKyc", "rejectKyc"} /\ Served(inFlight[j])
                       /\ inFlight[j].about = m => Item("member", m) \in doubt'
             \/ Item("member", m) \notin doubt' => panel'.members[m] = db.kyc[m]
  BY <1>5, <1>14, <1>15, <1>23
<1> QED
  BY <1>1, <1>4, <1>5, <1>16, <1>18, <1>19, <1>20, <1>21, <1>22, <1>23, <1>24, <1>25, <1>26, PanelStep

----------------------------------------------------------------------------
(* The phone *)

LEMMA AppIs ==
  ASSUME IInv
  PROVE  /\ app = [savings |-> app.savings, group |-> app.group, applied |-> app.applied,
                   busy |-> app.busy, qris |-> app.qris, showSanggah |-> app.showSanggah]
         /\ app.qris \in DOMAIN db.role \cup {None}
         /\ app.applied # None => /\ app.applied = [id |-> app.applied.id, loan |-> app.applied.loan]
                                  /\ app.applied.id \in DOMAIN db.loans
         /\ SavingsKept(db, inFlight, doubt, member, app, View)
         /\ BalanceKept(db, inFlight, doubt, member)
         /\ AppliedKept(db, inFlight, doubt, app)
         /\ CallsOk(db, inFlight) /\ DbOk(db)
         /\ Apart(db, inFlight) /\ Doubted(db, inFlight, doubt)
BY DEF IInv, TypesOk, AppOk, Kept, Overlaps

\* What is left as it was when nothing is taken over.
LEMMA PhoneQuiet ==
  ASSUME IInv, View = "Anggota", UNCHANGED <<session, db, panel, cast>>,
         NEW gone, NEW news, After(db, inFlight, doubt, inFlight', doubt', gone, news),
         \A n \in news : /\ n.kind \in AppKinds /\ n.kind # "loadData"
                         /\ n.kind = "sanggahLoan" => app.applied # None /\ n.about = app.applied.id,
         doubt \subseteq doubt',
         \A i \in DOMAIN inFlight \cap gone :
             /\ Booked(inFlight[i]) => {Savings, Balance} \subseteq doubt'
             /\ inFlight[i].kind = "sanggahLoan" => ~Served(inFlight[i]),
         AppOk(db, "Anggota", app'),
         app'.savings = app.savings, app'.applied = app.applied
  PROVE  IInv'
<1>1. Passed(db, inFlight, doubt, inFlight', doubt', gone) /\ CallsOk(db, inFlight')
      /\ \A i \in DOMAIN inFlight \ gone : inFlight'[i].live = inFlight[i].live
  BY DEF After
<1>2. SavingsKept(db, inFlight', doubt', member, app', "Anggota")
  <2>1. \A i \in DOMAIN inFlight' : inFlight'[i].kind = "loadData" =>
            i \in DOMAIN inFlight \ gone \/ inFlight'[i].about = member.id
    BY DEF After, Alike
  <2>2. \A i \in DOMAIN inFlight \cap gone : Booked(inFlight[i]) => Savings \in doubt'
    OBVIOUS
  <2> QED
    BY <1>1, <2>1, <2>2, AppIs, SavingsPassed
<1>3. BalanceKept(db, inFlight', doubt', member)
  BY <1>1, AppIs, BalancePassed
<1>4. AppliedKept(db, inFlight', doubt', app')
  <2>1. ASSUME NEW j \in DOMAIN inFlight', NEW l, Item("loan", l) \in Touched(db, inFlight'[j])
        PROVE  \/ \E k \in DOMAIN inFlight : Item("loan", l) \in Touched(db, inFlight[k])
               \/ app.applied # None /\ l = app.applied.id
    <3>1. CASE j \in DOMAIN inFlight \ gone
      <4>1. Alike(inFlight[j], inFlight'[j])
        BY <1>1, <3>1 DEF Passed
      <4>2. Touched(db, inFlight'[j]) = Touched(db, inFlight[j])
        BY <4>1 DEF Alike, Touched
      <4> QED
        BY <2>1, <3>1, <4>2
    <3>2. CASE ~(j \in DOMAIN inFlight \ gone)
      <4>1. PICK n \in news : Alike(n, inFlight'[j])
        BY <3>2 DEF After
      <4>2. inFlight'[j].kind = n.kind /\ inFlight'[j].about = n.about /\ n.kind \in AppKinds
        BY <4>1 DEF Alike
      <4>3. inFlight'[j].kind \in Kinds /\ inFlight'[j].kind # "loadAll"
            /\ inFlight'[j].kind \notin LoanWrites
        BY <4>2 DEF Kinds, AppKinds, LoanWrites
      <4>4. inFlight'[j].kind = "sanggahLoan" /\ inFlight'[j].about = l
        BY <2>1, <4>3, TouchedIs
      <4> QED
        BY <4>2, <4>4
    <3> QED
      BY <3>1, <3>2
  <2>2. \A i \in DOMAIN inFlight \cap gone :
            inFlight[i].kind = "sanggahLoan" /\ Served(inFlight[i]) =>
                Item("loan", inFlight[i].about) \in doubt'
    OBVIOUS
  <2>3. app.applied # None =>
            (Item("loan", app.applied.id) \in doubt => Item("loan", app.applied.id) \in doubt')
    OBVIOUS
  <2> QED
    BY <1>1, <2>1, <2>2, <2>3, AppIs, AppliedPassed
<1>5. \A n \in news : n.kind \in AppKinds
  OBVIOUS
<1> QED
  BY <1>2, <1>3, <1>4, <1>5, PhoneStep

LEMMA OnPhoneIs ==
  ASSUME IInv, View = "Anggota"
  PROVE  member # None /\ member \in RowIn(db) /\ member.id \in DOMAIN db.role
BY ViewIs DEF IInv, RowIn

LEMMA PhoneKinds ==
  /\ {"loadData", "getMe", "createSaving", "applyLoan", "sanggahLoan", "login", "me"} \cap
         (KycWrites \cup LoanWrites \cup {"getMemberDetail", "loadAll"}) = {}
  /\ {"loadData", "getMe", "createSaving", "applyLoan", "sanggahLoan", "login", "me"} \subseteq Kinds
  /\ {"loadData", "getMe", "createSaving", "applyLoan", "sanggahLoan"} = AppKinds
  /\ {"createSaving", "applyLoan", "sanggahLoan"} \subseteq Writes
  /\ {"loadData", "getMe", "login", "me"} \cap Writes = {}
BY DEF KycWrites, LoanWrites, Kinds, AppKinds, Writes

LEMMA BusyIs ==
  ASSUME IInv, View = "Anggota", NEW a, a = [app EXCEPT !.busy = TRUE]
  PROVE  AppOk(db, "Anggota", a) /\ a.savings = app.savings /\ a.applied = app.applied
BY AppIs DEF AppOk

LEMMA PhoneSent ==
  ASSUME IInv, View = "Anggota", UNCHANGED <<session, db, panel, cast>>,
         NEW new, After(db, inFlight, doubt, inFlight', doubt', {}, {new}), doubt \subseteq doubt',
         new.kind \in AppKinds, new.kind # "loadData",
         new.kind = "sanggahLoan" => app.applied # None /\ new.about = app.applied.id,
         AppOk(db, "Anggota", app'), app'.savings = app.savings, app'.applied = app.applied
  PROVE  IInv'
<1>1. \A n \in {new} : /\ n.kind \in AppKinds /\ n.kind # "loadData"
                       /\ n.kind = "sanggahLoan" => app.applied # None /\ n.about = app.applied.id
  OBVIOUS
<1>2. \A i \in DOMAIN inFlight \cap {} :
          /\ Booked(inFlight[i]) => {Savings, Balance} \subseteq doubt'
          /\ inFlight[i].kind = "sanggahLoan" => ~Served(inFlight[i])
  OBVIOUS
<1> QED
  BY <1>1, <1>2, PhoneQuiet

\* A form sends its call and is disabled.
LEMMA PhoneSends ==
  ASSUME IInv, View = "Anggota", NEW kind \in {"createSaving", "applyLoan", "sanggahLoan"}, NEW about,
         Send(kind, about), UNCHANGED <<session, db, panel, cast>>,
         kind # "sanggahLoan" => about \in DOMAIN db.role,
         kind = "sanggahLoan" => app.applied # None /\ about = app.applied.id,
         AppOk(db, "Anggota", app'), app'.savings = app.savings, app'.applied = app.applied
  PROVE  IInv'
<1> DEFINE n == Call(kind, about, token)
<1>1. CallOk(db, n)
  <2>1. token \in DOMAIN db.role \cup {None}
    BY CastIs DEF IInv
  <2> QED
    BY <2>1, AppIs, CallOkIs, PhoneKinds
<1>2. /\ After(db, inFlight, doubt, inFlight', doubt', {}, {n})
      /\ doubt \subseteq doubt'
  BY <1>1, AfterSend
<1>3. n.kind = kind /\ n.about = about
  BY CallIs
<1> HIDE DEF n
<1>5. n.kind \in AppKinds /\ n.kind # "loadData"
      /\ (n.kind = "sanggahLoan" => app.applied # None /\ n.about = app.applied.id)
  BY <1>3, PhoneKinds
<1> QED
  BY <1>2, <1>5, PhoneSent

\* A click that sends nothing.
LEMMA PhoneToggles ==
  ASSUME IInv, View = "Anggota", UNCHANGED <<session, inFlight, db, panel, doubt, cast>>,
         AppOk(db, "Anggota", app'),
         app'.savings = app.savings, app'.applied = app.applied
  PROVE  IInv'
<1>1. After(db, inFlight, doubt, inFlight', doubt', {}, {})
  BY AfterIdle
<1> QED
  BY <1>1, PhoneQuiet

LEMMA MemberClickStep ==
  ASSUME IInv, MemberClick
  PROVE  IInv'
<1>1. CASE HandleDeposit
  <2>1. View = "Anggota" /\ app' = [app EXCEPT !.qris = member.id]
        /\ UNCHANGED <<session, inFlight, db, panel, doubt, cast>>
    BY <1>1, SurfaceIs DEF HandleDeposit, OnPhone
  <2>2. app'.savings = app.savings /\ app'.applied = app.applied /\ AppOk(db, "Anggota", app')
    BY <2>1, AppIs, OnPhoneIs DEF AppOk
  <2> QED
    BY <2>1, <2>2, PhoneToggles
<1>2. CASE CancelQris
  <2>1. View = "Anggota" /\ app' = [app EXCEPT !.qris = None]
        /\ UNCHANGED <<session, inFlight, db, panel, doubt, cast>>
    BY <1>2, SurfaceIs DEF CancelQris
  <2>2. app'.savings = app.savings /\ app'.applied = app.applied /\ AppOk(db, "Anggota", app')
    BY <2>1, AppIs DEF AppOk
  <2> QED
    BY <2>1, <2>2, PhoneToggles
<1>3. CASE PayQris
  <2>1. View = "Anggota" /\ app.qris # None /\ app' = [app EXCEPT !.busy = TRUE]
        /\ Send("createSaving", app.qris) /\ UNCHANGED <<session, db, panel, cast>>
    BY <1>3, SurfaceIs DEF PayQris
  <2>2. app.qris \in DOMAIN db.role
    BY <2>1, AppIs
  <2>3. AppOk(db, "Anggota", app') /\ app'.savings = app.savings /\ app'.applied = app.applied
    BY <2>1, BusyIs
  <2> QED
    BY <2>1, <2>2, <2>3, PhoneSends
<1>4. CASE HandleApplyLoan
  <2>1. View = "Anggota" /\ app' = [app EXCEPT !.busy = TRUE]
        /\ Send("applyLoan", member.id) /\ UNCHANGED <<session, db, panel, cast>>
    BY <1>4, SurfaceIs DEF HandleApplyLoan, OnPhone
  <2>2. member.id \in DOMAIN db.role
    BY <2>1, OnPhoneIs
  <2>3. AppOk(db, "Anggota", app') /\ app'.savings = app.savings /\ app'.applied = app.applied
    BY <2>1, BusyIs
  <2> QED
    BY <2>1, <2>2, <2>3, PhoneSends
<1>5. CASE ToggleSanggah
  <2>1. View = "Anggota" /\ app' = [app EXCEPT !.showSanggah = ~@]
        /\ UNCHANGED <<session, inFlight, db, panel, doubt, cast>>
    BY <1>5, SurfaceIs DEF ToggleSanggah, OnPhone
  <2>2. app'.savings = app.savings /\ app'.applied = app.applied /\ AppOk(db, "Anggota", app')
    <3> DEFINE b == ~app.showSanggah
    <3>1. app' = [app EXCEPT !.showSanggah = b]
      BY <2>1
    <3> HIDE DEF b
    <3> QED
      BY <3>1, AppIs DEF AppOk
  <2> QED
    BY <2>1, <2>2, PhoneToggles
<1>6. CASE HandleSanggah
  <2>1. View = "Anggota" /\ app.applied # None /\ app' = [app EXCEPT !.busy = TRUE]
        /\ Send("sanggahLoan", app.applied.id) /\ UNCHANGED <<session, db, panel, cast>>
    BY <1>6, SurfaceIs DEF HandleSanggah, OnPhone, SanggahOffered
  <2>2. AppOk(db, "Anggota", app') /\ app'.savings = app.savings /\ app'.applied = app.applied
    BY <2>1, BusyIs
  <2> QED
    BY <2>1, <2>2, PhoneSends
<1>7. CASE ApplyForAnother
  <2>1. View = "Anggota" /\ app' = [app EXCEPT !.applied = None, !.showSanggah = FALSE]
        /\ UNCHANGED <<session, inFlight, db, panel, doubt, cast>>
    BY <1>7, SurfaceIs DEF ApplyForAnother, OnPhone
  <2>2. app'.savings = app.savings /\ app'.applied = None /\ AppOk(db, "Anggota", app')
    BY <2>1, AppIs DEF AppOk
  <2>3. After(db, inFlight, doubt, inFlight', doubt', {}, {})
    BY <2>1, AfterIdle
  <2>4. SavingsKept(db, inFlight', doubt', member, app', "Anggota")
    BY <2>1, <2>2, AppIs DEF SavingsKept
  <2>5. AppliedKept(db, inFlight', doubt', app')
    BY <2>1, <2>2, AppIs DEF AppliedKept
  <2>6. BalanceKept(db, inFlight', doubt', member)
    BY <2>1, AppIs
  <2> QED
    BY <2>1, <2>2, <2>3, <2>4, <2>5, <2>6, PhoneStep
<1> QED
  BY <1>1, <1>2, <1>3, <1>4, <1>5, <1>6, <1>7 DEF MemberClick

----------------------------------------------------------------------------
(* The clicks and answers of the panel, and the answers to the phone *)

LEMMA OfficerClickStep ==
  ASSUME IInv, OfficerClick
  PROVE  IInv'
<1>0. /\ {"approveKyc", "rejectKyc", "resetPassword"} \subseteq KycWrites
      /\ {"approveLoan", "rejectLoan", "bailout"} \subseteq LoanWrites
      /\ KycWrites \cap (LoanWrites \cup {"bootstrapOnchain"}) = {}
      /\ "bootstrapOnchain" \notin LoanWrites
  BY DEF KycWrites, LoanWrites
<1>1. DOMAIN panel.members \subseteq MembersIn(db) /\ DOMAIN panel.loans \subseteq DOMAIN db.loans
  BY PanelIs
<1>2. CASE CloseCredential
  BY <1>2, CloseCredentialStep
<1>3. CASE CloseDrawer
  BY <1>3, CloseDrawerStep
<1>4. CASE Refresh
  BY <1>4, RefreshStep
<1>5. CASE HandleBootstrap
  BY <1>0, <1>5, WorkStep DEF HandleBootstrap
<1>6. CASE \E m \in Members : OpenDrawer(m)
  BY <1>6, OpenDrawerStep
<1>7. ASSUME NEW m, HandleResetPassword(m)
      PROVE  IInv'
  <2>1. m \in MembersIn(db) /\ Work("resetPassword", m)
    BY <1>1, <1>7 DEF HandleResetPassword, Active
  <2> QED
    BY <1>0, <2>1, WorkStep
<1>8. ASSUME NEW m, NEW action, HandleKyc(m, action)
      PROVE  IInv'
  <2>1. m \in MembersIn(db) /\ (Work("approveKyc", m) \/ Work("rejectKyc", m))
    BY <1>1, <1>8 DEF HandleKyc, KycQueue
  <2> QED
    BY <1>0, <2>1, WorkStep
<1>9. ASSUME NEW l, HandleBailout(l)
      PROVE  IInv'
  <2>1. l \in DOMAIN db.loans /\ Work("bailout", l)
    BY <1>1, <1>9 DEF HandleBailout, Arrears
  <2> QED
    BY <1>0, <2>1, WorkStep
<1>10. ASSUME NEW l, NEW action, HandleLoan(l, action)
       PROVE  IInv'
  <2>1. l \in DOMAIN db.loans /\ (Work("approveLoan", l) \/ Work("rejectLoan", l))
    BY <1>1, <1>10 DEF HandleLoan, PendingLoans
  <2> QED
    BY <1>0, <2>1, WorkStep
<1> QED
  BY <1>2, <1>3, <1>4, <1>5, <1>6, <1>7, <1>8, <1>9, <1>10 DEF OfficerClick

LEMMA OfficerAnswerStep ==
  ASSUME IInv, OfficerAnswer
  PROVE  IInv'
<1>1. PICK i \in DOMAIN inFlight :
          \/ LoadAll(i) \/ KycApproved(i) \/ KycRejected(i) \/ PasswordReset(i)
          \/ LoanDecided(i) \/ BailedOut(i) \/ Bootstrapped(i) \/ OnchainStatus(i)
          \/ DetailLoaded(i)
  BY DEF OfficerAnswer
<1> QED
  BY <1>1, LoadAllStep, KycApprovedStep, KycRejectedStep, PasswordResetStep, LoanDecidedStep,
     BailedOutStep, BootstrappedStep, OnchainStatusStep, DetailLoadedStep

\* An answer to the phone finds it on screen.
LEMMA AnswersPhone ==
  ASSUME IInv, NEW i \in DOMAIN inFlight, inFlight[i].phase \in {"done", "failed"},
         inFlight[i].kind \in {"loadData", "applyLoan", "sanggahLoan"}
  PROVE  View = "Anggota" /\ inFlight[i].live = "mounted"
<1>1. CallOk(db, inFlight[i])
  BY CallIn
<1>2. inFlight[i].live = "mounted"
  BY <1>1 DEF CallOk
<1> QED
  BY <1>2 DEF IInv, TypesOk, Placed, AppKinds

\* The calls after one is over, none of them new.
LEMMA AfterIs ==
  ASSUME IInv, NEW i \in DOMAIN inFlight, NEW unsure, Launch(Without(i), <<>>, unsure),
         \A j \in DOMAIN inFlight \ {i} : \A x \in Touched(db, inFlight[j]) :
             x \in doubt => x \in unsure
  PROVE  /\ After(db, inFlight, doubt, inFlight', doubt', {i}, {}) /\ doubt' = unsure
         /\ Passed(db, inFlight, doubt, inFlight', doubt', {i})
         /\ \A j \in DOMAIN inFlight' :
                /\ j \in DOMAIN inFlight /\ j # i /\ Alike(inFlight[j], inFlight'[j])
                /\ inFlight'[j].live = inFlight[j].live
                /\ Touched(db, inFlight'[j]) = Touched(db, inFlight[j])
                /\ Served(inFlight'[j]) <=> Served(inFlight[j])
                /\ Booked(inFlight'[j]) <=> Booked(inFlight[j])
<1>1. After(db, inFlight, doubt, inFlight', doubt', {i}, {}) /\ doubt' = unsure
  BY AfterOver
<1>2. ASSUME NEW j \in DOMAIN inFlight'
      PROVE  /\ j \in DOMAIN inFlight /\ j # i /\ Alike(inFlight[j], inFlight'[j])
             /\ inFlight'[j].live = inFlight[j].live
  BY <1>1, NoNews
<1>3. ASSUME NEW j \in DOMAIN inFlight'
      PROVE  /\ Touched(db, inFlight'[j]) = Touched(db, inFlight[j])
             /\ Served(inFlight'[j]) <=> Served(inFlight[j])
             /\ Booked(inFlight'[j]) <=> Booked(inFlight[j])
  BY <1>2 DEF Alike, Touched, Served, Booked
<1> QED
  BY <1>1, <1>2, <1>3 DEF After

\* A failed answer releases the form.
LEMMA PhoneFailed ==
  ASSUME IInv, NEW i \in DOMAIN inFlight, inFlight[i].phase = "failed", View = "Anggota",
         Launch(Without(i), <<>>, doubt), UNCHANGED <<session, db, panel, cast>>,
         AppOk(db, "Anggota", app'), app'.savings = app.savings, app'.applied = app.applied
  PROVE  IInv'
<1>1. After(db, inFlight, doubt, inFlight', doubt', {i}, {}) /\ doubt' = doubt
  BY AfterOver
<1>2. ~Served(inFlight[i]) /\ ~Booked(inFlight[i])
  BY DEF Served, Booked
<1> QED
  BY <1>1, <1>2, PhoneQuiet

LEMMA TouchedRead ==
  ASSUME NEW d, NEW r
  PROVE  /\ r.kind = "loadData" => Touched(d, r) = {Savings}
         /\ r.kind \in {"login", "me", "getMe"} => Touched(d, r) = {Balance}
         /\ r.kind = "createSaving" => Touched(d, r) = {Savings, Balance}
<1>1. ASSUME r.kind = "loadData" PROVE Touched(d, r) = {Savings}
  BY <1>1 DEF Touched, KycWrites
<1>2. ASSUME r.kind \in {"login", "me", "getMe"} PROVE Touched(d, r) = {Balance}
  BY <1>2 DEF Touched, KycWrites
<1>3. ASSUME r.kind = "createSaving" PROVE Touched(d, r) = {Savings, Balance}
  BY <1>3 DEF Touched, KycWrites
<1> QED
  BY <1>1, <1>2, <1>3

LEMMA LoadDataStep ==
  ASSUME IInv, NEW i \in DOMAIN inFlight, LoadData(i)
  PROVE  IInv'
<1>1. /\ inFlight[i].kind = "loadData" /\ inFlight[i].phase \in {"done", "failed"}
      /\ Ok(i) <=> Served(inFlight[i])
  BY ArrivedIs DEF LoadData, Ok, Served
<1>2. View = "Anggota" /\ inFlight[i].live = "mounted"
  BY <1>1, AnswersPhone
<1>3. PICK group : app' = [app EXCEPT !.savings = IF Ok(i) THEN inFlight[i].got ELSE @, !.group = group]
  BY DEF LoadData, Got
<1>4. Launch(Without(i), <<>>, Cleared(i)) /\ UNCHANGED <<session, db, panel, cast>>
  BY DEF LoadData
<1>5. /\ AppOk(db, "Anggota", app') /\ app'.applied = app.applied
      /\ app'.savings = IF Ok(i) THEN inFlight[i].got ELSE app.savings
  <2> DEFINE s == IF Ok(i) THEN inFlight[i].got ELSE app.savings
  <2>1. app' = [app EXCEPT !.savings = s, !.group = group]
    BY <1>3, AppIs
  <2> HIDE DEF s
  <2>2. /\ AppOk(db, "Anggota", app') /\ app'.applied = app.applied
        /\ app'.savings = s
    BY <2>1, AppIs DEF AppOk
  <2> QED
    BY <2>2 DEF s
<1>6. CASE ~Ok(i)
  <2>1. Cleared(i) = doubt /\ inFlight[i].phase = "failed" /\ app'.savings = app.savings
    BY <1>1, <1>5, <1>6 DEF Cleared, Served
  <2> QED
    BY <1>2, <1>4, <1>5, <2>1, PhoneFailed
<1>7. CASE Ok(i)
  <2>0. Overlaps /\ Apart(db, inFlight) /\ Doubted(db, inFlight, doubt)
    BY DEF IInv, Overlaps
  <2>1. Cleared(i) = doubt \ inFlight[i].clean /\ app'.savings = inFlight[i].got
    BY <1>5, <1>7 DEF Cleared
  <2>2. \A j \in DOMAIN inFlight \ {i} : \A x \in Touched(db, inFlight[j]) :
            x \in doubt => x \in Cleared(i)
    <3>1. ASSUME NEW j \in DOMAIN inFlight, j # i, NEW x \in Touched(db, inFlight[j]), x \in doubt
          PROVE  x \in Cleared(i)
      BY <2>0, <3>1, ClearedKeeps
    <3> QED
      BY <3>1
  <2>3. /\ After(db, inFlight, doubt, inFlight', doubt', {i}, {}) /\ doubt' = Cleared(i)
        /\ Passed(db, inFlight, doubt, inFlight', doubt', {i})
        /\ \A j \in DOMAIN inFlight' :
               /\ j \in DOMAIN inFlight /\ j # i /\ Alike(inFlight[j], inFlight'[j])
               /\ inFlight'[j].live = inFlight[j].live
               /\ Touched(db, inFlight'[j]) = Touched(db, inFlight[j])
               /\ Served(inFlight'[j]) <=> Served(inFlight[j])
               /\ Booked(inFlight'[j]) <=> Booked(inFlight[j])
    BY <1>4, <2>2, AfterIs
  <2>4. CallOk(db, inFlight[i]) /\ Touched(db, inFlight[i]) = {Savings}
    <3>1. CallOk(db, inFlight[i])
      BY CallIn
    <3>2. Touched(db, inFlight[i]) = {Savings}
      BY <1>1, TouchedRead
    <3> QED
      BY <3>1, <3>2
  <2>5. inFlight[i].clean \subseteq {Savings}
    <3>1. inFlight[i].clean \subseteq Touched(db, inFlight[i])
      BY <2>4 DEF CallOk
    <3> QED
      BY <2>4, <3>1
  <2>6. \A l : Item("loan", l) # Savings /\ Balance # Savings
    BY ItemIs DEF Savings, Balance
  <2>7. SavingsKept(db, inFlight', doubt', member, app', "Anggota")
    <3>1. ASSUME Savings \notin doubt'
          PROVE  /\ app'.savings = SavingsIn(db, member.id)
                 /\ \A j \in DOMAIN inFlight' : ~Booked(inFlight'[j])
      <4>1. Trusted(inFlight[i], doubt, Savings)
        BY <2>1, <2>3, <3>1 DEF Trusted
      <4>2. app'.savings = SavingsIn(db, member.id)
        BY <1>1, <1>7, <2>1, <4>1, AppIs DEF SavingsKept
      <4>3. ASSUME NEW j \in DOMAIN inFlight', Booked(inFlight'[j]) PROVE FALSE
        <5>1. j \in DOMAIN inFlight /\ j # i /\ inFlight[j].kind = "createSaving"
          BY <2>3, <4>3 DEF Booked
        <5>2. Savings \in Touched(db, inFlight[j]) /\ inFlight[j].kind \in Writes
          BY <5>1, CallIn, TouchedIs DEF Writes
        <5>3. Savings \notin inFlight[i].clean
          BY <2>0, <5>1, <5>2 DEF Apart
        <5>4. Savings \in doubt
          BY <1>2, <2>0, <2>4, <5>1, <5>2 DEF Doubted
        <5> QED
          BY <4>1, <5>3, <5>4 DEF Trusted
      <4> QED
        BY <4>2, <4>3
    <3>2. ASSUME NEW j \in DOMAIN inFlight', inFlight'[j].kind = "loadData",
                 Trusted(inFlight'[j], doubt', Savings)
          PROVE  inFlight'[j].about = member.id
                 /\ (Served(inFlight'[j]) => inFlight'[j].got = SavingsIn(db, member.id))
      <4>1. j \in DOMAIN inFlight \ {i} /\ Alike(inFlight[j], inFlight'[j])
            /\ (Served(inFlight'[j]) <=> Served(inFlight[j]))
        BY <2>3
      <4>2. Savings \in Touched(db, inFlight[j]) /\ inFlight[j].kind = "loadData"
        BY <3>2, <4>1, CallIn, TouchedIs DEF Alike
      <4>3. Trusted(inFlight[j], doubt, Savings)
        BY <2>3, <3>2, <4>1, <4>2, StillTrusted
      <4> QED
        BY <4>1, <4>2, <4>3, AppIs DEF SavingsKept, Alike
    <3> QED
      BY <3>1, <3>2 DEF SavingsKept
  <2>8. BalanceKept(db, inFlight', doubt', member)
    <3>1. Balance \in doubt => Balance \in doubt'
      BY <2>1, <2>3, <2>5, <2>6
    <3>2. \A j \in DOMAIN inFlight \cap {i} : Booked(inFlight[j]) => Balance \in doubt'
      BY <1>1 DEF Booked
    <3> QED
      BY <2>3, <3>1, <3>2, AppIs, BalancePassed
  <2>9. AppliedKept(db, inFlight', doubt', app')
    <3>1. \A j \in DOMAIN inFlight' : \A l : Item("loan", l) \in Touched(db, inFlight'[j]) =>
              \E k \in DOMAIN inFlight : Item("loan", l) \in Touched(db, inFlight[k])
      BY <2>3
    <3>2. app.applied # None =>
              (Item("loan", app.applied.id) \in doubt => Item("loan", app.applied.id) \in doubt')
      BY <2>1, <2>3, <2>5, <2>6
    <3>3. \A j \in DOMAIN inFlight \cap {i} :
              inFlight[j].kind = "sanggahLoan" /\ Served(inFlight[j]) =>
                  Item("loan", inFlight[j].about) \in doubt'
      BY <1>1
    <3> QED
      BY <1>5, <2>3, <3>1, <3>2, <3>3, AppIs, AppliedPassed
  <2> QED
    BY <1>2, <1>4, <1>5, <2>3, <2>7, <2>8, <2>9, PhoneStep
<1> QED
  BY <1>6, <1>7

LEMMA ApplyAnsweredStep ==
  ASSUME IInv, NEW i \in DOMAIN inFlight, ApplyAnswered(i)
  PROVE  IInv'
<1>1. /\ inFlight[i].kind = "applyLoan" /\ inFlight[i].phase \in {"done", "failed"}
      /\ Ok(i) <=> Served(inFlight[i])
  BY ArrivedIs DEF ApplyAnswered, Ok, Served
<1>2. View = "Anggota" /\ inFlight[i].live = "mounted"
  BY <1>1, AnswersPhone
<1>3. UNCHANGED <<session, db, panel, cast>>
  BY DEF ApplyAnswered
<1>4. CASE ~Ok(i)
  <2>1. Launch(Without(i), <<>>, doubt) /\ app' = [app EXCEPT !.busy = FALSE]
    BY <1>4 DEF ApplyAnswered
  <2>2. inFlight[i].phase = "failed"
    BY <1>1, <1>4 DEF Served
  <2>3. app'.savings = app.savings /\ app'.applied = app.applied /\ AppOk(db, "Anggota", app')
    BY <2>1, AppIs DEF AppOk
  <2> QED
    BY <1>2, <1>3, <2>1, <2>2, <2>3, PhoneFailed
<1>5. CASE Ok(i)
  <2> DEFINE g == inFlight[i].got
             x == Item("loan", g.id)
  <2>1. /\ Launch(Without(i), <<>>, doubt \ {x})
        /\ app' = [app EXCEPT !.busy = FALSE, !.applied = g, !.showSanggah = FALSE]
    BY <1>5 DEF ApplyAnswered, Got
  <2>2. g = [id |-> g.id, loan |-> g.loan] /\ g.id \in DOMAIN db.loans
    BY <1>1, <1>5, CallIn DEF CallOk, GotOk, Served
  <2>3. /\ g.loan = db.loans[g.id]
        /\ \A j \in DOMAIN inFlight :
               /\ x \notin Touched(db, inFlight[j])
               /\ j # i /\ inFlight[j].kind = "applyLoan" /\ Served(inFlight[j]) =>
                      inFlight[j].got.id # g.id
    BY <1>1, <1>5, AppIs DEF AppliedKept
  <2>4. x # Savings /\ x # Balance
    BY ItemIs DEF Savings, Balance
  <2> HIDE DEF g, x
  <2>5. app'.savings = app.savings /\ app'.applied = g /\ AppOk(db, "Anggota", app')
    BY <2>1, <2>2, AppIs DEF AppOk
  <2>6. \A j \in DOMAIN inFlight \ {i} : \A y \in Touched(db, inFlight[j]) :
            y \in doubt => y \in doubt \ {x}
    BY <2>3
  <2>7. /\ After(db, inFlight, doubt, inFlight', doubt', {i}, {}) /\ doubt' = doubt \ {x}
        /\ Passed(db, inFlight, doubt, inFlight', doubt', {i})
        /\ \A j \in DOMAIN inFlight' :
               /\ j \in DOMAIN inFlight /\ j # i /\ Alike(inFlight[j], inFlight'[j])
               /\ inFlight'[j].live = inFlight[j].live
               /\ Touched(db, inFlight'[j]) = Touched(db, inFlight[j])
               /\ Served(inFlight'[j]) <=> Served(inFlight[j])
               /\ Booked(inFlight'[j]) <=> Booked(inFlight[j])
    BY <2>1, <2>6, AfterIs
  <2>8. /\ Savings \in doubt => Savings \in doubt'
        /\ Balance \in doubt => Balance \in doubt'
    BY <2>4, <2>7
  <2>9. \A j \in DOMAIN inFlight \cap {i} : ~Booked(inFlight[j]) /\ inFlight[j].kind # "sanggahLoan"
    BY <1>1 DEF Booked
  <2>10. SavingsKept(db, inFlight', doubt', member, app', "Anggota")
    <3>1. \A j \in DOMAIN inFlight \ {i} : inFlight'[j].live = inFlight[j].live
      BY <2>7 DEF After
    <3>2. \A j \in DOMAIN inFlight' : inFlight'[j].kind = "loadData" =>
              j \in DOMAIN inFlight \ {i} \/ inFlight'[j].about = member.id
      BY <2>7
    <3> QED
      BY <1>2, <2>5, <2>7, <2>8, <2>9, <3>1, <3>2, AppIs, SavingsPassed
  <2>11. BalanceKept(db, inFlight', doubt', member)
    BY <2>7, <2>8, <2>9, AppIs, BalancePassed
  <2>12. AppliedKept(db, inFlight', doubt', app')
    <3>1. \A j \in DOMAIN inFlight' : \A l : Item("loan", l) \in Touched(db, inFlight'[j]) =>
              \E k \in DOMAIN inFlight : Item("loan", l) \in Touched(db, inFlight[k])
      BY <2>7
    <3>2. /\ \A k \in DOMAIN inFlight' :
                 inFlight'[k].kind = "sanggahLoan" /\ Served(inFlight'[k])
                 /\ Item("loan", inFlight'[k].about) \notin doubt' =>
                     inFlight'[k].got = db.loans[inFlight'[k].about]
          /\ \A k \in DOMAIN inFlight' : inFlight'[k].kind = "applyLoan" /\ Served(inFlight'[k]) =>
                 /\ k \in DOMAIN inFlight \ {i} /\ inFlight'[k].got = inFlight[k].got
                    /\ inFlight[k].kind = "applyLoan" /\ Served(inFlight[k])
                 /\ inFlight'[k].got.loan = db.loans[inFlight'[k].got.id]
                 /\ \A j \in DOMAIN inFlight' :
                        /\ Item("loan", inFlight'[k].got.id) \notin Touched(db, inFlight'[j])
                        /\ j # k /\ inFlight'[j].kind = "applyLoan" /\ Served(inFlight'[j]) =>
                               inFlight'[j].got.id # inFlight'[k].got.id
      BY <2>7, <3>1, AppIs, AppliedCalls
    <3>3. app'.applied.loan = db.loans[app'.applied.id]
      BY <2>3, <2>5
    <3>4. \A k \in DOMAIN inFlight' : inFlight'[k].kind = "applyLoan" /\ Served(inFlight'[k]) =>
              app'.applied.id # inFlight'[k].got.id
      BY <2>3, <2>5, <3>2
    <3> QED
      BY <3>2, <3>3, <3>4 DEF AppliedKept
  <2> QED
    BY <1>2, <1>3, <2>5, <2>7, <2>10, <2>11, <2>12, PhoneStep
<1> QED
  BY <1>4, <1>5

LEMMA SanggahAnsweredStep ==
  ASSUME IInv, NEW i \in DOMAIN inFlight, SanggahAnswered(i)
  PROVE  IInv'
<1>1. /\ inFlight[i].kind = "sanggahLoan" /\ inFlight[i].phase \in {"done", "failed"}
      /\ Ok(i) <=> Served(inFlight[i])
  BY ArrivedIs DEF SanggahAnswered, Ok, Served
<1>2. View = "Anggota" /\ inFlight[i].live = "mounted"
  BY <1>1, AnswersPhone
<1>3. UNCHANGED <<session, db, panel, cast>> /\ Launch(Without(i), <<>>, doubt)
  BY DEF SanggahAnswered, Over
<1>4. CASE ~Ok(i)
  <2>1. app' = [app EXCEPT !.busy = FALSE]
    BY <1>4 DEF SanggahAnswered
  <2>2. inFlight[i].phase = "failed"
    BY <1>1, <1>4 DEF Served
  <2>3. app'.savings = app.savings /\ app'.applied = app.applied /\ AppOk(db, "Anggota", app')
    BY <2>1, AppIs DEF AppOk
  <2> QED
    BY <1>2, <1>3, <2>2, <2>3, PhoneFailed
<1>5. CASE Ok(i)
  <2> DEFINE l == inFlight[i].about
             g == [id |-> l, loan |-> inFlight[i].got]
  <2>1. app' = [app EXCEPT !.busy = FALSE, !.showSanggah = FALSE, !.applied = g]
    BY <1>5 DEF SanggahAnswered, Got, About
  <2>2. /\ CallOk(db, inFlight[i]) /\ inFlight[i].kind \in Kinds
        /\ l \in DOMAIN db.loans
    BY <1>1, CallIn DEF CallOk, AboutOk
  <2>3. Item("loan", l) \in Touched(db, inFlight[i])
    BY <1>1, <2>2, TouchedIs
  <2>4. Item("loan", l) \notin doubt => g.loan = db.loans[l]
    BY <1>1, <1>5, AppIs DEF AppliedKept
  <2>5. g.id = l /\ g = [id |-> g.id, loan |-> g.loan]
    OBVIOUS
  <2> HIDE DEF g, l
  <2>6. app'.savings = app.savings /\ app'.applied = g /\ AppOk(db, "Anggota", app')
    BY <2>1, <2>2, <2>5, AppIs DEF AppOk
  <2>7. /\ After(db, inFlight, doubt, inFlight', doubt', {i}, {}) /\ doubt' = doubt
        /\ Passed(db, inFlight, doubt, inFlight', doubt', {i})
        /\ \A j \in DOMAIN inFlight' :
               /\ j \in DOMAIN inFlight /\ j # i /\ Alike(inFlight[j], inFlight'[j])
               /\ inFlight'[j].live = inFlight[j].live
               /\ Touched(db, inFlight'[j]) = Touched(db, inFlight[j])
               /\ Served(inFlight'[j]) <=> Served(inFlight[j])
               /\ Booked(inFlight'[j]) <=> Booked(inFlight[j])
    BY <1>3, AfterIs
  <2>8. \A j \in DOMAIN inFlight \cap {i} : ~Booked(inFlight[j])
    BY <1>1 DEF Booked
  <2>9. SavingsKept(db, inFlight', doubt', member, app', "Anggota")
    <3>1. \A j \in DOMAIN inFlight \ {i} : inFlight'[j].live = inFlight[j].live
      BY <2>7 DEF After
    <3>2. \A j \in DOMAIN inFlight' : inFlight'[j].kind = "loadData" =>
              j \in DOMAIN inFlight \ {i} \/ inFlight'[j].about = member.id
      BY <2>7
    <3>3. Savings \in doubt => Savings \in doubt'
      BY <2>7
    <3> QED
      BY <1>2, <2>6, <2>7, <2>8, <3>1, <3>2, <3>3, AppIs, SavingsPassed
  <2>10. BalanceKept(db, inFlight', doubt', member)
    BY <2>7, <2>8, AppIs, BalancePassed
  <2>11. AppliedKept(db, inFlight', doubt', app')
    <3>1. \A j \in DOMAIN inFlight' : \A y : Item("loan", y) \in Touched(db, inFlight'[j]) =>
              \E k \in DOMAIN inFlight : Item("loan", y) \in Touched(db, inFlight[k])
      BY <2>7
    <3>2. /\ \A k \in DOMAIN inFlight' :
                 inFlight'[k].kind = "sanggahLoan" /\ Served(inFlight'[k])
                 /\ Item("loan", inFlight'[k].about) \notin doubt' =>
                     inFlight'[k].got = db.loans[inFlight'[k].about]
          /\ \A k \in DOMAIN inFlight' : inFlight'[k].kind = "applyLoan" /\ Served(inFlight'[k]) =>
                 /\ k \in DOMAIN inFlight \ {i} /\ inFlight'[k].got = inFlight[k].got
                    /\ inFlight[k].kind = "applyLoan" /\ Served(inFlight[k])
                 /\ inFlight'[k].got.loan = db.loans[inFlight'[k].got.id]
                 /\ \A j \in DOMAIN inFlight' :
                        /\ Item("loan", inFlight'[k].got.id) \notin Touched(db, inFlight'[j])
                        /\ j # k /\ inFlight'[j].kind = "applyLoan" /\ Served(inFlight'[j]) =>
                               inFlight'[j].got.id # inFlight'[k].got.id
      BY <2>7, <3>1, AppIs, AppliedCalls
    <3>3. Item("loan", app'.applied.id) \notin doubt' =>
              app'.applied.loan = db.loans[app'.applied.id]
      BY <2>4, <2>5, <2>6, <2>7
    <3>4. ASSUME NEW k \in DOMAIN inFlight, inFlight[k].kind = "applyLoan", Served(inFlight[k])
          PROVE  l # inFlight[k].got.id
      <4>1. Item("loan", inFlight[k].got.id) \notin Touched(db, inFlight[i])
        BY <3>4, AppIs DEF AppliedKept
      <4> QED
        BY <2>3, <4>1
    <3>5. \A k \in DOMAIN inFlight' : inFlight'[k].kind = "applyLoan" /\ Served(inFlight'[k]) =>
              app'.applied.id # inFlight'[k].got.id
      BY <2>5, <2>6, <3>2, <3>4
    <3> QED
      BY <3>2, <3>3, <3>5 DEF AppliedKept
  <2> QED
    BY <1>2, <1>3, <2>6, <2>7, <2>9, <2>10, <2>11, PhoneStep
<1> QED
  BY <1>4, <1>5

----------------------------------------------------------------------------
(* Calls that outlive their view *)

\* What goes on beside a view that it is not about.
LEMMA SideStep ==
  ASSUME IInv, ~loading, View # "Anggota", UNCHANGED <<session, db, app, panel, cast>>,
         NEW gone, NEW news, After(db, inFlight, doubt, inFlight', doubt', gone, news),
         \A n \in news : n.kind \in {"getMe", "login"} /\ (n.live = "mounted" => n.kind = "login"),
         doubt \subseteq doubt',
         \A i \in DOMAIN inFlight \cap gone :
             /\ inFlight[i].kind \in {"getMe", "login", "createSaving"}
             /\ Booked(inFlight[i]) => Balance \in doubt'
  PROVE  IInv'
<1>1. /\ db' = db /\ app' = app /\ cast' = cast /\ token' = token /\ stored' = stored
      /\ member' = member /\ loading' = loading /\ panel' = panel
  BY DEF session
<1>2. View' = View /\ loading = FALSE
  BY <1>1 DEF View, IInv, TypesOk, SessionOk
<1>3. \A n \in news : n.kind # "me" /\ n.kind \notin PanelKinds /\ (n.kind = "login" => n.kind \notin AppKinds)
  BY DEF PanelKinds, AppKinds, KycWrites, LoanWrites
<1>4. Placed(inFlight', View, token, loading)
  BY <1>2, <1>3, PlacedAfter DEF IInv, TypesOk
<1>5. CallsOk(db, inFlight') /\ Apart(db, inFlight') /\ Doubted(db, inFlight', doubt')
      /\ Passed(db, inFlight, doubt, inFlight', doubt', gone)
      /\ \A i \in DOMAIN inFlight \ gone : inFlight'[i].live = inFlight[i].live
  BY DEF After
<1>6. TypesOk'
  BY <1>1, <1>2, <1>4, <1>5 DEF IInv, TypesOk
<1>7. SavingsKept(db, inFlight', doubt', member, app, View) /\ AppliedKept(db, inFlight', doubt', app)
  <2>1. AppOk(db, View, app)
    BY DEF IInv, TypesOk
  <2> QED
    BY <1>4, <1>5, <2>1, PhoneKept
<1>8. BalanceKept(db, inFlight', doubt', member)
  BY <1>5, AppIs, BalancePassed
<1>9. /\ LoansKept(db, inFlight', doubt', panel) /\ KasKept(db, inFlight', doubt', panel)
      /\ MembersKept(db, inFlight', doubt', panel) /\ CardKept(db, inFlight', doubt', panel)
  <2>1. LoansKept(db, inFlight, doubt, panel) /\ KasKept(db, inFlight, doubt, panel)
        /\ MembersKept(db, inFlight, doubt, panel) /\ CardKept(db, inFlight, doubt, panel)
        /\ CallsOk(db, inFlight)
    BY DEF IInv, Kept, TypesOk
  <2>2. \A i \in DOMAIN inFlight \cap gone :
            inFlight[i].kind \notin LoanWrites \cup KycWrites \cup {"bailout", "approveKyc", "rejectKyc"}
    BY DEF LoanWrites, KycWrites
  <2>3. \A i \in DOMAIN inFlight : inFlight[i].kind = "loadAll" /\ Served(inFlight[i]) =>
            DOMAIN inFlight[i].got.loans \subseteq DOMAIN db.loans
    BY <2>1 DEF CallsOk, CallOk, GotOk, Served
  <2>4. LoansKept(db, inFlight', doubt', panel)
    BY <1>5, <2>1, <2>2, <2>3, LoansPassed
  <2>5. KasKept(db, inFlight', doubt', panel)
    BY <1>5, <2>1, <2>2, KasPassed
  <2>6. MembersKept(db, inFlight', doubt', panel)
    BY <1>5, <2>1, <2>2, MembersPassed
  <2>7. \A i \in DOMAIN inFlight' : i \in DOMAIN inFlight \ gone \/
            inFlight'[i].kind \notin KycWrites \cup {"loadAll", "getMemberDetail"}
    BY DEF After, Alike, KycWrites
  <2>8. \A i \in DOMAIN inFlight' :
            inFlight'[i].kind = "getMemberDetail" => panel.detailId = inFlight'[i].about
    BY <1>5, <2>1, <2>7 DEF Passed, Alike, CardKept
  <2>9. panel.credential # None /\ Item("member", panel.credential.id) \notin doubt' =>
            panel.credential.pw = db.pw[panel.credential.id]
    BY <2>1 DEF CardKept
  <2>10. panel.detail # None /\ Item("member", panel.detailId) \notin doubt' =>
             panel.detail = db.kyc[panel.detailId]
    BY <2>1 DEF CardKept
  <2>11. \A i \in DOMAIN inFlight' : \A m \in MembersIn(db) :
             (OnCard(panel, m) \/ panel.detailId = m)
             /\ (OnCard(panel, m) \/ panel.detailId = m => ~(i \in DOMAIN inFlight \ gone)) =>
                 /\ inFlight'[i].kind \in KycWrites /\ inFlight'[i].live = "mounted"
                    /\ inFlight'[i].about = m => Item("member", m) \in doubt'
                 /\ inFlight'[i].kind = "loadAll" => Item("member", m) \notin inFlight'[i].clean
    BY <2>7
  <2>12. CardKept(db, inFlight', doubt', panel)
    BY <1>5, <2>1, <2>8, <2>9, <2>10, <2>11, CardPassed
  <2> QED
    BY <2>4, <2>5, <2>6, <2>12
<1>10. Kept'
  BY <1>1, <1>2, <1>7, <1>8, <1>9 DEF Kept
<1> QED
  BY <1>1, <1>5, <1>6, <1>10 DEF IInv, Overlaps

LEMMA HandleLoginStep ==
  ASSUME IInv, NEW u, HandleLogin(u)
  PROVE  IInv'
<1> DEFINE n == Call("login", u, token)
<1>1. /\ View = "login" /\ u \in cast.accounts /\ Send("login", u)
      /\ UNCHANGED <<session, db, app, panel, cast>>
  BY SurfaceIs DEF HandleLogin
<1>2. ~loading
  BY <1>1 DEF View, ViewOf
<1>3. CallOk(db, n)
  <2>1. token \in DOMAIN db.role \cup {None} /\ u \in DOMAIN db.role
    BY <1>1, CastIs DEF IInv
  <2> QED
    BY <2>1, CallOkIs, PhoneKinds
<1>4. After(db, inFlight, doubt, inFlight', doubt', {}, {n}) /\ doubt \subseteq doubt'
  BY <1>1, <1>3, AfterSend
<1>5. n.kind = "login"
  BY CallIs
<1> HIDE DEF n
<1> DEFINE news == {n}
           gone == {}
<1>6. /\ \A r \in news : r.kind \in {"getMe", "login"} /\ (r.live = "mounted" => r.kind = "login")
      /\ After(db, inFlight, doubt, inFlight', doubt', gone, news)
      /\ \A i \in DOMAIN inFlight \cap gone :
             /\ inFlight[i].kind \in {"getMe", "login", "createSaving"}
             /\ Booked(inFlight[i]) => Balance \in doubt'
  BY <1>4, <1>5
<1> HIDE DEF news, gone
<1> QED
  BY <1>1, <1>2, <1>4, <1>6, SideStep

\* An answer that comes while no token is being checked.
LEMMA AnswersLate ==
  ASSUME IInv, NEW i \in DOMAIN inFlight, inFlight[i].phase \in {"done", "failed"},
         inFlight[i].kind # "me"
  PROVE  /\ ~loading /\ inFlight[i].live # "gone"
         /\ inFlight[i].live = "mounted" /\ inFlight[i].kind \in {"createSaving", "getMe"} =>
                View = "Anggota"
<1>1. CallOk(db, inFlight[i]) /\ Placed(inFlight, View, token, loading)
  BY CallIn DEF IInv, TypesOk
<1> QED
  BY <1>1, PhoneKinds DEF CallOk, Placed

\* A failed call of the deposit's, or of the login page.
LEMMA LateFailed ==
  ASSUME IInv, NEW i \in DOMAIN inFlight, inFlight[i].phase = "failed",
         inFlight[i].kind \in {"createSaving", "getMe", "login"},
         Over(i), UNCHANGED <<session, db, panel, cast>>,
         \/ app' = app
         \/ /\ inFlight[i].live = "mounted" /\ inFlight[i].kind # "login"
            /\ app' = DialogDone(app)
  PROVE  IInv'
<1>1. ~loading /\ (inFlight[i].live = "mounted" /\ inFlight[i].kind # "login" => View = "Anggota")
  BY AnswersLate
<1>2. Launch(Without(i), <<>>, doubt)
  BY DEF Over
<1>3. After(db, inFlight, doubt, inFlight', doubt', {i}, {}) /\ doubt' = doubt
  BY <1>2, AfterOver
<1>4. ~Booked(inFlight[i])
  BY DEF Booked
<1>5. CASE View = "Anggota"
  <2>1. AppOk(db, "Anggota", app') /\ app'.savings = app.savings /\ app'.applied = app.applied
    BY <1>5, AppIs DEF AppOk, DialogDone
  <2> QED
    BY <1>2, <1>5, <2>1, PhoneFailed
<1>6. CASE View # "Anggota"
  <2>1. app' = app
    BY <1>1, <1>6
  <2>2. \A j \in DOMAIN inFlight \cap {i} :
             /\ inFlight[j].kind \in {"getMe", "login", "createSaving"}
             /\ Booked(inFlight[j]) => Balance \in doubt'
    BY <1>4
  <2> QED
    BY <1>1, <1>3, <1>6, <2>1, <2>2, SideStep
<1> QED
  BY <1>5, <1>6

\* The call that refreshes the member, on behalf of a view that is there or not.
LEMMA RefreshCallIs ==
  ASSUME IInv, NEW live \in {"mounted", "unmounted"}, NEW n,
         n = [Call("getMe", None, token) EXCEPT !.live = live]
  PROVE  /\ CallOk(db, n) /\ ~Served(n) /\ n.kind = "getMe" /\ n.live = live
         /\ Touched(db, n) = {Balance}
<1> DEFINE r == Call("getMe", None, token)
<1>1. CallOk(db, r) /\ r.kind = "getMe" /\ r.phase = "sent" /\ IsCall(r)
  <2>1. token \in DOMAIN db.role \cup {None}
    BY CastIs DEF IInv
  <2>2. CallOk(db, r)
    BY <2>1, CallOkIs, PhoneKinds
  <2> QED
    BY <2>2, CallIs
<1>2. n = [r EXCEPT !.live = live]
  OBVIOUS
<1> HIDE DEF r
<1>3. n = [kind |-> r.kind, about |-> r.about, who |-> r.who, live |-> live,
           phase |-> r.phase, got |-> r.got, clean |-> r.clean]
  BY <1>1, <1>2 DEF IsCall
<1>4. /\ n.kind = "getMe" /\ n.about = r.about /\ n.who = r.who /\ n.live = live
      /\ n.phase = "sent" /\ n.got = r.got /\ n.clean = r.clean
  BY <1>1, <1>3
<1>5. Touched(db, n) = {Balance} /\ Touched(db, r) = {Balance}
  BY <1>1, <1>4, TouchedRead
<1>6. IsCall(n)
  BY <1>1, <1>3, <1>4 DEF IsCall
<1>7. AboutOk(db, n) /\ GotOk(db, n)
  BY <1>1, <1>4 DEF CallOk, AboutOk, GotOk
<1>8. CallOk(db, n)
  BY <1>1, <1>4, <1>5, <1>6, <1>7 DEF CallOk
<1> QED
  BY <1>4, <1>5, <1>8 DEF Served

LEMMA DepositAnsweredStep ==
  ASSUME IInv, NEW i \in DOMAIN inFlight, DepositAnswered(i)
  PROVE  IInv'
<1>1. /\ inFlight[i].kind = "createSaving" /\ inFlight[i].phase \in {"done", "failed"}
      /\ Ok(i) <=> Served(inFlight[i])
      /\ Ok(i) <=> Booked(inFlight[i])
      /\ Shown(i) <=> inFlight[i].live = "mounted"
  BY ArrivedIs DEF DepositAnswered, Ok, Served, Booked, Shown
<1>2. /\ ~loading /\ inFlight[i].live \in {"mounted", "unmounted"}
      /\ inFlight[i].live = "mounted" => View = "Anggota"
  BY <1>1, AnswersLate, CallIn DEF CallOk
<1>3. UNCHANGED <<session, db, panel, cast>>
  BY DEF DepositAnswered
<1>4. CASE ~Ok(i)
  <2>1. Over(i) /\ app' = IF Shown(i) THEN DialogDone(app) ELSE app
    BY <1>4 DEF DepositAnswered
  <2>2. inFlight[i].phase = "failed"
    BY <1>1, <1>4 DEF Served
  <2> QED
    BY <1>1, <1>3, <2>1, <2>2, LateFailed
<1>5. CASE Ok(i)
  <2> DEFINE n == [Call("getMe", None, token) EXCEPT !.live = inFlight[i].live]
             u == doubt \cup {Balance} \cup
                      (IF Shown(i) /\ About(i) # member.id THEN {Savings} ELSE {})
  <2>1. Launch(Without(i), <<n>>, u) /\ app' = IF Shown(i) THEN Listed(app, Got(i)) ELSE app
    BY <1>5 DEF DepositAnswered
  <2>2. /\ CallOk(db, n) /\ ~Served(n) /\ n.kind = "getMe" /\ n.live = inFlight[i].live
        /\ Touched(db, n) = {Balance}
    BY <1>2, RefreshCallIs
  <2>3. doubt \subseteq u /\ Balance \in u
    OBVIOUS
  <2>4. Shown(i) /\ inFlight[i].about # member.id => Savings \in u
    BY DEF About
  <2> HIDE DEF n, u
  <2>5. /\ After(db, inFlight, doubt, inFlight', doubt', {i}, {n})
        /\ u \subseteq doubt'
    BY <2>1, <2>2, <2>3, AfterOverSend
  <2>6. doubt \subseteq doubt' /\ Balance \in doubt'
    BY <2>3, <2>5
  <2> DEFINE news == {n}
             gone == {i}
  <2>7. /\ After(db, inFlight, doubt, inFlight', doubt', gone, news)
        /\ \A r \in news : r.kind = "getMe" /\ r.live = inFlight[i].live
        /\ \A j \in DOMAIN inFlight \cap gone : j = i
        /\ DOMAIN inFlight \cap gone = {i} /\ i \in gone
    BY <2>2, <2>5
  <2> HIDE DEF news, gone
  <2>8. CASE View # "Anggota"
    <3>1. app' = app /\ inFlight[i].live # "mounted"
      BY <1>1, <1>2, <2>1, <2>8
    <3>2. \A r \in news : r.kind \in {"getMe", "login"} /\ (r.live = "mounted" => r.kind = "login")
      BY <2>7, <3>1
    <3>3. \A j \in DOMAIN inFlight \cap gone :
              /\ inFlight[j].kind \in {"getMe", "login", "createSaving"}
              /\ Booked(inFlight[j]) => Balance \in doubt'
      BY <1>1, <2>6, <2>7
    <3> QED
      BY <1>2, <1>3, <2>6, <2>7, <2>8, <3>1, <3>2, <3>3, SideStep
  <2>9. CASE View = "Anggota" /\ inFlight[i].live # "mounted"
    <3>1. app' = app
      BY <1>1, <2>1, <2>9
    <3>2. Savings \in doubt
      BY <1>1, <1>5, <2>9, AppIs DEF SavingsKept
    <3>3. \A r \in news : /\ r.kind \in AppKinds /\ r.kind # "loadData"
                          /\ r.kind = "sanggahLoan" => app.applied # None /\ r.about = app.applied.id
      BY <2>7, PhoneKinds
    <3>4. \A j \in DOMAIN inFlight \cap gone :
              /\ Booked(inFlight[j]) => {Savings, Balance} \subseteq doubt'
              /\ inFlight[j].kind = "sanggahLoan" => ~Served(inFlight[j])
      BY <1>1, <2>6, <2>7, <3>2
    <3>5. AppOk(db, "Anggota", app')
      BY <2>9, <3>1 DEF IInv, TypesOk
    <3> QED
      BY <1>3, <2>6, <2>7, <2>9, <3>1, <3>3, <3>4, <3>5, PhoneQuiet
  <2>10. CASE inFlight[i].live = "mounted"
    <3>1. View = "Anggota" /\ app' = Listed(app, inFlight[i].got)
      BY <1>1, <1>2, <2>1, <2>10 DEF Got
    <3>2. /\ app'.savings = <<inFlight[i].got>> \o app.savings
          /\ app'.applied = app.applied /\ AppOk(db, "Anggota", app')
      <4> DEFINE s == <<inFlight[i].got>> \o app.savings
      <4>1. app' = [app EXCEPT !.savings = s]
        BY <3>1, AppIs DEF Listed
      <4> HIDE DEF s
      <4>2. app'.savings = s /\ app'.applied = app.applied /\ AppOk(db, "Anggota", app')
        BY <4>1, AppIs DEF AppOk
      <4> QED
        BY <4>2 DEF s
    <3>3. Passed(db, inFlight, doubt, inFlight', doubt', gone)
      BY <2>7 DEF After
    <3>4. Savings \in Touched(db, inFlight[i]) /\ inFlight[i].kind \in Writes
      BY <1>1, TouchedRead DEF Writes
    <3>5. ASSUME NEW j \in DOMAIN inFlight', inFlight'[j].kind # "getMe"
          PROVE  j \in DOMAIN inFlight /\ j # i /\ Alike(inFlight[j], inFlight'[j])
      <4>1. j \in DOMAIN inFlight \ gone
        BY <2>7, <3>5 DEF After, Alike
      <4> QED
        BY <2>7, <3>3, <4>1 DEF Passed
    <3>6. SavingsKept(db, inFlight', doubt', member, app', "Anggota")
      <4>1. ASSUME Savings \notin doubt'
            PROVE  /\ app'.savings = SavingsIn(db, member.id)
                   /\ \A j \in DOMAIN inFlight' : ~Booked(inFlight'[j])
        <5>1. inFlight[i].about = member.id /\ Savings \notin doubt
          BY <1>1, <2>4, <2>5, <2>6, <2>10, <4>1
        <5>2. app'.savings = SavingsIn(db, member.id)
          BY <1>1, <1>5, <3>1, <3>2, <5>1, AppIs DEF SavingsKept
        <5>3. ASSUME NEW j \in DOMAIN inFlight', Booked(inFlight'[j]) PROVE FALSE
          <6>1. j \in DOMAIN inFlight /\ j # i /\ inFlight[j].kind = "createSaving"
            BY <3>5, <5>3 DEF Booked, Alike
          <6>2. Savings \in Touched(db, inFlight[j]) /\ inFlight[j].kind \in Writes
            BY <6>1, TouchedRead DEF Writes
          <6>3. Savings \in doubt
            BY <2>10, <3>4, <6>1, <6>2, AppIs DEF Doubted
          <6> QED
            BY <5>1, <6>3
        <5> QED
          BY <5>2, <5>3
      <4>2. ASSUME NEW j \in DOMAIN inFlight', inFlight'[j].kind = "loadData",
                   Trusted(inFlight'[j], doubt', Savings)
            PROVE  inFlight'[j].about = member.id
                   /\ (Served(inFlight'[j]) => inFlight'[j].got = SavingsIn(db, member.id))
        <5>1. j \in DOMAIN inFlight \ gone /\ Alike(inFlight[j], inFlight'[j])
          BY <2>7, <3>5, <4>2
        <5>2. Savings \in Touched(db, inFlight[j]) /\ inFlight[j].kind = "loadData"
          BY <4>2, <5>1, TouchedRead DEF Alike
        <5>3. Trusted(inFlight[j], doubt, Savings)
          BY <3>3, <4>2, <5>1, <5>2, StillTrusted
        <5> QED
          BY <5>1, <5>2, <5>3, AppIs DEF SavingsKept, Alike, Served
      <4> QED
        BY <4>1, <4>2 DEF SavingsKept
    <3>7. BalanceKept(db, inFlight', doubt', member)
      BY <2>6, <3>3, AppIs, BalancePassed
    <3>8. AppliedKept(db, inFlight', doubt', app')
      <4>1. \A j \in DOMAIN inFlight' : \A l : Item("loan", l) \in Touched(db, inFlight'[j]) =>
                \E k \in DOMAIN inFlight : Item("loan", l) \in Touched(db, inFlight[k])
        <5>1. SUFFICES ASSUME NEW j \in DOMAIN inFlight', NEW l,
                              Item("loan", l) \in Touched(db, inFlight'[j])
                       PROVE  \E k \in DOMAIN inFlight : Item("loan", l) \in Touched(db, inFlight[k])
          OBVIOUS
        <5>2. CASE inFlight'[j].kind = "getMe"
          <6>1. Item("loan", l) # Balance
            BY ItemIs DEF Balance
          <6> QED
            BY <5>1, <5>2, <6>1, TouchedRead
        <5>3. CASE inFlight'[j].kind # "getMe"
          <6>1. j \in DOMAIN inFlight /\ Alike(inFlight[j], inFlight'[j])
            BY <3>5, <5>3
          <6>2. Touched(db, inFlight'[j]) = Touched(db, inFlight[j])
            BY <6>1 DEF Alike, Touched
          <6> QED
            BY <5>1, <6>1, <6>2
        <5> QED
          BY <5>2, <5>3
      <4>2. \A j \in DOMAIN inFlight \cap gone :
                inFlight[j].kind = "sanggahLoan" /\ Served(inFlight[j]) =>
                    Item("loan", inFlight[j].about) \in doubt'
        BY <1>1, <2>7
      <4> QED
        BY <2>6, <3>2, <3>3, <4>1, <4>2, AppIs, AppliedPassed
    <3>9. \A r \in news : r.kind \in AppKinds
      BY <2>7, PhoneKinds
    <3> QED
      BY <1>3, <2>7, <3>1, <3>2, <3>6, <3>7, <3>8, <3>9, PhoneStep
  <2> QED
    BY <2>8, <2>9, <2>10
<1> QED
  BY <1>4, <1>5

----------------------------------------------------------------------------
(* A view that goes, and one that is mounted *)

Lives(r, live) == [r EXCEPT !.live = live]

LEMMA LivesIs ==
  ASSUME NEW d, NEW r, CallOk(d, r), NEW live \in {"mounted", "unmounted", "gone"},
         live = "gone" => r.kind \in Writes /\ r.phase = "sent",
         live = "unmounted" => r.kind \in {"createSaving", "getMe"}
  PROVE  /\ CallOk(d, Lives(r, live)) /\ Alike(r, Lives(r, live)) /\ Lives(r, live).live = live
<1> DEFINE s == Lives(r, live)
<1>1. r = [kind |-> r.kind, about |-> r.about, who |-> r.who, live |-> r.live,
           phase |-> r.phase, got |-> r.got, clean |-> r.clean]
  BY DEF CallOk, IsCall
<1>2. s = [kind |-> r.kind, about |-> r.about, who |-> r.who, live |-> live,
           phase |-> r.phase, got |-> r.got, clean |-> r.clean]
  BY <1>1 DEF Lives
<1> HIDE DEF s
<1>3. /\ s.kind = r.kind /\ s.about = r.about /\ s.who = r.who /\ s.live = live
      /\ s.phase = r.phase /\ s.got = r.got /\ s.clean = r.clean
  BY <1>2
<1>4. Touched(d, s) = Touched(d, r)
  BY <1>3 DEF Touched
<1>5. IsCall(s)
  BY <1>2, <1>3 DEF IsCall
<1>6. AboutOk(d, s) /\ GotOk(d, s)
  BY <1>3 DEF CallOk, AboutOk, GotOk
<1>7. CallOk(d, s)
  BY <1>3, <1>4, <1>5, <1>6 DEF CallOk
<1>8. Alike(r, s)
  BY <1>3 DEF Alike
<1> QED
  BY <1>3, <1>7, <1>8 DEF s

\* What is left of the calls c of a view that went.
Left(d, c, rest) ==
    /\ DOMAIN rest \subseteq DOMAIN c
    /\ \A j \in DOMAIN rest :
           /\ CallOk(d, rest[j]) /\ Alike(c[j], rest[j])
           /\ rest[j].kind \in Writes \cup {"getMe", "login", "me"}
           /\ rest[j].live = "mounted" => rest[j].kind \in {"login", "me"}
           /\ Served(rest[j]) => rest[j].kind \in {"createSaving", "getMe", "login", "me"}

LEMMA UnmountedIs ==
  ASSUME NEW d, NEW c, CallsOk(d, c)
  PROVE  Left(d, c, Unmounted(c))
<1> DEFINE Goes(r) == r.kind \in Writes \/ r.kind \in {"getMe", "login", "me"}
           kept == {i \in DOMAIN c : /\ Goes(c[i])
                                     /\ c[i].live = "gone" => c[i].phase = "sent"
                                     /\ c[i].kind \in Writes \ {"createSaving"} =>
                                            c[i].phase = "sent"}
           live(r) == IF r.live = "gone" \/ r.kind \in {"login", "me"} THEN r.live
                      ELSE IF r.kind \in {"createSaving", "getMe"} THEN "unmounted" ELSE "gone"
           u == Unmounted(c)
<1>1. u = [i \in kept |-> [c[i] EXCEPT !.live = live(c[i])]]
  BY DEF Unmounted
<1>2. DOMAIN u = kept /\ \A j \in DOMAIN u : u[j] = Lives(c[j], live(c[j]))
  BY <1>1 DEF Lives
<1>3. kept \subseteq DOMAIN c
  OBVIOUS
<1>4. ASSUME NEW j \in DOMAIN u
      PROVE  /\ CallOk(d, u[j]) /\ Alike(c[j], u[j])
             /\ u[j].kind \in Writes \cup {"getMe", "login", "me"}
             /\ u[j].live = "mounted" => u[j].kind \in {"login", "me"}
             /\ Served(u[j]) => u[j].kind \in {"createSaving", "getMe", "login", "me"}
  <2>1. /\ j \in DOMAIN c /\ CallOk(d, c[j])
        /\ c[j].kind \in Writes \cup {"getMe", "login", "me"}
        /\ c[j].live = "gone" => c[j].phase = "sent"
        /\ c[j].kind \in Writes \ {"createSaving"} => c[j].phase = "sent"
    BY <1>2 DEF CallsOk
  <2>2. /\ live(c[j]) \in {"mounted", "unmounted", "gone"}
        /\ live(c[j]) = "gone" => c[j].kind \in Writes /\ c[j].phase = "sent"
        /\ live(c[j]) = "unmounted" => c[j].kind \in {"createSaving", "getMe"}
        /\ live(c[j]) = "mounted" => c[j].kind \in {"login", "me"}
    <3>1. c[j].kind \in {"login", "me"} => c[j].live = "mounted"
      BY <2>1 DEF CallOk, Writes
    <3>2. c[j].live = "gone" => c[j].kind \in Writes
      BY <2>1 DEF CallOk
    <3> QED
      BY <2>1, <3>1, <3>2
  <2>3. u[j] = Lives(c[j], live(c[j]))
    BY <1>2
  <2> HIDE DEF u, live
  <2>4. CallOk(d, u[j]) /\ Alike(c[j], u[j]) /\ u[j].live = live(c[j])
    BY <2>1, <2>2, <2>3, LivesIs
  <2>5. u[j].kind = c[j].kind /\ u[j].phase = c[j].phase
    BY <2>4 DEF Alike
  <2> QED
    BY <2>1, <2>2, <2>4, <2>5 DEF Served
<1> QED
  BY <1>2, <1>3, <1>4 DEF Left

LEMMA BalanceMoved ==
  ASSUME NEW d, NEW c, NEW u, NEW m, NEW cN, NEW uN, NEW mN,
         BalanceKept(d, c, u, m),
         \A j \in DOMAIN cN : Served(cN[j]) =>
             /\ j \in DOMAIN c /\ Alike(c[j], cN[j])
             /\ Balance \in Touched(d, cN[j]) /\ Balance \in u => Balance \in uN,
         CallsOk(d, cN),
         (mN # None /\ Balance \notin uN /\ \A j \in DOMAIN cN : ~Booked(cN[j])) =>
             mN.balance = d.rows[mN.id]
  PROVE  BalanceKept(d, cN, uN, mN)
<1>1. ASSUME NEW j \in DOMAIN cN, cN[j].kind \in {"login", "me", "getMe"}, Served(cN[j]),
             Trusted(cN[j], uN, Balance)
      PROVE  cN[j].got.balance = d.rows[cN[j].got.id]
  <2>1. Balance \in Touched(d, cN[j])
    BY <1>1, TouchedRead
  <2>2. Alike(c[j], cN[j]) /\ Trusted(c[j], u, Balance) /\ j \in DOMAIN c
    BY <1>1, <2>1 DEF Trusted, Alike
  <2> QED
    BY <1>1, <2>2 DEF BalanceKept, Alike, Served
<1> QED
  BY <1>1 DEF BalanceKept

\* The calls that remain, and at most one more.
LEMMA LaunchedRest ==
  ASSUME NEW rest, NEW new, NEW unsure, Launch(rest, new, unsure), cast.calls \in Nat,
         CallsOk(db, rest), Apart(db, rest), Doubted(db, rest, unsure),
         new = <<>> \/ \E n : new = <<n>> /\ CallOk(db, n)
  PROVE  /\ unsure \subseteq doubt'
         /\ \A j \in DOMAIN inFlight' :
                \/ /\ j \in DOMAIN rest /\ Alike(rest[j], inFlight'[j])
                   /\ inFlight'[j].live = rest[j].live
                \/ \E n : /\ new = <<n>> /\ Alike(n, inFlight'[j])
                          /\ inFlight'[j].live = n.live
         /\ DOMAIN rest \subseteq DOMAIN inFlight'
         /\ \A j, k \in DOMAIN inFlight' \ DOMAIN rest : j = k
         /\ \A j \in DOMAIN rest : inFlight'[j].kind = rest[j].kind
                                   /\ inFlight'[j].phase = rest[j].phase
         /\ CallsOk(db, inFlight') /\ Apart(db, inFlight') /\ Doubted(db, inFlight', doubt')
<1>1. CASE new = <<>>
  <2>1. /\ doubt' = unsure
        /\ DOMAIN inFlight' = DOMAIN rest
        /\ \A i \in DOMAIN rest : inFlight'[i] = rest[i]
        /\ CallsOk(db, inFlight') /\ Apart(db, inFlight') /\ Doubted(db, inFlight', doubt')
    BY <1>1, LaunchedNone
  <2> QED
    BY <2>1 DEF Alike
<1>2. ASSUME NEW n, new = <<n>>, CallOk(db, n)
      PROVE  /\ unsure \subseteq doubt'
             /\ \A j \in DOMAIN inFlight' :
                    \/ /\ j \in DOMAIN rest /\ Alike(rest[j], inFlight'[j])
                       /\ inFlight'[j].live = rest[j].live
                    \/ Alike(n, inFlight'[j]) /\ inFlight'[j].live = n.live
             /\ DOMAIN rest \subseteq DOMAIN inFlight'
             /\ \A j, k \in DOMAIN inFlight' \ DOMAIN rest : j = k
             /\ \A j \in DOMAIN rest : inFlight'[j].kind = rest[j].kind
                                       /\ inFlight'[j].phase = rest[j].phase
             /\ CallsOk(db, inFlight') /\ Apart(db, inFlight') /\ Doubted(db, inFlight', doubt')
  <2> DEFINE others == UNION {Touched(db, rest[i]) : i \in DOMAIN rest}
  <2>1. Launch(rest, <<n>>, unsure)
    BY <1>2
  <2>2. /\ doubt' = unsure \cup (Touched(db, n) \cap others)
        /\ \E k : /\ k \notin DOMAIN rest
                  /\ DOMAIN inFlight' = DOMAIN rest \cup {k}
                  /\ inFlight'[k] = Less(n, n.clean \ others)
                  /\ \A i \in DOMAIN rest :
                         inFlight'[i] = Less(rest[i], rest[i].clean \ Touched(db, n))
        /\ CallsOk(db, inFlight') /\ Apart(db, inFlight') /\ Doubted(db, inFlight', doubt')
    BY <1>2, <2>1, LaunchedOne
  <2> HIDE DEF others
  <2>3. PICK k : /\ k \notin DOMAIN rest
                 /\ DOMAIN inFlight' = DOMAIN rest \cup {k}
                 /\ inFlight'[k] = Less(n, n.clean \ others)
                 /\ \A i \in DOMAIN rest :
                        inFlight'[i] = Less(rest[i], rest[i].clean \ Touched(db, n))
    BY <2>2
  <2>4. Alike(n, inFlight'[k]) /\ inFlight'[k].live = n.live
    <3>1. n.clean \ others \subseteq n.clean
      OBVIOUS
    <3> QED
      BY <1>2, <2>3, <3>1, CleanLess
  <2>5. ASSUME NEW j \in DOMAIN rest
        PROVE  Alike(rest[j], inFlight'[j]) /\ inFlight'[j].live = rest[j].live
    <3> DEFINE r == rest[j]
               S == r.clean \ Touched(db, n)
    <3>1. inFlight'[j] = Less(r, S) /\ CallOk(db, r) /\ S \subseteq r.clean
      BY <2>3 DEF CallsOk
    <3> HIDE DEF r, S
    <3>2. Alike(r, inFlight'[j]) /\ inFlight'[j].live = r.live
      BY <3>1, CleanLess
    <3> QED
      BY <3>2 DEF r
  <2> QED
    BY <2>2, <2>3, <2>4, <2>5 DEF Alike
<1>3. CASE new # <<>>
  <2>1. PICK n : new = <<n>> /\ CallOk(db, n)
    BY <1>3
  <2> QED
    BY <1>2, <2>1
<1> QED
  BY <1>1, <1>3

LEMMA LeftKeeps ==
  ASSUME IInv, NEW rest, Left(db, inFlight, rest), NEW unsure,
         \A j \in DOMAIN rest : Balance \in Touched(db, rest[j]) /\ Balance \in doubt => Balance \in unsure
  PROVE  CallsOk(db, rest) /\ Apart(db, rest) /\ Doubted(db, rest, unsure)
<1>1. \A j \in DOMAIN rest : /\ j \in DOMAIN inFlight /\ Alike(inFlight[j], rest[j])
                             /\ CallOk(db, rest[j])
  BY DEF Left
<1>2. \A j \in DOMAIN rest : Touched(db, rest[j]) = Touched(db, inFlight[j])
  BY <1>1 DEF Alike, Touched
<1>3. CallsOk(db, rest)
  BY <1>1 DEF CallsOk
<1>4. Apart(db, rest)
  BY <1>1, <1>2, AppIs DEF Apart, Alike
<1>5. ASSUME NEW i \in DOMAIN rest, NEW j \in DOMAIN rest, i # j, rest[i].kind \in Writes,
             NEW x \in Touched(db, rest[i]) \cap Touched(db, rest[j]),
             rest[j].live = "mounted" \/ x = Balance
      PROVE  x \in unsure
  <2>1. x = Balance
    <3>1. CASE rest[j].live = "mounted"
      <4>1. rest[j].kind \in {"login", "me"}
        BY <3>1 DEF Left
      <4> QED
        BY <1>5, <4>1, TouchedRead
    <3> QED
      BY <1>5, <3>1
  <2>2. /\ i \in DOMAIN inFlight /\ j \in DOMAIN inFlight /\ inFlight[i].kind \in Writes
        /\ Balance \in Touched(db, inFlight[i]) \cap Touched(db, inFlight[j])
    BY <1>1, <1>2, <1>5, <2>1 DEF Alike
  <2>3. Balance \in doubt
    BY <1>5, <2>2, AppIs DEF Doubted
  <2> QED
    BY <1>5, <2>1, <2>3
<1>6. Doubted(db, rest, unsure)
  BY <1>5 DEF Doubted
<1> QED
  BY <1>3, <1>4, <1>6

\* What a view is mounted with.
FirstCall(d, n, tok, ld, m, view) ==
    /\ CallOk(d, n) /\ ~Served(n) /\ n.live = "mounted"
    /\ \/ n.kind = "me" /\ n.who = tok /\ ld
       \/ n.kind = "loadData" /\ view = "Anggota" /\ n.about = m.id /\ ~ld
       \/ n.kind = "loadAll" /\ view = "Pengurus" /\ ~ld

LEMMA MovedStep ==
  ASSUME IInv, db' = db, cast' = cast, SessionOk(db, token', stored', member', loading'),
         app' = FreshApp, panel' = FreshPanel,
         NEW rest, Left(db, inFlight, rest), NEW new, NEW unsure, Launch(rest, new, unsure),
         \/ new = <<>>
         \/ \E n : new = <<n>> /\ FirstCall(db, n, token', loading', member', View'),
         \A j \in DOMAIN rest :
             /\ rest[j].kind # "me" /\ (loading' => rest[j].live = "gone")
             /\ Balance \in Touched(db, rest[j]) /\ Balance \in doubt => Balance \in unsure,
         View' = "Anggota" => Savings \in unsure,
         (member' # None /\ Balance \notin unsure /\ \A j \in DOMAIN rest : ~Booked(rest[j])) =>
             member'.balance = db.rows[member'.id]
  PROVE  IInv'
<1>1. CallsOk(db, rest) /\ Apart(db, rest) /\ Doubted(db, rest, unsure)
  BY LeftKeeps
<1>2. cast.calls \in Nat
  BY CastIs DEF IInv
<1>3. new = <<>> \/ \E n : new = <<n>> /\ CallOk(db, n)
  BY DEF FirstCall
<1>4. /\ unsure \subseteq doubt'
      /\ \A j \in DOMAIN inFlight' :
             \/ /\ j \in DOMAIN rest /\ Alike(rest[j], inFlight'[j])
                /\ inFlight'[j].live = rest[j].live
             \/ \E n : /\ new = <<n>> /\ Alike(n, inFlight'[j])
                       /\ inFlight'[j].live = n.live
      /\ DOMAIN rest \subseteq DOMAIN inFlight'
      /\ \A j, k \in DOMAIN inFlight' \ DOMAIN rest : j = k
      /\ \A j \in DOMAIN rest : inFlight'[j].kind = rest[j].kind
                                /\ inFlight'[j].phase = rest[j].phase
      /\ CallsOk(db, inFlight') /\ Apart(db, inFlight') /\ Doubted(db, inFlight', doubt')
  BY <1>1, <1>2, <1>3, LaunchedRest
<1>5. ASSUME NEW j \in DOMAIN inFlight'
      PROVE  \/ /\ j \in DOMAIN rest /\ Alike(rest[j], inFlight'[j])
                /\ inFlight'[j].live = rest[j].live
             \/ /\ ~Served(inFlight'[j]) /\ inFlight'[j].live = "mounted"
                /\ \/ inFlight'[j].kind = "me" /\ inFlight'[j].who = token' /\ loading'
                   \/ /\ inFlight'[j].kind = "loadData" /\ View' = "Anggota"
                      /\ inFlight'[j].about = member'.id /\ ~loading'
                   \/ inFlight'[j].kind = "loadAll" /\ View' = "Pengurus" /\ ~loading'
  <2>1. ASSUME NEW n, new = <<n>>, Alike(n, inFlight'[j]), inFlight'[j].live = n.live
        PROVE  /\ ~Served(inFlight'[j]) /\ inFlight'[j].live = "mounted"
               /\ \/ inFlight'[j].kind = "me" /\ inFlight'[j].who = token' /\ loading'
                  \/ /\ inFlight'[j].kind = "loadData" /\ View' = "Anggota"
                     /\ inFlight'[j].about = member'.id /\ ~loading'
                  \/ inFlight'[j].kind = "loadAll" /\ View' = "Pengurus" /\ ~loading'
    <3>1. PICK r : new = <<r>> /\ FirstCall(db, r, token', loading', member', View')
      BY <2>1
    <3>2. r = n
      <4>1. <<r>>[1] = r /\ <<n>>[1] = n /\ <<r>> = <<n>>
        BY <2>1, <3>1
      <4> QED
        BY <4>1
    <3> QED
      BY <2>1, <3>1, <3>2 DEF FirstCall, Alike, Served
  <2> QED
    BY <1>4, <2>1
<1>6. \A j \in DOMAIN rest :
          /\ rest[j].kind \in Writes \cup {"getMe", "login", "me"}
          /\ rest[j].live = "mounted" => rest[j].kind \in {"login", "me"}
          /\ Served(rest[j]) => rest[j].kind \in {"createSaving", "getMe", "login", "me"}
          /\ j \in DOMAIN inFlight /\ Alike(inFlight[j], rest[j])
  BY DEF Left
<1>7. /\ {"login", "me"} \cap (AppKinds \cup PanelKinds) = {} /\ "loadData" \notin PanelKinds
      /\ "loadAll" \notin AppKinds
      /\ {"loadData", "getMemberDetail"} \cap (Writes \cup {"getMe", "login", "me"}) = {}
  BY DEF AppKinds, PanelKinds, KycWrites, LoanWrites, Writes
<1>8. Placed(inFlight', View', token', loading')
  <2>1. ASSUME NEW j \in DOMAIN inFlight'
        PROVE  /\ inFlight'[j].live = "mounted" /\ inFlight'[j].kind \in AppKinds => View' = "Anggota"
               /\ inFlight'[j].live = "mounted" /\ inFlight'[j].kind \in PanelKinds => View' = "Pengurus"
               /\ inFlight'[j].kind = "me" =>
                      loading' /\ inFlight'[j].who = token' /\ j \notin DOMAIN rest
               /\ loading' => inFlight'[j].kind = "me" \/ inFlight'[j].live = "gone"
    <3>1. CASE j \in DOMAIN rest /\ Alike(rest[j], inFlight'[j]) /\ inFlight'[j].live = rest[j].live
      BY <1>6, <1>7, <3>1 DEF Alike
    <3>2. CASE ~(j \in DOMAIN rest /\ Alike(rest[j], inFlight'[j]) /\ inFlight'[j].live = rest[j].live)
      BY <1>4, <1>5, <1>7, <3>2
    <3> QED
      BY <3>1, <3>2
  <2>2. \A j, k \in DOMAIN inFlight' : inFlight'[j].kind = "me" /\ inFlight'[k].kind = "me" => j = k
    BY <1>4, <2>1
  <2> QED
    BY <2>1, <2>2 DEF Placed
<1>9. View' = ViewOf(db, loading', member')
  BY DEF View
<1>10. TypesOk'
  <2>1. AppOk(db, View', FreshApp) /\ PanelOk(db, View', FreshPanel)
    BY DEF AppOk, PanelOk, FreshApp, FreshPanel
  <2>2. cast \in Casts /\ db.role = cast.db.role /\ DbOk(db)
    BY DEF IInv, TypesOk
  <2> QED
    BY <1>4, <1>8, <2>1, <2>2 DEF TypesOk
<1>11. \A j \in DOMAIN inFlight' :
           /\ Served(inFlight'[j]) => inFlight'[j].kind \in {"login", "me", "getMe", "createSaving"}
           /\ inFlight'[j].kind = "loadData" => inFlight'[j].about = member'.id
           /\ inFlight'[j].kind # "getMemberDetail"
  <2>1. ASSUME NEW j \in DOMAIN inFlight'
        PROVE  /\ Served(inFlight'[j]) => inFlight'[j].kind \in {"login", "me", "getMe", "createSaving"}
               /\ inFlight'[j].kind = "loadData" => inFlight'[j].about = member'.id
               /\ inFlight'[j].kind # "getMemberDetail"
    <3>1. CASE j \in DOMAIN rest /\ Alike(rest[j], inFlight'[j])
      BY <1>6, <1>7, <3>1 DEF Alike, Served
    <3>2. CASE ~(j \in DOMAIN rest /\ Alike(rest[j], inFlight'[j]))
      BY <1>5, <3>2
    <3> QED
      BY <3>1, <3>2
  <2> QED
    BY <2>1
<1>12. /\ SavingsKept(db, inFlight', doubt', member', FreshApp, View')
       /\ AppliedKept(db, inFlight', doubt', FreshApp)
       /\ LoansKept(db, inFlight', doubt', FreshPanel) /\ KasKept(db, inFlight', doubt', FreshPanel)
       /\ MembersKept(db, inFlight', doubt', FreshPanel) /\ CardKept(db, inFlight', doubt', FreshPanel)
  <2>1. DbOk(db)
    BY DEF IInv, TypesOk
  <2>2. View' = "Anggota" => Savings \in doubt'
    BY <1>4
  <2> QED
    BY <1>4, <1>8, <1>11, <2>1, <2>2, FreshKept
<1>13. BalanceKept(db, inFlight', doubt', member')
  <2>1. ASSUME NEW j \in DOMAIN inFlight', Served(inFlight'[j])
        PROVE  /\ j \in DOMAIN inFlight /\ Alike(inFlight[j], inFlight'[j])
               /\ Balance \in Touched(db, inFlight'[j]) /\ Balance \in doubt => Balance \in doubt'
    <3>1. j \in DOMAIN rest /\ Alike(rest[j], inFlight'[j])
      BY <1>5, <2>1
    <3>2. j \in DOMAIN inFlight /\ Alike(inFlight[j], rest[j])
      BY <1>6, <3>1
    <3>3. Alike(inFlight[j], inFlight'[j])
      BY <3>1, <3>2 DEF Alike
    <3>4. Touched(db, inFlight'[j]) = Touched(db, rest[j])
      BY <3>1 DEF Alike, Touched
    <3> QED
      BY <1>4, <3>1, <3>2, <3>3, <3>4
  <2>2. ASSUME member' # None, Balance \notin doubt', \A j \in DOMAIN inFlight' : ~Booked(inFlight'[j])
        PROVE  member'.balance = db.rows[member'.id]
    <3>1. \A j \in DOMAIN rest : ~Booked(rest[j])
      BY <1>4, <2>2 DEF Booked
    <3> QED
      BY <1>4, <2>2, <3>1
  <2> QED
    BY <1>4, <2>1, <2>2, AppIs, BalanceMoved
<1>14. Kept' /\ Overlaps'
  BY <1>4, <1>12, <1>13 DEF Kept, Overlaps
<1> QED
  BY <1>10, <1>14 DEF IInv

\* Rendering with another view than before.
LEMMA RerenderMoved ==
  ASSUME IInv, UNCHANGED <<db, cast>>, SessionOk(db, token', stored', member', loading'), ~loading',
         NEW c, DOMAIN c \subseteq DOMAIN inFlight, \A j \in DOMAIN c : c[j] = inFlight[j],
         \A j \in DOMAIN c : c[j].kind # "me",
         NEW fresh, NEW a, NEW unsure, Rerender(c, fresh, a, unsure), View' # View,
         \A j \in DOMAIN c : Balance \in Touched(db, c[j]) /\ Balance \in doubt => Balance \in unsure,
         member' # None /\ Balance \notin unsure => member'.balance = db.rows[member'.id]
  PROVE  IInv'
<1> DEFINE reads == View' \in {"Anggota", "Pengurus"}
           new == IF reads THEN <<Loads(member'.id, token')>> ELSE <<>>
           unknown == IF View' = "Anggota" THEN {Savings}
                      ELSE IF View' = "Pengurus" THEN PanelItems ELSE {}
           kept == (unsure \cap {Balance}) \cup unknown
           rest == Unmounted(c)
<1>1. Launch(rest, new, kept) /\ app' = FreshApp /\ panel' = FreshPanel
  <2>1. Surface' = View' /\ Surface = View
    BY DEF Surface, View, ViewOf
  <2>2. /\ Launch(IF Surface' # Surface THEN Unmounted(c) ELSE c,
                  IF (Surface' # Surface /\ Surface' \in {"Anggota", "Pengurus"})
                     \/ (fresh /\ Surface' = "Anggota")
                  THEN <<Loads(member'.id, token')>> ELSE <<>>,
                  (IF Surface' # Surface THEN unsure \cap {Balance} ELSE unsure) \cup
                  (IF Surface' = "Anggota" /\ (Surface' # Surface \/ member'.id # member.id) THEN {Savings}
                   ELSE IF Surface' = "Pengurus" /\ Surface' # Surface THEN PanelItems ELSE {}))
        /\ app' = IF Surface' # Surface THEN FreshApp ELSE a
        /\ panel' = IF Surface' # Surface THEN FreshPanel ELSE panel
    BY DEF Rerender
  <2>3. ((Surface' # Surface /\ Surface' \in {"Anggota", "Pengurus"})
         \/ (fresh /\ Surface' = "Anggota")) <=> reads
    BY <2>1
  <2>4. (IF Surface' = "Anggota" /\ (Surface' # Surface \/ member'.id # member.id) THEN {Savings}
         ELSE IF Surface' = "Pengurus" /\ Surface' # Surface THEN PanelItems ELSE {}) = unknown
    BY <2>1
  <2> HIDE DEF reads, unknown
  <2> QED
    BY <2>1, <2>2, <2>3, <2>4
<1>2. db' = db /\ cast' = cast
  OBVIOUS
<1>3. Left(db, inFlight, rest)
  <2>1. CallsOk(db, c)
    BY AppIs DEF CallsOk
  <2>2. Left(db, c, rest)
    BY <2>1, UnmountedIs
  <2> HIDE DEF rest
  <2> QED
    BY <2>2 DEF Left
<1>4. new = <<>> \/ \E n : new = <<n>> /\ FirstCall(db, n, token', loading', member', View')
  <2>1. SUFFICES ASSUME reads
                 PROVE  FirstCall(db, Loads(member'.id, token'), token', loading', member', View')
    OBVIOUS
  <2>2. View' = IF loading' THEN "splash" ELSE IF member' = None THEN "login" ELSE db.role[member'.id]
    BY DEF View, ViewOf
  <2>3. member' # None /\ db.role[member'.id] = View'
    BY <2>1, <2>2
  <2>4. member'.id \in DOMAIN db.role /\ token' \in DOMAIN db.role \cup {None}
    BY <2>3 DEF SessionOk, RowIn
  <2>5. CASE View' = "Anggota"
    <3>1. Loads(member'.id, token') = Call("loadData", member'.id, token')
      BY <2>3, <2>5 DEF Loads
    <3>2. CallOk(db, Call("loadData", member'.id, token'))
      BY <2>4, CallOkIs, PhoneKinds
    <3> QED
      BY <2>5, <3>1, <3>2, CallIs DEF FirstCall
  <2>6. CASE View' = "Pengurus"
    <3>1. Loads(member'.id, token') = Call("loadAll", None, token')
      BY <2>3, <2>6 DEF Loads
    <3>2. CallOk(db, Call("loadAll", None, token'))
      <4>1. "loadAll" \in Kinds /\ "loadAll" \notin KycWrites \cup LoanWrites
        BY DEF Kinds, PanelKinds, KycWrites, LoanWrites
      <4> QED
        BY <2>4, <4>1, CallOkIs
    <3> QED
      BY <2>6, <3>1, <3>2, CallIs DEF FirstCall
  <2> QED
    BY <2>1, <2>5, <2>6
<1>5. \A j \in DOMAIN rest :
          /\ rest[j].kind # "me" /\ (loading' => rest[j].live = "gone")
          /\ Balance \in Touched(db, rest[j]) /\ Balance \in doubt => Balance \in kept
  <2>1. CallsOk(db, c)
    BY AppIs DEF CallsOk
  <2>2. Left(db, c, rest)
    BY <2>1, UnmountedIs
  <2> HIDE DEF rest
  <2>3. ASSUME NEW j \in DOMAIN rest
        PROVE  j \in DOMAIN c /\ rest[j].kind = c[j].kind /\ Touched(db, rest[j]) = Touched(db, c[j])
    BY <2>2 DEF Left, Alike, Touched
  <2> QED
    BY <2>3
<1>6. View' = "Anggota" => Savings \in kept
  OBVIOUS
<1>7. Balance \notin kept => Balance \notin unsure
  OBVIOUS
<1> HIDE DEF rest, new, kept
<1> QED
  BY <1>1, <1>2, <1>3, <1>4, <1>5, <1>6, <1>7, MovedStep

LEMMA LogoutStep ==
  ASSUME IInv, Logout
  PROVE  IInv'
<1>1. /\ View \in {"Anggota", "Pengurus"}
      /\ token' = None /\ stored' = None /\ member' = None /\ loading' = loading
      /\ UNCHANGED <<db, cast>> /\ Rerender(inFlight, FALSE, app, doubt)
  BY SurfaceIs DEF Logout, Leavable, OnDesk, ForgetSession
<1>2. ~loading' /\ loading = FALSE
  BY <1>1, ViewIs DEF IInv, TypesOk, SessionOk
<1>3. View' = "login"
  BY <1>1, <1>2 DEF View, ViewOf
<1>4. SessionOk(db, token', stored', member', loading')
  BY <1>1, <1>2 DEF SessionOk
<1>5. \A j \in DOMAIN inFlight : inFlight[j].kind # "me"
  BY <1>2 DEF IInv, TypesOk, Placed
<1>6. DOMAIN inFlight \subseteq DOMAIN inFlight
  OBVIOUS
<1>7. \A j \in DOMAIN inFlight : Balance \in Touched(db, inFlight[j]) /\ Balance \in doubt => Balance \in doubt
  OBVIOUS
<1>8. View' # View
  BY <1>1, <1>3
<1> QED
  BY <1>1, <1>2, <1>4, <1>5, <1>6, <1>7, <1>8, RerenderMoved

LEMMA MeStep ==
  ASSUME IInv, NEW i \in DOMAIN inFlight, Me(i)
  PROVE  IInv'
<1>1. /\ inFlight[i].kind = "me" /\ inFlight[i].phase \in {"done", "failed"}
      /\ Ok(i) <=> Served(inFlight[i])
  BY ArrivedIs DEF Me, Ok, Served
<1>2. /\ loading' = FALSE /\ UNCHANGED <<db, cast>>
      /\ IF Ok(i) THEN token' = token /\ stored' = inFlight[i].got /\ member' = inFlight[i].got
         ELSE token' = None /\ stored' = None /\ member' = None
      /\ Rerender(Without(i), TRUE, app, Cleared(i))
  BY DEF Me, ForgetSession, Got
<1>3. View = "splash" /\ \A j \in DOMAIN inFlight : inFlight[j].kind = "me" => j = i
  BY <1>1 DEF IInv, TypesOk, Placed, View, ViewOf
<1>4. Ok(i) => inFlight[i].got \in RowIn(db)
  BY <1>1, CallIn DEF CallOk, GotOk, Served
<1>5. SessionOk(db, token', stored', member', loading')
  BY <1>2, <1>4 DEF SessionOk, IInv, TypesOk
<1>6. View' \in {"login", "Anggota", "Pengurus"}
  <2>1. View' = IF member' = None THEN "login" ELSE db.role[member'.id]
    BY <1>2 DEF View, ViewOf
  <2>2. member' # None => member'.id \in DOMAIN db.role
    BY <1>5 DEF SessionOk, RowIn
  <2>3. \A m \in DOMAIN db.role : db.role[m] \in {"Anggota", "Pengurus"}
    BY AppIs DEF DbOk
  <2> QED
    BY <2>1, <2>2, <2>3
<1>7. /\ DOMAIN Without(i) \subseteq DOMAIN inFlight
      /\ \A j \in DOMAIN Without(i) : Without(i)[j] = inFlight[j]
      /\ \A j \in DOMAIN Without(i) : Without(i)[j].kind # "me"
  BY <1>3, WithoutIs
<1>8. \A j \in DOMAIN Without(i) :
          Balance \in Touched(db, Without(i)[j]) /\ Balance \in doubt => Balance \in Cleared(i)
  <2>1. Overlaps
    BY DEF IInv
  <2>2. ASSUME NEW j \in DOMAIN Without(i), Balance \in Touched(db, Without(i)[j]), Balance \in doubt
        PROVE  Balance \in Cleared(i)
    <3>1. j \in DOMAIN inFlight /\ j # i /\ Balance \in Touched(db, inFlight[j])
      BY <2>2, WithoutIs
    <3> QED
      BY <2>1, <2>2, <3>1, ClearedKeeps
  <2> QED
    BY <2>2
<1>9. member' # None /\ Balance \notin Cleared(i) => member'.balance = db.rows[member'.id]
  <2>1. ASSUME Ok(i), Balance \notin Cleared(i)
        PROVE  inFlight[i].got.balance = db.rows[inFlight[i].got.id]
    <3>1. Trusted(inFlight[i], doubt, Balance)
      BY <2>1 DEF Trusted, Cleared
    <3> QED
      BY <1>1, <2>1, <3>1, AppIs DEF BalanceKept
  <2> QED
    BY <1>2, <2>1
<1>10. View' # View /\ ~loading'
  BY <1>2, <1>3, <1>6
<1> QED
  BY <1>2, <1>5, <1>7, <1>8, <1>9, <1>10, RerenderMoved

\* The member is another object, and the view the same.
LEMMA SameViewStep ==
  ASSUME IInv, ~loading, UNCHANGED <<loading, db, panel, cast>>, View' = View,
         SessionOk(db, token', stored', member', loading'),
         NEW gone, NEW news, After(db, inFlight, doubt, inFlight', doubt', gone, news),
         \A n \in news : n.kind = "loadData" /\ View = "Anggota",
         AppOk(db, View, app'),
         SavingsKept(db, inFlight', doubt', member', app', View),
         BalanceKept(db, inFlight', doubt', member'),
         AppliedKept(db, inFlight', doubt', app'),
         LoansKept(db, inFlight', doubt', panel), KasKept(db, inFlight', doubt', panel),
         MembersKept(db, inFlight', doubt', panel), CardKept(db, inFlight', doubt', panel)
  PROVE  IInv'
<1>1. /\ db' = db /\ panel' = panel /\ cast' = cast /\ loading' = loading /\ loading = FALSE
  BY DEF IInv, TypesOk, SessionOk
<1>2. \A n \in news : n.kind # "me" /\ n.kind \notin PanelKinds
  BY DEF PanelKinds, KycWrites, LoanWrites
<1>3. Placed(inFlight', View, token, FALSE)
  BY <1>1, <1>2, PlacedAfter DEF IInv, TypesOk
<1>4. Placed(inFlight', View, token', FALSE)
  BY <1>3 DEF Placed
<1>5. CallsOk(db, inFlight') /\ Apart(db, inFlight') /\ Doubted(db, inFlight', doubt')
  BY DEF After
<1>6. TypesOk'
  BY <1>1, <1>4, <1>5 DEF IInv, TypesOk
<1>7. Kept'
  BY <1>1 DEF Kept
<1> QED
  BY <1>1, <1>5, <1>6, <1>7 DEF IInv, Overlaps

\* What the panel shows beside an answer that is not about it.
LEMMA PanelAside ==
  ASSUME IInv, NEW i \in DOMAIN inFlight, inFlight[i].kind \in {"login", "getMe"},
         NEW news, After(db, inFlight, doubt, inFlight', doubt', {i}, news),
         \A n \in news : n.kind = "loadData",
         \A x \in doubt : x # Balance => x \in doubt'
  PROVE  /\ LoansKept(db, inFlight', doubt', panel) /\ KasKept(db, inFlight', doubt', panel)
         /\ MembersKept(db, inFlight', doubt', panel) /\ CardKept(db, inFlight', doubt', panel)
<1>1. /\ CallsOk(db, inFlight') /\ Passed(db, inFlight, doubt, inFlight', doubt', {i})
      /\ \A j \in DOMAIN inFlight \ {i} : inFlight'[j].live = inFlight[j].live
  BY DEF After
<1>2. LoansKept(db, inFlight, doubt, panel) /\ KasKept(db, inFlight, doubt, panel)
      /\ MembersKept(db, inFlight, doubt, panel) /\ CardKept(db, inFlight, doubt, panel)
      /\ CallsOk(db, inFlight)
  BY DEF IInv, Kept, TypesOk
<1>3. /\ \A l : Item("loan", l) \in doubt => Item("loan", l) \in doubt'
      /\ \A m : Item("member", m) \in doubt => Item("member", m) \in doubt'
      /\ Kas \in doubt => Kas \in doubt'
  BY ItemIs DEF Kas, Balance
<1>4. \A j \in DOMAIN inFlight \cap {i} :
          /\ inFlight[j].kind \notin LoanWrites /\ inFlight[j].kind # "bailout"
          /\ inFlight[j].kind \notin {"approveKyc", "rejectKyc"}
  BY DEF LoanWrites
<1>5. \A j \in DOMAIN inFlight : inFlight[j].kind = "loadAll" /\ Served(inFlight[j]) =>
          DOMAIN inFlight[j].got.loans \subseteq DOMAIN db.loans
  BY <1>2 DEF CallsOk, CallOk, GotOk, Served
<1>6. LoansKept(db, inFlight', doubt', panel)
  BY <1>1, <1>2, <1>3, <1>4, <1>5, LoansPassed
<1>7. KasKept(db, inFlight', doubt', panel)
  BY <1>1, <1>2, <1>3, <1>4, KasPassed
<1>8. MembersKept(db, inFlight', doubt', panel)
  BY <1>1, <1>2, <1>3, <1>4, MembersPassed
<1>9. \A j \in DOMAIN inFlight' : j \in DOMAIN inFlight \ {i} \/
          inFlight'[j].kind \notin KycWrites \cup {"loadAll", "getMemberDetail"}
  BY DEF After, Alike, KycWrites
<1>10. \A j \in DOMAIN inFlight' :
           inFlight'[j].kind = "getMemberDetail" => panel.detailId = inFlight'[j].about
  BY <1>1, <1>2, <1>9 DEF Passed, Alike, CardKept
<1>11. panel.credential # None /\ Item("member", panel.credential.id) \notin doubt' =>
           panel.credential.pw = db.pw[panel.credential.id]
  BY <1>2, <1>3 DEF CardKept
<1>12. panel.detail # None /\ Item("member", panel.detailId) \notin doubt' =>
           panel.detail = db.kyc[panel.detailId]
  BY <1>2, <1>3 DEF CardKept
<1>13. \A j \in DOMAIN inFlight' : \A m \in MembersIn(db) :
           (OnCard(panel, m) \/ panel.detailId = m)
           /\ (OnCard(panel, m) \/ panel.detailId = m => ~(j \in DOMAIN inFlight \ {i})) =>
               /\ inFlight'[j].kind \in KycWrites /\ inFlight'[j].live = "mounted"
                  /\ inFlight'[j].about = m => Item("member", m) \in doubt'
               /\ inFlight'[j].kind = "loadAll" => Item("member", m) \notin inFlight'[j].clean
  BY <1>9
<1>14. CardKept(db, inFlight', doubt', panel)
  BY <1>1, <1>2, <1>10, <1>11, <1>12, <1>13, CardPassed
<1> QED
  BY <1>6, <1>7, <1>8, <1>14

\* The balance that an answer brings, when nothing is in doubt about it.
LEMMA BalanceTaken ==
  ASSUME IInv, NEW i \in DOMAIN inFlight, inFlight[i].kind \in {"login", "getMe"}, Served(inFlight[i]),
         NEW news, After(db, inFlight, doubt, inFlight', doubt', {i}, news),
         Cleared(i) \subseteq doubt', Ok(i)
  PROVE  BalanceKept(db, inFlight', doubt', inFlight[i].got)
<1>1. /\ CallsOk(db, inFlight') /\ Passed(db, inFlight, doubt, inFlight', doubt', {i})
  BY DEF After
<1>2. Balance \notin doubt' => Trusted(inFlight[i], doubt, Balance)
  BY DEF Cleared, Trusted
<1>3. Balance \notin doubt' => inFlight[i].got.balance = db.rows[inFlight[i].got.id]
  BY <1>2, AppIs DEF BalanceKept
<1>4. ASSUME NEW j \in DOMAIN inFlight', Served(inFlight'[j])
      PROVE  /\ j \in DOMAIN inFlight /\ Alike(inFlight[j], inFlight'[j])
             /\ Balance \in Touched(db, inFlight'[j]) /\ Balance \in doubt => Balance \in doubt'
  <2>1. j \in DOMAIN inFlight \ {i} /\ Alike(inFlight[j], inFlight'[j])
    BY <1>1, <1>4 DEF Passed
  <2>2. Touched(db, inFlight'[j]) = Touched(db, inFlight[j])
    BY <2>1 DEF Alike, Touched
  <2> QED
    BY <1>1, <2>1, <2>2 DEF Passed
<1> QED
  BY <1>1, <1>3, <1>4, AppIs, BalanceMoved

\* What the phone shows when its data is read again for another member object.
LEMMA PhoneReloads ==
  ASSUME IInv, View = "Anggota",
         NEW i \in DOMAIN inFlight, inFlight[i].kind \in {"login", "getMe"}, NEW n, NEW m,
         After(db, inFlight, doubt, inFlight', doubt', {i}, {n}),
         n.kind = "loadData", n.about = m.id,
         m.id # member.id => Savings \in doubt',
         \A x \in doubt : x # Balance => x \in doubt',
         app'.savings = app.savings, app'.applied = app.applied
  PROVE  /\ SavingsKept(db, inFlight', doubt', m, app', "Anggota")
         /\ AppliedKept(db, inFlight', doubt', app')
<1>1. /\ CallsOk(db, inFlight') /\ Passed(db, inFlight, doubt, inFlight', doubt', {i})
      /\ \A j \in DOMAIN inFlight \ {i} : /\ inFlight'[j].live = inFlight[j].live
                                         /\ inFlight'[j].clean \cap Touched(db, n) = {}
      /\ \A j \in DOMAIN inFlight' : j \in DOMAIN inFlight \ {i} \/ Alike(n, inFlight'[j])
  BY DEF After
<1>2. /\ \A l : Item("loan", l) \in doubt => Item("loan", l) \in doubt'
      /\ Savings \in doubt => Savings \in doubt'
  BY ItemIs DEF Savings, Balance
<1>3. \A j \in DOMAIN inFlight \cap {i} : ~Booked(inFlight[j]) /\ inFlight[j].kind # "sanggahLoan"
  BY DEF Booked
<1>4. \A j \in DOMAIN inFlight' : inFlight'[j].kind = "loadData" =>
          j \in DOMAIN inFlight \ {i} \/ inFlight'[j].about = m.id
  BY <1>1 DEF Alike
<1>5. SavingsKept(db, inFlight', doubt', m, app', "Anggota")
  <2>1. CASE m.id = member.id
    <3>1. SavingsKept(db, inFlight, doubt, member, app, "Anggota")
      BY AppIs
    <3>2. SavingsKept(db, inFlight, doubt, m, app, "Anggota")
      BY <2>1, <3>1 DEF SavingsKept
    <3> QED
      BY <1>1, <1>2, <1>3, <1>4, <3>2, AppIs, SavingsPassed
  <2>2. CASE m.id # member.id
    <3>1. Savings \in doubt'
      BY <2>2
    <3>2. ASSUME NEW j \in DOMAIN inFlight', inFlight'[j].kind = "loadData",
                 Trusted(inFlight'[j], doubt', Savings)
          PROVE  inFlight'[j].about = m.id /\ ~Served(inFlight'[j])
      <4>1. Savings \in inFlight'[j].clean
        BY <3>1, <3>2 DEF Trusted
      <4>2. Savings \in Touched(db, n)
        BY TouchedRead
      <4>3. ~(j \in DOMAIN inFlight \ {i})
        BY <1>1, <4>1, <4>2
      <4> QED
        BY <1>1, <1>4, <3>2, <4>3 DEF Passed
    <3> QED
      BY <3>1, <3>2 DEF SavingsKept
  <2> QED
    BY <2>1, <2>2
<1>6. AppliedKept(db, inFlight', doubt', app')
  <2>1. ASSUME NEW j \in DOMAIN inFlight', NEW l, Item("loan", l) \in Touched(db, inFlight'[j])
        PROVE  \E k \in DOMAIN inFlight : Item("loan", l) \in Touched(db, inFlight[k])
    <3>1. CASE j \in DOMAIN inFlight \ {i}
      <4>1. Alike(inFlight[j], inFlight'[j])
        BY <1>1, <3>1 DEF Passed
      <4>2. Touched(db, inFlight'[j]) = Touched(db, inFlight[j])
        BY <4>1 DEF Alike, Touched
      <4> QED
        BY <2>1, <3>1, <4>2
    <3>2. CASE ~(j \in DOMAIN inFlight \ {i})
      <4>1. inFlight'[j].kind = "loadData" /\ Item("loan", l) # Savings
        BY <1>1, <3>2, ItemIs DEF Alike, Savings
      <4> QED
        BY <2>1, <4>1, TouchedRead
    <3> QED
      BY <3>1, <3>2
  <2>2. \A j \in DOMAIN inFlight \cap {i} :
            inFlight[j].kind = "sanggahLoan" /\ Served(inFlight[j]) =>
                Item("loan", inFlight[j].about) \in doubt'
    BY <1>3
  <2> QED
    BY <1>1, <1>2, <2>1, <2>2, AppIs, AppliedPassed
<1> QED
  BY <1>5, <1>6

\* The answer of a login or of a refresh sets the member, whatever is on screen.
LEMMA TakenStep ==
  ASSUME IInv, NEW i \in DOMAIN inFlight, inFlight[i].kind \in {"login", "getMe"}, Ok(i),
         UNCHANGED <<loading, db, cast>>,
         token' \in DOMAIN db.role \cup {None}, stored' = inFlight[i].got, member' = inFlight[i].got,
         NEW a, a = app \/ (View = "Anggota" /\ a = DialogDone(app)),
         Rerender(Without(i), TRUE, a, Cleared(i))
  PROVE  IInv'
<1> DEFINE got == inFlight[i].got
<1>1. /\ Served(inFlight[i]) /\ inFlight[i].phase = "done" /\ CallOk(db, inFlight[i])
      /\ Cleared(i) = doubt \ inFlight[i].clean /\ Touched(db, inFlight[i]) = {Balance}
  <2>1. Served(inFlight[i]) /\ inFlight[i].phase = "done" /\ Cleared(i) = doubt \ inFlight[i].clean
    BY DEF Ok, Served, Cleared
  <2>2. CallOk(db, inFlight[i])
    BY CallIn
  <2>3. Touched(db, inFlight[i]) = {Balance}
    BY TouchedRead
  <2> QED
    BY <2>1, <2>2, <2>3
<1>2. ~loading /\ loading = FALSE /\ loading' = loading
  <2>1. ~loading
    BY <1>1, AnswersLate
  <2> QED
    BY <2>1 DEF IInv, TypesOk, SessionOk
<1>3. inFlight[i].clean \subseteq {Balance}
  <2>1. inFlight[i].clean \subseteq Touched(db, inFlight[i])
    BY <1>1 DEF CallOk
  <2> QED
    BY <1>1, <2>1
<1>4. got \in RowIn(db) /\ got # None /\ got.id \in DOMAIN db.role
  <2>1. got \in RowIn(db)
    BY <1>1 DEF CallOk, GotOk
  <2> QED
    BY <2>1, AppIs DEF RowIn, DbOk
<1>5. SessionOk(db, token', stored', member', loading')
  BY <1>2, <1>4 DEF SessionOk
<1>6. View' = db.role[got.id] /\ View' \in {"Anggota", "Pengurus"}
  <2>1. View' = db.role[got.id]
    BY <1>2, <1>4 DEF View, ViewOf
  <2> QED
    BY <1>4, <2>1, AppIs DEF DbOk
<1>7. /\ DOMAIN Without(i) \subseteq DOMAIN inFlight
      /\ \A j \in DOMAIN Without(i) : Without(i)[j] = inFlight[j] /\ j \in DOMAIN inFlight \ {i}
      /\ \A j \in DOMAIN Without(i) : Without(i)[j].kind # "me"
  <2>1. \A j \in DOMAIN inFlight : inFlight[j].kind # "me"
    BY <1>2 DEF IInv, TypesOk, Placed
  <2> QED
    BY <2>1, WithoutIs
<1>8. \A j \in DOMAIN inFlight \ {i} : \A x \in Touched(db, inFlight[j]) :
          x \in doubt => x \in Cleared(i)
  <2>1. Overlaps
    BY DEF IInv
  <2>2. ASSUME NEW j \in DOMAIN inFlight, j # i, NEW x \in Touched(db, inFlight[j]), x \in doubt
        PROVE  x \in Cleared(i)
    BY <2>1, <2>2, ClearedKeeps
  <2> QED
    BY <2>2
<1>9. CASE View' # View
  <2>1. \A j \in DOMAIN Without(i) :
            Balance \in Touched(db, Without(i)[j]) /\ Balance \in doubt => Balance \in Cleared(i)
    BY <1>7, <1>8
  <2>2. Balance \notin Cleared(i) => member'.balance = db.rows[member'.id]
    <3>1. Balance \notin Cleared(i) => Trusted(inFlight[i], doubt, Balance)
      BY DEF Cleared, Trusted
    <3> QED
      BY <1>1, <3>1, AppIs DEF BalanceKept
  <2> QED
    BY <1>2, <1>5, <1>7, <1>9, <2>1, <2>2, RerenderMoved
<1>10. CASE View' = View
  <2>1. Surface' = View' /\ Surface = View
    BY DEF Surface, View, ViewOf
  <2>2. /\ Launch(IF Surface' # Surface THEN Unmounted(Without(i)) ELSE Without(i),
                  IF (Surface' # Surface /\ Surface' \in {"Anggota", "Pengurus"})
                     \/ (TRUE /\ Surface' = "Anggota")
                  THEN <<Loads(member'.id, token')>> ELSE <<>>,
                  (IF Surface' # Surface THEN Cleared(i) \cap {Balance} ELSE Cleared(i)) \cup
                  (IF Surface' = "Anggota" /\ (Surface' # Surface \/ member'.id # member.id) THEN {Savings}
                   ELSE IF Surface' = "Pengurus" /\ Surface' # Surface THEN PanelItems ELSE {}))
        /\ app' = IF Surface' # Surface THEN FreshApp ELSE a
        /\ panel' = IF Surface' # Surface THEN FreshPanel ELSE panel
    BY DEF Rerender
  <2>3. app' = a /\ panel' = panel
    BY <1>10, <2>1, <2>2
  <2>4. AppOk(db, View, app') /\ app'.savings = app.savings /\ app'.applied = app.applied
    <3>1. AppOk(db, View, app)
      BY DEF IInv, TypesOk
    <3> QED
      BY <2>3, <3>1, AppIs DEF AppOk, DialogDone
  <2>5. CASE View = "Pengurus"
    <3>1. Launch(Without(i), <<>>, Cleared(i))
      <4>1. Surface' = "Pengurus" /\ Surface = "Pengurus"
        BY <1>10, <2>1, <2>5
      <4>2. Cleared(i) \cup {} = Cleared(i)
        OBVIOUS
      <4> QED
        BY <2>2, <4>1, <4>2
    <3>2. After(db, inFlight, doubt, inFlight', doubt', {i}, {}) /\ doubt' = Cleared(i)
      BY <1>8, <3>1, AfterOver
    <3>3. \A x \in doubt : x # Balance => x \in doubt'
      BY <1>1, <1>3, <3>2
    <3> DEFINE news == {}
    <3>4. /\ After(db, inFlight, doubt, inFlight', doubt', {i}, news)
          /\ \A n \in news : n.kind = "loadData" /\ View = "Anggota"
          /\ \A n \in news : n.kind = "loadData"
      BY <3>2
    <3> HIDE DEF news
    <3>5. /\ LoansKept(db, inFlight', doubt', panel) /\ KasKept(db, inFlight', doubt', panel)
          /\ MembersKept(db, inFlight', doubt', panel) /\ CardKept(db, inFlight', doubt', panel)
      BY <3>3, <3>4, PanelAside
    <3>6. BalanceKept(db, inFlight', doubt', member')
      BY <1>1, <3>2, <3>4, BalanceTaken
    <3>7. SavingsKept(db, inFlight', doubt', member', app', View)
          /\ AppliedKept(db, inFlight', doubt', app')
      <4>1. CallsOk(db, inFlight') /\ Placed(inFlight', View, token, FALSE)
        <5>1. Placed(inFlight, View, token, FALSE)
          BY <1>2 DEF IInv, TypesOk
        <5>2. \A n \in news : /\ n.kind # "me"
                              /\ n.live = "mounted" /\ n.kind \in AppKinds => View = "Anggota"
                              /\ n.live = "mounted" /\ n.kind \in PanelKinds => View = "Pengurus"
          BY <2>5, <3>4
        <5>3. Placed(inFlight', View, token, FALSE)
          BY <3>4, <5>1, <5>2, PlacedAfter
        <5> QED
          BY <3>4, <5>3 DEF After
      <4>2. View # "Anggota"
        BY <2>5
      <4> QED
        BY <2>4, <4>1, <4>2, PhoneKept
    <3>8. UNCHANGED <<loading, db, panel, cast>>
      BY <2>3
    <3> QED
      BY <1>2, <1>5, <1>10, <2>4, <3>4, <3>5, <3>6, <3>7, <3>8, SameViewStep
  <2>6. CASE View = "Anggota"
    <3> DEFINE n == Call("loadData", member'.id, token')
               unknown == IF member'.id # member.id THEN {Savings} ELSE {}
               unsure == Cleared(i) \cup unknown
    <3>1. Launch(Without(i), <<n>>, unsure)
      <4>1. Surface' = "Anggota" /\ Surface = "Anggota"
        BY <1>10, <2>1, <2>6
      <4>2. Loads(member'.id, token') = n
        BY <1>6, <1>10, <2>6 DEF Loads
      <4> QED
        BY <2>2, <4>1, <4>2
    <3>2. CallOk(db, n) /\ ~Served(n) /\ n.kind = "loadData" /\ n.about = member'.id
      <4>1. CallOk(db, n)
        BY <1>4, CallOkIs, PhoneKinds
      <4> QED
        BY <4>1, CallIs
    <3>3. Cleared(i) \subseteq unsure /\ (member'.id # member.id => Savings \in unsure)
      OBVIOUS
    <3> HIDE DEF n, unsure
    <3>4. \A j \in DOMAIN inFlight \ {i} : \A x \in Touched(db, inFlight[j]) :
              x \in doubt => x \in unsure
      BY <1>8, <3>3
    <3>5. After(db, inFlight, doubt, inFlight', doubt', {i}, {n}) /\ unsure \subseteq doubt'
      BY <3>1, <3>2, <3>4, AfterOverSend
    <3>6. /\ \A x \in doubt : x # Balance => x \in doubt'
          /\ member'.id # member.id => Savings \in doubt'
          /\ Cleared(i) \subseteq doubt'
      BY <1>1, <1>3, <3>3, <3>5
    <3>7. SavingsKept(db, inFlight', doubt', member', app', "Anggota")
          /\ AppliedKept(db, inFlight', doubt', app')
      BY <2>4, <2>6, <3>2, <3>5, <3>6, PhoneReloads
    <3> DEFINE news == {n}
    <3>8. /\ After(db, inFlight, doubt, inFlight', doubt', {i}, news)
          /\ \A r \in news : r.kind = "loadData" /\ View = "Anggota"
          /\ \A r \in news : r.kind = "loadData"
      BY <2>6, <3>2, <3>5
    <3> HIDE DEF news
    <3>9. /\ LoansKept(db, inFlight', doubt', panel) /\ KasKept(db, inFlight', doubt', panel)
          /\ MembersKept(db, inFlight', doubt', panel) /\ CardKept(db, inFlight', doubt', panel)
      BY <3>6, <3>8, PanelAside
    <3>10. BalanceKept(db, inFlight', doubt', member')
      BY <1>1, <3>6, <3>8, BalanceTaken
    <3>11. UNCHANGED <<loading, db, panel, cast>>
      BY <2>3
    <3>12. SavingsKept(db, inFlight', doubt', member', app', View)
      BY <2>6, <3>7
    <3> QED
      BY <1>2, <1>5, <1>10, <2>4, <3>7, <3>8, <3>9, <3>10, <3>11, <3>12, SameViewStep
  <2> QED
    BY <1>6, <1>10, <2>5, <2>6
<1> QED
  BY <1>9, <1>10

----------------------------------------------------------------------------
(* The session                                                           *)

LEMMA LoginStep ==
  ASSUME IInv, NEW i \in DOMAIN inFlight, Login(i)
  PROVE  IInv'
<1>1. inFlight[i].kind = "login" /\ inFlight[i].phase \in {"done", "failed"}
  BY ArrivedIs DEF Login
<1>2. CASE Ok(i)
  <2>1. /\ token' = inFlight[i].about /\ stored' = inFlight[i].got /\ member' = inFlight[i].got
        /\ UNCHANGED <<loading, db, cast>>
        /\ Rerender(Without(i), TRUE, app, Cleared(i))
    BY <1>2 DEF Login, SetSession, Got, About
  <2>2. inFlight[i].about \in DOMAIN db.role
    BY <1>1, CallIn DEF CallOk, AboutOk
  <2> QED
    BY <1>1, <1>2, <2>1, <2>2, TakenStep
<1>3. CASE ~Ok(i)
  <2>1. Over(i) /\ UNCHANGED <<session, db, panel, cast>> /\ app' = app
    BY <1>3 DEF Login
  <2>2. inFlight[i].phase = "failed"
    BY <1>1, <1>3 DEF Ok
  <2> QED
    BY <1>1, <2>1, <2>2, LateFailed
<1> QED
  BY <1>2, <1>3

LEMMA RefreshMeStep ==
  ASSUME IInv, NEW i \in DOMAIN inFlight, RefreshMe(i)
  PROVE  IInv'
<1>1. inFlight[i].kind = "getMe" /\ inFlight[i].phase \in {"done", "failed"}
  BY ArrivedIs DEF RefreshMe
<1>2. Shown(i) => View = "Anggota"
  BY <1>1, AnswersLate DEF Shown
<1>3. CASE Ok(i)
  <2> DEFINE a == IF Shown(i) THEN DialogDone(app) ELSE app
  <2>1. /\ token' = token /\ stored' = inFlight[i].got /\ member' = inFlight[i].got
        /\ UNCHANGED <<loading, db, cast>>
        /\ Rerender(Without(i), TRUE, a, Cleared(i))
    BY <1>3 DEF RefreshMe, Got
  <2>2. token \in DOMAIN db.role \cup {None}
    BY CastIs DEF IInv
  <2>3. a = app \/ (View = "Anggota" /\ a = DialogDone(app))
    BY <1>2
  <2> HIDE DEF a
  <2> QED
    BY <1>1, <1>3, <2>1, <2>2, <2>3, TakenStep
<1>4. CASE ~Ok(i)
  <2>1. Over(i) /\ UNCHANGED <<session, db, panel, cast>>
        /\ app' = IF Shown(i) THEN DialogDone(app) ELSE app
    BY <1>4 DEF RefreshMe, session
  <2>2. inFlight[i].phase = "failed"
    BY <1>1, <1>4 DEF Ok
  <2>3. \/ app' = app
        \/ inFlight[i].live = "mounted" /\ inFlight[i].kind # "login" /\ app' = DialogDone(app)
    BY <1>1, <2>1 DEF Shown
  <2> QED
    BY <1>1, <2>1, <2>2, <2>3, LateFailed
<1> QED
  BY <1>3, <1>4

\* Of an earlier page only the writes on the wire are left, and nobody waits for them.
LEMMA GoneIs ==
  ASSUME NEW d, NEW c, CallsOk(d, c), NEW kept,
         kept = {i \in DOMAIN c : c[i].kind \in Writes /\ c[i].phase = "sent"},
         NEW gone, gone = [i \in kept |-> Lives(c[i], "gone")]
  PROVE  /\ Left(d, c, gone)
         /\ \A j \in DOMAIN gone : /\ gone[j].kind \in Writes /\ gone[j].live = "gone"
                                   /\ ~Served(gone[j])
<1>1. DOMAIN gone = kept /\ \A j \in DOMAIN gone : gone[j] = Lives(c[j], "gone")
  OBVIOUS
<1>2. ASSUME NEW j \in DOMAIN gone
      PROVE  /\ j \in DOMAIN c /\ CallOk(d, gone[j]) /\ Alike(c[j], gone[j])
             /\ gone[j].kind \in Writes /\ gone[j].live = "gone" /\ ~Served(gone[j])
  <2>1. j \in DOMAIN c /\ CallOk(d, c[j]) /\ c[j].kind \in Writes /\ c[j].phase = "sent"
    BY <1>1 DEF CallsOk
  <2>2. gone[j] = Lives(c[j], "gone")
    BY <1>1
  <2>3. CallOk(d, gone[j]) /\ Alike(c[j], gone[j]) /\ gone[j].live = "gone"
    BY <2>1, <2>2, LivesIs
  <2> QED
    BY <2>1, <2>3 DEF Alike, Served
<1> QED
  BY <1>1, <1>2 DEF Left

\* The check of the token, and what a view is mounted with.
LEMMA FirstIs ==
  ASSUME NEW tok, NEW ld, NEW m, NEW view, NEW kind, NEW about, NEW who,
         CallOk(db, Call(kind, about, who)),
         \/ kind = "me" /\ who = tok /\ ld
         \/ kind = "loadData" /\ view = "Anggota" /\ about = m.id /\ ~ld
         \/ kind = "loadAll" /\ view = "Pengurus" /\ ~ld
  PROVE  FirstCall(db, Call(kind, about, who), tok, ld, m, view)
<1> DEFINE n == Call(kind, about, who)
<1>1. n.kind = kind /\ n.about = about /\ n.who = who /\ n.live = "mounted" /\ ~Served(n)
  BY CallIs
<1>2. CallOk(db, n)
  OBVIOUS
<1> HIDE DEF n
<1>3. FirstCall(db, n, tok, ld, m, view)
  BY <1>1, <1>2 DEF FirstCall
<1> QED
  BY <1>3 DEF n

LEMMA LoadPageStep ==
  ASSUME IInv, LoadPage
  PROVE  IInv'
<1> DEFINE kept == {i \in DOMAIN inFlight : inFlight[i].kind \in Writes /\ inFlight[i].phase = "sent"}
           rest == Restrict(inFlight, kept)
           gone == [i \in DOMAIN rest |-> [rest[i] EXCEPT !.live = "gone"]]
           new == IF token # None THEN <<Call("me", None, token)>>
                  ELSE IF stored # None THEN <<Loads(stored.id, None)>> ELSE <<>>
           unsure == IF stored = None THEN doubt ELSE {Savings, Balance} \cup PanelItems
<1>1. /\ member' = stored /\ loading' = (token # None) /\ token' = token /\ stored' = stored
      /\ app' = FreshApp /\ panel' = FreshPanel
      /\ Launch(gone, new, unsure) /\ db' = db /\ cast' = cast
  BY DEF LoadPage
<1>2. gone = [i \in kept |-> Lives(inFlight[i], "gone")]
  BY DEF Restrict, Lives
<1>3. /\ Left(db, inFlight, gone)
      /\ \A j \in DOMAIN gone : /\ gone[j].kind \in Writes /\ gone[j].live = "gone"
                                /\ ~Served(gone[j])
  <2>1. CallsOk(db, inFlight)
    BY AppIs
  <2> HIDE DEF gone
  <2> QED
    BY <1>2, <2>1, GoneIs
<1>4. SessionOk(db, token', stored', member', loading')
  BY <1>1 DEF IInv, TypesOk, SessionOk
<1>5. View' = IF token # None THEN "splash" ELSE IF stored = None THEN "login" ELSE db.role[stored.id]
  BY <1>1 DEF View, ViewOf
<1>6. new = <<>> \/ \E n : new = <<n>> /\ FirstCall(db, n, token', loading', member', View')
  <2>1. CASE token # None
    <3>1. token \in DOMAIN db.role \cup {None}
      BY CastIs DEF IInv
    <3>2. CallOk(db, Call("me", None, token))
      BY <3>1, CallOkIs, PhoneKinds
    <3>3. FirstCall(db, Call("me", None, token), token', loading', member', View')
      <4>1. loading' /\ token' = token
        BY <1>1, <2>1
      <4> QED
        BY <3>2, <4>1, FirstIs
    <3>4. new = <<Call("me", None, token)>>
      BY <2>1
    <3> QED
      BY <3>3, <3>4
  <2>2. CASE token = None /\ stored # None
    <3>1. stored.id \in DOMAIN db.role /\ View' = db.role[stored.id]
      BY <1>1, <1>4, <1>5, <2>2 DEF SessionOk, RowIn
    <3>2. db.role[stored.id] \in {"Anggota", "Pengurus"}
      BY <3>1, AppIs DEF DbOk
    <3>3. FirstCall(db, Loads(stored.id, None), token', loading', member', View')
      <4>1. CASE db.role[stored.id] = "Anggota"
        <5>1. Loads(stored.id, None) = Call("loadData", stored.id, None)
          BY <4>1 DEF Loads
        <5>2. CallOk(db, Call("loadData", stored.id, None))
          BY <3>1, CallOkIs, PhoneKinds
        <5>3. ~loading' /\ View' = "Anggota" /\ stored.id = member'.id
          BY <1>1, <2>2, <3>1, <4>1
        <5>4. FirstCall(db, Call("loadData", stored.id, None), token', loading', member', View')
          BY <5>2, <5>3, FirstIs
        <5> QED
          BY <5>1, <5>4
      <4>2. CASE db.role[stored.id] = "Pengurus"
        <5>1. Loads(stored.id, None) = Call("loadAll", None, None)
          BY <4>2 DEF Loads
        <5>2. CallOk(db, Call("loadAll", None, None))
          <6>1. "loadAll" \in Kinds /\ "loadAll" \notin KycWrites \cup LoanWrites
            BY DEF Kinds, PanelKinds, KycWrites, LoanWrites
          <6> QED
            BY <6>1, CallOkIs
        <5>3. ~loading' /\ View' = "Pengurus"
          BY <1>1, <2>2, <3>1, <4>2
        <5>4. FirstCall(db, Call("loadAll", None, None), token', loading', member', View')
          BY <5>2, <5>3, FirstIs
        <5> QED
          BY <5>1, <5>4
      <4> QED
        BY <3>2, <4>1, <4>2
    <3>4. new = <<Loads(stored.id, None)>>
      BY <2>2
    <3> QED
      BY <3>3, <3>4
  <2>3. CASE token = None /\ stored = None
    BY <2>3
  <2> QED
    BY <2>1, <2>2, <2>3
<1>7. \A j \in DOMAIN gone :
          /\ gone[j].kind # "me" /\ (loading' => gone[j].live = "gone")
          /\ Balance \in Touched(db, gone[j]) /\ Balance \in doubt => Balance \in unsure
  <2>1. "me" \notin Writes
    BY DEF Writes
  <2>2. Balance \in doubt => Balance \in unsure
    OBVIOUS
  <2> QED
    BY <1>3, <2>1, <2>2
<1>8. View' = "Anggota" => Savings \in unsure
  BY <1>5
<1>9. member' # None => Balance \in unsure
  BY <1>1
<1> HIDE DEF gone, new, unsure
<1> QED
  BY <1>1, <1>3, <1>4, <1>6, <1>7, <1>8, <1>9, MovedStep

LEMMA SessionClickStep ==
  ASSUME IInv, SessionClick
  PROVE  IInv'
BY LogoutStep, LoadPageStep, HandleLoginStep DEF SessionClick

LEMMA ContinueStep ==
  ASSUME IInv, Continue
  PROVE  IInv'
<1>1. CASE SessionAnswer
  BY <1>1, LoginStep, MeStep DEF SessionAnswer
<1>2. CASE MemberAnswer
  <2>1. PICK i \in DOMAIN inFlight :
            LoadData(i) \/ DepositAnswered(i) \/ RefreshMe(i) \/ ApplyAnswered(i) \/ SanggahAnswered(i)
    BY <1>2 DEF MemberAnswer
  <2> QED
    BY <2>1, LoadDataStep, DepositAnsweredStep, RefreshMeStep, ApplyAnsweredStep, SanggahAnsweredStep
<1> QED
  BY <1>1, <1>2, OfficerAnswerStep DEF Continue

----------------------------------------------------------------------------
(* The network.  A call is served or fails in its slot, or vanishes from it   *)
(* when its page is gone.                                                     *)

\* The call r as it is after the network has dealt with it.
Outcome(r, phase, got) ==
    [kind |-> r.kind, about |-> r.about, who |-> r.who, live |-> r.live,
     phase |-> phase, got |-> got, clean |-> r.clean]

SameCall(r, s) ==
    /\ s.kind = r.kind /\ s.about = r.about /\ s.who = r.who /\ s.live = r.live
    /\ s.clean = r.clean

LEMMA OutcomeIs ==
  ASSUME NEW r, NEW phase, NEW got
  PROVE  LET s == Outcome(r, phase, got) IN
         /\ IsCall(s) /\ SameCall(r, s) /\ s.phase = phase /\ s.got = got
BY DEF Outcome, IsCall, SameCall

\* The calls cN are the calls c, but for the one in slot i: that is n, or over.
Only(c, i, cN, n) ==
    /\ i \in DOMAIN c
    /\ DOMAIN cN \subseteq DOMAIN c
    /\ \A j \in DOMAIN c : j # i => j \in DOMAIN cN /\ cN[j] = c[j]
    /\ i \in DOMAIN cN => cN[i] = n
    /\ i \in DOMAIN cN <=> c[i].live # "gone"

LEMMA BecomesIs ==
  ASSUME NEW i \in DOMAIN inFlight, IsCall(inFlight[i]), NEW phase, NEW got, Becomes(i, phase, got)
  PROVE  Only(inFlight, i, inFlight', Outcome(inFlight[i], phase, got))
<1>1. CASE inFlight[i].live = "gone"
  <2>1. inFlight' = Without(i)
    BY <1>1 DEF Becomes
  <2> QED
    BY <1>1, <2>1, WithoutIs DEF Only
<1>2. CASE inFlight[i].live # "gone"
  <2>1. inFlight' = [inFlight EXCEPT ![i].phase = phase, ![i].got = got]
    BY <1>2 DEF Becomes
  <2>2. DOMAIN inFlight' = DOMAIN inFlight
    BY <2>1
  <2>3. \A j \in DOMAIN inFlight : j # i => inFlight'[j] = inFlight[j]
    BY <2>1
  <2>4. inFlight'[i] = [[inFlight[i] EXCEPT !.phase = phase] EXCEPT !.got = got]
    BY <2>1
  <2>5. inFlight'[i] = Outcome(inFlight[i], phase, got)
    BY <2>4 DEF IsCall, Outcome
  <2> QED
    BY <1>2, <2>2, <2>3, <2>5 DEF Only
<1> QED
  BY <1>1, <1>2

LEMMA OnlyPlaced ==
  ASSUME NEW c, NEW i, NEW cN, NEW n, Only(c, i, cN, n), SameCall(c[i], n),
         NEW view, NEW tok, NEW ld, Placed(c, view, tok, ld)
  PROVE  Placed(cN, view, tok, ld)
<1>1. \A j \in DOMAIN cN : j \in DOMAIN c /\ SameCall(c[j], cN[j])
  BY DEF Only, SameCall
<1> QED
  BY <1>1 DEF Placed, SameCall

LEMMA FailStep ==
  ASSUME IInv, NEW i \in DOMAIN inFlight, Fail(i)
  PROVE  IInv'
<1> DEFINE r == inFlight[i]
           n == Outcome(inFlight[i], "failed", None)
<1>1. /\ CallOk(db, r) /\ IsCall(r) /\ r.kind \in Kinds
  BY CallIn DEF CallOk
<1>2. /\ UNCHANGED <<session, db, app, panel, cast>>
      /\ Becomes(i, "failed", None)
      /\ doubt' = IF Served(r) /\ r.kind \in Writes THEN doubt \cup Touched(db, r) ELSE doubt
  BY ConcernsIs DEF Fail, Served
<1>3. Only(inFlight, i, inFlight', n)
  BY <1>1, <1>2, BecomesIs
<1>4. IsCall(n) /\ SameCall(r, n) /\ n.phase = "failed" /\ ~Served(n)
  BY OutcomeIs DEF Served
<1> HIDE DEF n
<1>5. CallOk(db, n) \/ i \notin DOMAIN inFlight'
  BY <1>1, <1>3, <1>4 DEF CallOk, AboutOk, GotOk, SameCall, Touched, Only
<1>6. /\ DOMAIN inFlight' \subseteq DOMAIN inFlight
      /\ \A j \in DOMAIN inFlight' : /\ SameCall(inFlight[j], inFlight'[j])
                                     /\ j # i => inFlight'[j] = inFlight[j]
                                     /\ j = i => inFlight'[j] = n
                                     /\ Touched(db, inFlight'[j]) = Touched(db, inFlight[j])
                                     /\ CallOk(db, inFlight'[j])
  <2>1. \A j \in DOMAIN inFlight' : j \in DOMAIN inFlight /\ SameCall(inFlight[j], inFlight'[j])
    BY <1>3, <1>4 DEF Only, SameCall
  <2>2. \A j \in DOMAIN inFlight' : Touched(db, inFlight'[j]) = Touched(db, inFlight[j])
    BY <2>1 DEF Touched, SameCall
  <2>3. \A j \in DOMAIN inFlight' : CallOk(db, inFlight'[j])
    BY <1>3, <1>5, AppIs DEF Only, CallsOk
  <2> QED
    BY <1>3, <2>1, <2>2, <2>3 DEF Only
<1>7. doubt \subseteq doubt' /\ (Served(r) /\ r.kind \in Writes => Touched(db, r) \subseteq doubt')
  BY <1>2
<1>8. CallsOk(db, inFlight') /\ Apart(db, inFlight') /\ Doubted(db, inFlight', doubt')
  <2>1. CallsOk(db, inFlight')
    BY <1>6 DEF CallsOk
  <2>2. Apart(db, inFlight')
    BY <1>6, AppIs DEF Apart, SameCall
  <2>3. Doubted(db, inFlight', doubt')
    BY <1>6, <1>7, AppIs DEF Doubted, SameCall
  <2> QED
    BY <2>1, <2>2, <2>3
<1>9. Passed(db, inFlight, doubt, inFlight', doubt', {i})
  BY <1>3, <1>4, <1>6, <1>7 DEF Passed, Only, SameCall, Alike
<1>10. /\ View' = View /\ db' = db /\ member' = member /\ token' = token /\ stored' = stored
       /\ loading' = loading /\ app' = app /\ panel' = panel /\ cast' = cast
  BY <1>2 DEF session, View, ViewOf
<1>11. Placed(inFlight', View, token, loading)
  BY <1>3, <1>4, OnlyPlaced DEF IInv, TypesOk
<1>12. \A j \in DOMAIN inFlight \ {i} : inFlight'[j].live = inFlight[j].live
  BY <1>3 DEF Only
<1>13. SavingsKept(db, inFlight', doubt', member, app, View)
  <2>1. \A j \in DOMAIN inFlight \cap {i} : Booked(inFlight[j]) => Savings \in doubt'
    BY <1>7, TouchedRead DEF Booked, Served, Writes
  <2>2. ASSUME NEW j \in DOMAIN inFlight', inFlight'[j].kind = "loadData",
               Trusted(inFlight'[j], doubt', Savings)
        PROVE  inFlight'[j].about = member.id
    <3>1. inFlight[j].kind = "loadData" /\ Trusted(inFlight[j], doubt, Savings)
      BY <1>6, <1>7, <2>2 DEF SameCall, Trusted
    <3> QED
      BY <1>6, <3>1, AppIs DEF SavingsKept, SameCall
  <2> QED
    BY <1>7, <1>9, <1>12, <2>1, <2>2, AppIs, SavingsPassed
<1>14. BalanceKept(db, inFlight', doubt', member)
  <2>1. \A j \in DOMAIN inFlight \cap {i} : Booked(inFlight[j]) => Balance \in doubt'
    BY <1>7, TouchedRead DEF Booked, Served, Writes
  <2> QED
    BY <1>7, <1>9, <2>1, AppIs, BalancePassed
<1>15. AppliedKept(db, inFlight', doubt', app)
  <2>1. \A j \in DOMAIN inFlight \cap {i} :
            inFlight[j].kind = "sanggahLoan" /\ Served(inFlight[j]) =>
                Item("loan", inFlight[j].about) \in doubt'
    BY <1>1, <1>7, TouchedIs, PhoneKinds
  <2>2. \A j \in DOMAIN inFlight' : \A l : Item("loan", l) \in Touched(db, inFlight'[j]) =>
            \E k \in DOMAIN inFlight : Item("loan", l) \in Touched(db, inFlight[k])
    BY <1>6
  <2> QED
    BY <1>7, <1>9, <2>1, <2>2, AppIs, AppliedPassed
<1>16. LoansKept(db, inFlight', doubt', panel)
  <2>1. \A j \in DOMAIN inFlight \cap {i} : \A l :
            inFlight[j].kind \in LoanWrites /\ Served(inFlight[j]) /\ inFlight[j].about = l =>
                Item("loan", l) \in doubt'
    BY <1>1, <1>7, TouchedIs DEF LoanWrites, Writes
  <2>2. \A j \in DOMAIN inFlight : inFlight[j].kind = "loadAll" /\ Served(inFlight[j]) =>
            DOMAIN inFlight[j].got.loans \subseteq DOMAIN db.loans
    BY AppIs DEF CallsOk, CallOk, GotOk, Served
  <2>3. LoansKept(db, inFlight, doubt, panel)
    BY DEF IInv, Kept
  <2> QED
    BY <1>7, <1>9, <2>1, <2>2, <2>3, AppIs, LoansPassed
<1>17. KasKept(db, inFlight', doubt', panel)
  <2>1. \A j \in DOMAIN inFlight \cap {i} :
            inFlight[j].kind = "bailout" /\ Served(inFlight[j]) => Kas \in doubt'
    BY <1>1, <1>7, TouchedIs DEF Writes
  <2>2. KasKept(db, inFlight, doubt, panel)
    BY DEF IInv, Kept
  <2> QED
    BY <1>7, <1>9, <2>1, <2>2, AppIs, KasPassed
<1>18. MembersKept(db, inFlight', doubt', panel)
  <2>1. \A j \in DOMAIN inFlight \cap {i} : \A m :
            inFlight[j].kind \in {"approveKyc", "rejectKyc"} /\ Served(inFlight[j])
                /\ inFlight[j].about = m => Item("member", m) \in doubt'
    BY <1>1, <1>7, TouchedIs DEF KycWrites, Writes
  <2>2. MembersKept(db, inFlight, doubt, panel)
    BY DEF IInv, Kept
  <2> QED
    BY <1>7, <1>9, <2>1, <2>2, AppIs, MembersPassed
<1>19. CardKept(db, inFlight', doubt', panel)
  <2>1. CardKept(db, inFlight, doubt, panel)
    BY DEF IInv, Kept
  <2>2. panel.credential # None /\ Item("member", panel.credential.id) \notin doubt' =>
            panel.credential.pw = db.pw[panel.credential.id]
    BY <1>7, <2>1 DEF CardKept
  <2>3. panel.detail # None /\ Item("member", panel.detailId) \notin doubt' =>
            panel.detail = db.kyc[panel.detailId]
    BY <1>7, <2>1 DEF CardKept
  <2>4. \A j \in DOMAIN inFlight' :
            inFlight'[j].kind = "getMemberDetail" => panel.detailId = inFlight'[j].about
    BY <1>6, <2>1 DEF CardKept, SameCall
  <2>5. \A j \in DOMAIN inFlight' : \A m \in MembersIn(db) :
            OnCard(panel, m) \/ panel.detailId = m =>
                /\ inFlight'[j].kind \in KycWrites /\ inFlight'[j].live = "mounted"
                   /\ inFlight'[j].about = m => Item("member", m) \in doubt'
                /\ inFlight'[j].kind = "loadAll" => Item("member", m) \notin inFlight'[j].clean
    BY <1>6, <1>7, <2>1 DEF CardKept, SameCall
  <2> QED
    BY <1>8, <1>9, <1>12, <2>1, <2>2, <2>3, <2>4, <2>5, AppIs, CardPassed
<1> QED
  BY <1>8, <1>10, <1>11, <1>13, <1>14, <1>15, <1>16, <1>17, <1>18, <1>19
     DEF IInv, TypesOk, Overlaps, Kept

----------------------------------------------------------------------------
(* What the calls write                                                  *)

\* What a write changes in the rows d: nothing but the items T it is about,
\* and loans that were not there.
Effect(d, dN, T) ==
    /\ DbOk(dN) /\ dN.role = d.role /\ DOMAIN d.loans \subseteq DOMAIN dN.loans
    /\ \A l \in DOMAIN d.loans : Item("loan", l) \notin T => dN.loans[l] = d.loans[l]
    /\ \A m \in MembersIn(d) : Item("member", m) \notin T =>
           dN.kyc[m] = d.kyc[m] /\ dN.pw[m] = d.pw[m]
    /\ Kas \notin T => dN.kas = d.kas
    /\ Savings \notin T \/ Balance \notin T => dN.rows = d.rows

Wrote(d, r) == IF r.kind \in Writes THEN Touched(d, r) ELSE {}

LEMMA FieldsAre ==
  ASSUME NEW d, DbOk(d), NEW kyc, NEW pw, NEW rows, NEW loans, NEW kas, NEW dN,
         dN = [role |-> d.role, kyc |-> kyc, pw |-> pw, rows |-> rows, loans |-> loans, kas |-> kas],
         kyc \in [MembersIn(d) -> {"Requested", "Approved", "Rejected"}],
         pw \in [MembersIn(d) -> Nat], rows \in [DOMAIN d.role -> Nat],
         DOMAIN loans \in {{}, {"l1"}, {"l1", "l2"}}, kas \in Nat
  PROVE  /\ DbOk(dN) /\ dN.role = d.role /\ dN.kyc = kyc /\ dN.pw = pw /\ dN.rows = rows
         /\ dN.loans = loans /\ dN.kas = kas /\ MembersIn(dN) = MembersIn(d) /\ RowIn(dN) = RowIn(d)
<1>1. /\ dN.role = d.role /\ dN.kyc = kyc /\ dN.pw = pw /\ dN.rows = rows
      /\ dN.loans = loans /\ dN.kas = kas
      /\ dN = [role |-> dN.role, kyc |-> dN.kyc, pw |-> dN.pw, rows |-> dN.rows,
               loans |-> dN.loans, kas |-> dN.kas]
  OBVIOUS
<1>2. MembersIn(dN) = MembersIn(d) /\ RowIn(dN) = RowIn(d)
  BY <1>1 DEF MembersIn, RowIn
<1>3. DbOk(dN)
  BY <1>1, <1>2 DEF DbOk
<1> QED
  BY <1>1, <1>2, <1>3

LEMMA RowsAre ==
  ASSUME DbOk(db)
  PROVE  /\ db = [role |-> db.role, kyc |-> db.kyc, pw |-> db.pw, rows |-> db.rows,
                  loans |-> db.loans, kas |-> db.kas]
         /\ db.kyc \in [MembersIn(db) -> {"Requested", "Approved", "Rejected"}]
         /\ db.pw \in [MembersIn(db) -> Nat] /\ db.rows \in [DOMAIN db.role -> Nat]
         /\ DOMAIN db.loans \in {{}, {"l1"}, {"l1", "l2"}} /\ db.kas \in Nat
BY DEF DbOk

LEMMA RoomForLoan ==
  ASSUME DbOk(db), Cardinality(DOMAIN db.loans) < Len(LoanIds)
  PROVE  /\ NewLoan \notin DOMAIN db.loans
         /\ DOMAIN db.loans \cup {NewLoan} \in {{}, {"l1"}, {"l1", "l2"}}
<1>1. LoanIds[1] = "l1" /\ LoanIds[2] = "l2" /\ Len(LoanIds) = 2 /\ "l1" # "l2"
  BY DEF LoanIds
<1>2. CASE DOMAIN db.loans = {}
  <2>1. Cardinality(DOMAIN db.loans) = 0
    BY <1>2, FS_EmptySet
  <2> QED
    BY <1>1, <1>2, <2>1 DEF NewLoan
<1>3. CASE DOMAIN db.loans = {"l1"}
  <2>1. Cardinality(DOMAIN db.loans) = 1
    BY <1>3, FS_Singleton
  <2> QED
    BY <1>1, <1>3, <2>1 DEF NewLoan
<1>4. CASE DOMAIN db.loans = {"l1", "l2"}
  <2>1. IsFiniteSet({"l1"}) /\ Cardinality({"l1"}) = 1
    BY FS_Singleton
  <2>2. Cardinality({"l1"} \cup {"l2"}) = 2
    BY <1>1, <2>1, FS_AddElement
  <2>3. {"l1"} \cup {"l2"} = {"l1", "l2"}
    OBVIOUS
  <2> QED
    BY <1>1, <1>4, <2>2, <2>3
<1> QED
  BY <1>2, <1>3, <1>4 DEF DbOk

\* A field of a loan is set, and the fund.
LoanAndKas(l, field, value, kas) == [SetLoan(l, field, value) EXCEPT !.kas = kas]

LEMMA LoanSet ==
  ASSUME DbOk(db), NEW l \in DOMAIN db.loans, NEW field, NEW value, NEW kas \in Nat, NEW dN,
         dN = LoanAndKas(l, field, value, kas)
  PROVE  /\ DbOk(dN) /\ dN.role = db.role /\ dN.kyc = db.kyc /\ dN.pw = db.pw
         /\ dN.rows = db.rows /\ dN.kas = kas
         /\ DOMAIN dN.loans = DOMAIN db.loans
         /\ \A x \in DOMAIN db.loans : x # l => dN.loans[x] = db.loans[x]
<1> DEFINE loans == [db.loans EXCEPT ![l] = [@ EXCEPT ![field] = value]]
<1>1. DOMAIN loans = DOMAIN db.loans /\ \A x \in DOMAIN db.loans : x # l => loans[x] = db.loans[x]
  OBVIOUS
<1>2. SetLoan(l, field, value) = [db EXCEPT !.loans = loans]
  BY RowsAre DEF SetLoan
<1> HIDE DEF loans
<1>3. dN = [role |-> db.role, kyc |-> db.kyc, pw |-> db.pw, rows |-> db.rows, loans |-> loans,
            kas |-> kas]
  BY <1>2, RowsAre DEF LoanAndKas
<1>4. DOMAIN loans \in {{}, {"l1"}, {"l1", "l2"}}
  BY <1>1, RowsAre
<1>5. ASSUME NEW w, w = [role |-> db.role, kyc |-> db.kyc, pw |-> db.pw, rows |-> db.rows,
                         loans |-> loans, kas |-> kas]
      PROVE  /\ DbOk(w) /\ w.role = db.role /\ w.kyc = db.kyc /\ w.pw = db.pw
             /\ w.rows = db.rows /\ w.kas = kas /\ w.loans = loans
  <2>1. /\ db.kyc \in [MembersIn(db) -> {"Requested", "Approved", "Rejected"}]
        /\ db.pw \in [MembersIn(db) -> Nat] /\ db.rows \in [DOMAIN db.role -> Nat]
    BY RowsAre
  <2> QED
    BY <1>4, <1>5, <2>1, FieldsAre
<1> QED
  BY <1>1, <1>3, <1>5

LEMMA LoanSetOnly ==
  ASSUME DbOk(db), NEW l \in DOMAIN db.loans, NEW field, NEW value
  PROVE  SetLoan(l, field, value) = LoanAndKas(l, field, value, db.kas)
<1> DEFINE loans == [db.loans EXCEPT ![l] = [@ EXCEPT ![field] = value]]
<1>2. SetLoan(l, field, value) = [db EXCEPT !.loans = loans]
  BY RowsAre DEF SetLoan
<1> HIDE DEF loans
<1>3. SetLoan(l, field, value) =
          [role |-> db.role, kyc |-> db.kyc, pw |-> db.pw, rows |-> db.rows, loans |-> loans,
           kas |-> db.kas]
  BY <1>2, RowsAre
<1> QED
  BY <1>3 DEF LoanAndKas

ApprovedRows(m) == [db EXCEPT !.kyc[m] = "Approved", !.pw[m] = FirstPassword(m)]

LEMMA WrittenKinds ==
  ASSUME NEW kind, NEW about
  PROVE  /\ kind = "createSaving" => Written(kind, about) = [db EXCEPT !.rows[about] = @ + 1]
         /\ kind = "applyLoan" => Written(kind, about) = AddLoan(about)
         /\ kind = "sanggahLoan" => Written(kind, about) = SetLoan(about, "isSanggah", TRUE)
         /\ kind = "approveKyc" =>
                Written(kind, about) = ApprovedRows(about)
         /\ kind = "rejectKyc" => Written(kind, about) = [db EXCEPT !.kyc[about] = "Rejected"]
         /\ kind = "resetPassword" => Written(kind, about) = [db EXCEPT !.pw[about] = @ + 1]
         /\ kind = "approveLoan" => Written(kind, about) = SetLoan(about, "status", "Disetujui")
         /\ kind = "rejectLoan" => Written(kind, about) = SetLoan(about, "status", "Ditunda")
         /\ kind = "bailout" => Written(kind, about) = Bailout(about)
         /\ kind \notin Writes \ {"bootstrapOnchain"} => Written(kind, about) = db
BY DEF Written, Writes, ApprovedRows

\* The items that a write is about.
LEMMA WroteIs ==
  ASSUME NEW d, NEW r, r.kind \in Kinds
  PROVE  /\ r.kind = "createSaving" => Wrote(d, r) = {Savings, Balance}
         /\ r.kind \in {"applyLoan", "bootstrapOnchain"} => Wrote(d, r) = {}
         /\ r.kind \in {"sanggahLoan", "approveLoan", "rejectLoan"} => Wrote(d, r) = {Item("loan", r.about)}
         /\ r.kind \in KycWrites => Wrote(d, r) = {Item("member", r.about)}
         /\ r.kind = "bailout" => Wrote(d, r) = {Item("loan", r.about), Kas}
         /\ r.kind \notin Writes => Wrote(d, r) = {}
BY DEF Wrote, Touched, Writes, KycWrites, Kinds, AppKinds, PanelKinds, LoanWrites

LEMMA NothingWritten ==
  ASSUME NEW d, DbOk(d), NEW T
  PROVE  Effect(d, d, T)
BY DEF Effect

LEMMA DepositWritten ==
  ASSUME DbOk(db), NEW u \in DOMAIN db.role, NEW dN, dN = [db EXCEPT !.rows[u] = @ + 1]
  PROVE  Effect(db, dN, {Savings, Balance}) /\ dN.rows[u] = db.rows[u] + 1
<1> DEFINE rows == [db.rows EXCEPT ![u] = @ + 1]
<1>1. /\ db.kyc \in [MembersIn(db) -> {"Requested", "Approved", "Rejected"}]
      /\ db.pw \in [MembersIn(db) -> Nat] /\ db.rows \in [DOMAIN db.role -> Nat]
      /\ DOMAIN db.loans \in {{}, {"l1"}, {"l1", "l2"}} /\ db.kas \in Nat
  BY RowsAre
<1>2. rows \in [DOMAIN db.role -> Nat] /\ rows[u] = db.rows[u] + 1
  BY <1>1
<1>3. dN = [role |-> db.role, kyc |-> db.kyc, pw |-> db.pw, rows |-> rows, loans |-> db.loans,
            kas |-> db.kas]
  BY RowsAre
<1> HIDE DEF rows
<1>4. ASSUME NEW w, w = [role |-> db.role, kyc |-> db.kyc, pw |-> db.pw, rows |-> rows,
                         loans |-> db.loans, kas |-> db.kas]
      PROVE  /\ DbOk(w) /\ w.role = db.role /\ w.kyc = db.kyc /\ w.pw = db.pw
             /\ w.rows = rows /\ w.kas = db.kas /\ w.loans = db.loans
  BY <1>1, <1>2, <1>4, FieldsAre
<1>5. /\ DbOk(dN) /\ dN.role = db.role /\ dN.kyc = db.kyc /\ dN.pw = db.pw
      /\ dN.rows = rows /\ dN.kas = db.kas /\ dN.loans = db.loans
  BY <1>3, <1>4
<1> QED
  BY <1>2, <1>5 DEF Effect

LEMMA LoanAdded ==
  ASSUME DbOk(db), NEW u, Cardinality(DOMAIN db.loans) < Len(LoanIds), NEW dN, dN = AddLoan(u)
  PROVE  /\ Effect(db, dN, {}) /\ NewLoan \notin DOMAIN db.loans /\ NewLoan \in DOMAIN dN.loans
<1> DEFINE loans == [l \in DOMAIN db.loans \cup {NewLoan} |-> IF l = NewLoan THEN Loan(u) ELSE db.loans[l]]
<1>1. /\ db.kyc \in [MembersIn(db) -> {"Requested", "Approved", "Rejected"}]
      /\ db.pw \in [MembersIn(db) -> Nat] /\ db.rows \in [DOMAIN db.role -> Nat]
      /\ db.kas \in Nat
  BY RowsAre
<1>2. /\ NewLoan \notin DOMAIN db.loans
      /\ DOMAIN db.loans \cup {NewLoan} \in {{}, {"l1"}, {"l1", "l2"}}
  BY RoomForLoan
<1>3. dN = [role |-> db.role, kyc |-> db.kyc, pw |-> db.pw, rows |-> db.rows, loans |-> loans,
            kas |-> db.kas]
  BY RowsAre DEF AddLoan
<1>4. /\ DOMAIN loans = DOMAIN db.loans \cup {NewLoan}
      /\ \A l \in DOMAIN db.loans : l # NewLoan => loans[l] = db.loans[l]
  OBVIOUS
<1> HIDE DEF loans
<1>5. ASSUME NEW w, w = [role |-> db.role, kyc |-> db.kyc, pw |-> db.pw, rows |-> db.rows,
                         loans |-> loans, kas |-> db.kas]
      PROVE  /\ DbOk(w) /\ w.role = db.role /\ w.kyc = db.kyc /\ w.pw = db.pw
             /\ w.rows = db.rows /\ w.kas = db.kas /\ w.loans = loans
  <2>1. DOMAIN loans \in {{}, {"l1"}, {"l1", "l2"}}
    BY <1>2, <1>4
  <2> QED
    BY <1>1, <1>5, <2>1, FieldsAre
<1>6. /\ DbOk(dN) /\ dN.role = db.role /\ dN.kyc = db.kyc /\ dN.pw = db.pw
      /\ dN.rows = db.rows /\ dN.kas = db.kas /\ dN.loans = loans
  BY <1>3, <1>5
<1> QED
  BY <1>2, <1>4, <1>6 DEF Effect

LEMMA LoanWritten ==
  ASSUME DbOk(db), NEW l \in DOMAIN db.loans, NEW field, NEW value, NEW dN,
         dN = SetLoan(l, field, value)
  PROVE  Effect(db, dN, {Item("loan", l)})
<1>1. dN = LoanAndKas(l, field, value, db.kas) /\ db.kas \in Nat
  BY LoanSetOnly, RowsAre
<1>2. ASSUME NEW w, w = LoanAndKas(l, field, value, db.kas)
      PROVE  /\ DbOk(w) /\ w.role = db.role /\ w.kyc = db.kyc /\ w.pw = db.pw
             /\ w.rows = db.rows /\ w.kas = db.kas
             /\ DOMAIN w.loans = DOMAIN db.loans
             /\ \A x \in DOMAIN db.loans : x # l => w.loans[x] = db.loans[x]
  BY <1>1, <1>2, LoanSet
<1>3. Effect(db, LoanAndKas(l, field, value, db.kas), {Item("loan", l)})
  BY <1>2 DEF Effect
<1> QED
  BY <1>1, <1>3

LEMMA BailoutWritten ==
  ASSUME DbOk(db), NEW l \in DOMAIN db.loans, NEW dN, dN = Bailout(l)
  PROVE  Effect(db, dN, {Item("loan", l), Kas})
<1>1. CASE db.loans[l].cicilan = "DITALANGI"
  BY <1>1, NothingWritten DEF Bailout
<1>2. CASE db.loans[l].cicilan # "DITALANGI"
  <2> DEFINE kas == Max({0, db.kas - 1})
  <2>1. kas \in Nat
    <3>1. db.kas - 1 \in Int
      BY RowsAre
    <3> QED
      BY <3>1, GreatestOfTwo
  <2>2. dN = LoanAndKas(l, "cicilan", "DITALANGI", kas)
    <3>1. SetLoan(l, "cicilan", "DITALANGI").kas = db.kas
      BY RowsAre DEF SetLoan
    <3> QED
      BY <1>2, <3>1 DEF Bailout, LoanAndKas
  <2> HIDE DEF kas
  <2>3. ASSUME NEW w, w = LoanAndKas(l, "cicilan", "DITALANGI", kas)
        PROVE  /\ DbOk(w) /\ w.role = db.role /\ w.kyc = db.kyc /\ w.pw = db.pw
               /\ w.rows = db.rows /\ w.kas = kas
               /\ DOMAIN w.loans = DOMAIN db.loans
               /\ \A x \in DOMAIN db.loans : x # l => w.loans[x] = db.loans[x]
    BY <2>1, <2>3, LoanSet
  <2>4. Effect(db, LoanAndKas(l, "cicilan", "DITALANGI", kas), {Item("loan", l), Kas})
    BY <2>3 DEF Effect
  <2> QED
    BY <2>2, <2>4
<1> QED
  BY <1>1, <1>2

LEMMA KycWritten ==
  ASSUME DbOk(db), NEW m \in MembersIn(db), NEW kyc, NEW pw, NEW dN,
         kyc \in [MembersIn(db) -> {"Requested", "Approved", "Rejected"}],
         pw \in [MembersIn(db) -> Nat],
         \A x \in MembersIn(db) : x # m => kyc[x] = db.kyc[x] /\ pw[x] = db.pw[x],
         dN = [role |-> db.role, kyc |-> kyc, pw |-> pw, rows |-> db.rows, loans |-> db.loans,
               kas |-> db.kas]
  PROVE  Effect(db, dN, {Item("member", m)}) /\ dN.kyc = kyc /\ dN.pw = pw
<1>1. /\ db.rows \in [DOMAIN db.role -> Nat]
      /\ DOMAIN db.loans \in {{}, {"l1"}, {"l1", "l2"}} /\ db.kas \in Nat
  BY RowsAre
<1>2. /\ DbOk(dN) /\ dN.role = db.role /\ dN.kyc = kyc /\ dN.pw = pw
      /\ dN.rows = db.rows /\ dN.kas = db.kas /\ dN.loans = db.loans
  BY <1>1, FieldsAre
<1> QED
  BY <1>2 DEF Effect

LEMMA ApproveWritten ==
  ASSUME DbOk(db), NEW m \in MembersIn(db), NEW dN,
         dN = ApprovedRows(m)
  PROVE  Effect(db, dN, {Item("member", m)}) /\ dN.pw[m] = FirstPassword(m)
<1> DEFINE kyc == [db.kyc EXCEPT ![m] = "Approved"]
           pw == [db.pw EXCEPT ![m] = FirstPassword(m)]
<1>1. /\ db.kyc \in [MembersIn(db) -> {"Requested", "Approved", "Rejected"}]
      /\ db.pw \in [MembersIn(db) -> Nat] /\ FirstPassword(m) \in Nat
  BY RowsAre DEF FirstPassword
<1>2. kyc \in [MembersIn(db) -> {"Requested", "Approved", "Rejected"}] /\ pw \in [MembersIn(db) -> Nat]
  BY <1>1
<1>3. /\ \A x \in MembersIn(db) : x # m => kyc[x] = db.kyc[x] /\ pw[x] = db.pw[x]
      /\ pw[m] = FirstPassword(m)
  BY <1>1
<1>4. dN = [role |-> db.role, kyc |-> kyc, pw |-> pw, rows |-> db.rows, loans |-> db.loans,
            kas |-> db.kas]
  BY RowsAre DEF ApprovedRows
<1> HIDE DEF kyc, pw
<1>5. ASSUME NEW w, w = [role |-> db.role, kyc |-> kyc, pw |-> pw, rows |-> db.rows,
                         loans |-> db.loans, kas |-> db.kas]
      PROVE  Effect(db, w, {Item("member", m)}) /\ w.pw = pw
  BY <1>2, <1>3, <1>5, KycWritten
<1> QED
  BY <1>3, <1>4, <1>5

LEMMA RejectWritten ==
  ASSUME DbOk(db), NEW m \in MembersIn(db), NEW dN,
         dN = [db EXCEPT !.kyc[m] = "Rejected"]
  PROVE  Effect(db, dN, {Item("member", m)})
<1> DEFINE kyc == [db.kyc EXCEPT ![m] = "Rejected"]
           pw == db.pw
<1>1. /\ db.kyc \in [MembersIn(db) -> {"Requested", "Approved", "Rejected"}]
      /\ db.pw \in [MembersIn(db) -> Nat] /\ FirstPassword(m) \in Nat
  BY RowsAre DEF FirstPassword
<1>2. kyc \in [MembersIn(db) -> {"Requested", "Approved", "Rejected"}] /\ pw \in [MembersIn(db) -> Nat]
  BY <1>1
<1>3. /\ \A x \in MembersIn(db) : x # m => kyc[x] = db.kyc[x] /\ pw[x] = db.pw[x]
      /\ pw[m] = db.pw[m]
  BY <1>1
<1>4. dN = [role |-> db.role, kyc |-> kyc, pw |-> pw, rows |-> db.rows, loans |-> db.loans,
            kas |-> db.kas]
  BY RowsAre
<1> HIDE DEF kyc, pw
<1>5. ASSUME NEW w, w = [role |-> db.role, kyc |-> kyc, pw |-> pw, rows |-> db.rows,
                         loans |-> db.loans, kas |-> db.kas]
      PROVE  Effect(db, w, {Item("member", m)}) /\ w.pw = pw
  BY <1>2, <1>3, <1>5, KycWritten
<1> QED
  BY <1>3, <1>4, <1>5

LEMMA ResetWritten ==
  ASSUME DbOk(db), NEW m \in MembersIn(db), NEW dN,
         dN = [db EXCEPT !.pw[m] = @ + 1]
  PROVE  Effect(db, dN, {Item("member", m)})
<1> DEFINE kyc == db.kyc
           pw == [db.pw EXCEPT ![m] = @ + 1]
<1>1. /\ db.kyc \in [MembersIn(db) -> {"Requested", "Approved", "Rejected"}]
      /\ db.pw \in [MembersIn(db) -> Nat] /\ FirstPassword(m) \in Nat
  BY RowsAre DEF FirstPassword
<1>2. kyc \in [MembersIn(db) -> {"Requested", "Approved", "Rejected"}] /\ pw \in [MembersIn(db) -> Nat]
  BY <1>1
<1>3. /\ \A x \in MembersIn(db) : x # m => kyc[x] = db.kyc[x] /\ pw[x] = db.pw[x]
      /\ pw[m] = db.pw[m] + 1
  BY <1>1
<1>4. dN = [role |-> db.role, kyc |-> kyc, pw |-> pw, rows |-> db.rows, loans |-> db.loans,
            kas |-> db.kas]
  BY RowsAre
<1> HIDE DEF kyc, pw
<1>5. ASSUME NEW w, w = [role |-> db.role, kyc |-> kyc, pw |-> pw, rows |-> db.rows,
                         loans |-> db.loans, kas |-> db.kas]
      PROVE  Effect(db, w, {Item("member", m)}) /\ w.pw = pw
  BY <1>2, <1>3, <1>5, KycWritten
<1> QED
  BY <1>3, <1>4, <1>5

LEMMA WrittenIs ==
  ASSUME DbOk(db), NEW r, CallOk(db, r), Room(r), NEW dN, dN = Written(r.kind, r.about)
  PROVE  /\ Effect(db, dN, Wrote(db, r))
         /\ r.kind = "createSaving" => dN.rows[r.about] = db.rows[r.about] + 1
         /\ r.kind = "applyLoan" => NewLoan \notin DOMAIN db.loans /\ NewLoan \in DOMAIN dN.loans
         /\ r.kind = "approveKyc" => dN.pw[r.about] = FirstPassword(r.about)
<1>1. /\ r.kind \in Kinds /\ AboutOk(db, r)
  BY DEF CallOk
<1>2. CASE r.kind = "createSaving"
  <2>1. r.about \in DOMAIN db.role
    BY <1>1, <1>2 DEF AboutOk
  <2>2. dN = [db EXCEPT !.rows[r.about] = @ + 1]
    BY <1>2, WrittenKinds
  <2> QED
    BY <1>1, <1>2, <2>1, <2>2, DepositWritten, WroteIs
<1>3. CASE r.kind = "applyLoan"
  <2>1. Cardinality(DOMAIN db.loans) < Len(LoanIds)
    BY <1>3 DEF Room
  <2>2. dN = AddLoan(r.about)
    BY <1>3, WrittenKinds
  <2> QED
    BY <1>1, <1>3, <2>1, <2>2, LoanAdded, WroteIs
<1>4. CASE r.kind \in {"sanggahLoan", "approveLoan", "rejectLoan"}
  <2>1. r.about \in DOMAIN db.loans
    BY <1>1, <1>4 DEF AboutOk, LoanWrites
  <2>2. \E field, value : dN = SetLoan(r.about, field, value)
    <3>1. CASE r.kind = "sanggahLoan"
      <4>1. dN = SetLoan(r.about, "isSanggah", TRUE)
        BY <3>1, WrittenKinds
      <4> QED
        BY <4>1
    <3>2. CASE r.kind = "approveLoan"
      <4>1. dN = SetLoan(r.about, "status", "Disetujui")
        BY <3>2, WrittenKinds
      <4> QED
        BY <4>1
    <3>3. CASE r.kind = "rejectLoan"
      <4>1. dN = SetLoan(r.about, "status", "Ditunda")
        BY <3>3, WrittenKinds
      <4> QED
        BY <4>1
    <3> QED
      BY <1>4, <3>1, <3>2, <3>3
  <2>3. Effect(db, dN, {Item("loan", r.about)})
    <3>1. PICK field, value : dN = SetLoan(r.about, field, value)
      BY <2>2
    <3> QED
      BY <2>1, <3>1, LoanWritten
  <2> QED
    BY <1>1, <1>4, <2>3, WroteIs
<1>5. CASE r.kind = "bailout"
  <2>1. r.about \in DOMAIN db.loans /\ dN = Bailout(r.about)
    BY <1>1, <1>5, WrittenKinds DEF AboutOk, LoanWrites
  <2> QED
    BY <1>1, <1>5, <2>1, BailoutWritten, WroteIs
<1>6. CASE r.kind \in KycWrites
  <2>1. r.about \in MembersIn(db)
    BY <1>1, <1>6 DEF AboutOk
  <2>2. Wrote(db, r) = {Item("member", r.about)} /\ r.kind # "createSaving" /\ r.kind # "applyLoan"
    BY <1>1, <1>6, WroteIs DEF KycWrites
  <2>3. CASE r.kind = "approveKyc"
    <3>1. dN = ApprovedRows(r.about)
      BY <2>3, WrittenKinds
    <3> QED
      BY <2>1, <2>2, <2>3, <3>1, ApproveWritten
  <2>4. CASE r.kind = "rejectKyc"
    <3>1. dN = [db EXCEPT !.kyc[r.about] = "Rejected"]
      BY <2>4, WrittenKinds
    <3> QED
      BY <2>1, <2>2, <2>4, <3>1, RejectWritten
  <2>5. CASE r.kind = "resetPassword"
    <3>1. dN = [db EXCEPT !.pw[r.about] = @ + 1]
      BY <2>5, WrittenKinds
    <3> QED
      BY <2>1, <2>2, <2>5, <3>1, ResetWritten
  <2> QED
    BY <1>6, <2>3, <2>4, <2>5 DEF KycWrites
<1>7. CASE r.kind \notin Writes \ {"bootstrapOnchain"}
  <2>1. dN = db
    BY <1>7, WrittenKinds
  <2> QED
    BY <1>1, <1>7, <2>1, NothingWritten DEF Writes
<1> QED
  BY <1>2, <1>3, <1>4, <1>5, <1>6, <1>7 DEF Writes, KycWrites

\* What the answer s says is what is stored once it is served.
Right(d, dN, s) ==
    /\ s.kind \in {"login", "me", "getMe"} => s.got.balance = dN.rows[s.got.id]
    /\ s.kind = "loadData" => s.got = SavingsIn(dN, s.about)
    /\ s.kind = "createSaving" => /\ s.got = d.rows[s.about] + 1
                                  /\ dN.rows[s.about] = d.rows[s.about] + 1
    /\ s.kind = "applyLoan" => s.got.loan = dN.loans[s.got.id] /\ s.got.id \notin DOMAIN d.loans
    /\ s.kind \in {"sanggahLoan", "approveLoan", "rejectLoan"} => s.got = dN.loans[s.about]
    /\ s.kind = "bailout" => s.got.loan = dN.loans[s.about] /\ s.got.kas = dN.kas
    /\ s.kind = "approveKyc" => /\ s.got.kyc = dN.kyc[s.about]
                                /\ s.got.tempPassword # None => s.got.tempPassword = dN.pw[s.about]
    /\ s.kind \in {"rejectKyc", "getMemberDetail"} => s.got = dN.kyc[s.about]
    /\ s.kind = "resetPassword" => s.got = dN.pw[s.about]
    /\ s.kind = "loadAll" => s.got.members = dN.kyc /\ s.got.loans = dN.loans /\ s.got.kas = dN.kas

LEMMA AnswerKinds ==
  ASSUME NEW kind, NEW about, NEW who, NEW dN, NEW got, got = Answer(kind, about, who, dN)
  PROVE  /\ kind = "login" => got = Member(about)
         /\ kind \in {"me", "getMe"} => got = Member(who)
         /\ kind = "loadData" => got = SavingsOf(about)
         /\ kind = "createSaving" => got = dN.rows[about]
         /\ kind = "applyLoan" => got = [id |-> NewLoan, loan |-> dN.loans[NewLoan]]
         /\ kind \in {"sanggahLoan", "approveLoan", "rejectLoan"} => got = dN.loans[about]
         /\ kind = "approveKyc" => got = [kyc |-> dN.kyc[about],
                                          tempPassword |-> IF db.pw[about] = 0 THEN 1 ELSE None]
         /\ kind \in {"rejectKyc", "getMemberDetail"} => got = dN.kyc[about]
         /\ kind = "resetPassword" => got = NewPassword(about, dN)
         /\ kind = "bailout" => got = [loan |-> dN.loans[about], kas |-> dN.kas]
         /\ kind = "loadAll" => got = [members |-> dN.kyc, loans |-> dN.loans, kas |-> dN.kas]
BY DEF Answer

LEMMA AnswerIs ==
  ASSUME DbOk(db), NEW r, CallOk(db, r), Room(r), Authorised(r),
         NEW dN, dN = Written(r.kind, r.about),
         NEW s, SameCall(r, s), s.got = Answer(r.kind, r.about, r.who, dN)
  PROVE  Right(db, dN, s) /\ GotOk(dN, s)
<1>1. /\ s.kind = r.kind /\ s.about = r.about /\ s.who = r.who
      /\ r.kind \in Kinds /\ AboutOk(db, r) /\ r.who \in DOMAIN db.role \cup {None}
  BY DEF SameCall, CallOk
<1>2. /\ DbOk(dN) /\ dN.role = db.role
      /\ r.kind = "createSaving" => dN.rows[r.about] = db.rows[r.about] + 1
      /\ r.kind = "applyLoan" => NewLoan \notin DOMAIN db.loans /\ NewLoan \in DOMAIN dN.loans
      /\ r.kind = "approveKyc" => dN.pw[r.about] = FirstPassword(r.about)
  BY WrittenIs DEF Effect
<1>3. r.kind \notin Writes => dN = db
  BY WrittenKinds
<1>4. CASE r.kind \in {"login", "me", "getMe"}
  <2>1. dN = db
    BY <1>3, <1>4 DEF Writes
  <2>2. \E u \in DOMAIN db.role : s.got = Member(u) /\ u = IF r.kind = "login" THEN r.about ELSE r.who
    BY <1>1, <1>4, AnswerKinds DEF AboutOk, Authorised
  <2>3. PICK u \in DOMAIN db.role : s.got = Member(u) /\ u = IF r.kind = "login" THEN r.about ELSE r.who
    BY <2>2
  <2>4. s.got.id = u /\ s.got.balance = db.rows[u] /\ s.got \in RowIn(db)
    BY <2>3, RowsAre DEF Member, RowIn
  <2>5. GotOk(dN, s)
    BY <1>1, <1>4, <2>1, <2>3, <2>4 DEF GotOk
  <2>6. Right(db, dN, s)
    BY <1>1, <1>4, <2>1, <2>4 DEF Right
  <2> QED
    BY <2>5, <2>6
<1>5. CASE r.kind = "loadAll"
  <2>1. dN = db
    BY <1>3, <1>5 DEF Writes
  <2>2. s.got.members = db.kyc /\ s.got.loans = db.loans /\ s.got.kas = db.kas
    BY <1>5, <2>1, AnswerKinds
  <2>3. DOMAIN db.kyc = MembersIn(db)
    BY RowsAre
  <2> QED
    BY <1>1, <1>5, <2>1, <2>2, <2>3 DEF Right, GotOk
<1>6. CASE r.kind = "applyLoan"
  <2>1. s.got = [id |-> NewLoan, loan |-> dN.loans[NewLoan]]
    BY <1>6, AnswerKinds
  <2>2. s.got.id = NewLoan /\ s.got.loan = dN.loans[NewLoan] /\ s.got = [id |-> s.got.id, loan |-> s.got.loan]
    BY <2>1
  <2> QED
    BY <1>1, <1>2, <1>6, <2>2 DEF Right, GotOk
<1>7. CASE r.kind \notin {"login", "me", "getMe", "loadAll", "applyLoan"}
  <2>1. GotOk(dN, s)
    BY <1>1, <1>7 DEF GotOk
  <2>2. CASE r.kind = "loadData"
    <3>1. dN = db
      BY <1>3, <2>2 DEF Writes
    <3>2. s.got = SavingsOf(r.about)
      BY <2>2, AnswerKinds
    <3> QED
      BY <1>1, <2>1, <2>2, <3>1, <3>2 DEF Right, SavingsOf, SavingsIn
  <2>3. CASE r.kind = "createSaving"
    BY <1>1, <1>2, <2>1, <2>3, AnswerKinds DEF Right
  <2>4. CASE r.kind \in {"sanggahLoan", "approveLoan", "rejectLoan"}
    BY <1>1, <2>1, <2>4, AnswerKinds DEF Right
  <2>5. CASE r.kind = "bailout"
    BY <1>1, <2>1, <2>5, AnswerKinds DEF Right
  <2>6. CASE r.kind = "approveKyc"
    <3>1. /\ s.got.kyc = dN.kyc[r.about]
          /\ s.got.tempPassword = IF db.pw[r.about] = 0 THEN 1 ELSE None
      BY <2>6, AnswerKinds
    <3>2. s.got.tempPassword # None => s.got.tempPassword = dN.pw[r.about]
      BY <1>2, <2>6, <3>1 DEF FirstPassword
    <3> QED
      BY <1>1, <2>1, <2>6, <3>1, <3>2 DEF Right
  <2>7. CASE r.kind \in {"rejectKyc", "getMemberDetail"}
    BY <1>1, <2>1, <2>7, AnswerKinds DEF Right
  <2>8. CASE r.kind = "resetPassword"
    BY <1>1, <2>1, <2>8, AnswerKinds DEF Right, NewPassword
  <2>9. CASE r.kind \in {"bootstrapOnchain", "onchainStatus"}
    BY <1>1, <2>1, <2>9 DEF Right
  <2> QED
    BY <1>1, <1>7, <2>2, <2>3, <2>4, <2>5, <2>6, <2>7, <2>8, <2>9
       DEF Kinds, AppKinds, PanelKinds, KycWrites, LoanWrites
<1> QED
  BY <1>4, <1>5, <1>6, <1>7

----------------------------------------------------------------------------
(* What a call that is served leaves true                                *)

\* The call in slot i is served: the rows d become dN, the calls c become cN,
\* and the doubt u grows to uN by what a view that left does not hear of.
ServedTo(d, c, u, i, dN, cN, uN) ==
    /\ DbOk(d) /\ CallsOk(d, c) /\ Apart(d, c) /\ Doubted(d, c, u)
    /\ i \in DOMAIN c /\ ~Served(c[i])
    /\ Effect(d, dN, Wrote(d, c[i]))
    /\ DOMAIN cN \subseteq DOMAIN c
    /\ \A j \in DOMAIN c : j # i => j \in DOMAIN cN /\ cN[j] = c[j]
    /\ i \in DOMAIN cN => SameCall(c[i], cN[i]) /\ Served(cN[i]) /\ Right(d, dN, cN[i])
    /\ c[i].live = "mounted" => i \in DOMAIN cN
    /\ u \subseteq uN /\ (c[i].live # "mounted" => Wrote(d, c[i]) \subseteq uN)

\* Nobody else's answer that is still trusted speaks of what was written.
LEMMA Safe ==
  ASSUME NEW d, NEW c, NEW u, NEW i, NEW dN, NEW cN, NEW uN, ServedTo(d, c, u, i, dN, cN, uN),
         NEW j \in DOMAIN c, j # i, NEW x \in Touched(d, c[j]), Trusted(c[j], uN, x),
         c[j].live = "mounted" \/ x = Balance
  PROVE  x \notin Wrote(d, c[i]) /\ Trusted(c[j], u, x)
BY DEF ServedTo, Wrote, Apart, Doubted, Trusted

LEMMA OthersAre ==
  ASSUME NEW d, NEW c, NEW u, NEW i, NEW dN, NEW cN, NEW uN, ServedTo(d, c, u, i, dN, cN, uN),
         NEW j \in DOMAIN cN
  PROVE  /\ j \in DOMAIN c /\ CallOk(d, c[j]) /\ c[j].kind \in Kinds
         /\ SameCall(c[j], cN[j])
         /\ j # i => cN[j] = c[j]
         /\ Served(cN[j]) /\ cN[j].kind \notin {"createSaving", "getMe"} /\ j # i =>
                c[j].live = "mounted"
<1>1. j \in DOMAIN c /\ CallOk(d, c[j]) /\ (j # i => cN[j] = c[j])
  BY DEF ServedTo, CallsOk
<1>2. SameCall(c[j], cN[j])
  BY <1>1 DEF ServedTo, SameCall
<1>3. c[j].kind \in Kinds
  BY <1>1 DEF CallOk
<1> QED
  BY <1>1, <1>2, <1>3, NotGone, MountedIs

LEMMA BalanceServed ==
  ASSUME NEW d, NEW c, NEW u, NEW i, NEW dN, NEW cN, NEW uN, ServedTo(d, c, u, i, dN, cN, uN),
         NEW m, BalanceKept(d, c, u, m)
  PROVE  BalanceKept(dN, cN, uN, m)
<1> USE DEF Booked
<1>1. ASSUME m # None, Balance \notin uN, \A j \in DOMAIN cN : ~Booked(cN[j])
      PROVE  m.balance = dN.rows[m.id]
  <2>1. \A j \in DOMAIN c : ~Booked(c[j])
    BY <1>1 DEF ServedTo, Served
  <2>2. m.balance = d.rows[m.id]
    BY <1>1, <2>1 DEF BalanceKept, ServedTo
  <2>3. Balance \notin Wrote(d, c[i])
    <3>1. c[i].kind \in Kinds
      BY DEF ServedTo, CallsOk, CallOk
    <3>2. ASSUME Balance \in Wrote(d, c[i]) PROVE FALSE
      <4>1. c[i].kind = "createSaving"
        BY <3>1, <3>2, TouchedIs DEF Wrote, Writes
      <4>2. c[i].live = "mounted"
        BY <1>1, <3>2 DEF ServedTo
      <4>3. i \in DOMAIN cN /\ SameCall(c[i], cN[i]) /\ Served(cN[i])
        BY <4>2 DEF ServedTo
      <4>4. Booked(cN[i])
        BY <4>1, <4>3 DEF SameCall, Served
      <4> QED
        BY <1>1, <4>3, <4>4
    <3> QED
      BY <3>2
  <2>4. dN.rows = d.rows
    BY <2>3 DEF ServedTo, Effect
  <2> QED
    BY <2>2, <2>4
<1>2. ASSUME NEW j \in DOMAIN cN, cN[j].kind \in {"login", "me", "getMe"}, Served(cN[j]),
             Trusted(cN[j], uN, Balance)
      PROVE  cN[j].got.balance = dN.rows[cN[j].got.id]
  <2>1. CASE j = i
    BY <1>2, <2>1 DEF ServedTo, Right
  <2>2. CASE j # i
    <3>1. j \in DOMAIN c /\ cN[j] = c[j] /\ c[j].kind \in Kinds
      BY <2>2, OthersAre
    <3>2. Balance \in Touched(d, c[j])
      BY <1>2, <3>1, TouchedIs
    <3>3. Balance \notin Wrote(d, c[i]) /\ Trusted(c[j], u, Balance)
      BY <1>2, <2>2, <3>1, <3>2, Safe
    <3>4. dN.rows = d.rows
      BY <3>3 DEF ServedTo, Effect
    <3> QED
      BY <1>2, <3>1, <3>3, <3>4 DEF BalanceKept
  <2> QED
    BY <2>1, <2>2
<1> QED
  BY <1>1, <1>2 DEF BalanceKept

LEMMA PrependedIs ==
  ASSUME NEW s \in Seq(Int), NEW n \in Int
  PROVE  /\ <<n>> \o s \in Seq(Int) /\ Len(<<n>> \o s) = 1 + Len(s)
         /\ \A k \in 1 .. 1 + Len(s) : (<<n>> \o s)[k] = IF k = 1 THEN n ELSE s[k - 1]
OBVIOUS

LEMMA Prepended ==
  ASSUME NEW n \in Nat, NEW s \in Seq(Int), Len(s) = n, \A k \in 1..n : s[k] = n + 1 - k,
         NEW t \in Seq(Int), Len(t) = n + 1, \A k \in 1..(n + 1) : t[k] = n + 2 - k
  PROVE  <<n + 1>> \o s = t
<1> DEFINE r == <<n + 1>> \o s
<1>1. /\ r \in Seq(Int) /\ Len(r) = 1 + Len(s)
      /\ \A k \in 1 .. 1 + Len(s) : r[k] = IF k = 1 THEN n + 1 ELSE s[k - 1]
  <2>1. n + 1 \in Int
    OBVIOUS
  <2> QED
    BY <2>1, PrependedIs, Zenon
<1> HIDE DEF r
<1>2. ASSUME NEW k \in 1..(n + 1) PROVE r[k] = t[k]
  <2>1. CASE k = 1
    BY <1>1, <2>1
  <2>2. CASE k # 1
    <3>1. k - 1 \in 1..n /\ k \in 1 .. 1 + Len(s)
      BY <2>2
    <3>2. r[k] = s[k - 1]
      BY <1>1, <2>2, <3>1
    <3>3. s[k - 1] = n + 1 - (k - 1)
      BY <3>1
    <3>4. n + 1 - (k - 1) = n + 2 - k
      OBVIOUS
    <3> QED
      BY <3>2, <3>3, <3>4
  <2> QED
    BY <2>1, <2>2
<1>3. r = t
  <2>1. Len(r) = Len(t) /\ \A k \in 1 .. Len(r) : r[k] = t[k]
    BY <1>1, <1>2
  <2> QED
    BY <1>1, <2>1, SeqEqual, Zenon
<1> QED
  BY <1>3 DEF r

LEMMA CountdownIs ==
  ASSUME NEW n \in Nat, NEW m \in Nat
  PROVE  LET s == [k \in 1..n |-> m - k] IN
         s \in Seq(Int) /\ Len(s) = n /\ \A k \in 1..n : s[k] = m - k
<1> DEFINE s == [k \in 1..n |-> m - k]
<1>1. s \in [1..n -> Int] /\ \A k \in 1..n : s[k] = m - k
  OBVIOUS
<1>2. s \in Seq(Int) /\ Len(s) = n
  OBVIOUS
<1> HIDE DEF s
<1> QED
  BY <1>1, <1>2 DEF s

LEMMA NewestFirst ==
  ASSUME NEW d, NEW dN, NEW v, d.rows[v] \in Nat, dN.rows[v] = d.rows[v] + 1
  PROVE  <<dN.rows[v]>> \o SavingsIn(d, v) = SavingsIn(dN, v)
<1> DEFINE n == d.rows[v]
           s == [k \in 1..n |-> n + 1 - k]
           t == [k \in 1..(n + 1) |-> n + 2 - k]
<1>1. n \in Nat /\ SavingsIn(d, v) = s
  BY DEF SavingsIn
<1>2. SavingsIn(dN, v) = t
  BY DEF SavingsIn
<1>3. /\ s \in Seq(Int) /\ Len(s) = n /\ \A k \in 1..n : s[k] = n + 1 - k
      /\ t \in Seq(Int) /\ Len(t) = n + 1 /\ \A k \in 1..(n + 1) : t[k] = n + 2 - k
  <2> HIDE DEF n
  <2>1. n + 1 \in Nat /\ n + 2 \in Nat
    BY <1>1
  <2> QED
    <3>1. s \in Seq(Int) /\ Len(s) = n /\ \A k \in 1..n : s[k] = n + 1 - k
      BY <1>1, <2>1, CountdownIs
    <3>2. t \in Seq(Int) /\ Len(t) = n + 1 /\ \A k \in 1..(n + 1) : t[k] = n + 2 - k
      BY <1>1, <2>1, CountdownIs
    <3> QED
      BY <3>1, <3>2
<1> HIDE DEF n, s, t
<1>4. <<n + 1>> \o s = t
  <2>1. n \in Nat
    BY <1>1
  <2>2. s \in Seq(Int) /\ Len(s) = n /\ \A k \in 1..n : s[k] = n + 1 - k
    BY <1>3
  <2>3. t \in Seq(Int) /\ Len(t) = n + 1 /\ \A k \in 1..(n + 1) : t[k] = n + 2 - k
    BY <1>3
  <2> QED
    BY <2>1, <2>2, <2>3, Prepended
<1>5. dN.rows[v] = n + 1
  BY DEF n
<1> QED
  BY <1>1, <1>2, <1>4, <1>5

LEMMA SavingsServed ==
  ASSUME NEW d, NEW c, NEW u, NEW i, NEW dN, NEW cN, NEW uN, ServedTo(d, c, u, i, dN, cN, uN),
         NEW m, NEW a, NEW view, SavingsKept(d, c, u, m, a, view)
  PROVE  SavingsKept(dN, cN, uN, m, a, view)
<1>0. c[i].kind \in Kinds /\ CallOk(d, c[i])
  BY DEF ServedTo, CallsOk, CallOk
<1>1. ASSUME view = "Anggota", Savings \notin uN, \A j \in DOMAIN cN : ~Booked(cN[j])
      PROVE  a.savings = SavingsIn(dN, m.id)
  <2>1. \A j \in DOMAIN c : ~Booked(c[j])
    BY <1>1 DEF ServedTo, Served, Booked
  <2>2. a.savings = SavingsIn(d, m.id)
    BY <1>1, <2>1 DEF SavingsKept, ServedTo
  <2>3. ASSUME Savings \in Wrote(d, c[i]) PROVE FALSE
    <3>1. c[i].kind = "createSaving"
      BY <1>0, <2>3, TouchedIs DEF Wrote, Writes
    <3>2. c[i].live = "mounted"
      BY <1>1, <2>3 DEF ServedTo
    <3>3. i \in DOMAIN cN /\ SameCall(c[i], cN[i]) /\ Served(cN[i])
      BY <3>2 DEF ServedTo
    <3> QED
      BY <1>1, <3>1, <3>3 DEF SameCall, Served, Booked
  <2>4. dN.rows = d.rows
    BY <2>3 DEF ServedTo, Effect
  <2> QED
    BY <2>2, <2>4 DEF SavingsIn
<1>2. ASSUME view = "Anggota", Savings \notin uN, NEW j \in DOMAIN cN, Booked(cN[j])
      PROVE  /\ cN[j].live = "mounted"
             /\ cN[j].about = m.id => <<cN[j].got>> \o a.savings = SavingsIn(dN, m.id)
  <2>0. Savings \notin u
    BY <1>2 DEF ServedTo
  <2>1. CASE j # i
    <3>1. j \in DOMAIN c /\ cN[j] = c[j] /\ c[j].kind \in Kinds /\ c[j].kind = "createSaving"
      BY <1>2, <2>1, OthersAre DEF Booked
    <3>2. c[j].live = "mounted"
      BY <1>2, <2>0, <3>1 DEF SavingsKept
    <3>3. Savings \in Touched(d, c[j])
      BY <3>1, TouchedIs
    <3>4. Savings \notin Wrote(d, c[i])
      BY <1>2, <2>1, <3>1, <3>2, <3>3, Safe DEF Trusted
    <3>5. dN.rows = d.rows
      BY <3>4 DEF ServedTo, Effect
    <3> QED
      BY <1>2, <2>0, <3>1, <3>2, <3>5 DEF SavingsKept, SavingsIn
  <2>2. CASE j = i
    <3>1. c[i].kind = "createSaving" /\ SameCall(c[i], cN[i]) /\ Right(d, dN, cN[i])
      BY <1>2, <2>2 DEF Booked, ServedTo, SameCall
    <3>2. Savings \in Touched(d, c[i]) /\ c[i].kind \in Writes
      BY <1>0, <3>1, TouchedIs DEF Writes
    <3>3. c[i].live = "mounted"
      BY <1>2, <3>2 DEF ServedTo, Wrote
    <3>4. ASSUME NEW k \in DOMAIN c, Booked(c[k]) PROVE FALSE
      <4>1. k # i
        BY <3>4 DEF Booked, ServedTo, Served
      <4>2. c[k].kind \in Kinds /\ c[k].kind = "createSaving"
        BY <3>4 DEF ServedTo, CallsOk, CallOk, Booked
      <4>3. Savings \in Touched(d, c[k]) /\ c[k].live = "mounted"
        BY <1>2, <2>0, <3>4, <4>2, TouchedIs DEF SavingsKept
      <4> QED
        BY <2>0, <3>2, <4>1, <4>3 DEF ServedTo, Doubted
    <3>5. a.savings = SavingsIn(d, m.id)
      BY <1>2, <2>0, <3>4 DEF SavingsKept
    <3>6. c[i].about \in DOMAIN d.role
      BY <1>0, <3>1 DEF CallOk, AboutOk
    <3>7. d.rows[c[i].about] \in Nat
      BY <3>6 DEF ServedTo, DbOk
    <3>8. cN[i].kind = "createSaving" /\ cN[i].about = c[i].about /\ cN[i].live = "mounted"
      BY <3>1, <3>3 DEF SameCall
    <3>9. cN[i].got = dN.rows[c[i].about] /\ dN.rows[c[i].about] = d.rows[c[i].about] + 1
      BY <3>1, <3>8 DEF Right
    <3> QED
      BY <2>2, <3>5, <3>7, <3>8, <3>9, NewestFirst
  <2> QED
    BY <2>1, <2>2
<1>3. ASSUME NEW j \in DOMAIN cN, cN[j].kind = "loadData", Trusted(cN[j], uN, Savings)
      PROVE  cN[j].about = m.id /\ (Served(cN[j]) => cN[j].got = SavingsIn(dN, m.id))
  <2>1. /\ j \in DOMAIN c /\ c[j].kind \in Kinds /\ CallOk(d, c[j]) /\ SameCall(c[j], cN[j])
        /\ j # i => cN[j] = c[j]
    BY OthersAre
  <2>2. c[j].kind = "loadData" /\ c[j].about = cN[j].about /\ Trusted(c[j], uN, Savings)
    BY <1>3, <2>1 DEF SameCall, Trusted
  <2>3. c[j].about = m.id
    BY <2>1, <2>2 DEF SavingsKept, Trusted, ServedTo
  <2>4. CASE j = i
    BY <1>3, <2>2, <2>3, <2>4 DEF ServedTo, Right
  <2>5. CASE j # i
    <3>1. Savings \in Touched(d, c[j])
      BY <2>1, <2>2, TouchedIs
    <3>2. ASSUME Served(cN[j]) PROVE cN[j].got = SavingsIn(dN, m.id)
      <4>1. c[j].live = "mounted"
        BY <1>3, <2>5, <3>2, OthersAre
      <4>2. Savings \notin Wrote(d, c[i]) /\ Trusted(c[j], u, Savings)
        BY <2>1, <2>2, <2>5, <3>1, <4>1, Safe
      <4>3. dN.rows = d.rows
        BY <4>2 DEF ServedTo, Effect
      <4> QED
        BY <2>1, <2>2, <2>5, <3>2, <4>2, <4>3 DEF SavingsKept, SavingsIn
    <3> QED
      BY <2>2, <2>3, <3>2
  <2> QED
    BY <2>4, <2>5
<1> QED
  BY <1>1, <1>2, <1>3 DEF SavingsKept

LEMMA SameMembers ==
  ASSUME NEW d, NEW dN, NEW T, Effect(d, dN, T)
  PROVE  MembersIn(dN) = MembersIn(d) /\ RowIn(dN) = RowIn(d)
BY DEF Effect, MembersIn, RowIn

\* What a view on screen was not told of is in doubt.
LEMMA WroteTold ==
  ASSUME NEW d, NEW c, NEW u, NEW i, NEW dN, NEW cN, NEW uN, ServedTo(d, c, u, i, dN, cN, uN),
         NEW x \in Wrote(d, c[i]), x \notin uN
  PROVE  /\ c[i].live = "mounted" /\ c[i].kind \in Writes /\ c[i].kind \in Kinds
         /\ x \in Touched(d, c[i]) /\ x \notin u
         /\ i \in DOMAIN cN /\ SameCall(c[i], cN[i]) /\ Served(cN[i])
<1>1. c[i].live = "mounted" /\ i \in DOMAIN cN /\ x \notin u
  BY DEF ServedTo
<1>2. SameCall(c[i], cN[i]) /\ Served(cN[i])
  BY <1>1 DEF ServedTo
<1>3. c[i].kind \in Kinds
  BY DEF ServedTo, CallsOk, CallOk
<1> QED
  BY <1>1, <1>2, <1>3 DEF Wrote

LEMMA LoansServed ==
  ASSUME NEW d, NEW c, NEW u, NEW i, NEW dN, NEW cN, NEW uN, ServedTo(d, c, u, i, dN, cN, uN),
         NEW p, LoansKept(d, c, u, p), DOMAIN p.loans \subseteq DOMAIN d.loans,
         c[i].live = "mounted" => c[i].kind \notin AppKinds
  PROVE  LoansKept(dN, cN, uN, p)
<1>0. /\ \A l \in DOMAIN d.loans : Item("loan", l) \notin Wrote(d, c[i]) => dN.loans[l] = d.loans[l]
      /\ u \subseteq uN
  BY DEF ServedTo, Effect
<1>1. ASSUME NEW l \in DOMAIN p.loans, Item("loan", l) \notin uN,
             \A j \in DOMAIN cN : ~(cN[j].kind \in LoanWrites /\ Served(cN[j]) /\ cN[j].about = l)
      PROVE  p.loans[l] = dN.loans[l]
  <2>1. \A j \in DOMAIN c : ~(c[j].kind \in LoanWrites /\ Served(c[j]) /\ c[j].about = l)
    BY <1>1 DEF ServedTo
  <2>2. p.loans[l] = d.loans[l]
    BY <1>0, <1>1, <2>1 DEF LoansKept
  <2>3. ASSUME Item("loan", l) \in Wrote(d, c[i]) PROVE FALSE
    <3>1. /\ c[i].live = "mounted" /\ c[i].kind \in Writes /\ c[i].kind \in Kinds
          /\ Item("loan", l) \in Touched(d, c[i])
          /\ i \in DOMAIN cN /\ SameCall(c[i], cN[i]) /\ Served(cN[i])
      BY <1>1, <2>3, WroteTold
    <3>2. c[i].kind \in LoanWrites \cup {"sanggahLoan"} /\ c[i].about = l
      BY <3>1, TouchedIs DEF Writes
    <3>3. c[i].kind \in LoanWrites
      BY <3>1, <3>2 DEF AppKinds
    <3> QED
      BY <1>1, <3>1, <3>2, <3>3 DEF SameCall
  <2> QED
    BY <1>0, <2>2, <2>3
<1>2. ASSUME NEW j \in DOMAIN cN, Served(cN[j]), Item("loan", cN[j].about) \notin uN
      PROVE  /\ cN[j].kind \in {"approveLoan", "rejectLoan"} => cN[j].got = dN.loans[cN[j].about]
             /\ cN[j].kind = "bailout" => cN[j].got.loan = dN.loans[cN[j].about]
  <2>1. CASE j = i
    BY <1>2, <2>1 DEF ServedTo, Right
  <2>2. CASE j # i /\ cN[j].kind \in LoanWrites
    <3>1. /\ j \in DOMAIN c /\ CallOk(d, c[j]) /\ c[j].kind \in Kinds /\ cN[j] = c[j]
          /\ c[j].live = "mounted"
      BY <1>2, <2>2, OthersAre DEF LoanWrites
    <3>2. Item("loan", c[j].about) \in Touched(d, c[j]) /\ c[j].about \in DOMAIN d.loans
      BY <2>2, <3>1, TouchedIs DEF CallOk, AboutOk
    <3>3. Item("loan", c[j].about) \notin Wrote(d, c[i])
      BY <1>2, <2>2, <3>1, <3>2, Safe DEF Trusted
    <3> QED
      BY <1>0, <1>2, <3>1, <3>2, <3>3 DEF LoansKept
  <2> QED
    BY <2>1, <2>2 DEF LoanWrites
<1>3. ASSUME NEW j \in DOMAIN cN, cN[j].kind = "loadAll", Served(cN[j]),
             NEW l \in DOMAIN cN[j].got.loans, Trusted(cN[j], uN, Item("loan", l))
      PROVE  cN[j].got.loans[l] = dN.loans[l]
  <2>1. CASE j = i
    BY <1>3, <2>1 DEF ServedTo, Right
  <2>2. CASE j # i
    <3>1. /\ j \in DOMAIN c /\ CallOk(d, c[j]) /\ c[j].kind \in Kinds /\ cN[j] = c[j]
          /\ c[j].live = "mounted"
      BY <1>3, <2>2, OthersAre
    <3>2. l \in DOMAIN d.loans
      BY <1>3, <3>1 DEF CallOk, GotOk, Served
    <3>3. Item("loan", l) \in Touched(d, c[j])
      BY <1>3, <3>1, <3>2, TouchedIs
    <3>4. Item("loan", l) \notin Wrote(d, c[i]) /\ Trusted(c[j], u, Item("loan", l))
      BY <1>3, <2>2, <3>1, <3>3, Safe
    <3> QED
      BY <1>0, <1>3, <3>1, <3>2, <3>4 DEF LoansKept
  <2> QED
    BY <2>1, <2>2
<1> QED
  BY <1>1, <1>2, <1>3 DEF LoansKept

LEMMA KasServed ==
  ASSUME NEW d, NEW c, NEW u, NEW i, NEW dN, NEW cN, NEW uN, ServedTo(d, c, u, i, dN, cN, uN),
         NEW p, KasKept(d, c, u, p)
  PROVE  KasKept(dN, cN, uN, p)
<1>0. /\ Kas \notin Wrote(d, c[i]) => dN.kas = d.kas
      /\ u \subseteq uN
  BY DEF ServedTo, Effect
<1>1. ASSUME p.kas # None, Kas \notin uN,
             \A j \in DOMAIN cN : ~(cN[j].kind = "bailout" /\ Served(cN[j]))
      PROVE  p.kas = dN.kas
  <2>1. \A j \in DOMAIN c : ~(c[j].kind = "bailout" /\ Served(c[j]))
    BY <1>1 DEF ServedTo
  <2>2. p.kas = d.kas
    BY <1>0, <1>1, <2>1 DEF KasKept
  <2>3. ASSUME Kas \in Wrote(d, c[i]) PROVE FALSE
    <3>1. /\ c[i].kind \in Writes /\ c[i].kind \in Kinds /\ Kas \in Touched(d, c[i])
          /\ i \in DOMAIN cN /\ SameCall(c[i], cN[i]) /\ Served(cN[i])
      BY <1>1, <2>3, WroteTold
    <3>2. c[i].kind = "bailout"
      BY <3>1, TouchedIs DEF Writes
    <3> QED
      BY <1>1, <3>1, <3>2 DEF SameCall
  <2> QED
    BY <1>0, <2>2, <2>3
<1>2. ASSUME NEW j \in DOMAIN cN, Served(cN[j]), cN[j].kind \in {"bailout", "loadAll"},
             Trusted(cN[j], uN, Kas), cN[j].kind = "bailout" => Kas \notin uN
      PROVE  cN[j].got.kas = dN.kas
  <2>1. CASE j = i
    BY <1>2, <2>1 DEF ServedTo, Right
  <2>2. CASE j # i
    <3>1. /\ j \in DOMAIN c /\ c[j].kind \in Kinds /\ cN[j] = c[j] /\ c[j].live = "mounted"
      BY <1>2, <2>2, OthersAre
    <3>2. Kas \in Touched(d, c[j])
      BY <1>2, <3>1, TouchedIs
    <3>3. Kas \notin Wrote(d, c[i]) /\ Trusted(c[j], u, Kas)
      BY <1>2, <2>2, <3>1, <3>2, Safe
    <3> QED
      BY <1>0, <1>2, <3>1, <3>3 DEF KasKept
  <2> QED
    BY <2>1, <2>2
<1>3. \A j \in DOMAIN cN : Served(cN[j]) =>
          /\ cN[j].kind = "bailout" /\ Kas \notin uN => cN[j].got.kas = dN.kas
          /\ cN[j].kind = "loadAll" /\ Trusted(cN[j], uN, Kas) => cN[j].got.kas = dN.kas
  BY <1>2 DEF Trusted
<1> QED
  BY <1>1, <1>3 DEF KasKept

LEMMA MembersServed ==
  ASSUME NEW d, NEW c, NEW u, NEW i, NEW dN, NEW cN, NEW uN, ServedTo(d, c, u, i, dN, cN, uN),
         NEW p, MembersKept(d, c, u, p), DOMAIN p.members \subseteq MembersIn(d),
         c[i].kind = "resetPassword" => dN.kyc = d.kyc
  PROVE  MembersKept(dN, cN, uN, p)
<1>0. /\ \A m \in MembersIn(d) : Item("member", m) \notin Wrote(d, c[i]) => dN.kyc[m] = d.kyc[m]
      /\ u \subseteq uN
  BY DEF ServedTo, Effect
<1>1. ASSUME NEW m \in DOMAIN p.members, Item("member", m) \notin uN,
             \A j \in DOMAIN cN : ~(cN[j].kind \in {"approveKyc", "rejectKyc"} /\ Served(cN[j])
                                    /\ cN[j].about = m)
      PROVE  p.members[m] = dN.kyc[m]
  <2>1. \A j \in DOMAIN c : ~(c[j].kind \in {"approveKyc", "rejectKyc"} /\ Served(c[j])
                              /\ c[j].about = m)
    BY <1>1 DEF ServedTo
  <2>2. p.members[m] = d.kyc[m]
    BY <1>0, <1>1, <2>1 DEF MembersKept
  <2>3. CASE Item("member", m) \in Wrote(d, c[i])
    <3>1. /\ c[i].kind \in Writes /\ c[i].kind \in Kinds
          /\ Item("member", m) \in Touched(d, c[i])
          /\ i \in DOMAIN cN /\ SameCall(c[i], cN[i]) /\ Served(cN[i])
      BY <1>1, <2>3, WroteTold
    <3>2. c[i].kind \in KycWrites /\ c[i].about = m
      BY <3>1, TouchedIs DEF Writes
    <3>3. c[i].kind = "resetPassword"
      BY <1>1, <3>1, <3>2 DEF SameCall, KycWrites
    <3> QED
      BY <2>2, <3>3
  <2>4. CASE Item("member", m) \notin Wrote(d, c[i])
    BY <1>0, <2>2, <2>4
  <2> QED
    BY <2>3, <2>4
<1>2. ASSUME NEW j \in DOMAIN cN, Served(cN[j]), Item("member", cN[j].about) \notin uN
      PROVE  /\ cN[j].kind = "approveKyc" => cN[j].got.kyc = dN.kyc[cN[j].about]
             /\ cN[j].kind = "rejectKyc" => cN[j].got = dN.kyc[cN[j].about]
  <2>1. CASE j = i
    BY <1>2, <2>1 DEF ServedTo, Right
  <2>2. CASE j # i /\ cN[j].kind \in KycWrites
    <3>1. /\ j \in DOMAIN c /\ CallOk(d, c[j]) /\ c[j].kind \in Kinds /\ cN[j] = c[j]
          /\ c[j].live = "mounted"
      BY <1>2, <2>2, OthersAre DEF KycWrites
    <3>2. Item("member", c[j].about) \in Touched(d, c[j]) /\ c[j].about \in MembersIn(d)
      BY <2>2, <3>1, TouchedIs DEF CallOk, AboutOk
    <3>3. Item("member", c[j].about) \notin Wrote(d, c[i])
      BY <1>2, <2>2, <3>1, <3>2, Safe DEF Trusted
    <3> QED
      BY <1>0, <1>2, <3>1, <3>2, <3>3 DEF MembersKept
  <2> QED
    BY <2>1, <2>2 DEF KycWrites
<1>3. ASSUME NEW j \in DOMAIN cN, cN[j].kind = "loadAll", Served(cN[j]),
             NEW m \in DOMAIN cN[j].got.members, Trusted(cN[j], uN, Item("member", m))
      PROVE  cN[j].got.members[m] = dN.kyc[m]
  <2>1. CASE j = i
    BY <1>3, <2>1 DEF ServedTo, Right
  <2>2. CASE j # i
    <3>1. /\ j \in DOMAIN c /\ CallOk(d, c[j]) /\ c[j].kind \in Kinds /\ cN[j] = c[j]
          /\ c[j].live = "mounted"
      BY <1>3, <2>2, OthersAre
    <3>2. m \in MembersIn(d)
      BY <1>3, <3>1 DEF CallOk, GotOk, Served
    <3>3. Item("member", m) \in Touched(d, c[j])
      BY <1>3, <3>1, <3>2, TouchedIs
    <3>4. Item("member", m) \notin Wrote(d, c[i]) /\ Trusted(c[j], u, Item("member", m))
      BY <1>3, <2>2, <3>1, <3>3, Safe
    <3> QED
      BY <1>0, <1>3, <3>1, <3>2, <3>4 DEF MembersKept
  <2> QED
    BY <2>1, <2>2
<1> QED
  BY <1>1, <1>2, <1>3 DEF MembersKept

LEMMA CardServed ==
  ASSUME NEW d, NEW c, NEW u, NEW i, NEW dN, NEW cN, NEW uN, ServedTo(d, c, u, i, dN, cN, uN),
         NEW p, CardKept(d, c, u, p),
         p.credential # None => p.credential.id \in MembersIn(d),
         p.detailId # None => p.detailId \in MembersIn(d),
         p.detailId = None => p.detail = None
  PROVE  CardKept(dN, cN, uN, p)
<1>0. /\ \A m \in MembersIn(d) : Item("member", m) \notin Wrote(d, c[i]) =>
             dN.kyc[m] = d.kyc[m] /\ dN.pw[m] = d.pw[m]
      /\ u \subseteq uN /\ MembersIn(dN) = MembersIn(d)
  BY SameMembers DEF ServedTo, Effect
<1>1. ASSUME NEW m \in MembersIn(d), Item("member", m) \notin uN, Item("member", m) \in Wrote(d, c[i])
      PROVE  ~OnCard(p, m) /\ p.detailId # m
  <2>1. /\ c[i].live = "mounted" /\ c[i].kind \in Writes /\ c[i].kind \in Kinds
        /\ Item("member", m) \in Touched(d, c[i]) /\ Item("member", m) \notin u
    BY <1>1, WroteTold
  <2>2. c[i].kind \in KycWrites /\ c[i].about = m
    BY <2>1, TouchedIs DEF Writes
  <2>3. i \in DOMAIN c
    BY DEF ServedTo
  <2> QED
    BY <2>1, <2>2, <2>3 DEF CardKept
<1>2. ASSUME p.credential # None, Item("member", p.credential.id) \notin uN
      PROVE  p.credential.pw = dN.pw[p.credential.id]
  <2> DEFINE m == p.credential.id
  <2>1. m \in MembersIn(d) /\ OnCard(p, m)
    BY <1>2 DEF OnCard
  <2>2. Item("member", m) \notin Wrote(d, c[i])
    BY <1>1, <1>2, <2>1
  <2> QED
    BY <1>0, <1>2, <2>1, <2>2 DEF CardKept
<1>3. ASSUME p.detail # None, Item("member", p.detailId) \notin uN
      PROVE  p.detail = dN.kyc[p.detailId]
  <2>1. p.detailId \in MembersIn(d)
    BY <1>3
  <2>2. Item("member", p.detailId) \notin Wrote(d, c[i])
    BY <1>1, <1>3, <2>1
  <2> QED
    BY <1>0, <1>3, <2>1, <2>2 DEF CardKept
<1>4. ASSUME NEW j \in DOMAIN cN, Served(cN[j]), Item("member", cN[j].about) \notin uN
      PROVE  /\ cN[j].kind = "approveKyc" /\ cN[j].got.tempPassword # None =>
                    cN[j].got.tempPassword = dN.pw[cN[j].about]
             /\ cN[j].kind = "resetPassword" => cN[j].got = dN.pw[cN[j].about]
             /\ cN[j].kind = "getMemberDetail" => cN[j].got = dN.kyc[cN[j].about]
  <2>1. CASE j = i
    BY <1>4, <2>1 DEF ServedTo, Right
  <2>2. CASE j # i /\ cN[j].kind \in KycWrites \cup {"getMemberDetail"}
    <3>1. /\ j \in DOMAIN c /\ CallOk(d, c[j]) /\ c[j].kind \in Kinds /\ cN[j] = c[j]
          /\ c[j].live = "mounted"
      BY <1>4, <2>2, OthersAre DEF KycWrites
    <3>2. Item("member", c[j].about) \in Touched(d, c[j]) /\ c[j].about \in MembersIn(d)
      BY <2>2, <3>1, TouchedIs DEF CallOk, AboutOk
    <3>3. Item("member", c[j].about) \notin Wrote(d, c[i])
      BY <1>4, <2>2, <3>1, <3>2, Safe DEF Trusted
    <3>4. /\ dN.kyc[c[j].about] = d.kyc[c[j].about] /\ dN.pw[c[j].about] = d.pw[c[j].about]
          /\ Item("member", c[j].about) \notin u
      BY <1>0, <1>4, <3>1, <3>2, <3>3
    <3> QED
      BY <1>4, <3>1, <3>4 DEF CardKept
  <2> QED
    BY <2>1, <2>2 DEF KycWrites
<1>5. ASSUME NEW j \in DOMAIN cN
      PROVE  /\ cN[j].kind = "getMemberDetail" => p.detailId = cN[j].about
             /\ (cN[j].kind \in KycWrites /\ cN[j].live = "mounted"
                 /\ Item("member", cN[j].about) \notin uN) =>
                    ~OnCard(p, cN[j].about) /\ p.detailId # cN[j].about
             /\ cN[j].kind = "loadAll" =>
                    \A m \in MembersIn(dN) : Item("member", m) \in cN[j].clean =>
                        ~OnCard(p, m) /\ p.detailId # m
  <2>1. j \in DOMAIN c /\ SameCall(c[j], cN[j])
    BY OthersAre
  <2> QED
    BY <1>0, <2>1 DEF CardKept, SameCall
<1> QED
  BY <1>2, <1>3, <1>4, <1>5 DEF CardKept

\* While the member's view is on screen the panel's big read is not under way.
LEMMA TouchedStill ==
  ASSUME NEW d, NEW dN, NEW r, NEW s, SameCall(r, s), r.kind # "loadAll"
  PROVE  Touched(dN, s) = Touched(d, r)
BY DEF SameCall, Touched

LEMMA NoSuchLoan ==
  ASSUME NEW d, NEW r, CallOk(d, r), NEW l, l \notin DOMAIN d.loans
  PROVE  Item("loan", l) \notin Touched(d, r)
<1>1. r.kind \in Kinds /\ AboutOk(d, r)
  BY DEF CallOk
<1> QED
  BY <1>1, TouchedIs DEF AboutOk

LEMMA AppliedServed ==
  ASSUME NEW d, NEW c, NEW u, NEW i, NEW dN, NEW cN, NEW uN, ServedTo(d, c, u, i, dN, cN, uN),
         NEW a, AppliedKept(d, c, u, a), a.applied # None => a.applied.id \in DOMAIN d.loans,
         c[i].live = "mounted" => c[i].kind \notin PanelKinds,
         \A j \in DOMAIN c : c[j].kind # "loadAll"
  PROVE  AppliedKept(dN, cN, uN, a)
<1>0. /\ \A l \in DOMAIN d.loans : Item("loan", l) \notin Wrote(d, c[i]) => dN.loans[l] = d.loans[l]
      /\ u \subseteq uN
  BY DEF ServedTo, Effect
<1>1. ASSUME a.applied # None, Item("loan", a.applied.id) \notin uN,
             \A j \in DOMAIN cN :
                 ~(cN[j].kind = "sanggahLoan" /\ Served(cN[j]) /\ cN[j].about = a.applied.id)
      PROVE  a.applied.loan = dN.loans[a.applied.id]
  <2>1. \A j \in DOMAIN c :
            ~(c[j].kind = "sanggahLoan" /\ Served(c[j]) /\ c[j].about = a.applied.id)
    BY <1>1 DEF ServedTo
  <2>2. a.applied.loan = d.loans[a.applied.id]
    BY <1>0, <1>1, <2>1 DEF AppliedKept
  <2>3. ASSUME Item("loan", a.applied.id) \in Wrote(d, c[i]) PROVE FALSE
    <3>1. /\ c[i].live = "mounted" /\ c[i].kind \in Kinds /\ c[i].kind \in Writes
          /\ Item("loan", a.applied.id) \in Touched(d, c[i])
          /\ i \in DOMAIN cN /\ SameCall(c[i], cN[i]) /\ Served(cN[i])
      BY <1>1, <2>3, WroteTold
    <3>2. c[i].kind \in LoanWrites \cup {"sanggahLoan"} /\ c[i].about = a.applied.id
      BY <3>1, TouchedIs DEF Writes
    <3>3. c[i].kind = "sanggahLoan"
      BY <3>1, <3>2 DEF PanelKinds
    <3> QED
      BY <1>1, <3>1, <3>2, <3>3 DEF SameCall
  <2> QED
    BY <1>0, <1>1, <2>2, <2>3
<1>2. ASSUME NEW j \in DOMAIN cN, cN[j].kind = "sanggahLoan", Served(cN[j]),
             Item("loan", cN[j].about) \notin uN
      PROVE  cN[j].got = dN.loans[cN[j].about]
  <2>1. CASE j = i
    BY <1>2, <2>1 DEF ServedTo, Right
  <2>2. CASE j # i
    <3>1. /\ j \in DOMAIN c /\ CallOk(d, c[j]) /\ c[j].kind \in Kinds /\ cN[j] = c[j]
          /\ c[j].live = "mounted"
      BY <1>2, <2>2, OthersAre
    <3>2. Item("loan", c[j].about) \in Touched(d, c[j]) /\ c[j].about \in DOMAIN d.loans
      BY <1>2, <3>1, TouchedIs DEF CallOk, AboutOk
    <3>3. Item("loan", c[j].about) \notin Wrote(d, c[i])
      BY <1>2, <2>2, <3>1, <3>2, Safe DEF Trusted
    <3> QED
      BY <1>0, <1>2, <3>1, <3>2, <3>3 DEF AppliedKept
  <2> QED
    BY <2>1, <2>2
<1>3. \A k \in DOMAIN cN : Touched(dN, cN[k]) = Touched(d, c[k])
  BY OthersAre, TouchedStill
<1>4. ASSUME NEW j \in DOMAIN cN, cN[j].kind = "applyLoan", Served(cN[j])
      PROVE  /\ cN[j].got.loan = dN.loans[cN[j].got.id]
             /\ a.applied # None => a.applied.id # cN[j].got.id
             /\ \A k \in DOMAIN cN :
                    /\ Item("loan", cN[j].got.id) \notin Touched(dN, cN[k])
                    /\ k # j /\ cN[k].kind = "applyLoan" /\ Served(cN[k]) =>
                           cN[k].got.id # cN[j].got.id
  <2>1. \A k \in DOMAIN cN : k # i /\ cN[k].kind = "applyLoan" /\ Served(cN[k]) =>
            k \in DOMAIN c /\ cN[k] = c[k] /\ cN[k].got.id \in DOMAIN d.loans
    <3> SUFFICES ASSUME NEW k \in DOMAIN cN, k # i, cN[k].kind = "applyLoan", Served(cN[k])
                 PROVE  k \in DOMAIN c /\ cN[k] = c[k] /\ cN[k].got.id \in DOMAIN d.loans
      OBVIOUS
    <3>1. k \in DOMAIN c /\ cN[k] = c[k] /\ CallOk(d, c[k])
      BY OthersAre
    <3> QED
      BY <3>1 DEF CallOk, GotOk, Served
  <2>2. i \in DOMAIN cN /\ cN[i].kind = "applyLoan" /\ Served(cN[i]) =>
            cN[i].got.id \notin DOMAIN d.loans /\ cN[i].got.loan = dN.loans[cN[i].got.id]
    BY DEF ServedTo, Right
  <2>3. CASE j = i
    <3>1. \A k \in DOMAIN cN : Item("loan", cN[j].got.id) \notin Touched(dN, cN[k])
      BY <1>3, <1>4, <2>2, <2>3, OthersAre, NoSuchLoan
    <3> QED
      BY <1>4, <2>1, <2>2, <2>3, <3>1
  <2>4. CASE j # i
    <3>1. /\ j \in DOMAIN c /\ cN[j] = c[j] /\ c[j].got.id \in DOMAIN d.loans
          /\ c[j].kind = "applyLoan" /\ Served(c[j])
      BY <1>4, <2>1, <2>4
    <3>2. /\ c[j].got.loan = d.loans[c[j].got.id]
          /\ a.applied # None => a.applied.id # c[j].got.id
          /\ \A k \in DOMAIN c :
                 /\ Item("loan", c[j].got.id) \notin Touched(d, c[k])
                 /\ k # j /\ c[k].kind = "applyLoan" /\ Served(c[k]) => c[k].got.id # c[j].got.id
      BY <3>1 DEF AppliedKept
    <3>3. i \in DOMAIN c
      BY DEF ServedTo
    <3>4. Item("loan", c[j].got.id) \notin Wrote(d, c[i])
      BY <3>2, <3>3 DEF Wrote
    <3>5. c[j].got.loan = dN.loans[c[j].got.id]
      BY <1>0, <3>1, <3>2, <3>4
    <3>6. \A k \in DOMAIN cN : Item("loan", c[j].got.id) \notin Touched(dN, cN[k])
      BY <1>3, <3>2, OthersAre
    <3>7. \A k \in DOMAIN cN : k # j /\ cN[k].kind = "applyLoan" /\ Served(cN[k]) =>
              cN[k].got.id # c[j].got.id
      BY <2>1, <2>2, <3>1, <3>2
    <3> QED
      BY <3>1, <3>2, <3>5, <3>6, <3>7
  <2> QED
    BY <2>3, <2>4
<1> QED
  BY <1>1, <1>2, <1>4 DEF AppliedKept

\* Only the read of everything concerns more than before, a loan that is new.
LEMMA TouchedGrows ==
  ASSUME NEW d, NEW dN, NEW T, Effect(d, dN, T), NEW r, NEW s, SameCall(r, s)
  PROVE  /\ Touched(d, r) \subseteq Touched(dN, s)
         /\ \A x \in Touched(dN, s) \ Touched(d, r) :
                r.kind = "loadAll" /\ \E l : l \notin DOMAIN d.loans /\ x = Item("loan", l)
<1>1. CASE r.kind # "loadAll"
  BY <1>1, TouchedStill
<1>2. CASE r.kind = "loadAll"
  <2>1. Touched(d, r) = PanelItemsIn(d) /\ Touched(dN, s) = PanelItemsIn(dN)
    BY <1>2 DEF Touched, SameCall
  <2>2. MembersIn(dN) = MembersIn(d) /\ DOMAIN d.loans \subseteq DOMAIN dN.loans
    BY SameMembers DEF Effect
  <2> QED
    BY <1>2, <2>1, <2>2 DEF PanelItemsIn
<1> QED
  BY <1>1, <1>2

LEMMA CallGrows ==
  ASSUME NEW d, NEW dN, NEW T, Effect(d, dN, T), NEW r, CallOk(d, r)
  PROVE  CallOk(dN, r)
<1>1. MembersIn(dN) = MembersIn(d) /\ RowIn(dN) = RowIn(d) /\ dN.role = d.role
      /\ DOMAIN d.loans \subseteq DOMAIN dN.loans
  BY SameMembers DEF Effect
<1>2. r.clean \subseteq Touched(dN, r)
  BY TouchedGrows DEF CallOk, SameCall
<1>3. AboutOk(dN, r)
  BY <1>1 DEF CallOk, AboutOk
<1>4. GotOk(dN, r)
  BY <1>1 DEF CallOk, GotOk
<1> QED
  BY <1>1, <1>2, <1>3, <1>4 DEF CallOk

LEMMA ServedCalls ==
  ASSUME NEW d, NEW c, NEW u, NEW i, NEW dN, NEW cN, NEW uN, ServedTo(d, c, u, i, dN, cN, uN),
         i \in DOMAIN cN => IsCall(cN[i]) /\ cN[i].phase = "done" /\ GotOk(dN, cN[i]) /\ c[i].live # "gone"
  PROVE  CallsOk(dN, cN) /\ Apart(dN, cN) /\ Doubted(dN, cN, uN)
<1>0. Effect(d, dN, Wrote(d, c[i])) /\ Apart(d, c) /\ Doubted(d, c, u) /\ u \subseteq uN
  BY DEF ServedTo
<1>1. ASSUME NEW j \in DOMAIN cN PROVE CallOk(dN, cN[j])
  <2>1. CallOk(d, c[j]) /\ SameCall(c[j], cN[j]) /\ CallOk(dN, c[j])
    BY <1>0, OthersAre, CallGrows
  <2>2. CASE j # i
    BY <2>1, <2>2, OthersAre
  <2>3. CASE j = i
    <3>1. Touched(dN, cN[j]) = Touched(dN, c[j])
      BY <2>1 DEF SameCall, Touched
    <3>2. AboutOk(dN, cN[j])
      BY <2>1 DEF CallOk, AboutOk, SameCall
    <3>3. /\ IsCall(cN[j]) /\ cN[j].phase = "done" /\ GotOk(dN, cN[j])
          /\ cN[j].live # "gone"
      BY <2>1, <2>3 DEF SameCall
    <3> QED
      BY <2>1, <3>1, <3>2, <3>3 DEF CallOk, SameCall
  <2> QED
    BY <2>2, <2>3
<1>2. ASSUME NEW j \in DOMAIN cN, NEW k \in DOMAIN cN, j # k,
             NEW x \in Touched(dN, cN[j]), x \in Touched(d, c[k])
      PROVE  x \in Touched(d, c[j])
  <2>1. /\ j \in DOMAIN c /\ k \in DOMAIN c /\ SameCall(c[j], cN[j]) /\ CallOk(d, c[k])
    BY OthersAre
  <2>2. \A l : l \notin DOMAIN d.loans => x # Item("loan", l)
    BY <1>2, <2>1, NoSuchLoan
  <2> QED
    BY <1>0, <2>1, <2>2, TouchedGrows
<1>3. Apart(dN, cN)
  <2> SUFFICES ASSUME NEW j \in DOMAIN cN, NEW k \in DOMAIN cN, j # k,
                      NEW x \in Touched(dN, cN[j]), x \in cN[k].clean
               PROVE  FALSE
    BY DEF Apart
  <2>1. j \in DOMAIN c /\ k \in DOMAIN c /\ x \in c[k].clean /\ x \in Touched(d, c[k])
    BY OthersAre DEF SameCall, CallOk
  <2>2. x \in Touched(d, c[j])
    BY <1>2, <2>1
  <2> QED
    BY <1>0, <2>1, <2>2 DEF Apart
<1>4. Doubted(dN, cN, uN)
  <2> SUFFICES ASSUME NEW j \in DOMAIN cN, NEW k \in DOMAIN cN, j # k, cN[j].kind \in Writes,
                      NEW x \in Touched(dN, cN[j]) \cap Touched(dN, cN[k]),
                      cN[k].live = "mounted" \/ x = Balance
               PROVE  x \in uN
    BY DEF Doubted
  <2>1. /\ j \in DOMAIN c /\ k \in DOMAIN c /\ SameCall(c[j], cN[j]) /\ SameCall(c[k], cN[k])
    BY OthersAre
  <2>2. c[j].kind \in Writes /\ c[j].kind # "loadAll"
    BY <2>1 DEF SameCall, Writes
  <2>3. x \in Touched(d, c[j])
    BY <2>1, <2>2, TouchedStill
  <2>4. x \in Touched(d, c[k])
    BY <1>2, <2>3
  <2>5. c[k].live = "mounted" \/ x = Balance
    BY <2>1 DEF SameCall
  <2> QED
    BY <1>0, <2>1, <2>2, <2>3, <2>4, <2>5 DEF Doubted
<1> QED
  BY <1>1, <1>3, <1>4 DEF CallsOk

LEMMA ServeStep ==
  ASSUME IInv, NEW i \in DOMAIN inFlight, Serve(i)
  PROVE  IInv'
<1> DEFINE r == inFlight[i]
           n == Outcome(inFlight[i], "done", Answer(inFlight[i].kind, inFlight[i].about,
                                                    inFlight[i].who, db'))
<1>1. /\ r.phase = "sent" /\ Authorised(r) /\ Room(r)
      /\ db' = Written(r.kind, r.about)
      /\ Becomes(i, "done", Answer(r.kind, r.about, r.who, db'))
      /\ doubt' = IF r.live # "mounted" /\ r.kind \in Writes THEN doubt \cup Touched(db, r) ELSE doubt
      /\ UNCHANGED <<session, app, panel, cast>>
  BY ConcernsIs DEF Serve
<1>2. CallOk(db, r) /\ IsCall(r) /\ DbOk(db)
  BY CallIn, AppIs DEF CallOk
<1>3. Only(inFlight, i, inFlight', n)
  BY <1>1, <1>2, BecomesIs
<1>4. /\ IsCall(n) /\ SameCall(r, n) /\ n.phase = "done" /\ Served(n)
      /\ n.got = Answer(r.kind, r.about, r.who, db')
  BY OutcomeIs DEF Served
<1> HIDE DEF n
<1>5. Effect(db, db', Wrote(db, r))
  BY <1>1, <1>2, WrittenIs
<1>6. Right(db, db', n) /\ GotOk(db', n)
  BY <1>1, <1>2, <1>4, AnswerIs
<1>7. ServedTo(db, inFlight, doubt, i, db', inFlight', doubt')
  <2>1. doubt \subseteq doubt' /\ (r.live # "mounted" => Wrote(db, r) \subseteq doubt')
    BY <1>1 DEF Wrote
  <2>2. ~Served(r)
    BY <1>1 DEF Served
  <2> QED
    BY <1>2, <1>3, <1>4, <1>5, <1>6, <2>1, <2>2, AppIs DEF ServedTo, Only
<1>8. CallsOk(db', inFlight') /\ Apart(db', inFlight') /\ Doubted(db', inFlight', doubt')
  BY <1>3, <1>4, <1>6, <1>7, ServedCalls DEF Only
<1>9. /\ DbOk(db') /\ db'.role = db.role /\ MembersIn(db') = MembersIn(db) /\ RowIn(db') = RowIn(db)
      /\ DOMAIN db.loans \subseteq DOMAIN db'.loans
  BY <1>5, SameMembers DEF Effect
<1>10. /\ member' = member /\ token' = token /\ stored' = stored /\ loading' = loading
       /\ app' = app /\ panel' = panel /\ cast' = cast
  BY <1>1 DEF session
<1>11. View' = View
  BY <1>9, <1>10 DEF View, ViewOf
<1>12. TypesOk'
  <2>1. Placed(inFlight', View, token, loading)
    BY <1>3, <1>4, OnlyPlaced DEF IInv, TypesOk
  <2>2. AppOk(db', View, app)
    BY <1>9 DEF IInv, TypesOk, AppOk
  <2>3. PanelOk(db', View, panel)
    BY <1>9 DEF IInv, TypesOk, PanelOk
  <2>4. SessionOk(db', token, stored, member, loading)
    BY <1>9 DEF IInv, TypesOk, SessionOk
  <2>5. cast \in Casts /\ db'.role = cast.db.role
    BY <1>9 DEF IInv, TypesOk
  <2> QED
    BY <1>8, <1>9, <1>10, <1>11, <2>1, <2>2, <2>3, <2>4, <2>5 DEF TypesOk
<1>13. /\ SavingsKept(db', inFlight', doubt', member, app, View)
       /\ BalanceKept(db', inFlight', doubt', member)
  BY <1>7, AppIs, SavingsServed, BalanceServed
<1>14. AppliedKept(db', inFlight', doubt', app)
  <2>1. CASE View = "Anggota"
    <3>1. Placed(inFlight, View, token, loading)
      BY DEF IInv, TypesOk
    <3>2. \A j \in DOMAIN inFlight : inFlight[j].kind # "loadAll"
      <4> SUFFICES ASSUME NEW j \in DOMAIN inFlight, inFlight[j].kind = "loadAll" PROVE FALSE
        OBVIOUS
      <4>1. CallOk(db, inFlight[j]) /\ inFlight[j].live # "mounted"
        BY <2>1, <3>1, CallIn DEF Placed, PanelKinds
      <4>2. inFlight[j].kind \in Writes
        BY <4>1, WritesAre
      <4> QED
        BY <4>2 DEF Writes
    <3>3. r.live = "mounted" => r.kind \notin PanelKinds
      BY <2>1, <3>1 DEF Placed
    <3>4. app.applied # None => app.applied.id \in DOMAIN db.loans
      BY AppIs
    <3> QED
      BY <1>7, <3>2, <3>3, <3>4, AppIs, AppliedServed
  <2>2. CASE View # "Anggota"
    <3>1. CallsOk(db', inFlight') /\ AppOk(db', View, app) /\ Placed(inFlight', View, token, loading)
      BY <1>10, <1>11, <1>12 DEF TypesOk
    <3> QED
      BY <2>2, <3>1, PhoneKept
  <2> QED
    BY <2>1, <2>2
<1>15. /\ LoansKept(db', inFlight', doubt', panel) /\ KasKept(db', inFlight', doubt', panel)
       /\ MembersKept(db', inFlight', doubt', panel) /\ CardKept(db', inFlight', doubt', panel)
  <2>1. CASE View = "Pengurus"
    <3>1. r.live = "mounted" => r.kind \notin AppKinds
      BY <2>1 DEF IInv, TypesOk, Placed
    <3>2. /\ LoansKept(db, inFlight, doubt, panel) /\ KasKept(db, inFlight, doubt, panel)
          /\ MembersKept(db, inFlight, doubt, panel) /\ CardKept(db, inFlight, doubt, panel)
      BY DEF IInv, Kept
    <3>3. r.kind = "resetPassword" => db'.kyc = db.kyc
      <4>1. r.kind = "resetPassword" => db' = [db EXCEPT !.pw[r.about] = @ + 1]
        BY <1>1, WrittenKinds
      <4> QED
        BY <4>1, <1>2, RowsAre
    <3>4. LoansKept(db', inFlight', doubt', panel)
      BY <1>7, <3>1, <3>2, PanelIs, LoansServed
    <3>5. KasKept(db', inFlight', doubt', panel)
      BY <1>7, <3>2, KasServed
    <3>6. MembersKept(db', inFlight', doubt', panel)
      BY <1>7, <3>2, <3>3, PanelIs, MembersServed
    <3>7. CardKept(db', inFlight', doubt', panel)
      BY <1>7, <3>2, PanelIs, CardServed
    <3> QED
      BY <3>4, <3>5, <3>6, <3>7
  <2>2. CASE View # "Pengurus"
    <3>1. /\ DbOk(db') /\ CallsOk(db', inFlight') /\ PanelOk(db', View, panel)
          /\ Placed(inFlight', View, token, loading)
      BY <1>10, <1>11, <1>12 DEF TypesOk
    <3> QED
      BY <2>2, <3>1, PanelKept
  <2> QED
    BY <2>1, <2>2
<1> QED
  BY <1>8, <1>10, <1>11, <1>12, <1>13, <1>14, <1>15 DEF IInv, Overlaps, Kept

----------------------------------------------------------------------------
(* The tab as a whole *)

\* A tab that is opened has no answer under way and no view on screen.
LEMMA InitHolds ==
  ASSUME Init
  PROVE  IInv
<1>1. /\ cast \in Casts /\ db = cast.db /\ token = cast.token
      /\ stored = (IF token = None THEN None ELSE Member(token))
      /\ member = stored /\ loading = (token # None)
      /\ app = FreshApp /\ panel = FreshPanel /\ doubt = {}
  BY DEF Init
<1>2. /\ token \in DOMAIN db.role \cup {None}
      /\ DbOk(db)
  BY <1>1, CastsAreStored DEF DbOk, MembersIn, RowIn
<1>3. member # None => member = Member(token) /\ token \in DOMAIN db.role
  BY <1>1, <1>2
<1>4. member # None => member \in RowIn(db) /\ member.balance = db.rows[member.id]
  BY <1>2, <1>3 DEF Member, RowIn, DbOk
<1>5. SessionOk(db, token, stored, member, loading)
  BY <1>1, <1>2, <1>4 DEF SessionOk
<1>6. View \notin {"Anggota", "Pengurus"}
  BY <1>1 DEF View, ViewOf
<1>7. AppOk(db, View, app)
  <2>1. /\ FreshApp.qris = None /\ FreshApp.applied = None
        /\ FreshApp = [savings |-> FreshApp.savings, group |-> FreshApp.group,
                       applied |-> FreshApp.applied, busy |-> FreshApp.busy,
                       qris |-> FreshApp.qris, showSanggah |-> FreshApp.showSanggah]
    BY DEF FreshApp
  <2> QED
    BY <1>1, <2>1 DEF AppOk
<1>8. PanelOk(db, View, panel)
  <2>1. /\ DOMAIN FreshPanel.members = {} /\ DOMAIN FreshPanel.loans = {}
        /\ FreshPanel.credential = None /\ FreshPanel.detailId = None /\ FreshPanel.detail = None
        /\ FreshPanel = [members |-> FreshPanel.members, loans |-> FreshPanel.loans,
                         kas |-> FreshPanel.kas, onchain |-> FreshPanel.onchain,
                         loading |-> FreshPanel.loading, busyId |-> FreshPanel.busyId,
                         credential |-> FreshPanel.credential, detailId |-> FreshPanel.detailId,
                         detail |-> FreshPanel.detail]
    BY DEF FreshPanel
  <2> QED
    BY <1>1, <2>1 DEF PanelOk
<1>9. \A i \in DOMAIN inFlight : i = 1 /\ inFlight[i] = Call("me", None, token) /\ loading
  <2>1. CASE token = None
    BY <2>1 DEF Init
  <2>2. CASE token # None
    <3>1. inFlight = <<Call("me", None, token)>>
      BY <2>2 DEF Init
    <3>2. ASSUME NEW n PROVE DOMAIN <<n>> = {1} /\ <<n>>[1] = n
      OBVIOUS
    <3> QED
      BY <1>1, <2>2, <3>1, <3>2
  <2> QED
    BY <2>1, <2>2
<1>10. LET n == Call("me", None, token) IN
       /\ n.kind = "me" /\ n.who = token /\ n.live = "mounted" /\ ~Served(n) /\ CallOk(db, n)
  <2>1. "me" \notin {"login", "loadData", "createSaving", "applyLoan"}
        /\ "me" \notin KycWrites \cup {"getMemberDetail"}
        /\ "me" \notin LoanWrites \cup {"sanggahLoan"} /\ "me" \in Kinds
    BY DEF KycWrites, LoanWrites, Kinds
  <2> QED
    BY <1>2, <2>1, CallIs, CallOkIs
<1>11. CallsOk(db, inFlight)
  BY <1>9, <1>10 DEF CallsOk
<1>12. Placed(inFlight, View, token, loading)
  <2>1. "me" \notin AppKinds /\ "me" \notin PanelKinds
    BY DEF AppKinds, PanelKinds, KycWrites, LoanWrites
  <2> QED
    BY <1>9, <1>10, <2>1 DEF Placed
<1>13. TypesOk
  BY <1>1, <1>2, <1>5, <1>7, <1>8, <1>11, <1>12 DEF TypesOk
<1>14. Overlaps
  BY <1>9 DEF Overlaps, Apart, Doubted
<1>15. BalanceKept(db, inFlight, doubt, member)
  BY <1>4, <1>9, <1>10 DEF BalanceKept
<1>16. /\ LoansKept(db, inFlight, doubt, panel) /\ KasKept(db, inFlight, doubt, panel)
       /\ MembersKept(db, inFlight, doubt, panel) /\ CardKept(db, inFlight, doubt, panel)
  BY <1>2, <1>6, <1>8, <1>11, <1>12, PanelKept
<1>17. /\ SavingsKept(db, inFlight, doubt, member, app, View)
       /\ AppliedKept(db, inFlight, doubt, app)
  BY <1>6, <1>7, <1>11, <1>12, PhoneKept
<1> QED
  BY <1>13, <1>14, <1>15, <1>16, <1>17 DEF IInv, Kept

LEMMA NextHolds ==
  ASSUME IInv, [Next]_<<vars, tool>>
  PROVE  IInv'
<1>1. CASE Click
  BY <1>1, SessionClickStep, MemberClickStep, OfficerClickStep DEF Click
<1>2. CASE Network
  BY <1>2, ServeStep, FailStep DEF Network
<1>3. CASE Continue
  BY <1>3, ContinueStep
<1>4. CASE UNCHANGED vars
  BY <1>4 DEF vars, session, IInv, TypesOk, Overlaps, Kept, View
<1> QED
  BY <1>1, <1>2, <1>3, <1>4 DEF Next, Screening

\* Every state of the tab has the invariant: whatever the order of clicks,
\* served calls, failures, lost answers, reloads and continuations, what each
\* call still brings is what its view is missing, or the item is in doubt.
THEOREM TabKeeps == Spec => []IInv
<1>1. Init => IInv
  BY InitHolds
<1>2. IInv /\ [Next]_<<vars, tool>> => IInv'
  BY NextHolds
<1> QED
  BY <1>1, <1>2, PTL DEF Spec

----------------------------------------------------------------------------
(* What the tab shows *)

\* Nothing that is under way concerns what is certain.
LEMMA CertainIs ==
  ASSUME NEW s, NEW k, Certain(s, k)
  PROVE  /\ Item(s, k) \notin doubt
         /\ \A i \in DOMAIN inFlight : Item(s, k) \notin Touched(db, inFlight[i])
BY ConcernsIs DEF Certain, Pending

LEMMA MemberShown ==
  ASSUME IInv
  PROVE  MemberSeesRows
<1> SUFFICES ASSUME View = "Anggota"
             PROVE  /\ Certain("savings", None) => app.savings = SavingsOf(member.id)
                    /\ Certain("balance", None) => member.balance = db.rows[member.id]
                    /\ (app.applied # None /\ Certain("loan", app.applied.id)) =>
                           app.applied.loan = db.loans[app.applied.id]
  BY SurfaceIs DEF MemberSeesRows
<1>1. member # None
  BY ViewIs DEF IInv
<1>2. /\ SavingsKept(db, inFlight, doubt, member, app, View)
      /\ BalanceKept(db, inFlight, doubt, member)
      /\ AppliedKept(db, inFlight, doubt, app)
  BY AppIs
<1>3. \A i \in DOMAIN inFlight : inFlight[i].kind \in Kinds
  BY CallIn DEF CallOk
<1>4. ASSUME Certain("savings", None)
      PROVE  app.savings = SavingsOf(member.id)
  <2>1. Savings \notin doubt /\ \A i \in DOMAIN inFlight : ~Booked(inFlight[i])
    BY <1>3, <1>4, CertainIs, TouchedIs DEF Savings, Booked
  <2> QED
    BY <1>2, <2>1 DEF SavingsKept, SavingsIn, SavingsOf
<1>5. ASSUME Certain("balance", None)
      PROVE  member.balance = db.rows[member.id]
  <2>1. Balance \notin doubt /\ \A i \in DOMAIN inFlight : ~Booked(inFlight[i])
    BY <1>3, <1>5, CertainIs, TouchedIs DEF Balance, Booked
  <2> QED
    BY <1>1, <1>2, <2>1 DEF BalanceKept
<1>6. ASSUME app.applied # None, Certain("loan", app.applied.id)
      PROVE  app.applied.loan = db.loans[app.applied.id]
  <2>1. /\ Item("loan", app.applied.id) \notin doubt
        /\ \A i \in DOMAIN inFlight :
               ~(inFlight[i].kind = "sanggahLoan" /\ inFlight[i].about = app.applied.id)
    BY <1>3, <1>6, CertainIs, TouchedIs
  <2> QED
    BY <1>2, <1>6, <2>1 DEF AppliedKept
<1> QED
  BY <1>4, <1>5, <1>6

LEMMA OfficerShown ==
  ASSUME IInv
  PROVE  OfficerSeesRows /\ CredentialWorks
<1>1. /\ LoansKept(db, inFlight, doubt, panel) /\ KasKept(db, inFlight, doubt, panel)
      /\ MembersKept(db, inFlight, doubt, panel) /\ CardKept(db, inFlight, doubt, panel)
  BY DEF IInv, Kept
<1>2. \A i \in DOMAIN inFlight : inFlight[i].kind \in Kinds
  BY CallIn DEF CallOk
<1>3. ASSUME NEW m \in DOMAIN panel.members, Certain("member", m)
      PROVE  panel.members[m] = db.kyc[m]
  <2>1. /\ Item("member", m) \notin doubt
        /\ \A i \in DOMAIN inFlight : ~(inFlight[i].kind \in KycWrites /\ inFlight[i].about = m)
    BY <1>2, <1>3, CertainIs, TouchedIs
  <2> QED
    BY <1>1, <2>1 DEF MembersKept, KycWrites
<1>4. ASSUME NEW l \in DOMAIN panel.loans, Certain("loan", l)
      PROVE  panel.loans[l] = db.loans[l]
  <2>1. /\ Item("loan", l) \notin doubt
        /\ \A i \in DOMAIN inFlight : ~(inFlight[i].kind \in LoanWrites /\ inFlight[i].about = l)
    BY <1>2, <1>4, CertainIs, TouchedIs
  <2> QED
    BY <1>1, <2>1 DEF LoansKept
<1>5. ASSUME panel.kas # None, Certain("kas", None)
      PROVE  panel.kas = db.kas
  <2>1. Kas \notin doubt /\ \A i \in DOMAIN inFlight : inFlight[i].kind # "bailout"
    BY <1>2, <1>5, CertainIs, TouchedIs DEF Kas
  <2> QED
    BY <1>1, <1>5, <2>1 DEF KasKept
<1>6. ASSUME panel.detail # None, Certain("member", panel.detailId)
      PROVE  panel.detail = db.kyc[panel.detailId]
  BY <1>1, <1>6, CertainIs DEF CardKept
<1>7. ASSUME panel.credential # None, Certain("member", panel.credential.id)
      PROVE  panel.credential.pw = db.pw[panel.credential.id]
  BY <1>1, <1>7, CertainIs DEF CardKept
<1> QED
  BY <1>3, <1>4, <1>5, <1>6, <1>7 DEF OfficerSeesRows, CredentialWorks

\* Deposits, balance, loans, statuses, fund and passwords on screen are those
\* that are stored whenever nothing about them is under way or in doubt.
THEOREM ShowsRows == Spec => []ShownIsStored
<1>1. IInv => ShownIsStored
  BY MemberShown, OfficerShown DEF ShownIsStored
<1> QED
  BY <1>1, TabKeeps, PTL

----------------------------------------------------------------------------
(* The member on screen and the token *)

\* The rest of the tab leaves the session alone.
LEMMA SessionLeft ==
  ASSUME Network \/ MemberClick \/ OfficerClick \/ OfficerAnswer
  PROVE  UNCHANGED session
<1>1. CASE Network
  BY <1>1 DEF Network, Serve, Fail
<1>2. CASE MemberClick
  BY <1>2 DEF MemberClick, HandleDeposit, CancelQris, PayQris, HandleApplyLoan, ToggleSanggah,
              HandleSanggah, ApplyForAnother
<1>3. CASE OfficerClick
  BY <1>3 DEF OfficerClick, CloseCredential, CloseDrawer, Refresh, HandleBootstrap, OpenDrawer,
              HandleResetPassword, HandleKyc, HandleBailout, HandleLoan, Work
<1>4. CASE OfficerAnswer
  BY <1>4 DEF OfficerAnswer, LoadAll, KycApproved, KycRejected, PasswordReset, LoanDecided,
              BailedOut, Bootstrapped, OnchainStatus, DetailLoaded, Answered
<1> QED
  BY <1>1, <1>2, <1>3, <1>4

\* An account that is answered is a member's own row.
LEMMA AnsweredIs ==
  ASSUME IInv, NEW i \in DOMAIN inFlight, inFlight[i].kind \in {"login", "me", "getMe"}, Ok(i)
  PROVE  /\ Got(i) # None
         /\ Got(i).id = IF inFlight[i].kind = "login" THEN About(i) ELSE inFlight[i].who
<1>1. CallOk(db, inFlight[i]) /\ DbOk(db)
  BY CallIn, AppIs
<1> QED
  BY <1>1 DEF CallOk, GotOk, DbOk, Ok, Got, About

LEMMA MixedStep ==
  ASSUME IInv, [Next]_<<vars, tool>>, Mixed', ~Mixed, ~UNCHANGED vars
  PROVE  \E i \in DOMAIN inFlight : /\ inFlight[i].kind = "getMe" /\ inFlight[i].who # token
                                    /\ RefreshMe(i)
<1>1. ~UNCHANGED session /\ ~(token' = token /\ member' = member)
  BY DEF Mixed, session
<1>2. ~(member' = None /\ token' = None)
  BY DEF Mixed
<1>3. ~(member' # None /\ member'.id = token')
  BY DEF Mixed
<1>4. CASE SessionClick
  <2>1. ~(\E u \in cast.accounts : HandleLogin(u))
    BY <1>1 DEF HandleLogin
  <2>2. ~Logout
    BY <1>2 DEF Logout, ForgetSession
  <2>3. ~LoadPage
    BY <1>1 DEF LoadPage, IInv, TypesOk, SessionOk
  <2> QED
    BY <1>4, <2>1, <2>2, <2>3 DEF SessionClick
<1>5. ASSUME NEW i \in DOMAIN inFlight
      PROVE  ~Login(i)
  BY <1>1, <1>3, AnsweredIs DEF Login, Arrived, SetSession
<1>6. ASSUME NEW i \in DOMAIN inFlight
      PROVE  ~Me(i)
  <2>1. inFlight[i].kind = "me" => inFlight[i].who = token
    BY DEF IInv, TypesOk, Placed
  <2> QED
    BY <2>1, <1>2, <1>3, AnsweredIs DEF Me, Arrived, ForgetSession
<1>7. ASSUME NEW i \in DOMAIN inFlight, RefreshMe(i)
      PROVE  inFlight[i].kind = "getMe" /\ inFlight[i].who # token
  BY <1>1, <1>3, <1>7, AnsweredIs DEF RefreshMe, Arrived
<1>8. ASSUME NEW i \in DOMAIN inFlight
      PROVE  ~(LoadData(i) \/ DepositAnswered(i) \/ ApplyAnswered(i) \/ SanggahAnswered(i))
  BY <1>1 DEF LoadData, DepositAnswered, ApplyAnswered, SanggahAnswered
<1>9. CASE Continue
  BY <1>1, <1>5, <1>6, <1>7, <1>8, <1>9, SessionLeft DEF Continue, SessionAnswer, MemberAnswer
<1>10. CASE Click \/ Network
  BY <1>1, <1>4, <1>10, SessionLeft DEF Click
<1>11. Click \/ Network \/ Continue
  BY DEF Next, Screening
<1> QED
  BY <1>9, <1>10, <1>11

\* The token and the member on screen come apart only when a refresh of the
\* member is answered to an account that was left meanwhile.
THEOREM MixesOnlyLate == Spec => OnlyLateAnswersMix
<1>1. IInv /\ [Next]_<<vars, tool>> =>
        [Mixed' /\ ~Mixed =>
             \E i \in DOMAIN inFlight : /\ inFlight[i].kind = "getMe" /\ inFlight[i].who # token
                                        /\ RefreshMe(i)]_vars
  BY MixedStep
<1> QED
  BY <1>1, TabKeeps, PTL DEF Spec, OnlyLateAnswersMix

============================================================================
