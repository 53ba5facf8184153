---------------------------- MODULE Amounts_proofs ----------------------------
(* Sums over finite sets, for the proofs about balances, funds and debts. *)
EXTENDS Amounts, FiniteSetTheorems, TLAPS

\* Finitely many amounts make finitely many rupiah.
LEMMA CoinsFinite ==
  ASSUME NEW S, IsFiniteSet(S), NEW amount, \A l \in S : amount[l] \in Nat
  PROVE  IsFiniteSet(Coins(amount, S))
<1> DEFINE f == [l \in S |-> {l} \X (1..amount[l])]
           T == {{l} \X (1..amount[l]) : l \in S}
<1>1. f \in Surjection(S, T)
  BY DEF Surjection
<1>2. IsFiniteSet(T)
  BY <1>1, FS_Surjection
<1>3. ASSUME NEW t \in T PROVE IsFiniteSet(t)
  <2>1. PICK l \in S : t = {l} \X (1..amount[l])
    BY DEF T
  <2>2. amount[l] \in Int /\ 1 \in Int
    OBVIOUS
  <2>3. IsFiniteSet(1..amount[l])
    BY <2>2, FS_Interval
  <2>4. IsFiniteSet({l})
    BY FS_Singleton
  <2>5. QED
    BY <2>1, <2>3, <2>4, FS_Product
<1> HIDE DEF T
<1>4. IsFiniteSet(UNION T)
  BY <1>2, <1>3, FS_UNION
<1>5. QED
  BY <1>4 DEF Coins, T

\* The amount of one and those of the others.
LEMMA CoinsSplit ==
  ASSUME NEW S, IsFiniteSet(S), NEW amount, \A k \in S : amount[k] \in Nat, NEW l \in S
  PROVE  /\ Cardinality(Coins(amount, S \ {l})) \in Nat
         /\ Cardinality(Coins(amount, S)) = Cardinality(Coins(amount, S \ {l})) + amount[l]
<1> DEFINE rest == Coins(amount, S \ {l})
           own == {l} \X (1..amount[l])
<1>1. IsFiniteSet(S \ {l})
  BY FS_RemoveElement
<1>2. IsFiniteSet(rest)
  BY <1>1, CoinsFinite
<1>3. IsFiniteSet(own) /\ Cardinality(own) = amount[l]
  <2>1. IsFiniteSet({l}) /\ Cardinality({l}) = 1
    BY FS_Singleton
  <2>2. IsFiniteSet(1..amount[l]) /\ Cardinality(1..amount[l]) = amount[l]
    BY FS_Interval
  <2>3. IsFiniteSet(own) /\ Cardinality(own) = 1 * amount[l]
    BY <2>1, <2>2, FS_Product
  <2>4. QED
    BY <2>3
<1>4. Coins(amount, S) = rest \cup own
  BY Zenon DEF Coins
<1>5. rest \cap own = {}
  BY DEF Coins
<1> HIDE DEF rest, own
<1>6. Cardinality(rest) \in Nat
  BY <1>2, FS_CardinalityType
<1>7. Cardinality(rest \cup own) = Cardinality(rest) + Cardinality(own) - Cardinality(rest \cap own)
  BY <1>2, <1>3, FS_Union
<1>8. Cardinality(rest \cap own) = 0
  BY <1>5, FS_EmptySet
<1>9. Cardinality(rest \cup own) = Cardinality(rest) + amount[l]
  BY <1>3, <1>6, <1>7, <1>8
<1>10. QED
  BY <1>4, <1>6, <1>9 DEF rest

\* The same amounts are the same rupiah.
LEMMA CoinsAgree ==
  ASSUME NEW S, NEW amount, NEW other, \A l \in S : amount[l] = other[l]
  PROVE  Coins(amount, S) = Coins(other, S)
BY DEF Coins

\* Where there is no rupiah, every amount is zero.
LEMMA NoCoins ==
  ASSUME NEW S, IsFiniteSet(S), NEW amount, \A l \in S : amount[l] \in Nat,
         Cardinality(Coins(amount, S)) = 0
  PROVE  \A l \in S : amount[l] = 0
<1>1. Coins(amount, S) = {}
  BY CoinsFinite, FS_EmptySet
<1>2. ASSUME NEW l \in S, amount[l] # 0 PROVE <<l, 1>> \in Coins(amount, S)
  <2>1. 1 \in 1..amount[l]
    BY <1>2
  <2>2. QED
    BY <2>1 DEF Coins
<1>3. QED
  BY <1>1, <1>2

\* One more amount.
LEMMA TotalAdds ==
  ASSUME NEW S, IsFiniteSet(S), NEW amount, NEW x, x \notin S,
         \A s \in S \cup {x} : amount[s] \in Nat
  PROVE  /\ Total(amount, S) \in Nat
         /\ Total(amount, S \cup {x}) = Total(amount, S) + amount[x]
<1> DEFINE T == S \cup {x}
<1>1. IsFiniteSet(T) /\ x \in T /\ \A s \in T : amount[s] \in Nat
  BY FS_AddElement
<1>2. T \ {x} = S
  OBVIOUS
<1> HIDE DEF T
<1>3. /\ Cardinality(Coins(amount, T \ {x})) \in Nat
      /\ Cardinality(Coins(amount, T)) = Cardinality(Coins(amount, T \ {x})) + amount[x]
  BY <1>1, CoinsSplit
<1>4. QED
  BY <1>2, <1>3 DEF Total, T

\* Fewer amounts are not more rupiah.
LEMMA TotalOfPart ==
  ASSUME NEW S, IsFiniteSet(S), NEW amount, \A s \in S : amount[s] \in Nat,
         NEW T \in SUBSET S
  PROVE  Total(amount, T) \in Nat /\ Total(amount, S) \in Nat
         /\ Total(amount, T) <= Total(amount, S)
<1>1. Coins(amount, T) \subseteq Coins(amount, S)
  BY DEF Coins
<1>2. IsFiniteSet(Coins(amount, S))
  BY CoinsFinite
<1>3. QED
  BY <1>1, <1>2, FS_Subset, FS_CardinalityType DEF Total

\* Two sets with nothing in common.
LEMMA TotalOfBoth ==
  ASSUME NEW S, IsFiniteSet(S), NEW T, IsFiniteSet(T), S \cap T = {},
         NEW amount, \A s \in S \cup T : amount[s] \in Nat
  PROVE  Total(amount, S \cup T) = Total(amount, S) + Total(amount, T)
<1>1. IsFiniteSet(Coins(amount, S)) /\ IsFiniteSet(Coins(amount, T))
  BY CoinsFinite
<1>2. Coins(amount, S \cup T) = Coins(amount, S) \cup Coins(amount, T)
  BY DEF Coins
<1>3. Coins(amount, S) \cap Coins(amount, T) = {}
  BY DEF Coins
<1>4. Cardinality(Coins(amount, S)) \in Nat /\ Cardinality(Coins(amount, T)) \in Nat
  BY <1>1, FS_CardinalityType
<1>5. Cardinality(Coins(amount, S) \cup Coins(amount, T)) =
         Cardinality(Coins(amount, S)) + Cardinality(Coins(amount, T))
            - Cardinality(Coins(amount, S) \cap Coins(amount, T))
  BY <1>1, FS_Union
<1>6. Cardinality(Coins(amount, S) \cap Coins(amount, T)) = 0
  BY <1>3, FS_EmptySet
<1>7. Cardinality(Coins(amount, S) \cup Coins(amount, T)) =
         Cardinality(Coins(amount, S)) + Cardinality(Coins(amount, T))
  BY <1>4, <1>5, <1>6
<1>8. QED
  BY <1>2, <1>7 DEF Total

\* The same amounts under other names.
LEMMA TotalRenamed ==
  ASSUME NEW S, IsFiniteSet(S), NEW amount, NEW name, NEW other,
         \A s \in S : amount[s] \in Nat /\ amount[s] = other[name[s]],
         \A s, t \in S : name[s] = name[t] => s = t
  PROVE  Total(amount, S) = Total(other, {name[s] : s \in S})
<1> DEFINE T == {name[s] : s \in S}
           f == [c \in Coins(amount, S) |-> <<name[c[1]], c[2]>>]
<1>1. \A c \in Coins(amount, S) : /\ c = <<c[1], c[2]>> /\ c[1] \in S
                                  /\ c[2] \in 1..other[name[c[1]]]
  BY DEF Coins
<1>2. \A d : d \in Coins(other, T) <=>
         \E s \in S : \E n \in 1..amount[s] : d = <<name[s], n>>
  BY DEF Coins
<1>3. f \in Surjection(Coins(amount, S), Coins(other, T))
  <2>1. \A c \in Coins(amount, S) : f[c] \in Coins(other, T)
    <3>1. \A c \in Coins(amount, S) : c[2] \in 1..amount[c[1]] /\ c[1] \in S
      BY <1>1
    <3>2. QED
      BY <1>2, <3>1
  <2>2. ASSUME NEW d \in Coins(other, T)
        PROVE  \E c \in Coins(amount, S) : f[c] = d
    <3>1. PICK s \in S : \E n \in 1..amount[s] : d = <<name[s], n>>
      BY <1>2
    <3>2. PICK n \in 1..amount[s] : d = <<name[s], n>>
      BY <3>1
    <3>3. <<s, n>> \in Coins(amount, S) /\ <<s, n>>[1] = s /\ <<s, n>>[2] = n
      BY DEF Coins
    <3>4. QED
      BY <3>2, <3>3
  <2>3. QED
    BY <2>1, <2>2 DEF Surjection
<1>4. f \in Injection(Coins(amount, S), Coins(other, T))
  <2>1. \A c, d \in Coins(amount, S) : f[c] = f[d] => c = d
    BY <1>1
  <2>2. f \in [Coins(amount, S) -> Coins(other, T)]
    BY <1>3 DEF Surjection
  <2>3. QED
    BY <2>1, <2>2 DEF Injection, IsInjective
<1>5. IsFiniteSet(Coins(amount, S))
  BY CoinsFinite
<1> HIDE DEF f, T
<1>6. Cardinality(Coins(other, T)) = Cardinality(Coins(amount, S))
  BY <1>3, <1>4, <1>5, FS_Surjection
<1>7. QED
  BY <1>6 DEF Total, T

\* The sum in lots is a number, and one more amount adds itself.
LEMMA LotsAdd ==
  ASSUME NEW S, IsFiniteSet(S), NEW amount, NEW x, x \notin S,
         \A s \in S \cup {x} : amount[s] \in Nat
  PROVE  /\ TotalInLots(amount, S) \in Nat
         /\ TotalInLots(amount, S \cup {x}) = TotalInLots(amount, S) + amount[x]
<1> DEFINE T == S \cup {x}
           lots == [s \in T |-> amount[s] \div 10000]
           rest == [s \in T |-> amount[s] % 10000]
<1>1. \A n \in Nat : n \div 10000 \in Nat /\ n % 10000 \in Nat
                     /\ n = 10000 * (n \div 10000) + (n % 10000)
  BY SMT
<1>2. /\ \A s \in T : lots[s] \in Nat /\ rest[s] \in Nat
      /\ lots[x] = amount[x] \div 10000 /\ rest[x] = amount[x] % 10000
  BY <1>1
<1>3. /\ Total([s \in S |-> amount[s] \div 10000], S) = Total(lots, S)
      /\ Total([s \in S |-> amount[s] % 10000], S) = Total(rest, S)
  BY CoinsAgree DEF Total
<1> HIDE DEF lots, rest
<1>a. ASSUME NEW a, \A s \in S \cup {x} : a[s] \in Nat
      PROVE  Total(a, S) \in Nat /\ Total(a, T) = Total(a, S) + a[x]
  BY <1>a, TotalAdds
<1>b. (\A s \in S \cup {x} : lots[s] \in Nat) /\ (\A s \in S \cup {x} : rest[s] \in Nat)
  BY <1>2
<1>4. Total(lots, S) \in Nat /\ Total(lots, T) = Total(lots, S) + lots[x]
  <2>1. \A s \in S \cup {x} : lots[s] \in Nat
    BY <1>b
  <2>2. QED
    BY <2>1, <1>a, Zenon
<1>5. Total(rest, S) \in Nat /\ Total(rest, T) = Total(rest, S) + rest[x]
  <2>1. \A s \in S \cup {x} : rest[s] \in Nat
    BY <1>b
  <2>2. QED
    BY <2>1, <1>a, Zenon
<1>6. TotalInLots(amount, S) = 10000 * Total(lots, S) + Total(rest, S)
  BY <1>3 DEF TotalInLots
<1>7. TotalInLots(amount, T) = 10000 * Total(lots, T) + Total(rest, T)
  BY DEF TotalInLots, lots, rest
<1>8. amount[x] = 10000 * lots[x] + rest[x] /\ lots[x] \in Nat /\ rest[x] \in Nat
  BY <1>1, <1>2
<1> HIDE DEF T
<1>9. TotalInLots(amount, T) = TotalInLots(amount, S) + amount[x] /\ TotalInLots(amount, S) \in Nat
  BY <1>4, <1>5, <1>6, <1>7, <1>8, SMT
<1>10. QED
  BY <1>9 DEF T

\* The same amounts are the same sum.
LEMMA LotsAgree ==
  ASSUME NEW S, NEW amount, NEW other, \A l \in S : amount[l] = other[l]
  PROVE  TotalInLots(amount, S) = TotalInLots(other, S)
<1>1. /\ [s \in S |-> amount[s] \div 10000] = [s \in S |-> other[s] \div 10000]
      /\ [s \in S |-> amount[s] % 10000] = [s \in S |-> other[s] % 10000]
  OBVIOUS
<1>2. QED
  BY <1>1 DEF TotalInLots

==============================================================================
