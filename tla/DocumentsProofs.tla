-------------------------- MODULE DocumentsProofs ---------------------------
(***************************************************************************)
(* Theorems about the documents, for every reference, every validated      *)
(* month and every calendar they are drafted, issued and cancelled in;     *)
(* about the arithmetic under them, for every value: the divisions of      *)
(* money.ts, the dated references of dated.ts, and how far the identifiers *)
(* of uuidv7.ts stay apart; and about the books of the seed, for every     *)
(* dataset.                                                                *)
(***************************************************************************)
EXTENDS Documents, Seed, FiniteSetTheorems, WellFoundedInduction, TLAPS

(***************************************************************************)
(* Sums over finite sets are recursive functions: that they exist, and     *)
(* that they are numbers, goes by the least size at which it would not.    *)
(***************************************************************************)

\* A set of numbers that is not empty has a least one.
LEMMA LeastNat ==
    ASSUME NEW T \in SUBSET Nat, T # {}
    PROVE  \E n \in T : \A m \in T : n <= m
<1>1. PICK x \in T : \A y \in T : ~ (<< y, x >> \in OpToRel(<, Nat))
  BY NatLessThanWellFounded, WFMin
<1>2. \A y \in T : ~ (y < x)
  BY <1>1 DEF OpToRel
<1> QED
  BY <1>2

\* The element a fold takes out of a set first.
Chosen(s) == CHOOSE x \in s : TRUE

\* g gives the sum of the weights w of every subset of S.
IsSum(g, S, w) ==
    g = [ s \in SUBSET S |-> IF s = {} THEN 0 ELSE w[Chosen(s)] + g[s \ {Chosen(s)}] ]

\* There is an element to take out of a set that is not empty.
LEMMA ChosenIn == ASSUME NEW s, s # {} PROVE Chosen(s) \in s
  BY DEF Chosen

\* One element taken out.
LEMMA IsSumEq ==
    ASSUME NEW S, NEW w, NEW g, IsSum(g, S, w), NEW s \in SUBSET S
    PROVE  g[s] = IF s = {} THEN 0 ELSE w[Chosen(s)] + g[s \ {Chosen(s)}]
<1> DEFINE f == [ t \in SUBSET S |->
                  IF t = {} THEN 0 ELSE w[Chosen(t)] + g[t \ {Chosen(t)}] ]
<1>1. g = f
  BY DEF IsSum
<1>2. f[s] = IF s = {} THEN 0 ELSE w[Chosen(s)] + g[s \ {Chosen(s)}]
  OBVIOUS
<1> HIDE DEF f
<1> QED
  BY <1>1, <1>2

\* The function of the sums exists.
LEMMA SumExists ==
    ASSUME NEW S, IsFiniteSet(S), NEW w \in [ S -> Nat ]
    PROVE  \E g : IsSum(g, S, w)
<1> DEFINE Part(n) == { s \in SUBSET S : Cardinality(s) <= n }
           Sums(g, n) == \A s \in Part(n) :
                 g[s] = IF s = {} THEN 0 ELSE w[Chosen(s)] + g[s \ {Chosen(s)}]
           Good(n) == \E g \in [ Part(n) -> Nat ] : Sums(g, n)
           wrong == { n \in Nat : ~ Good(n) }
<1>0. \A s \in SUBSET S : Cardinality(s) \in Nat /\ IsFiniteSet(s)
  BY FS_Subset, FS_CardinalityType
<1>1. ASSUME NEW s \in SUBSET S, s # {}
      PROVE  /\ Chosen(s) \in s
             /\ s \ {Chosen(s)} \in SUBSET S
             /\ Cardinality(s \ {Chosen(s)}) = Cardinality(s) - 1
  BY <1>0, <1>1, ChosenIn, FS_RemoveElement
<1>2. Good(0)
  <2>1. \A s \in Part(0) : s = {}
    BY <1>0, FS_EmptySet
  <2>2. Sums([ s \in Part(0) |-> 0 ], 0)
    BY <2>1
  <2>3. [ s \in Part(0) |-> 0 ] \in [ Part(0) -> Nat ]
    OBVIOUS
  <2> HIDE DEF Part, Sums
  <2> QED
    BY <2>2, <2>3
<1>3. ASSUME NEW n \in Nat, Good(n) PROVE Good(n + 1)
  <2>1. PICK g \in [ Part(n) -> Nat ] : Sums(g, n)
    BY <1>3
  <2> DEFINE h == [ s \in Part(n + 1) |->
                    IF s = {} THEN 0 ELSE w[Chosen(s)] + g[s \ {Chosen(s)}] ]
  <2>2. ASSUME NEW s \in Part(n + 1), s # {} PROVE s \ {Chosen(s)} \in Part(n)
    BY <1>0, <1>1, <2>2
  <2>3. h \in [ Part(n + 1) -> Nat ]
    <3> SUFFICES ASSUME NEW s \in Part(n + 1), s # {}
                 PROVE  w[Chosen(s)] + g[s \ {Chosen(s)}] \in Nat
      OBVIOUS
    <3>1. w[Chosen(s)] \in Nat
      BY <1>1
    <3>2. g[s \ {Chosen(s)}] \in Nat 
      <4> HIDE DEF Part
      <4> QED
        BY <2>2
    <3> QED
      BY <3>1, <3>2
  <2>4. ASSUME NEW s \in Part(n) PROVE h[s] = g[s]
    <3>1. s \in Part(n + 1)
      BY <1>0
    <3>2. h[s] = IF s = {} THEN 0 ELSE w[Chosen(s)] + g[s \ {Chosen(s)}]
      BY <3>1
    <3>3. g[s] = IF s = {} THEN 0 ELSE w[Chosen(s)] + g[s \ {Chosen(s)}]
      BY <2>1
    <3> QED
      BY <3>2, <3>3
  <2>5. Sums(h, n + 1)
    <3> SUFFICES ASSUME NEW s \in Part(n + 1)
                 PROVE  h[s] = IF s = {} THEN 0 ELSE w[Chosen(s)] + h[s \ {Chosen(s)}]
      OBVIOUS
    <3>1. h[s] = IF s = {} THEN 0 ELSE w[Chosen(s)] + g[s \ {Chosen(s)}]
      OBVIOUS
    <3>2. s # {} => h[s \ {Chosen(s)}] = g[s \ {Chosen(s)}]
      <4> HIDE DEF Part, h
      <4> QED
        BY <2>2, <2>4
    <3> HIDE DEF Part, h
    <3> QED
      BY <3>1, <3>2
  <2> HIDE DEF Part, h, Sums
  <2> QED
    BY <2>3, <2>5
<1>4. \A n \in Nat : Good(n)
  <2> HIDE DEF Good
  <2>1. SUFFICES ASSUME wrong # {} PROVE FALSE
    OBVIOUS
  <2>2. PICK n \in wrong : \A m \in wrong : n <= m
    BY <2>1, LeastNat
  <2>3. n # 0
    BY <1>2
  <2>4. n - 1 \in Nat /\ Good(n - 1)
    BY <2>2, <2>3
  <2>5. Good((n - 1) + 1)
    BY <1>3, <2>4
  <2> QED
    BY <2>5
<1>5. Part(Cardinality(S)) = SUBSET S
  BY <1>0, FS_Subset
<1>6. PICK g \in [ SUBSET S -> Nat ] : Sums(g, Cardinality(S))
  <2>1. Good(Cardinality(S))
    BY <1>0, <1>4
  <2> HIDE DEF Part, Sums
  <2> QED
    BY <2>1, <1>5
<1> QED
  <2>1. \A s \in SUBSET S : g[s] = IF s = {} THEN 0 ELSE w[Chosen(s)] + g[s \ {Chosen(s)}]
    BY <1>5, <1>6
  <2> QED
    BY <2>1 DEF IsSum

\* A sum of naturals is a natural.
LEMMA SumNat ==
    ASSUME NEW S, IsFiniteSet(S), NEW w \in [ S -> Nat ], NEW g, IsSum(g, S, w)
    PROVE  \A s \in SUBSET S : g[s] \in Nat
<1> DEFINE Fits(s) == g[s] \in Nat
           wrong == { n \in Nat : \E s \in SUBSET S : Cardinality(s) = n /\ ~ Fits(s) }
<1>1. SUFFICES ASSUME wrong # {} PROVE FALSE
  BY FS_Subset, FS_CardinalityType
<1>2. PICK n \in wrong : \A m \in wrong : n <= m
  BY <1>1, LeastNat
<1>3. PICK s \in SUBSET S : Cardinality(s) = n /\ ~ Fits(s)
  OBVIOUS
<1>4. g[s] = IF s = {} THEN 0 ELSE w[Chosen(s)] + g[s \ {Chosen(s)}]
  BY IsSumEq
<1>5. CASE s # {}
  <2>1. Chosen(s) \in s /\ IsFiniteSet(s)
    BY <1>5, ChosenIn, FS_Subset
  <2>2. Cardinality(s \ {Chosen(s)}) = n - 1 /\ n - 1 \in Nat
    <3>1. /\ IsFiniteSet(s \ {Chosen(s)})
          /\ Cardinality(s \ {Chosen(s)}) = Cardinality(s) - 1
      BY <2>1, FS_RemoveElement
    <3> QED
      BY <1>3, <3>1, FS_CardinalityType
  <2>3. Fits(s \ {Chosen(s)})
    BY <1>2, <2>2
  <2>4. w[Chosen(s)] \in Nat
    BY <2>1
  <2> QED
    BY <1>3, <1>4, <1>5, <2>3, <2>4
<1> QED
  BY <1>3, <1>4, <1>5

\* Any element may be the one taken out.
LEMMA SumRemove ==
    ASSUME NEW S, IsFiniteSet(S), NEW w \in [ S -> Nat ], NEW g, IsSum(g, S, w)
    PROVE  \A s \in SUBSET S : \A x \in s : g[s] = w[x] + g[s \ {x}]
<1> DEFINE Fits(s) == \A x \in s : g[s] = w[x] + g[s \ {x}]
           wrong == { n \in Nat : \E s \in SUBSET S : Cardinality(s) = n /\ ~ Fits(s) }
<1>1. SUFFICES ASSUME wrong # {} PROVE FALSE
  BY FS_Subset, FS_CardinalityType
<1>2. PICK n \in wrong : \A m \in wrong : n <= m
  BY <1>1, LeastNat
<1>3. PICK s \in SUBSET S : Cardinality(s) = n /\ ~ Fits(s)
  OBVIOUS
<1>4. PICK x \in s : g[s] # w[x] + g[s \ {x}]
  BY <1>3
<1> DEFINE c == Chosen(s)
<1>5. c \in s /\ IsFiniteSet(s) /\ g[s] = w[c] + g[s \ {c}]
  BY <1>4, ChosenIn, IsSumEq, FS_Subset
<1>6. ASSUME NEW y \in s PROVE Fits(s \ {y})
  <2>1. /\ IsFiniteSet(s \ {y}) /\ Cardinality(s \ {y}) = n - 1
    BY <1>3, <1>5, FS_RemoveElement
  <2> QED
    BY <1>2, <2>1, FS_CardinalityType
<1>7. x # c
  BY <1>4, <1>5
<1>8. PICK rest \in Nat : rest = g[(s \ {x}) \ {c}]
  BY SumNat
<1>9. g[s \ {c}] = w[x] + rest
  <2>1. (s \ {c}) \ {x} = (s \ {x}) \ {c}
    OBVIOUS
  <2> QED
    BY <1>5, <1>6, <1>7, <1>8, <2>1
<1>10. g[s \ {x}] = w[c] + rest
  BY <1>5, <1>6, <1>7, <1>8
<1>11. w[x] \in Nat /\ w[c] \in Nat
  BY <1>5
<1> HIDE DEF c, Fits
<1> QED
  BY <1>4, <1>5, <1>9, <1>10, <1>11

\* A sum does not depend on what its weights are the weights of.
LEMMA SumRenamed ==
    ASSUME NEW S, IsFiniteSet(S), NEW w \in [ S -> Nat ], NEW g, IsSum(g, S, w),
           NEW T, IsFiniteSet(T), NEW v \in [ T -> Nat ], NEW f, IsSum(f, T, v)
    PROVE  \A h \in [ S -> T ] :
             /\ \A x \in S : v[h[x]] = w[x]
             /\ \A x \in S : \A y \in S : h[x] = h[y] => x = y
             => \A s \in SUBSET S : g[s] = f[{ h[x] : x \in s }]
<1>a. \A s \in SUBSET S : g[s] = IF s = {} THEN 0 ELSE w[Chosen(s)] + g[s \ {Chosen(s)}]
  BY IsSumEq
<1>b. f[{}] = 0
  <2>1. {} \in SUBSET T
    OBVIOUS
  <2> QED
    BY <2>1, IsSumEq
<1>c. ASSUME NEW s \in SUBSET T, NEW x \in s PROVE f[s] = v[x] + f[s \ {x}]
  BY SumRemove
<1> SUFFICES ASSUME NEW h \in [ S -> T ], \A x \in S : v[h[x]] = w[x],
                    \A x \in S : \A y \in S : h[x] = h[y] => x = y
             PROVE  \A s \in SUBSET S : g[s] = f[{ h[x] : x \in s }]
  OBVIOUS
<1> DEFINE Image(s) == { h[x] : x \in s }
           Fits(s) == g[s] = f[Image(s)]
           wrong == { n \in Nat : \E s \in SUBSET S : Cardinality(s) = n /\ ~ Fits(s) }
<1>0. /\ Image({}) = {}
      /\ \A s \in SUBSET S : /\ Image(s) \in SUBSET T
                              /\ \A x \in s : /\ h[x] \in Image(s)
                                               /\ Image(s \ {x}) = Image(s) \ {h[x]}
  OBVIOUS
<1>1. SUFFICES ASSUME wrong # {} PROVE FALSE
  BY FS_Subset, FS_CardinalityType
<1> HIDE DEF Image
<1>2. PICK n \in wrong : \A m \in wrong : n <= m
  BY <1>1, LeastNat
<1>3. PICK s \in SUBSET S : Cardinality(s) = n /\ ~ Fits(s)
  OBVIOUS
<1>4. CASE s = {}
  BY <1>a, <1>b, <1>0, <1>3, <1>4
<1>5. CASE s # {}
  <2>1. PICK c \in s : g[s] = w[c] + g[s \ {c}]
    <3>1. Chosen(s) \in s
      BY <1>5, ChosenIn
    <3>2. g[s] = IF s = {} THEN 0 ELSE w[Chosen(s)] + g[s \ {Chosen(s)}]
      BY <1>a
    <3> QED
      BY <1>5, <3>1, <3>2
  <2>2. IsFiniteSet(s) /\ IsFiniteSet(s \ {c}) /\ Cardinality(s \ {c}) = n - 1
    BY <1>3, FS_RemoveElement, FS_Subset
  <2>3. Fits(s \ {c})
    BY <1>2, <2>2, FS_CardinalityType
  <2>4. f[Image(s)] = v[h[c]] + f[Image(s) \ {h[c]}]
    BY <1>0, <1>c
  <2>5. v[h[c]] = w[c] /\ Image(s \ {c}) = Image(s) \ {h[c]}
    BY <1>0
  <2> QED
    BY <1>3, <2>1, <2>3, <2>4, <2>5
<1> QED
  BY <1>4, <1>5

\* What weighs nothing may be left out.
LEMMA SumZeros ==
    ASSUME NEW S, IsFiniteSet(S), NEW w \in [ S -> Nat ], NEW g, IsSum(g, S, w),
           NEW T \in SUBSET S, \A x \in S \ T : w[x] = 0
    PROVE  g[S] = g[T]
<1> DEFINE Fits(s) == g[s] = g[s \cap T]
           wrong == { n \in Nat : \E s \in SUBSET S : Cardinality(s) = n /\ ~ Fits(s) }
<1>1. ASSUME wrong # {} PROVE FALSE
  <2>1. PICK n \in wrong : \A m \in wrong : n <= m
    BY <1>1, LeastNat
  <2>2. PICK s \in SUBSET S : Cardinality(s) = n /\ ~ Fits(s)
    OBVIOUS
  <2>3. PICK x \in s : x \notin T
    <3>1. s \cap T # s
      BY <2>2
    <3> QED
      BY <3>1
  <2> DEFINE rest == s \ {x}
  <2>4. IsFiniteSet(s) /\ IsFiniteSet(rest) /\ Cardinality(rest) = n - 1 /\ rest \in SUBSET S
    BY <2>2, FS_RemoveElement, FS_Subset
  <2>5. Fits(rest)
    <3> HIDE DEF Fits, rest
    <3> QED
      BY <2>1, <2>4, FS_CardinalityType
  <2>6. g[s] = w[x] + g[rest]
    BY <2>3, SumRemove
  <2>7. w[x] = 0 /\ g[rest] \in Nat
    BY <2>3, <2>4, SumNat
  <2>8. rest \cap T = s \cap T
    BY <2>3
  <2> HIDE DEF rest
  <2>9. g[s] = g[rest] /\ g[rest] = g[rest \cap T] /\ g[s] # g[s \cap T]
    BY <2>2, <2>5, <2>6, <2>7
  <2> QED
    BY <2>8, <2>9, Zenon
<1>2. Fits(S)
  <2>1. S \in SUBSET S /\ Cardinality(S) \in Nat
    BY FS_CardinalityType
  <2> HIDE DEF Fits
  <2> QED
    BY <1>1, <2>1
<1>3. S \cap T = T
  OBVIOUS
<1> QED
  BY <1>2, <1>3

-----------------------------------------------------------------------------
(* Amounts.                                                                *)

\* Rounding over ten thousandths: an integer of cents within half a cent of the exact
\* amount, and the half goes up (roundHalfUp).
LEMMA RoundHalfUpOverRates ==
    ASSUME NEW numerator \in Nat
    PROVE  /\ RoundHalfUp(numerator, 10000) \in Nat
           /\ 20000 * RoundHalfUp(numerator, 10000) <= 2 * numerator + 10000
           /\ 20000 * RoundHalfUp(numerator, 10000) > 2 * numerator - 10000
<1> DEFINE r == numerator % 10000
           t == (numerator - r) \div 10000
<1>1. r \in 0 .. 9999 /\ t \in Nat /\ numerator = 10000 * t + r
  OBVIOUS
<1> HIDE DEF r, t
<1>2. RoundHalfUp(numerator, 10000) = IF r * 2 >= 10000 THEN t + 1 ELSE t
  BY DEF RoundHalfUp, r, t
<1>3. CASE r * 2 >= 10000
  <2>1. RoundHalfUp(numerator, 10000) = t + 1
    BY <1>2, <1>3
  <2> QED BY <1>1, <1>3, <2>1
<1>4. CASE ~ (r * 2 >= 10000)
  <2>1. RoundHalfUp(numerator, 10000) = t
    BY <1>2, <1>4
  <2> QED BY <1>1, <1>4, <2>1
<1> QED BY <1>3, <1>4

\* The tax of a group is within half a cent of base times rate, upwards when it falls
\* between two, for every base and every rate from 0 to 100 % (applyRate; ADR-0010).
THEOREM TaxWithinHalfACent ==
    ASSUME NEW amountCents \in Nat, NEW basisPoints \in 0 .. 10000
    PROVE  /\ ApplyRate(amountCents, basisPoints) \in Nat
           /\ 20000 * ApplyRate(amountCents, basisPoints)
                <= 2 * (amountCents * basisPoints) + 10000
           /\ 20000 * ApplyRate(amountCents, basisPoints)
                > 2 * (amountCents * basisPoints) - 10000
<1> DEFINE exact == amountCents * basisPoints
<1>1. exact \in Nat
  OBVIOUS
<1>2. ApplyRate(amountCents, basisPoints) = RoundHalfUp(exact, 10000)
  BY DEF ApplyRate
<1> HIDE DEF exact
<1>3. /\ RoundHalfUp(exact, 10000) \in Nat
      /\ 20000 * RoundHalfUp(exact, 10000) <= 2 * exact + 10000
      /\ 20000 * RoundHalfUp(exact, 10000) > 2 * exact - 10000
  BY <1>1, RoundHalfUpOverRates
<1> QED BY <1>2, <1>3 DEF exact

LEMMA TaxIsCents ==
    ASSUME NEW amountCents \in Nat, NEW basisPoints \in Nat
    PROVE  ApplyRate(amountCents, basisPoints) \in Nat
<1> DEFINE exact == amountCents * basisPoints
<1>1. exact \in Nat
  OBVIOUS
<1>2. ApplyRate(amountCents, basisPoints) = RoundHalfUp(exact, 10000)
  BY DEF ApplyRate
<1> HIDE DEF exact
<1> QED
  BY <1>1, <1>2, RoundHalfUpOverRates

\* A rate the reference admits passes the check before the division of a line.
LEMMA AgreedRateDivides ==
    ASSUME NEW tjmCents, IsAgreedRate(tjmCents)
    PROVE  IsTjm(tjmCents)
<1>1. tjmCents \in Nat /\ tjmCents % 100 = 0
  BY DEF IsAgreedRate
<1>2. tjmCents = 4 * (25 * (tjmCents \div 100))
  BY <1>1
<1> QED BY <1>1, <1>2 DEF IsTjm, QuarterDaysPerDay

\* The division of a line is exact: an amount is its quarter-days times the rate of a
\* quarter-day, which is the unit price printed beside it (lineAmountCents, regieLine).
THEOREM LinesLoseNothing ==
    ASSUME NEW tjmCents, IsAgreedRate(tjmCents), NEW quarterDays \in Nat,
           NEW mission, NEW period, NEW vat
    PROVE  LET line == RegieLine(mission, period, quarterDays, tjmCents, vat)
           IN /\ 4 * line.amountCents = quarterDays * tjmCents
              /\ line.amountCents = quarterDays * line.unitPriceCents
<1>1. tjmCents \in Nat /\ tjmCents % 4 = 0
  BY AgreedRateDivides DEF IsTjm, QuarterDaysPerDay
<1> DEFINE price == tjmCents \div 4
<1>2. price \in Nat /\ tjmCents = 4 * price
  BY <1>1
<1> HIDE DEF price
<1>3. quarterDays * tjmCents = 4 * (quarterDays * price) /\ quarterDays * price \in Nat
  BY <1>2
<1>4. LineAmountCents(quarterDays, tjmCents) = quarterDays * price
  BY <1>3 DEF LineAmountCents, QuarterDaysPerDay
<1>5. LineAmountCents(1, tjmCents) = price
  BY <1>2 DEF LineAmountCents, QuarterDaysPerDay
<1> QED BY <1>2, <1>3, <1>4, <1>5 DEF RegieLine

-----------------------------------------------------------------------------
(* Dated references.                                                       *)

LEMMA DigitsAreNumbers ==
    ASSUME NEW date \in CivilDates
    PROVE  Digits(date) \in Nat
BY DEF CivilDates, Digits

LEMMA EntryFacts ==
    ASSUME NEW entries \in Seq(Dated), NEW n \in DOMAIN entries
    PROVE  /\ n \in Nat /\ entries[n].from \in CivilDates /\ Digits(entries[n].from) \in Nat
           /\ entries[n].to # None => entries[n].to \in CivilDates
<1>1. n \in Nat /\ entries[n] \in Dated
  <2>1. DOMAIN entries = 1 .. Len(entries) /\ Len(entries) \in Nat
    OBVIOUS
  <2> QED
    BY <2>1
<1>2. entries[n].from \in CivilDates /\ entries[n].to \in CivilDates \cup {None}
  BY <1>1 DEF Dated
<1> QED
  BY <1>1, <1>2, DigitsAreNumbers

\* An entry that is not the last has one that comes next.
LEMMA NextExists ==
    ASSUME NEW entries \in Seq(Dated), NEW m \in DOMAIN entries, NEW n \in DOMAIN entries,
           Comes(entries, m, n)
    PROVE  \E k \in DOMAIN entries :
             IsNext(entries, m, k) /\ Digits(entries[k].from) <= Digits(entries[n].from)
<1> DEFINE Start(k) == Digits(entries[k].from)
           later  == { k \in DOMAIN entries : Comes(entries, m, k) }
           starts == { Start(k) : k \in later }
<1>1. \A k \in DOMAIN entries : Start(k) \in Nat /\ k \in Nat
  BY EntryFacts
<1>2. \A i \in DOMAIN entries, j \in DOMAIN entries :
        Comes(entries, i, j) <=> Start(i) < Start(j) \/ (Start(i) = Start(j) /\ i < j)
  BY DEF Comes
<1>3. later \in SUBSET DOMAIN entries /\ n \in later
  OBVIOUS
<1>4. starts \in SUBSET Nat /\ Start(n) \in starts
  BY <1>1, <1>3
<1>5. PICK d \in starts : \A e \in starts : d <= e
  <2> HIDE DEF starts
  <2> QED
    BY <1>4, LeastNat
<1> DEFINE first == { k \in later : Start(k) = d }
<1>6. first \in SUBSET Nat /\ first # {}
  BY <1>1, <1>5
<1>7. PICK i \in first : \A j \in first : i <= j
  <2> HIDE DEF first
  <2> QED
    BY <1>6, LeastNat
<1>8. \A k \in later : ~ Comes(entries, k, i)
  <2>1. SUFFICES ASSUME NEW k \in later, Comes(entries, k, i) PROVE FALSE
    OBVIOUS
  <2>2. d <= Start(k) /\ Start(i) = d /\ i \in DOMAIN entries /\ k \in DOMAIN entries
    BY <1>5, <1>7
  <2>3. Start(k) = d => i <= k
    BY <1>7
  <2>4. Start(i) \in Nat /\ Start(k) \in Nat /\ i \in Nat /\ k \in Nat
    BY <1>1, <2>2
  <2>5. Start(k) < Start(i) \/ (Start(k) = Start(i) /\ k < i)
    BY <1>2, <2>1, <2>2
  <2> HIDE DEF Start
  <2> QED
    BY <2>2, <2>3, <2>4, <2>5
<1>9. i \in later /\ Start(i) <= Start(n)
  BY <1>4, <1>5, <1>7
<1> QED
  BY <1>8, <1>9 DEF IsNext

\* Two entries are always in one order or the other.
LEMMA OneComesFirst ==
    ASSUME NEW entries \in Seq(Dated), NEW n \in DOMAIN entries, NEW k \in DOMAIN entries, n # k
    PROVE  Comes(entries, n, k) \/ Comes(entries, k, n)
  BY EntryFacts DEF Comes

\* What comes earlier in a timeline ends before what comes later starts, however many entries
\* lie between them.
LEMMA EndsBefore ==
    ASSUME NEW entries \in Seq(Dated), IsTimeline(entries),
           NEW i \in DOMAIN entries, NEW j \in DOMAIN entries, Comes(entries, i, j)
    PROVE  entries[i].to # None /\ Digits(entries[i].to) < Digits(entries[j].from)
<1>1. PICK next \in DOMAIN entries :
        IsNext(entries, i, next) /\ Digits(entries[next].from) <= Digits(entries[j].from)
  BY NextExists
<1>2. entries[i].to # None /\ ~ NotAfter(entries[next].from, entries[i].to)
  BY <1>1 DEF IsTimeline
<1>3. /\ Digits(entries[i].to) \in Nat /\ Digits(entries[next].from) \in Nat
      /\ Digits(entries[j].from) \in Nat
  BY <1>2, EntryFacts, DigitsAreNumbers
<1> QED
  BY <1>1, <1>2, <1>3 DEF NotAfter

\* timeline() compares each entry with the next one only, and that is enough: no two entries
\* it let through are ever in force on one day, whatever the order they were given in.
THEOREM NeighboursSuffice ==
    ASSUME NEW entries \in Seq(Dated), IsTimeline(entries), NEW date \in CivilDates,
           NEW n \in DOMAIN entries, Holds(entries[n], date),
           NEW k \in DOMAIN entries, Holds(entries[k], date)
    PROVE  n = k
<1>1. ASSUME NEW i \in DOMAIN entries, NEW j \in DOMAIN entries, Comes(entries, i, j),
             Holds(entries[i], date), Holds(entries[j], date)
      PROVE  FALSE
  <2>1. entries[i].to # None /\ Digits(entries[i].to) < Digits(entries[j].from)
    BY <1>1, EndsBefore
  <2>2. Digits(entries[j].from) <= Digits(date) /\ Digits(date) <= Digits(entries[i].to)
    BY <1>1, <2>1 DEF Holds, NotAfter
  <2>3. /\ Digits(entries[i].to) \in Nat /\ Digits(entries[j].from) \in Nat
        /\ Digits(date) \in Nat
    BY <2>1, EntryFacts, DigitsAreNumbers
  <2> QED
    BY <2>1, <2>2, <2>3
<1> QED
  BY <1>1, OneComesFirst

-----------------------------------------------------------------------------
(* Things in the order of a number.                                        *)

\* What is numbered from 1 to n is n things.
LEMMA FamilySize ==
    ASSUME NEW n \in Nat, NEW g, \A i, j \in 1 .. n : g[i] = g[j] => i = j
    PROVE  /\ IsFiniteSet({ g[i] : i \in 1 .. n })
           /\ Cardinality({ g[i] : i \in 1 .. n }) = n
<1> DEFINE F == { g[i] : i \in 1 .. n }
           b == [ i \in 1 .. n |-> g[i] ]
<1>1. b \in Bijection(1 .. n, F)
  BY DEF Bijection, Injection, Surjection, IsInjective
<1>2. IsFiniteSet(1 .. n) /\ Cardinality(1 .. n) = n
  BY FS_Interval
<1> HIDE DEF F, b
<1>3. IsFiniteSet(F) /\ Cardinality(F) = n
  BY <1>1, <1>2, FS_Bijection DEF ExistsBijection
<1> QED
  BY <1>3 DEF F

\* Numbers that differ have ranks that differ, and every rank is taken.
LEMMA Ranked ==
    ASSUME NEW S, IsFiniteSet(S), NEW f \in [ S -> Nat ],
           \A x, y \in S : f[x] = f[y] => x = y
    PROVE  /\ \A n \in 1 .. Cardinality(S) :
                \E x \in S : Cardinality({ y \in S : f[y] < f[x] }) = n - 1
           /\ \A x \in S : Cardinality({ y \in S : f[y] < f[x] }) \in 0 .. Cardinality(S) - 1
           /\ \A x, z \in S : Cardinality({ y \in S : f[y] < f[x] })
                                = Cardinality({ y \in S : f[y] < f[z] }) => x = z
<1> DEFINE Below(x) == { y \in S : f[y] < f[x] }
           N == Cardinality(S)
<1>1. N \in Nat
  BY FS_CardinalityType
<1>2. ASSUME NEW x \in S
      PROVE  IsFiniteSet(Below(x)) /\ Cardinality(Below(x)) \in 0 .. N - 1
  <2>1. Below(x) \in SUBSET (S \ {x}) /\ f[x] \in Nat
    OBVIOUS
  <2>2. IsFiniteSet(S \ {x}) /\ Cardinality(S \ {x}) = N - 1
    BY FS_RemoveElement
  <2> HIDE DEF Below, N
  <2>3. IsFiniteSet(Below(x)) /\ Cardinality(Below(x)) <= N - 1
    BY <2>1, <2>2, FS_Subset
  <2> QED
    BY <1>1, <2>3, FS_CardinalityType
<1>3. ASSUME NEW x \in S, NEW z \in S, f[x] < f[z]
      PROVE  Cardinality(Below(x)) < Cardinality(Below(z))
  <2>1. Below(x) \in SUBSET Below(z) /\ x \in Below(z) /\ x \notin Below(x)
    <3>1. f[x] \in Nat /\ f[z] \in Nat /\ \A y \in S : f[y] \in Nat
      OBVIOUS
    <3> QED
      BY <1>3, <3>1
  <2>2. IsFiniteSet(Below(z)) /\ Cardinality(Below(z)) \in Nat /\ Cardinality(Below(x)) \in Nat
    <3> HIDE DEF Below, N
    <3> QED
      BY <1>1, <1>2
  <2> HIDE DEF Below
  <2>3. Cardinality(Below(x)) <= Cardinality(Below(z))
        /\ Cardinality(Below(x)) # Cardinality(Below(z))
    BY <2>1, <2>2, FS_Subset
  <2> QED
    BY <2>2, <2>3
<1>4. ASSUME NEW x \in S, NEW z \in S, Cardinality(Below(x)) = Cardinality(Below(z))
      PROVE  x = z
  <2>1. f[x] \in Nat /\ f[z] \in Nat
    OBVIOUS
  <2>2. Cardinality(Below(x)) \in Nat /\ Cardinality(Below(z)) \in Nat
    <3> HIDE DEF Below, N
    <3> QED
      BY <1>1, <1>2
  <2>3. ~ (f[x] < f[z]) /\ ~ (f[z] < f[x])
    <3> HIDE DEF Below
    <3> QED
      BY <1>3, <1>4, <2>2
  <2> QED
    BY <2>1, <2>3
<1> DEFINE r == [ x \in S |-> Cardinality(Below(x)) + 1 ]
<1>5. r \in Injection(S, 1 .. N)
  <2>1. \A x \in S : r[x] = Cardinality(Below(x)) + 1 /\ Cardinality(Below(x)) \in 0 .. N - 1
    BY <1>2
  <2>2. r \in [ S -> 1 .. N ]
    <3> HIDE DEF Below, N
    <3> QED
      BY <1>1, <1>2
  <2>3. DOMAIN r = S
    OBVIOUS
  <2> HIDE DEF r, Below, N
  <2>4. \A x, z \in S : r[x] = r[z] => x = z
    BY <1>4, <2>1
  <2> QED
    BY <2>2, <2>3, <2>4 DEF Injection, IsInjective
<1>6. IsFiniteSet(1 .. N) /\ Cardinality(1 .. N) = N
  BY <1>1, FS_Interval
<1>7. \A n \in 1 .. N : \E x \in S : r[x] = n
  <2> HIDE DEF r
  <2>1. r \in Surjection(S, 1 .. N)
    BY <1>5, <1>6, FS_Injection DEF N
  <2> QED
    BY <2>1 DEF Surjection
<1>8. \A n \in 1 .. N : \E x \in S : Cardinality(Below(x)) = n - 1
  <2>1. SUFFICES ASSUME NEW n \in 1 .. N PROVE \E x \in S : Cardinality(Below(x)) = n - 1
    OBVIOUS
  <2>2. PICK x \in S : r[x] = n
    BY <1>7
  <2>3. Cardinality(Below(x)) + 1 = n /\ Cardinality(Below(x)) \in 0 .. N - 1
    BY <1>2, <2>2
  <2> HIDE DEF Below, N
  <2> QED
    BY <1>1, <2>3
<1> QED
  BY <1>2, <1>4, <1>8

\* A set of numbers in their order: all of them, each once.
LEMMA NumbersInOrder ==
    ASSUME NEW S \in SUBSET Nat, IsFiniteSet(S)
    PROVE  LET seq == InOrder(S, LAMBDA n : n)
           IN /\ seq \in [ 1 .. Cardinality(S) -> S ]
              /\ \A i, j \in 1 .. Cardinality(S) : seq[i] = seq[j] => i = j
              /\ \A x \in S : \E i \in 1 .. Cardinality(S) : seq[i] = x
<1> DEFINE Rank(x) == Cardinality({ y \in S : y < x })
           N == Cardinality(S)
           seq == [ n \in 1 .. N |-> CHOOSE x \in S : Rank(x) = n - 1 ]
           id == [ x \in S |-> x ]
<1>1. InOrder(S, LAMBDA n : n) = seq
  BY DEF InOrder
<1>2. /\ \A n \in 1 .. N : \E x \in S : Rank(x) = n - 1
      /\ \A x \in S : Rank(x) \in 0 .. N - 1
      /\ \A x, z \in S : Rank(x) = Rank(z) => x = z
  <2>1. id \in [ S -> Nat ] /\ \A x, y \in S : id[x] = id[y] => x = y
    OBVIOUS
  <2>2. \A x \in S : { y \in S : id[y] < id[x] } = { y \in S : y < x }
    OBVIOUS
  <2> HIDE DEF id
  <2>3. /\ \A n \in 1 .. N :
             \E x \in S : Cardinality({ y \in S : id[y] < id[x] }) = n - 1
        /\ \A x \in S : Cardinality({ y \in S : id[y] < id[x] }) \in 0 .. N - 1
        /\ \A x, z \in S : Cardinality({ y \in S : id[y] < id[x] })
                             = Cardinality({ y \in S : id[y] < id[z] }) => x = z
    BY <2>1, Ranked
  <2> QED
    BY <2>2, <2>3
<1>3. N \in Nat
  BY FS_CardinalityType
<1> HIDE DEF Rank, N
<1>4. \A n \in 1 .. N : seq[n] \in S /\ Rank(seq[n]) = n - 1
  BY <1>2
<1>5. seq \in [ 1 .. N -> S ]
  BY <1>4
<1> HIDE DEF seq
<1>6. \A i, j \in 1 .. N : seq[i] = seq[j] => i = j
  BY <1>3, <1>4
<1>7. ASSUME NEW x \in S PROVE \E i \in 1 .. N : seq[i] = x
  <2>1. Rank(x) + 1 \in 1 .. N /\ (Rank(x) + 1) - 1 = Rank(x)
    BY <1>2, <1>3
  <2>2. seq[Rank(x) + 1] \in S /\ Rank(seq[Rank(x) + 1]) = Rank(x)
    BY <1>4, <2>1
  <2> QED
    BY <1>2, <2>1, <2>2
<1> QED
  BY <1>1, <1>5, <1>6, <1>7 DEF N

-----------------------------------------------------------------------------
(* What a month is billed for.                                             *)

\* The sum of some amounts, as one of the functions above.
LEMMA AmountSum ==
    ASSUME NEW lines, NEW places, IsFiniteSet(places),
           \A n \in places : lines[n].amountCents \in Nat
    PROVE  /\ [ n \in places |-> lines[n].amountCents ] \in [ places -> Nat ]
           /\ \E g : /\ IsSum(g, places, [ n \in places |-> lines[n].amountCents ])
                    /\ AmountOf(lines, places) = g[places]
<1> DEFINE w == [ n \in places |-> lines[n].amountCents ]
           P(g) == g = [ s \in SUBSET places |->
                         IF s = {} THEN 0 ELSE lines[CHOOSE x \in s : TRUE].amountCents
                                               + g[s \ {CHOOSE x \in s : TRUE}] ]
           iter == CHOOSE g : P(g)
<1>1. AmountOf(lines, places) = iter[places]
  BY DEF AmountOf, MapThenSumSet, MapThenFoldSet
<1>2. w \in [ places -> Nat ]
  OBVIOUS
<1>3. \A g : P(g) <=> IsSum(g, places, w)
  BY ChosenIn DEF Chosen, IsSum
<1>4. \E g : IsSum(g, places, w)
  <2> HIDE DEF w
  <2> QED
    BY <1>2, SumExists
<1>5. P(iter)
  <2> HIDE DEF P
  <2> QED
    BY <1>3, <1>4
<1> HIDE DEF P, iter
<1> QED
  BY <1>1, <1>2, <1>3, <1>5

LEMMA AmountNat ==
    ASSUME NEW lines, NEW places, IsFiniteSet(places),
           \A n \in places : lines[n].amountCents \in Nat
    PROVE  AmountOf(lines, places) \in Nat
<1> DEFINE w == [ n \in places |-> lines[n].amountCents ]
<1>1. w \in [ places -> Nat ] /\ \E g : IsSum(g, places, w) /\ AmountOf(lines, places) = g[places]
  BY AmountSum
<1> HIDE DEF w
<1>2. places \in SUBSET places
  OBVIOUS
<1> QED
  BY <1>1, <1>2, SumNat

\* The tax of some groups, those that are charged.
LEMMA TaxSum ==
    ASSUME NEW groups, IsFiniteSet(groups),
           \A group \in groups : group.vatCents # None => group.vatCents \in Nat
    PROVE  LET charged == { group \in groups : group.vatCents # None }
               w == [ group \in charged |-> group.vatCents ]
           IN /\ IsFiniteSet(charged)
              /\ w \in [ charged -> Nat ]
              /\ \E g : IsSum(g, charged, w) /\ VatSum(groups) = g[charged]
<1> DEFINE charged == { group \in groups : group.vatCents # None }
           w == [ group \in charged |-> group.vatCents ]
           P(g) == g = [ s \in SUBSET charged |->
                         IF s = {} THEN 0 ELSE (CHOOSE x \in s : TRUE).vatCents
                                               + g[s \ {CHOOSE x \in s : TRUE}] ]
           iter == CHOOSE g : P(g)
<1>1. VatSum(groups) = iter[charged]
  BY DEF VatSum, MapThenSumSet, MapThenFoldSet
<1>2. w \in [ charged -> Nat ]
  OBVIOUS
<1>3. IsFiniteSet(charged)
  BY FS_Subset
<1>4. \A g : P(g) <=> IsSum(g, charged, w)
  <2> HIDE DEF charged
  <2> QED
    BY ChosenIn DEF Chosen, IsSum
<1>5. \E g : IsSum(g, charged, w)
  <2> HIDE DEF w, charged
  <2> QED
    BY <1>2, <1>3, SumExists
<1>6. P(iter)
  <2> HIDE DEF P
  <2> QED
    BY <1>4, <1>5
<1> HIDE DEF P, iter
<1> QED
  BY <1>1, <1>2, <1>3, <1>4, <1>6

\* The treatments resolveVat can answer.
Vats == [ kind : {"taxable"}, basisPoints : {850, 2000} ]
        \cup [ kind : {"notCharged"}, reason : {"territoryOutsideVatScope", "reverseChargeEuB2b"} ]

\* The rates in force since 2014 are the only ones.
LEMMA RateSince2014 ==
    ASSUME NEW basisPoints, NEW on
    PROVE  At(Since2014(basisPoints), on) \in {None, basisPoints}
<1> DEFINE entries == Since2014(basisPoints)
           inForce == { n \in DOMAIN entries : Holds(entries[n], on) }
           first   == CHOOSE n \in inForce : \A k \in inForce : ~ Comes(entries, k, n)
<1>1. At(entries, on) = IF inForce = {} THEN None ELSE entries[first].value
  BY DEF At
<1>2. DOMAIN entries = {1} /\ entries[1].value = basisPoints
  BY DEF Since2014
<1>3. ~ Comes(entries, 1, 1)
  <2>1. entries[1].from = [ year |-> 2014, month |-> 1, day |-> 1 ]
    BY DEF Since2014, Date
  <2>2. Digits(entries[1].from) = 20140101
    BY <2>1 DEF Digits
  <2> QED
    BY <2>2 DEF Comes
<1>4. ASSUME inForce # {} PROVE entries[first].value = basisPoints
  <2>1. inForce = {1}
    BY <1>2, <1>4
  <2> HIDE DEF inForce, entries
  <2>2. \E n \in inForce : \A k \in inForce : ~ Comes(entries, k, n)
    BY <1>3, <2>1
  <2>3. first \in inForce
    BY <2>2
  <2> QED
    BY <1>2, <2>1, <2>3
<1> HIDE DEF entries, inForce, first
<1>5. At(entries, on) \in {None, basisPoints}
  BY <1>1, <1>4
<1> QED
  BY <1>5 DEF entries

LEMMA VatResolved ==
    ASSUME NEW client, client.territoriality \in Territorialities, client.vatNumber \in BOOLEAN,
           NEW on, ResolveVat(client, on) # None
    PROVE  ResolveVat(client, on) \in Vats
<1>1. CASE client.territoriality = "overseasOutsideVatScope"
  BY <1>1 DEF ResolveVat, NotCharged, Vats
<1>2. CASE client.territoriality = "europeanUnion" /\ client.vatNumber
  BY <1>2 DEF ResolveVat, NotCharged, Vats
<1>3. CASE /\ client.territoriality # "overseasOutsideVatScope"
           /\ ~ (client.territoriality = "europeanUnion" /\ client.vatNumber)
  <2> DEFINE rate == At(StandardRate[client.territoriality], on)
  <2>1. ResolveVat(client, on) = IF rate = None THEN None ELSE Taxable(rate)
    BY <1>3 DEF ResolveVat
  <2>2. StandardRate[client.territoriality] \in {Since2014(850), Since2014(2000)}
    BY <1>3 DEF StandardRate
  <2>3. rate \in {None, 850, 2000}
    BY <2>2, RateSince2014
  <2> HIDE DEF rate
  <2> QED
    BY <2>1, <2>3 DEF Taxable, Vats
<1> QED
  BY <1>1, <1>2, <1>3

\* A line, worth something, and lines in a row.
IsLine(line) ==
    /\ line = [ mission |-> line.mission, period |-> line.period, quarterDays |-> line.quarterDays,
                tjmCents |-> line.tjmCents, unitPriceCents |-> line.unitPriceCents,
                amountCents |-> line.amountCents, vat |-> line.vat ]
    /\ line.amountCents \in Nat
    /\ line.vat \in Vats

IsLines(lines) ==
    /\ lines = [ n \in DOMAIN lines |-> lines[n] ]
    /\ \E count \in Nat : DOMAIN lines = 1 .. count
    /\ \A n \in DOMAIN lines : IsLine(lines[n])

\* The line of one mission of the event.
LineFor(event, work) ==
    RegieLine(work.mission, event.period, work.quarterDays,
              TjmOf(event, work.mission), VatOf(event, work.mission))

\* The last day of a month of an event is a day of a year after 2015.
LEMMA ClosesLate ==
    ASSUME NEW event \in Events
    PROVE  LastDayOf(event.period) \in CivilDates /\ Digits(LastDayOf(event.period)) > 20160000
<1> DEFINE on == LastDayOf(event.period)
           length == DaysInMonth(event.period.year, event.period.month)
<1>1. event.period.year \in Nat /\ event.period.year >= 2016 /\ event.period.month \in 1 .. 12
  BY EventsAssumption DEF IsPeriod, KnownYears, MovableHolidays
<1>2. length \in 1 .. 31
  BY <1>1 DEF DaysInMonth
<1>3. on = [ year |-> event.period.year, month |-> event.period.month, day |-> length ]
  BY DEF LastDayOf, Date
<1> HIDE DEF on, length
<1>4. on \in CivilDates /\ Digits(on) > 20160000
  BY <1>1, <1>2, <1>3 DEF CivilDates, Digits
<1> QED
  BY <1>4 DEF on

\* The rate found for a mission is that of an entry in force when the month closes.
LEMMA RateInForce ==
    ASSUME NEW event \in Events, IsReference(event), NEW mission \in Missions,
           TjmOf(event, mission) # None
    PROVE  \E n \in DOMAIN RatesOf(event, mission) :
             /\ Holds(RatesOf(event, mission)[n], LastDayOf(event.period))
             /\ RatesOf(event, mission)[n].value = TjmOf(event, mission)
             /\ IsAgreedRate(RatesOf(event, mission)[n].value)
<1> DEFINE entries == RatesOf(event, mission)
           on == LastDayOf(event.period)
           inForce == { n \in DOMAIN entries : Holds(entries[n], on) }
           first   == CHOOSE n \in inForce : \A k \in inForce : ~ Comes(entries, k, n)
<1>1. TjmOf(event, mission) = IF inForce = {} THEN None ELSE entries[first].value
  BY DEF TjmOf, At, ResolvedOn
<1>2. /\ entries \in Seq(Dated) /\ IsTimeline(entries) /\ on \in CivilDates
      /\ \A n \in 1 .. Len(entries) : IsAgreedRate(entries[n].value)
  BY EventsAssumption, ClosesLate DEF IsReference, IsHistory, RatesOf
<1>3. DOMAIN entries = 1 .. Len(entries)
  BY <1>2
<1> HIDE DEF entries, on
<1>4. \A m, n \in inForce : m = n /\ ~ Comes(entries, m, n)
  <2>1. \A m, n \in inForce : m = n
    BY <1>2, NeighboursSuffice
  <2>2. \A m \in inForce : ~ Comes(entries, m, m)
    BY <1>2, EntryFacts DEF Comes
  <2> QED
    BY <2>1, <2>2
<1>5. inForce # {}
  BY <1>1
<1>6. first \in inForce
  BY <1>4, <1>5
<1> HIDE DEF first
<1> QED
  BY <1>1, <1>2, <1>3, <1>5, <1>6 DEF entries, on

\* Work that is not declined is of a known mission with a rate and a known client.
LEMMA WorkIsKnown ==
    ASSUME NEW event, NEW n \in Billed(event)
    PROVE  LET mission == event.worked[n].mission
           IN /\ mission \in Missions /\ TjmOf(event, mission) # None
              /\ Commercial[mission].client \in DOMAIN Clients
<1> DEFINE mission == event.worked[n].mission
           client == Commercial[mission].client
           tjm == TjmOf(event, mission)
<1>1. DeclineReason(event, mission) = None
  BY DEF Billed
<1>2. None \notin {"unknownMission", "notRegie", "noAgreedRate", "unknownClient"}
  BY ReasonAssumption DEF DeclineReasons
<1> HIDE DEF client, tjm
<1> QED
  BY <1>1, <1>2 DEF DeclineReason, client, tjm

\* Work that is billed has a client, a price and a treatment, and makes a line.
LEMMA BilledWork ==
    ASSUME NEW event \in Events, Drafts(event), NEW n \in Billed(event)
    PROVE  LET work == event.worked[n]
           IN /\ work.mission \in Missions
              /\ Commercial[work.mission].client \in DOMAIN Clients
              /\ TjmOf(event, work.mission) # None
              /\ IsTjm(TjmOf(event, work.mission))
              /\ work.quarterDays \in Nat \ {0}
              /\ VatOf(event, work.mission) \in Vats
              /\ IsLine(LineFor(event, work))
<1> DEFINE work == event.worked[n]
           client == Commercial[work.mission].client
           tjm == TjmOf(event, work.mission)
           vat == VatOf(event, work.mission)
<1>1. n \in DOMAIN event.worked
  BY DEF Billed
<1>2. work.mission \in Missions /\ tjm # None /\ client \in DOMAIN Clients
  BY WorkIsKnown
<1>3. IsTjm(tjm) /\ vat # None
  BY DEF Drafts
<1>4. work.quarterDays \in Nat \ {0}
  BY <1>1, EventsAssumption DEF WorkByMission
<1>5. vat \in Vats
  <2> DEFINE on == ResolvedOn(event.period)
  <2>1. vat = ResolveVat(Clients[client], on)
    BY DEF VatOf
  <2>2. Clients[client].territoriality \in Territorialities /\ Clients[client].vatNumber \in BOOLEAN
    BY <1>2, ClientsAssumption
  <2> HIDE DEF on, client, vat
  <2> QED
    BY <1>3, <2>1, <2>2, VatResolved
<1> DEFINE line == LineFor(event, work)
<1>6. IsLine(line)
  <2>1. line = [ mission |-> work.mission, period |-> event.period, quarterDays |-> work.quarterDays,
                 tjmCents |-> tjm, unitPriceCents |-> LineAmountCents(1, tjm),
                 amountCents |-> LineAmountCents(work.quarterDays, tjm), vat |-> vat ]
    BY DEF LineFor, RegieLine
  <2>2. LineAmountCents(work.quarterDays, tjm) \in Nat
    <3>1. tjm \in Nat /\ work.quarterDays \in Nat
      BY <1>3, <1>4 DEF IsTjm
    <3> DEFINE product == work.quarterDays * tjm
    <3>2. product \in Nat
      BY <3>1
    <3>3. LineAmountCents(work.quarterDays, tjm) = product \div 4
      BY DEF LineAmountCents, QuarterDaysPerDay
    <3> HIDE DEF product
    <3> QED
      BY <3>2, <3>3
  <2> HIDE DEF line, tjm, vat, work
  <2> QED
    BY <1>5, <2>1, <2>2 DEF IsLine
<1> QED
  BY <1>2, <1>3, <1>4, <1>5, <1>6

\* The lines of a client are the work it is billed for, each piece on one of them.
LEMMA LinesOfWork ==
    ASSUME NEW event, WorkByMission(event.worked), NEW client
    PROVE  LET lines == LinesFor(event, client)
           IN /\ \E count \in Nat : DOMAIN lines = 1 .. count
              /\ \A k \in DOMAIN lines : \E n \in BilledTo(event, client) :
                   lines[k] = LineFor(event, event.worked[n])
              /\ \A n \in BilledTo(event, client) : \E k \in DOMAIN lines :
                   lines[k] = LineFor(event, event.worked[n])
              /\ \A j, k \in DOMAIN lines : lines[j].mission = lines[k].mission => j = k
<1> DEFINE S == BilledTo(event, client)
           bucket == InOrder(S, LAMBDA n : n)
           lines == LinesFor(event, client)
<1>1. S \in SUBSET DOMAIN event.worked /\ S \in SUBSET Nat /\ IsFiniteSet(S)
  <2>1. S \in SUBSET DOMAIN event.worked
    BY DEF BilledTo, Billed
  <2>2. DOMAIN event.worked = 1 .. Len(event.worked) /\ Len(event.worked) \in Nat
    BY DEF WorkByMission
  <2> HIDE DEF S
  <2>3. IsFiniteSet(1 .. Len(event.worked))
    BY <2>2, FS_Interval
  <2> QED
    BY <2>1, <2>2, <2>3, FS_Subset
<1>2. lines = [ k \in DOMAIN bucket |-> LineFor(event, event.worked[bucket[k]]) ]
  BY DEF LinesFor, LineFor
<1>3. /\ bucket \in [ 1 .. Cardinality(S) -> S ]
      /\ \A j, k \in 1 .. Cardinality(S) : bucket[j] = bucket[k] => j = k
      /\ \A x \in S : \E k \in 1 .. Cardinality(S) : bucket[k] = x
  <2> HIDE DEF S
  <2> QED
    BY <1>1, NumbersInOrder
<1>4. Cardinality(S) \in Nat
  <2> HIDE DEF S
  <2> QED
    BY <1>1, FS_CardinalityType
<1>5. \A m, n \in S : event.worked[m].mission = event.worked[n].mission => m = n
  <2> HIDE DEF S
  <2> QED
    BY <1>1 DEF WorkByMission
<1> HIDE DEF S, bucket, lines
<1>6. DOMAIN lines = 1 .. Cardinality(S)
  BY <1>2, <1>3
<1>7. \A k \in DOMAIN lines : \E n \in S : lines[k] = LineFor(event, event.worked[n])
  BY <1>2, <1>3
<1>8. \A n \in S : \E k \in DOMAIN lines : lines[k] = LineFor(event, event.worked[n])
  BY <1>2, <1>3
<1>9. ASSUME NEW j \in DOMAIN lines, NEW k \in DOMAIN lines, lines[j].mission = lines[k].mission
      PROVE  j = k
  <2>1. /\ j \in 1 .. Cardinality(S) /\ k \in 1 .. Cardinality(S)
        /\ bucket[j] \in S /\ bucket[k] \in S
        /\ lines[j] = LineFor(event, event.worked[bucket[j]])
        /\ lines[k] = LineFor(event, event.worked[bucket[k]])
    BY <1>2, <1>3, <1>9
  <2>2. \A work : LineFor(event, work).mission = work.mission
    BY DEF LineFor, RegieLine
  <2> QED
    BY <1>3, <1>5, <1>9, <2>1, <2>2
<1> QED
  BY <1>4, <1>6, <1>7, <1>8, <1>9 DEF S, lines

\* In an event that can be drafted from, they are lines of an invoice.
LEMMA BilledLines ==
    ASSUME NEW event \in Events, Drafts(event), NEW client
    PROVE  LET lines == LinesFor(event, client)
           IN /\ IsLines(lines)
              /\ \A k \in DOMAIN lines : \E n \in BilledTo(event, client) :
                   lines[k] = LineFor(event, event.worked[n])
              /\ \A n \in BilledTo(event, client) : \E k \in DOMAIN lines :
                   lines[k] = LineFor(event, event.worked[n])
              /\ \A j, k \in DOMAIN lines : lines[j].mission = lines[k].mission => j = k
<1> DEFINE lines == LinesFor(event, client)
<1>1. WorkByMission(event.worked)
  BY EventsAssumption
<1>2. \A n \in BilledTo(event, client) : IsLine(LineFor(event, event.worked[n]))
  BY BilledWork DEF BilledTo
<1>3. IsLines(lines)
  <2>1. \E count \in Nat : DOMAIN lines = 1 .. count
    BY <1>1, LinesOfWork
  <2>2. \A k \in DOMAIN lines : \E n \in BilledTo(event, client) :
          lines[k] = LineFor(event, event.worked[n])
    BY <1>1, LinesOfWork
  <2>3. lines = [ k \in DOMAIN lines |-> lines[k] ]
    BY DEF LinesFor
  <2> HIDE DEF lines
  <2> QED
    BY <1>2, <2>1, <2>2, <2>3 DEF IsLines
<1> QED
  BY <1>1, <1>3, LinesOfWork

-----------------------------------------------------------------------------
(* An invoice and its rows.                                                *)

\* The lines of a document are finitely many, each worth a number of cents.
LEMMA LinesFinite ==
    ASSUME NEW lines, IsLines(lines)
    PROVE  /\ IsFiniteSet(DOMAIN lines)
           /\ \A n \in DOMAIN lines : n \in Nat /\ IsLine(lines[n])
           /\ \A treatment : IsFiniteSet(Under(treatment, lines))
           /\ IsFiniteSet(VatBreakdownOf(lines))
<1>1. PICK count \in Nat : DOMAIN lines = 1 .. count
  BY DEF IsLines
<1>2. IsFiniteSet(DOMAIN lines)
  BY <1>1, FS_Interval
<1>3. \A n \in DOMAIN lines : n \in Nat /\ IsLine(lines[n])
  BY <1>1 DEF IsLines
<1>4. ASSUME NEW treatment PROVE IsFiniteSet(Under(treatment, lines))
  BY <1>2, FS_Subset DEF Under
<1>5. IsFiniteSet(VatBreakdownOf(lines))
  <2> DEFINE g == [ n \in DOMAIN lines |-> VatGroup(lines, lines[n].vat) ]
  <2>1. VatBreakdownOf(lines) = { g[n] : n \in DOMAIN lines }
    BY DEF VatBreakdownOf, Treatments
  <2>2. g \in Surjection(DOMAIN lines, { g[n] : n \in DOMAIN lines })
    BY DEF Surjection
  <2> HIDE DEF g
  <2> QED
    BY <1>2, <2>1, <2>2, FS_Surjection
<1> QED
  BY <1>2, <1>3, <1>4, <1>5

\* What a group says: its base is that of its lines, its tax the rate applied to it, if any.
Says(group, treatment, base) ==
    /\ treatment \in Vats /\ base \in Nat
    /\ group = [ treatment |-> treatment, baseCents |-> base, vatCents |-> group.vatCents ]
    /\ \/ /\ treatment.kind = "taxable" /\ treatment.basisPoints \in Nat
          /\ group.vatCents = ApplyRate(base, treatment.basisPoints) /\ group.vatCents \in Nat
       \/ treatment.kind = "notCharged" /\ group.vatCents = None

LEMMA GroupFacts ==
    ASSUME NEW lines, IsLines(lines), NEW treatment \in Treatments(lines)
    PROVE  Says(VatGroup(lines, treatment), treatment, AmountOf(lines, Under(treatment, lines)))
<1> DEFINE base  == AmountOf(lines, Under(treatment, lines))
           group == VatGroup(lines, treatment)
<1>1. treatment \in Vats
  BY LinesFinite DEF Treatments, IsLine
<1>2. base \in Nat
  <2>1. \A n \in Under(treatment, lines) : lines[n].amountCents \in Nat
    BY LinesFinite DEF Under, IsLine
  <2> QED
    BY <2>1, LinesFinite, AmountNat
<1>3. group = [ treatment |-> treatment, baseCents |-> base,
                vatCents |-> IF treatment.kind = "taxable"
                             THEN ApplyRate(base, treatment.basisPoints) ELSE None ]
  BY DEF VatGroup
<1> HIDE DEF base, group
<1>4. CASE treatment \in [ kind : {"taxable"}, basisPoints : {850, 2000} ]
  <2>1. treatment.kind = "taxable" /\ treatment.basisPoints \in Nat
    BY <1>4
  <2> DEFINE rate == treatment.basisPoints
  <2>2. ApplyRate(base, rate) \in Nat
    <3>1. rate \in Nat
      BY <1>4
    <3> HIDE DEF rate
    <3> QED
      BY <1>2, <3>1, TaxIsCents
  <2>3. group.vatCents = ApplyRate(base, treatment.basisPoints)
    BY <1>3, <2>1
  <2> QED
    BY <1>1, <1>2, <1>3, <2>1, <2>2, <2>3 DEF base, group, Says
<1>5. CASE treatment \in [ kind : {"notCharged"},
                          reason : {"territoryOutsideVatScope", "reverseChargeEuB2b"} ]
  <2>1. treatment.kind = "notCharged"
    BY <1>5
  <2>2. group.vatCents = None
    BY <1>3, <2>1
  <2> QED
    BY <1>1, <1>2, <1>3, <2>1, <2>2 DEF base, group, Says
<1>6. \/ treatment \in [ kind : {"taxable"}, basisPoints : {850, 2000} ]
      \/ treatment \in [ kind : {"notCharged"},
                         reason : {"territoryOutsideVatScope", "reverseChargeEuB2b"} ]
  BY <1>1 DEF Vats
<1> QED
  BY <1>4, <1>5, <1>6

\* A document has totals, which are numbers of cents.
LEMMA TotalsAreAmounts ==
    ASSUME NEW lines, IsLines(lines)
    PROVE  TotalsOf(lines) \in DocumentTotals
<1> DEFINE ht     == LinesAmount(lines)
           groups == VatBreakdownOf(lines)
           vat    == VatSum(groups)
<1>1. ht \in Nat
  <2>1. \A n \in DOMAIN lines : lines[n].amountCents \in Nat
    BY LinesFinite DEF IsLine
  <2> QED
    BY <2>1, LinesFinite, AmountNat DEF LinesAmount
<1>2. vat \in Nat
  <2>1. \A group \in groups : group.vatCents # None => group.vatCents \in Nat
    BY GroupFacts DEF VatBreakdownOf, Says
  <2>2. IsFiniteSet(groups)
    BY LinesFinite
  <2> DEFINE charged == { group \in groups : group.vatCents # None }
             w == [ group \in charged |-> group.vatCents ]
  <2> HIDE DEF groups
  <2>3. /\ IsFiniteSet(charged) /\ w \in [ charged -> Nat ]
        /\ \E g : IsSum(g, charged, w) /\ VatSum(groups) = g[charged]
    BY <2>1, <2>2, TaxSum
  <2> HIDE DEF charged, w
  <2>4. charged \in SUBSET charged
    OBVIOUS
  <2> QED
    BY <2>3, <2>4, SumNat
<1>3. TotalsOf(lines) = [ totalExcludingVatCents |-> ht, vatTotalCents |-> vat,
                          totalIncludingVatCents |-> ht + vat ]
  BY DEF TotalsOf
<1> HIDE DEF ht, vat
<1> QED
  BY <1>1, <1>2, <1>3 DEF DocumentTotals

\* An invoice as it can be: a draft has nothing computed yet, the others have everything.
IsInvoice(invoice) ==
    /\ invoice = [ status |-> invoice.status, supplyPeriod |-> invoice.supplyPeriod,
                   seller |-> invoice.seller, billedTo |-> invoice.billedTo,
                   lines |-> invoice.lines, terms |-> invoice.terms,
                   earlyPayment |-> invoice.earlyPayment, validatedBy |-> invoice.validatedBy,
                   sequence |-> invoice.sequence, series |-> invoice.series,
                   issueDate |-> invoice.issueDate, dueDate |-> invoice.dueDate,
                   totals |-> invoice.totals, vatGroups |-> invoice.vatGroups ]
    /\ IsLines(invoice.lines) /\ IsPaymentTerms(invoice.terms) /\ IsDiscount(invoice.earlyPayment)
    /\ invoice.status = "draft" => invoice.totals = None /\ invoice.vatGroups = None
    /\ invoice.status # "draft" => /\ invoice.totals = TotalsOf(invoice.lines)
                                   /\ invoice.vatGroups = VatBreakdownOf(invoice.lines)

LEMMA VatReadsBack == ASSUME NEW vat \in Vats PROVE VatOfRow(VatColumns(vat)) = vat
<1>1. CASE vat \in [ kind : {"taxable"}, basisPoints : {850, 2000} ]
  BY <1>1 DEF VatOfRow, VatColumns, Taxable
<1>2. CASE vat \in [ kind : {"notCharged"},
                     reason : {"territoryOutsideVatScope", "reverseChargeEuB2b"} ]
  BY <1>2 DEF VatOfRow, VatColumns, NotCharged
<1> QED
  BY <1>1, <1>2 DEF Vats

LEMMA GroupReadsBack ==
    ASSUME NEW group, group.treatment \in Vats, NEW base, NEW tax,
           group = [ treatment |-> group.treatment, baseCents |-> base, vatCents |-> tax ]
    PROVE  GroupOf([ base_cents |-> group.baseCents, tax_cents |-> group.vatCents,
                     vat |-> VatColumns(group.treatment) ]) = group
  BY VatReadsBack DEF GroupOf

LEMMA GroupsReadBack ==
    ASSUME NEW invoice, IsLines(invoice.lines),
           VatBreakdown(invoice) = VatBreakdownOf(invoice.lines)
    PROVE  { GroupOf(row) : row \in GroupRows(invoice) } = VatBreakdownOf(invoice.lines)
<1> DEFINE Row(group) == [ base_cents |-> group.baseCents, tax_cents |-> group.vatCents,
                           vat |-> VatColumns(group.treatment) ]
           groups == VatBreakdownOf(invoice.lines)
<1>1. GroupRows(invoice) = { Row(group) : group \in groups }
  BY DEF GroupRows
<1>2. ASSUME NEW group \in groups PROVE GroupOf(Row(group)) = group
  <2>1. PICK treatment \in Treatments(invoice.lines) : group = VatGroup(invoice.lines, treatment)
    BY DEF VatBreakdownOf
  <2>2. Says(group, treatment, AmountOf(invoice.lines, Under(treatment, invoice.lines)))
    BY <2>1, GroupFacts
  <2>3. /\ group.treatment \in Vats
        /\ group = [ treatment |-> group.treatment, baseCents |-> group.baseCents,
                     vatCents |-> group.vatCents ]
    BY <2>2 DEF Says
  <2> QED
    BY <2>3, GroupReadsBack
<1> HIDE DEF Row, groups
<1>3. { GroupOf(row) : row \in GroupRows(invoice) } = groups
  BY <1>1, <1>2
<1> QED
  BY <1>3 DEF groups

\* The rows of the lines, which carry no order but their own number, read back in that order.
LineRow(lines, n) ==
    [ line_order |-> n - 1, origin_mission_id |-> lines[n].mission,
      origin_period |-> lines[n].period, origin_tjm_cents |-> lines[n].tjmCents,
      quantity_quarter_days |-> lines[n].quarterDays,
      unit_price_cents |-> lines[n].unitPriceCents, amount_cents |-> lines[n].amountCents,
      vat |-> VatColumns(lines[n].vat) ]

LEMMA LineReadsBack ==
    ASSUME NEW lines, NEW n, IsLine(lines[n])
    PROVE  LineOf(LineRow(lines, n)) = lines[n]
<1>1. LineOf(LineRow(lines, n)) =
        [ mission |-> lines[n].mission, period |-> lines[n].period,
          quarterDays |-> lines[n].quarterDays, tjmCents |-> lines[n].tjmCents,
          unitPriceCents |-> lines[n].unitPriceCents, amountCents |-> lines[n].amountCents,
          vat |-> VatOfRow(VatColumns(lines[n].vat)) ]
  BY DEF LineOf, LineRow
<1>2. VatOfRow(VatColumns(lines[n].vat)) = lines[n].vat
  BY VatReadsBack DEF IsLine
<1> QED
  BY <1>1, <1>2 DEF IsLine

LEMMA LinesReadBack ==
    ASSUME NEW invoice, IsLines(invoice.lines)
    PROVE  LET ordered == InOrder(LineRows(invoice), LAMBDA row : row.line_order)
           IN [ n \in DOMAIN ordered |-> LineOf(ordered[n]) ] = invoice.lines
<1> DEFINE lines == invoice.lines
           rows == LineRows(invoice)
           row == [ n \in DOMAIN lines |-> LineRow(lines, n) ]
           ordered == InOrder(rows, LAMBDA r : r.line_order)
<1>1. PICK count \in Nat : DOMAIN lines = 1 .. count
  BY DEF IsLines
<1>2. rows = { row[n] : n \in 1 .. count }
  BY <1>1 DEF LineRows, LineRow
<1>3. \A n \in 1 .. count : row[n].line_order = n - 1
  BY <1>1 DEF LineRow
<1>4. \A n \in 1 .. count : LineOf(row[n]) = lines[n]
  BY <1>1, LinesFinite, LineReadsBack
<1> HIDE DEF rows, row
<1>5. \A i, j \in 1 .. count : row[i] = row[j] => i = j
  BY <1>3
<1>f. ASSUME NEW m \in 0 .. count
      PROVE  Cardinality({ row[n] : n \in 1 .. m }) = m
  <2>1. m \in Nat
    OBVIOUS
  <2>2. \A i, j \in 1 .. m : row[i] = row[j] => i = j
    BY <1>5
  <2>3. /\ IsFiniteSet({ row[n] : n \in 1 .. m })
        /\ Cardinality({ row[n] : n \in 1 .. m }) = m
    BY <2>1, <2>2, FamilySize
  <2> QED
    BY <2>3
<1>6. Cardinality(rows) = count
  <2>1. Cardinality({ row[n] : n \in 1 .. count }) = count
    BY <1>5, FamilySize, ZenonT(30)
  <2> QED
    BY <1>2, <2>1
<1>7. ASSUME NEW n \in 1 .. count
      PROVE  Cardinality({ r \in rows : r.line_order < row[n].line_order }) = n - 1
  <2> DEFINE before == { r \in rows : r.line_order < row[n].line_order }
  <2>1. before = { row[i] : i \in 1 .. n - 1 }
    <3>1. ASSUME NEW r \in before PROVE r \in { row[i] : i \in 1 .. n - 1 }
      <4>1. PICK i \in 1 .. count : r = row[i]
        BY <1>2
      <4>2. i - 1 < n - 1
        BY <1>3, <4>1
      <4> QED
        BY <4>1, <4>2
    <3>2. ASSUME NEW i \in 1 .. n - 1 PROVE row[i] \in before
      BY <1>2, <1>3
    <3> QED
      BY <3>1, <3>2
  <2>2. n - 1 \in Nat /\ \A i, j \in 1 .. n - 1 : row[i] = row[j] => i = j
    BY <1>5
  <2>3. Cardinality({ row[i] : i \in 1 .. n - 1 }) = n - 1
    <3>1. n - 1 \in 0 .. count
      OBVIOUS
    <3> QED
      BY <1>f, <3>1, Zenon
  <2> QED
    BY <2>1, <2>3
<1> DEFINE Rank(x) == Cardinality({ r \in rows : r.line_order < x.line_order })
<1>8. ordered = [ n \in 1 .. count |-> CHOOSE x \in rows : Rank(x) = n - 1 ]
  BY <1>6 DEF InOrder
<1>9. ASSUME NEW n \in 1 .. count PROVE (CHOOSE x \in rows : Rank(x) = n - 1) = row[n]
  <2>1. row[n] \in rows /\ Rank(row[n]) = n - 1
    BY <1>2, <1>7
  <2>2. ASSUME NEW x \in rows, Rank(x) = n - 1 PROVE x = row[n]
    <3>1. PICK i \in 1 .. count : x = row[i]
      BY <1>2
    <3>2. Rank(x) = i - 1
      BY <1>7, <3>1
    <3> QED
      BY <2>2, <3>1, <3>2
  <2> HIDE DEF Rank
  <2> QED
    BY <2>1, <2>2
<1> HIDE DEF Rank, ordered
<1>10. DOMAIN ordered = 1 .. count /\ \A n \in 1 .. count : ordered[n] = row[n]
  BY <1>8, <1>9
<1>11. [ n \in DOMAIN ordered |-> LineOf(ordered[n]) ] = [ n \in 1 .. count |-> lines[n] ]
  BY <1>4, <1>10
<1>12. lines = [ n \in 1 .. count |-> lines[n] ]
  BY <1>1 DEF IsLines
<1> QED
  BY <1>11, <1>12 DEF ordered, rows

\* The three amounts of the totals are three columns, all NULL until the invoice is issued.
LEMMA TotalsReadBack ==
    ASSUME NEW invoice, IsInvoice(invoice), NEW src, NEW key
    PROVE  LET row == InvoiceColumns(invoice, src, key)
           IN (IF None \in {row.total_ht_cents, row.total_tax_cents, row.total_ttc_cents}
               THEN None
               ELSE [ totalExcludingVatCents |-> row.total_ht_cents,
                      vatTotalCents |-> row.total_tax_cents,
                      totalIncludingVatCents |-> row.total_ttc_cents ]) = invoice.totals
<1> DEFINE row == InvoiceColumns(invoice, src, key)
           total(name) == IF KeepsTotals(invoice) THEN Totals(invoice)[name] ELSE None
<1>1. /\ row.total_ht_cents = total("totalExcludingVatCents")
      /\ row.total_tax_cents = total("vatTotalCents")
      /\ row.total_ttc_cents = total("totalIncludingVatCents")
  BY DEF InvoiceColumns
<1> HIDE DEF row
<1>2. CASE invoice.status = "draft"
  <2>1. row.total_ht_cents = None /\ invoice.totals = None
    BY <1>1, <1>2 DEF KeepsTotals, IsInvoice
  <2> QED
    BY <2>1 DEF row
<1>3. CASE invoice.status # "draft"
  <2> DEFINE totals == TotalsOf(invoice.lines)
  <2>1. totals \in [ totalExcludingVatCents : Nat, vatTotalCents : Nat, totalIncludingVatCents : Nat ]
    BY TotalsAreAmounts DEF IsInvoice, DocumentTotals
  <2>2. invoice.totals = totals
    BY <1>3 DEF IsInvoice
  <2>3. Totals(invoice) = totals
    BY <2>2 DEF Totals
  <2> HIDE DEF totals
  <2>4. /\ row.total_ht_cents = totals.totalExcludingVatCents
        /\ row.total_tax_cents = totals.vatTotalCents
        /\ row.total_ttc_cents = totals.totalIncludingVatCents
    BY <1>1, <1>3, <2>3 DEF KeepsTotals
  <2>5. /\ totals.totalExcludingVatCents # None /\ totals.vatTotalCents # None
        /\ totals.totalIncludingVatCents # None
    BY <2>1, NoneAssumption
  <2>6. totals = [ totalExcludingVatCents |-> row.total_ht_cents,
                   vatTotalCents |-> row.total_tax_cents,
                   totalIncludingVatCents |-> row.total_ttc_cents ]
    BY <2>1, <2>4
  <2> QED
    BY <2>2, <2>4, <2>5, <2>6 DEF row
<1> QED
  BY <1>2, <1>3

\* An invoice reads back from its rows as it was written.
LEMMA ReadsBack ==
    ASSUME NEW invoice, IsInvoice(invoice), NEW src, NEW key
    PROVE  Reconstituted([ row    |-> InvoiceColumns(invoice, src, key),
                           lines  |-> LineRows(invoice),
                           groups |-> GroupRows(invoice) ]) = invoice
<1> DEFINE row == InvoiceColumns(invoice, src, key)
           ordered == InOrder(LineRows(invoice), LAMBDA line : line.line_order)
           lines == [ n \in DOMAIN ordered |-> LineOf(ordered[n]) ]
           terms == [ kind |-> row.payment_terms_kind, days |-> row.payment_terms_days ]
           discount == IF /\ row.mentions_early_payment_kind = "rate"
                          /\ row.mentions_early_payment_rate # None
                       THEN [ kind |-> "rate",
                              basisPoints |-> row.mentions_early_payment_rate ]
                       ELSE [ kind |-> "none" ]
           totals == IF None \in {row.total_ht_cents, row.total_tax_cents, row.total_ttc_cents}
                     THEN None
                     ELSE [ totalExcludingVatCents |-> row.total_ht_cents,
                            vatTotalCents |-> row.total_tax_cents,
                            totalIncludingVatCents |-> row.total_ttc_cents ]
           groups == IF row.status = "draft" THEN None
                     ELSE { GroupOf(group) : group \in GroupRows(invoice) }
           stored == [ row |-> row, lines |-> LineRows(invoice), groups |-> GroupRows(invoice) ]
<1>1. Reconstituted(stored) =
        [ status |-> row.status, supplyPeriod |-> row.supply_period,
          seller |-> row.seller, billedTo |-> row.billed_to, lines |-> lines, terms |-> terms,
          earlyPayment |-> discount, validatedBy |-> row.validated_by,
          sequence |-> row.invoice_number, series |-> row.series_fiscal_year,
          issueDate |-> row.issue_date, dueDate |-> row.due_date,
          totals |-> totals, vatGroups |-> groups ]
  BY DEF Reconstituted
<1>2. lines = invoice.lines
  BY LinesReadBack DEF IsInvoice
<1>3. totals = invoice.totals
  BY TotalsReadBack
<1>5. /\ row.status = invoice.status /\ row.supply_period = invoice.supplyPeriod
      /\ row.seller = invoice.seller /\ row.billed_to = invoice.billedTo
      /\ row.payment_terms_kind = invoice.terms.kind /\ row.payment_terms_days = invoice.terms.days
      /\ row.mentions_early_payment_kind = invoice.earlyPayment.kind
      /\ row.mentions_early_payment_rate =
           IF invoice.earlyPayment.kind = "rate" THEN invoice.earlyPayment.basisPoints ELSE None
      /\ row.validated_by = invoice.validatedBy /\ row.invoice_number = invoice.sequence
      /\ row.series_fiscal_year = invoice.series /\ row.issue_date = invoice.issueDate
      /\ row.due_date = invoice.dueDate
  BY DEF InvoiceColumns
<1> HIDE DEF row, ordered, lines
<1>6. terms = invoice.terms
  BY <1>5 DEF IsInvoice, IsPaymentTerms
<1>7. discount = invoice.earlyPayment
  <2>1. CASE invoice.earlyPayment \in [ kind : {"none"} ]
    BY <1>5, <2>1
  <2>2. CASE invoice.earlyPayment \in [ kind : {"rate"}, basisPoints : Nat \ {0} ]
    <3>1. invoice.earlyPayment.kind = "rate" /\ invoice.earlyPayment.basisPoints # None
      BY <2>2, NoneAssumption
    <3> QED
      BY <1>5, <2>2, <3>1
  <2> QED
    BY <2>1, <2>2 DEF IsInvoice, IsDiscount
<1>8. groups = invoice.vatGroups
  <2>1. CASE invoice.status = "draft"
    BY <1>5, <2>1 DEF IsInvoice
  <2>2. CASE invoice.status # "draft"
    <3>1. invoice.vatGroups = VatBreakdownOf(invoice.lines) /\ IsLines(invoice.lines)
      BY <2>2 DEF IsInvoice
    <3>2. VatBreakdown(invoice) = VatBreakdownOf(invoice.lines)
      BY <3>1 DEF VatBreakdown
    <3>3. { GroupOf(group) : group \in GroupRows(invoice) } = VatBreakdownOf(invoice.lines)
      BY <3>1, <3>2, GroupsReadBack
    <3> QED
      BY <1>5, <2>2, <3>1, <3>3
  <2> QED
    BY <2>1, <2>2
<1> HIDE DEF terms, discount, totals, groups, stored
<1>9. Reconstituted(stored) = invoice
  BY <1>1, <1>2, <1>3, <1>5, <1>6, <1>7, <1>8 DEF IsInvoice
<1> QED
  BY <1>9 DEF stored, row

\* Two records are one when they have the same fields and agree on each.
LEMMA SameFields ==
    ASSUME NEW one, NEW two, one = [ field \in DOMAIN one |-> one[field] ],
           two = [ field \in DOMAIN two |-> two[field] ], DOMAIN one = DOMAIN two,
           \A field \in DOMAIN two : one[field] = two[field]
    PROVE  one = two
  OBVIOUS

\* What drafting, issuing and cancelling make of an invoice.
LEMMA DraftIsInvoice ==
    ASSUME NEW event \in Events, Drafts(event), NEW client, NEW seller, NEW billedTo
    PROVE  LET invoice == NewInvoice(event, client, seller, billedTo)
           IN IsInvoice(invoice) /\ invoice.status = "draft"
<1>1. IsLines(LinesFor(event, client))
  BY BilledLines
<1>2. IsPaymentTerms(event.terms) /\ IsDiscount(event.earlyPayment)
  BY EventsAssumption
<1> QED
  BY <1>1, <1>2 DEF NewInvoice, IsInvoice

LEMMA IssuedIs ==
    ASSUME NEW invoice, IsInvoice(invoice), NEW n, NEW date
    PROVE  /\ Issued(invoice, n, date) =
                [ status |-> "issued", supplyPeriod |-> invoice.supplyPeriod,
                  seller |-> invoice.seller, billedTo |-> invoice.billedTo,
                  lines |-> invoice.lines, terms |-> invoice.terms,
                  earlyPayment |-> invoice.earlyPayment, validatedBy |-> invoice.validatedBy,
                  sequence |-> n, series |-> date.year,
                  issueDate |-> date, dueDate |-> DueDate(invoice.terms, date),
                  totals |-> TotalsOf(invoice.lines),
                  vatGroups |-> VatBreakdownOf(invoice.lines) ]
           /\ IsInvoice(Issued(invoice, n, date))
<1> DEFINE issued ==
                [ status |-> "issued", supplyPeriod |-> invoice.supplyPeriod,
                  seller |-> invoice.seller, billedTo |-> invoice.billedTo,
                  lines |-> invoice.lines, terms |-> invoice.terms,
                  earlyPayment |-> invoice.earlyPayment, validatedBy |-> invoice.validatedBy,
                  sequence |-> n, series |-> date.year,
                  issueDate |-> date, dueDate |-> DueDate(invoice.terms, date),
                  totals |-> TotalsOf(invoice.lines),
                  vatGroups |-> VatBreakdownOf(invoice.lines) ]
<1>1. Issued(invoice, n, date) = issued
  <2> DEFINE given == Issued(invoice, n, date)
             fields == { "status", "supplyPeriod", "seller", "billedTo", "lines", "terms",
                         "earlyPayment", "validatedBy", "sequence", "series", "issueDate",
                         "dueDate", "totals", "vatGroups" }
  <2>1. DOMAIN invoice = fields
    BY DEF IsInvoice
  <2>2. given = [ field \in DOMAIN given |-> given[field] ] /\ DOMAIN given = DOMAIN invoice
    BY DEF Issued
  <2>3. issued = [ field \in DOMAIN issued |-> issued[field] ] /\ DOMAIN issued = fields
    OBVIOUS
  <2>4. /\ given.status = issued.status /\ given.supplyPeriod = issued.supplyPeriod
        /\ given.seller = issued.seller /\ given.billedTo = issued.billedTo
        /\ given.lines = issued.lines /\ given.terms = issued.terms
        /\ given.earlyPayment = issued.earlyPayment /\ given.validatedBy = issued.validatedBy
        /\ given.sequence = issued.sequence /\ given.series = issued.series
        /\ given.issueDate = issued.issueDate /\ given.dueDate = issued.dueDate
        /\ given.totals = issued.totals /\ given.vatGroups = issued.vatGroups
    BY <2>1 DEF Issued
  <2> HIDE DEF given, issued
  <2>5. \A field \in fields : given[field] = issued[field]
    BY <2>4
  <2> HIDE DEF fields
  <2> QED
    BY <2>1, <2>2, <2>3, <2>5, SameFields DEF given
<1>2. IsInvoice(issued)
  BY DEF IsInvoice
<1> QED
  BY <1>1, <1>2

LEMMA CancelledIs ==
    ASSUME NEW invoice, IsInvoice(invoice), invoice.status # "draft"
    PROVE  /\ Cancelled(invoice) =
                [ status |-> "cancelledByCreditNote", supplyPeriod |-> invoice.supplyPeriod,
                  seller |-> invoice.seller, billedTo |-> invoice.billedTo,
                  lines |-> invoice.lines, terms |-> invoice.terms,
                  earlyPayment |-> invoice.earlyPayment, validatedBy |-> invoice.validatedBy,
                  sequence |-> invoice.sequence, series |-> invoice.series,
                  issueDate |-> invoice.issueDate, dueDate |-> invoice.dueDate,
                  totals |-> invoice.totals, vatGroups |-> invoice.vatGroups ]
           /\ IsInvoice(Cancelled(invoice))
<1> DEFINE cancelled ==
                [ status |-> "cancelledByCreditNote", supplyPeriod |-> invoice.supplyPeriod,
                  seller |-> invoice.seller, billedTo |-> invoice.billedTo,
                  lines |-> invoice.lines, terms |-> invoice.terms,
                  earlyPayment |-> invoice.earlyPayment, validatedBy |-> invoice.validatedBy,
                  sequence |-> invoice.sequence, series |-> invoice.series,
                  issueDate |-> invoice.issueDate, dueDate |-> invoice.dueDate,
                  totals |-> invoice.totals, vatGroups |-> invoice.vatGroups ]
<1>1. Cancelled(invoice) = cancelled
  BY DEF Cancelled, IsInvoice
<1>2. IsInvoice(cancelled)
  BY DEF IsInvoice
<1> QED
  BY <1>1, <1>2

\* A later save over the rows of a draft leaves the rows the invoice would have been filed in.
LEMMA SavedOver ==
    ASSUME NEW invoice, NEW next, NEW src, NEW kept, NEW key,
           next.supplyPeriod = invoice.supplyPeriod, next.seller = invoice.seller,
           next.billedTo = invoice.billedTo, next.terms = invoice.terms,
           next.earlyPayment = invoice.earlyPayment, next.validatedBy = invoice.validatedBy
    PROVE  Saved([ row    |-> InvoiceColumns(invoice, src, kept),
                   lines  |-> LineRows(invoice),
                   groups |-> GroupRows(invoice) ], next, key)
             = [ row    |-> InvoiceColumns(next, src, Coalesce(key, kept)),
                 lines  |-> LineRows(next),
                 groups |-> GroupRows(next) ]
<1> DEFINE stored == InvoiceColumns(invoice, src, kept)
           given  == InvoiceColumns(next, << >>, key)
           row    == Upserted(stored, given)
           filed  == InvoiceColumns(next, src, Coalesce(key, kept))
           fields == { "status", "supply_period", "seller", "billed_to", "payment_terms_kind",
                       "payment_terms_days", "mentions_early_payment_kind",
                       "mentions_early_payment_rate", "invoice_number", "series_fiscal_year",
                       "issue_date", "due_date", "total_ht_cents", "total_tax_cents",
                       "total_ttc_cents", "validated_by", "source_cra_ids",
                       "issuance_idempotency_key" }
<1>1. row = filed
  <2>1. DOMAIN stored = fields
    BY DEF InvoiceColumns
  <2>2. row = [ field \in DOMAIN row |-> row[field] ] /\ DOMAIN row = DOMAIN stored
    BY DEF Upserted
  <2>3. filed = [ field \in DOMAIN filed |-> filed[field] ] /\ DOMAIN filed = fields
    BY DEF InvoiceColumns
  <2>4. /\ stored.supply_period = filed.supply_period
        /\ stored.seller = filed.seller /\ stored.billed_to = filed.billed_to
        /\ stored.payment_terms_kind = filed.payment_terms_kind
        /\ stored.payment_terms_days = filed.payment_terms_days
        /\ stored.mentions_early_payment_kind = filed.mentions_early_payment_kind
        /\ stored.mentions_early_payment_rate = filed.mentions_early_payment_rate
        /\ stored.validated_by = filed.validated_by
        /\ stored.source_cra_ids = filed.source_cra_ids
        /\ stored.issuance_idempotency_key = kept
    BY DEF InvoiceColumns
  <2>5. /\ given.status = filed.status /\ given.invoice_number = filed.invoice_number
        /\ given.series_fiscal_year = filed.series_fiscal_year
        /\ given.issue_date = filed.issue_date /\ given.due_date = filed.due_date
        /\ given.total_ht_cents = filed.total_ht_cents
        /\ given.total_tax_cents = filed.total_tax_cents
        /\ given.total_ttc_cents = filed.total_ttc_cents
        /\ given.issuance_idempotency_key = key
        /\ filed.issuance_idempotency_key = Coalesce(key, kept)
    BY DEF InvoiceColumns
  <2> HIDE DEF stored, given, filed
  <2>6. /\ row.status = given.status /\ row.invoice_number = given.invoice_number
        /\ row.series_fiscal_year = given.series_fiscal_year
        /\ row.issue_date = given.issue_date /\ row.due_date = given.due_date
        /\ row.total_ht_cents = given.total_ht_cents
        /\ row.total_tax_cents = given.total_tax_cents
        /\ row.total_ttc_cents = given.total_ttc_cents
        /\ row.issuance_idempotency_key
             = Coalesce(given.issuance_idempotency_key, stored.issuance_idempotency_key)
    BY <2>1 DEF Upserted
  <2>7. /\ row.supply_period = stored.supply_period
        /\ row.seller = stored.seller /\ row.billed_to = stored.billed_to
        /\ row.payment_terms_kind = stored.payment_terms_kind
        /\ row.payment_terms_days = stored.payment_terms_days
        /\ row.mentions_early_payment_kind = stored.mentions_early_payment_kind
        /\ row.mentions_early_payment_rate = stored.mentions_early_payment_rate
        /\ row.validated_by = stored.validated_by
        /\ row.source_cra_ids = stored.source_cra_ids
    BY <2>1 DEF Upserted
  <2> HIDE DEF row
  <2>8. \A field \in fields : row[field] = filed[field]
    BY <2>4, <2>5, <2>6, <2>7
  <2> HIDE DEF fields
  <2> QED
    BY <2>1, <2>2, <2>3, <2>8, SameFields
<1> QED
  BY <1>1 DEF Saved

-----------------------------------------------------------------------------
(* The inductive invariant of Documents.                                   *)

\* What an invoice keeps of the draft it was.
Keeps(invoice, draft) ==
    /\ invoice.supplyPeriod = draft.supplyPeriod /\ invoice.seller = draft.seller
    /\ invoice.billedTo = draft.billedTo /\ invoice.terms = draft.terms
    /\ invoice.earlyPayment = draft.earlyPayment /\ invoice.validatedBy = draft.validatedBy
    /\ invoice.lines = draft.lines

\* An invoice that left, numbered n on a date.
Gone(invoice, draft, n, date) ==
    /\ IsInvoice(invoice) /\ Keeps(invoice, draft)
    /\ invoice.sequence = n /\ invoice.series = date.year /\ invoice.issueDate = date
    /\ invoice.totals = TotalsOf(draft.lines) /\ invoice.vatGroups = VatBreakdownOf(draft.lines)

LEMMA GoneFacts ==
    ASSUME NEW draft, IsInvoice(draft), NEW n, NEW date
    PROVE  LET issued == Issued(draft, n, date)
           IN /\ Gone(issued, draft, n, date) /\ issued.status = "issued"
              /\ Gone(Cancelled(issued), draft, n, date)
              /\ Cancelled(issued).status = "cancelledByCreditNote"
<1> DEFINE issued == Issued(draft, n, date)
<1>1. IsInvoice(issued) /\ Gone(issued, draft, n, date) /\ issued.status = "issued"
  BY IssuedIs DEF Gone, Keeps
<1> HIDE DEF issued
<1>2. Gone(Cancelled(issued), draft, n, date) /\ Cancelled(issued).status = "cancelledByCreditNote"
  BY <1>1, CancelledIs DEF Gone, Keeps
<1> QED
  BY <1>1, <1>2 DEF issued

\* The years the documents are dated in are numbers, and so no year is NULL.
LEMMA YearsAreNumbers == \A year \in FiscalYears : year \in Nat /\ year # None
  BY OpeningsAssumption, NoneAssumption DEF FiscalYears, CivilDates

\* While there are invoices there is the month they were drafted from.
LEMMA DraftedFrom ==
    ASSUME DocInv, NEW client \in Drafted
    PROVE  /\ cra \in Events /\ outcome = "drafted" /\ Drafts(cra)
           /\ client \in ClientsBilled(cra)
           /\ IsInvoice(AsDrafted(client)) /\ AsDrafted(client).status = "draft"
           /\ AsDrafted(client).series = None
<1>1. outcome = "drafted" /\ client \in ClientsBilled(cra)
  BY DEF DocInv
<1>2. cra \in Events /\ Drafts(cra)
  BY <1>1 DEF DocInv
<1>3. IsInvoice(AsDrafted(client)) /\ AsDrafted(client).status = "draft"
  BY <1>2, DraftIsInvoice DEF AsDrafted
<1>4. AsDrafted(client).series = None
  BY DEF AsDrafted, NewInvoice
<1> QED
  BY <1>1, <1>2, <1>3, <1>4

\* What is read back of an invoice is what was last written of it: the draft, the draft as it
\* was issued, or that one cancelled.
LEMMA DocumentIs ==
    ASSUME DocInv, NEW client \in Drafted
    PROVE  LET invoice == written[client].invoice
               draft   == AsDrafted(client)
           IN /\ Document(client) = invoice /\ IsInvoice(invoice)
              /\ \/ /\ written[client] = [ invoice |-> draft, key |-> None ]
                    /\ invoice = draft /\ invoice.status = "draft" /\ invoice.series = None
                 \/ \E date \in Openings : \E n \in 1 .. lastSequence[date.year] :
                      /\ NotAfter(date, today) /\ Gone(invoice, draft, n, date)
                      /\ Left(client, n, date)
                      /\ \/ invoice = Issued(draft, n, date) /\ invoice.status = "issued"
                         \/ /\ invoice = Cancelled(Issued(draft, n, date))
                            /\ invoice.status = "cancelledByCreditNote"
                      /\ written[client] = [ invoice |-> invoice, key |-> client ]
<1> DEFINE invoice == written[client].invoice
           draft   == AsDrafted(client)
<1>1. IsInvoice(draft) /\ draft.status = "draft" /\ draft.series = None
  BY DraftedFrom
<1>2. invoices[client] = Filed(written[client]) /\ Stands(client)
  BY DEF DocInv
<1>3. ASSUME IsInvoice(invoice) PROVE Document(client) = invoice
  BY <1>2, <1>3, ReadsBack DEF Document, Filed
<1> HIDE DEF draft
<1>4. CASE written[client] = [ invoice |-> draft, key |-> None ]
  <2>1. invoice = draft
    BY <1>4
  <2> HIDE DEF invoice
  <2>2. Document(client) = invoice /\ IsInvoice(invoice)
    BY <1>1, <1>3, <2>1
  <2> QED
    BY <1>1, <1>4, <2>1, <2>2 DEF invoice, draft
<1>5. ASSUME NEW date \in Openings, NEW n \in 1 .. lastSequence[date.year],
             NotAfter(date, today), Left(client, n, date)
      PROVE  /\ Document(client) = invoice /\ IsInvoice(invoice)
             /\ Gone(invoice, draft, n, date)
             /\ \/ invoice = Issued(draft, n, date) /\ invoice.status = "issued"
                \/ /\ invoice = Cancelled(Issued(draft, n, date))
                   /\ invoice.status = "cancelledByCreditNote"
             /\ written[client] = [ invoice |-> invoice, key |-> client ]
  <2> DEFINE issued == Issued(draft, n, date)
  <2>1. \/ written[client] = [ invoice |-> issued, key |-> client ]
        \/ written[client] = [ invoice |-> Cancelled(issued), key |-> client ]
    BY <1>5 DEF Left, draft
  <2>2. /\ Gone(issued, draft, n, date) /\ issued.status = "issued"
        /\ Gone(Cancelled(issued), draft, n, date)
        /\ Cancelled(issued).status = "cancelledByCreditNote"
    BY <1>1, GoneFacts
  <2> HIDE DEF issued
  <2>3. /\ invoice = issued \/ invoice = Cancelled(issued)
        /\ written[client] = [ invoice |-> invoice, key |-> client ]
    BY <2>1
  <2> HIDE DEF invoice
  <2>4. Gone(invoice, draft, n, date) /\ IsInvoice(invoice)
    BY <2>2, <2>3 DEF Gone
  <2> QED
    BY <1>3, <2>2, <2>3, <2>4 DEF issued
<1>6. CASE \E date \in Openings : \E n \in 1 .. lastSequence[date.year] :
             NotAfter(date, today) /\ Left(client, n, date)
  <2> HIDE DEF invoice
  <2> QED
    BY <1>5, <1>6 DEF draft, invoice
<1> QED
  BY <1>2, <1>4, <1>6 DEF Stands, draft

LEMMA StillNotAfter ==
    ASSUME DocInv, NEW date \in Openings, NotAfter(date, today),
           today' \in CivilDates, NotAfter(today, today')
    PROVE  NotAfter(date, today)'
<1>1. Digits(date) \in Nat /\ Digits(today) \in Nat /\ Digits(today') \in Nat
  BY OpeningsAssumption, DigitsAreNumbers DEF DocInv
<1> QED
  BY <1>1 DEF NotAfter, Digits

\* Nothing happens to the documents.
LEMMA BooksRest ==
    ASSUME DocInv, UNCHANGED << cra, outcome, declined, invoices, written, notes, lastSequence >>,
           today' \in CivilDates, NotAfter(today, today'), cra = None => reference' = 1
    PROVE  DocInv'
<1>1. today' \in CivilDates /\ (lastSequence \in [ FiscalYears -> 0 .. MaxSequence ])'
  BY DEF DocInv
<1>2. (\/ cra = None /\ outcome = "none" /\ reference = 1
       \/ cra \in Events /\ outcome = "drafted" /\ Drafts(cra)
       \/ cra \in Events /\ outcome = "refused" /\ ~ Drafts(cra))'
  <2>1. \/ cra = None /\ outcome = "none"
        \/ cra \in Events /\ outcome = "drafted" /\ Drafts(cra)
        \/ cra \in Events /\ outcome = "refused" /\ ~ Drafts(cra)
    BY DEF DocInv
  <2>2. Drafts(cra)' <=> Drafts(cra)
    OBVIOUS
  <2> QED
    BY <2>1, <2>2
<1>3. Drafted' = Drafted
  BY DEF Drafted
<1>4. /\ (Drafted = IF outcome = "drafted" THEN ClientsBilled(cra) ELSE {})'
      /\ (declined = IF outcome = "drafted" THEN DeclinedOf(cra) ELSE {})'
      /\ (DOMAIN written = Drafted)'
  BY <1>3 DEF DocInv
<1>5. ASSUME NEW client \in Drafted PROVE (invoices[client] = Filed(written[client]))'
  BY DEF DocInv, Filed
<1>6. ASSUME NEW client \in Drafted PROVE Stands(client)'
  <2>1. Stands(client)
    BY DEF DocInv
  <2>2. AsDrafted(client)' = AsDrafted(client)
    BY DEF AsDrafted
  <2>3. ASSUME NEW date \in Openings, NEW n, Left(client, n, date) PROVE Left(client, n, date)'
    BY <2>2, <2>3 DEF Left
  <2> QED
    BY <2>1, <2>2, <2>3, StillNotAfter DEF Stands
<1>7. (DOMAIN notes = { client \in Drafted :
                          written[client].invoice.status = "cancelledByCreditNote" })'
  BY <1>3 DEF DocInv
<1>8. ASSUME NEW client \in DOMAIN notes PROVE TakenBack(client)'
  <2>1. TakenBack(client) /\ AsDrafted(client)' = AsDrafted(client)
    BY DEF DocInv, AsDrafted
  <2> QED
    BY <2>1 DEF TakenBack
<1>9. ASSUME NEW year PROVE Numbered(year)' = Numbered(year)
  BY DEF Numbered, Drafted, Document
<1>10. ASSUME NEW d PROVE NumberOf(d)' = NumberOf(d)
  BY DEF NumberOf, Document
<1>11. (\A year \in FiscalYears : IsFiniteSet(Numbered(year)))'
  BY <1>9 DEF DocInv
<1>12. OneSeries'
  BY <1>9, <1>10 DEF DocInv, OneSeries
<1> QED
  BY <1>1, <1>2, <1>3, <1>4, <1>5, <1>6, <1>7, <1>8, <1>11, <1>12 DEF DocInv

\* A day later, the texts of the dates grow.
LEMMA DaysGoOn ==
    ASSUME NEW date \in CivilDates
    PROVE  Tomorrow(date) \in CivilDates /\ NotAfter(date, Tomorrow(date))
<1>1. /\ date = [ year |-> date.year, month |-> date.month, day |-> date.day ]
      /\ date.year \in Nat /\ date.month \in 1 .. 12 /\ date.day \in 1 .. 31
  BY DEF CivilDates
<1> DEFINE m == date.month
<1>2. LengthOfMonth(date) \in 28 .. 31
  <2> DEFINE b == (m + m \div 8) % 2
  <2>1. b \in 0 .. 1
    BY <1>1
  <2>2. LengthOfMonth(date) \in {28, 29, 30 + b}
    BY DEF LengthOfMonth
  <2> HIDE DEF b
  <2> QED
    BY <2>1, <2>2
<1>3. CASE date.day < LengthOfMonth(date)
  <2>1. Tomorrow(date) = [ year |-> date.year, month |-> date.month, day |-> date.day + 1 ]
    BY <1>1, <1>3 DEF Tomorrow
  <2>2. date.day + 1 \in 1 .. 31
    BY <1>1, <1>2, <1>3
  <2> QED
    BY <1>1, <2>1, <2>2 DEF CivilDates, NotAfter, Digits
<1>4. CASE ~ (date.day < LengthOfMonth(date)) /\ m < 12
  <2>1. Tomorrow(date) = [ year |-> date.year, month |-> date.month + 1, day |-> 1 ]
    BY <1>4 DEF Tomorrow, Date
  <2> QED
    BY <1>1, <1>4, <2>1 DEF CivilDates, NotAfter, Digits
<1>5. CASE ~ (date.day < LengthOfMonth(date)) /\ ~ (m < 12)
  <2>1. Tomorrow(date) = [ year |-> date.year + 1, month |-> 1, day |-> 1 ]
    BY <1>5 DEF Tomorrow, Date
  <2> QED
    BY <1>1, <1>5, <2>1 DEF CivilDates, NotAfter, Digits
<1> QED
  BY <1>3, <1>4, <1>5

LEMMA MidnightKeeps == ASSUME DocInv, Midnight PROVE DocInv'
<1>1. today \in CivilDates /\ (cra = None => reference = 1)
  BY NoneAssumption DEF DocInv
<1>2. today' \in CivilDates /\ NotAfter(today, today')
  BY <1>1, DaysGoOn DEF Midnight
<1> QED
  BY <1>1, <1>2, BooksRest DEF Midnight, documents

LEMMA AmendReferenceKeeps == ASSUME DocInv, AmendReference PROVE DocInv'
<1>1. today \in CivilDates
  BY DEF DocInv
<1>2. NotAfter(today, today)
  BY <1>1, DigitsAreNumbers DEF NotAfter
<1> QED
  BY <1>1, <1>2, BooksRest DEF AmendReference, calendar

LEMMA StutterKeeps == ASSUME DocInv, UNCHANGED dvars PROVE DocInv'
<1>1. today \in CivilDates /\ (cra = None => reference = 1)
  BY NoneAssumption DEF DocInv
<1>2. NotAfter(today, today)
  BY <1>1, DigitsAreNumbers DEF NotAfter
<1> QED
  BY <1>1, <1>2, BooksRest DEF dvars, calendar, documents

\* Nothing is numbered while nothing is drafted or only drafted.
LEMMA NothingNumbered ==
    ASSUME DocInv, Drafted = {}
    PROVE  DOMAIN notes = {} /\ \A year \in FiscalYears : Numbered(year) = {}
<1>1. DOMAIN notes = {}
  BY DEF DocInv
<1> QED
  BY <1>1 DEF Numbered

LEMMA InitGood == DInit => DocInv
<1> SUFFICES ASSUME DInit PROVE DocInv
  OBVIOUS
<1>1. today \in CivilDates
  BY WindowsAssumption DEF DInit
<1>2. lastSequence \in [ FiscalYears -> 0 .. MaxSequence ]
  BY SequenceAssumption DEF DInit
<1>3. /\ cra = None /\ outcome = "none" /\ reference = 1
      /\ Drafted = {} /\ DOMAIN written = {} /\ DOMAIN notes = {} /\ declined = {}
  BY DEF DInit, Drafted
<1>4. \A year \in FiscalYears : Numbered(year) = {}
  BY <1>3 DEF Numbered
<1>5. \A year \in FiscalYears : lastSequence[year] = 0
  BY DEF DInit
<1>6. OneSeries
  BY <1>4, <1>5, FS_EmptySet DEF OneSeries
<1> QED
  BY <1>1, <1>2, <1>3, <1>4, <1>6, FS_EmptySet DEF DocInv

\* The month the event comes for is the first.
LEMMA NotYet ==
    ASSUME DocInv, cra = None
    PROVE  /\ outcome = "none" /\ reference = 1 /\ Drafted = {} /\ DOMAIN notes = {}
           /\ declined = {} /\ \A year \in FiscalYears : Numbered(year) = {}
<1>1. outcome = "none" /\ reference = 1
  BY NoneAssumption DEF DocInv
<1>2. Drafted = {} /\ declined = {}
  BY <1>1 DEF DocInv
<1> QED
  BY <1>1, <1>2, NothingNumbered

\* A series no number of which is taken says so before and after.
LEMMA NoneTaken ==
    ASSUME DocInv, \A year \in FiscalYears : Numbered(year) = {} /\ Numbered(year)' = {},
           UNCHANGED lastSequence
    PROVE  /\ (\A year \in FiscalYears : IsFiniteSet(Numbered(year)))'
           /\ OneSeries'
<1>1. ASSUME NEW year \in FiscalYears PROVE lastSequence[year] = 0
  <2>1. Cardinality(Numbered(year)) = lastSequence[year] /\ Numbered(year) = {}
    BY DEF DocInv, OneSeries
  <2> QED
    BY <2>1, FS_EmptySet
<1>2. ASSUME NEW year \in FiscalYears
      PROVE  /\ IsFiniteSet(Numbered(year)')
             /\ { NumberOf(d)' : d \in Numbered(year)' } = 1 .. lastSequence'[year]
             /\ Cardinality(Numbered(year)') = lastSequence'[year]
  BY <1>1, FS_EmptySet
<1> QED
  BY <1>2 DEF OneSeries

LEMMA RefuseDraftKeeps == ASSUME DocInv, NEW event \in Events, RefuseDraft(event) PROVE DocInv'
<1>1. /\ cra = None /\ cra' = event /\ outcome' = "refused" /\ ~ Drafts(event)
      /\ UNCHANGED << calendar, notes, lastSequence, declined, invoices, written >>
  BY DEF RefuseDraft, Validated
<1>2. /\ Drafted = {} /\ DOMAIN notes = {} /\ declined = {} /\ DOMAIN written = {}
      /\ \A year \in FiscalYears : Numbered(year) = {}
  BY <1>1, NotYet DEF DocInv
<1>3. today' \in CivilDates /\ lastSequence' \in [ FiscalYears -> 0 .. MaxSequence ]
  BY <1>1 DEF DocInv, calendar
<1>4. /\ Drafted' = {} /\ DOMAIN notes' = {} /\ DOMAIN written' = {} /\ declined' = {}
  BY <1>1, <1>2 DEF Drafted
<1>5. \A year \in FiscalYears : Numbered(year)' = {}
  BY <1>4 DEF Numbered
<1>6. OneSeries' /\ (\A year \in FiscalYears : IsFiniteSet(Numbered(year)))'
  BY <1>1, <1>2, <1>5, NoneTaken
<1> QED
  BY <1>1, <1>3, <1>4, <1>6 DEF DocInv

LEMMA DraftInvoicesKeeps == ASSUME DocInv, NEW event \in Events, DraftInvoices(event) PROVE DocInv'
<1>1. /\ cra = None /\ cra' = event /\ outcome' = "drafted" /\ Drafts(event)
      /\ declined' = DeclinedOf(event)
      /\ UNCHANGED << calendar, reference, notes, lastSequence >>
  BY DEF DraftInvoices, Validated
<1>2. /\ reference = 1 /\ DOMAIN notes = {} /\ \A year \in FiscalYears : Numbered(year) = {}
  BY <1>1, NotYet
<1>3. today' \in CivilDates /\ lastSequence' \in [ FiscalYears -> 0 .. MaxSequence ]
  BY <1>1 DEF DocInv, calendar
<1> DEFINE draft(client) == NewInvoice(event, client, 1, << client, 1 >>)
<1>4. /\ Drafted' = ClientsBilled(event) /\ DOMAIN written' = ClientsBilled(event)
      /\ \A client \in ClientsBilled(event) :
           /\ written'[client] = [ invoice |-> draft(client), key |-> None ]
           /\ invoices'[client] = SavedDraft(draft(client), << event.period >>)
  BY <1>2 DEF DraftInvoices, DraftFor, BilledParty, Drafted
<1>5. ASSUME NEW client \in ClientsBilled(event)
      PROVE  /\ IsInvoice(draft(client)) /\ draft(client).status = "draft"
             /\ draft(client).series = None
             /\ AsDrafted(client)' = draft(client)
  <2>1. IsInvoice(draft(client)) /\ draft(client).status = "draft"
    BY <1>1, DraftIsInvoice
  <2>2. draft(client).series = None
    BY DEF NewInvoice
  <2>3. AsDrafted(client)' = draft(client)
    BY <1>1 DEF AsDrafted
  <2> QED
    BY <2>1, <2>2, <2>3
<1> HIDE DEF draft
<1>6. ASSUME NEW client \in Drafted'
      PROVE  /\ (invoices[client] = Filed(written[client]))' /\ Stands(client)'
             /\ written'[client].invoice.status = "draft" /\ Document(client)'.series = None
  <2>1. /\ written'[client] = [ invoice |-> draft(client), key |-> None ]
        /\ invoices'[client] = SavedDraft(draft(client), << event.period >>)
    BY <1>4
  <2>2. /\ IsInvoice(draft(client)) /\ draft(client).status = "draft"
        /\ draft(client).series = None /\ AsDrafted(client)' = draft(client)
    BY <1>4, <1>5
  <2>3. (invoices[client] = Filed(written[client]))'
    BY <1>1, <2>1 DEF Filed, SavedDraft
  <2>4. Stands(client)'
    BY <2>1, <2>2 DEF Stands
  <2>5. Document(client)' = draft(client)
    BY <2>1, <2>2, ReadsBack DEF Document, SavedDraft
  <2> QED
    BY <2>1, <2>2, <2>3, <2>4, <2>5
<1>7. \A year \in FiscalYears : Numbered(year)' = {}
  BY <1>1, <1>2, <1>6, YearsAreNumbers DEF Numbered
<1>8. OneSeries' /\ (\A year \in FiscalYears : IsFiniteSet(Numbered(year)))'
  BY <1>1, <1>2, <1>7, NoneTaken
<1>9. (DOMAIN notes = { client \in Drafted :
                          written[client].invoice.status = "cancelledByCreditNote" })'
  BY <1>1, <1>2, <1>6
<1>10. \A client \in DOMAIN notes' : FALSE
  BY <1>1, <1>2
<1> QED
  BY <1>1, <1>3, <1>4, <1>6, <1>8, <1>9, <1>10 DEF DocInv

\* One save changes one invoice, and leaves its rows as one save of it would have.
LEMMA SaveKeepsRows ==
    ASSUME DocInv, NEW client \in Drafted, NEW next, NEW key, Save(client, next, key),
           Keeps(next, written[client].invoice), IsInvoice(next), cra' = cra
    PROVE  /\ Drafted' = Drafted /\ DOMAIN written' = Drafted
           /\ \A c \in Drafted : (invoices[c] = Filed(written[c]))'
           /\ written'[client] = [ invoice |-> next, key |-> Coalesce(key, written[client].key) ]
           /\ Document(client)' = next
           /\ \A c \in Drafted \ {client} :
                written'[c] = written[c] /\ Document(c)' = Document(c)
<1>1. /\ DOMAIN written = Drafted /\ DOMAIN invoices = Drafted
      /\ \A c \in Drafted : invoices[c] = Filed(written[c])
  BY DEF DocInv, Drafted
<1>2. /\ DOMAIN invoices' = Drafted /\ DOMAIN written' = Drafted
      /\ invoices'[client] = Saved(invoices[client], next, key)
      /\ written'[client] = [ invoice |-> next, key |-> Coalesce(key, written[client].key) ]
      /\ \A c \in Drafted \ {client} : invoices'[c] = invoices[c] /\ written'[c] = written[c]
  BY <1>1 DEF Save
<1>3. Drafted' = Drafted
  BY <1>2 DEF Drafted
<1> DEFINE kept == written[client].key
           src == << cra.period >>
           rows == [ row    |-> InvoiceColumns(next, src, Coalesce(key, kept)),
                     lines  |-> LineRows(next),
                     groups |-> GroupRows(next) ]
<1>4. invoices'[client] = rows
  <2> DEFINE invoice == written[client].invoice
  <2>1. invoices[client] = [ row    |-> InvoiceColumns(invoice, src, kept),
                             lines  |-> LineRows(invoice),
                             groups |-> GroupRows(invoice) ]
    BY <1>1 DEF Filed
  <2>2. Keeps(next, invoice)
    OBVIOUS
  <2> HIDE DEF invoice, src, kept
  <2>3. Saved([ row    |-> InvoiceColumns(invoice, src, kept),
                lines  |-> LineRows(invoice),
                groups |-> GroupRows(invoice) ], next, key) = rows
    BY <2>2, SavedOver DEF Keeps
  <2> QED
    BY <1>2, <2>1, <2>3
<1>5. (invoices[client] = Filed(written[client]))'
  BY <1>2, <1>4 DEF Filed
<1>6. Document(client)' = next
  <2> HIDE DEF src, kept
  <2> QED
    BY <1>4, ReadsBack DEF Document
<1>7. ASSUME NEW c \in Drafted \ {client}
      PROVE  Document(c)' = Document(c) /\ (invoices[c] = Filed(written[c]))'
  BY <1>1, <1>2 DEF Document, Filed
<1> QED
  BY <1>2, <1>3, <1>5, <1>6, <1>7

\* The number a document takes is the one after the last, and nobody else's.
LEMMA OneMore ==
    ASSUME DocInv, NEW year \in FiscalYears, TakeNumber(year), NEW taken,
           taken \notin Numbered(year), NumberOf(taken)' = NextSequence(year),
           \A y \in FiscalYears : \A d \in Numbered(y) : NumberOf(d)' = NumberOf(d),
           Numbered(year)' = Numbered(year) \cup {taken},
           \A y \in FiscalYears \ {year} : Numbered(y)' = Numbered(y)
    PROVE  /\ (\A y \in FiscalYears : IsFiniteSet(Numbered(y)))'
           /\ OneSeries'
<1>1. /\ \A y \in FiscalYears : /\ IsFiniteSet(Numbered(y))
                                /\ { NumberOf(d) : d \in Numbered(y) } = 1 .. lastSequence[y]
                                /\ Cardinality(Numbered(y)) = lastSequence[y]
                                /\ lastSequence[y] \in Nat
      /\ lastSequence'[year] = lastSequence[year] + 1 /\ NextSequence(year) = lastSequence[year] + 1
      /\ \A y \in FiscalYears \ {year} : lastSequence'[y] = lastSequence[y]
  BY DEF DocInv, OneSeries, TakeNumber, NextSequence
<1>2. ASSUME NEW y \in FiscalYears \ {year}
      PROVE  /\ IsFiniteSet(Numbered(y)')
             /\ { NumberOf(d)' : d \in Numbered(y)' } = 1 .. lastSequence'[y]
             /\ Cardinality(Numbered(y)') = lastSequence'[y]
  <2>1. { NumberOf(d)' : d \in Numbered(y)' } = { NumberOf(d) : d \in Numbered(y) }
    OBVIOUS
  <2> QED
    BY <1>1, <2>1
<1>3. /\ IsFiniteSet(Numbered(year)')
      /\ Cardinality(Numbered(year)') = lastSequence'[year]
  <2>1. /\ IsFiniteSet(Numbered(year) \cup {taken})
        /\ Cardinality(Numbered(year) \cup {taken}) = Cardinality(Numbered(year)) + 1
    BY <1>1, FS_AddElement
  <2> QED
    BY <1>1, <2>1
<1>4. { NumberOf(d)' : d \in Numbered(year)' } = 1 .. lastSequence'[year]
  <2> DEFINE old == { NumberOf(d) : d \in Numbered(year) }
             new == { NumberOf(d)' : d \in Numbered(year)' }
             last == lastSequence[year]
  <2>1. new = old \cup {NextSequence(year)}
    <3>1. ASSUME NEW x \in new PROVE x \in old \cup {NextSequence(year)}
      OBVIOUS
    <3>2. ASSUME NEW x \in old PROVE x \in new
      OBVIOUS
    <3>3. NextSequence(year) \in new
      OBVIOUS
    <3> QED
      BY <3>1, <3>2, <3>3
  <2>2. old = 1 .. last /\ NextSequence(year) = last + 1 /\ lastSequence'[year] = last + 1
        /\ last \in Nat
    BY <1>1
  <2> HIDE DEF old, new, last
  <2>3. (1 .. last) \cup {last + 1} = 1 .. last + 1
    BY <2>2
  <2>4. new = 1 .. lastSequence'[year]
    BY <2>1, <2>2, <2>3
  <2> QED
    BY <2>4 DEF new
<1> QED
  BY <1>2, <1>3, <1>4 DEF OneSeries

\* Taking a number leaves what stood on smaller ones standing.
LEMMA SeriesGoesOn ==
    ASSUME DocInv, today \in Openings, TakeNumber(today.year),
           NextSequence(today.year) <= MaxSequence
    PROVE  /\ today.year \in FiscalYears
           /\ lastSequence' \in [ FiscalYears -> 0 .. MaxSequence ]
           /\ NextSequence(today.year) \in 1 .. lastSequence'[today.year]
           /\ \A date \in Openings : \A n \in 1 .. lastSequence[date.year] :
                n \in 1 .. lastSequence'[date.year]
<1> DEFINE year == today.year
<1>1. /\ year \in FiscalYears /\ \A date \in Openings : date.year \in FiscalYears
      /\ lastSequence \in [ FiscalYears -> 0 .. MaxSequence ] /\ MaxSequence \in Nat
  BY SequenceAssumption DEF FiscalYears, DocInv
<1> HIDE DEF year
<1>2. /\ lastSequence'[year] = lastSequence[year] + 1 /\ DOMAIN lastSequence' = FiscalYears
      /\ \A y \in FiscalYears \ {year} : lastSequence'[y] = lastSequence[y]
      /\ NextSequence(year) = lastSequence[year] + 1
      /\ lastSequence' = [ lastSequence EXCEPT ![year] = NextSequence(year) ]
  BY <1>1 DEF TakeNumber, NextSequence, year
<1>3. NextSequence(year) \in 1 .. MaxSequence
  BY <1>1, <1>2 DEF year
<1>4. lastSequence' \in [ FiscalYears -> 0 .. MaxSequence ]
  BY <1>1, <1>2, <1>3
<1>5. NextSequence(year) \in 1 .. lastSequence'[year]
  BY <1>1, <1>2
<1>6. ASSUME NEW date \in Openings, NEW n \in 1 .. lastSequence[date.year]
      PROVE  n \in 1 .. lastSequence'[date.year]
  <2> DEFINE y == date.year
  <2>1. y \in FiscalYears /\ lastSequence[y] \in Nat /\ n \in 1 .. lastSequence[y]
    BY <1>1
  <2> HIDE DEF y
  <2>2. lastSequence'[y] = lastSequence[y] \/ lastSequence'[y] = lastSequence[y] + 1
    BY <1>2, <2>1
  <2>3. n \in 1 .. lastSequence'[y]
    BY <2>1, <2>2
  <2> QED
    BY <2>3 DEF y
<1> QED
  BY <1>1, <1>4, <1>5, <1>6 DEF year

LEMMA OthersStand ==
    ASSUME DocInv, today \in Openings, TakeNumber(today.year),
           NextSequence(today.year) <= MaxSequence, UNCHANGED << cra, today >>,
           NEW client \in Drafted, written'[client] = written[client]
    PROVE  Stands(client)'
<1>1. Stands(client)
  BY DEF DocInv
<1>2. AsDrafted(client)' = AsDrafted(client)
  BY DEF AsDrafted
<1>3. ASSUME NEW date \in Openings, NEW n, Left(client, n, date) PROVE Left(client, n, date)'
  BY <1>2, <1>3 DEF Left
<1>4. \A date \in Openings : NotAfter(date, today)' <=> NotAfter(date, today)
  BY DEF NotAfter, Digits
<1> QED
  BY <1>1, <1>2, <1>3, <1>4, SeriesGoesOn DEF Stands

LEMMA OthersTakenBack ==
    ASSUME DocInv, today \in Openings, TakeNumber(today.year),
           NextSequence(today.year) <= MaxSequence, UNCHANGED cra,
           NEW client \in DOMAIN notes, notes'[client] = notes[client],
           written'[client] = written[client]
    PROVE  TakenBack(client)'
<1>1. TakenBack(client) /\ AsDrafted(client)' = AsDrafted(client)
  BY DEF DocInv, AsDrafted
<1> QED
  BY <1>1, SeriesGoesOn DEF TakenBack

LEMMA IssueKeeps ==
    ASSUME DocInv, NEW client, NEW by, Issue(client, by)
    PROVE  DocInv'
<1>0. PICK date, year, n :
        date = today /\ year = today.year /\ n = NextSequence(today.year)
  OBVIOUS
<1> DEFINE draft  == AsDrafted(client)
           issued == Issued(draft, n, date)
           taken  == << "invoice", client >>
<1>1. /\ today \in Openings /\ client \in Drafted /\ Document(client).status = "draft"
      /\ n <= MaxSequence /\ Save(client, Issued(Document(client), n, date), client)
      /\ TakeNumber(year)
      /\ UNCHANGED << calendar, cra, outcome, declined, reference, notes >>
  BY <1>0 DEF Issue, Issuable
<1>2. /\ Document(client) = draft /\ IsInvoice(draft) /\ draft.series = None
      /\ written[client] = [ invoice |-> draft, key |-> None ]
  BY <1>1, DocumentIs
<1>3. /\ cra \in Events /\ outcome = "drafted" /\ Drafts(cra)
  BY <1>1, DraftedFrom
<1>4. /\ today' = today /\ today \in CivilDates /\ NotAfter(today, today)
  <2>1. Digits(today) \in Nat
    BY DigitsAreNumbers DEF DocInv
  <2> QED
    BY <1>1, <2>1 DEF DocInv, calendar, NotAfter
<1>5. Gone(issued, draft, n, date) /\ issued.status = "issued"
  <2> HIDE DEF draft
  <2> QED
    BY <1>2, GoneFacts
<1>6. Save(client, issued, client)
  BY <1>1, <1>2
<1>7. Keeps(issued, written[client].invoice) /\ IsInvoice(issued)
  <2> HIDE DEF issued, draft
  <2> QED
    BY <1>2, <1>5 DEF Gone
<1>8. /\ year \in FiscalYears /\ lastSequence' \in [ FiscalYears -> 0 .. MaxSequence ]
      /\ n \in 1 .. lastSequence'[year]
  BY <1>0, <1>1, SeriesGoesOn
<1>9. /\ Drafted' = Drafted /\ DOMAIN written' = Drafted
      /\ \A c \in Drafted : (invoices[c] = Filed(written[c]))'
      /\ written'[client] = [ invoice |-> issued, key |-> client ]
      /\ Document(client)' = issued
      /\ \A c \in Drafted \ {client} : written'[c] = written[c] /\ Document(c)' = Document(c)
  <2>1. Coalesce(client, written[client].key) = client
    BY <1>2 DEF Coalesce
  <2> HIDE DEF issued
  <2> QED
    BY <1>1, <1>6, <1>7, <2>1, SaveKeepsRows
<1>17. TakeNumber(today.year) /\ NextSequence(today.year) <= MaxSequence
  BY <1>0, <1>1 DEF TakeNumber
<1>10. ASSUME NEW c \in Drafted PROVE Stands(c)'
  <2>1. CASE c = client
    <3>1. AsDrafted(client)' = draft
      BY <1>1 DEF AsDrafted
    <3>2. Left(client, n, date)'
      BY <1>9, <3>1 DEF Left
    <3>3. NotAfter(date, today')
      BY <1>0, <1>4
    <3>4. n \in 1 .. lastSequence'[date.year] /\ date \in Openings
      BY <1>0, <1>1, <1>8
    <3> QED
      BY <2>1, <3>2, <3>3, <3>4 DEF Stands
  <2>2. CASE c # client
    BY <1>1, <1>4, <1>9, <1>17, <2>2, OthersStand
  <2> QED
    BY <2>1, <2>2
<1>11. (DOMAIN notes = { c \in Drafted : written[c].invoice.status = "cancelledByCreditNote" })'
  <2>1. DOMAIN notes = { c \in Drafted : written[c].invoice.status = "cancelledByCreditNote" }
    BY DEF DocInv
  <2>2. written[client].invoice.status # "cancelledByCreditNote"
    BY <1>1, <1>2
  <2>3. written'[client].invoice.status # "cancelledByCreditNote"
    <3> HIDE DEF issued
    <3> QED
      BY <1>5, <1>9
  <2> HIDE DEF issued
  <2> QED
    BY <1>1, <1>9, <2>1, <2>2, <2>3
<1>12. ASSUME NEW c \in DOMAIN notes' PROVE TakenBack(c)'
  <2>1. c \in DOMAIN notes /\ notes'[c] = notes[c]
    BY <1>1
  <2>2. c \in Drafted /\ written[c].invoice.status = "cancelledByCreditNote"
    BY <2>1 DEF DocInv
  <2>3. c # client
    BY <1>1, <1>2, <2>2
  <2> QED
    BY <1>1, <1>9, <1>17, <2>1, <2>2, <2>3, OthersTakenBack
<1>13. /\ taken \notin Numbered(year) /\ NumberOf(taken)' = n
       /\ \A y \in FiscalYears : \A d \in Numbered(y) : NumberOf(d)' = NumberOf(d)
       /\ Numbered(year)' = Numbered(year) \cup {taken}
       /\ \A y \in FiscalYears \ {year} : Numbered(y)' = Numbered(y)
       /\ n = NextSequence(year)
  <2>1. /\ year # None /\ Document(client).series = None
        /\ Document(client)'.series = year /\ Document(client)'.sequence = n
    <3> HIDE DEF issued, draft
    <3> QED
      BY <1>0, <1>2, <1>5, <1>8, <1>9, YearsAreNumbers DEF Gone
  <2> HIDE DEF draft, issued
  <2>2. taken \notin Numbered(year)
    BY <2>1 DEF Numbered
  <2>3. NumberOf(taken)' = n
    BY <2>1 DEF NumberOf
  <2>4. ASSUME NEW y \in FiscalYears, NEW d \in Numbered(y) PROVE NumberOf(d)' = NumberOf(d)
    <3>1. CASE \E c \in Drafted : d = << "invoice", c >> /\ Document(c).series = y
      <4>1. PICK c \in Drafted : d = << "invoice", c >> /\ Document(c).series = y
        BY <3>1
      <4>2. c # client
        BY <2>1, <4>1, YearsAreNumbers
      <4> QED
        BY <1>9, <4>1, <4>2 DEF NumberOf
    <3>2. CASE \E c \in DOMAIN notes : d = << "note", c >>
      BY <1>1, <3>2 DEF NumberOf
    <3> QED
      BY <3>1, <3>2 DEF Numbered
  <2>5. { c \in Drafted' : Document(c)'.series = year }
          = { c \in Drafted : Document(c).series = year } \cup {client}
    BY <1>1, <1>9, <2>1
  <2>6. Numbered(year)' = Numbered(year) \cup {taken}
    BY <1>1, <2>5 DEF Numbered
  <2>7. ASSUME NEW y \in FiscalYears \ {year} PROVE Numbered(y)' = Numbered(y)
    <3>1. { c \in Drafted' : Document(c)'.series = y } = { c \in Drafted : Document(c).series = y }
      BY <1>9, <2>1, YearsAreNumbers
    <3> QED
      BY <1>1, <3>1 DEF Numbered
  <2> QED
    BY <1>0, <2>2, <2>3, <2>4, <2>6, <2>7
<1>14. OneSeries' /\ (\A y \in FiscalYears : IsFiniteSet(Numbered(y)))'
  <2> HIDE DEF taken
  <2> QED
    BY <1>1, <1>8, <1>13, OneMore
<1>15. (/\ Drafted = IF outcome = "drafted" THEN ClientsBilled(cra) ELSE {}
        /\ declined = IF outcome = "drafted" THEN DeclinedOf(cra) ELSE {})'
  BY <1>1, <1>9 DEF DocInv
<1>16. (cra \in Events /\ outcome = "drafted" /\ Drafts(cra))'
  BY <1>1, <1>3
<1> QED
  BY <1>4, <1>8, <1>9, <1>10, <1>11, <1>12, <1>14, <1>15, <1>16 DEF DocInv

LEMMA CreditNoteKeeps ==
    ASSUME DocInv, NEW client, CreditNote(client)
    PROVE  DocInv'
<1>0. PICK date, year, n :
        date = today /\ year = today.year /\ n = NextSequence(today.year)
  OBVIOUS
<1> DEFINE draft   == AsDrafted(client)
           invoice == written[client].invoice
           next    == Cancelled(invoice)
           note    == NoteFor(draft, n, date)
           taken   == << "note", client >>
<1>1. /\ today \in Openings /\ client \in Drafted /\ Document(client).status = "issued"
      /\ n <= MaxSequence /\ Save(client, Cancelled(Document(client)), None) /\ TakeNumber(year)
      /\ notes' = [ c \in DOMAIN notes \cup {client} |->
                      IF c = client THEN NoteFor(Document(client), n, date) ELSE notes[c] ]
      /\ UNCHANGED << calendar, cra, outcome, declined, reference >>
  BY <1>0 DEF CreditNote
<1>2. /\ Document(client) = invoice /\ IsInvoice(invoice) /\ invoice.status = "issued"
      /\ IsInvoice(draft)
      /\ \E from \in Openings : \E m \in 1 .. lastSequence[from.year] :
           /\ NotAfter(from, today) /\ Gone(invoice, draft, m, from)
           /\ Left(client, m, from) /\ invoice = Issued(draft, m, from)
           /\ written[client] = [ invoice |-> invoice, key |-> client ]
  <2> HIDE DEF draft, invoice
  <2>1. Document(client).status = "issued" /\ client \in Drafted
    BY <1>1
  <2>2. "issued" # "draft" /\ "issued" # "cancelledByCreditNote"
    OBVIOUS
  <2> QED
    BY <2>1, <2>2, DocumentIs, DraftedFrom DEF draft, invoice
<1>3. PICK from, m :
        /\ from \in Openings
        /\ m \in 1 .. lastSequence[from.year]
        /\ NotAfter(from, today) /\ Gone(invoice, draft, m, from)
        /\ invoice = Issued(draft, m, from)
        /\ written[client] = [ invoice |-> invoice, key |-> client ]
  BY <1>2
<1>4. today' = today /\ today \in CivilDates
  BY <1>1 DEF DocInv, calendar
<1>5. /\ cra \in Events /\ outcome = "drafted" /\ Drafts(cra)
  BY <1>1, DraftedFrom
<1>6. /\ next = Cancelled(Issued(draft, m, from)) /\ Gone(next, draft, m, from)
      /\ next.status = "cancelledByCreditNote"
  <2>1. next = Cancelled(Issued(draft, m, from))
    BY <1>3
  <2> HIDE DEF draft, next
  <2> QED
    BY <1>2, <2>1, GoneFacts
<1>7. Save(client, next, None) /\ Keeps(next, invoice) /\ IsInvoice(next)
  <2>1. Save(client, next, None)
    BY <1>1, <1>2
  <2> HIDE DEF next, draft, invoice
  <2> QED
    BY <1>3, <1>6, <2>1 DEF Gone, Keeps
<1>8. /\ year \in FiscalYears /\ lastSequence' \in [ FiscalYears -> 0 .. MaxSequence ]
      /\ n \in 1 .. lastSequence'[year] /\ m \in 1 .. lastSequence'[from.year]
      /\ TakeNumber(today.year) /\ NextSequence(today.year) <= MaxSequence
  <2>1. TakeNumber(today.year) /\ NextSequence(today.year) <= MaxSequence
    BY <1>0, <1>1 DEF TakeNumber
  <2> QED
    BY <1>0, <1>1, <1>3, <2>1, SeriesGoesOn
<1>9. /\ Drafted' = Drafted /\ DOMAIN written' = Drafted
      /\ \A c \in Drafted : (invoices[c] = Filed(written[c]))'
      /\ written'[client] = [ invoice |-> next, key |-> client ]
      /\ Document(client)' = next
      /\ \A c \in Drafted \ {client} : written'[c] = written[c] /\ Document(c)' = Document(c)
  <2>1. Coalesce(None, written[client].key) = client
    BY <1>3 DEF Coalesce
  <2> HIDE DEF next
  <2> QED
    BY <1>1, <1>7, <2>1, SaveKeepsRows DEF invoice
<1>10. /\ DOMAIN notes' = DOMAIN notes \cup {client} /\ client \notin DOMAIN notes
       /\ notes'[client] = note
       /\ \A c \in DOMAIN notes : notes'[c] = notes[c] /\ c \in Drafted
  <2>1. DOMAIN notes = { c \in Drafted : written[c].invoice.status = "cancelledByCreditNote" }
    BY DEF DocInv
  <2>2. client \notin DOMAIN notes
    BY <1>2, <2>1
  <2>3. NoteFor(Document(client), n, date) = note
    <3> HIDE DEF invoice, draft
    <3> QED
      BY <1>2, <1>3 DEF Gone, Keeps, NoteFor
  <2> HIDE DEF note
  <2> QED
    BY <1>1, <2>1, <2>2, <2>3
<1>11. ASSUME NEW c \in Drafted PROVE Stands(c)'
  <2>1. CASE c = client
    <3>1. AsDrafted(client)' = draft
      BY <1>1 DEF AsDrafted
    <3>2. Left(client, m, from)'
      BY <1>6, <1>9, <3>1 DEF Left
    <3>3. NotAfter(from, today')
      BY <1>3, <1>4
    <3> QED
      BY <2>1, <3>2, <1>3, <3>3, <1>8 DEF Stands
  <2>2. CASE c # client
    BY <1>1, <1>4, <1>8, <1>9, <2>2, OthersStand
  <2> QED
    BY <2>1, <2>2
<1>12. (DOMAIN notes = { c \in Drafted : written[c].invoice.status = "cancelledByCreditNote" })'
  <2>1. DOMAIN notes = { c \in Drafted : written[c].invoice.status = "cancelledByCreditNote" }
    BY DEF DocInv
  <2>2. written'[client].invoice.status = "cancelledByCreditNote"
    <3> HIDE DEF next
    <3> QED
      BY <1>6, <1>9
  <2> HIDE DEF next
  <2> QED
    BY <1>1, <1>9, <1>10, <2>1, <2>2
<1>13. ASSUME NEW c \in DOMAIN notes' PROVE TakenBack(c)'
  <2>1. CASE c = client
    <3>1. AsDrafted(client)' = draft
      BY <1>1 DEF AsDrafted
    <3>2. notes'[client] = NoteFor(AsDrafted(client)', n, date)
      BY <1>10, <3>1
    <3>3. NotAfter(written'[client].invoice.issueDate, date)
      <4> HIDE DEF next
      <4> QED
        BY <1>0, <1>3, <1>6, <1>9 DEF Gone
    <3>4. n \in 1 .. lastSequence'[date.year] /\ date \in Openings
      BY <1>0, <1>1, <1>8
    <3> QED
      BY <2>1, <3>2, <3>3, <3>4 DEF TakenBack
  <2>2. CASE c # client
    <3>1. c \in DOMAIN notes /\ c \in Drafted \ {client} /\ notes'[c] = notes[c]
      BY <1>10, <2>2
    <3> QED
      BY <1>1, <1>8, <1>9, <3>1, OthersTakenBack
  <2> QED
    BY <2>1, <2>2
<1>14. /\ taken \notin Numbered(year) /\ NumberOf(taken)' = n
       /\ \A y \in FiscalYears : \A d \in Numbered(y) : NumberOf(d)' = NumberOf(d)
       /\ Numbered(year)' = Numbered(year) \cup {taken}
       /\ \A y \in FiscalYears \ {year} : Numbered(y)' = Numbered(y)
       /\ n = NextSequence(year)
  <2>1. /\ notes'[client].series = year /\ notes'[client].sequence = n
        /\ notes'[client].series = date.year
    BY <1>0, <1>10 DEF NoteFor
  <2>2. \A c \in Drafted : /\ Document(c)'.series = Document(c).series
                           /\ Document(c)'.sequence = Document(c).sequence
    <3>1. /\ Document(client)'.series = Document(client).series
          /\ Document(client)'.sequence = Document(client).sequence
      <4> HIDE DEF next, invoice, draft
      <4> QED
        BY <1>2, <1>3, <1>6, <1>9 DEF Gone
    <3> QED
      BY <1>9, <3>1
  <2> HIDE DEF draft, invoice, next, note
  <2>3. taken \notin Numbered(year)
    BY <1>10 DEF Numbered
  <2>4. NumberOf(taken)' = n
    BY <2>1 DEF NumberOf
  <2>5. ASSUME NEW y \in FiscalYears, NEW d \in Numbered(y) PROVE NumberOf(d)' = NumberOf(d)
    <3>1. CASE \E c \in Drafted : d = << "invoice", c >>
      BY <2>2, <3>1 DEF NumberOf
    <3>2. CASE \E c \in DOMAIN notes : d = << "note", c >>
      BY <1>10, <3>2 DEF NumberOf
    <3> QED
      BY <3>1, <3>2 DEF Numbered
  <2>6. ASSUME NEW y
        PROVE  { c \in Drafted' : Document(c)'.series = y }
                 = { c \in Drafted : Document(c).series = y }
    BY <1>9, <2>2
  <2>7. { c \in DOMAIN notes' : notes'[c].series = year }
          = { c \in DOMAIN notes : notes[c].series = year } \cup {client}
    BY <1>10, <2>1
  <2>8. Numbered(year)' = Numbered(year) \cup {taken}
    BY <2>6, <2>7 DEF Numbered
  <2>9. ASSUME NEW y \in FiscalYears \ {year} PROVE Numbered(y)' = Numbered(y)
    <3>1. { c \in DOMAIN notes' : notes'[c].series = y } = { c \in DOMAIN notes : notes[c].series = y }
      BY <1>10, <2>1
    <3> QED
      BY <2>6, <3>1 DEF Numbered
  <2> QED
    BY <1>0, <2>3, <2>4, <2>5, <2>8, <2>9
<1>15. OneSeries' /\ (\A y \in FiscalYears : IsFiniteSet(Numbered(y)))'
  <2> HIDE DEF taken
  <2> QED
    BY <1>1, <1>8, <1>14, OneMore
<1>16. (/\ Drafted = IF outcome = "drafted" THEN ClientsBilled(cra) ELSE {}
        /\ declined = IF outcome = "drafted" THEN DeclinedOf(cra) ELSE {})'
  BY <1>1, <1>9 DEF DocInv
<1>17. (cra \in Events /\ outcome = "drafted" /\ Drafts(cra))'
  BY <1>1, <1>5
<1> QED
  BY <1>4, <1>8, <1>9, <1>11, <1>12, <1>13, <1>15, <1>16, <1>17 DEF DocInv

LEMMA StepKeeps == DocInv /\ [DNext]_dvars => DocInv'
<1> SUFFICES ASSUME DocInv, [DNext]_dvars PROVE DocInv'
  OBVIOUS
<1>1. CASE Midnight
  BY <1>1, MidnightKeeps
<1>2. CASE AmendReference
  BY <1>2, AmendReferenceKeeps
<1>3. ASSUME NEW event \in Events, DraftInvoices(event) PROVE DocInv'
  BY <1>3, DraftInvoicesKeeps
<1>4. ASSUME NEW event \in Events, RefuseDraft(event) PROVE DocInv'
  BY <1>4, RefuseDraftKeeps
<1>5. ASSUME NEW client \in DOMAIN Clients, CreditNote(client) PROVE DocInv'
  BY <1>5, CreditNoteKeeps
<1>6. ASSUME NEW client \in DOMAIN Clients, NEW by \in Actors, Issue(client, by) PROVE DocInv'
  BY <1>6, IssueKeeps
<1>7. CASE UNCHANGED dvars
  BY <1>7, StutterKeeps
<1> QED
  BY <1>1, <1>2, <1>3, <1>4, <1>5, <1>6, <1>7 DEF DNext

\* Whatever is drafted, issued and cancelled, the rows are those of the documents, the
\* documents are those of the month, and each series is complete.
THEOREM BooksAreKept == DSpec => []DocInv
<1>1. DInit => DocInv
  BY InitGood
<1>2. DocInv /\ [DNext]_dvars => DocInv'
  BY StepKeeps
<1> QED
  BY <1>1, <1>2, PTL DEF DSpec

\* A credit note takes back its invoice, in the same series without a hole (ADR-0018,
\* ADR-0036), for every reference, month, calendar and order of issuances.
THEOREM NotesTakeBack == DSpec => []NotesReverse
<1>1. DocInv => NotesReverse
  <2> SUFFICES ASSUME DocInv PROVE NotesReverse
    OBVIOUS
  <2>1. OneSeries
    BY DEF DocInv
  <2>2. \A client \in Drafted : Document(client) = written[client].invoice
    BY DocumentIs
  <2>3. DOMAIN notes = { client \in Drafted : Document(client).status = "cancelledByCreditNote" }
    BY <2>2 DEF DocInv
  <2>4. ASSUME NEW client \in DOMAIN notes
        PROVE  /\ notes[client].lines = Document(client).lines
               /\ notes[client].vatGroups = Document(client).vatGroups
               /\ notes[client].totals = Document(client).totals
               /\ NotAfter(Document(client).issueDate, notes[client].issueDate)
    <3> DEFINE draft == AsDrafted(client)
               invoice == written[client].invoice
    <3>1. /\ client \in Drafted /\ Document(client) = invoice
          /\ invoice.status = "cancelledByCreditNote"
      BY <2>2, <2>3
    <3>2. PICK date, n :
            /\ date \in Openings
            /\ notes[client] = NoteFor(draft, n, date)
            /\ NotAfter(invoice.issueDate, date)
      BY DEF DocInv, TakenBack
    <3>3. \E from, m : Gone(invoice, draft, m, from)
      <4>1. "cancelledByCreditNote" # "draft"
        OBVIOUS
      <4> HIDE DEF draft, invoice
      <4> QED
        BY <3>1, <4>1, DocumentIs DEF draft, invoice
    <3> HIDE DEF draft, invoice
    <3> QED
      BY <3>1, <3>2, <3>3 DEF NoteFor, Gone, Keeps
  <2> QED
    BY <2>1, <2>3, <2>4 DEF NotesReverse
<1> QED
  BY <1>1, BooksAreKept, PTL

LEMMA RoundedWithinHalfACent ==
    ASSUME NEW exact \in Nat
    PROVE  HalfACent(RoundHalfUp(exact, 10000), exact)
<1> DEFINE tax == RoundHalfUp(exact, 10000)
<1>1. /\ tax \in Nat /\ 20000 * tax <= 2 * exact + 10000
      /\ 20000 * tax > 2 * exact - 10000
  BY RoundHalfUpOverRates
<1> HIDE DEF tax
<1>2. 2 * (10000 * tax - exact) \in -9999 .. 10000
  BY <1>1
<1> QED
  BY <1>2 DEF HalfACent, tax

LEMMA InvoiceRoundedOnce ==
    ASSUME NEW row, IsInvoice(row), NEW treatment \in Treatments(row.lines)
    PROVE  RoundedOnce(row, treatment)
<1> DEFINE groups == VatBreakdown(row)
           group  == VatGroup(row.lines, treatment)
           base   == AmountOf(row.lines, Under(treatment, row.lines))
           rate   == treatment.basisPoints
<1>1. groups = { VatGroup(row.lines, t) : t \in Treatments(row.lines) }
  BY DEF VatBreakdown, VatBreakdownOf, IsInvoice
<1>2. \A t \in Treatments(row.lines) : VatGroup(row.lines, t).treatment = t
  BY DEF VatGroup
<1>3. Says(group, treatment, base)
  BY GroupFacts DEF IsInvoice
<1> HIDE DEF groups
<1>4. group \in groups /\ { g \in groups : g.treatment = treatment } = {group}
  BY <1>1, <1>2
<1> HIDE DEF group, base
<1>5. treatment.kind = "notCharged" <=> group.vatCents = None
  BY <1>3, NoneAssumption DEF Says
<1>6. ASSUME treatment.kind = "taxable"
      PROVE  HalfACent(group.vatCents, base * rate)
  <2> DEFINE exact == base * rate
  <2>1. base \in Nat /\ rate \in Nat /\ group.vatCents = ApplyRate(base, rate)
    BY <1>3, <1>6 DEF Says
  <2>2. exact \in Nat
    BY <2>1
  <2>3. group.vatCents = RoundHalfUp(exact, 10000)
    BY <2>1 DEF ApplyRate
  <2> HIDE DEF exact
  <2>4. HalfACent(group.vatCents, exact)
    BY <2>2, <2>3, RoundedWithinHalfACent
  <2> QED
    BY <2>4 DEF exact
<1> QED
  BY <1>4, <1>5, <1>6 DEF groups, base, RoundedOnce

\* The tax of a document is that of its lines, rounded once per rate (ADR-0010, ADR-0035).
THEOREM TaxRoundedOnce == DSpec => []RoundedOncePerRate
<1>1. ASSUME DocInv, NEW client \in Drafted, NEW treatment \in Treatments(Document(client).lines)
      PROVE  RoundedOnce(Document(client), treatment)
  BY <1>1, DocumentIs, InvoiceRoundedOnce
<1>2. DocInv => RoundedOncePerRate
  BY <1>1 DEF RoundedOncePerRate
<1> QED
  BY <1>2, BooksAreKept, PTL

\* An issued document never changes but to be cancelled, and a note never does.
THEOREM IssuedStands == DSpec => NeverAmended
<1> DEFINE Stays(client) ==
             /\ HasLeft(client) =>
                  /\ [ Document(client)' EXCEPT !.status = "issued" ]
                       = [ Document(client) EXCEPT !.status = "issued" ]
                  /\ Document(client)'.status \in {Document(client).status, "cancelledByCreditNote"}
             /\ client \in DOMAIN notes => notes'[client] = notes[client]
<1>1. ASSUME DocInv, [DNext]_dvars, NEW client PROVE Stays(client)
  <2>1. ASSUME UNCHANGED << invoices, notes >> PROVE Stays(client)
    BY <2>1 DEF Document
  <2>2. CASE Midnight \/ AmendReference \/ UNCHANGED dvars
    BY <2>1, <2>2 DEF Midnight, AmendReference, dvars, documents
  <2>3. ASSUME NEW event \in Events, DraftInvoices(event) \/ RefuseDraft(event)
        PROVE  Stays(client)
    <3>1. Drafted = {} /\ DOMAIN notes = {}
      BY <1>1, <2>3, NotYet DEF DraftInvoices, RefuseDraft, Validated
    <3> QED
      BY <3>1 DEF HasLeft
  <2>4. ASSUME NEW other \in DOMAIN Clients, NEW by \in Actors, Issue(other, by)
        PROVE  Stays(client)
    <3>1. /\ other \in Drafted /\ Document(other).status = "draft" /\ notes' = notes
          /\ invoices' = [ invoices EXCEPT
                             ![other] = Saved(@, Issued(Document(other), NextSequence(today.year),
                                                        today), other) ]
      BY <2>4 DEF Issue, Issuable, Save
    <3>2. ASSUME client # other PROVE Document(client)' = Document(client)
      BY <3>1, <3>2 DEF Document
    <3> QED
      BY <3>1, <3>2 DEF HasLeft
  <2>5. ASSUME NEW other \in DOMAIN Clients, CreditNote(other) PROVE Stays(client)
    <3> DEFINE invoice == Document(other)
               next    == Cancelled(invoice)
    <3>1. /\ other \in Drafted /\ invoice.status = "issued" /\ Save(other, next, None)
          /\ notes' = [ c \in DOMAIN notes \cup {other} |->
                          IF c = other THEN NoteFor(invoice, NextSequence(today.year), today)
                          ELSE notes[c] ]
          /\ cra' = cra
      BY <2>5 DEF CreditNote
    <3>2. written[other].invoice = invoice /\ IsInvoice(invoice)
      BY <1>1, <3>1, DocumentIs
    <3>3. other \notin DOMAIN notes
      BY <1>1, <3>1, <3>2 DEF DocInv
    <3> HIDE DEF invoice
    <3>4. /\ IsInvoice(next) /\ Keeps(next, invoice) /\ next.status = "cancelledByCreditNote"
          /\ [ next EXCEPT !.status = "issued" ] = [ invoice EXCEPT !.status = "issued" ]
      <4>1. IsInvoice(next) /\ Keeps(next, invoice) /\ next.status = "cancelledByCreditNote"
        BY <3>1, <3>2, CancelledIs DEF Keeps
      <4>2. [ next EXCEPT !.status = "issued" ] = [ invoice EXCEPT !.status = "issued" ]
        BY <3>2 DEF Cancelled
      <4> QED
        BY <4>1, <4>2
    <3> HIDE DEF next
    <3>5. Document(other)' = next /\ \A c \in Drafted \ {other} : Document(c)' = Document(c)
      BY <1>1, <3>1, <3>2, <3>4, SaveKeepsRows
    <3>6. ASSUME client = other PROVE Stays(client)
      BY <3>1, <3>3, <3>4, <3>5, <3>6 DEF invoice
    <3>7. ASSUME client # other PROVE Stays(client)
      BY <3>1, <3>5, <3>7 DEF HasLeft
    <3> QED
      BY <3>6, <3>7
  <2> QED
    BY <1>1, <2>2, <2>3, <2>4, <2>5 DEF DNext
<1>2. DocInv /\ [DNext]_dvars => [ \A client \in DOMAIN Clients : Stays(client) ]_dvars
  BY <1>1
<1> QED
  BY <1>2, BooksAreKept, PTL DEF DSpec, NeverAmended

-----------------------------------------------------------------------------
(* What is refused, and what a line is worth.                              *)

\* The dates an entry claims, as numbers of eight digits at most.
LEMMA EndsFacts ==
    ASSUME NEW entries, IsHistory(entries), NEW n \in DOMAIN entries
    PROVE  /\ Digits(entries[n].from) \in Nat /\ Digits(entries[n].from) <= 99999999
           /\ Ends(entries[n]) \in Nat
           /\ entries[n].to # None => Ends(entries[n]) = Digits(entries[n].to)
           /\ entries[n].to = None => Ends(entries[n]) = 99999999
           /\ entries[n].value \in Int
<1>1. entries \in Seq(Dated) /\ Exists(entries[n].from)
  BY DEF IsHistory
<1>2. entries[n].from \in CivilDates /\ Digits(entries[n].from) \in Nat
      /\ (entries[n].to # None => Digits(entries[n].to) \in Nat)
  BY <1>1, EntryFacts, DigitsAreNumbers
<1>3. Digits(entries[n].from) <= 99999999
  <2>1. /\ entries[n].from.year \in Nat /\ entries[n].from.month \in 1 .. 12
        /\ entries[n].from.day \in 1 .. 31
    BY <1>2 DEF CivilDates
  <2>2. entries[n].from.year <= 9999
    BY <1>1 DEF Exists
  <2> QED
    BY <2>1, <2>2 DEF Digits
<1>4. entries[n].value \in Int
  <2>1. DOMAIN entries = 1 .. Len(entries) /\ Len(entries) \in Nat
    BY <1>1
  <2>2. entries[n] \in Dated
    BY <1>1, <2>1
  <2> QED
    BY <2>2 DEF Dated
<1> QED
  BY <1>2, <1>3, <1>4 DEF Ends

\* What no two neighbours dispute, no two entries dispute.
LEMMA SoundIsTimeline ==
    ASSUME NEW entries, IsHistory(entries)
    PROVE  Sound(entries) <=> /\ IsTimeline(entries)
                              /\ \A n \in DOMAIN entries : IsAgreedRate(entries[n].value)
<1>0. entries \in Seq(Dated)
  BY DEF IsHistory
<1>1. ASSUME Sound(entries) PROVE IsTimeline(entries)
  <2>1. ASSUME NEW n \in DOMAIN entries, entries[n].to # None
        PROVE  NotAfter(entries[n].from, entries[n].to)
    BY <1>1, <2>1, EndsFacts DEF Sound, NotAfter
  <2>2. ASSUME NEW m \in DOMAIN entries, NEW n \in DOMAIN entries, IsNext(entries, m, n)
        PROVE  entries[m].to # None /\ ~ NotAfter(entries[n].from, entries[m].to)
    <3>1. Digits(entries[m].from) <= Digits(entries[n].from) /\ m # n
      <4>1. m \in Nat /\ Digits(entries[m].from) \in Nat /\ Digits(entries[n].from) \in Nat
        BY <1>0, EntryFacts
      <4> QED
        BY <2>2, <4>1 DEF IsNext, Comes
    <3>2. \/ Ends(entries[m]) < Digits(entries[n].from)
          \/ Ends(entries[n]) < Digits(entries[m].from)
      BY <1>1, <3>1 DEF Sound
    <3>3. Digits(entries[n].from) <= Ends(entries[n])
      BY <1>1 DEF Sound
    <3>4. Ends(entries[m]) < Digits(entries[n].from)
      BY <3>1, <3>2, <3>3, EndsFacts
    <3>5. entries[m].to # None
      BY <3>4, EndsFacts
    <3> QED
      BY <3>4, <3>5, EndsFacts DEF NotAfter
  <2> QED
    BY <2>1, <2>2 DEF IsTimeline
<1>2. ASSUME Sound(entries), NEW n \in DOMAIN entries PROVE IsAgreedRate(entries[n].value)
  BY <1>2, EndsFacts DEF Sound, IsAgreedRate
<1>3. ASSUME IsTimeline(entries), \A n \in DOMAIN entries : IsAgreedRate(entries[n].value)
      PROVE  Sound(entries)
  <2>1. ASSUME NEW n \in DOMAIN entries
        PROVE  /\ Digits(entries[n].from) <= Ends(entries[n])
               /\ entries[n].value > 0 /\ entries[n].value % 100 = 0
    BY <1>3, EndsFacts DEF IsTimeline, IsAgreedRate, NotAfter
  <2>2. ASSUME NEW i \in DOMAIN entries, NEW j \in DOMAIN entries, Comes(entries, i, j)
        PROVE  Ends(entries[i]) < Digits(entries[j].from)
    BY <1>0, <1>3, <2>2, EndsBefore, EndsFacts
  <2>3. ASSUME NEW n \in DOMAIN entries, NEW k \in DOMAIN entries \ {n}
        PROVE  \/ Ends(entries[n]) < Digits(entries[k].from)
               \/ Ends(entries[k]) < Digits(entries[n].from)
    BY <1>0, <2>2, OneComesFirst
  <2> QED
    BY <2>1, <2>3 DEF Sound
<1> QED
  BY <1>1, <1>2, <1>3

LEMMA RateFound ==
    ASSUME NEW basisPoints, NEW on \in CivilDates, Digits(on) > 20160000
    PROVE  At(Since2014(basisPoints), on) = basisPoints
<1> DEFINE entries == Since2014(basisPoints)
           inForce == { n \in DOMAIN entries : Holds(entries[n], on) }
           first   == CHOOSE n \in inForce : \A k \in inForce : ~ Comes(entries, k, n)
<1>1. At(entries, on) = IF inForce = {} THEN None ELSE entries[first].value
  BY DEF At
<1>2. /\ DOMAIN entries = {1} /\ entries[1].value = basisPoints /\ entries[1].to = None
      /\ entries[1].from = [ year |-> 2014, month |-> 1, day |-> 1 ]
  BY DEF Since2014, Date
<1>3. Digits(entries[1].from) = 20140101
  BY <1>2 DEF Digits
<1>4. Holds(entries[1], on)
  <2>1. Digits(on) \in Nat
    BY DigitsAreNumbers
  <2> HIDE DEF entries
  <2> QED
    BY <1>2, <1>3, <2>1 DEF Holds, NotAfter
<1> HIDE DEF entries
<1>5. inForce = {1}
  BY <1>2, <1>4
<1>6. ~ Comes(entries, 1, 1)
  BY <1>3 DEF Comes
<1> HIDE DEF inForce
<1>7. first = 1
  BY <1>5, <1>6
<1> HIDE DEF first
<1>8. At(entries, on) = basisPoints
  BY <1>1, <1>2, <1>5, <1>7
<1> QED
  BY <1>8 DEF entries

\* VAT is found for every client on every such day.
LEMMA VatIsFound ==
    ASSUME NEW client, client.territoriality \in Territorialities, client.vatNumber \in BOOLEAN,
           NEW on \in CivilDates, Digits(on) > 20160000
    PROVE  ResolveVat(client, on) # None
<1>1. CASE client.territoriality = "overseasOutsideVatScope"
  BY <1>1, NoneAssumption DEF ResolveVat, NotCharged, VatTreatments
<1>2. CASE client.territoriality = "europeanUnion" /\ client.vatNumber
  BY <1>2, NoneAssumption DEF ResolveVat, NotCharged, VatTreatments
<1>3. CASE /\ client.territoriality # "overseasOutsideVatScope"
           /\ ~ (client.territoriality = "europeanUnion" /\ client.vatNumber)
  <2> DEFINE rate == At(StandardRate[client.territoriality], on)
  <2>1. ResolveVat(client, on) = IF rate = None THEN None ELSE Taxable(rate)
    BY <1>3 DEF ResolveVat
  <2>2. StandardRate[client.territoriality] \in {Since2014(850), Since2014(2000)}
    BY <1>3 DEF StandardRate
  <2>3. rate \in {850, 2000}
    BY <2>2, RateFound
  <2> HIDE DEF rate
  <2>4. rate # None
    BY <2>3, NoneAssumption
  <2> QED
    BY <2>1, <2>3, <2>4, NoneAssumption DEF Taxable, VatTreatments
<1> QED
  BY <1>1, <1>2, <1>3

\* A month is drafted from exactly when the agreed rates of every mission are sound.
LEMMA DraftsIsSound ==
    ASSUME NEW event \in Events
    PROVE  Drafts(event) <=> \A mission \in Missions : Sound(RatesOf(event, mission))
<1>1. ASSUME NEW mission \in Missions
      PROVE  /\ IsHistory(RatesOf(event, mission))
             /\ DOMAIN RatesOf(event, mission) = 1 .. Len(RatesOf(event, mission))
  <2>1. IsHistory(RatesOf(event, mission))
    BY EventsAssumption DEF RatesOf
  <2> QED
    BY <2>1 DEF IsHistory
<1>2. IsReference(event) <=> \A mission \in Missions : Sound(RatesOf(event, mission))
  BY <1>1, SoundIsTimeline DEF IsReference
<1>3. ASSUME IsReference(event), NEW n \in Billed(event)
      PROVE  /\ IsTjm(TjmOf(event, event.worked[n].mission))
             /\ VatOf(event, event.worked[n].mission) # None
  <2> DEFINE mission == event.worked[n].mission
             client == Commercial[mission].client
             on == LastDayOf(event.period)
  <2>1. mission \in Missions /\ TjmOf(event, mission) # None /\ client \in DOMAIN Clients
    BY WorkIsKnown
  <2>2. on \in CivilDates /\ Digits(on) > 20160000
    BY ClosesLate
  <2>3. IsTjm(TjmOf(event, mission))
    <3> HIDE DEF mission
    <3> QED
      BY <1>3, <2>1, RateInForce, AgreedRateDivides
  <2>4. VatOf(event, mission) = ResolveVat(Clients[client], on)
    BY DEF VatOf, ResolvedOn
  <2> HIDE DEF client, on
  <2>5. VatOf(event, mission) # None
    BY <2>1, <2>2, <2>4, ClientsAssumption, VatIsFound
  <2> QED
    BY <2>3, <2>5
<1> QED
  BY <1>2, <1>3 DEF Drafts

\* Drafting is refused exactly when two agreed rates of a mission share a day, one of them
\* ends before it starts, or one is no whole number of euros, for every table of rates.
THEOREM RefusedExactlyWhenUnsound == DSpec => []RefusedExactly
<1>1. DocInv => RefusedExactly
  BY DraftsIsSound, NoneAssumption DEF DocInv, RefusedExactly
<1> QED
  BY <1>1, BooksAreKept, PTL

\* The lines of a document are those of its draft.
LEMMA LinesOfDocument ==
    ASSUME DocInv, NEW client \in Drafted
    PROVE  Document(client).lines = LinesFor(cra, client)
<1>1. AsDrafted(client).lines = LinesFor(cra, client)
  BY DEF AsDrafted, NewInvoice
<1>2. Document(client).lines = AsDrafted(client).lines
  <2> DEFINE invoice == written[client].invoice
             draft == AsDrafted(client)
  <2>1. /\ Document(client) = invoice
        /\ invoice = draft \/ \E date, n : Gone(invoice, draft, n, date)
    <3> HIDE DEF draft, invoice
    <3> QED
      BY DocumentIs DEF draft, invoice
  <2> HIDE DEF draft, invoice
  <2>2. invoice.lines = draft.lines
    BY <2>1 DEF Gone, Keeps
  <2> QED
    BY <2>1, <2>2 DEF draft
<1> QED
  BY <1>1, <1>2

\* A billed mission is on one line, of the document of its client.
LEMMA OnOneLine ==
    ASSUME DocInv, outcome = "drafted", NEW w \in Billed(cra)
    PROVE  LET work == cra.worked[w]
               client == Commercial[work.mission].client
           IN \E k : /\ LinesOn(work.mission) = { << client, k >> }
                     /\ Document(client).lines[k] = LineFor(cra, work)
<1> DEFINE work == cra.worked[w]
           mission == work.mission
           client == Commercial[mission].client
<1>1. cra \in Events /\ Drafts(cra) /\ Drafted = ClientsBilled(cra)
  BY DEF DocInv
<1>2. client \in DOMAIN Clients /\ w \in BilledTo(cra, client)
  BY WorkIsKnown DEF BilledTo
<1>3. client \in Drafted
  BY <1>1, <1>2 DEF ClientsBilled
<1>4. PICK k \in DOMAIN LinesFor(cra, client) : LinesFor(cra, client)[k] = LineFor(cra, work)
  BY <1>1, <1>2, BilledLines
<1>5. \A c \in Drafted : Document(c).lines = LinesFor(cra, c)
  BY LinesOfDocument
<1>6. \A any : LineFor(cra, any).mission = any.mission
  BY DEF LineFor, RegieLine
<1>7. ASSUME NEW c \in Drafted, NEW j \in DOMAIN LinesFor(cra, c),
             LinesFor(cra, c)[j].mission = mission
      PROVE  c = client /\ j = k
  <2>1. PICK n \in BilledTo(cra, c) : LinesFor(cra, c)[j] = LineFor(cra, cra.worked[n])
    BY <1>1, <1>7, BilledLines
  <2>2. cra.worked[n].mission = mission
    BY <1>6, <1>7, <2>1
  <2>3. c = client
    BY <2>1, <2>2 DEF BilledTo
  <2>4. LinesFor(cra, client)[k].mission = mission
    BY <1>4, <1>6
  <2> HIDE DEF client, mission
  <2>5. j = k
    BY <1>1, <1>4, <1>7, <2>3, <2>4, BilledLines
  <2> QED
    BY <2>3, <2>5
<1>8. LinesFor(cra, client)[k].mission = mission
  BY <1>4, <1>6
<1> HIDE DEF client, mission
<1>9. LinesOn(mission) = { << client, k >> }
  <2> DEFINE PlacesOf(c) == { j \in DOMAIN LinesFor(cra, c) : LinesFor(cra, c)[j].mission = mission }
  <2>1. LinesOn(mission) = UNION { { << c, j >> : j \in PlacesOf(c) } : c \in Drafted }
    BY <1>5 DEF LinesOn
  <2>2. k \in PlacesOf(client)
    BY <1>4, <1>8
  <2>3. \A c \in Drafted : \A j \in PlacesOf(c) : c = client /\ j = k
    BY <1>7
  <2> HIDE DEF PlacesOf
  <2> QED
    BY <1>3, <2>1, <2>2, <2>3
<1> QED
  BY <1>3, <1>4, <1>5, <1>9 DEF client, mission

\* Declined work is on no line.
LEMMA OnNoLine ==
    ASSUME DocInv, outcome = "drafted", NEW w \in DOMAIN cra.worked, w \notin Billed(cra)
    PROVE  LinesOn(cra.worked[w].mission) = {}
<1> DEFINE mission == cra.worked[w].mission
<1>1. cra \in Events /\ Drafts(cra)
  BY DEF DocInv
<1>2. DeclineReason(cra, mission) # None
  BY DEF Billed
<1> HIDE DEF mission
<1>3. ASSUME NEW c \in Drafted, NEW j \in DOMAIN LinesFor(cra, c),
             LinesFor(cra, c)[j].mission = mission
      PROVE  FALSE
  <2>1. PICK n \in BilledTo(cra, c) : LinesFor(cra, c)[j] = LineFor(cra, cra.worked[n])
    BY <1>1, <1>3, BilledLines
  <2>2. cra.worked[n].mission = mission
    BY <1>3, <2>1 DEF LineFor, RegieLine
  <2>3. DeclineReason(cra, cra.worked[n].mission) = None
    BY <2>1 DEF BilledTo, Billed
  <2> QED
    BY <1>2, <2>2, <2>3
<1> QED
  BY <1>3, LinesOfDocument DEF LinesOn, mission

\* Every quarter-day of a month is on one line or declined, and a line is worth its
\* quarter-days at the rate in force when the month closed (ADR-0034, ADR-0037), for every
\* table of rates and every month.
THEOREM ClosePricesTheMonth == DSpec => []PricedAtTheClose
<1>1. ASSUME DocInv, outcome = "drafted", NEW w \in Billed(cra)
      PROVE  BilledAtTheClose(cra.worked[w].mission, cra.worked[w].quarterDays)
  <2> DEFINE work == cra.worked[w]
             mission == work.mission
             client == Commercial[mission].client
             rates == RatesOf(cra, mission)
             tjm == TjmOf(cra, mission)
  <2>1. PICK k : /\ LinesOn(mission) = { << client, k >> }
                 /\ Document(client).lines[k] = LineFor(cra, work)
    BY <1>1, OnOneLine
  <2>2. cra \in Events /\ Drafts(cra) /\ IsReference(cra)
    BY <1>1 DEF DocInv, Drafts
  <2>3. mission \in Missions /\ tjm # None
    BY <1>1, WorkIsKnown
  <2>4. PICK n \in DOMAIN rates : /\ Holds(rates[n], LastDayOf(cra.period))
                                  /\ rates[n].value = tjm /\ IsAgreedRate(rates[n].value)
    BY <2>2, <2>3, RateInForce
  <2>5. work.quarterDays \in Nat
    BY <1>1, <2>2, BilledWork
  <2>6. IsWorth(LineFor(cra, work), work.quarterDays, tjm)
    <3> DEFINE line == RegieLine(mission, cra.period, work.quarterDays, tjm, VatOf(cra, mission))
    <3>1. IsAgreedRate(tjm) /\ line.quarterDays = work.quarterDays
      BY <2>4 DEF RegieLine
    <3>2. LineFor(cra, work) = line
      BY DEF LineFor
    <3> HIDE DEF tjm, work, mission
    <3>3. /\ 4 * line.amountCents = work.quarterDays * tjm
          /\ line.amountCents = work.quarterDays * line.unitPriceCents
      BY <2>5, <3>1, LinesLoseNothing
    <3> HIDE DEF line
    <3>4. IsWorth(line, work.quarterDays, tjm)
      BY Zenon, <3>1, <3>3 DEF IsWorth
    <3> QED
      BY <3>2, <3>4
  <2>7. IsWorth(Document(client).lines[k], work.quarterDays, rates[n].value)
    BY <2>1, <2>4, <2>6
  <2> HIDE DEF work, client, rates, tjm, mission
  <2>8. << client, k >>[1] = client /\ << client, k >>[2] = k
    OBVIOUS
  <2> QED
    BY <2>1, <2>4, <2>7, <2>8 DEF BilledAtTheClose, client, rates, mission, work
<1>2. ASSUME DocInv, outcome = "drafted", NEW w \in DOMAIN cra.worked
      PROVE  LET mission == cra.worked[w].mission
                 days    == cra.worked[w].quarterDays
             IN \/ /\ LinesOn(mission) = {}
                   /\ \E d \in declined : d.mission = mission /\ d.quarterDays = days
                \/ /\ \A d \in declined : d.mission # mission
                   /\ BilledAtTheClose(mission, days)
  <2>1. declined = DeclinedOf(cra)
    BY <1>2 DEF DocInv
  <2>2. CASE w \in Billed(cra)
    <3>1. ASSUME NEW d \in declined PROVE d.mission # cra.worked[w].mission
      <4>1. PICK n \in DOMAIN cra.worked \ Billed(cra) : d.mission = cra.worked[n].mission
        BY <2>1, <3>1 DEF DeclinedOf
      <4> QED
        BY <2>2, <4>1 DEF Billed
    <3> QED
      BY <1>1, <1>2, <2>2, <3>1
  <2>3. CASE w \notin Billed(cra)
    <3>1. LinesOn(cra.worked[w].mission) = {}
      BY <1>2, <2>3, OnNoLine
    <3>2. \E d \in declined : /\ d.mission = cra.worked[w].mission
                              /\ d.quarterDays = cra.worked[w].quarterDays
      <4> DEFINE d == [ mission |-> cra.worked[w].mission,
                        quarterDays |-> cra.worked[w].quarterDays,
                        reason |-> DeclineReason(cra, cra.worked[w].mission) ]
      <4>1. d \in declined
        BY <1>2, <2>1, <2>3 DEF DeclinedOf
      <4>2. d.mission = cra.worked[w].mission /\ d.quarterDays = cra.worked[w].quarterDays
        OBVIOUS
      <4> QED
        BY <4>1, <4>2
    <3> QED
      BY <3>1, <3>2
  <2> QED
    BY <2>2, <2>3
<1>3. DocInv => PricedAtTheClose
  BY <1>2 DEF PricedAtTheClose
<1> QED
  BY <1>3, BooksAreKept, PTL

-----------------------------------------------------------------------------
(***************************************************************************)
(* The calendar.  Years start in March, so that the leap day is the last   *)
(* of its year.                                                            *)
(***************************************************************************)

\* The days of the years before y, the year a date counts in, the number of its month in that
\* year, and its day in it; and where each month starts, January first.
YearStart(y) == 365 * y + y \div 4 - y \div 100 + y \div 400
ShiftedYear(date) == IF date.month <= 2 THEN date.year - 1 ELSE date.year
MarchFirst(date) == date.month + (IF date.month > 2 THEN -3 ELSE 9)
DayOfYear(date) == (153 * MarchFirst(date) + 2) \div 5 + date.day - 1
MonthStarts == << 306, 337, 0, 31, 61, 92, 122, 153, 184, 214, 245, 275 >>

\* Four hundred years are a whole number of leap cycles.
LEMMA EraShift ==
    ASSUME NEW y \in Int, NEW era \in Int
    PROVE  /\ (y - era * 400) \div 4 = y \div 4 - era * 100
           /\ (y - era * 400) \div 100 = y \div 100 - era * 4
OBVIOUS

\* The day number without its eras: they only keep the operands of the divisions positive.
LEMMA DayNumber ==
    ASSUME NEW date, date.year \in Int, date.month \in 1 .. 12, date.day \in 1 .. 31
    PROVE  ToDayNumber(date) = YearStart(ShiftedYear(date)) + DayOfYear(date) - 719468
<1> DEFINE y == ShiftedYear(date)
           era == y \div 400
<1>1. y \in Int
  BY DEF ShiftedYear
<1>2. ToDayNumber(date) = era * 146097 + (y - era * 400) * 365 + (y - era * 400) \div 4
                          - (y - era * 400) \div 100 + DayOfYear(date) - 719468
  BY DEF ToDayNumber, DaysPerEra, ShiftedYear, DayOfYear, MarchFirst
<1>3. DayOfYear(date) \in Int
  BY DEF DayOfYear, MarchFirst
<1>4. era \in Int /\ y \div 4 \in Int /\ y \div 100 \in Int
  BY <1>1
<1>5. YearStart(y) = 365 * y + y \div 4 - y \div 100 + era
  BY DEF YearStart
<1>6. /\ (y - era * 400) \div 4 = y \div 4 - era * 100
      /\ (y - era * 400) \div 100 = y \div 100 - era * 4
  BY <1>1, <1>4, EraShift
<1> HIDE DEF y, era
<1> QED
  BY <1>1, <1>2, <1>3, <1>4, <1>5, <1>6 DEF y

LEMMA NumberIsInt ==
    ASSUME NEW date, date.year \in Int, date.month \in 1 .. 12, date.day \in 1 .. 31
    PROVE  ToDayNumber(date) \in Int
<1>1. ShiftedYear(date) \in Int /\ DayOfYear(date) \in Int
  BY DEF ShiftedYear, DayOfYear, MarchFirst
<1>2. YearStart(ShiftedYear(date)) \in Int
  BY <1>1 DEF YearStart
<1> QED
  BY <1>1, <1>2, DayNumber

\* Between two first days of March lies one leap day, or none.
LEMMA LeapDay ==
    ASSUME NEW y \in Int
    PROVE  YearStart(y) - YearStart(y - 1) = IF IsLeapYear(y) THEN 366 ELSE 365
<1>1. y \div 4 - (y - 1) \div 4 = IF y % 4 = 0 THEN 1 ELSE 0
  OBVIOUS
<1>2. y \div 100 - (y - 1) \div 100 = IF y % 100 = 0 THEN 1 ELSE 0
  OBVIOUS
<1>3. y \div 400 - (y - 1) \div 400 = IF y % 400 = 0 THEN 1 ELSE 0
  OBVIOUS
<1>4. (y % 100 = 0 => y % 4 = 0) /\ (y % 400 = 0 => y % 100 = 0)
  OBVIOUS
<1> QED
  BY <1>1, <1>2, <1>3, <1>4 DEF YearStart, IsLeapYear

\* Both ways of telling the length of a month agree.
LEMMA LengthIs ==
    ASSUME NEW date, date.year \in Int, date.month \in 1 .. 12
    PROVE  /\ LengthOfMonth(date) = DaysInMonth(date.year, date.month)
           /\ LengthOfMonth(date) \in 28 .. 31
  BY DEF LengthOfMonth, DaysInMonth, IsLeapYear

LEMMA DayOfYearIs ==
    ASSUME NEW date, date.month \in 1 .. 12, date.day \in 1 .. 31
    PROVE  DayOfYear(date) = MonthStarts[date.month] + date.day - 1
  BY DEF DayOfYear, MarchFirst, MonthStarts

\* Tomorrow is one day number further, over the ends of months, Februaries and centuries.
LEMMA OneDayOn ==
    ASSUME NEW date \in CivilDates, date.day <= LengthOfMonth(date)
    PROVE  /\ Tomorrow(date) \in CivilDates
           /\ Tomorrow(date).day <= LengthOfMonth(Tomorrow(date))
           /\ ToDayNumber(Tomorrow(date)) = ToDayNumber(date) + 1
<1> DEFINE next == Tomorrow(date)
<1>1. date.year \in Nat /\ date.month \in 1 .. 12 /\ date.day \in 1 .. 31
  BY DEF CivilDates
<1>2. LengthOfMonth(date) \in 28 .. 31 /\ LengthOfMonth(date) = DaysInMonth(date.year, date.month)
  BY <1>1, LengthIs
<1>3. CASE date.day < LengthOfMonth(date)
  <2>1. /\ next = [ date EXCEPT !.day = date.day + 1 ]
        /\ next \in CivilDates
        /\ next.year = date.year /\ next.month = date.month /\ next.day = date.day + 1
    BY <1>1, <1>2, <1>3 DEF Tomorrow, CivilDates
  <2>2. LengthOfMonth(next) = LengthOfMonth(date)
    BY <2>1 DEF LengthOfMonth
  <2>3. ShiftedYear(next) = ShiftedYear(date) /\ DayOfYear(next) = DayOfYear(date) + 1
    BY <1>1, <2>1 DEF ShiftedYear, DayOfYear, MarchFirst
  <2>4. ShiftedYear(date) \in Int
    BY <1>1 DEF ShiftedYear
  <2>5. YearStart(ShiftedYear(date)) \in Int /\ DayOfYear(date) \in Int
    BY <1>1, <2>4 DEF YearStart, DayOfYear, MarchFirst
  <2>6. next.year \in Int /\ next.month \in 1 .. 12 /\ next.day \in 1 .. 31
    BY <2>1 DEF CivilDates
  <2> HIDE DEF next
  <2>7. ToDayNumber(next) = ToDayNumber(date) + 1
    BY <1>1, <2>3, <2>5, <2>6, DayNumber
  <2> QED
    BY <1>1, <1>2, <1>3, <2>1, <2>2, <2>7 DEF next
<1>4. CASE ~ (date.day < LengthOfMonth(date))
  <2>1. date.day = LengthOfMonth(date)
    BY <1>1, <1>2, <1>4
  <2>2. next = IF date.month < 12 THEN Date(date.year, date.month + 1, 1)
               ELSE Date(date.year + 1, 1, 1)
    BY <1>4 DEF Tomorrow
  <2>3. /\ next.month = IF date.month < 12 THEN date.month + 1 ELSE 1
        /\ next.year = IF date.month < 12 THEN date.year ELSE date.year + 1
        /\ next.day = 1 /\ next \in CivilDates
    BY <1>1, <2>2 DEF Date, CivilDates
  <2>4. next.year \in Nat /\ next.month \in 1 .. 12
    BY <2>3 DEF CivilDates
  <2>5. LengthOfMonth(next) \in 28 .. 31
    BY <2>4, LengthIs
  <2>6. /\ DayOfYear(date) = MonthStarts[date.month] + date.day - 1
        /\ DayOfYear(next) = MonthStarts[next.month]
    BY <1>1, <2>3, <2>4, DayOfYearIs DEF MonthStarts
  <2>7. /\ ToDayNumber(date) = YearStart(ShiftedYear(date)) + DayOfYear(date) - 719468
        /\ ToDayNumber(next) = YearStart(ShiftedYear(next)) + DayOfYear(next) - 719468
    BY <1>1, <2>3, <2>4, DayNumber
  <2> HIDE DEF next
  <2>8. CASE date.month = 2
    <3>1. next.month = 3 /\ next.year = date.year
      BY <2>3, <2>8
    <3>2. DayOfYear(date) = 336 + date.day /\ DayOfYear(next) = 0
      BY <1>1, <2>6, <2>8, <3>1 DEF MonthStarts
    <3>3. date.day = IF IsLeapYear(date.year) THEN 29 ELSE 28
      BY <1>2, <2>1, <2>8 DEF DaysInMonth
    <3>4. ShiftedYear(date) = date.year - 1 /\ ShiftedYear(next) = date.year
      BY <2>8, <3>1 DEF ShiftedYear
    <3>5. YearStart(date.year) - YearStart(date.year - 1) = IF IsLeapYear(date.year) THEN 366 ELSE 365
      BY <1>1, LeapDay
    <3>6. YearStart(date.year) \in Int /\ YearStart(date.year - 1) \in Int
      BY <1>1 DEF YearStart
    <3> QED
      BY <2>3, <2>5, <2>7, <3>2, <3>3, <3>4, <3>5, <3>6 DEF next
  <2>9. CASE date.month # 2
    <3>1. DaysInMonth(date.year, date.month)
            = << 31, 28, 31, 30, 31, 30, 31, 31, 30, 31, 30, 31 >>[date.month]
      BY <2>9 DEF DaysInMonth
    <3>2. DayOfYear(next) = DayOfYear(date) + 1
      BY <1>1, <1>2, <2>1, <2>3, <2>6, <2>9, <3>1 DEF MonthStarts
    <3>3. ShiftedYear(next) = ShiftedYear(date)
      BY <1>1, <2>3, <2>9 DEF ShiftedYear
    <3>4. YearStart(ShiftedYear(date)) \in Int /\ DayOfYear(date) \in Int
      BY <1>1 DEF YearStart, ShiftedYear, DayOfYear, MarchFirst
    <3> QED
      BY <2>3, <2>5, <2>7, <3>2, <3>3, <3>4 DEF next
  <2> QED
    BY <2>8, <2>9
<1> QED
  BY <1>3, <1>4

\* The weekday, which the code computes on its own, is the day number modulo 7.
LEMMA WeekdayOfNumber ==
    ASSUME NEW date, date.year \in Int, date.month \in 1 .. 12, date.day \in 1 .. 31
    PROVE  DayOfWeek(date) = IF (ToDayNumber(date) + 4) % 7 = 0 THEN 7
                             ELSE (ToDayNumber(date) + 4) % 7
<1> DEFINE y == ShiftedYear(date)
           shift == << 0, 3, 2, 5, 0, 3, 5, 1, 4, 6, 2, 4 >>[date.month]
           sum == y + y \div 4 - y \div 100 + y \div 400 + shift + date.day
<1>1. DayOfWeek(date) = IF sum % 7 = 0 THEN 7 ELSE sum % 7
  BY DEF DayOfWeek, ShiftedYear
<1>2. ToDayNumber(date) + 4 = YearStart(y) + DayOfYear(date) - 719464
  <2>1. ToDayNumber(date) = YearStart(y) + DayOfYear(date) - 719468
    BY DayNumber
  <2>2. YearStart(y) \in Int /\ DayOfYear(date) \in Int
    BY DEF YearStart, ShiftedYear, DayOfYear, MarchFirst
  <2> QED
    BY <2>1, <2>2
<1>3. DayOfYear(date) = MonthStarts[date.month] + date.day - 1
  BY DayOfYearIs
<1>4. y \in Int
  BY DEF ShiftedYear
<1> HIDE DEF y
<1>5. \E k \in Int : YearStart(y) + DayOfYear(date) - 719464 = sum + 7 * k
  <2> DEFINE doy == MonthStarts[date.month]
             k == (doy - 719465 - shift) \div 7
  <2>1. doy \in Int /\ shift \in Int /\ (doy - 719465 - shift) % 7 = 0
    BY SMT DEF MonthStarts
  <2> HIDE DEF doy, shift
  <2>2. k \in Int /\ doy - 719465 = shift + 7 * k
    BY <2>1, SMT
  <2> HIDE DEF k
  <2> DEFINE start == y + y \div 4 - y \div 100 + y \div 400
  <2>3. start \in Int /\ YearStart(y) = start + 364 * y
    BY <1>4, SMT DEF YearStart
  <2>4. sum = start + shift + date.day
    BY <2>1, <2>3
  <2>5. DayOfYear(date) = doy + date.day - 1
    BY <1>3 DEF doy
  <2> HIDE DEF start, sum
  <2>6. YearStart(y) + DayOfYear(date) - 719464 = sum + 7 * (k + 52 * y)
    BY <1>4, <2>1, <2>2, <2>3, <2>4, <2>5, SMT
  <2>7. k + 52 * y \in Int
    BY <1>4, <2>2
  <2> QED
    BY <2>6, <2>7
<1>6. PICK k \in Int : ToDayNumber(date) + 4 = sum + 7 * k
  BY <1>2, <1>5
<1>7. sum \in Int
  BY <1>4
<1> HIDE DEF sum
<1>8. (ToDayNumber(date) + 4) % 7 = sum % 7
  BY <1>6, <1>7
<1> QED
  BY <1>1, <1>8

LEMMA WeekdayIsNumber ==
    ASSUME NEW date \in CivilDates
    PROVE  DayOfWeek(date) \in 1 .. 7
<1>1. date.year \in Int /\ date.month \in 1 .. 12 /\ date.day \in 1 .. 31
  BY DEF CivilDates
<1> DEFINE n == ToDayNumber(date)
<1>2. n \in Int
  BY <1>1, NumberIsInt
<1>3. DayOfWeek(date) = IF (n + 4) % 7 = 0 THEN 7 ELSE (n + 4) % 7
  BY <1>1, WeekdayOfNumber
<1> HIDE DEF n
<1> QED
  BY <1>2, <1>3

\* The day after is the next weekday.
LEMMA WeekdayOn ==
    ASSUME NEW one \in CivilDates, NEW two \in CivilDates,
           ToDayNumber(two) = ToDayNumber(one) + 1
    PROVE  DayOfWeek(two) = (DayOfWeek(one) % 7) + 1
<1>1. /\ one.year \in Int /\ one.month \in 1 .. 12 /\ one.day \in 1 .. 31
      /\ two.year \in Int /\ two.month \in 1 .. 12 /\ two.day \in 1 .. 31
  BY DEF CivilDates
<1> DEFINE n == ToDayNumber(one)
<1>2. n \in Int
  BY <1>1, NumberIsInt
<1>3. /\ DayOfWeek(one) = IF (n + 4) % 7 = 0 THEN 7 ELSE (n + 4) % 7
      /\ DayOfWeek(two) = IF (n + 5) % 7 = 0 THEN 7 ELSE (n + 5) % 7
  BY <1>1, <1>2, WeekdayOfNumber
<1> HIDE DEF n
<1> QED
  BY <1>2, <1>3

\* The day the numbers start from is a Thursday.
LEMMA Epoch == ToDayNumber(Date(1970, 1, 1)) = 0 /\ DayOfWeek(Date(1970, 1, 1)) = 4
  BY SMT DEF ToDayNumber, DayOfWeek, Date, DaysPerEra

\* The way back from a number to its date: the era, the year in it, and the month.
LEMMA EraBack ==
    ASSUME NEW era \in Int, NEW doe \in Int, 0 <= doe, doe <= 146096
    PROVE  (era * 146097 + doe) \div 146097 = era
OBVIOUS

LEMMA YearCut ==
    ASSUME NEW yoe \in 0 .. 399
    PROVE  \E c \in 0 .. 3, q \in 0 .. 24, r \in 0 .. 3 :
             /\ yoe = 100 * c + 4 * q + r
             /\ yoe \div 100 = c /\ yoe \div 4 = 25 * c + q
<1> DEFINE c == yoe \div 100
           q == (yoe % 100) \div 4
           r == yoe % 4
<1>1. c \in 0 .. 3 /\ q \in 0 .. 24 /\ r \in 0 .. 3
  OBVIOUS
<1>2. yoe = 100 * c + 4 * q + r /\ yoe \div 4 = 25 * c + q
  OBVIOUS
<1> HIDE DEF c, q, r
<1> QED
  BY <1>1, <1>2 DEF c

LEMMA YearBack ==
    ASSUME NEW c \in 0 .. 3, NEW q \in 0 .. 24, NEW r \in 0 .. 3, NEW doy \in 0 .. 365,
           doy = 365 => r = 3 /\ (q = 24 => c = 3)
    PROVE  LET doe == 36524 * c + 1461 * q + 365 * r + doy
           IN /\ 0 <= doe /\ doe <= 146096
              /\ (doe - doe \div 1460 + doe \div 36524 - doe \div 146096) \div 365
                   = 100 * c + 4 * q + r
OBVIOUS

LEMMA MonthBack ==
    ASSUME NEW date, date.month \in 1 .. 12, date.day \in 1 .. 31,
           date.day <= LengthOfMonth(date), date.year \in Int
    PROVE  /\ (5 * DayOfYear(date) + 2) \div 153 = MarchFirst(date)
           /\ DayOfYear(date) \in 0 .. 365
           /\ DayOfYear(date) = 365 => date.month = 2 /\ date.day = 29 /\ IsLeapYear(date.year)
<1>1. DayOfYear(date) = MonthStarts[date.month] + date.day - 1
  BY DayOfYearIs
<1>2. LengthOfMonth(date) = DaysInMonth(date.year, date.month)
  BY LengthIs
<1>3. date.day <= IF date.month = 2 THEN IF IsLeapYear(date.year) THEN 29 ELSE 28
                  ELSE << 31, 28, 31, 30, 31, 30, 31, 31, 30, 31, 30, 31 >>[date.month]
  BY <1>2 DEF DaysInMonth
<1> QED
  BY <1>1, <1>3 DEF MarchFirst, MonthStarts

\* fromDayNumber takes toDayNumber back, on every date that exists.
LEMMA NumberBack ==
    ASSUME NEW date \in CivilDates, date.day <= LengthOfMonth(date)
    PROVE  FromDayNumber(ToDayNumber(date)) = date
<1>1. date.year \in Nat /\ date.month \in 1 .. 12 /\ date.day \in 1 .. 31
  BY DEF CivilDates
<1> DEFINE y   == ShiftedYear(date)
           era == y \div 400
           yoe == y - era * 400
           doy == DayOfYear(date)
           doe == 365 * yoe + yoe \div 4 - yoe \div 100 + doy
<1>2. y \in Int /\ era \in Int /\ yoe \in 0 .. 399
  BY <1>1 DEF ShiftedYear
<1>3. ToDayNumber(date) + 719468 = era * 146097 + doe
  <2>1. ToDayNumber(date) = era * 146097 + yoe * 365 + yoe \div 4 - yoe \div 100 + doy - 719468
    BY DEF ToDayNumber, DaysPerEra, ShiftedYear, DayOfYear, MarchFirst
  <2>2. doy \in Int
    BY <1>1 DEF DayOfYear, MarchFirst
  <2> HIDE DEF era, yoe, doy
  <2> QED
    BY <1>2, <2>1, <2>2
<1>4. /\ (5 * doy + 2) \div 153 = MarchFirst(date) /\ doy \in 0 .. 365
      /\ doy = 365 => date.month = 2 /\ date.day = 29 /\ IsLeapYear(date.year)
  BY <1>1, MonthBack
<1>5. doy = 365 => y = date.year - 1 /\ IsLeapYear(y + 1)
  BY <1>1, <1>4 DEF ShiftedYear
<1> HIDE DEF y, doy
<1>6. PICK c \in 0 .. 3, q \in 0 .. 24, r \in 0 .. 3 :
        yoe = 100 * c + 4 * q + r /\ yoe \div 100 = c /\ yoe \div 4 = 25 * c + q
  <2> HIDE DEF yoe
  <2> QED
    BY <1>2, YearCut
<1>7. doy = 365 => r = 3 /\ (q = 24 => c = 3)
  <2>1. y = 400 * era + 100 * c + 4 * q + r
    BY <1>2, <1>6
  <2> HIDE DEF yoe, era
  <2> QED
    BY <1>2, <1>5, <2>1 DEF IsLeapYear
<1>8. doe = 36524 * c + 1461 * q + 365 * r + doy
  BY <1>4, <1>6
<1> HIDE DEF yoe, era
<1>9. /\ 0 <= doe /\ doe <= 146096
      /\ (doe - doe \div 1460 + doe \div 36524 - doe \div 146096) \div 365 = yoe
  BY <1>4, <1>6, <1>7, <1>8, YearBack
<1>10. doe \in Int
  BY <1>4, <1>8
<1>11. doe - (365 * yoe + yoe \div 4 - yoe \div 100) = doy
  BY <1>2, <1>4
<1> HIDE DEF doe
<1>12. (era * 146097 + doe) \div 146097 = era
  BY <1>2, <1>9, <1>10, EraBack
<1>13. (era * 146097 + doe) - era * 146097 = doe
  BY <1>2, <1>10
<1> DEFINE mf == (5 * doy + 2) \div 153
           month == mf + (IF mf < 10 THEN 3 ELSE -9)
<1>14. FromDayNumber(ToDayNumber(date))
         = Date(yoe + era * 400 + (IF month <= 2 THEN 1 ELSE 0), month,
                doy - (153 * mf + 2) \div 5 + 1)
  BY <1>3, <1>9, <1>11, <1>12, <1>13 DEF FromDayNumber, DaysPerEra
<1>15. mf = MarchFirst(date) /\ month = date.month
  BY <1>1, <1>4 DEF MarchFirst
<1>16. doy - (153 * mf + 2) \div 5 + 1 = date.day
  BY <1>1, <1>15 DEF doy, DayOfYear, MarchFirst
<1>17. yoe + era * 400 + (IF month <= 2 THEN 1 ELSE 0) = date.year
  BY <1>1, <1>2, <1>15 DEF yoe, y, ShiftedYear
<1>18. Date(date.year, date.month, date.day) = date
  BY DEF Date, CivilDates
<1> QED
  BY <1>14, <1>15, <1>16, <1>17, <1>18

\* endOfMonth is the day after which the month changes.
LEMMA EndOfMonthTells ==
    ASSUME NEW date \in CivilDates, date.day <= LengthOfMonth(date)
    PROVE  date = EndOfMonth(date) <=> Tomorrow(date).month # date.month
<1>1. /\ date = [ year |-> date.year, month |-> date.month, day |-> date.day ]
      /\ date.year \in Nat /\ date.month \in 1 .. 12 /\ date.day \in 1 .. 31
  BY DEF CivilDates
<1>2. LengthOfMonth(date) = DaysInMonth(date.year, date.month) /\ LengthOfMonth(date) \in 28 .. 31
  BY <1>1, LengthIs
<1>3. EndOfMonth(date) = [ year |-> date.year, month |-> date.month, day |-> LengthOfMonth(date) ]
  BY <1>1, <1>2 DEF EndOfMonth
<1>4. date = EndOfMonth(date) <=> date.day = LengthOfMonth(date)
  BY <1>1, <1>3
<1>5. CASE date.day < LengthOfMonth(date)
  <2>1. Tomorrow(date).month = date.month
    BY <1>1, <1>5 DEF Tomorrow
  <2> QED
    BY <1>1, <1>2, <1>4, <1>5, <2>1
<1>6. CASE ~ (date.day < LengthOfMonth(date))
  <2>1. Tomorrow(date).month = IF date.month < 12 THEN date.month + 1 ELSE 1
    BY <1>1, <1>6 DEF Tomorrow, Date
  <2> QED
    BY <1>1, <1>2, <1>4, <1>6, <2>1
<1> QED
  BY <1>5, <1>6

\* The day of a year that falls so many days after its Easter.
Falls(y, m, d, days) ==
    /\ m \in 1 .. 12 /\ d \in 1 .. 31 /\ d <= LengthOfMonth(Date(y, m, d))
    /\ ToDayNumber(Date(y, m, d)) = Easter(y) + days

\* A row of the table of holidays: Easter Monday, Ascension and Whit Monday.
IsRow(y, m1, d1, m2, d2, m3, d3) ==
    /\ MovableHolidays[y] = { << m1, d1 >>, << m2, d2 >>, << m3, d3 >> }
    /\ Falls(y, m1, d1, 1) /\ Falls(y, m2, d2, 39) /\ Falls(y, m3, d3, 50)

LEMMA EasterIsInt ==
    ASSUME NEW year \in Nat
    PROVE  Easter(year) \in Int
<1> DEFINE golden  == year % 19
           century == year \div 100
           moon    == (19 * golden + century - century \div 4
                       - (century - (century + 8) \div 25 + 1) \div 3 + 15) % 30
           sunday  == (32 + 2 * (century % 4) + 2 * ((year % 100) \div 4) - moon - (year % 4)) % 7
           late    == (golden + 11 * moon + 22 * sunday) \div 451
           march   == moon + sunday - 7 * late + 114
           easter  == Date(year, march \div 31, (march % 31) + 1)
<1>1. moon \in 0 .. 29
  OBVIOUS
<1>2. golden \in 0 .. 18
  OBVIOUS
<1> HIDE DEF moon, golden
<1>3. sunday \in 0 .. 6
  BY <1>1
<1> HIDE DEF sunday
<1>4. march \in 94 .. 150
  BY <1>1, <1>2, <1>3
<1> HIDE DEF march
<1>5. march \div 31 \in 1 .. 12 /\ (march % 31) + 1 \in 1 .. 31
  BY <1>4
<1>6. easter.year \in Int /\ easter.month \in 1 .. 12 /\ easter.day \in 1 .. 31
  BY <1>5 DEF Date
<1>7. ToDayNumber(easter) \in Int
  <2> HIDE DEF easter
  <2> QED
    BY <1>6, NumberIsInt
<1> QED
  BY <1>7 DEF Easter, march, sunday, moon, golden

\* Every row of the table is what Easter makes of its year.
LEMMA HolidayTable ==
    ASSUME NEW y \in KnownYears
    PROVE  \E m1, d1, m2, d2, m3, d3 : IsRow(y, m1, d1, m2, d2, m3, d3)
<1>1. IsRow(2016, 3, 28, 5, 5, 5, 16)
  <2>1. MovableHolidays[2016] = { << 3, 28 >>, << 5, 5 >>, << 5, 16 >> }
    BY SMT DEF MovableHolidays
  <2>2. Easter(2016) = 16887
    BY SMT DEF Easter, ToDayNumber, Date, DaysPerEra
  <2>3. Falls(2016, 3, 28, 1)
    BY <2>2, SMT DEF Falls, ToDayNumber, Date, DaysPerEra, LengthOfMonth
  <2>4. Falls(2016, 5, 5, 39)
    BY <2>2, SMT DEF Falls, ToDayNumber, Date, DaysPerEra, LengthOfMonth
  <2>5. Falls(2016, 5, 16, 50)
    BY <2>2, SMT DEF Falls, ToDayNumber, Date, DaysPerEra, LengthOfMonth
  <2> QED
    BY <2>1, <2>3, <2>4, <2>5 DEF IsRow
<1>2. IsRow(2017, 4, 17, 5, 25, 6, 5)
  <2>1. MovableHolidays[2017] = { << 4, 17 >>, << 5, 25 >>, << 6, 5 >> }
    BY SMT DEF MovableHolidays
  <2>2. Easter(2017) = 17272
    BY SMT DEF Easter, ToDayNumber, Date, DaysPerEra
  <2>3. Falls(2017, 4, 17, 1)
    BY <2>2, SMT DEF Falls, ToDayNumber, Date, DaysPerEra, LengthOfMonth
  <2>4. Falls(2017, 5, 25, 39)
    BY <2>2, SMT DEF Falls, ToDayNumber, Date, DaysPerEra, LengthOfMonth
  <2>5. Falls(2017, 6, 5, 50)
    BY <2>2, SMT DEF Falls, ToDayNumber, Date, DaysPerEra, LengthOfMonth
  <2> QED
    BY <2>1, <2>3, <2>4, <2>5 DEF IsRow
<1>3. IsRow(2018, 4, 2, 5, 10, 5, 21)
  <2>1. MovableHolidays[2018] = { << 4, 2 >>, << 5, 10 >>, << 5, 21 >> }
    BY SMT DEF MovableHolidays
  <2>2. Easter(2018) = 17622
    BY SMT DEF Easter, ToDayNumber, Date, DaysPerEra
  <2>3. Falls(2018, 4, 2, 1)
    BY <2>2, SMT DEF Falls, ToDayNumber, Date, DaysPerEra, LengthOfMonth
  <2>4. Falls(2018, 5, 10, 39)
    BY <2>2, SMT DEF Falls, ToDayNumber, Date, DaysPerEra, LengthOfMonth
  <2>5. Falls(2018, 5, 21, 50)
    BY <2>2, SMT DEF Falls, ToDayNumber, Date, DaysPerEra, LengthOfMonth
  <2> QED
    BY <2>1, <2>3, <2>4, <2>5 DEF IsRow
<1>4. IsRow(2019, 4, 22, 5, 30, 6, 10)
  <2>1. MovableHolidays[2019] = { << 4, 22 >>, << 5, 30 >>, << 6, 10 >> }
    BY SMT DEF MovableHolidays
  <2>2. Easter(2019) = 18007
    BY SMT DEF Easter, ToDayNumber, Date, DaysPerEra
  <2>3. Falls(2019, 4, 22, 1)
    BY <2>2, SMT DEF Falls, ToDayNumber, Date, DaysPerEra, LengthOfMonth
  <2>4. Falls(2019, 5, 30, 39)
    BY <2>2, SMT DEF Falls, ToDayNumber, Date, DaysPerEra, LengthOfMonth
  <2>5. Falls(2019, 6, 10, 50)
    BY <2>2, SMT DEF Falls, ToDayNumber, Date, DaysPerEra, LengthOfMonth
  <2> QED
    BY <2>1, <2>3, <2>4, <2>5 DEF IsRow
<1>5. IsRow(2020, 4, 13, 5, 21, 6, 1)
  <2>1. MovableHolidays[2020] = { << 4, 13 >>, << 5, 21 >>, << 6, 1 >> }
    BY SMT DEF MovableHolidays
  <2>2. Easter(2020) = 18364
    BY SMT DEF Easter, ToDayNumber, Date, DaysPerEra
  <2>3. Falls(2020, 4, 13, 1)
    BY <2>2, SMT DEF Falls, ToDayNumber, Date, DaysPerEra, LengthOfMonth
  <2>4. Falls(2020, 5, 21, 39)
    BY <2>2, SMT DEF Falls, ToDayNumber, Date, DaysPerEra, LengthOfMonth
  <2>5. Falls(2020, 6, 1, 50)
    BY <2>2, SMT DEF Falls, ToDayNumber, Date, DaysPerEra, LengthOfMonth
  <2> QED
    BY <2>1, <2>3, <2>4, <2>5 DEF IsRow
<1>6. IsRow(2021, 4, 5, 5, 13, 5, 24)
  <2>1. MovableHolidays[2021] = { << 4, 5 >>, << 5, 13 >>, << 5, 24 >> }
    BY SMT DEF MovableHolidays
  <2>2. Easter(2021) = 18721
    BY SMT DEF Easter, ToDayNumber, Date, DaysPerEra
  <2>3. Falls(2021, 4, 5, 1)
    BY <2>2, SMT DEF Falls, ToDayNumber, Date, DaysPerEra, LengthOfMonth
  <2>4. Falls(2021, 5, 13, 39)
    BY <2>2, SMT DEF Falls, ToDayNumber, Date, DaysPerEra, LengthOfMonth
  <2>5. Falls(2021, 5, 24, 50)
    BY <2>2, SMT DEF Falls, ToDayNumber, Date, DaysPerEra, LengthOfMonth
  <2> QED
    BY <2>1, <2>3, <2>4, <2>5 DEF IsRow
<1>7. IsRow(2022, 4, 18, 5, 26, 6, 6)
  <2>1. MovableHolidays[2022] = { << 4, 18 >>, << 5, 26 >>, << 6, 6 >> }
    BY SMT DEF MovableHolidays
  <2>2. Easter(2022) = 19099
    BY SMT DEF Easter, ToDayNumber, Date, DaysPerEra
  <2>3. Falls(2022, 4, 18, 1)
    BY <2>2, SMT DEF Falls, ToDayNumber, Date, DaysPerEra, LengthOfMonth
  <2>4. Falls(2022, 5, 26, 39)
    BY <2>2, SMT DEF Falls, ToDayNumber, Date, DaysPerEra, LengthOfMonth
  <2>5. Falls(2022, 6, 6, 50)
    BY <2>2, SMT DEF Falls, ToDayNumber, Date, DaysPerEra, LengthOfMonth
  <2> QED
    BY <2>1, <2>3, <2>4, <2>5 DEF IsRow
<1>8. IsRow(2023, 4, 10, 5, 18, 5, 29)
  <2>1. MovableHolidays[2023] = { << 4, 10 >>, << 5, 18 >>, << 5, 29 >> }
    BY SMT DEF MovableHolidays
  <2>2. Easter(2023) = 19456
    BY SMT DEF Easter, ToDayNumber, Date, DaysPerEra
  <2>3. Falls(2023, 4, 10, 1)
    BY <2>2, SMT DEF Falls, ToDayNumber, Date, DaysPerEra, LengthOfMonth
  <2>4. Falls(2023, 5, 18, 39)
    BY <2>2, SMT DEF Falls, ToDayNumber, Date, DaysPerEra, LengthOfMonth
  <2>5. Falls(2023, 5, 29, 50)
    BY <2>2, SMT DEF Falls, ToDayNumber, Date, DaysPerEra, LengthOfMonth
  <2> QED
    BY <2>1, <2>3, <2>4, <2>5 DEF IsRow
<1>9. IsRow(2024, 4, 1, 5, 9, 5, 20)
  <2>1. MovableHolidays[2024] = { << 4, 1 >>, << 5, 9 >>, << 5, 20 >> }
    BY SMT DEF MovableHolidays
  <2>2. Easter(2024) = 19813
    BY SMT DEF Easter, ToDayNumber, Date, DaysPerEra
  <2>3. Falls(2024, 4, 1, 1)
    BY <2>2, SMT DEF Falls, ToDayNumber, Date, DaysPerEra, LengthOfMonth
  <2>4. Falls(2024, 5, 9, 39)
    BY <2>2, SMT DEF Falls, ToDayNumber, Date, DaysPerEra, LengthOfMonth
  <2>5. Falls(2024, 5, 20, 50)
    BY <2>2, SMT DEF Falls, ToDayNumber, Date, DaysPerEra, LengthOfMonth
  <2> QED
    BY <2>1, <2>3, <2>4, <2>5 DEF IsRow
<1>10. IsRow(2025, 4, 21, 5, 29, 6, 9)
  <2>1. MovableHolidays[2025] = { << 4, 21 >>, << 5, 29 >>, << 6, 9 >> }
    BY SMT DEF MovableHolidays
  <2>2. Easter(2025) = 20198
    BY SMT DEF Easter, ToDayNumber, Date, DaysPerEra
  <2>3. Falls(2025, 4, 21, 1)
    BY <2>2, SMT DEF Falls, ToDayNumber, Date, DaysPerEra, LengthOfMonth
  <2>4. Falls(2025, 5, 29, 39)
    BY <2>2, SMT DEF Falls, ToDayNumber, Date, DaysPerEra, LengthOfMonth
  <2>5. Falls(2025, 6, 9, 50)
    BY <2>2, SMT DEF Falls, ToDayNumber, Date, DaysPerEra, LengthOfMonth
  <2> QED
    BY <2>1, <2>3, <2>4, <2>5 DEF IsRow
<1>11. IsRow(2026, 4, 6, 5, 14, 5, 25)
  <2>1. MovableHolidays[2026] = { << 4, 6 >>, << 5, 14 >>, << 5, 25 >> }
    BY SMT DEF MovableHolidays
  <2>2. Easter(2026) = 20548
    BY SMT DEF Easter, ToDayNumber, Date, DaysPerEra
  <2>3. Falls(2026, 4, 6, 1)
    BY <2>2, SMT DEF Falls, ToDayNumber, Date, DaysPerEra, LengthOfMonth
  <2>4. Falls(2026, 5, 14, 39)
    BY <2>2, SMT DEF Falls, ToDayNumber, Date, DaysPerEra, LengthOfMonth
  <2>5. Falls(2026, 5, 25, 50)
    BY <2>2, SMT DEF Falls, ToDayNumber, Date, DaysPerEra, LengthOfMonth
  <2> QED
    BY <2>1, <2>3, <2>4, <2>5 DEF IsRow
<1>12. IsRow(2027, 3, 29, 5, 6, 5, 17)
  <2>1. MovableHolidays[2027] = { << 3, 29 >>, << 5, 6 >>, << 5, 17 >> }
    BY SMT DEF MovableHolidays
  <2>2. Easter(2027) = 20905
    BY SMT DEF Easter, ToDayNumber, Date, DaysPerEra
  <2>3. Falls(2027, 3, 29, 1)
    BY <2>2, SMT DEF Falls, ToDayNumber, Date, DaysPerEra, LengthOfMonth
  <2>4. Falls(2027, 5, 6, 39)
    BY <2>2, SMT DEF Falls, ToDayNumber, Date, DaysPerEra, LengthOfMonth
  <2>5. Falls(2027, 5, 17, 50)
    BY <2>2, SMT DEF Falls, ToDayNumber, Date, DaysPerEra, LengthOfMonth
  <2> QED
    BY <2>1, <2>3, <2>4, <2>5 DEF IsRow
<1>13. y \in 2016 .. 2027
  BY DEF KnownYears, MovableHolidays
<1> QED
  BY <1>1, <1>2, <1>3, <1>4, <1>5, <1>6, <1>7, <1>8, <1>9, <1>10, <1>11, <1>12, <1>13

\* A day falls so many days after Easter when it is that day.
LEMMA FallsOnOneDay ==
    ASSUME NEW date \in CivilDates, date.day <= LengthOfMonth(date),
           NEW m, NEW d, NEW days \in Int, Falls(date.year, m, d, days)
    PROVE  << date.month, date.day >> = << m, d >> <=> ToDayNumber(date) = Easter(date.year) + days
<1> DEFINE feast == Date(date.year, m, d)
<1>1. /\ date = [ year |-> date.year, month |-> date.month, day |-> date.day ]
      /\ date.year \in Nat /\ date.month \in 1 .. 12 /\ date.day \in 1 .. 31
  BY DEF CivilDates
<1>2. feast = [ year |-> date.year, month |-> m, day |-> d ]
  BY DEF Date
<1>3. m \in 1 .. 12 /\ d \in 1 .. 31
  BY DEF Falls
<1>4. feast \in CivilDates /\ feast.month = m /\ feast.day = d
  BY <1>1, <1>2, <1>3 DEF CivilDates
<1>5. feast.day <= LengthOfMonth(feast) /\ ToDayNumber(feast) = Easter(date.year) + days
  BY <1>4 DEF Falls
<1>6. << date.month, date.day >> = << m, d >> <=> date = feast
  <2>1. << date.month, date.day >> = << m, d >> => date = feast
    <3>1. << date.month, date.day >> = << m, d >> => date.month = m /\ date.day = d
      OBVIOUS
    <3> QED
      BY <1>1, <1>2, <3>1
  <2> QED
    BY <1>4, <2>1
<1> HIDE DEF feast
<1>7. ToDayNumber(date) = ToDayNumber(feast) => date = feast
  BY <1>4, <1>5, NumberBack
<1> QED
  BY <1>5, <1>6, <1>7

LEMMA MovableFeasts ==
    ASSUME NEW date \in CivilDates, date.day <= LengthOfMonth(date), date.year \in KnownYears
    PROVE  << date.month, date.day >> \in MovableHolidays[date.year]
             <=> ToDayNumber(date) - Easter(date.year) \in {1, 39, 50}
<1>1. PICK m1, d1, m2, d2, m3, d3 : IsRow(date.year, m1, d1, m2, d2, m3, d3)
  BY HolidayTable
<1> DEFINE n == ToDayNumber(date)
           e == Easter(date.year)
           at == << date.month, date.day >>
<1>2. /\ MovableHolidays[date.year] = { << m1, d1 >>, << m2, d2 >>, << m3, d3 >> }
      /\ Falls(date.year, m1, d1, 1) /\ Falls(date.year, m2, d2, 39)
      /\ Falls(date.year, m3, d3, 50)
  BY <1>1 DEF IsRow
<1>3. /\ at = << m1, d1 >> <=> n = e + 1
      /\ at = << m2, d2 >> <=> n = e + 39
      /\ at = << m3, d3 >> <=> n = e + 50
  <2>1. ASSUME NEW m, NEW d, NEW days \in Int, Falls(date.year, m, d, days)
        PROVE  at = << m, d >> <=> n = e + days
    BY <2>1, FallsOnOneDay
  <2> HIDE DEF at, n, e
  <2>2. 1 \in Int /\ 39 \in Int /\ 50 \in Int
    OBVIOUS
  <2> QED
    BY <1>2, <2>1, <2>2
<1>4. n \in Int
  BY NumberIsInt DEF CivilDates
<1>5. e \in Int
  <2>1. date.year \in Nat
    BY DEF CivilDates
  <2> QED
    BY <2>1, EasterIsInt
<1> HIDE DEF n, e, at
<1>6. at \in MovableHolidays[date.year] <=> n - e \in {1, 39, 50}
  BY <1>2, <1>3, <1>4, <1>5
<1> QED
  BY <1>6 DEF n, e, at

\* Counting by day numbers and weekdays, the code never leaves the wall calendar.
LEMMA CalendarKept == DSpec => []CalendarInv
<1>1. DInit => CalendarInv
  <2> SUFFICES ASSUME DInit PROVE CalendarInv
    OBVIOUS
  <2>1. PICK window \in Windows :
          today = window.from /\ dayNumber = window.dayNumber /\ weekday = window.weekday
    BY DEF DInit
  <2>2. window.from \in CivilDates /\ Exists(window.from)
    BY WindowsAssumption
  <2>3. LengthOfMonth(today) = DaysInMonth(today.year, today.month)
    BY <2>1, <2>2, LengthIs DEF CivilDates
  <2> QED
    BY <2>1, <2>2, <2>3, WindowsAssumption DEF CalendarInv, Exists
<1>2. CalendarInv /\ [DNext]_dvars => CalendarInv'
  <2> SUFFICES ASSUME CalendarInv, [DNext]_dvars PROVE CalendarInv'
    OBVIOUS
  <2>1. CASE Midnight
    <3>1. /\ today \in CivilDates /\ today.day <= LengthOfMonth(today)
          /\ dayNumber = ToDayNumber(today) /\ weekday = DayOfWeek(today)
      BY DEF CalendarInv
    <3>2. today' = Tomorrow(today) /\ dayNumber' = dayNumber + 1 /\ weekday' = (weekday % 7) + 1
      BY <2>1 DEF Midnight
    <3>3. /\ today' \in CivilDates /\ today'.day <= LengthOfMonth(today')
          /\ ToDayNumber(today') = ToDayNumber(today) + 1
      BY <3>1, <3>2, OneDayOn
    <3>4. DayOfWeek(today') = (DayOfWeek(today) % 7) + 1
      BY <3>1, <3>3, WeekdayOn
    <3> QED
      BY <3>1, <3>2, <3>3, <3>4 DEF CalendarInv
  <2>2. CASE UNCHANGED calendar
    BY <2>2 DEF CalendarInv, calendar
  <2>3. CASE UNCHANGED dvars
    BY <2>2, <2>3 DEF dvars
  <2> QED
    <3>1. AmendReference => UNCHANGED calendar
      BY DEF AmendReference
    <3>2. ASSUME NEW event \in Events PROVE DraftInvoices(event) \/ RefuseDraft(event) => UNCHANGED calendar
      BY DEF DraftInvoices, RefuseDraft, Validated
    <3>3. ASSUME NEW client, NEW by PROVE Issue(client, by) => UNCHANGED calendar
      BY DEF Issue
    <3>4. ASSUME NEW client PROVE CreditNote(client) => UNCHANGED calendar
      BY DEF CreditNote
    <3>5. \A event \in Events : DraftInvoices(event) \/ RefuseDraft(event) => UNCHANGED calendar
      BY <3>2
    <3>6. \A client, by : Issue(client, by) => UNCHANGED calendar
      BY <3>3
    <3>7. \A client : CreditNote(client) => UNCHANGED calendar
      BY <3>4
    <3> QED
      BY <2>1, <2>2, <2>3, <3>1, <3>5, <3>6, <3>7 DEF DNext
<1> QED
  BY <1>1, <1>2, PTL DEF DSpec

\* The days kept are those without a reason.
LEMMA WorkableDaysAre ==
    ASSUME NEW date \in CivilDates, date.day <= LengthOfMonth(date)
    PROVE  LET workable == WorkableDaysOf(PeriodOf(date))
           IN (\E n \in 1 .. Len(workable) : workable[n] = date) <=> NonWorkableReason(date) = None
<1>1. /\ date = [ year |-> date.year, month |-> date.month, day |-> date.day ]
      /\ date.year \in Nat /\ date.month \in 1 .. 12 /\ date.day \in 1 .. 31
  BY DEF CivilDates
<1> DEFINE length == LengthOfMonth(date)
           days == DaysOf(PeriodOf(date))
           kept == { n \in DOMAIN days : NonWorkableReason(days[n]) = None }
           places == InOrder(kept, LAMBDA n : n)
           count == Cardinality(kept)
           workable == WorkableDaysOf(PeriodOf(date))
<1>2. length \in 28 .. 31 /\ length = DaysInMonth(date.year, date.month)
  BY <1>1, LengthIs
<1>3. days = [ n \in 1 .. length |-> Date(date.year, date.month, n) ]
  BY <1>2 DEF DaysOf, PeriodOf
<1>4. workable = [ k \in DOMAIN places |-> days[places[k]] ]
  BY DEF WorkableDaysOf
<1>5. kept \in SUBSET (1 .. length)
  BY <1>3
<1>6. date.day \in kept <=> NonWorkableReason(date) = None
  <2>1. date = Date(date.year, date.month, date.day)
    BY <1>1 DEF Date
  <2>2. date.day \in 1 .. length
    BY <1>1, <1>2
  <2> HIDE DEF length
  <2>3. DOMAIN days = 1 .. length /\ days[date.day] = date
    BY <1>3, <2>1, <2>2
  <2> QED
    BY <2>2, <2>3
<1>7. \A n \in kept : days[n] = date => n = date.day
  BY <1>3, <1>5 DEF Date
<1>8. \A n \in kept : n = date.day => days[n] = date
  BY <1>1, <1>3, <1>5 DEF Date
<1> HIDE DEF length, days, kept
<1>9. kept \in SUBSET Nat /\ IsFiniteSet(kept)
  <2>1. IsFiniteSet(1 .. length)
    BY <1>2, FS_Interval
  <2>2. IsFiniteSet(kept)
    BY <1>5, <2>1, FS_Subset
  <2> QED
    BY <1>2, <1>5, <2>2
<1>10. /\ places \in [ 1 .. count -> kept ]
       /\ \A x \in kept : \E i \in 1 .. count : places[i] = x
  BY <1>9, NumbersInOrder
<1>11. count \in Nat
  BY <1>9, FS_CardinalityType
<1> HIDE DEF places, count, workable
<1>12. /\ DOMAIN workable = 1 .. count /\ Len(workable) = count
       /\ \A k \in 1 .. count : workable[k] = days[places[k]]
  BY <1>4, <1>10, <1>11
<1>13. (\E n \in 1 .. count : workable[n] = date) <=> date.day \in kept
  BY <1>7, <1>8, <1>10, <1>12
<1> QED
  BY <1>6, <1>12, <1>13 DEF workable

LEMMA LawAgrees == CalendarInv => WorkableAsTheLawSays
<1> SUFFICES ASSUME CalendarInv, today.year \in KnownYears
             PROVE  LET workable == WorkableDaysOf(PeriodOf(today))
                    IN (\E n \in 1 .. Len(workable) : workable[n] = today) <=>
                         /\ weekday < 6
                         /\ << today.month, today.day >> \notin FixedHolidays
                         /\ dayNumber - Easter(today.year) \notin {1, 39, 50}
  BY DEF WorkableAsTheLawSays
<1>1. /\ today \in CivilDates /\ today.day <= LengthOfMonth(today)
      /\ dayNumber = ToDayNumber(today) /\ weekday = DayOfWeek(today)
  BY DEF CalendarInv
<1>2. NonWorkableReason(today) = None <=> ~ IsWeekend(today) /\ ~ IsPublicHoliday(today)
  BY NoneAssumption DEF NonWorkableReason, NonWorkableDays
<1>3. IsWeekend(today) <=> ~ (weekday < 6)
  <2>1. weekday \in 1 .. 7
    BY <1>1, WeekdayIsNumber
  <2> QED
    BY <1>1, <2>1 DEF IsWeekend
<1>4. IsPublicHoliday(today) <=> \/ << today.month, today.day >> \in FixedHolidays
                                 \/ dayNumber - Easter(today.year) \in {1, 39, 50}
  BY <1>1, MovableFeasts DEF IsPublicHoliday
<1>5. LET workable == WorkableDaysOf(PeriodOf(today))
      IN (\E n \in 1 .. Len(workable) : workable[n] = today) <=> NonWorkableReason(today) = None
  BY <1>1, WorkableDaysAre
<1> QED
  BY <1>2, <1>3, <1>4, <1>5

\* The date arithmetic never drifts from a calendar counted day by day, in whatever year the
\* count starts, and the table of holidays is what the law and the date of Easter make of it
\* (ADR-0004, ADR-0078).
THEOREM CalendarNeverDrifts == DSpec => []CalendarAgrees
<1>1. CalendarInv => CalendarAgrees
  <2> SUFFICES ASSUME CalendarInv PROVE CalendarAgrees
    OBVIOUS
  <2>1. /\ today \in CivilDates /\ today.day <= LengthOfMonth(today)
        /\ dayNumber = ToDayNumber(today) /\ weekday = DayOfWeek(today)
    BY DEF CalendarInv
  <2>2. FromDayNumber(dayNumber) = today
    BY <2>1, NumberBack
  <2>3. today = EndOfMonth(today) <=> Tomorrow(today).month # today.month
    BY <2>1, EndOfMonthTells
  <2> QED
    BY <2>1, <2>2, <2>3, LawAgrees DEF CalendarAgrees
<1> QED
  BY <1>1, CalendarKept, PTL

-----------------------------------------------------------------------------
(* What the rows tell of an invoice.                                       *)

\* Days are cut into the four centuries of an era, their leap cycles and their years.
Cut(doe, c, q, r, doy) ==
    /\ doe = 36524 * c + 1461 * q + 365 * r + doy
    /\ doy = 365 => r = 3 /\ (q = 24 => c = 3)

LEMMA EraCut ==
    ASSUME NEW doe \in Nat, doe < DaysPerEra
    PROVE  \E c \in 0 .. 3, q \in 0 .. 24, r \in 0 .. 3, doy \in 0 .. 365 :
             Cut(doe, c, q, r, doy)
<1>1. PICK c \in 0 .. 3 : 36524 * c <= doe /\ (c < 3 => doe < 36524 * (c + 1))
  BY DEF DaysPerEra
<1>2. PICK rest \in Int : doe = 36524 * c + rest /\ 0 <= rest
                         /\ rest <= IF c = 3 THEN 36524 ELSE 36523
  BY <1>1 DEF DaysPerEra
<1> DEFINE q == rest \div 1461
           left == rest % 1461
<1>3. /\ q \in 0 .. 24 /\ left \in 0 .. 1460 /\ rest = 1461 * q + left
      /\ q = 24 /\ c < 3 => left <= 1459
  BY <1>2
<1> HIDE DEF q, left
<1>4. PICK r \in 0 .. 3 : 365 * r <= left /\ (r < 3 => left < 365 * (r + 1))
  BY <1>3
<1> DEFINE doy == left - 365 * r
<1>5. doy \in 0 .. 365 /\ left = 365 * r + doy /\ (doy = 365 => r = 3 /\ (q = 24 => c = 3))
  BY <1>3, <1>4
<1> HIDE DEF doy
<1>6. Cut(doe, c, q, r, doy)
  BY <1>2, <1>3, <1>5 DEF Cut
<1>7. q \in 0 .. 24 /\ doy \in 0 .. 365
  BY <1>3, <1>5
<1> QED
  BY <1>6, <1>7, Zenon

\* Whatever number it is given, fromDayNumber answers a month and a day of one.
LEMMA DateOfNumber ==
    ASSUME NEW days \in Int
    PROVE  FromDayNumber(days) \in [ year : Int, month : 1 .. 12, day : 1 .. 31 ]
<1> DEFINE shifted == days + 719468
           era == shifted \div 146097
           doe == shifted - era * 146097
           yoe == (doe - doe \div 1460 + doe \div 36524 - doe \div 146096) \div 365
           doy == doe - (365 * yoe + yoe \div 4 - yoe \div 100)
           mf == (5 * doy + 2) \div 153
           month == mf + (IF mf < 10 THEN 3 ELSE -9)
           day == doy - (153 * mf + 2) \div 5 + 1
           year == yoe + era * 400 + (IF month <= 2 THEN 1 ELSE 0)
<1>1. FromDayNumber(days) = [ year |-> year, month |-> month, day |-> day ]
  BY SMT DEF FromDayNumber, DaysPerEra, Date
<1> HIDE DEF yoe, doy, mf, month, day, year
<1>2. era \in Int /\ doe \in Nat /\ doe < DaysPerEra
  BY SMT DEF DaysPerEra
<1> HIDE DEF shifted, era, doe
<1>3. PICK c \in 0 .. 3, q \in 0 .. 24, r \in 0 .. 3, d \in 0 .. 365 : Cut(doe, c, q, r, d)
  BY <1>2, EraCut
<1>4. yoe = 100 * c + 4 * q + r
  BY <1>3, YearBack DEF yoe, Cut
<1>5. yoe \in Int /\ yoe \div 100 = c /\ yoe \div 4 = 25 * c + q
  BY <1>4
<1>6. doy = d
  BY <1>3, <1>4, <1>5 DEF doy, Cut
<1>7. mf \in 0 .. 11 /\ month \in 1 .. 12 /\ day \in 1 .. 31
  BY <1>6 DEF mf, month, day
<1>8. year \in Int
  BY <1>2, <1>5, <1>7 DEF year
<1> QED
  BY <1>1, <1>7, <1>8

\* A due date is a date.
LEMMA DueDateIsDate ==
    ASSUME NEW terms, IsPaymentTerms(terms), NEW date \in CivilDates
    PROVE  DueDate(terms, date) # None
<1>1. date.year \in Int /\ date.month \in 1 .. 12 /\ date.day \in 1 .. 31 /\ terms.days \in Int
  BY DEF CivilDates, IsPaymentTerms
<1> DEFINE n == ToDayNumber(date)
           shifted == FromDayNumber(n + terms.days)
<1>2. n \in Int
  BY <1>1, NumberIsInt
<1> HIDE DEF n
<1>3. shifted \in [ year : Int, month : 1 .. 12, day : 1 .. 31 ]
  BY <1>1, <1>2, DateOfNumber
<1>4. DueDate(terms, date) = IF terms.kind = "net" THEN shifted ELSE EndOfMonth(shifted)
  BY DEF DueDate, AddDays, n
<1> HIDE DEF shifted
<1>5. EndOfMonth(shifted) \in [ year : Int, month : 1 .. 12, day : 1 .. 31 ]
  <2>1. shifted.year \in Int /\ shifted.month \in 1 .. 12
    BY <1>3
  <2>2. DaysInMonth(shifted.year, shifted.month) \in 1 .. 31
    BY <2>1 DEF DaysInMonth
  <2> QED
    BY <1>3, <2>2 DEF EndOfMonth
<1> QED
  BY <1>3, <1>4, <1>5, NoneAssumption

\* What is read back of an invoice is what reconstitute lets through.
LEMMA DocumentCoherent ==
    ASSUME DocInv, NEW client \in Drafted
    PROVE  Coherent(written[client].invoice)
<1> DEFINE invoice == written[client].invoice
           draft   == AsDrafted(client)
<1>1. /\ cra \in Events /\ Drafts(cra) /\ client \in ClientsBilled(cra)
      /\ IsInvoice(draft) /\ IsPaymentTerms(draft.terms)
  BY DraftedFrom DEF IsInvoice
<1>2. draft.lines = LinesFor(cra, client)
  BY DEF AsDrafted, NewInvoice
<1>3. CASE invoice = draft
  <2>1. IssuedFields(draft) = {None} /\ draft.status = "draft"
    BY DEF AsDrafted, NewInvoice, IssuedFields
  <2> HIDE DEF invoice
  <2> QED
    BY <1>3, <2>1 DEF Coherent, invoice
<1>4. ASSUME NEW date \in Openings, NEW n \in 1 .. lastSequence[date.year],
             \/ invoice = Issued(draft, n, date) /\ invoice.status = "issued"
             \/ /\ invoice = Cancelled(Issued(draft, n, date))
                /\ invoice.status = "cancelledByCreditNote"
      PROVE  Coherent(invoice)
  <2>1. date \in CivilDates /\ date.year \in Nat
    BY OpeningsAssumption DEF CivilDates
  <2>2. /\ invoice.sequence = n /\ invoice.series = date.year /\ invoice.issueDate = date
        /\ invoice.dueDate = DueDate(draft.terms, date)
        /\ invoice.totals = TotalsOf(draft.lines)
        /\ invoice.vatGroups = VatBreakdownOf(draft.lines)
    <3> DEFINE issued == Issued(draft, n, date)
    <3> HIDE DEF draft
    <3>1. /\ IsInvoice(issued) /\ issued.status = "issued"
          /\ issued.sequence = n /\ issued.series = date.year /\ issued.issueDate = date
          /\ issued.dueDate = DueDate(draft.terms, date)
          /\ issued.totals = TotalsOf(draft.lines)
          /\ issued.vatGroups = VatBreakdownOf(draft.lines)
      BY <1>1, IssuedIs
    <3>2. invoice = issued \/ invoice = Cancelled(issued)
      BY <1>4
    <3> HIDE DEF issued, invoice
    <3> QED
      BY <3>1, <3>2, CancelledIs
  <2>3. n # None /\ date.year # None /\ date # None
    BY <2>1, NoneAssumption
  <2>4. DueDate(draft.terms, date) # None
    <3> HIDE DEF draft
    <3> QED
      BY <1>1, <2>1, DueDateIsDate
  <2>5. TotalsOf(draft.lines) # None
    <3> HIDE DEF draft
    <3> QED
      BY <1>1, TotalsAreAmounts, NoneAssumption DEF IsInvoice
  <2>6. VatBreakdownOf(draft.lines) # None
    BY <1>1, <1>2, NoneAssumption
  <2> HIDE DEF invoice, draft
  <2>7. None \notin IssuedFields(invoice)
    BY <2>2, <2>3, <2>4, <2>5, <2>6 DEF IssuedFields
  <2>8. invoice.status # "draft"
    BY <1>4
  <2> QED
    BY <2>7, <2>8 DEF Coherent
<1>5. \/ invoice = draft
      \/ \E date \in Openings : \E n \in 1 .. lastSequence[date.year] :
           \/ invoice = Issued(draft, n, date) /\ invoice.status = "issued"
           \/ /\ invoice = Cancelled(Issued(draft, n, date))
              /\ invoice.status = "cancelledByCreditNote"
  <2> HIDE DEF invoice, draft
  <2> QED
    BY DocumentIs DEF invoice, draft
<1> HIDE DEF invoice, draft
<1> QED
  BY <1>3, <1>4, <1>5 DEF invoice

\* The sums the lists compute, each as one of the functions above.
LEMMA HtSum ==
    ASSUME NEW stored, IsFiniteSet(stored.lines),
           \A line \in stored.lines : line.amount_cents \in Nat
    PROVE  /\ [ line \in stored.lines |-> line.amount_cents ] \in [ stored.lines -> Nat ]
           /\ \E g : /\ IsSum(g, stored.lines, [ line \in stored.lines |-> line.amount_cents ])
                    /\ HtOfLines(stored) = g[stored.lines]
<1> DEFINE S == stored.lines
           w == [ line \in S |-> line.amount_cents ]
           P(g) == g = [ s \in SUBSET S |->
                         IF s = {} THEN 0 ELSE (CHOOSE x \in s : TRUE).amount_cents
                                               + g[s \ {CHOOSE x \in s : TRUE}] ]
           iter == CHOOSE g : P(g)
<1>1. HtOfLines(stored) = iter[S]
  BY DEF HtOfLines, MapThenSumSet, MapThenFoldSet
<1>2. w \in [ S -> Nat ]
  OBVIOUS
<1>3. \A g : P(g) <=> IsSum(g, S, w)
  <2> HIDE DEF S
  <2> QED
    BY ChosenIn DEF Chosen, IsSum
<1>4. \E g : IsSum(g, S, w)
  <2> HIDE DEF w, S
  <2> QED
    BY <1>2, SumExists DEF S
<1>5. P(iter)
  <2> HIDE DEF P
  <2> QED
    BY <1>3, <1>4
<1> HIDE DEF P, iter
<1> QED
  BY <1>1, <1>2, <1>3, <1>5

LEMMA TaxOfRowsSum ==
    ASSUME NEW stored, IsFiniteSet(stored.groups),
           \A group \in stored.groups : Coalesce(group.tax_cents, 0) \in Nat
    PROVE  /\ [ group \in stored.groups |-> Coalesce(group.tax_cents, 0) ]
                \in [ stored.groups -> Nat ]
           /\ \E g : /\ IsSum(g, stored.groups,
                             [ group \in stored.groups |-> Coalesce(group.tax_cents, 0) ])
                    /\ TaxOfGroups(stored) = g[stored.groups]
<1> DEFINE S == stored.groups
           w == [ group \in S |-> Coalesce(group.tax_cents, 0) ]
           P(g) == g = [ s \in SUBSET S |->
                         IF s = {} THEN 0 ELSE Coalesce((CHOOSE x \in s : TRUE).tax_cents, 0)
                                               + g[s \ {CHOOSE x \in s : TRUE}] ]
           iter == CHOOSE g : P(g)
<1>1. TaxOfGroups(stored) = iter[S]
  BY DEF TaxOfGroups, MapThenSumSet, MapThenFoldSet
<1>2. w \in [ S -> Nat ]
  OBVIOUS
<1>3. \A g : P(g) <=> IsSum(g, S, w)
  <2> HIDE DEF S
  <2> QED
    BY ChosenIn DEF Chosen, IsSum
<1>4. \E g : IsSum(g, S, w)
  <2> HIDE DEF w, S
  <2> QED
    BY <1>2, SumExists DEF S
<1>5. P(iter)
  <2> HIDE DEF P
  <2> QED
    BY <1>3, <1>4
<1> HIDE DEF P, iter
<1> QED
  BY <1>1, <1>2, <1>3, <1>5

\* Added up over the rows, the amounts of the lines are the amount of the document.
LEMMA HtOfRows ==
    ASSUME NEW invoice, IsLines(invoice.lines), NEW stored, stored.lines = LineRows(invoice)
    PROVE  /\ HtOfLines(stored) = LinesAmount(invoice.lines)
           /\ IsFiniteSet(stored.lines) /\ Cardinality(stored.lines) = Len(invoice.lines)
<1> DEFINE lines == invoice.lines
           rows == stored.lines
           h == [ n \in DOMAIN lines |-> LineRow(lines, n) ]
           w == [ n \in DOMAIN lines |-> lines[n].amountCents ]
           v == [ line \in rows |-> line.amount_cents ]
<1>1. PICK count \in Nat : DOMAIN lines = 1 .. count
  BY DEF IsLines
<1>2. rows = { h[n] : n \in 1 .. count }
  BY <1>1 DEF LineRows, LineRow
<1>3. \A n \in 1 .. count : h[n].amount_cents = lines[n].amountCents /\ h[n].line_order = n - 1
  BY <1>1 DEF LineRow
<1>4. IsFiniteSet(DOMAIN lines) /\ \A n \in DOMAIN lines : lines[n].amountCents \in Nat
  BY LinesFinite DEF IsLine
<1>5. \A m, n \in 1 .. count : h[m] = h[n] => m = n
  <2> HIDE DEF h
  <2> QED
    BY <1>3
<1> HIDE DEF h, rows
<1>6. IsFiniteSet(rows) /\ Cardinality(rows) = count
  <2>1. h \in [ 1 .. count -> rows ]
    <3>1. \A n \in 1 .. count : h[n] \in rows
      BY <1>2
    <3> QED
      BY <1>1, <3>1 DEF h
  <2>2. h \in Bijection(1 .. count, rows)
    BY <1>2, <1>5, <2>1 DEF Bijection, Injection, Surjection, IsInjective
  <2>3. IsFiniteSet(1 .. count) /\ Cardinality(1 .. count) = count
    BY FS_Interval
  <2> QED
    BY <2>2, <2>3, FS_Bijection DEF ExistsBijection
<1>7. \A line \in rows : line.amount_cents \in Nat
  BY <1>1, <1>2, <1>3, <1>4
<1>8. PICK f : IsSum(f, rows, v) /\ HtOfLines(stored) = f[rows]
  BY <1>6, <1>7, HtSum DEF rows
<1>9. PICK g : IsSum(g, DOMAIN lines, w) /\ LinesAmount(lines) = g[DOMAIN lines]
  BY <1>4, AmountSum DEF LinesAmount
<1>10. /\ w \in [ DOMAIN lines -> Nat ] /\ v \in [ rows -> Nat ]
       /\ h \in [ DOMAIN lines -> rows ]
       /\ \A n \in DOMAIN lines : v[h[n]] = w[n]
  <2>1. \A n \in DOMAIN lines : h[n] \in rows /\ h[n].amount_cents = lines[n].amountCents
    BY <1>1, <1>2, <1>3
  <2>2. h \in [ DOMAIN lines -> rows ]
    BY <2>1 DEF h
  <2> QED
    BY <1>4, <1>7, <2>1, <2>2
<1> HIDE DEF v, w
<1>11. g[DOMAIN lines] = f[{ h[n] : n \in DOMAIN lines }]
  <2>1. \A m \in DOMAIN lines : \A n \in DOMAIN lines : h[m] = h[n] => m = n
    BY <1>1, <1>5
  <2>2. DOMAIN lines \in SUBSET DOMAIN lines
    OBVIOUS
  <2> HIDE DEF lines
  <2> QED
    BY <1>4, <1>6, <1>8, <1>9, <1>10, <2>1, <2>2, SumRenamed
<1>12. Len(lines) = count
  BY <1>1 DEF IsLines
<1> QED
  BY <1>1, <1>2, <1>6, <1>8, <1>9, <1>11, <1>12 DEF rows

\* A tax that is NULL adds nothing: over the rows, the tax is that of the document.
LEMMA TaxOfRows ==
    ASSUME NEW invoice, IsLines(invoice.lines),
           VatBreakdown(invoice) = VatBreakdownOf(invoice.lines),
           NEW stored, stored.groups = GroupRows(invoice)
    PROVE  TaxOfGroups(stored) = VatSum(VatBreakdownOf(invoice.lines))
<1> DEFINE groups == VatBreakdownOf(invoice.lines)
           charged == { group \in groups : group.vatCents # None }
           rows == stored.groups
           Row(group) == [ base_cents |-> group.baseCents, tax_cents |-> group.vatCents,
                           vat |-> VatColumns(group.treatment) ]
           all == [ group \in groups |-> Row(group) ]
           h == [ group \in charged |-> Row(group) ]
           w == [ group \in charged |-> group.vatCents ]
           v == [ row \in rows |-> Coalesce(row.tax_cents, 0) ]
<1>1. rows = { Row(group) : group \in groups }
  BY DEF GroupRows
<1>2. IsFiniteSet(groups)
  BY LinesFinite
<1>3. ASSUME NEW group \in groups
      PROVE  /\ group.vatCents # None => group.vatCents \in Nat
             /\ GroupOf(Row(group)) = group
             /\ Row(group).tax_cents = group.vatCents
  <2>1. PICK treatment \in Treatments(invoice.lines) : group = VatGroup(invoice.lines, treatment)
    BY DEF VatBreakdownOf
  <2>2. Says(group, treatment, AmountOf(invoice.lines, Under(treatment, invoice.lines)))
    BY <2>1, GroupFacts
  <2>3. /\ group.treatment \in Vats
        /\ group = [ treatment |-> group.treatment, baseCents |-> group.baseCents,
                     vatCents |-> group.vatCents ]
        /\ group.vatCents # None => group.vatCents \in Nat
    BY <2>2 DEF Says
  <2> QED
    BY <2>3, GroupReadsBack
<1> HIDE DEF groups, rows, Row
<1>4. IsFiniteSet(rows)
  <2>1. all \in Surjection(groups, rows)
    BY <1>1 DEF Surjection
  <2> HIDE DEF all
  <2> QED
    BY <1>2, <2>1, FS_Surjection
<1>5. \A row \in rows : Coalesce(row.tax_cents, 0) \in Nat
  BY <1>1, <1>3 DEF Coalesce
<1>6. PICK f : v \in [ rows -> Nat ] /\ IsSum(f, rows, v) /\ TaxOfGroups(stored) = f[rows]
  BY <1>4, <1>5, TaxOfRowsSum DEF rows
<1>7. /\ IsFiniteSet(charged) /\ w \in [ charged -> Nat ]
      /\ \E g : IsSum(g, charged, w) /\ VatSum(groups) = g[charged]
  BY <1>2, <1>3, TaxSum
<1>8. PICK g : IsSum(g, charged, w) /\ VatSum(groups) = g[charged]
  BY <1>7
<1> DEFINE image == { h[group] : group \in charged }
<1>9. /\ h \in [ charged -> rows ] /\ image \in SUBSET rows
      /\ \A group \in charged : v[h[group]] = w[group]
      /\ \A one \in charged : \A two \in charged : h[one] = h[two] => one = two
  <2>1. \A group \in charged : /\ group \in groups /\ h[group] = Row(group) /\ h[group] \in rows
                               /\ w[group] = group.vatCents
    BY <1>1
  <2>2. h \in [ charged -> rows ]
    BY <2>1
  <2>3. \A group \in charged : v[h[group]] = w[group]
    BY <1>3, <2>1 DEF Coalesce
  <2>4. \A one \in charged : \A two \in charged : h[one] = h[two] => one = two
    BY <1>3, <2>1
  <2>5. image \in SUBSET rows
    BY <2>1
  <2> HIDE DEF h, v, w, image, charged
  <2> QED
    BY <2>2, <2>3, <2>4, <2>5
<1>10. \A row \in rows \ image : v[row] = 0
  <2>1. SUFFICES ASSUME NEW row \in rows, row \notin image PROVE v[row] = 0
    OBVIOUS
  <2>2. PICK group \in groups : row = Row(group)
    BY <1>1
  <2>3. group.vatCents = None
    BY <2>1, <2>2
  <2> QED
    BY <1>3, <2>2, <2>3 DEF Coalesce
<1> HIDE DEF charged, h, w, v
<1>11. g[charged] = f[image]
  <2>1. charged \in SUBSET charged
    OBVIOUS
  <2> QED
    BY <1>4, <1>6, <1>7, <1>8, <1>9, <2>1, SumRenamed
<1> HIDE DEF image
<1>12. f[rows] = f[image]
  BY <1>4, <1>6, <1>9, <1>10, SumZeros
<1> QED
  BY <1>6, <1>8, <1>11, <1>12 DEF groups

\* A sum over all of S is one over the part of it where it counts.
LEMMA SumOver ==
    ASSUME NEW S, IsFiniteSet(S), NEW v \in [ S -> Nat ], NEW f, IsSum(f, S, v),
           NEW T \in SUBSET S, NEW w \in [ T -> Nat ], NEW g, IsSum(g, T, w),
           \A x \in T : w[x] = v[x], \A x \in S \ T : v[x] = 0
    PROVE  f[S] = g[T]
<1> DEFINE h == [ x \in T |-> x ]
<1>1. /\ h \in [ T -> S ] /\ \A x \in T : v[h[x]] = w[x]
      /\ \A x \in T : \A y \in T : h[x] = h[y] => x = y
      /\ { h[x] : x \in T } = T
  OBVIOUS
<1>2. IsFiniteSet(T) /\ T \in SUBSET T
  BY FS_Subset
<1> HIDE DEF h
<1>3. g[T] = f[{ h[x] : x \in T }]
  BY <1>1, <1>2, SumRenamed
<1>4. f[S] = f[T]
  BY SumZeros
<1> QED
  BY <1>1, <1>3, <1>4

LEMMA SumHtSum ==
    ASSUME NEW saved, IsFiniteSet(DOMAIN saved), NEW w \in [ DOMAIN saved -> Nat ],
           \A id \in DOMAIN saved :
             w[id] = Coalesce(saved[id].row.total_ht_cents, HtOfLines(saved[id]))
    PROVE  \E g : IsSum(g, DOMAIN saved, w) /\ SumHtCents(saved) = g[DOMAIN saved]
<1> DEFINE S == DOMAIN saved
           Ht(id) == Coalesce(saved[id].row.total_ht_cents, HtOfLines(saved[id]))
           P(g) == g = [ s \in SUBSET S |->
                         IF s = {} THEN 0 ELSE Ht(CHOOSE x \in s : TRUE)
                                               + g[s \ {CHOOSE x \in s : TRUE}] ]
           iter == CHOOSE g : P(g)
<1>1. SumHtCents(saved) = iter[S]
  BY DEF SumHtCents, MapThenSumSet, MapThenFoldSet
<1> HIDE DEF Ht
<1>2. \A id \in S : w[id] = Ht(id)
  BY DEF Ht
<1> HIDE DEF S
<1>3. \A g : P(g) <=> IsSum(g, S, w)
  <2>1. \A s \in SUBSET S : s # {} => w[Chosen(s)] = Ht(CHOOSE x \in s : TRUE)
    BY <1>2, ChosenIn DEF Chosen
  <2> QED
    BY <2>1 DEF Chosen, IsSum
<1>4. \E g : IsSum(g, S, w)
  BY SumExists DEF S
<1>5. P(iter)
  <2> HIDE DEF P
  <2> QED
    BY <1>3, <1>4
<1> HIDE DEF P, iter
<1> QED
  BY <1>1, <1>3, <1>5 DEF S

LEMMA SumTtcSum ==
    ASSUME NEW saved, IsFiniteSet(DOMAIN saved), NEW w \in [ DOMAIN saved -> Nat ],
           \A id \in DOMAIN saved : w[id] = Coalesce(saved[id].row.total_ttc_cents, 0)
    PROVE  \E g : IsSum(g, DOMAIN saved, w) /\ SumTtcCents(saved) = g[DOMAIN saved]
<1> DEFINE S == DOMAIN saved
           Ttc(id) == Coalesce(saved[id].row.total_ttc_cents, 0)
           P(g) == g = [ s \in SUBSET S |->
                         IF s = {} THEN 0 ELSE Ttc(CHOOSE x \in s : TRUE)
                                               + g[s \ {CHOOSE x \in s : TRUE}] ]
           iter == CHOOSE g : P(g)
<1>1. SumTtcCents(saved) = iter[S]
  BY DEF SumTtcCents, MapThenSumSet, MapThenFoldSet
<1> HIDE DEF Ttc
<1>2. \A id \in S : w[id] = Ttc(id)
  BY DEF Ttc
<1> HIDE DEF S
<1>3. \A g : P(g) <=> IsSum(g, S, w)
  <2>1. \A s \in SUBSET S : s # {} => w[Chosen(s)] = Ttc(CHOOSE x \in s : TRUE)
    BY <1>2, ChosenIn DEF Chosen
  <2> QED
    BY <2>1 DEF Chosen, IsSum
<1>4. \E g : IsSum(g, S, w)
  BY SumExists DEF S
<1>5. P(iter)
  <2> HIDE DEF P
  <2> QED
    BY <1>3, <1>4
<1> HIDE DEF P, iter
<1> QED
  BY <1>1, <1>3, <1>5 DEF S

\* One of the totals, over the documents of some clients.
TotalOver(name, clients) ==
    MapThenSumSet(LAMBDA client : Totals(written[client].invoice)[name], clients)

LEMMA TotalSum ==
    ASSUME NEW S, IsFiniteSet(S), NEW name, NEW w \in [ S -> Nat ],
           \A client \in S : w[client] = Totals(written[client].invoice)[name]
    PROVE  \E g : IsSum(g, S, w) /\ TotalOver(name, S) = g[S]
<1> DEFINE Total(client) == Totals(written[client].invoice)[name]
           P(g) == g = [ s \in SUBSET S |->
                         IF s = {} THEN 0 ELSE Total(CHOOSE x \in s : TRUE)
                                               + g[s \ {CHOOSE x \in s : TRUE}] ]
           iter == CHOOSE g : P(g)
<1>1. TotalOver(name, S) = iter[S]
  BY DEF TotalOver, MapThenSumSet, MapThenFoldSet
<1> HIDE DEF Total
<1>2. \A client \in S : w[client] = Total(client)
  BY DEF Total
<1>3. \A g : P(g) <=> IsSum(g, S, w)
  BY <1>2, ChosenIn DEF Chosen, IsSum
<1>4. \E g : IsSum(g, S, w)
  BY SumExists
<1>5. P(iter)
  <2> HIDE DEF P
  <2> QED
    BY <1>3, <1>4
<1> HIDE DEF P, iter
<1> QED
  BY <1>1, <1>3, <1>5

\* Every line of the month is of one client: finitely many have an invoice.
LEMMA FewDrafted == ASSUME DocInv PROVE IsFiniteSet(Drafted)
<1>1. CASE outcome # "drafted"
  BY <1>1, FS_EmptySet DEF DocInv
<1>2. CASE outcome = "drafted"
  <2> DEFINE client == [ n \in Billed(cra) |-> Commercial[cra.worked[n].mission].client ]
             all == { client[n] : n \in Billed(cra) }
  <2>1. cra \in Events /\ Drafted = ClientsBilled(cra)
    BY <1>2, NoneAssumption DEF DocInv
  <2>2. IsFiniteSet(Billed(cra))
    <3>1. DOMAIN cra.worked = 1 .. Len(cra.worked) /\ Len(cra.worked) \in Nat
      BY <2>1, EventsAssumption
    <3>f. ASSUME NEW count \in Nat PROVE IsFiniteSet(1 .. count)
      BY FS_Interval
    <3>2. IsFiniteSet(DOMAIN cra.worked)
      BY <3>1, <3>f, Zenon
    <3> QED
      BY <3>2, FS_Subset DEF Billed
  <2>3. ClientsBilled(cra) \in SUBSET all
    BY DEF ClientsBilled, BilledTo
  <2>4. client \in Surjection(Billed(cra), all)
    BY DEF Surjection
  <2> HIDE DEF client, all
  <2>5. IsFiniteSet(all)
    BY <2>2, <2>4, FS_Surjection
  <2> QED
    BY <2>1, <2>3, <2>5, FS_Subset
<1> QED
  BY <1>1, <1>2

\* What is listed of an invoice is what it says.
LEMMA ListedAsWritten ==
    ASSUME DocInv, NEW client \in Drafted
    PROVE  LET stored  == invoices[client]
               invoice == written[client].invoice
               listed  == Projection(stored)
               ht      == Totals(invoice).totalExcludingVatCents
               ttc     == Totals(invoice).totalIncludingVatCents
           IN /\ ht \in Nat /\ ttc \in Nat
              /\ HasLeft(client) <=> invoice.status # "draft"
              /\ Coalesce(stored.row.total_ht_cents, HtOfLines(stored)) = ht
              /\ listed.totalHtCents = ht
              /\ listed.totalTtcCents = ttc
              /\ Coalesce(stored.row.total_ttc_cents, 0) = IF HasLeft(client) THEN ttc ELSE 0
              /\ listed.sourceCra = cra.period
              /\ listed.missionIds = { invoice.lines[n].mission : n \in DOMAIN invoice.lines }
              /\ listed.lineCount = Len(invoice.lines)
              /\ stored.row.status = invoice.status
              /\ stored.row.supply_period = invoice.supplyPeriod
              /\ stored.row.issuance_idempotency_key = written[client].key
<1> DEFINE stored  == invoices[client]
           invoice == written[client].invoice
           row     == stored.row
           listed  == Projection(stored)
           totals  == TotalsOf(invoice.lines)
<1>1. /\ row = InvoiceColumns(invoice, << cra.period >>, written[client].key)
      /\ stored.lines = LineRows(invoice) /\ stored.groups = GroupRows(invoice)
  <2>1. stored = Filed(written[client])
    BY DEF DocInv
  <2> HIDE DEF stored
  <2> QED
    BY <2>1 DEF Filed
<1>2. Document(client) = invoice /\ IsInvoice(invoice)
  BY DocumentIs
<1> HIDE DEF stored, invoice
<1>3. HasLeft(client) <=> invoice.status # "draft"
  BY <1>2 DEF HasLeft
<1>4. Totals(invoice) = totals /\ VatBreakdown(invoice) = VatBreakdownOf(invoice.lines)
  BY <1>2 DEF IsInvoice, Totals, VatBreakdown
<1>5. totals \in DocumentTotals
  BY <1>2, TotalsAreAmounts DEF IsInvoice
<1>6. /\ HtOfLines(stored) = totals.totalExcludingVatCents
      /\ HtOfLines(stored) + TaxOfGroups(stored) = totals.totalIncludingVatCents
      /\ Cardinality(stored.lines) = Len(invoice.lines)
  <2>1. HtOfLines(stored) = LinesAmount(invoice.lines)
        /\ Cardinality(stored.lines) = Len(invoice.lines)
    BY <1>1, <1>2, HtOfRows DEF IsInvoice
  <2>2. TaxOfGroups(stored) = VatSum(VatBreakdownOf(invoice.lines))
    BY <1>1, <1>2, <1>4, TaxOfRows DEF IsInvoice
  <2> QED
    BY <2>1, <2>2 DEF TotalsOf
<1>7. /\ row.status = invoice.status /\ row.supply_period = invoice.supplyPeriod
      /\ row.source_cra_ids = << cra.period >>
      /\ row.issuance_idempotency_key = written[client].key
      /\ row.total_ht_cents = IF invoice.status # "draft"
                              THEN totals.totalExcludingVatCents ELSE None
      /\ row.total_ttc_cents = IF invoice.status # "draft"
                               THEN totals.totalIncludingVatCents ELSE None
  <2> HIDE DEF totals, row
  <2> QED
    BY <1>1, <1>4 DEF InvoiceColumns, KeepsTotals
<1>8. { line.origin_mission_id : line \in stored.lines }
        = { invoice.lines[n].mission : n \in DOMAIN invoice.lines }
  <2> DEFINE lines == invoice.lines
  <2>1. stored.lines = { LineRow(lines, n) : n \in DOMAIN lines }
    BY <1>1 DEF LineRows, LineRow
  <2>2. \A n \in DOMAIN lines : LineRow(lines, n).origin_mission_id = lines[n].mission
    BY DEF LineRow
  <2> HIDE DEF lines
  <2>3. { line.origin_mission_id : line \in stored.lines }
          = { lines[n].mission : n \in DOMAIN lines }
    BY <2>1, <2>2
  <2> QED
    BY <2>3 DEF lines
<1> HIDE DEF row, totals
<1>9. /\ totals.totalExcludingVatCents \in Nat /\ totals.totalIncludingVatCents \in Nat
      /\ totals.totalExcludingVatCents # None /\ totals.totalIncludingVatCents # None
  BY <1>5, NoneAssumption DEF DocumentTotals
<1>10. /\ Coalesce(row.total_ht_cents, HtOfLines(stored)) = totals.totalExcludingVatCents
       /\ Coalesce(row.total_ttc_cents, HtOfLines(stored) + TaxOfGroups(stored))
            = totals.totalIncludingVatCents
       /\ Coalesce(row.total_ttc_cents, 0)
            = IF HasLeft(client) THEN totals.totalIncludingVatCents ELSE 0
  BY <1>3, <1>6, <1>7, <1>9 DEF Coalesce
<1>11. /\ listed.totalHtCents = Coalesce(row.total_ht_cents, HtOfLines(stored))
       /\ listed.totalTtcCents = Coalesce(row.total_ttc_cents,
                                          HtOfLines(stored) + TaxOfGroups(stored))
       /\ listed.missionIds = { line.origin_mission_id : line \in stored.lines }
       /\ listed.lineCount = Cardinality(stored.lines)
       /\ listed.sourceCra = IF row.source_cra_ids = << >> THEN None ELSE Head(row.source_cra_ids)
  BY DEF Projection, row
<1>12. listed.sourceCra = cra.period
  BY <1>7, <1>11
<1> HIDE DEF listed
<1> QED
  BY <1>3, <1>4, <1>6, <1>7, <1>8, <1>9, <1>10, <1>11, <1>12 DEF stored, invoice, row, listed

\* What the lists add up over all the invoices is the sum of what the documents say.
LEMMA AddedUpAsWritten ==
    ASSUME DocInv
    PROVE  LET Sum(name, clients) ==
                   MapThenSumSet(LAMBDA client : Totals(written[client].invoice)[name], clients)
           IN /\ SumHtCents(invoices) = Sum("totalExcludingVatCents", Drafted)
              /\ SumTtcCents(invoices) = Sum("totalIncludingVatCents",
                                           { client \in Drafted : HasLeft(client) })
<1> DEFINE Total(client, name) == Totals(written[client].invoice)[name]
           left == { client \in Drafted : HasLeft(client) }
           ht == [ client \in Drafted |-> Total(client, "totalExcludingVatCents") ]
           ttc == [ client \in left |-> Total(client, "totalIncludingVatCents") ]
           listed == [ client \in Drafted |-> IF HasLeft(client)
                                              THEN Total(client, "totalIncludingVatCents") ELSE 0 ]
<1>1. IsFiniteSet(Drafted) /\ IsFiniteSet(left) /\ left \in SUBSET Drafted
  BY FewDrafted, FS_Subset
<1>2. Drafted = DOMAIN invoices
  BY DEF Drafted
<1>3. ASSUME NEW client \in Drafted
      PROVE  /\ Total(client, "totalExcludingVatCents") \in Nat
             /\ Total(client, "totalIncludingVatCents") \in Nat
             /\ Coalesce(invoices[client].row.total_ht_cents, HtOfLines(invoices[client]))
                  = Total(client, "totalExcludingVatCents")
             /\ Coalesce(invoices[client].row.total_ttc_cents, 0)
                  = IF HasLeft(client) THEN Total(client, "totalIncludingVatCents") ELSE 0
  BY ListedAsWritten
<1>4. /\ ht \in [ Drafted -> Nat ] /\ ttc \in [ left -> Nat ] /\ listed \in [ Drafted -> Nat ]
  <2> HIDE DEF Total
  <2> QED
    BY <1>3
<1>5. /\ \A client \in Drafted :
           /\ ht[client] = Coalesce(invoices[client].row.total_ht_cents, HtOfLines(invoices[client]))
           /\ ht[client] = Total(client, "totalExcludingVatCents")
           /\ listed[client] = Coalesce(invoices[client].row.total_ttc_cents, 0)
      /\ \A client \in left : ttc[client] = Total(client, "totalIncludingVatCents")
      /\ \A client \in left : ttc[client] = listed[client]
      /\ \A client \in Drafted \ left : listed[client] = 0
  <2> HIDE DEF Total
  <2> QED
    BY <1>3
<1> HIDE DEF ht, ttc, listed, left
<1>6. SumHtCents(invoices) = TotalOver("totalExcludingVatCents", Drafted)
  <2>1. PICK f : IsSum(f, Drafted, ht) /\ SumHtCents(invoices) = f[Drafted]
    BY <1>1, <1>2, <1>4, <1>5, SumHtSum
  <2>2. PICK g : IsSum(g, Drafted, ht) /\ TotalOver("totalExcludingVatCents", Drafted) = g[Drafted]
    BY <1>1, <1>4, <1>5, TotalSum
  <2>3. f[Drafted] = g[Drafted]
    <3>1. Drafted \in SUBSET Drafted /\ Drafted \ Drafted = {}
      OBVIOUS
    <3> QED
      BY <1>1, <1>4, <2>1, <2>2, <3>1, SumOver
  <2> QED
    BY <2>1, <2>2, <2>3
<1>7. SumTtcCents(invoices) = TotalOver("totalIncludingVatCents", left)
  <2>1. PICK f : IsSum(f, Drafted, listed) /\ SumTtcCents(invoices) = f[Drafted]
    BY <1>1, <1>2, <1>4, <1>5, SumTtcSum
  <2>2. PICK g : IsSum(g, left, ttc) /\ TotalOver("totalIncludingVatCents", left) = g[left]
    BY <1>1, <1>4, <1>5, TotalSum
  <2>3. f[Drafted] = g[left]
    BY <1>1, <1>4, <1>5, <2>1, <2>2, SumOver
  <2> QED
    BY <2>1, <2>2, <2>3
<1> QED
  BY <1>6, <1>7 DEF left, TotalOver

\* Who an invoice is from and for, of which month, and whether it has a key, are those of the
\* draft it was and of the day it left.
LEMMA Provenance ==
    ASSUME DocInv, NEW client \in Drafted
    PROVE  LET invoice == written[client].invoice
           IN /\ invoice.seller = 1 /\ invoice.billedTo = << client, 1 >>
              /\ invoice.supplyPeriod = cra.period
              /\ invoice.status # "draft" <=> written[client].key # None
<1> DEFINE invoice == written[client].invoice
           draft   == AsDrafted(client)
<1>1. draft.seller = 1 /\ draft.billedTo = << client, 1 >> /\ draft.supplyPeriod = cra.period
  BY DEF AsDrafted, NewInvoice
<1>2. client # None
  <2>1. client \in DOMAIN Clients
    BY DraftedFrom DEF ClientsBilled
  <2> QED
    BY <2>1, NoneAssumption
<1>3. \/ /\ written[client] = [ invoice |-> draft, key |-> None ]
         /\ invoice = draft /\ invoice.status = "draft"
      \/ /\ \E n, date : Gone(invoice, draft, n, date)
         /\ invoice.status # "draft"
         /\ written[client] = [ invoice |-> invoice, key |-> client ]
  <2> HIDE DEF invoice, draft
  <2>1. \/ /\ written[client] = [ invoice |-> draft, key |-> None ]
           /\ invoice = draft /\ invoice.status = "draft"
        \/ \E date \in Openings : \E n \in 1 .. lastSequence[date.year] :
             /\ Gone(invoice, draft, n, date)
             /\ invoice.status = "issued" \/ invoice.status = "cancelledByCreditNote"
             /\ written[client] = [ invoice |-> invoice, key |-> client ]
    BY DocumentIs DEF invoice, draft
  <2> QED
    BY <2>1
<1> HIDE DEF draft
<1>4. CASE /\ written[client] = [ invoice |-> draft, key |-> None ]
           /\ invoice = draft /\ invoice.status = "draft"
  <2>1. written[client].key = None
    BY <1>4
  <2> HIDE DEF invoice
  <2> QED
    BY <1>1, <1>4, <2>1 DEF invoice
<1>5. CASE /\ \E n, date : Gone(invoice, draft, n, date)
           /\ invoice.status # "draft"
           /\ written[client] = [ invoice |-> invoice, key |-> client ]
  <2> HIDE DEF invoice
  <2>1. written[client].key = client
    BY <1>5
  <2>2. Keeps(invoice, draft)
    BY <1>5 DEF Gone
  <2> QED
    BY <1>1, <1>2, <1>5, <2>1, <2>2 DEF invoice, Keeps
<1> QED
  BY <1>3, <1>4, <1>5

\* An invoice reads back from its rows as it was written, whatever became of the seller or
\* the client since, with its provenance and its key, and what the lists compute in SQL is
\* what the documents say, for one invoice and for all of them (ADR-0107).
THEOREM RowsTellTheInvoice == DSpec => []RowsTellTheDocument
<1> DEFINE Tells(client) ==
             LET stored  == invoices[client]
                 invoice == written[client].invoice
                 listed  == Projection(stored)
             IN /\ Reconstituted(stored) = invoice
                /\ invoice.seller = 1 /\ invoice.billedTo = << client, 1 >>
                /\ Coherent(invoice)
                /\ stored.row.issuance_idempotency_key = written[client].key
                /\ HasLeft(client) <=> written[client].key # None
                /\ listed.sourceCra = cra.period
                /\ listed.totalHtCents = Totals(invoice).totalExcludingVatCents
                /\ listed.totalTtcCents = Totals(invoice).totalIncludingVatCents
                /\ listed.missionIds = { invoice.lines[n].mission : n \in DOMAIN invoice.lines }
                /\ listed.lineCount = Len(invoice.lines)
           Counted(status) ==
             CountByYearAndStatus(invoices, cra.period.year, status)
               = Cardinality({ client \in Drafted : written[client].invoice.status = status })
           AddedUp ==
             LET Sum(name, clients) ==
                     MapThenSumSet(LAMBDA client : Totals(written[client].invoice)[name], clients)
             IN /\ SumHtCents(invoices) = Sum("totalExcludingVatCents", Drafted)
                /\ SumTtcCents(invoices) = Sum("totalIncludingVatCents",
                                             { client \in Drafted : HasLeft(client) })
<1>1. ASSUME DocInv, NEW client \in Drafted PROVE Tells(client)
  <2> DEFINE stored  == invoices[client]
             invoice == written[client].invoice
             listed  == Projection(stored)
  <2>1. Reconstituted(stored) = invoice
    BY <1>1, DocumentIs DEF Document
  <2>2. Coherent(invoice)
    BY <1>1, DocumentCoherent
  <2>3. /\ invoice.seller = 1 /\ invoice.billedTo = << client, 1 >>
        /\ invoice.status # "draft" <=> written[client].key # None
    BY <1>1, Provenance
  <2>4. /\ HasLeft(client) <=> invoice.status # "draft"
        /\ listed.totalHtCents = Totals(invoice).totalExcludingVatCents
        /\ listed.totalTtcCents = Totals(invoice).totalIncludingVatCents
        /\ listed.sourceCra = cra.period
        /\ listed.missionIds = { invoice.lines[n].mission : n \in DOMAIN invoice.lines }
        /\ listed.lineCount = Len(invoice.lines)
        /\ stored.row.issuance_idempotency_key = written[client].key
    BY <1>1, ListedAsWritten
  <2> HIDE DEF stored, invoice, listed
  <2> QED
    BY <2>1, <2>2, <2>3, <2>4 DEF stored, invoice, listed
<1>2. ASSUME DocInv, NEW status PROVE Counted(status)
  <2> DEFINE found == { id \in DOMAIN invoices :
                          /\ invoices[id].row.supply_period.year = cra.period.year
                          /\ invoices[id].row.status = status }
             meant == { client \in Drafted : written[client].invoice.status = status }
  <2>1. ASSUME NEW client \in Drafted
        PROVE  /\ invoices[client].row.status = written[client].invoice.status
               /\ invoices[client].row.supply_period = cra.period
    <3>1. /\ invoices[client].row.status = written[client].invoice.status
          /\ invoices[client].row.supply_period = written[client].invoice.supplyPeriod
      BY <1>2, ListedAsWritten
    <3>2. written[client].invoice.supplyPeriod = cra.period
      BY <1>2, Provenance
    <3> QED
      BY <3>1, <3>2
  <2>2. found = meant
    BY <2>1 DEF Drafted
  <2>3. CountByYearAndStatus(invoices, cra.period.year, status) = Cardinality(found)
    BY DEF CountByYearAndStatus
  <2> HIDE DEF found, meant
  <2>4. CountByYearAndStatus(invoices, cra.period.year, status) = Cardinality(meant)
    BY <2>2, <2>3
  <2> QED
    BY <2>4 DEF meant
<1>3. ASSUME DocInv PROVE AddedUp
  BY <1>3, AddedUpAsWritten
<1> HIDE DEF Tells, Counted, AddedUp
<1>4. ASSUME DocInv PROVE /\ \A client \in Drafted : Tells(client)
                          /\ AddedUp
                          /\ \A status \in {"draft", "issued", "cancelledByCreditNote"} :
                               Counted(status)
  BY <1>1, <1>2, <1>3, <1>4
<1>5. DocInv => RowsTellTheDocument
  BY <1>4 DEF RowsTellTheDocument, Tells, Counted, AddedUp
<1> QED
  BY <1>5, BooksAreKept, PTL

-----------------------------------------------------------------------------
(* Identifiers.                                                            *)

\* What a counter is coerced to: 2 ** 32 values.
Int32 == 256 * 256 * 256 * 256

\* The bytes the shifts select, without the shifts.
LEMMA Bytes ==
  ASSUME NEW counter \in Nat
  PROVE  /\ Byte(counter, 0)  = counter % 256
         /\ Byte(counter, 8)  = (counter \div 256) % 256
         /\ Byte(counter, 16) = (counter \div (256 * 256)) % 256
         /\ Byte(counter, 24) = (counter \div (256 * 256 * 256)) % 256
         /\ Byte(counter, 32) = Byte(counter, 0)
         /\ Byte(counter, 40) = Byte(counter, 8)
         /\ Byte(counter, 48) = Byte(counter, 16)
         /\ Byte(counter, 56) = Byte(counter, 24)
<1>1. /\ Weight(0) = 1 /\ Weight(8) = 256 /\ Weight(16) = 256 * 256 /\ Weight(24) = 256 * 256 * 256
      /\ Weight(32) = 1 /\ Weight(40) = 256 /\ Weight(48) = 256 * 256 /\ Weight(56) = 256 * 256 * 256
  BY SMT DEF Weight
<1>2. counter \div 1 = counter
  BY SMT
<1>3. QED
  BY <1>1, <1>2, SMT DEF Byte

\* Below 2 ** 32 those bytes are the whole of the counter.
LEMMA FourDigits ==
  ASSUME NEW counter \in Nat, counter < Int32
  PROVE  counter = (counter % 256) + 256 * ((counter \div 256) % 256)
                   + 256 * 256 * ((counter \div (256 * 256)) % 256)
                   + 256 * 256 * 256 * ((counter \div (256 * 256 * 256)) % 256)
<1>1. counter = 256 * (counter \div 256) + (counter % 256)
  BY SMT
<1>2. counter \div 256 = 256 * (counter \div (256 * 256)) + ((counter \div 256) % 256)
  BY SMT
<1>3. counter \div (256 * 256)
        = 256 * (counter \div (256 * 256 * 256)) + ((counter \div (256 * 256)) % 256)
  BY SMT
<1>4. counter \div (256 * 256 * 256) = (counter \div (256 * 256 * 256)) % 256
  BY SMT DEF Int32
<1>5. QED
  BY <1>1, <1>2, <1>3, <1>4, SMT

\* Two counters below 2 ** 32 never mint one identifier (uuidv7.ts:84): the version and the
\* variant overwrite some bytes of the counter, and not the copy of them.
THEOREM CountersStayApart ==
  ASSUME NEW timestamp, NEW one \in Nat, NEW two \in Nat, one < Int32, two < Int32,
         uuidv7Deterministic(timestamp, one) = uuidv7Deterministic(timestamp, two)
  PROVE  one = two
<1>1. ASSUME NEW n \in 13 .. 16
      PROVE  uuidv7Deterministic(timestamp, one)[n] = uuidv7Deterministic(timestamp, two)[n]
  OBVIOUS
<1>2. ASSUME NEW counter \in Nat
      PROVE  /\ uuidv7Deterministic(timestamp, counter)[13] = Byte(counter, 24)
             /\ uuidv7Deterministic(timestamp, counter)[14] = Byte(counter, 16)
             /\ uuidv7Deterministic(timestamp, counter)[15] = Byte(counter, 8)
             /\ uuidv7Deterministic(timestamp, counter)[16] = Byte(counter, 0)
  BY SMT DEF uuidv7Deterministic, Pack, CounterSuffix
<1>3. /\ Byte(one, 24) = Byte(two, 24)
      /\ Byte(one, 16) = Byte(two, 16)
      /\ Byte(one, 8) = Byte(two, 8)
      /\ Byte(one, 0) = Byte(two, 0)
  BY <1>1, <1>2, SMT
<1>4. /\ Byte(one, 0) = one % 256
      /\ Byte(one, 8) = (one \div 256) % 256
      /\ Byte(one, 16) = (one \div (256 * 256)) % 256
      /\ Byte(one, 24) = (one \div (256 * 256 * 256)) % 256
  BY Bytes
<1>5. /\ Byte(two, 0) = two % 256
      /\ Byte(two, 8) = (two \div 256) % 256
      /\ Byte(two, 16) = (two \div (256 * 256)) % 256
      /\ Byte(two, 24) = (two \div (256 * 256 * 256)) % 256
  BY Bytes
<1>6. /\ one % 256 = two % 256
      /\ (one \div 256) % 256 = (two \div 256) % 256
      /\ (one \div (256 * 256)) % 256 = (two \div (256 * 256)) % 256
      /\ (one \div (256 * 256 * 256)) % 256 = (two \div (256 * 256 * 256)) % 256
  BY <1>3, <1>4, <1>5
<1>7. QED
  BY <1>6, FourDigits

\* And two that agree modulo 2 ** 32 always do: that is the limit, whatever eight bytes suggest.
THEOREM CountersWrapAround ==
  ASSUME NEW timestamp, NEW counter \in Nat
  PROVE  uuidv7Deterministic(timestamp, counter + Int32) = uuidv7Deterministic(timestamp, counter)
<1>1. /\ (counter + Int32) % 256 = counter % 256
      /\ (counter + Int32) \div 256 = counter \div 256 + (256 * 256 * 256)
      /\ (counter + Int32) \div (256 * 256) = counter \div (256 * 256) + (256 * 256)
      /\ (counter + Int32) \div (256 * 256 * 256) = counter \div (256 * 256 * 256) + 256
  BY SMT DEF Int32
<1>2. /\ (counter \div 256 + (256 * 256 * 256)) % 256 = (counter \div 256) % 256
      /\ (counter \div (256 * 256) + (256 * 256)) % 256 = (counter \div (256 * 256)) % 256
      /\ (counter \div (256 * 256 * 256) + 256) % 256 = (counter \div (256 * 256 * 256)) % 256
  BY SMT
<1>3. counter + Int32 \in Nat
  BY SMT DEF Int32
<1>4. /\ Byte(counter + Int32, 0) = (counter + Int32) % 256
      /\ Byte(counter + Int32, 8) = ((counter + Int32) \div 256) % 256
      /\ Byte(counter + Int32, 16) = ((counter + Int32) \div (256 * 256)) % 256
      /\ Byte(counter + Int32, 24) = ((counter + Int32) \div (256 * 256 * 256)) % 256
  BY <1>3, Bytes
<1>5. /\ Byte(counter, 0) = counter % 256
      /\ Byte(counter, 8) = (counter \div 256) % 256
      /\ Byte(counter, 16) = (counter \div (256 * 256)) % 256
      /\ Byte(counter, 24) = (counter \div (256 * 256 * 256)) % 256
  BY Bytes
<1>6. /\ Byte(counter + Int32, 0) = Byte(counter, 0)
      /\ Byte(counter + Int32, 8) = Byte(counter, 8)
      /\ Byte(counter + Int32, 16) = Byte(counter, 16)
      /\ Byte(counter + Int32, 24) = Byte(counter, 24)
  <2>1. Byte(counter + Int32, 0) = Byte(counter, 0)
    BY <1>1, <1>4, <1>5
  <2>2. Byte(counter + Int32, 8) = Byte(counter, 8)
    BY <1>1, <1>2, <1>4, <1>5
  <2>3. Byte(counter + Int32, 16) = Byte(counter, 16)
    BY <1>1, <1>2, <1>4, <1>5
  <2>4. Byte(counter + Int32, 24) = Byte(counter, 24)
    BY <1>1, <1>2, <1>4, <1>5
  <2>5. QED
    BY <2>1, <2>2, <2>3, <2>4
<1>7. CounterSuffix(counter + Int32) = CounterSuffix(counter)
  BY <1>3, <1>6, Bytes DEF CounterSuffix
<1>8. QED
  BY <1>7 DEF uuidv7Deterministic

-----------------------------------------------------------------------------
(***************************************************************************)
(* The seed: SeedInv is kept by every statement of its transaction, and    *)
(* what is committed under it are books.                                   *)
(***************************************************************************)

\* The days on the lines of a mission, the days declined, the days of the documents of a month,
\* and the days recorded, as sums.
LEMMA LineDaysSum ==
    ASSUME NEW lines, NEW mission, NEW places, places = PlacesWith(lines, mission),
           IsFiniteSet(places), \A n \in places : lines[n].quarterDays \in Nat
    PROVE  \E g : /\ IsSum(g, places, [ n \in places |-> lines[n].quarterDays ])
                 /\ DaysOn(lines, mission) = g[places]
<1> DEFINE w == [ n \in places |-> lines[n].quarterDays ]
           P(g) == g = [ s \in SUBSET places |->
                         IF s = {} THEN 0 ELSE lines[CHOOSE x \in s : TRUE].quarterDays
                                               + g[s \ {CHOOSE x \in s : TRUE}] ]
           iter == CHOOSE g : P(g)
<1>1. DaysOn(lines, mission) = iter[places]
  BY DEF DaysOn, MapThenSumSet, MapThenFoldSet
<1>2. w \in [ places -> Nat ]
  OBVIOUS
<1>3. \A g : P(g) <=> IsSum(g, places, w)
  BY ChosenIn DEF Chosen, IsSum
<1>4. \E g : IsSum(g, places, w)
  <2> HIDE DEF w
  <2> QED
    BY <1>2, SumExists
<1>5. P(iter)
  <2> HIDE DEF P
  <2> QED
    BY <1>3, <1>4
<1> HIDE DEF P, iter
<1> QED
  BY <1>1, <1>3, <1>5

\* The days declined.
LEMMA DeclinedDaysSum ==
    ASSUME NEW places, IsFiniteSet(places), \A n \in places : n.d.quarterDays \in Nat
    PROVE  \E g : /\ IsSum(g, places, [ n \in places |-> n.d.quarterDays ])
                 /\ MapThenSumSet(LAMBDA e : e.d.quarterDays, places) = g[places]
<1> DEFINE w == [ n \in places |-> n.d.quarterDays ]
           P(g) == g = [ s \in SUBSET places |->
                         IF s = {} THEN 0 ELSE (CHOOSE x \in s : TRUE).d.quarterDays
                                               + g[s \ {CHOOSE x \in s : TRUE}] ]
           iter == CHOOSE g : P(g)
<1>1. MapThenSumSet(LAMBDA e : e.d.quarterDays, places) = iter[places]
  BY DEF MapThenSumSet, MapThenFoldSet
<1>2. w \in [ places -> Nat ]
  OBVIOUS
<1>3. \A g : P(g) <=> IsSum(g, places, w)
  BY ChosenIn DEF Chosen, IsSum
<1>4. \E g : IsSum(g, places, w)
  <2> HIDE DEF w
  <2> QED
    BY <1>2, SumExists
<1>5. P(iter)
  <2> HIDE DEF P
  <2> QED
    BY <1>3, <1>4
<1> HIDE DEF P, iter
<1> QED
  BY <1>1, <1>3, <1>5

\* The days of the documents of a month.
LEMMA BilledDaysSum ==
    ASSUME NEW books, NEW who, NEW period, NEW mission, NEW places,
           places = DocumentsOf(books, who, period), IsFiniteSet(places),
           \A n \in places : DaysOn(books.invoices[n].row.lines, mission) \in Nat
    PROVE  \E g : /\ IsSum(g, places, [ n \in places |-> DaysOn(books.invoices[n].row.lines, mission) ])
                 /\ BilledDays(books, who, period, mission) = g[places]
<1> DEFINE w == [ n \in places |-> DaysOn(books.invoices[n].row.lines, mission) ]
           P(g) == g = [ s \in SUBSET places |->
                         IF s = {} THEN 0 ELSE DaysOn(books.invoices[CHOOSE x \in s : TRUE].row.lines, mission)
                                               + g[s \ {CHOOSE x \in s : TRUE}] ]
           iter == CHOOSE g : P(g)
<1>1. BilledDays(books, who, period, mission) = iter[places]
  BY DEF BilledDays, MapThenSumSet, MapThenFoldSet
<1>2. w \in [ places -> Nat ]
  OBVIOUS
<1>3. \A g : P(g) <=> IsSum(g, places, w)
  BY ChosenIn DEF Chosen, IsSum
<1>4. \E g : IsSum(g, places, w)
  <2> HIDE DEF w
  <2> QED
    BY <1>2, SumExists
<1>5. P(iter)
  <2> HIDE DEF P
  <2> QED
    BY <1>3, <1>4
<1> HIDE DEF P, iter
<1> QED
  BY <1>1, <1>3, <1>5

\* The days recorded.
LEMMA RecordedDaysSum ==
    ASSUME NEW places, IsFiniteSet(places), \A n \in places : n.quarterDays \in Nat
    PROVE  \E g : /\ IsSum(g, places, [ n \in places |-> n.quarterDays ])
                 /\ QuarterDaysIn(places) = g[places]
<1> DEFINE w == [ n \in places |-> n.quarterDays ]
           P(g) == g = [ s \in SUBSET places |->
                         IF s = {} THEN 0 ELSE (CHOOSE x \in s : TRUE).quarterDays
                                               + g[s \ {CHOOSE x \in s : TRUE}] ]
           iter == CHOOSE g : P(g)
<1>1. QuarterDaysIn(places) = iter[places]
  BY DEF QuarterDaysIn, MapThenSumSet, MapThenFoldSet
<1>2. w \in [ places -> Nat ]
  OBVIOUS
<1>3. \A g : P(g) <=> IsSum(g, places, w)
  BY ChosenIn DEF Chosen, IsSum
<1>4. \E g : IsSum(g, places, w)
  <2> HIDE DEF w
  <2> QED
    BY <1>2, SumExists
<1>5. P(iter)
  <2> HIDE DEF P
  <2> QED
    BY <1>3, <1>4
<1> HIDE DEF P, iter
<1> QED
  BY <1>1, <1>3, <1>5

\* Of a sum whose terms are all nothing but one, that one is left.
LEMMA SumOfOne ==
    ASSUME NEW S, IsFiniteSet(S), NEW w \in [ S -> Nat ], NEW g, IsSum(g, S, w),
           NEW x \in S, \A y \in S \ {x} : w[y] = 0
    PROVE  g[S] = w[x]
<1>1. {x} \in SUBSET S /\ {} \in SUBSET S /\ {x} \ {x} = {}
  OBVIOUS
<1>2. g[S] = g[{x}]
  BY <1>1, SumZeros
<1>3. g[{x}] = w[x] + g[{x} \ {x}]
  BY <1>1, SumRemove
<1>4. g[{}] = 0
  BY <1>1, IsSumEq
<1>5. w[x] \in Nat
  OBVIOUS
<1> QED
  BY <1>1, <1>2, <1>3, <1>4, <1>5

\* And of nothing but such terms, nothing.
LEMMA SumOfNothing ==
    ASSUME NEW S, IsFiniteSet(S), NEW w \in [ S -> Nat ], NEW g, IsSum(g, S, w),
           \A y \in S : w[y] = 0
    PROVE  g[S] = 0
<1>1. {} \in SUBSET S
  OBVIOUS
<1>2. g[S] = g[{}]
  BY <1>1, SumZeros
<1>3. g[{}] = 0
  BY <1>1, IsSumEq
<1> QED
  BY <1>2, <1>3

-----------------------------------------------------------------------------
(* The months of the seed and their work.                                  *)

\* What is put in order is there, and in that order.
LEMMA InKeyOrder ==
    ASSUME NEW S, IsFiniteSet(S), NEW f \in [ S -> Nat ],
           \A x, y \in S : f[x] = f[y] => x = y,
           NEW rank, \A x \in S : rank[x] = Cardinality({ y \in S : f[y] < f[x] }),
           NEW seq, \A n \in 1 .. Cardinality(S) : \A x \in S :
             rank[x] = n - 1 => seq[n] \in S /\ rank[seq[n]] = n - 1
    PROVE  /\ Cardinality(S) \in Nat /\ \A n \in 1 .. Cardinality(S) : seq[n] \in S
           /\ \A i, j \in 1 .. Cardinality(S) : i < j => f[seq[i]] < f[seq[j]]
<1> DEFINE Below(x) == { y \in S : f[y] < f[x] }
           N == Cardinality(S)
<1>1. N \in Nat
  BY FS_CardinalityType
<1>2. \A n \in 1 .. N : \E x \in S : rank[x] = n - 1
  <2>1. \A n \in 1 .. Cardinality(S) : \E x \in S : Cardinality({ y \in S : f[y] < f[x] }) = n - 1
    BY Ranked
  <2> QED
    BY <2>1
<1>3. \A x \in S : rank[x] = Cardinality(Below(x)) /\ IsFiniteSet(Below(x))
  <2>1. \A x \in S : Below(x) \in SUBSET S
    OBVIOUS
  <2>2. \A x \in S : IsFiniteSet(Below(x))
    <3> HIDE DEF Below
    <3> QED
      BY <2>1, FS_Subset
  <2> QED
    BY <2>2
<1>4. \A n \in 1 .. N : seq[n] \in S /\ rank[seq[n]] = n - 1
  BY <1>2
<1>5. ASSUME NEW x \in S, NEW y \in S, ~ (f[x] < f[y])
      PROVE  rank[y] <= rank[x]
  <2>1. f[x] \in Nat /\ f[y] \in Nat /\ \A z \in S : f[z] \in Nat
    OBVIOUS
  <2>2. Below(y) \in SUBSET Below(x)
    BY <1>5, <2>1
  <2> HIDE DEF Below
  <2> QED
    BY <1>3, <2>2, FS_Subset
<1> HIDE DEF Below, N
<1>6. ASSUME NEW i \in 1 .. N, NEW j \in 1 .. N, i < j PROVE f[seq[i]] < f[seq[j]]
  <2>1. seq[i] \in S /\ seq[j] \in S /\ rank[seq[i]] = i - 1 /\ rank[seq[j]] = j - 1
    BY <1>4
  <2>2. ~ (j - 1 <= i - 1)
    BY <1>1, <1>6
  <2> QED
    BY <1>5, <2>1, <2>2
<1> QED
  BY <1>1, <1>4, <1>6 DEF N

\* The lines of a month are those of its workable days, and one on a Saturday.
LEMMA LinesAreOfDays ==
    ASSUME NEW who, NEW period, AssignmentsOf(who, period) # << >>
    PROVE  LinesOf(who, period)
             \subseteq (UNION { DayLines(who, period, WorkableDaysOf(period)[n])
                                : n \in 1 .. Len(WorkableDaysOf(period)) })
                       \cup { Line(Varied.flaggedSaturday, AssignmentsOf(who, period)[1].mission,
                                   QuarterDaysPerDay) }
  BY DEF LinesOf

\* A month has few lines.
LEMMA FewLinesOfMonth ==
    ASSUME NEW who, NEW period, IsPeriod(period)
    PROVE  IsFiniteSet(LinesOf(who, period))
<1> DEFINE workable == WorkableDaysOf(period)
           days == DaysOf(period)
           kept == { n \in DOMAIN days : NonWorkableReason(days[n]) = None }
           places == InOrder(kept, LAMBDA n : n)
           Some(day) == DayLines(who, period, day)
           saturday == Line(Varied.flaggedSaturday, AssignmentsOf(who, period)[1].mission,
                            QuarterDaysPerDay)
<1>1. DaysInMonth(period.year, period.month) \in Nat
  BY DEF IsPeriod, DaysInMonth
<1>2. kept \in SUBSET (1 .. DaysInMonth(period.year, period.month))
  BY DEF DaysOf
<1>3. kept \in SUBSET Nat /\ IsFiniteSet(kept)
  <2> HIDE DEF kept
  <2>1. IsFiniteSet(1 .. DaysInMonth(period.year, period.month))
    BY <1>1, FS_Interval
  <2>2. 1 .. DaysInMonth(period.year, period.month) \in SUBSET Nat
    BY <1>1
  <2> HIDE DEF kept
  <2> QED
    BY <1>2, <2>1, <2>2, FS_Subset
<1>4. Cardinality(kept) \in Nat /\ DOMAIN places = 1 .. Cardinality(kept)
  <2> HIDE DEF kept
  <2> QED
    BY <1>3, NumbersInOrder, FS_CardinalityType
<1>5. workable = [ k \in DOMAIN places |-> days[places[k]] ]
  BY DEF WorkableDaysOf
<1>6. Len(workable) \in Nat
  <2> HIDE DEF kept, places, workable, days
  <2> QED
    BY <1>4, <1>5
<1>7. \A day : IsFiniteSet(Some(day))
  <2>1. \A a, b : IsFiniteSet({ a, b })
    <3> SUFFICES ASSUME NEW a, NEW b PROVE IsFiniteSet({ a, b })
      OBVIOUS
    <3>1. { a, b } = {a} \cup {b}
      OBVIOUS
    <3>2. IsFiniteSet({a}) /\ IsFiniteSet({b})
      BY FS_Singleton
    <3>3. IsFiniteSet({a} \cup {b})
      BY <3>2, FS_Union
    <3> QED
      BY <3>1, <3>3
  <2>2. \A a : IsFiniteSet({ a })
    BY FS_Singleton
  <2> QED
    BY <2>1, <2>2, FS_EmptySet DEF DayLines
<1> HIDE DEF kept, places, workable, days, Some
<1> DEFINE h == [ n \in 1 .. Len(workable) |-> Some(workable[n]) ]
           all == { h[n] : n \in 1 .. Len(workable) }
<1>8. IsFiniteSet(UNION all)
  <2>1. h \in Surjection(1 .. Len(workable), all)
    BY DEF Surjection
  <2>2. IsFiniteSet(1 .. Len(workable))
    BY <1>6, FS_Interval
  <2>3. \A T \in all : IsFiniteSet(T)
    BY <1>7
  <2> HIDE DEF h, all
  <2>4. IsFiniteSet(all)
    BY <2>1, <2>2, FS_Surjection
  <2> QED
    BY <2>3, <2>4, FS_UNION
<1>9. IsFiniteSet({saturday})
  BY FS_Singleton
<1>10. IsFiniteSet((UNION all) \cup {saturday})
  <2> HIDE DEF all, saturday
  <2> QED
    BY <1>8, <1>9, FS_Union
<1>11. LinesOf(who, period) \in SUBSET ((UNION all) \cup {saturday})
  <2>1. all = { DayLines(who, period, workable[n]) : n \in 1 .. Len(workable) }
    BY DEF Some
  <2> HIDE DEF h, all
  <2>2. CASE AssignmentsOf(who, period) = << >>
    BY <2>2 DEF LinesOf
  <2>3. CASE AssignmentsOf(who, period) # << >>
    <3>1. LinesOf(who, period)
            \subseteq (UNION { DayLines(who, period, WorkableDaysOf(period)[n])
                               : n \in 1 .. Len(WorkableDaysOf(period)) }) \cup {saturday}
      BY <2>3, LinesAreOfDays
    <3> QED
      BY <2>1, <3>1 DEF workable
  <2> QED
    BY <2>2, <2>3
<1> HIDE DEF all, saturday
<1> QED
  BY <1>10, <1>11, FS_Subset

\* The work of recorded lines is some days of each mission, in one piece.
LEMMA WorkIsByMission ==
    ASSUME NEW lines, IsFiniteSet(lines), \A line \in lines : line.quarterDays \in Nat
    PROVE  WorkByMission(WorkOf(lines))
<1> DEFINE On(n) == { line \in lines : line.mission = MissionOrder[n] }
           S == { n \in DOMAIN MissionOrder : QuarterDaysIn(On(n)) > 0 }
           order == InOrder(S, LAMBDA n : n)
           worked == WorkOf(lines)
<1>1. \A n : QuarterDaysIn(On(n)) \in Nat
  <2>1. SUFFICES ASSUME NEW n PROVE QuarterDaysIn(On(n)) \in Nat
    OBVIOUS
  <2> DEFINE w == [ x \in On(n) |-> x.quarterDays ]
  <2>2. IsFiniteSet(On(n)) /\ \A x \in On(n) : x.quarterDays \in Nat
    BY FS_Subset
  <2>3. w \in [ On(n) -> Nat ] /\ On(n) \in SUBSET On(n)
    BY <2>2
  <2>4. PICK g : IsSum(g, On(n), w) /\ QuarterDaysIn(On(n)) = g[On(n)]
    BY <2>2, RecordedDaysSum
  <2> HIDE DEF w, On
  <2> QED
    BY <2>2, <2>3, <2>4, SumNat
<1>2. S \in SUBSET DOMAIN MissionOrder /\ S \in SUBSET Nat /\ IsFiniteSet(S)
  <2>1. DOMAIN MissionOrder = 1 .. Len(MissionOrder) /\ Len(MissionOrder) \in Nat
    BY ListsAssumption
  <2>2. IsFiniteSet(1 .. Len(MissionOrder))
    BY <2>1, FS_Interval
  <2>3. S \in SUBSET (1 .. Len(MissionOrder))
    BY <2>1
  <2>4. 1 .. Len(MissionOrder) \in SUBSET Nat
    BY <2>1
  <2> HIDE DEF S
  <2> QED
    BY <2>1, <2>2, <2>3, <2>4, FS_Subset
<1>3. /\ order \in [ 1 .. Cardinality(S) -> S ]
      /\ \A i, j \in 1 .. Cardinality(S) : order[i] = order[j] => i = j
  <2> HIDE DEF S
  <2> QED
    BY <1>2, NumbersInOrder
<1>4. Cardinality(S) \in Nat
  <2> HIDE DEF S
  <2> QED
    BY <1>2, FS_CardinalityType
<1>5. worked = [ k \in DOMAIN order |-> [ mission     |-> MissionOrder[order[k]],
                                         quarterDays |-> QuarterDaysIn(On(order[k])) ] ]
  BY DEF WorkOf
<1>6. \A n \in S : QuarterDaysIn(On(n)) > 0
  OBVIOUS
<1> HIDE DEF S, On, order, worked
<1>7. DOMAIN worked = 1 .. Cardinality(S) /\ Len(worked) = Cardinality(S)
  BY <1>3, <1>4, <1>5
<1>8. \A k \in DOMAIN worked : /\ worked[k].mission = MissionOrder[order[k]]
                               /\ worked[k].quarterDays = QuarterDaysIn(On(order[k]))
                               /\ order[k] \in S
  BY <1>3, <1>5, <1>7
<1>9. \A k \in DOMAIN worked : worked[k].quarterDays \in Nat \ {0}
  BY <1>1, <1>6, <1>8
<1>10. \A j, k \in DOMAIN worked : worked[j].mission = worked[k].mission => j = k
  BY <1>2, <1>3, <1>7, <1>8, ListsAssumption
<1> QED
  BY <1>4, <1>7, <1>9, <1>10 DEF WorkByMission, worked


\* What is read of the event of a month.
LEMMA EventIs ==
    ASSUME NEW row
    PROVE  /\ EventOf(row).worked = row.worked /\ EventOf(row).period = row.period
  BY DEF EventOf, EventWith

\* A client's document bills a mission for the days of its work, when it is billed to it.
LEMMA DaysOnLines ==
    ASSUME NEW event, WorkByMission(event.worked), NEW client, NEW w \in DOMAIN event.worked
    PROVE  DaysOn(LinesFor(event, client), event.worked[w].mission)
             = IF w \in BilledTo(event, client) THEN event.worked[w].quarterDays ELSE 0
<1> DEFINE lines == LinesFor(event, client)
           mission == event.worked[w].mission
           K == { k \in DOMAIN lines : lines[k].mission = mission }
           v == [ k \in K |-> lines[k].quarterDays ]
<1>1. \A work : LineFor(event, work).mission = work.mission
                /\ LineFor(event, work).quarterDays = work.quarterDays
  BY DEF LineFor, RegieLine
<1>2. BilledTo(event, client) \in SUBSET DOMAIN event.worked
  BY DEF BilledTo, Billed
<1>3. /\ \A n \in DOMAIN event.worked : event.worked[n].quarterDays \in Nat
      /\ \A m, n \in DOMAIN event.worked : event.worked[m].mission = event.worked[n].mission => m = n
  BY DEF WorkByMission
<1>4. /\ \E count \in Nat : DOMAIN lines = 1 .. count
      /\ \A k \in DOMAIN lines : \E n \in BilledTo(event, client) :
           lines[k] = LineFor(event, event.worked[n])
      /\ \A n \in BilledTo(event, client) : \E k \in DOMAIN lines :
           lines[k] = LineFor(event, event.worked[n])
      /\ \A j, k \in DOMAIN lines : lines[j].mission = lines[k].mission => j = k
  BY LinesOfWork
<1> HIDE DEF lines, mission
<1>6. IsFiniteSet(K)
  <2>1. IsFiniteSet(DOMAIN lines)
    BY <1>4, FS_Interval
  <2>2. K \in SUBSET DOMAIN lines
    OBVIOUS
  <2> HIDE DEF K
  <2> QED
    BY <2>1, <2>2, FS_Subset
<1>7. \A k \in DOMAIN lines : lines[k].quarterDays \in Nat
  BY <1>1, <1>2, <1>3, <1>4
<1>8. v \in [ K -> Nat ]
  BY <1>7
<1>9. PICK g : IsSum(g, K, v) /\ DaysOn(lines, mission) = g[K]
  <2>1. \A k \in K : lines[k].quarterDays \in Nat
    BY <1>7
  <2>2. K = PlacesWith(lines, mission)
    BY DEF PlacesWith
  <2> HIDE DEF K
  <2> QED
    BY <1>6, <2>1, <2>2, LineDaysSum
<1>10. CASE w \in BilledTo(event, client)
  <2>1. PICK k \in DOMAIN lines : lines[k] = LineFor(event, event.worked[w])
    BY <1>4, <1>10
  <2>2. lines[k].mission = mission /\ lines[k].quarterDays = event.worked[w].quarterDays
    BY <1>1, <2>1 DEF mission
  <2>3. k \in K /\ \A y \in K \ {k} : FALSE
    BY <1>4, <2>2
  <2>4. v[k] = event.worked[w].quarterDays
    BY <2>2, <2>3
  <2> HIDE DEF K, v
  <2>5. g[K] = v[k]
    BY <1>6, <1>8, <1>9, <2>3, SumOfOne
  <2> QED
    BY <1>9, <1>10, <2>4, <2>5 DEF lines, mission
<1>11. CASE w \notin BilledTo(event, client)
  <2>1. \A k \in K : FALSE
    BY <1>1, <1>2, <1>3, <1>4, <1>11 DEF mission
  <2> HIDE DEF K, v
  <2>2. g[K] = 0
    BY <1>6, <1>8, <1>9, <2>1, SumOfNothing
  <2> QED
    BY <1>9, <1>11, <2>2 DEF lines, mission
<1> QED
  BY <1>10, <1>11

\* A month whose documents are all on file is billed or declined, every mission of it, once.
LEMMA FiledIsAccounted ==
    ASSUME NEW books, Len(books.invoices) \in Nat, NEW row, WorkByMission(row.worked),
           OnFile(books, row, ClientsBilled(EventOf(row)), DeclinedOf(EventOf(row))),
           NEW w \in DOMAIN row.worked
    PROVE  Accounted(books, row.who, row.period, row.worked[w].mission) = row.worked[w].quarterDays
<1> DEFINE event == EventOf(row)
           mission == row.worked[w].mission
           days == row.worked[w].quarterDays
           docs == DocumentsOf(books, row.who, row.period)
           Of(d) == [ d |-> d, who |-> row.who, period |-> row.period ]
           refused == { e \in RefusedOf(books, row.who, row.period) : e.d.mission = mission }
           v == [ n \in docs |-> DaysOn(books.invoices[n].row.lines, mission) ]
           u == [ e \in refused |-> e.d.quarterDays ]
           client == Commercial[mission].client
<1>1. event.worked = row.worked
  BY EventIs
<1>2. /\ \A n \in DOMAIN row.worked : row.worked[n].quarterDays \in Nat
      /\ \A m, n \in DOMAIN row.worked : row.worked[m].mission = row.worked[n].mission => m = n
  BY DEF WorkByMission
<1>3. IsFiniteSet(docs)
  <2>1. docs \in SUBSET (1 .. Len(books.invoices))
    BY DEF DocumentsOf
  <2>2. IsFiniteSet(1 .. Len(books.invoices))
    BY FS_Interval
  <2> HIDE DEF docs
  <2> QED
    BY <2>1, <2>2, FS_Subset
<1>4. /\ \A n \in docs : /\ books.invoices[n].client \in ClientsBilled(event)
                         /\ books.invoices[n].row.lines = LinesFor(event, books.invoices[n].client)
      /\ \A m, n \in docs : books.invoices[m].client = books.invoices[n].client => m = n
      /\ \A c \in ClientsBilled(event) : \E n \in docs : books.invoices[n].client = c
      /\ RefusedOf(books, row.who, row.period) = { Of(d) : d \in DeclinedOf(event) }
  BY DEF OnFile
<1>5. Accounted(books, row.who, row.period, mission)
        = BilledDays(books, row.who, row.period, mission)
          + MapThenSumSet(LAMBDA e : e.d.quarterDays, refused)
  BY DEF Accounted, DeclinedDays
<1>6. DeclinedOf(event)
        = { [ mission |-> row.worked[n].mission, quarterDays |-> row.worked[n].quarterDays,
              reason |-> DeclineReason(event, row.worked[n].mission) ]
            : n \in DOMAIN row.worked \ Billed(event) }
  BY <1>1 DEF DeclinedOf
<1>7. \A n \in docs : DaysOn(books.invoices[n].row.lines, mission)
        = IF w \in BilledTo(event, books.invoices[n].client) THEN days ELSE 0
  <2> HIDE DEF event, docs
  <2> QED
    BY <1>1, <1>4, DaysOnLines
<1> HIDE DEF event, docs
<1>8. v \in [ docs -> Nat ] /\ \A n \in docs : DaysOn(books.invoices[n].row.lines, mission) \in Nat
  BY <1>2, <1>7
<1>9. PICK g : IsSum(g, docs, v) /\ BilledDays(books, row.who, row.period, mission) = g[docs]
  <2> HIDE DEF mission
  <2> QED
    BY <1>3, <1>8, BilledDaysSum DEF docs
<1>10. \A e \in refused : \E n \in DOMAIN row.worked \ Billed(event) :
          /\ n = w
          /\ e = Of([ mission |-> row.worked[n].mission, quarterDays |-> row.worked[n].quarterDays,
                      reason |-> DeclineReason(event, row.worked[n].mission) ])
  BY <1>2, <1>4, <1>6
<1>11. CASE w \in Billed(event)
  <2>1. client \in DOMAIN Clients /\ w \in BilledTo(event, client)
    BY <1>1, <1>11, WorkIsKnown DEF BilledTo
  <2>2. PICK n \in docs : books.invoices[n].client = client
    BY <1>4, <2>1 DEF ClientsBilled
  <2>3. v[n] = days
    BY <1>7, <2>1, <2>2
  <2>4. \A m \in docs \ {n} : v[m] = 0
    <3>1. \A c : w \in BilledTo(event, c) => c = client
      BY <1>1 DEF BilledTo
    <3> QED
      BY <1>4, <1>7, <2>2, <3>1
  <2>5. refused = {}
    BY <1>10, <1>11
  <2>6. g[docs] = v[n]
    <3> HIDE DEF v
    <3> QED
      BY <1>3, <1>8, <1>9, <2>4, SumOfOne
  <2>7. MapThenSumSet(LAMBDA e : e.d.quarterDays, refused) = 0
    <3>1. IsFiniteSet(refused) /\ \A e \in refused : e.d.quarterDays \in Nat
      BY <2>5, FS_EmptySet
    <3>2. u \in [ refused -> Nat ] /\ \A e \in refused : u[e] = 0
      BY <2>5
    <3> HIDE DEF refused
    <3>3. PICK f : /\ IsSum(f, refused, u)
                   /\ MapThenSumSet(LAMBDA e : e.d.quarterDays, refused) = f[refused]
      BY <3>1, DeclinedDaysSum
    <3> HIDE DEF u
    <3> QED
      BY <3>1, <3>2, <3>3, SumOfNothing
  <2> HIDE DEF v, refused
  <2> QED
    BY <1>2, <1>5, <1>9, <2>3, <2>6, <2>7
<1>12. CASE w \notin Billed(event)
  <2> DEFINE e0 == Of([ mission |-> mission, quarterDays |-> days,
                        reason |-> DeclineReason(event, mission) ])
  <2>1. \A n \in docs : v[n] = 0
    BY <1>7, <1>12 DEF BilledTo
  <2>2. g[docs] = 0
    <3> HIDE DEF v
    <3> QED
      BY <1>3, <1>8, <1>9, <2>1, SumOfNothing
  <2>3. e0 \in refused
    BY <1>4, <1>6, <1>12
  <2>4. refused = {e0}
    BY <1>10, <2>3
  <2>5. e0.d.quarterDays = days /\ days \in Nat
    BY <1>2
  <2>6. MapThenSumSet(LAMBDA e : e.d.quarterDays, refused) = days
    <3> HIDE DEF e0, refused
    <3>1. IsFiniteSet(refused) /\ \A e \in refused : e.d.quarterDays \in Nat
      BY <2>4, <2>5, FS_Singleton
    <3>2. u \in [ refused -> Nat ] /\ \A e \in refused \ {e0} : u[e] = 0
      BY <2>4, <3>1
    <3>3. u[e0] = days /\ e0 \in refused
      BY <2>3, <2>5
    <3>4. PICK f : /\ IsSum(f, refused, u)
                   /\ MapThenSumSet(LAMBDA e : e.d.quarterDays, refused) = f[refused]
      BY <3>1, DeclinedDaysSum
    <3> HIDE DEF u
    <3> QED
      BY <3>1, <3>2, <3>3, <3>4, SumOfOne
  <2> HIDE DEF refused, e0
  <2> QED
    BY <1>2, <1>5, <1>9, <2>2, <2>5, <2>6
<1> QED
  BY <1>11, <1>12

-----------------------------------------------------------------------------
(* The months of the seed in their turn.                                   *)

\* Two numbers written as one are in the order of the first.
LEMMA KeyOrder ==
    ASSUME NEW a \in Nat, NEW b \in Nat, a < b, NEW size \in Nat,
           NEW c \in 0 .. size - 1, NEW d \in 0 .. size - 1
    PROVE  a * size + c < b * size + d
<1>1. PICK r \in Nat : b = a + 1 + r
  <2>1. b - a - 1 \in Nat /\ b = a + 1 + (b - a - 1)
    OBVIOUS
  <2> QED
    BY <2>1
<1>2. b * size = a * size + size + r * size
  BY <1>1
<1>3. a * size \in Nat /\ r * size \in Nat
  BY <1>1
<1> DEFINE x == a * size
           y == r * size
           z == b * size
<1>4. x \in Nat /\ y \in Nat /\ z = x + size + y
  BY <1>2, <1>3
<1> HIDE DEF x, y, z
<1>5. x + c < z + d
  BY <1>4
<1> QED
  BY <1>5 DEF x, z

LEMMA KeysApart ==
    ASSUME NEW a \in Nat, NEW b \in Nat, NEW size \in Nat,
           NEW c \in 0 .. size - 1, NEW d \in 0 .. size - 1
    PROVE  /\ a * size + c = b * size + d => a = b /\ c = d
           /\ a * size + c < b * size + d => a <= b
<1> DEFINE x == a * size
           z == b * size
<1>1. x \in Nat /\ z \in Nat
  OBVIOUS
<1>2. (a < b => x + c < z + d) /\ (b < a => z + d < x + c)
  BY KeyOrder
<1>3. a = b => x = z
  OBVIOUS
<1> HIDE DEF x, z
<1>4. /\ x + c = z + d => a = b /\ c = d
      /\ x + c < z + d => a <= b
  BY <1>1, <1>2, <1>3
<1> QED
  BY <1>4 DEF x, z

\* A function on the first so many numbers is a sequence.
LEMMA FamilyIsSequence ==
    ASSUME NEW s, NEW count \in Nat, s = [ k \in 1 .. count |-> s[k] ]
    PROVE  IsSequence(s) /\ Len(s) = count /\ DOMAIN s = 1 .. count
<1>1. \A k \in 1 .. count : s[k] \in Range(s)
  BY DEF Range
<1>2. s \in Seq(Range(s))
  <2> DEFINE R == Range(s)
  <2>1. \A k \in 1 .. count : s[k] \in R
    BY <1>1
  <2> HIDE DEF R
  <2>2. s \in [ 1 .. count -> R ]
    BY <2>1
  <2>3. s \in Seq(R)
    BY <2>2
  <2> QED
    BY <2>3 DEF R
<1> QED
  BY <1>2 DEF IsSequence

\* The dense months: none of them is issued.
LEMMA DenseAreDrafts ==
    /\ IsSequence(DenseEntries) /\ Len(DenseEntries) \in Nat
    /\ \A k \in 1 .. Len(DenseEntries) :
         DenseEntries[k].outcome = "draft" /\ IsPeriod(DenseEntries[k].period)
<1> DEFINE Staffed(p) == { c \in DOMAIN Consultants : HasCraFor(Consultants[c], DensePeriods[p]) }
           places == UNION { {p} \X Staffed(p) : p \in DOMAIN DensePeriods }
           size == Len(Consultants) + 1
           Key(p) == p[1] * size + p[2]
           order == InOrder(places, LAMBDA p : p[1] * size + p[2])
           f == [ p \in places |-> Key(p) ]
           rank == [ p \in places |-> Cardinality({ y \in places : Key(y) < Key(p) }) ]
           N == Cardinality(places)
<1>1. /\ DOMAIN Consultants = 1 .. Len(Consultants) /\ Len(Consultants) \in Nat
      /\ DOMAIN DensePeriods = 1 .. Len(DensePeriods) /\ Len(DensePeriods) \in Nat
      /\ \A n \in DOMAIN DensePeriods : IsPeriod(DensePeriods[n])
  BY ListsAssumption
<1>2. \A p \in places : /\ p[1] \in DOMAIN DensePeriods /\ p[2] \in DOMAIN Consultants
                        /\ p = << p[1], p[2] >>
  OBVIOUS
<1>3. IsFiniteSet(places)
  <2>1. IsFiniteSet(DOMAIN DensePeriods) /\ IsFiniteSet(DOMAIN Consultants)
    BY <1>1, FS_Interval
  <2>2. IsFiniteSet((DOMAIN DensePeriods) \X (DOMAIN Consultants))
    BY <2>1, FS_Product
  <2>3. places \in SUBSET ((DOMAIN DensePeriods) \X (DOMAIN Consultants))
    BY <1>2
  <2> HIDE DEF places
  <2> QED
    BY <2>2, <2>3, FS_Subset
<1> HIDE DEF places
<1>4. /\ size \in Nat
      /\ \A p \in places : p[1] \in Nat /\ p[2] \in 0 .. size - 1
  BY <1>1, <1>2
<1> HIDE DEF size
<1>5. \A p \in places : Key(p) \in Nat
  <2>1. ASSUME NEW a \in Nat, NEW c \in 0 .. size - 1 PROVE a * size + c \in Nat
    <3>1. a * size \in Nat
      BY <1>4
    <3> QED
      BY <1>4, <3>1
  <2> QED
    BY <1>4, <2>1
<1>6. \A p, q \in places : Key(p) = Key(q) => p = q
  <2>1. SUFFICES ASSUME NEW p \in places, NEW q \in places, Key(p) = Key(q) PROVE p = q
    OBVIOUS
  <2>2. p[1] = q[1] /\ p[2] = q[2]
    <3> DEFINE a == p[1]
               b == q[1]
               c == p[2]
               d == q[2]
    <3>1. /\ a \in Nat /\ b \in Nat /\ size \in Nat /\ c \in 0 .. size - 1 /\ d \in 0 .. size - 1
          /\ a * size + c = b * size + d
      BY <1>4, <2>1
    <3> HIDE DEF a, b, c, d
    <3>2. a = b /\ c = d
      BY <3>1, KeysApart
    <3> QED
      BY <3>2 DEF a, b, c, d
  <2> QED
    BY <1>2, <2>2
<1>7. order = [ n \in 1 .. N |-> CHOOSE x \in places :
                                   Cardinality({ y \in places : Key(y) < Key(x) }) = n - 1 ]
  BY DEF InOrder
<1>8. N \in Nat /\ \A n \in 1 .. N : order[n] \in places
  <2>1. f \in [ places -> Nat ] /\ \A p, q \in places : f[p] = f[q] => p = q
    BY <1>5, <1>6
  <2>2. \A x \in places : rank[x] = Cardinality({ y \in places : f[y] < f[x] })
    <3>1. \A x \in places : { y \in places : f[y] < f[x] } = { y \in places : Key(y) < Key(x) }
      OBVIOUS
    <3> HIDE DEF f, Key
    <3> QED
      BY <3>1
  <2>3. \A n \in 1 .. N : order[n] = CHOOSE x \in places :
                                   Cardinality({ y \in places : Key(y) < Key(x) }) = n - 1
    <3> HIDE DEF N, order, Key
    <3> QED
      BY <1>7
  <2>4. ASSUME NEW n \in 1 .. N, NEW x \in places, rank[x] = n - 1
        PROVE  order[n] \in places /\ rank[order[n]] = n - 1
    <3>1. Cardinality({ y \in places : Key(y) < Key(x) }) = n - 1
      BY <2>4
    <3>2. /\ order[n] \in places
          /\ Cardinality({ y \in places : Key(y) < Key(order[n]) }) = n - 1
      <4> HIDE DEF order, Key, N
      <4> QED
        BY <2>3, <3>1
    <3> HIDE DEF order, Key
    <3> QED
      BY <3>2
  <2> HIDE DEF f, order, rank
  <2> QED
    BY <1>3, <2>1, <2>2, <2>4, InKeyOrder
<1> HIDE DEF N
<1>9. DOMAIN order = 1 .. N
  BY <1>7
<1>10. DenseEntries = [ k \in DOMAIN order |->
         Entry(Consultants[order[k][2]], DensePeriods[order[k][1]], "draft") ]
  BY DEF DenseEntries, places, size
<1> HIDE DEF order
<1>11. \A k \in 1 .. N : DenseEntries[k].outcome = "draft" /\ IsPeriod(DenseEntries[k].period)
  BY <1>1, <1>2, <1>8, <1>9, <1>10 DEF Entry
<1>12. DenseEntries = [ k \in 1 .. N |-> DenseEntries[k] ]
  BY <1>9, <1>10
<1> QED
  BY <1>8, <1>11, <1>12, FamilyIsSequence

\* The digits of the first day of a period tell it.
LEMMA FirstDayTells ==
    ASSUME NEW one, IsPeriod(one), NEW two, IsPeriod(two)
    PROVE  /\ Digits(FirstDayOf(one)) \in Nat
           /\ Digits(FirstDayOf(one)) = Digits(FirstDayOf(two)) => FirstDayOf(one) = FirstDayOf(two)
<1>1. /\ one.year \in Nat /\ two.year \in Nat /\ one.month \in 1 .. 12 /\ two.month \in 1 .. 12
  <2>1. ASSUME NEW p, IsPeriod(p) PROVE p.year \in Nat /\ p.month \in 1 .. 12
    BY <2>1 DEF IsPeriod
  <2> QED
    BY <2>1
<1>2. /\ Digits(FirstDayOf(one)) = (one.year * 100 + one.month) * 100 + 1
      /\ Digits(FirstDayOf(two)) = (two.year * 100 + two.month) * 100 + 1
  BY DEF Digits, FirstDayOf, Date
<1>3. Digits(FirstDayOf(one)) = Digits(FirstDayOf(two)) => one.year = two.year /\ one.month = two.month
  BY <1>1, <1>2
<1>4. one.year = two.year /\ one.month = two.month => FirstDayOf(one) = FirstDayOf(two)
  BY DEF FirstDayOf, Date
<1> QED
  BY <1>1, <1>2, <1>3, <1>4

\* The historical months: they come in the order of their periods.
LEMMA HistoricalInTurn ==
    /\ IsSequence(HistoricalEntries) /\ Len(HistoricalEntries) \in Nat
    /\ \A k \in 1 .. Len(HistoricalEntries) :
         HistoricalEntries[k].outcome \in Outcomes /\ IsPeriod(HistoricalEntries[k].period)
    /\ \A j, k \in 1 .. Len(HistoricalEntries) :
         j < k => NotLater(HistoricalEntries[j].period, HistoricalEntries[k].period)
<1> DEFINE Its(v) == DOMAIN Veterans[v].periods
           places == UNION { {v} \X Its(v) : v \in DOMAIN Veterans }
           size == Len(Veterans) + 1
           PeriodAt(p) == Veterans[p[1]].periods[p[2]]
           order == InOrder(places, LAMBDA p : Placed(p))
           f == [ p \in places |-> Placed(p) ]
           rank == [ p \in places |-> Cardinality({ y \in places : Placed(y) < Placed(p) }) ]
           N == Cardinality(places)
<1>1. /\ DOMAIN Veterans = 1 .. Len(Veterans) /\ Len(Veterans) \in Nat
      /\ \A v \in DOMAIN Veterans :
           /\ Its(v) = 1 .. Len(Veterans[v].periods) /\ Len(Veterans[v].periods) \in Nat
           /\ \A n \in Its(v) : IsPeriod(Veterans[v].periods[n])
           /\ \A m, n \in Its(v) :
                FirstDayOf(Veterans[v].periods[m]) = FirstDayOf(Veterans[v].periods[n]) => m = n
  BY ListsAssumption, VeteransAssumption
<1>2. \A p \in places : p[1] \in DOMAIN Veterans /\ p[2] \in Its(p[1]) /\ p = << p[1], p[2] >>
  OBVIOUS
<1>3. IsFiniteSet(places)
  <2> DEFINE h == [ v \in DOMAIN Veterans |-> {v} \X Its(v) ]
             all == { h[v] : v \in DOMAIN Veterans }
  <2>1. IsFiniteSet(DOMAIN Veterans)
    BY <1>1, FS_Interval
  <2>2. \A v \in DOMAIN Veterans : IsFiniteSet(h[v])
    <3>1. ASSUME NEW v \in DOMAIN Veterans PROVE IsFiniteSet(Its(v)) /\ IsFiniteSet({v})
      <4>1. Its(v) = 1 .. Len(Veterans[v].periods) /\ Len(Veterans[v].periods) \in Nat
        BY <1>1
      <4>2. IsFiniteSet(1 .. Len(Veterans[v].periods))
        BY <4>1, FS_Interval
      <4> HIDE DEF Its
      <4> QED
        BY <4>1, <4>2, FS_Singleton
    <3>2. \A v \in DOMAIN Veterans : IsFiniteSet({v} \X Its(v))
      <4> HIDE DEF Its
      <4> QED
        BY <3>1, FS_Product
    <3> QED
      BY <3>2
  <2>3. h \in Surjection(DOMAIN Veterans, all)
    BY DEF Surjection
  <2>4. places = UNION all
    OBVIOUS
  <2> HIDE DEF h
  <2>5. \A T \in all : IsFiniteSet(T)
    BY <2>2
  <2> HIDE DEF all, places
  <2>6. IsFiniteSet(all)
    BY <2>1, <2>3, FS_Surjection
  <2> QED
    BY <2>4, <2>5, <2>6, FS_UNION
<1>4. /\ size \in Nat
      /\ \A p \in places : /\ p[1] \in 0 .. size - 1 /\ IsPeriod(PeriodAt(p))
                           /\ Digits(FirstDayOf(PeriodAt(p))) \in Nat
                           /\ Placed(p) = Digits(FirstDayOf(PeriodAt(p))) * size + p[1]
  <2> HIDE DEF places
  <2>1. \A p \in places : IsPeriod(PeriodAt(p)) /\ p[1] \in 0 .. size - 1
    BY <1>1, <1>2
  <2>2. \A p \in places : Placed(p) = Digits(FirstDayOf(PeriodAt(p))) * size + p[1]
    BY DEF Placed
  <2> HIDE DEF PeriodAt
  <2>3. \A p \in places : Digits(FirstDayOf(PeriodAt(p))) \in Nat
    BY <2>1, FirstDayTells
  <2>4. size \in Nat
    BY <1>1
  <2> QED
    BY <2>1, <2>2, <2>3, <2>4
<1> HIDE DEF places, size
<1>5. \A p \in places : Placed(p) \in Nat
  <2>1. ASSUME NEW a \in Nat, NEW c \in 0 .. size - 1 PROVE a * size + c \in Nat
    <3>1. a * size \in Nat
      BY <1>4
    <3> QED
      BY <1>4, <3>1
  <2> HIDE DEF PeriodAt
  <2> QED
    BY <1>4, <2>1
<1>6. ASSUME NEW p \in places, NEW q \in places
      PROVE  /\ Placed(p) = Placed(q) => p = q
             /\ Placed(p) < Placed(q) => NotLater(PeriodAt(p), PeriodAt(q))
  <2> DEFINE a == Digits(FirstDayOf(PeriodAt(p)))
             b == Digits(FirstDayOf(PeriodAt(q)))
             c == p[1]
             d == q[1]
  <2>1. /\ a \in Nat /\ b \in Nat /\ size \in Nat /\ c \in 0 .. size - 1 /\ d \in 0 .. size - 1
        /\ Placed(p) = a * size + c /\ Placed(q) = b * size + d
    BY <1>4
  <2> HIDE DEF a, b, c, d
  <2>2. (Placed(p) = Placed(q) => a = b /\ c = d) /\ (Placed(p) < Placed(q) => a <= b)
    BY <2>1, KeysApart
  <2>3. Placed(p) < Placed(q) => NotLater(PeriodAt(p), PeriodAt(q))
    BY <2>2 DEF NotLater, NotAfter, a, b
  <2>4. ASSUME Placed(p) = Placed(q) PROVE p = q
    <3>1. c = d /\ FirstDayOf(PeriodAt(p)) = FirstDayOf(PeriodAt(q))
      <4>1. Digits(FirstDayOf(PeriodAt(p))) = Digits(FirstDayOf(PeriodAt(q))) /\ c = d
        BY <2>2, <2>4 DEF a, b
      <4>2. IsPeriod(PeriodAt(p)) /\ IsPeriod(PeriodAt(q))
        BY <1>4
      <4> HIDE DEF PeriodAt
      <4> QED
        BY <4>1, <4>2, FirstDayTells
    <3>2. p[1] = q[1]
      BY <3>1 DEF c, d
    <3>3. p[2] = q[2]
      BY <1>1, <1>2, <3>1, <3>2
    <3> QED
      BY <1>2, <3>2, <3>3
  <2> QED
    BY <2>3, <2>4
<1>7. order = [ n \in 1 .. N |-> CHOOSE x \in places :
                                   Cardinality({ y \in places : Placed(y) < Placed(x) }) = n - 1 ]
  BY DEF InOrder
<1>8. /\ N \in Nat /\ \A n \in 1 .. N : order[n] \in places
      /\ \A i, j \in 1 .. N : i < j => Placed(order[i]) < Placed(order[j])
  <2>1. f \in [ places -> Nat ] /\ \A p, q \in places : f[p] = f[q] => p = q
    BY <1>5, <1>6
  <2>2. \A x \in places : rank[x] = Cardinality({ y \in places : f[y] < f[x] })
    <3>1. \A x \in places : { y \in places : f[y] < f[x] } = { y \in places : Placed(y) < Placed(x) }
      OBVIOUS
    <3> HIDE DEF f
    <3> QED
      BY <3>1
  <2>3. \A n \in 1 .. N : order[n] = CHOOSE x \in places :
                                   Cardinality({ y \in places : Placed(y) < Placed(x) }) = n - 1
    <3> HIDE DEF N, order
    <3> QED
      BY <1>7
  <2>4. ASSUME NEW n \in 1 .. N, NEW x \in places, rank[x] = n - 1
        PROVE  order[n] \in places /\ rank[order[n]] = n - 1
    <3>1. Cardinality({ y \in places : Placed(y) < Placed(x) }) = n - 1
      BY <2>4
    <3>2. /\ order[n] \in places
          /\ Cardinality({ y \in places : Placed(y) < Placed(order[n]) }) = n - 1
      <4> HIDE DEF order, N
      <4> QED
        BY <2>3, <3>1
    <3> HIDE DEF order
    <3> QED
      BY <3>2
  <2>5. \A x \in places : f[x] = Placed(x)
    OBVIOUS
  <2> HIDE DEF f, order, rank
  <2>6. /\ N \in Nat /\ \A n \in 1 .. N : order[n] \in places
        /\ \A i, j \in 1 .. N : i < j => f[order[i]] < f[order[j]]
    BY <1>3, <2>1, <2>2, <2>4, InKeyOrder
  <2> QED
    BY <2>5, <2>6
<1> HIDE DEF N
<1>9. DOMAIN order = 1 .. N
  BY <1>7
<1>10. HistoricalEntries = [ k \in DOMAIN order |-> VeteranEntry(order[k]) ]
  BY DEF HistoricalEntries, places
<1> HIDE DEF order
<1>11. \A p : VeteranEntry(p).period = PeriodAt(p) /\ VeteranEntry(p).outcome \in Outcomes
  BY DEF VeteranEntry, Entry, HistoricalOutcome, Outcomes
<1>12. HistoricalEntries = [ k \in 1 .. N |-> HistoricalEntries[k] ]
  BY <1>9, <1>10
<1>13. IsSequence(HistoricalEntries) /\ Len(HistoricalEntries) = N
  BY <1>8, <1>12, FamilyIsSequence
<1>14. \A k \in 1 .. N : HistoricalEntries[k] = VeteranEntry(order[k])
  BY <1>9, <1>10
<1> HIDE DEF PeriodAt
<1>15. \A k \in 1 .. N :
         HistoricalEntries[k].outcome \in Outcomes /\ IsPeriod(HistoricalEntries[k].period)
  BY <1>4, <1>8, <1>11, <1>14
<1>16. \A j, k \in 1 .. N : j < k => NotLater(HistoricalEntries[j].period, HistoricalEntries[k].period)
  BY <1>6, <1>8, <1>11, <1>14
<1> QED
  BY <1>8, <1>13, <1>15, <1>16

\* The months of the seed: what is to be issued comes in the order of the periods.
LEMMA EntriesInTurn ==
    /\ IsSequence(Entries)
    /\ \A k \in 1 .. Len(Entries) : Entries[k].outcome \in Outcomes /\ IsPeriod(Entries[k].period)
    /\ \A j, k \in 1 .. Len(Entries) :
         Entries[j].outcome # "draft" /\ Entries[k].outcome # "draft" /\ j < k
           => NotLater(Entries[j].period, Entries[k].period)
<1> DEFINE D == DenseEntries
           H == HistoricalEntries
           m == Len(D)
           n == Len(H)
<1>1. D \in Seq(Range(D)) /\ m \in Nat /\ H \in Seq(Range(H)) /\ n \in Nat
  BY DenseAreDrafts, HistoricalInTurn DEF IsSequence
<1>2. /\ \A k \in 1 .. m : D[k].outcome = "draft" /\ IsPeriod(D[k].period)
      /\ \A k \in 1 .. n : H[k].outcome \in Outcomes /\ IsPeriod(H[k].period)
      /\ \A j, k \in 1 .. n : j < k => NotLater(H[j].period, H[k].period)
  BY DenseAreDrafts, HistoricalInTurn
<1>3. Entries = D \o H
  BY DEF Entries
<1> HIDE DEF D, H
<1>a. D \in Seq(Range(D) \cup Range(H)) /\ H \in Seq(Range(D) \cup Range(H))
  BY <1>1
<1>4. /\ Len(Entries) = m + n /\ Entries = [ k \in 1 .. m + n |-> Entries[k] ]
      /\ \A k \in 1 .. m : Entries[k] = D[k]
      /\ \A k \in 1 .. m + n : k > m => Entries[k] = H[k - m] /\ k - m \in 1 .. n
  <2> DEFINE R == Range(D) \cup Range(H)
  <2>1. D \in Seq(R) /\ H \in Seq(R)
    BY <1>a
  <2> HIDE DEF R
  <2>2. Entries \in Seq(R) /\ Len(Entries) = m + n
    BY <1>1, <1>3, <2>1
  <2>3. Entries = [ k \in 1 .. m + n |-> Entries[k] ]
    BY <1>1, <2>2
  <2>4. \A k \in 1 .. m : Entries[k] = D[k]
    BY <1>1, <1>3, <2>1
  <2>5. \A k \in 1 .. m + n : k > m => Entries[k] = H[k - m] /\ k - m \in 1 .. n
    BY <1>1, <1>3, <2>1
  <2> QED
    BY <2>2, <2>3, <2>4, <2>5
<1> HIDE DEF m, n
<1>5. IsSequence(Entries)
  <2>1. m + n \in Nat
    BY <1>1
  <2> QED
    BY <1>4, <2>1, FamilyIsSequence
<1>6. \A k \in 1 .. m + n : k \in 1 .. m \/ k > m
  BY <1>1
<1>7. \A k \in 1 .. m + n : Entries[k].outcome \in Outcomes /\ IsPeriod(Entries[k].period)
  BY <1>2, <1>4, <1>6 DEF Outcomes
<1>8. ASSUME NEW j \in 1 .. m + n, NEW k \in 1 .. m + n, Entries[j].outcome # "draft",
             Entries[k].outcome # "draft", j < k
      PROVE  NotLater(Entries[j].period, Entries[k].period)
  <2>1. j > m /\ k > m
    BY <1>2, <1>4, <1>6, <1>8
  <2>2. /\ Entries[j] = H[j - m] /\ j - m \in 1 .. n /\ Entries[k] = H[k - m] /\ k - m \in 1 .. n
        /\ j - m < k - m
    BY <1>1, <1>4, <1>8, <2>1
  <2> QED
    BY <1>2, <2>2
<1> QED
  BY <1>4, <1>5, <1>7, <1>8

-----------------------------------------------------------------------------
(* The seed, statement by statement.                                       *)

\* One appended, one taken off.
LEMMA AppendIs ==
    ASSUME NEW s, IsSequence(s), NEW e
    PROVE  /\ Len(s) \in Nat /\ IsSequence(Append(s, e)) /\ Len(Append(s, e)) = Len(s) + 1
           /\ \A k \in 1 .. Len(s) : Append(s, e)[k] = s[k]
           /\ Append(s, e)[Len(s) + 1] = e
<1> DEFINE R == Range(s) \cup {e}
           t == Append(s, e)
<1>1. s \in Seq(R) /\ e \in R
  BY DEF IsSequence
<1> HIDE DEF R
<1>2. Len(s) \in Nat /\ t \in Seq(R) /\ Len(t) = Len(s) + 1
  BY <1>1
<1>3. (\A k \in 1 .. Len(s) : t[k] = s[k]) /\ t[Len(s) + 1] = e
  BY <1>1
<1> HIDE DEF t
<1>4. t = [ k \in 1 .. Len(s) + 1 |-> t[k] ] /\ Len(s) + 1 \in Nat
  BY <1>2
<1>5. IsSequence(t)
  <2> DEFINE n == Len(s) + 1
  <2>1. n \in Nat /\ t = [ k \in 1 .. n |-> t[k] ]
    BY <1>4
  <2> HIDE DEF n
  <2> QED
    BY <2>1, FamilyIsSequence
<1> QED
  BY <1>2, <1>3, <1>5 DEF t

LEMMA TailIs ==
    ASSUME NEW s, IsSequence(s), s # << >>
    PROVE  /\ Len(s) \in Nat /\ 1 \in 1 .. Len(s) /\ Head(s) = s[1]
           /\ IsSequence(Tail(s)) /\ Len(Tail(s)) = Len(s) - 1
           /\ \A k \in 1 .. Len(s) - 1 : k + 1 \in 1 .. Len(s) /\ Tail(s)[k] = s[k + 1]
           /\ \A k \in 1 .. Len(s) : k = 1 \/ (k - 1 \in 1 .. Len(s) - 1 /\ Tail(s)[k - 1] = s[k])
<1> DEFINE R == Range(s)
           t == Tail(s)
<1>1. s \in Seq(R)
  BY DEF IsSequence
<1> HIDE DEF R
<1>2. Len(s) \in Nat /\ Len(s) > 0 /\ Head(s) = s[1]
  BY <1>1
<1>3. t \in Seq(R) /\ Len(t) = Len(s) - 1
  BY <1>1
<1>4. \A k \in 1 .. Len(s) - 1 : t[k] = s[k + 1]
  BY <1>1, <1>2
<1> HIDE DEF t
<1>5. t = [ k \in 1 .. Len(s) - 1 |-> t[k] ] /\ Len(s) - 1 \in Nat
  BY <1>2, <1>3
<1>6. IsSequence(t)
  BY <1>5, FamilyIsSequence
<1>7. \A k \in 1 .. Len(s) : k = 1 \/ (k - 1 \in 1 .. Len(s) - 1 /\ t[k - 1] = s[k])
  BY <1>2, <1>4
<1>8. 1 \in 1 .. Len(s) /\ \A k \in 1 .. Len(s) - 1 : k + 1 \in 1 .. Len(s)
  BY <1>2
<1> QED
  BY <1>2, <1>3, <1>4, <1>6, <1>7, <1>8 DEF t

LEMMA NoneIsSequence == IsSequence(<< >>) /\ Len(<< >>) = 0
  BY DEF IsSequence, Range

\* Books nothing is in are in order.
LEMMA NoBooks ==
    ASSUME NEW books, books.invoices = << >>, books.cras = << >>,
           books.lastSequence = [ year \in {} |-> 0 ]
    PROVE  SeriesWhole(books) /\ DatesRise(books) /\ MonthsAccounted(books) /\ WithNumber(books) = {}
<1>1. WithNumber(books) = {}
  BY NoneIsSequence DEF WithNumber
<1>2. DOMAIN books.lastSequence = {}
  OBVIOUS
<1>3. SeriesWhole(books)
  BY <1>1, <1>2 DEF SeriesWhole
<1>4. DatesRise(books)
  BY <1>1 DEF DatesRise
<1>5. MonthsAccounted(books)
  BY NoneIsSequence DEF MonthsAccounted
<1> QED
  BY <1>1, <1>3, <1>4, <1>5

\* The books at hand, and the books committed.
AtHand ==
    /\ Phases /\ MonthsOnce /\ InTurn /\ DatedByMonth /\ FiledSoFar
    /\ SeriesWhole(tables) /\ DatesRise(tables)

Kept == SeriesWhole(database) /\ DatesRise(database) /\ MonthsAccounted(database)

LEMMA TwoParts == SeedInv <=> AtHand /\ Kept
  BY DEF SeedInv, AtHand, Kept

\* Nothing is in the tables yet, or any more.
Fresh ==
    /\ phase \in {"rest", "months"}
    /\ DOMAIN tables = DOMAIN Empty
    /\ tables.cras = << >> /\ tables.invoices = << >> /\ tables.declined = {}
    /\ tables.lastSequence = [ year \in {} |-> 0 ]
    /\ seededCras = << >>
    /\ queue = IF phase = "rest" THEN << >> ELSE Entries

LEMMA FreshIsGood == Fresh => AtHand
<1> SUFFICES ASSUME phase \in {"rest", "months"}, DOMAIN tables = DOMAIN Empty,
                    tables.cras = << >>, tables.invoices = << >>, tables.declined = {},
                    tables.lastSequence = [ year \in {} |-> 0 ], seededCras = << >>,
                    queue = IF phase = "rest" THEN << >> ELSE Entries
             PROVE  AtHand
  BY DEF Fresh
<1>1. /\ IsSequence(queue)
      /\ \A k \in 1 .. Len(queue) : queue[k].outcome \in Outcomes /\ IsPeriod(queue[k].period)
      /\ \A j, k \in 1 .. Len(queue) :
           queue[j].outcome # "draft" /\ queue[k].outcome # "draft" /\ j < k
             => NotLater(queue[j].period, queue[k].period)
  BY EntriesInTurn, NoneIsSequence
<1>2. Phases
  BY <1>1, NoneIsSequence DEF Phases
<1>3. MonthsOnce
  BY NoneIsSequence DEF MonthsOnce
<1>4. SeriesWhole(tables) /\ DatesRise(tables) /\ WithNumber(tables) = {}
  BY NoBooks
<1>5. InTurn
  <2>1. ToIssue = {}
    BY NoneIsSequence DEF ToIssue
  <2> QED
    BY <1>1, <1>4, <2>1, NoneIsSequence DEF InTurn, ToOpen
<1>6. DatedByMonth
  BY <1>4 DEF DatedByMonth
<1>7. FiledSoFar
  BY NoneIsSequence DEF FiledSoFar
<1> QED
  BY <1>2, <1>3, <1>4, <1>5, <1>6, <1>7 DEF AtHand

LEMMA FreshIsGoodNext == Fresh' => AtHand'
  BY FreshIsGood, PTL

LEMMA BeginKeeps == ASSUME SeedInv, Begin PROVE SeedInv'
<1>1. AtHand'
  <2>1. tables' = [ Empty EXCEPT !.reference = ReferenceInserted ]
    BY DEF Begin, Cleared
  <2>2. /\ DOMAIN tables' = DOMAIN Empty
        /\ tables'.cras = << >> /\ tables'.invoices = << >> /\ tables'.declined = {}
        /\ tables'.lastSequence = [ year \in {} |-> 0 ]
    BY <2>1 DEF Empty
  <2>3. phase' = "months" /\ queue' = Entries /\ seededCras' = << >>
    BY DEF Begin, SeedInv, Phases
  <2> QED
    BY <2>2, <2>3, FreshIsGoodNext DEF Fresh
<1>2. Kept'
  <2>1. database' = database
    BY DEF Begin
  <2> QED
    BY <2>1, TwoParts DEF Kept
<1>3. SeedInv' <=> AtHand' /\ Kept'
  BY TwoParts, PTL
<1> QED
  BY <1>1, <1>2, <1>3

LEMMA FinishesGood == ASSUME Finishes PROVE AtHand'
<1>1. /\ DOMAIN tables' = DOMAIN Empty
      /\ tables'.cras = << >> /\ tables'.invoices = << >> /\ tables'.declined = {}
      /\ tables'.lastSequence = [ year \in {} |-> 0 ]
  BY DEF Finishes, Empty
<1>2. phase' = "rest" /\ queue' = << >> /\ seededCras' = << >>
  BY DEF Finishes
<1> QED
  BY <1>1, <1>2, FreshIsGoodNext DEF Fresh

LEMMA RollBackKeeps == ASSUME SeedInv, RollBack PROVE SeedInv'
<1>1. AtHand'
  BY FinishesGood DEF RollBack
<1>2. Kept'
  <2>1. database' = database
    BY DEF RollBack
  <2> QED
    BY <2>1, TwoParts DEF Kept
<1>3. SeedInv' <=> AtHand' /\ Kept'
  BY TwoParts, PTL
<1> QED
  BY <1>1, <1>2, <1>3

\* With nothing left to draft from, every month has all its documents.
LEMMA AllAccounted ==
    ASSUME SeedInv, seededCras = << >>
    PROVE  MonthsAccounted(tables)
<1>1. /\ Len(tables.invoices) \in Nat /\ Len(seededCras) = 0
  BY NoneIsSequence DEF SeedInv, Phases, IsSequence
<1>2. SUFFICES ASSUME NEW c \in 1 .. Len(tables.cras), tables.cras[c].status = "validated",
                      NEW w \in 1 .. Len(tables.cras[c].worked)
               PROVE  Accounted(tables, tables.cras[c].who, tables.cras[c].period,
                                tables.cras[c].worked[w].mission)
                        = tables.cras[c].worked[w].quarterDays
  BY DEF MonthsAccounted
<1> DEFINE row == tables.cras[c]
<1>3. WorkByMission(row.worked)
  BY <1>2 DEF SeedInv, MonthsOnce
<1>4. w \in DOMAIN row.worked
  BY <1>2, <1>3 DEF WorkByMission
<1>5. OnFile(tables, row, ClientsBilled(EventOf(row)), DeclinedOf(EventOf(row)))
  BY <1>1, <1>2 DEF SeedInv, FiledSoFar
<1> HIDE DEF row
<1>6. Accounted(tables, row.who, row.period, row.worked[w].mission) = row.worked[w].quarterDays
  BY <1>1, <1>3, <1>4, <1>5, FiledIsAccounted
<1> QED
  BY <1>6 DEF row

LEMMA CommitKeeps == ASSUME SeedInv, Commit PROVE SeedInv'
<1>1. AtHand'
  BY FinishesGood DEF Commit
<1>2. Kept'
  <2>1. database' = tables /\ seededCras = << >>
    BY DEF Commit
  <2>2. SeriesWhole(tables) /\ DatesRise(tables) /\ MonthsAccounted(tables)
    BY <2>1, AllAccounted DEF SeedInv
  <2> QED
    BY <2>1, <2>2 DEF Kept
<1>3. SeedInv' <=> AtHand' /\ Kept'
  BY TwoParts, PTL
<1> QED
  BY <1>1, <1>2, <1>3

\* What is on file of a month depends on the documents and the declined days only.
LEMMA SameFile ==
    ASSUME NEW one, NEW two, one.invoices = two.invoices, one.declined = two.declined,
           NEW row, NEW clients, NEW refused
    PROVE  OnFile(one, row, clients, refused) <=> OnFile(two, row, clients, refused)
<1>1. /\ DocumentsOf(one, row.who, row.period) = DocumentsOf(two, row.who, row.period)
      /\ RefusedOf(one, row.who, row.period) = RefusedOf(two, row.who, row.period)
  BY DEF DocumentsOf, RefusedOf
<1> QED
  BY <1>1 DEF OnFile

\* Nor is the series, when no document takes a number.
LEMMA SameBooks ==
    ASSUME NEW one, NEW two, one.lastSequence = two.lastSequence,
           WithNumber(one) = WithNumber(two),
           \A n \in WithNumber(one) : one.invoices[n] = two.invoices[n]
    PROVE  /\ SeriesWhole(one) => SeriesWhole(two)
           /\ DatesRise(one) => DatesRise(two)
<1>1. \A year : /\ OfYear(one, year) = OfYear(two, year)
                /\ LastSequence(one, year) = LastSequence(two, year)
  BY DEF OfYear, LastSequence
<1>2. \A year : \A n \in OfYear(one, year) : one.invoices[n] = two.invoices[n]
  BY DEF OfYear
<1>3. \A year : Own(one, year) = Own(two, year)
  BY <1>1, <1>2 DEF Own
<1>4. \A year : NotesOf(one, year) = NotesOf(two, year)
  BY <1>1, <1>2 DEF NotesOf
<1>5. { one.invoices[n].row.series : n \in WithNumber(one) }
        = { two.invoices[n].row.series : n \in WithNumber(two) }
  OBVIOUS
<1>6. SeriesWhole(one) => SeriesWhole(two)
  BY <1>1, <1>3, <1>4, <1>5 DEF SeriesWhole
<1>7. DatesRise(one) => DatesRise(two)
  BY DEF DatesRise
<1> QED
  BY <1>6, <1>7

\* A month that is driven through the domain is of its period, and its work by mission.
LEMMA RowIs ==
    ASSUME NEW entry, NEW rows, IsPeriod(entry.period), OpensSubmitsValidates(entry, rows)
    PROVE  LET row == CraRow(entry.consultant.who, entry.consultant.office, entry.period)
           IN /\ row.who = entry.consultant.who /\ row.period = entry.period
              /\ WorkByMission(row.worked)
              /\ \A n \in 1 .. Len(rows) : ~ (rows[n].who = row.who /\ rows[n].period = row.period)
<1> DEFINE who == entry.consultant.who
           lines == LinesOf(who, entry.period)
           row == CraRow(who, entry.consultant.office, entry.period)
<1>1. row.who = who /\ row.period = entry.period /\ row.worked = WorkOf(lines)
  BY DEF CraRow
<1>2. Records(lines, entry.period)
      /\ \A n \in 1 .. Len(rows) : ~ (rows[n].who = who /\ rows[n].period = entry.period)
  BY DEF OpensSubmitsValidates
<1>3. IsFiniteSet(lines)
  BY FewLinesOfMonth
<1>4. \A line \in lines : line.quarterDays \in Nat
  <2> HIDE DEF lines
  <2> QED
    BY <1>2 DEF Records, QuarterDaysPerDay
<1> HIDE DEF lines, who, row
<1>5. WorkByMission(WorkOf(lines))
  BY <1>3, <1>4, WorkIsByMission
<1> QED
  BY <1>1, <1>2, <1>5 DEF row, who

LEMMA OpenKeeps == ASSUME SeedInv, OpenSubmitValidate PROVE SeedInv'
<1> DEFINE entry == queue[1]
           row == CraRow(entry.consultant.who, entry.consultant.office, entry.period)
           n == Len(tables.cras)
           s == Len(seededCras)
           q == Len(queue)
           kept == row.status = "validated"
           taken == [ row |-> row, outcome |-> entry.outcome ]
<1>1. /\ Phases /\ MonthsOnce /\ InTurn /\ DatedByMonth /\ FiledSoFar
      /\ SeriesWhole(tables) /\ DatesRise(tables) /\ Kept
  BY TwoParts DEF AtHand
<1>2. /\ phase = "months" /\ phase' = "months" /\ queue # << >>
      /\ IsSequence(queue) /\ IsSequence(tables.cras) /\ IsSequence(seededCras)
      /\ DOMAIN tables = DOMAIN Empty /\ tables.invoices = << >> /\ tables.declined = {}
      /\ database' = database /\ pending' = pending
  BY <1>1 DEF OpenSubmitValidate, Phases
<1>3. /\ q \in Nat /\ 1 \in 1 .. q /\ Head(queue) = entry
      /\ IsSequence(Tail(queue)) /\ Len(Tail(queue)) = q - 1
      /\ \A k \in 1 .. q - 1 : k + 1 \in 1 .. q /\ Tail(queue)[k] = queue[k + 1]
  BY <1>2, TailIs
<1>4. /\ n \in Nat /\ IsSequence(Append(tables.cras, row)) /\ Len(Append(tables.cras, row)) = n + 1
      /\ \A c \in 1 .. n : Append(tables.cras, row)[c] = tables.cras[c]
      /\ Append(tables.cras, row)[n + 1] = row
  <2> HIDE DEF row
  <2> QED
    BY <1>2, AppendIs
<1>5. /\ s \in Nat /\ IsSequence(Append(seededCras, taken)) /\ Len(Append(seededCras, taken)) = s + 1
      /\ \A k \in 1 .. s : Append(seededCras, taken)[k] = seededCras[k]
      /\ Append(seededCras, taken)[s + 1] = taken
  <2> HIDE DEF taken
  <2> QED
    BY <1>2, AppendIs
<1>6. /\ tables' = [ tables EXCEPT !.cras = Append(@, row) ]
      /\ queue' = Tail(queue)
      /\ seededCras' = IF kept THEN Append(seededCras, taken) ELSE seededCras
      /\ OpensSubmitsValidates(entry, tables.cras)
  <2> HIDE DEF entry
  <2> QED
    BY <1>3 DEF OpenSubmitValidate
<1>7. /\ DOMAIN tables' = DOMAIN Empty
      /\ tables'.cras = Append(tables.cras, row) /\ tables'.invoices = tables.invoices
      /\ tables'.declined = tables.declined /\ tables'.lastSequence = tables.lastSequence
  <2> HIDE DEF row
  <2> QED
    BY <1>2, <1>6 DEF Empty
<1>8. entry.outcome \in Outcomes /\ IsPeriod(entry.period)
  BY <1>1, <1>3 DEF InTurn
<1>9. /\ row.period = entry.period /\ WorkByMission(row.worked)
      /\ \A c \in 1 .. n : ~ (tables.cras[c].who = row.who /\ tables.cras[c].period = row.period)
  <2> HIDE DEF entry
  <2> QED
    BY <1>6, <1>8, RowIs
<1> HIDE DEF entry, row, taken, kept
<1>10. \A c \in 1 .. n + 1 : c \in 1 .. n \/ c = n + 1
  BY <1>4
<1>11. \A k \in 1 .. s + 1 : k \in 1 .. s \/ k = s + 1
  BY <1>5
<1>12. taken.row = row /\ taken.outcome = entry.outcome
  BY DEF taken
\* The months to draft from: those there were, and maybe this one.
<1>13. /\ Len(tables'.cras) = n + 1
       /\ \A c \in 1 .. n : tables'.cras[c] = tables.cras[c]
       /\ tables'.cras[n + 1] = row /\ n + 1 \in 1 .. n + 1
  BY <1>4, <1>7
<1>14. /\ \/ kept /\ Len(seededCras') = s + 1 /\ seededCras'[s + 1] = taken /\ s + 1 \in 1 .. s + 1
          \/ ~ kept /\ Len(seededCras') = s
       /\ \A k \in 1 .. s : seededCras'[k] = seededCras[k] /\ k \in 1 .. Len(seededCras')
       /\ IsSequence(seededCras')
       /\ \A k \in 1 .. Len(seededCras') : k \in 1 .. s \/ (kept /\ k = s + 1 /\ seededCras'[k] = taken)
  BY <1>2, <1>5, <1>6, <1>11
<1>15. \A k \in 1 .. s : \E c \in 1 .. n :
         tables.cras[c] = seededCras[k].row /\ tables.cras[c].status = "validated"
  BY <1>1 DEF MonthsOnce
<1>16. \A k \in 1 .. s : seededCras[k].row # row
  BY <1>9, <1>15
<1>17. Phases'
  <2>1. IsSequence(tables'.cras) /\ IsSequence(tables'.invoices) /\ IsSequence(queue')
    BY <1>2, <1>3, <1>4, <1>6, <1>7, NoneIsSequence
  <2>2. tables'.invoices = << >> /\ tables'.declined = {}
    BY <1>2, <1>7
  <2>3. (DOMAIN Empty)' = DOMAIN Empty
    BY DEF Empty
  <2> QED
    BY <1>2, <1>7, <1>14, <2>1, <2>2, <2>3 DEF Phases
<1>18. MonthsOnce'
  <2>1. ASSUME NEW c \in 1 .. n + 1
        PROVE  /\ IsPeriod(tables'.cras[c].period)
               /\ tables'.cras[c].status = "validated" => WorkByMission(tables'.cras[c].worked)
    BY <1>1, <1>8, <1>9, <1>10, <1>13 DEF MonthsOnce
  <2>2. ASSUME NEW c \in 1 .. n + 1, NEW d \in 1 .. n + 1,
               tables'.cras[c].who = tables'.cras[d].who,
               tables'.cras[c].period = tables'.cras[d].period
        PROVE  c = d
    BY <1>1, <1>9, <1>10, <1>13, <2>2 DEF MonthsOnce
  <2>3. ASSUME NEW k \in 1 .. Len(seededCras')
        PROVE  \E c \in 1 .. n + 1 : tables'.cras[c] = seededCras'[k].row
                                     /\ tables'.cras[c].status = "validated"
    <3>1. CASE k \in 1 .. s
      <4>1. PICK c \in 1 .. n :
              tables.cras[c] = seededCras[k].row /\ tables.cras[c].status = "validated"
        BY <1>15, <3>1
      <4>2. c \in 1 .. n + 1
        BY <1>4
      <4> QED
        BY <1>13, <1>14, <3>1, <4>1, <4>2
    <3>2. CASE kept /\ k = s + 1 /\ seededCras'[k] = taken
      BY <1>12, <1>13, <3>2 DEF kept
    <3> QED
      BY <1>14, <3>1, <3>2
  <2>4. ASSUME NEW j \in 1 .. Len(seededCras'), NEW k \in 1 .. Len(seededCras'),
               seededCras'[j].row = seededCras'[k].row
        PROVE  j = k
    BY <1>1, <1>12, <1>14, <1>16, <2>4 DEF MonthsOnce
  <2> QED
    BY <1>13, <2>1, <2>2, <2>3, <2>4 DEF MonthsOnce
<1>19. WithNumber(tables') = {} /\ WithNumber(tables) = {}
  BY <1>2, <1>7, NoneIsSequence DEF WithNumber
<1>20. InTurn'
  <2>1. /\ \A k \in 1 .. q - 1 : queue'[k] = queue[k + 1] /\ k + 1 \in 1 .. q
        /\ Len(queue') = q - 1
    BY <1>3, <1>6
  <2>2. \A k \in 1 .. q - 1 : queue'[k].outcome \in Outcomes /\ IsPeriod(queue'[k].period)
    BY <1>1, <2>1 DEF InTurn
  <2>3. \A k \in 1 .. Len(seededCras') : seededCras'[k].outcome \in Outcomes
    BY <1>1, <1>8, <1>12, <1>14 DEF InTurn
  <2>4. \A k \in ToOpen' : k \in 1 .. q - 1 /\ k + 1 \in ToOpen /\ queue'[k] = queue[k + 1] /\ 1 < k + 1
    BY <1>3, <2>1 DEF ToOpen
  <2>5. \A k \in ToIssue' : \/ k \in ToIssue /\ k \in 1 .. s /\ seededCras'[k] = seededCras[k]
                            \/ k = s + 1 /\ seededCras'[k] = taken /\ 1 \in ToOpen
    BY <1>3, <1>12, <1>14 DEF ToIssue, ToOpen, entry
  <2>6. \A j, k \in ToOpen' : j < k => NotLater(queue'[j].period, queue'[k].period)
    <3> SUFFICES ASSUME NEW j \in ToOpen', NEW k \in ToOpen', j < k
                 PROVE  NotLater(queue'[j].period, queue'[k].period)
      OBVIOUS
    <3>1. j + 1 < k + 1
      BY <2>4
    <3> QED
      BY <1>1, <2>4, <3>1 DEF InTurn
  <2>7. \A j \in ToIssue' : \A k \in ToOpen' :
          NotLater(seededCras'[j].row.period, queue'[k].period)
    <3> SUFFICES ASSUME NEW j \in ToIssue', NEW k \in ToOpen'
                 PROVE  NotLater(seededCras'[j].row.period, queue'[k].period)
      OBVIOUS
    <3>1. CASE j \in ToIssue /\ seededCras'[j] = seededCras[j]
      BY <1>1, <2>4, <3>1 DEF InTurn
    <3>2. CASE seededCras'[j] = taken /\ 1 \in ToOpen
      <4>1. NotLater(queue[1].period, queue[k + 1].period)
        BY <1>1, <2>4, <3>2 DEF InTurn
      <4> QED
        BY <1>9, <1>12, <2>4, <3>2, <4>1 DEF entry
    <3> QED
      BY <2>5, <3>1, <3>2
  <2>8. \A j, k \in ToIssue' : j < k => NotLater(seededCras'[j].row.period, seededCras'[k].row.period)
    <3> SUFFICES ASSUME NEW j \in ToIssue', NEW k \in ToIssue', j < k
                 PROVE  NotLater(seededCras'[j].row.period, seededCras'[k].row.period)
      OBVIOUS
    <3>1. j \in ToIssue /\ seededCras'[j] = seededCras[j]
      <4>1. k <= s + 1
        BY <1>5, <2>5
      <4>2. j # s + 1
        BY <1>5, <2>5, <4>1
      <4> QED
        BY <2>5, <4>2
    <3>2. CASE k \in ToIssue /\ seededCras'[k] = seededCras[k]
      BY <1>1, <3>1, <3>2 DEF InTurn
    <3>3. CASE seededCras'[k] = taken /\ 1 \in ToOpen
      <4>1. NotLater(seededCras[j].row.period, queue[1].period)
        BY <1>1, <3>1, <3>3 DEF InTurn
      <4> QED
        BY <1>9, <1>12, <3>1, <3>3, <4>1 DEF entry
    <3> QED
      BY <2>5, <3>2, <3>3
  <2> QED
    BY <1>19, <2>1, <2>2, <2>3, <2>6, <2>7, <2>8 DEF InTurn
<1>21. DatedByMonth'
  BY <1>1, <1>7, <1>19 DEF DatedByMonth
<1>22. FiledSoFar'
  <2> SUFFICES ASSUME NEW c \in 1 .. n + 1, tables'.cras[c].status = "validated"
               PROVE  LET now == tables'.cras[c]
                      IN \/ \E k \in 1 .. Len(seededCras') :
                              seededCras'[k].row = now /\ OnFile(tables', now, {}, {})
                         \/ /\ \A k \in 1 .. Len(seededCras') : seededCras'[k].row # now
                            /\ OnFile(tables', now, ClientsBilled(EventOf(now)),
                                      DeclinedOf(EventOf(now)))
    BY <1>2, <1>13 DEF FiledSoFar
  <2> DEFINE now == tables'.cras[c]
  <2>1. CASE c \in 1 .. n
    <3>1. now = tables.cras[c] /\ now.status = "validated" /\ now # row
      BY <1>9, <1>13, <2>1
    <3>2. \/ \E k \in 1 .. s : seededCras[k].row = now /\ OnFile(tables, now, {}, {})
          \/ /\ \A k \in 1 .. s : seededCras[k].row # now
             /\ OnFile(tables, now, ClientsBilled(EventOf(now)), DeclinedOf(EventOf(now)))
      BY <1>1, <1>2, <2>1, <3>1 DEF FiledSoFar
    <3>3. \A clients, refused : OnFile(tables', now, clients, refused)
                                <=> OnFile(tables, now, clients, refused)
      <4> HIDE DEF now
      <4> QED
        BY <1>7, SameFile
    <3> HIDE DEF now
    <3> QED
      BY <1>12, <1>14, <3>1, <3>2, <3>3 DEF now
  <2>2. CASE c = n + 1
    <3>1. now = row /\ kept
      BY <1>13, <2>2 DEF kept
    <3>2. seededCras'[s + 1].row = now /\ s + 1 \in 1 .. Len(seededCras')
      BY <1>12, <1>14, <3>1
    <3>3. OnFile(tables', now, {}, {})
      <4>1. /\ DocumentsOf(tables', now.who, now.period) = {}
            /\ RefusedOf(tables', now.who, now.period) = {}
        BY <1>2, <1>7, NoneIsSequence DEF DocumentsOf, RefusedOf
      <4> QED
        BY <4>1 DEF OnFile
    <3> QED
      BY <3>2, <3>3
  <2> QED
    BY <1>10, <2>1, <2>2
<1>23. SeriesWhole(tables') /\ DatesRise(tables')
  BY <1>1, <1>7, <1>19, SameBooks
<1>24. Kept'
  BY <1>1, <1>2 DEF Kept
<1>25. SeedInv' <=> AtHand' /\ Kept'
  BY TwoParts, PTL
<1> QED
  BY <1>17, <1>18, <1>20, <1>21, <1>22, <1>23, <1>24, <1>25 DEF AtHand

LEMMA DraftKeeps == ASSUME SeedInv, Draft PROVE SeedInv'
<1>1. /\ Phases /\ MonthsOnce /\ InTurn /\ DatedByMonth /\ FiledSoFar
      /\ SeriesWhole(tables) /\ DatesRise(tables) /\ Kept
  BY TwoParts DEF AtHand
<1>2. /\ phase # "documents" /\ phase' = "documents" /\ queue = << >> /\ seededCras # << >>
      /\ tables' = tables /\ queue' = queue /\ seededCras' = seededCras /\ database' = database
      /\ pending' = ClientsBilled(EventOf(Head(seededCras).row))
  BY DEF Draft
<1>3. Head(seededCras) = seededCras[1]
  BY <1>1, <1>2, TailIs DEF Phases
<1>4. Phases'
  BY <1>1, <1>2, <1>3 DEF Phases
<1>5. MonthsOnce' /\ InTurn' /\ DatedByMonth'
  BY <1>1, <1>2 DEF MonthsOnce, InTurn, ToIssue, ToOpen, DatedByMonth
<1>6. FiledSoFar'
  <2> SUFFICES ASSUME NEW c \in 1 .. Len(tables.cras), tables.cras[c].status = "validated"
               PROVE  LET row == tables.cras[c]
                          billed == ClientsBilled(EventOf(row))
                      IN \/ \E k \in 1 .. Len(seededCras) :
                              /\ seededCras[k].row = row
                              /\ OnFile(tables, row, IF k = 1 THEN billed \ pending' ELSE {}, {})
                         \/ /\ \A k \in 1 .. Len(seededCras) : seededCras[k].row # row
                            /\ OnFile(tables, row, billed, DeclinedOf(EventOf(row)))
    BY <1>2 DEF FiledSoFar
  <2> DEFINE row == tables.cras[c]
             billed == ClientsBilled(EventOf(row))
  <2>1. \/ \E k \in 1 .. Len(seededCras) : seededCras[k].row = row /\ OnFile(tables, row, {}, {})
        \/ /\ \A k \in 1 .. Len(seededCras) : seededCras[k].row # row
           /\ OnFile(tables, row, billed, DeclinedOf(EventOf(row)))
    BY <1>1, <1>2 DEF FiledSoFar
  <2>2. seededCras[1].row = row => billed \ pending' = {}
    BY <1>2, <1>3
  <2> HIDE DEF row, billed
  <2> QED
    BY <2>1, <2>2 DEF row, billed
<1>7. SeriesWhole(tables') /\ DatesRise(tables') /\ Kept'
  BY <1>1, <1>2 DEF Kept
<1>8. SeedInv' <=> AtHand' /\ Kept'
  BY TwoParts, PTL
<1> QED
  BY <1>4, <1>5, <1>6, <1>7, <1>8 DEF AtHand

\* Of every year, those with no document in it included.
WholeIn(books, year) ==
    /\ Own(books, year) \cup NotesOf(books, year) = 1 .. LastSequence(books, year)
    /\ Own(books, year) \cap NotesOf(books, year) = {}
    /\ Cardinality(Own(books, year)) = Cardinality(OfYear(books, year))

LEMMA WholeInEveryYear ==
    ASSUME NEW books, SeriesWhole(books), NEW year
    PROVE  WholeIn(books, year)
<1> DEFINE years == { books.invoices[n].row.series : n \in WithNumber(books) }
                    \cup DOMAIN books.lastSequence
<1>1. CASE year \in years
  BY <1>1 DEF SeriesWhole, WholeIn
<1>2. CASE year \notin years
  <2>1. OfYear(books, year) = {} /\ LastSequence(books, year) = 0
    BY <1>2 DEF OfYear, LastSequence
  <2>2. Own(books, year) = {} /\ NotesOf(books, year) = {}
    BY <2>1 DEF Own, NotesOf
  <2> QED
    BY <2>1, <2>2 DEF WholeIn
<1> QED
  BY <1>1, <1>2

\* A document more.
LEMMA OneFiled ==
    ASSUME NEW one, IsSequence(one.invoices), NEW stored, NEW two,
           two.invoices = Append(one.invoices, stored)
    PROVE  /\ Len(one.invoices) \in Nat /\ Len(one.invoices) + 1 \notin 1 .. Len(one.invoices)
           /\ IsSequence(two.invoices)
           /\ \A n \in 1 .. Len(one.invoices) : two.invoices[n] = one.invoices[n]
           /\ two.invoices[Len(one.invoices) + 1] = stored
           /\ 1 .. Len(two.invoices) = 1 .. Len(one.invoices) \cup {Len(one.invoices) + 1}
           /\ WithNumber(two) = IF stored.row.status = "draft" THEN WithNumber(one)
                                ELSE WithNumber(one) \cup {Len(one.invoices) + 1}
<1> DEFINE n == Len(one.invoices)
<1>1. /\ n \in Nat /\ IsSequence(two.invoices) /\ Len(two.invoices) = n + 1
      /\ \A k \in 1 .. n : two.invoices[k] = one.invoices[k]
      /\ two.invoices[n + 1] = stored
  BY AppendIs
<1> HIDE DEF n
<1>2. 1 .. Len(two.invoices) = 1 .. n \cup {n + 1} /\ n + 1 \notin 1 .. n
  BY <1>1
<1>3. WithNumber(one) = { k \in 1 .. n : one.invoices[k].row.status # "draft" }
  BY DEF WithNumber, n
<1>4. WithNumber(two) = { k \in 1 .. n \cup {n + 1} : two.invoices[k].row.status # "draft" }
  BY <1>2 DEF WithNumber
<1>5. WithNumber(two) = IF stored.row.status = "draft" THEN WithNumber(one)
                        ELSE WithNumber(one) \cup {n + 1}
  BY <1>1, <1>2, <1>3, <1>4
<1> QED
  BY <1>1, <1>2, <1>5 DEF n

\* Sets of the same members are the same.
LEMMA SameMembers == ASSUME NEW S, NEW T, \A x : x \in S <=> x \in T PROVE S = T
  OBVIOUS

\* An invoice takes the next number of its year, and the note that cancels it the one after.
LEMMA NumberTaken ==
    ASSUME NEW one, IsSequence(one.invoices), SeriesWhole(one),
           \A y \in DOMAIN one.lastSequence : one.lastSequence[y] \in Nat,
           NEW stored, stored.row.status \in {"issued", "cancelledByCreditNote"},
           NEW two, two.invoices = Append(one.invoices, stored),
           NEW year, stored.row.series = year,
           NEW last, last = LastSequence(one, year), stored.row.sequence = last + 1,
           NEW after, after = (IF stored.row.status = "issued" THEN last + 1 ELSE last + 2),
           two.lastSequence = [ y \in DOMAIN one.lastSequence \cup {year} |->
                                  IF y = year THEN after ELSE one.lastSequence[y] ]
    PROVE  SeriesWhole(two)
<1> DEFINE n == Len(one.invoices)
<1>1. /\ n \in Nat /\ n + 1 \notin 1 .. n
      /\ \A k \in 1 .. n : two.invoices[k] = one.invoices[k]
      /\ two.invoices[n + 1] = stored
      /\ WithNumber(two) = WithNumber(one) \cup {n + 1}
  BY OneFiled
<1>2. WithNumber(one) \in SUBSET (1 .. n)
  BY DEF WithNumber
<1> HIDE DEF n
<1>3. last \in Nat /\ after \in Nat
  BY DEF LastSequence
<1>a. \A k \in WithNumber(one) : two.invoices[k] = one.invoices[k] /\ k # n + 1
  BY <1>1, <1>2
<1>4. \A y : OfYear(two, y) = IF y = year THEN OfYear(one, y) \cup {n + 1} ELSE OfYear(one, y)
  <2>1. \A y, k : k \in OfYear(two, y) <=> k \in OfYear(one, y) \/ (k = n + 1 /\ y = year)
    BY <1>1, <1>a DEF OfYear
  <2>2. \A y : /\ y = year => OfYear(two, y) = OfYear(one, y) \cup {n + 1}
               /\ y # year => OfYear(two, y) = OfYear(one, y)
    <3>1. ASSUME NEW y, y = year PROVE OfYear(two, y) = OfYear(one, y) \cup {n + 1}
      BY <2>1, <3>1
    <3>2. ASSUME NEW y, y # year PROVE OfYear(two, y) = OfYear(one, y)
      <4>1. \A k : k \in OfYear(two, y) <=> k \in OfYear(one, y)
        BY <2>1, <3>2
      <4> QED
        BY <4>1, SameMembers
    <3> QED
      BY <3>1, <3>2
  <2> QED
    BY <2>2
<1>5. \A y : OfYear(one, y) \in SUBSET (1 .. n)
  BY <1>2 DEF OfYear
<1>b. \A y : \A k \in OfYear(one, y) : two.invoices[k] = one.invoices[k] /\ k # n + 1
  BY <1>a DEF OfYear
<1>6. \A y : Own(two, y) = IF y = year THEN Own(one, y) \cup {last + 1} ELSE Own(one, y)
  <2>1. \A y : \A x : x \in Own(one, y) <=> \E k \in OfYear(one, y) : x = one.invoices[k].row.sequence
    BY DEF Own
  <2>2. \A y : \A x : x \in Own(two, y) <=> \E k \in OfYear(two, y) : x = two.invoices[k].row.sequence
    BY DEF Own
  <2>3. \A y : \A x : x \in Own(two, y) <=> x \in Own(one, y) \/ (x = last + 1 /\ y = year)
    <3>1. SUFFICES ASSUME NEW y, NEW x
                   PROVE  x \in Own(two, y) <=> x \in Own(one, y) \/ (x = last + 1 /\ y = year)
      OBVIOUS
    <3>2. \A k : k \in OfYear(two, y) <=> k \in OfYear(one, y) \/ (k = n + 1 /\ y = year)
      BY <1>4
    <3>3. two.invoices[n + 1].row.sequence = last + 1
      BY <1>1
    <3>4. \A k \in OfYear(one, y) : two.invoices[k].row.sequence = one.invoices[k].row.sequence
      BY <1>b
    <3>5. ASSUME x \in Own(two, y) PROVE x \in Own(one, y) \/ (x = last + 1 /\ y = year)
      <4>0. \E k \in OfYear(two, y) : x = two.invoices[k].row.sequence
        BY ONLY <3>5, Zenon DEF Own
      <4>1. PICK k \in OfYear(two, y) : x = two.invoices[k].row.sequence
        BY <4>0
      <4> QED
        BY <2>1, <3>2, <3>3, <3>4, <4>1
    <3>6. ASSUME x \in Own(one, y) PROVE x \in Own(two, y)
      <4>1. PICK k \in OfYear(one, y) : x = one.invoices[k].row.sequence
        BY <2>1, <3>6
      <4> QED
        BY <2>2, <3>2, <3>4, <4>1
    <3>7. y = year => last + 1 \in Own(two, y)
      BY <2>2, <3>2, <3>3
    <3> QED
      BY <3>5, <3>6, <3>7
  <2>4. ASSUME NEW y, y = year PROVE Own(two, y) = Own(one, y) \cup {last + 1}
    BY <2>3, <2>4
  <2>5. ASSUME NEW y, y # year PROVE Own(two, y) = Own(one, y)
    <3>1. \A x : x \in Own(two, y) <=> x \in Own(one, y)
      BY <2>3, <2>5
    <3> QED
      BY <3>1, SameMembers
  <2> QED
    BY <2>4, <2>5
<1>7. \A y : NotesOf(two, y) = IF y = year /\ stored.row.status # "issued"
                               THEN NotesOf(one, y) \cup {last + 2} ELSE NotesOf(one, y)
  <2> DEFINE Cancels(books, k) == books.invoices[k].row.status = "cancelledByCreditNote"
  <2>1. \A y : \A x : x \in NotesOf(one, y) <=> \E k \in OfYear(one, y) :
          Cancels(one, k) /\ x = one.invoices[k].row.sequence + 1
    BY DEF NotesOf
  <2>2. \A y : \A x : x \in NotesOf(two, y) <=> \E k \in OfYear(two, y) :
          Cancels(two, k) /\ x = two.invoices[k].row.sequence + 1
    BY DEF NotesOf
  <2>c. Cancels(two, n + 1) <=> stored.row.status # "issued"
    BY <1>1
  <2>d. two.invoices[n + 1].row.sequence + 1 = last + 2
    BY <1>1, <1>3
  <2>e. \A y : \A k \in OfYear(one, y) : Cancels(two, k) <=> Cancels(one, k)
    BY <1>b
  <2> HIDE DEF Cancels
  <2>3. \A y : \A x : x \in NotesOf(two, y)
          <=> x \in NotesOf(one, y) \/ (x = last + 2 /\ y = year /\ stored.row.status # "issued")
    <3>1. SUFFICES ASSUME NEW y, NEW x
                   PROVE  x \in NotesOf(two, y)
                          <=> x \in NotesOf(one, y)
                              \/ (x = last + 2 /\ y = year /\ stored.row.status # "issued")
      OBVIOUS
    <3>2. \A k : k \in OfYear(two, y) <=> k \in OfYear(one, y) \/ (k = n + 1 /\ y = year)
      BY <1>4
    <3>4. \A k \in OfYear(one, y) : two.invoices[k].row.sequence = one.invoices[k].row.sequence
      BY <1>b
    <3>5. ASSUME x \in NotesOf(two, y)
          PROVE  x \in NotesOf(one, y) \/ (x = last + 2 /\ y = year /\ stored.row.status # "issued")
      <4>0. \E k \in OfYear(two, y) : Cancels(two, k) /\ x = two.invoices[k].row.sequence + 1
        <5>1. PICK k \in { m \in OfYear(two, y) : two.invoices[m].row.status = "cancelledByCreditNote" } :
                x = two.invoices[k].row.sequence + 1
          BY ONLY <3>5, Zenon DEF NotesOf
        <5> QED
          BY <5>1 DEF Cancels
      <4>1. PICK k \in OfYear(two, y) : Cancels(two, k) /\ x = two.invoices[k].row.sequence + 1
        BY <4>0
      <4> QED
        BY <2>1, <2>c, <2>d, <2>e, <3>2, <3>4, <4>1
    <3>6. ASSUME x \in NotesOf(one, y) PROVE x \in NotesOf(two, y)
      <4>1. PICK k \in OfYear(one, y) : Cancels(one, k) /\ x = one.invoices[k].row.sequence + 1
        BY <2>1, <3>6
      <4>2. k \in OfYear(two, y) /\ Cancels(two, k) /\ x = two.invoices[k].row.sequence + 1
        BY <2>e, <3>2, <3>4, <4>1
      <4> QED
        BY <2>2, <4>2
    <3>7. y = year /\ stored.row.status # "issued" => last + 2 \in NotesOf(two, y)
      BY <2>2, <2>c, <2>d, <3>2
    <3> QED
      BY <3>5, <3>6, <3>7
  <2>4. ASSUME NEW y, y = year, stored.row.status # "issued"
        PROVE  NotesOf(two, y) = NotesOf(one, y) \cup {last + 2}
    BY <2>3, <2>4
  <2>5. ASSUME NEW y, ~ (y = year /\ stored.row.status # "issued")
        PROVE  NotesOf(two, y) = NotesOf(one, y)
    <3>1. \A x : x \in NotesOf(two, y) <=> x \in NotesOf(one, y)
      BY <2>3, <2>5
    <3> QED
      BY <3>1, SameMembers
  <2> QED
    BY <2>4, <2>5
<1>8. \A y : LastSequence(two, y) = IF y = year THEN after ELSE LastSequence(one, y)
  BY DEF LastSequence
<1>9. \A y : WholeIn(one, y)
  BY WholeInEveryYear
<1>10. \A y : y # year => WholeIn(two, y)
  BY <1>4, <1>6, <1>7, <1>8, <1>9 DEF WholeIn
<1>11. WholeIn(two, year)
  <2> DEFINE own == Own(one, year)
             taken == NotesOf(one, year)
             docs == OfYear(one, year)
  <2>1. own \cup taken = 1 .. last /\ own \cap taken = {} /\ Cardinality(own) = Cardinality(docs)
    BY <1>9 DEF WholeIn
  <2>2. /\ Own(two, year) = own \cup {last + 1}
        /\ NotesOf(two, year) = IF stored.row.status # "issued" THEN taken \cup {last + 2} ELSE taken
        /\ OfYear(two, year) = docs \cup {n + 1} /\ LastSequence(two, year) = after
        /\ docs \in SUBSET (1 .. n)
    BY <1>4, <1>5, <1>6, <1>7, <1>8
  <2> HIDE DEF own, taken, docs
  <2>3. Own(two, year) \cup NotesOf(two, year) = 1 .. after
    <3>1. CASE stored.row.status = "issued"
      <4>1. 1 .. last + 1 = (1 .. last) \cup {last + 1} /\ after = last + 1
        BY <1>3, <3>1
      <4> QED
        BY <2>1, <2>2, <3>1, <4>1
    <3>2. CASE stored.row.status # "issued"
      <4>1. 1 .. last + 2 = (1 .. last) \cup {last + 1, last + 2} /\ after = last + 2
        BY <1>3, <3>2
      <4> QED
        BY <2>1, <2>2, <3>2, <4>1
    <3> QED
      BY <3>1, <3>2
  <2>4. Own(two, year) \cap NotesOf(two, year) = {}
    <3>1. last + 1 \notin 1 .. last /\ last + 2 \notin 1 .. last /\ last + 1 # last + 2
      BY <1>3
    <3> QED
      BY <2>1, <2>2, <3>1
  <2>5. Cardinality(Own(two, year)) = Cardinality(OfYear(two, year))
    <3>1. IsFiniteSet(1 .. last) /\ IsFiniteSet(1 .. n)
      BY <1>1, <1>3, FS_Interval
    <3>2. own \in SUBSET (1 .. last)
      BY <2>1
    <3>3. IsFiniteSet(own) /\ IsFiniteSet(docs)
      BY <2>2, <3>1, <3>2, FS_Subset
    <3>4. last + 1 \notin own
      <4>1. last + 1 \notin 1 .. last
        BY <1>3
      <4> QED
        BY <3>2, <4>1
    <3>5. n + 1 \notin docs
      BY <1>1, <2>2
    <3>6. /\ Cardinality(own \cup {last + 1}) = Cardinality(own) + 1
          /\ Cardinality(docs \cup {n + 1}) = Cardinality(docs) + 1
      BY <3>3, <3>4, <3>5, FS_AddElement
    <3> QED
      BY <2>1, <2>2, <3>6
  <2> QED
    BY <2>2, <2>3, <2>4, <2>5 DEF WholeIn
<1> QED
  BY <1>10, <1>11 DEF SeriesWhole, WholeIn

\* The invoice of a client, as it ends.
LEMMA FinalIs ==
    ASSUME NEW event, NEW client, NEW seller, NEW party, NEW end \in Outcomes, NEW sequence, NEW date
    PROVE  LET final == Final(NewInvoice(event, client, seller, party), end, sequence, date)
           IN /\ final.row.supplyPeriod = event.period
              /\ final.row.lines = LinesFor(event, client)
              /\ end = "draft" => final.row.status = "draft"
              /\ end # "draft" =>
                   /\ final.row.status = IF end = "issued" THEN "issued" ELSE "cancelledByCreditNote"
                   /\ final.row.sequence = sequence /\ final.row.issueDate = date
                   /\ final.row.series = date.year
                   /\ final.last = IF end = "issued" THEN sequence ELSE sequence + 1
<1> DEFINE draft == NewInvoice(event, client, seller, party)
           issued == Issued(draft, sequence, date)
           cancelled == Cancelled(issued)
           final == Final(draft, end, sequence, date)
<1>1. draft.supplyPeriod = event.period /\ draft.lines = LinesFor(event, client)
      /\ draft.status = "draft"
      /\ DOMAIN draft = { "status", "supplyPeriod", "seller", "billedTo", "lines", "terms",
                          "earlyPayment", "validatedBy", "sequence", "series", "issueDate",
                          "dueDate", "totals", "vatGroups" }
  BY DEF NewInvoice
<1> HIDE DEF draft
<1>2. /\ issued.supplyPeriod = event.period /\ issued.lines = LinesFor(event, client)
      /\ issued.status = "issued" /\ issued.sequence = sequence /\ issued.issueDate = date
      /\ issued.series = date.year /\ DOMAIN issued = DOMAIN draft
  BY <1>1 DEF Issued
<1> HIDE DEF issued
<1>3. /\ cancelled.supplyPeriod = event.period /\ cancelled.lines = LinesFor(event, client)
      /\ cancelled.status = "cancelledByCreditNote" /\ cancelled.sequence = sequence
      /\ cancelled.issueDate = date /\ cancelled.series = date.year
  BY <1>1, <1>2 DEF Cancelled
<1> HIDE DEF cancelled
<1>4. /\ end = "draft" => final.row = draft
      /\ end = "issued" => final.row = issued /\ final.last = sequence
      /\ end = "issuedThenCancelled" => final.row = cancelled /\ final.last = sequence + 1
  BY DEF Final, issued, cancelled
<1> HIDE DEF final
<1>5. end = "draft" \/ end = "issued" \/ end = "issuedThenCancelled"
  BY DEF Outcomes
<1>6. CASE end = "draft"
  BY <1>1, <1>4, <1>6 DEF final, draft
<1>7. CASE end = "issued"
  <2> HIDE DEF final
  <2>1. final.row = issued /\ final.last = sequence
    BY <1>4, <1>7
  <2> QED
    BY <1>2, <1>7, <2>1 DEF final, draft
<1>8. CASE end = "issuedThenCancelled"
  <2>1. final.row = cancelled /\ final.last = sequence + 1
    BY <1>4, <1>8
  <2> QED
    BY <1>3, <1>8, <2>1 DEF final, draft
<1> QED
  BY <1>5, <1>6, <1>7, <1>8

\* Of two months, the later one is billed on a later day, or on the same.
LEMMA ClockGoesOn ==
    ASSUME NEW one, IsPeriod(one), NEW two, IsPeriod(two), NotLater(one, two)
    PROVE  NotAfter(ClockDayAfter(one), ClockDayAfter(two))
<1>1. ASSUME NEW p, IsPeriod(p) PROVE p.year \in Nat /\ p.month \in 1 .. 12
  BY <1>1 DEF IsPeriod
<1>2. ASSUME NEW p PROVE Digits(FirstDayOf(p)) = (p.year * 100 + p.month) * 100 + 1
  BY DEF Digits, FirstDayOf, Date
<1>3. ASSUME NEW p
      PROVE  Digits(ClockDayAfter(p)) = IF p.month = 12 THEN ((p.year + 1) * 100 + 1) * 100 + 5
                                        ELSE (p.year * 100 + (p.month + 1)) * 100 + 5
  BY DEF Digits, ClockDayAfter, Date
<1>4. Digits(FirstDayOf(one)) <= Digits(FirstDayOf(two))
  BY DEF NotLater, NotAfter
<1>5. /\ one.year \in Nat /\ one.month \in 1 .. 12 /\ two.year \in Nat /\ two.month \in 1 .. 12
      /\ (one.year * 100 + one.month) * 100 + 1 <= (two.year * 100 + two.month) * 100 + 1
  BY <1>1, <1>2, <1>4
<1>6. Digits(ClockDayAfter(one)) <= Digits(ClockDayAfter(two))
  BY <1>3, <1>5
<1> QED
  BY <1>6 DEF NotAfter

\* A month has one row.
LEMMA OneRow ==
    ASSUME MonthsOnce, NEW c \in 1 .. Len(tables.cras), NEW d \in 1 .. Len(tables.cras),
           tables.cras[c] # tables.cras[d]
    PROVE  ~ (tables.cras[c].who = tables.cras[d].who /\ tables.cras[c].period = tables.cras[d].period)
  BY DEF MonthsOnce

\* The month at hand is one of the rows, and the only one of its identity.
LEMMA AtHandIs ==
    ASSUME SeedInv, seededCras # << >>
    PROVE  \E d \in 1 .. Len(tables.cras) :
             /\ tables.cras[d] = seededCras[1].row /\ tables.cras[d].status = "validated"
             /\ IsPeriod(seededCras[1].row.period)
<1>1. 1 \in 1 .. Len(seededCras)
  BY TailIs DEF SeedInv, Phases
<1> QED
  BY <1>1 DEF SeedInv, MonthsOnce

\* A document more of a client who had none.
LEMMA FileGoesOn ==
    ASSUME NEW one, IsSequence(one.invoices), NEW stored, NEW two,
           two.invoices = Append(one.invoices, stored), two.declined = one.declined,
           NEW row, stored.who = row.who, stored.row.supplyPeriod = row.period,
           NEW clients, stored.client \notin clients,
           stored.row.lines = LinesFor(EventOf(row), stored.client),
           NEW refused, OnFile(one, row, clients, refused)
    PROVE  OnFile(two, row, clients \cup {stored.client}, refused)
<1> DEFINE n == Len(one.invoices)
           had == DocumentsOf(one, row.who, row.period)
           has == DocumentsOf(two, row.who, row.period)
<1>1. /\ n + 1 \notin 1 .. n
      /\ \A k \in 1 .. n : two.invoices[k] = one.invoices[k]
      /\ two.invoices[n + 1] = stored
      /\ 1 .. Len(two.invoices) = 1 .. n \cup {n + 1}
  BY OneFiled
<1>2. had \in SUBSET (1 .. n)
  BY DEF DocumentsOf
<1>3. \A k : k \in has <=> k \in had \/ k = n + 1
  <2>1. had = { k \in 1 .. n : one.invoices[k].who = row.who
                               /\ one.invoices[k].row.supplyPeriod = row.period }
    BY DEF DocumentsOf
  <2>2. has = { k \in 1 .. n \cup {n + 1} : two.invoices[k].who = row.who
                               /\ two.invoices[k].row.supplyPeriod = row.period }
    BY <1>1 DEF DocumentsOf
  <2> HIDE DEF n, had, has
  <2> QED
    BY <1>1, <2>1, <2>2
<1>4. RefusedOf(two, row.who, row.period) = RefusedOf(one, row.who, row.period)
  BY DEF RefusedOf
<1>5. /\ \A k \in had : /\ one.invoices[k].client \in clients
                        /\ one.invoices[k].row.lines = LinesFor(EventOf(row), one.invoices[k].client)
      /\ \A j, k \in had : one.invoices[j].client = one.invoices[k].client => j = k
      /\ \A client \in clients : \E k \in had : one.invoices[k].client = client
      /\ RefusedOf(one, row.who, row.period)
           = { [ d |-> d, who |-> row.who, period |-> row.period ] : d \in refused }
  BY DEF OnFile
<1>6. \A k \in had : two.invoices[k] = one.invoices[k] /\ k # n + 1
  BY <1>1, <1>2
<1> HIDE DEF n, had, has
<1>7. \A k \in has : /\ two.invoices[k].client \in clients \cup {stored.client}
                     /\ two.invoices[k].row.lines = LinesFor(EventOf(row), two.invoices[k].client)
  BY <1>1, <1>3, <1>5, <1>6
<1>8. ASSUME NEW j \in has, NEW k \in has, two.invoices[j].client = two.invoices[k].client
      PROVE  j = k
  <2>1. CASE j \in had /\ k \in had
    <3>1. one.invoices[j].client = one.invoices[k].client
      BY <1>6, <1>8, <2>1
    <3> QED
      BY ONLY <1>5, <2>1, <3>1
  <2>2. CASE j = n + 1 /\ k \in had
    BY <1>1, <1>5, <1>6, <1>8, <2>2
  <2>3. CASE j \in had /\ k = n + 1
    <3>1. one.invoices[j].client = stored.client
      BY <1>1, <1>6, <1>8, <2>3
    <3>2. one.invoices[j].client \in clients
      BY <1>5, <2>3
    <3> QED
      BY <3>1, <3>2
  <2> QED
    BY <1>3, <2>1, <2>2, <2>3
<1>9. ASSUME NEW client \in clients \cup {stored.client}
      PROVE  \E k \in has : two.invoices[k].client = client
  <2>1. CASE client \in clients
    <3>1. PICK k \in had : one.invoices[k].client = client
      BY <1>5, <2>1
    <3> QED
      BY <1>3, <1>6, <3>1
  <2>2. CASE client = stored.client
    BY <1>1, <1>3, <2>2
  <2> QED
    BY <2>1, <2>2
<1> QED
  BY <1>4, <1>5, <1>7, <1>8, <1>9 DEF OnFile, has

\* A document of another month.
LEMMA FileStays ==
    ASSUME NEW one, IsSequence(one.invoices), NEW stored, NEW two,
           two.invoices = Append(one.invoices, stored), two.declined = one.declined,
           NEW row, ~ (stored.who = row.who /\ stored.row.supplyPeriod = row.period),
           NEW clients, NEW refused, OnFile(one, row, clients, refused)
    PROVE  OnFile(two, row, clients, refused)
<1> DEFINE n == Len(one.invoices)
           had == DocumentsOf(one, row.who, row.period)
           has == DocumentsOf(two, row.who, row.period)
<1>1. /\ n + 1 \notin 1 .. n
      /\ \A k \in 1 .. n : two.invoices[k] = one.invoices[k]
      /\ two.invoices[n + 1] = stored
      /\ 1 .. Len(two.invoices) = 1 .. n \cup {n + 1}
  BY OneFiled
<1>2. had \in SUBSET (1 .. n)
  BY DEF DocumentsOf
<1>3. \A k : k \in has <=> k \in had
  <2> HIDE DEF n
  <2> QED
    BY <1>1 DEF DocumentsOf
<1>4. has = had
  BY <1>3, SameMembers
<1>5. RefusedOf(two, row.who, row.period) = RefusedOf(one, row.who, row.period)
  BY DEF RefusedOf
<1>6. \A k \in had : two.invoices[k] = one.invoices[k]
  BY <1>1, <1>2
<1> HIDE DEF n
<1> QED
  BY <1>4, <1>5, <1>6 DEF OnFile

\* A number taken no earlier than the others of its year.
LEMMA DatesGoOn ==
    ASSUME NEW one, IsSequence(one.invoices), SeriesWhole(one), DatesRise(one),
           \A y \in DOMAIN one.lastSequence : one.lastSequence[y] \in Nat,
           NEW stored, stored.row.status # "draft",
           NEW two, two.invoices = Append(one.invoices, stored),
           stored.row.sequence = LastSequence(one, stored.row.series) + 1,
           \A n \in WithNumber(one) : NotAfter(one.invoices[n].row.issueDate, stored.row.issueDate)
    PROVE  DatesRise(two)
<1> DEFINE n == Len(one.invoices)
           year == stored.row.series
           last == LastSequence(one, year)
<1>1. /\ n + 1 \notin 1 .. n
      /\ \A k \in 1 .. n : two.invoices[k] = one.invoices[k]
      /\ two.invoices[n + 1] = stored
      /\ WithNumber(two) = WithNumber(one) \cup {n + 1}
  BY OneFiled
<1>2. \A k \in WithNumber(one) : two.invoices[k] = one.invoices[k]
  BY <1>1 DEF WithNumber
<1>3. last \in Nat
  BY DEF LastSequence
<1> HIDE DEF n
<1>4. ASSUME NEW k \in WithNumber(one), one.invoices[k].row.series = year
      PROVE  one.invoices[k].row.sequence \in 1 .. last
  <2>1. WholeIn(one, year)
    BY WholeInEveryYear
  <2>2. one.invoices[k].row.sequence \in Own(one, year)
    BY <1>4 DEF Own, OfYear
  <2> QED
    BY <2>1, <2>2 DEF WholeIn
<1> HIDE DEF last
<1> SUFFICES ASSUME NEW j \in WithNumber(two), NEW k \in WithNumber(two),
                    two.invoices[j].row.series = two.invoices[k].row.series,
                    two.invoices[j].row.sequence < two.invoices[k].row.sequence
             PROVE  NotAfter(two.invoices[j].row.issueDate, two.invoices[k].row.issueDate)
  BY DEF DatesRise
<1>5. k \in WithNumber(one) \/ k = n + 1
  BY <1>1
<1>6. CASE j = n + 1
  <2>1. two.invoices[j].row.sequence = last + 1 /\ two.invoices[j].row.series = year
    BY <1>1, <1>6 DEF last
  <2>2. k \notin WithNumber(one)
    <3> SUFFICES ASSUME k \in WithNumber(one) PROVE FALSE
      OBVIOUS
    <3>1. two.invoices[k].row.sequence \in 1 .. last
      BY <1>2, <1>4, <2>1
    <3>2. last + 1 < two.invoices[k].row.sequence
      BY <2>1
    <3>3. \A number \in 1 .. last : ~ (last + 1 < number)
      BY <1>3
    <3> QED
      BY <3>1, <3>2, <3>3
  <2>3. two.invoices[k].row.sequence = last + 1
    BY <1>5, <1>6, <2>1, <2>2
  <2> QED
    BY <1>3, <2>1, <2>3
<1>7. CASE j \in WithNumber(one) /\ k = n + 1
  BY <1>1, <1>2, <1>7
<1>8. CASE j \in WithNumber(one) /\ k \in WithNumber(one)
  BY <1>2, <1>8 DEF DatesRise
<1> QED
  BY <1>1, <1>5, <1>6, <1>7, <1>8

LEMMA PublishKeeps == ASSUME SeedInv, Publish PROVE SeedInv'
<1> DEFINE row == Head(seededCras).row
           s == Len(seededCras)
           Of(d) == [ d |-> d, who |-> row.who, period |-> row.period ]
           refusals == { Of(d) : d \in DeclinedOf(EventOf(row)) }
<1>1. /\ Phases /\ MonthsOnce /\ InTurn /\ DatedByMonth /\ FiledSoFar
      /\ SeriesWhole(tables) /\ DatesRise(tables) /\ Kept
  BY TwoParts DEF AtHand
<1>2. /\ phase = "documents" /\ phase' = "drafts" /\ pending = {} /\ seededCras # << >>
      /\ queue = << >> /\ queue' = queue /\ database' = database /\ IsSequence(seededCras)
      /\ DOMAIN tables = DOMAIN Empty
      /\ seededCras' = Tail(seededCras)
  BY <1>1 DEF Publish, Phases
<1>3. /\ s \in Nat /\ 1 \in 1 .. s /\ Head(seededCras) = seededCras[1]
      /\ IsSequence(seededCras') /\ Len(seededCras') = s - 1
      /\ \A k \in 1 .. s - 1 : k + 1 \in 1 .. s /\ seededCras'[k] = seededCras[k + 1]
      /\ \A k \in 1 .. s : k = 1 \/ (k - 1 \in 1 .. s - 1 /\ seededCras'[k - 1] = seededCras[k])
  BY <1>2, TailIs
<1>4. /\ DOMAIN tables' = DOMAIN Empty
      /\ tables'.cras = tables.cras /\ tables'.invoices = tables.invoices
      /\ tables'.lastSequence = tables.lastSequence
      /\ tables'.declined = tables.declined \cup refusals
  <2>1. tables' = [ tables EXCEPT !.declined = @ \cup refusals,
                                  !.events = @ \cup { << row.who, row.period >> } ]
    BY DEF Publish
  <2> HIDE DEF refusals, row
  <2> QED
    BY <1>2, <2>1 DEF Empty
<1>r. row = seededCras[1].row
  BY <1>3
<1> HIDE DEF row
<1>5. PICK d \in 1 .. Len(tables.cras) : tables.cras[d] = row
  BY <1>2, <1>r, AtHandIs
<1>6. \A k \in 1 .. s - 1 : seededCras'[k].row # row
  <2> SUFFICES ASSUME NEW k \in 1 .. s - 1, seededCras'[k].row = row PROVE FALSE
    OBVIOUS
  <2>1. seededCras[k + 1].row = seededCras[1].row /\ k + 1 \in 1 .. s
    BY <1>3, <1>r
  <2>2. k + 1 = 1
    BY <1>1, <1>3, <2>1 DEF MonthsOnce
  <2> QED
    BY <1>3, <2>2
<1> HIDE DEF refusals
<1>7. Phases'
  <2>1. (DOMAIN Empty)' = DOMAIN Empty
    BY DEF Empty
  <2> QED
    BY <1>1, <1>2, <1>3, <1>4, <2>1 DEF Phases
<1>8. MonthsOnce'
  <2>1. \A k \in 1 .. s - 1 : \E c \in 1 .. Len(tables.cras) :
          tables.cras[c] = seededCras'[k].row /\ tables.cras[c].status = "validated"
    BY <1>1, <1>3 DEF MonthsOnce
  <2>2. ASSUME NEW j \in 1 .. s - 1, NEW k \in 1 .. s - 1, seededCras'[j].row = seededCras'[k].row
        PROVE  j = k
    <3>1. j + 1 \in 1 .. s /\ k + 1 \in 1 .. s /\ seededCras[j + 1].row = seededCras[k + 1].row
      BY <1>3, <2>2
    <3>2. j + 1 = k + 1
      BY <1>1, <3>1 DEF MonthsOnce
    <3> QED
      BY <3>2
  <2>3. \A c \in 1 .. Len(tables'.cras) :
          /\ IsPeriod(tables'.cras[c].period)
          /\ tables'.cras[c].status = "validated" => WorkByMission(tables'.cras[c].worked)
    BY <1>1, <1>4 DEF MonthsOnce
  <2>4. \A c, e \in 1 .. Len(tables'.cras) :
          tables'.cras[c].who = tables'.cras[e].who /\ tables'.cras[c].period = tables'.cras[e].period
            => c = e
    BY <1>1, <1>4 DEF MonthsOnce
  <2> QED
    BY <1>3, <1>4, <2>1, <2>2, <2>3, <2>4 DEF MonthsOnce
<1>9. WithNumber(tables') = WithNumber(tables)
  BY <1>4 DEF WithNumber
<1>10. InTurn'
  <2>1. \A k \in 1 .. s - 1 : seededCras'[k].outcome \in Outcomes
    BY <1>1, <1>3 DEF InTurn
  <2>2. \A k \in ToIssue' : k \in 1 .. s - 1 /\ k + 1 \in ToIssue /\ seededCras'[k] = seededCras[k + 1]
    BY <1>3 DEF ToIssue
  <2>3. ToOpen' = {} /\ Len(queue') = 0
    BY <1>2, NoneIsSequence DEF ToOpen
  <2>4. \A j, k \in ToIssue' : j < k => NotLater(seededCras'[j].row.period, seededCras'[k].row.period)
    <3> SUFFICES ASSUME NEW j \in ToIssue', NEW k \in ToIssue', j < k
                 PROVE  NotLater(seededCras'[j].row.period, seededCras'[k].row.period)
      OBVIOUS
    <3>1. j + 1 < k + 1
      BY <2>2
    <3> QED
      BY <1>1, <2>2, <3>1 DEF InTurn
  <2>5. \A n \in WithNumber(tables') : \A k \in ToIssue' :
          NotLater(tables'.invoices[n].row.supplyPeriod, seededCras'[k].row.period)
    BY <1>1, <1>4, <1>9, <2>2 DEF InTurn
  <2> QED
    BY <1>3, <2>1, <2>3, <2>4, <2>5 DEF InTurn
<1>11. DatedByMonth'
  BY <1>1, <1>4, <1>9 DEF DatedByMonth
<1>12. FiledSoFar'
  <2> SUFFICES ASSUME NEW c \in 1 .. Len(tables.cras), tables.cras[c].status = "validated"
               PROVE  LET its == tables.cras[c]
                      IN \/ \E k \in 1 .. s - 1 : seededCras'[k].row = its /\ OnFile(tables', its, {}, {})
                         \/ /\ \A k \in 1 .. s - 1 : seededCras'[k].row # its
                            /\ OnFile(tables', its, ClientsBilled(EventOf(its)),
                                      DeclinedOf(EventOf(its)))
    BY <1>2, <1>3, <1>4 DEF FiledSoFar
  <2> DEFINE its == tables.cras[c]
             billed == ClientsBilled(EventOf(its))
             all == DeclinedOf(EventOf(its))
             Done == /\ \A k \in 1 .. s : seededCras[k].row # its
                     /\ OnFile(tables, its, billed, all)
  <2>1. \/ \E k \in 1 .. s :
             seededCras[k].row = its /\ OnFile(tables, its, IF k = 1 THEN billed ELSE {}, {})
        \/ Done
    <3>1. billed \ {} = billed
      OBVIOUS
    <3> HIDE DEF billed
    <3>2. \/ \E k \in 1 .. s :
               seededCras[k].row = its /\ OnFile(tables, its, IF k = 1 THEN billed \ {} ELSE {}, {})
          \/ Done
      BY <1>1, <1>2 DEF FiledSoFar, billed
    <3> QED
      BY <3>1, <3>2
  <2>2. \A books : DocumentsOf(books, its.who, its.period)
          = { n \in 1 .. Len(books.invoices) :
                books.invoices[n].who = its.who /\ books.invoices[n].row.supplyPeriod = its.period }
    BY DEF DocumentsOf
  <2>3. DocumentsOf(tables', its.who, its.period) = DocumentsOf(tables, its.who, its.period)
    BY <1>4 DEF DocumentsOf
  <2>4. CASE its = row
    <3>1. ~ Done
      BY <1>3, <1>r, <2>4
    <3>2. PICK k \in 1 .. s : seededCras[k].row = its
                              /\ OnFile(tables, its, IF k = 1 THEN billed ELSE {}, {})
      BY <2>1, <3>1
    <3>3. k = 1
      BY <1>1, <1>3, <1>r, <2>4, <3>2 DEF MonthsOnce
    <3>4. OnFile(tables, its, billed, {})
      BY <3>2, <3>3
    <3>5. RefusedOf(tables, its.who, its.period) = {}
      BY <3>4 DEF OnFile
    <3>6. \A e \in refusals : e.who = its.who /\ e.period = its.period
      BY <2>4 DEF refusals
    <3>7. RefusedOf(tables', its.who, its.period) = refusals
      BY <1>4, <3>5, <3>6 DEF RefusedOf
    <3>8. refusals = { [ d |-> x, who |-> its.who, period |-> its.period ] : x \in all }
      BY <2>4 DEF refusals
    <3> HIDE DEF billed, all
    <3>9. OnFile(tables', its, billed, all)
      BY <1>4, <2>3, <3>4, <3>7, <3>8 DEF OnFile
    <3> QED
      BY <1>6, <2>4, <3>9 DEF billed, all
  <2>5. CASE its # row
    <3>1. ~ (its.who = row.who /\ its.period = row.period)
      BY <1>1, <1>5, <2>5, OneRow
    <3>2. \A e \in refusals : ~ (e.who = its.who /\ e.period = its.period)
      BY <3>1 DEF refusals
    <3>3. RefusedOf(tables', its.who, its.period) = RefusedOf(tables, its.who, its.period)
      BY <1>4, <3>2 DEF RefusedOf
    <3>4. \A clients, refused : OnFile(tables, its, clients, refused)
                                => OnFile(tables', its, clients, refused)
      <4> HIDE DEF its
      <4> QED
        BY <1>4, <2>3, <3>3 DEF OnFile
    <3>5. CASE Done
      <4>1. \A k \in 1 .. s - 1 : seededCras'[k].row # its
        BY <1>3, <3>5
      <4> HIDE DEF its, billed, all
      <4>2. OnFile(tables', its, billed, all)
        BY <3>4, <3>5
      <4> QED
        BY <4>1, <4>2 DEF its, billed, all
    <3>6. CASE ~ Done
      <4>1. PICK k \in 1 .. s : seededCras[k].row = its
                                /\ OnFile(tables, its, IF k = 1 THEN billed ELSE {}, {})
        BY <2>1, <3>6
      <4>2. k # 1
        BY <1>r, <2>5, <4>1
      <4>3. k - 1 \in 1 .. s - 1 /\ seededCras'[k - 1] = seededCras[k]
        BY <1>3, <4>2
      <4> HIDE DEF its
      <4> QED
        BY <3>4, <4>1, <4>2, <4>3 DEF its
    <3> QED
      BY <3>5, <3>6
  <2> QED
    BY <2>4, <2>5
<1>13. SeriesWhole(tables') /\ DatesRise(tables')
  BY <1>1, <1>4, <1>9, SameBooks
<1>14. Kept'
  BY <1>1, <1>2 DEF Kept
<1>15. SeedInv' <=> AtHand' /\ Kept'
  BY TwoParts, PTL
<1> QED
  BY <1>7, <1>8, <1>10, <1>11, <1>12, <1>13, <1>14, <1>15 DEF AtHand

\* The day an invoice is dated never comes before an earlier one's.
LEMMA SamePeriod == ASSUME NEW period, IsPeriod(period) PROVE NotLater(period, period)
<1>1. Digits(FirstDayOf(period)) \in Nat
  BY FirstDayTells
<1> QED
  BY <1>1 DEF NotLater, NotAfter

LEMMA SaveInvoiceKeeps ==
    ASSUME SeedInv, NEW client \in DOMAIN Clients, SaveInvoice(client)
    PROVE  SeedInv'
<1> DEFINE seeded == Head(seededCras)
           row == seeded.row
           event == EventOf(row)
           draft == NewInvoice(event, client, SellerOf(tables.reference), client)
           date == ClockDayAfter(event.period)
           last == LastSequence(tables, date.year)
           final == Final(draft, seeded.outcome, last + 1, date)
           stored == [ who |-> row.who, client |-> client, office |-> row.office, row |-> final.row ]
           numbered == seeded.outcome # "draft"
           n == Len(tables.invoices)
           s == Len(seededCras)
<1>1. /\ Phases /\ MonthsOnce /\ InTurn /\ DatedByMonth /\ FiledSoFar
      /\ SeriesWhole(tables) /\ DatesRise(tables) /\ Kept
  BY TwoParts DEF AtHand
<1>2. /\ phase = "documents" /\ phase' = "documents" /\ seededCras # << >> /\ seededCras' = seededCras
      /\ queue = << >> /\ queue' = queue /\ database' = database /\ IsSequence(seededCras)
      /\ IsSequence(tables.invoices) /\ DOMAIN tables = DOMAIN Empty
      /\ client \in pending /\ pending' = pending \ {client}
  BY <1>1 DEF SaveInvoice, Phases
<1>3. s \in Nat /\ 1 \in 1 .. s /\ seeded = seededCras[1] /\ row = seededCras[1].row
  BY <1>2, TailIs
<1>4. /\ DOMAIN tables' = DOMAIN Empty
      /\ tables'.cras = tables.cras /\ tables'.invoices = Append(tables.invoices, stored)
      /\ tables'.declined = tables.declined
      /\ tables'.lastSequence =
           IF numbered THEN [ year \in DOMAIN tables.lastSequence \cup {date.year} |->
                                IF year = date.year THEN final.last ELSE tables.lastSequence[year] ]
                       ELSE tables.lastSequence
  <2> DEFINE taken == [ year \in DOMAIN tables.lastSequence \cup {date.year} |->
                          IF year = date.year THEN final.last ELSE tables.lastSequence[year] ]
  <2>1. tables' = [ tables EXCEPT !.invoices = Append(@, stored),
                                  !.lastSequence = IF ~ numbered THEN @ ELSE taken ]
    BY DEF SaveInvoice
  <2> HIDE DEF taken, stored, numbered
  <2>2. /\ DOMAIN tables' = DOMAIN Empty
        /\ tables'.cras = tables.cras /\ tables'.invoices = Append(tables.invoices, stored)
        /\ tables'.declined = tables.declined
        /\ tables'.lastSequence = IF ~ numbered THEN tables.lastSequence ELSE taken
    BY <1>2, <2>1 DEF Empty
  <2> QED
    BY <2>2 DEF taken
<1>5. seeded.outcome \in Outcomes /\ IsPeriod(row.period) /\ event.period = row.period
  <2>1. IsPeriod(seededCras[1].row.period)
    BY <1>2, AtHandIs
  <2>2. event.period = row.period
    <3> HIDE DEF row
    <3> QED
      BY EventIs
  <2>3. seededCras[1].outcome \in Outcomes
    BY <1>1, <1>3 DEF InTurn
  <2> HIDE DEF row, event
  <2>4. IsPeriod(row.period)
    BY <1>3, <2>1
  <2> QED
    BY <1>3, <2>2, <2>3, <2>4
<1>6. /\ final.row.supplyPeriod = event.period
      /\ final.row.lines = LinesFor(event, client)
      /\ ~ numbered => final.row.status = "draft"
      /\ numbered =>
           /\ final.row.status = IF seeded.outcome = "issued" THEN "issued" ELSE "cancelledByCreditNote"
           /\ final.row.sequence = last + 1 /\ final.row.issueDate = date
           /\ final.row.series = date.year
           /\ final.last = IF seeded.outcome = "issued" THEN last + 1 ELSE last + 2
  <2>1. last \in Nat
    BY <1>1 DEF DatedByMonth, LastSequence
  <2> HIDE DEF event, last, date, seeded
  <2>2. LET end == seeded.outcome
        IN /\ final.row.supplyPeriod = event.period
           /\ final.row.lines = LinesFor(event, client)
           /\ end = "draft" => final.row.status = "draft"
           /\ end # "draft" =>
                /\ final.row.status = IF end = "issued" THEN "issued" ELSE "cancelledByCreditNote"
                /\ final.row.sequence = last + 1 /\ final.row.issueDate = date
                /\ final.row.series = date.year
                /\ final.last = IF end = "issued" THEN last + 1 ELSE last + 1 + 1
    <3> HIDE DEF draft, final
    <3>1. seeded.outcome \in Outcomes
      BY <1>5
    <3> QED
      BY <3>1, FinalIs DEF draft, final
  <2> HIDE DEF final
  <2>3. last + 1 + 1 = last + 2
    BY <2>1
  <2> QED
    BY <2>2, <2>3
<1> HIDE DEF draft, final
<1>7. stored.who = row.who /\ stored.client = client /\ stored.row = final.row
  OBVIOUS
<1>8. PICK d \in 1 .. Len(tables.cras) : tables.cras[d] = row
  BY <1>2, <1>3, AtHandIs
<1>d. date = ClockDayAfter(row.period)
  <2> HIDE DEF event, row
  <2> QED
    BY <1>5
<1> HIDE DEF stored, seeded, row, event, date, last, numbered
<1>9. /\ n \in Nat /\ n + 1 \notin 1 .. n /\ IsSequence(tables'.invoices)
      /\ \A k \in 1 .. n : tables'.invoices[k] = tables.invoices[k]
      /\ tables'.invoices[n + 1] = stored
      /\ 1 .. Len(tables'.invoices) = 1 .. n \cup {n + 1}
      /\ WithNumber(tables') = IF numbered THEN WithNumber(tables) \cup {n + 1} ELSE WithNumber(tables)
  <2>1. stored.row.status = "draft" <=> ~ numbered
    BY <1>6, <1>7
  <2>2. IsSequence(tables.invoices) /\ tables'.invoices = Append(tables.invoices, stored)
    BY <1>2, <1>4
  <2>3. n \in Nat /\ n + 1 \notin 1 .. n
    BY <2>2, OneFiled
  <2>4. IsSequence(tables'.invoices)
    <3>1. IsSequence(Append(tables.invoices, stored))
      BY <2>2, AppendIs
    <3> QED
      BY <2>2, <3>1
  <2>5. \A k \in 1 .. n : tables'.invoices[k] = tables.invoices[k]
    BY <2>2, OneFiled
  <2>6. tables'.invoices[n + 1] = stored
    BY <2>2, OneFiled
  <2>7. 1 .. Len(tables'.invoices) = 1 .. n \cup {n + 1}
    BY <2>2, OneFiled
  <2>8. WithNumber(tables') = IF stored.row.status = "draft" THEN WithNumber(tables)
                             ELSE WithNumber(tables) \cup {n + 1}
    BY <2>2, OneFiled
  <2> QED
    BY <2>1, <2>3, <2>4, <2>5, <2>6, <2>7, <2>8
<1>10. \A k \in WithNumber(tables) : tables'.invoices[k] = tables.invoices[k] /\ k # n + 1
  BY <1>9 DEF WithNumber
<1> HIDE DEF n
<1>11. Phases'
  <2>1. (DOMAIN Empty)' = DOMAIN Empty
    BY DEF Empty
  <2>2. IsSequence(tables'.cras) /\ IsSequence(queue') /\ IsSequence(seededCras')
    BY <1>1, <1>2, <1>4 DEF Phases
  <2>3. pending' \subseteq ClientsBilled(EventOf(seededCras'[1].row))
    BY <1>1, <1>2 DEF Phases
  <2> QED
    BY <1>2, <1>4, <1>9, <2>1, <2>2, <2>3 DEF Phases
<1>12. MonthsOnce'
  BY <1>1, <1>2, <1>4 DEF MonthsOnce
<1>13. ToIssue' = ToIssue /\ ToOpen' = {} /\ Len(queue') = 0
  BY <1>2, NoneIsSequence DEF ToIssue, ToOpen
<1>14. numbered => 1 \in ToIssue
  BY <1>3 DEF numbered, ToIssue
<1>15. InTurn'
  <2>1. ASSUME NEW k \in WithNumber(tables'), NEW i \in ToIssue
        PROVE  NotLater(tables'.invoices[k].row.supplyPeriod, seededCras[i].row.period)
    <3>1. CASE k \in WithNumber(tables)
      BY <1>1, <1>10, <3>1 DEF InTurn
    <3>2. CASE k \notin WithNumber(tables)
      <4>1. numbered /\ k = n + 1
        BY <1>9, <3>2
      <4>2. tables'.invoices[k].row.supplyPeriod = row.period
        BY <1>5, <1>6, <1>7, <1>9, <4>1
      <4>3. CASE i = 1
        BY <1>3, <1>5, <4>2, <4>3, SamePeriod
      <4>4. CASE i # 1
        <5>1. 1 < i
          BY <1>3, <4>4 DEF ToIssue
        <5>2. NotLater(seededCras[1].row.period, seededCras[i].row.period)
          BY <1>1, <1>14, <4>1, <5>1 DEF InTurn
        <5> QED
          BY <1>3, <4>2, <5>2
      <4> QED
        BY <4>3, <4>4
    <3> QED
      BY <3>1, <3>2
  <2> QED
    BY <1>1, <1>2, <1>13, <2>1 DEF InTurn
<1>16. DatedByMonth'
  <2>1. \A year \in DOMAIN tables'.lastSequence : tables'.lastSequence[year] \in Nat
    <3>1. \A year \in DOMAIN tables.lastSequence : tables.lastSequence[year] \in Nat
      BY <1>1 DEF DatedByMonth
    <3>2. CASE ~ numbered
      BY <1>4, <3>1, <3>2
    <3>3. CASE numbered
      <4>1. last \in Nat
        BY <3>1 DEF LastSequence, last
      <4>2. final.last \in Nat
        BY <1>6, <3>3, <4>1
      <4> QED
        BY <1>4, <3>1, <3>3, <4>2
    <3> QED
      BY <3>2, <3>3
  <2>2. ASSUME NEW k \in WithNumber(tables')
        PROVE  LET its == tables'.invoices[k].row
               IN /\ IsPeriod(its.supplyPeriod)
                  /\ its.issueDate = ClockDayAfter(its.supplyPeriod) /\ its.series = its.issueDate.year
    <3>1. CASE k \in WithNumber(tables)
      BY <1>1, <1>10, <3>1 DEF DatedByMonth
    <3>2. CASE k \notin WithNumber(tables)
      <4>1. numbered /\ tables'.invoices[k].row = final.row
        BY <1>7, <1>9, <3>2
      <4> QED
        BY <1>5, <1>6, <1>d, <4>1
    <3> QED
      BY <3>1, <3>2
  <2> QED
    BY <2>1, <2>2 DEF DatedByMonth
<1>17. FiledSoFar'
  <2> SUFFICES ASSUME NEW c \in 1 .. Len(tables.cras), tables.cras[c].status = "validated"
               PROVE  LET its == tables.cras[c]
                          billed == ClientsBilled(EventOf(its))
                      IN \/ \E k \in 1 .. s :
                              /\ seededCras[k].row = its
                              /\ OnFile(tables', its, IF k = 1 THEN billed \ pending' ELSE {}, {})
                         \/ /\ \A k \in 1 .. s : seededCras[k].row # its
                            /\ OnFile(tables', its, billed, DeclinedOf(EventOf(its)))
    BY <1>2, <1>4 DEF FiledSoFar
  <2> DEFINE its == tables.cras[c]
             billed == ClientsBilled(EventOf(its))
             Done(books) == /\ \A k \in 1 .. s : seededCras[k].row # its
                            /\ OnFile(books, its, billed, DeclinedOf(EventOf(its)))
  <2>1. \/ \E k \in 1 .. s :
             seededCras[k].row = its /\ OnFile(tables, its, IF k = 1 THEN billed \ pending ELSE {}, {})
        \/ Done(tables)
    BY <1>1, <1>2 DEF FiledSoFar
  <2>2. CASE its = row
    <3>1. ~ Done(tables)
      BY <1>3, <2>2
    <3>2. PICK k \in 1 .. s :
             seededCras[k].row = its /\ OnFile(tables, its, IF k = 1 THEN billed \ pending ELSE {}, {})
      BY <2>1, <3>1
    <3>3. k = 1
      BY <1>1, <1>3, <2>2, <3>2 DEF MonthsOnce
    <3>4. OnFile(tables, its, billed \ pending, {})
      BY <3>2, <3>3
    <3>5. pending \subseteq billed
      BY <1>1, <1>2, <1>3, <2>2 DEF Phases
    <3>6. /\ stored.who = its.who /\ stored.row.supplyPeriod = its.period
          /\ stored.row.lines = LinesFor(EventOf(its), stored.client)
      BY <1>5, <1>6, <1>7, <2>2 DEF event
    <3> HIDE DEF its, billed
    <3>7. stored.client \notin billed \ pending
          /\ billed \ pending' = (billed \ pending) \cup {stored.client}
      BY <1>2, <1>7, <3>5
    <3>8. OnFile(tables', its, (billed \ pending) \cup {stored.client}, {})
      BY <1>2, <1>4, <3>4, <3>6, <3>7, FileGoesOn
    <3>9. seededCras[1].row = its /\ OnFile(tables', its, billed \ pending', {})
      BY <3>2, <3>3, <3>7, <3>8
    <3> QED
      BY <1>3, <3>9 DEF its, billed
  <2>3. CASE its # row
    <3>1. ~ (its.who = row.who /\ its.period = row.period)
      BY <1>1, <1>8, <2>3, OneRow
    <3>2. ~ (stored.who = its.who /\ stored.row.supplyPeriod = its.period)
      BY <1>5, <1>6, <1>7, <3>1
    <3> HIDE DEF its
    <3>3. \A clients, refused : OnFile(tables, its, clients, refused)
                                => OnFile(tables', its, clients, refused)
      BY <1>2, <1>4, <3>2, FileStays
    <3>4. CASE Done(tables)
      <4>1. Done(tables')
        <5> HIDE DEF billed
        <5> QED
          BY <3>3, <3>4
      <4> QED
        BY <4>1 DEF its
    <3>5. CASE ~ Done(tables)
      <4>1. PICK k \in 1 .. s :
               seededCras[k].row = its /\ OnFile(tables, its, IF k = 1 THEN billed \ pending ELSE {}, {})
        BY <2>1, <3>5
      <4>2. k # 1
        BY <1>3, <2>3, <4>1 DEF its
      <4>3. OnFile(tables', its, {}, {})
        BY <3>3, <4>1, <4>2
      <4> HIDE DEF billed
      <4>4. \E i \in 1 .. s :
              seededCras[i].row = its /\ OnFile(tables', its, IF i = 1 THEN billed \ pending' ELSE {}, {})
        BY <4>1, <4>2, <4>3
      <4> QED
        BY <4>4 DEF its, billed
    <3> QED
      BY <3>4, <3>5
  <2> QED
    BY <2>2, <2>3
<1>18. SeriesWhole(tables') /\ DatesRise(tables')
  <2>1. CASE ~ numbered
    <3>1. WithNumber(tables') = WithNumber(tables) /\ tables'.lastSequence = tables.lastSequence
      BY <1>4, <1>9, <2>1
    <3> QED
      BY <1>1, <1>10, <3>1, SameBooks
  <2>2. CASE numbered
    <3>1. \A year \in DOMAIN tables.lastSequence : tables.lastSequence[year] \in Nat
      BY <1>1 DEF DatedByMonth
    <3>2. /\ stored.row.status \in {"issued", "cancelledByCreditNote"}
          /\ stored.row.status = "issued" <=> seeded.outcome = "issued"
          /\ stored.row.series = date.year /\ stored.row.sequence = last + 1
          /\ stored.row.issueDate = date
      BY <1>6, <1>7, <2>2
    <3>3. SeriesWhole(tables')
      <4> DEFINE year == date.year
                 after == final.last
      <4>1. after = IF stored.row.status = "issued" THEN last + 1 ELSE last + 2
        BY <1>6, <2>2, <3>2
      <4>2. tables'.lastSequence = [ y \in DOMAIN tables.lastSequence \cup {year} |->
                                       IF y = year THEN after ELSE tables.lastSequence[y] ]
        BY <1>4, <2>2
      <4>3. last = LastSequence(tables, year) /\ stored.row.series = year
        BY <3>2 DEF last
      <4> HIDE DEF year, after
      <4> QED
        BY <1>1, <1>2, <1>4, <3>1, <3>2, <4>1, <4>2, <4>3, NumberTaken
    <3>4. ASSUME NEW k \in WithNumber(tables)
          PROVE  NotAfter(tables.invoices[k].row.issueDate, stored.row.issueDate)
      <4> DEFINE p == tables.invoices[k].row.supplyPeriod
      <4>1. IsPeriod(p) /\ tables.invoices[k].row.issueDate = ClockDayAfter(p)
        BY <1>1 DEF DatedByMonth
      <4>2. NotLater(p, row.period)
        BY <1>1, <1>3, <1>14, <2>2 DEF InTurn
      <4> HIDE DEF p
      <4>3. NotAfter(ClockDayAfter(p), ClockDayAfter(row.period))
        BY <1>5, <4>1, <4>2, ClockGoesOn
      <4> QED
        BY <1>d, <3>2, <4>1, <4>3
    <3>5. stored.row.sequence = LastSequence(tables, stored.row.series) + 1
      BY <3>2 DEF last
    <3>6. DatesRise(tables')
      <4>1. stored.row.status # "draft"
        BY <3>2
      <4> QED
        BY <1>1, <1>2, <1>4, <3>1, <3>4, <3>5, <4>1, DatesGoOn
    <3> QED
      BY <3>3, <3>6
  <2> QED
    BY <2>1, <2>2
<1>19. Kept'
  BY <1>1, <1>2 DEF Kept
<1>20. SeedInv' <=> AtHand' /\ Kept'
  BY TwoParts, PTL
<1> QED
  BY <1>11, <1>12, <1>15, <1>16, <1>17, <1>18, <1>19, <1>20 DEF AtHand

-----------------------------------------------------------------------------
(* The seeded books.                                                       *)

LEMMA SeedInitGood == SInit => SeedInv
<1> SUFFICES ASSUME SInit PROVE SeedInv
  OBVIOUS
<1>1. /\ phase = "rest" /\ database = Empty /\ tables = Empty /\ queue = << >> /\ seededCras = << >>
  BY DEF SInit
<1>2. /\ Empty.cras = << >> /\ Empty.invoices = << >> /\ Empty.declined = {}
      /\ Empty.lastSequence = [ year \in {} |-> 0 ]
  BY DEF Empty
<1>3. AtHand
  BY <1>1, <1>2, FreshIsGood DEF Fresh
<1>4. Kept
  BY <1>1, <1>2, NoBooks DEF Kept
<1> QED
  BY <1>3, <1>4, TwoParts

LEMMA SeedStepKeeps == SeedInv /\ [SNext]_svars => SeedInv'
<1> SUFFICES ASSUME SeedInv, [SNext]_svars PROVE SeedInv'
  OBVIOUS
<1>1. CASE Begin
  BY <1>1, BeginKeeps
<1>2. CASE OpenSubmitValidate
  BY <1>2, OpenKeeps
<1>3. CASE Draft
  BY <1>3, DraftKeeps
<1>4. CASE Publish
  BY <1>4, PublishKeeps
<1>5. CASE Commit
  BY <1>5, CommitKeeps
<1>6. CASE RollBack
  BY <1>6, RollBackKeeps
<1>7. ASSUME NEW client \in DOMAIN Clients, SaveInvoice(client) PROVE SeedInv'
  BY <1>7, SaveInvoiceKeeps
<1>8. CASE UNCHANGED svars
  <2>1. /\ phase' = phase /\ tables' = tables /\ queue' = queue /\ seededCras' = seededCras
        /\ pending' = pending /\ database' = database
    BY <1>8 DEF svars
  <2>2. Phases' /\ MonthsOnce'
    BY <2>1 DEF SeedInv, Phases, MonthsOnce
  <2>3. InTurn' /\ DatedByMonth' /\ FiledSoFar'
    BY <2>1 DEF SeedInv, InTurn, ToIssue, ToOpen, DatedByMonth, FiledSoFar
  <2> QED
    BY <2>1, <2>2, <2>3 DEF SeedInv
<1> QED
  BY <1>1, <1>2, <1>3, <1>4, <1>5, <1>6, <1>7, <1>8 DEF SNext

LEMMA SeedInvariant == SSpec => []SeedInv
  BY SeedInitGood, SeedStepKeeps, PTL DEF SSpec

\* Whatever is seeded, and as often as it is, what seed.ts commits keeps the books
\* (ADR-0080): the numbers of a year are one series in the order of the dates, with no hole
\* but for the notes that cancel, and a validated month's quarter-days are each billed or
\* declined, once.
THEOREM SeedKeepsBooks == SSpec => []SeededBooks
<1>1. SeedInv => SeededBooks
  BY DEF SeedInv, SeededBooks
<1> QED
  BY <1>1, SeedInvariant, PTL

=============================================================================
