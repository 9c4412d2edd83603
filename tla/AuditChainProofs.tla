--------------------------- MODULE AuditChainProofs ---------------------------
(***************************************************************************)
(* Theorems about AuditChain: what verifyChain accepts, for any log, and   *)
(* what happens to the logs that processes write, for any processes,       *)
(* records, starts and changes.                                            *)
(***************************************************************************)
EXTENDS AuditChain, FiniteSetTheorems, SequenceTheorems, TLAPS

-----------------------------------------------------------------------------
(* Least numbers and sorted sequences *)

\* Induction over the places of a chain is done with least counterexamples.
LEMMA LeastNumber ==
    ASSUME NEW T \in SUBSET Nat, T # {}
    PROVE  \E m \in T : \A k \in T : m <= k
<1> DEFINE Smaller == StrictSubsetOrdering(Nat)
<1> DEFINE Upto == {1 .. m : m \in T}
<1>1. IsWellFoundedOn(Smaller, FiniteSubsetsOf(Nat))
  BY FS_StrictSubsetOrderingWellFounded
<1>2. Upto \subseteq FiniteSubsetsOf(Nat) /\ Upto # {}
  <2>1. ASSUME NEW m \in T PROVE 1 .. m \in SUBSET Nat /\ IsFiniteSet(1 .. m)
    BY FS_Interval
  <2> QED BY <2>1 DEF FiniteSubsetsOf
<1>3. \E x \in Upto : \A y \in Upto : <<y, x>> \notin Smaller
  <2> HIDE DEF Smaller, Upto
  <2> QED BY <1>1, <1>2, WFMin
<1>4. PICK m \in T : \A k \in T : <<1 .. k, 1 .. m>> \notin Smaller
  BY <1>3
<1>5. ASSUME NEW k \in T, k < m PROVE FALSE
  <2>1. 1 .. k \subseteq 1 .. m /\ m \in 1 .. m /\ m \notin 1 .. k
    BY <1>5
  <2>2. 1 .. k \in SUBSET Nat /\ 1 .. m \in SUBSET Nat
    OBVIOUS
  <2>3. <<1 .. k, 1 .. m>> \in Smaller
    BY <2>1, <2>2 DEF StrictSubsetOrdering
  <2> QED BY <1>4, <2>3
<1> QED BY <1>5

StrictOrder(R, S) ==
    /\ \A i, j \in S : i # j => <<i, j>> \in R \/ <<j, i>> \in R
    /\ \A i \in S : <<i, i>> \notin R
    /\ \A i, j, k \in S : <<i, j>> \in R /\ <<j, k>> \in R => <<i, k>> \in R

Sorts(s, R, S) ==
    /\ s \in [1 .. Cardinality(S) -> S]
    /\ \A j, k \in DOMAIN s : j < k => <<s[j], s[k]>> \in R

\* A finite set can be sorted: an element comes after as many as are before it.
LEMMA CanBeSorted ==
    ASSUME NEW S, IsFiniteSet(S), NEW R, StrictOrder(R, S)
    PROVE  \E s : Sorts(s, R, S)
<1> DEFINE n == Cardinality(S)
           Before(i) == {j \in S : <<j, i>> \in R}
           rank == [i \in S |-> Cardinality(Before(i)) + 1]
<1>1. n \in Nat
  BY FS_CardinalityType
<1>2. ASSUME NEW i \in S
      PROVE  IsFiniteSet(Before(i)) /\ Cardinality(Before(i)) \in Nat /\ Cardinality(Before(i)) < n
  <2>1. Before(i) \in SUBSET S /\ i \in S \ Before(i)
    BY DEF StrictOrder
  <2>2. IsFiniteSet(Before(i)) /\ Cardinality(Before(i)) <= n /\ Cardinality(Before(i)) # n
    BY <2>1, FS_Subset
  <2> QED BY <1>1, <2>2, FS_CardinalityType
<1>3. ASSUME NEW i \in S, NEW j \in S, <<i, j>> \in R
      PROVE  Cardinality(Before(i)) < Cardinality(Before(j))
  <2>1. Before(i) \in SUBSET Before(j) /\ i \in Before(j) \ Before(i)
    BY <1>3 DEF StrictOrder
  <2>2. /\ Cardinality(Before(i)) <= Cardinality(Before(j))
        /\ Cardinality(Before(i)) # Cardinality(Before(j))
    BY <1>2, <2>1, FS_Subset
  <2>3. Cardinality(Before(i)) \in Nat /\ Cardinality(Before(j)) \in Nat
    BY <1>2
  <2> HIDE DEF Before
  <2> QED BY <2>2, <2>3
<1>4. rank \in [S -> 1 .. n]
  <2>1. ASSUME NEW i \in S PROVE Cardinality(Before(i)) + 1 \in 1 .. n
    <3> HIDE DEF n, Before
    <3> QED BY <1>1, <1>2
  <2> QED BY <2>1
<1>5. \A i, j \in S : <<i, j>> \in R => rank[i] < rank[j]
  <2>1. \A i \in S : rank[i] = Cardinality(Before(i)) + 1 /\ Cardinality(Before(i)) \in Nat
    BY <1>2
  <2> HIDE DEF Before, rank
  <2> QED BY <1>3, <2>1
<1> HIDE DEF rank, n, Before
<1>6. rank \in Surjection(S, 1 .. n)
  <2>1. ASSUME NEW i \in S, NEW j \in S, rank[i] = rank[j] PROVE i = j
    <3>1. rank[i] \in Nat /\ ~(rank[i] < rank[j]) /\ ~(rank[j] < rank[i])
      BY <1>1, <1>4, <2>1
    <3> QED BY <1>5, <3>1 DEF StrictOrder
  <2>2. rank \in Injection(S, 1 .. n)
    BY <1>4, <2>1 DEF Injection, IsInjective
  <2>3. IsFiniteSet(1 .. n) /\ Cardinality(1 .. n) = n
    BY <1>1, FS_Interval
  <2> QED BY <2>2, <2>3, FS_Injection DEF n
<1> DEFINE s == [k \in 1 .. n |-> CHOOSE i \in S : rank[i] = k]
<1>7. \A k \in 1 .. n : s[k] \in S /\ rank[s[k]] = k
  BY <1>6 DEF Surjection
<1>8. s \in [1 .. n -> S]
  BY <1>7
<1>9. ASSUME NEW j \in 1 .. n, NEW k \in 1 .. n, j < k PROVE <<s[j], s[k]>> \in R
  <2> HIDE DEF s
  <2>1. s[j] \in S /\ s[k] \in S /\ rank[s[j]] < rank[s[k]]
    BY <1>7, <1>9
  <2>2. ~(rank[s[k]] < rank[s[j]]) /\ s[j] # s[k]
    BY <1>1, <1>7, <1>9
  <2> QED BY <1>5, <2>1, <2>2 DEF StrictOrder
<1>10. DOMAIN s = 1 .. n
  OBVIOUS
<1> HIDE DEF s
<1>11. Sorts(s, R, S)
  BY <1>8, <1>9, <1>10 DEF Sorts, n
<1> QED BY <1>11

\* A sorted sequence has every element, once.
LEMMA SortedIsComplete ==
    ASSUME NEW S, IsFiniteSet(S), NEW R, StrictOrder(R, S), NEW s, Sorts(s, R, S)
    PROVE  /\ Cardinality(S) \in Nat
           /\ \A i \in S : \E k \in 1 .. Cardinality(S) : s[k] = i
<1> DEFINE n == Cardinality(S)
<1>1. n \in Nat /\ s \in [1 .. n -> S]
  BY FS_CardinalityType DEF Sorts
<1>2. ASSUME NEW j \in 1 .. n, NEW k \in 1 .. n, s[j] = s[k] PROVE j = k
  <2>1. s[j] \in S
    BY <1>1
  <2>2. ~(j < k) /\ ~(k < j)
    BY <1>1, <1>2, <2>1 DEF Sorts, StrictOrder
  <2> QED BY <1>1, <2>2
<1>3. s \in Injection(1 .. n, S)
  BY <1>1, <1>2 DEF Injection, IsInjective
<1>4. IsFiniteSet(1 .. n) /\ Cardinality(1 .. n) = n
  BY <1>1, FS_Interval
<1>5. s \in Surjection(1 .. n, S)
  BY <1>3, <1>4, FS_Injection
<1> QED BY <1>1, <1>5 DEF Surjection

-----------------------------------------------------------------------------
(* What verifyChain accepts *)

IsEntry(r) ==
    /\ r = [chain |-> r.chain, seq |-> r.seq, body |-> r.body, agent |-> r.agent,
            prevHash |-> r.prevHash, hash |-> r.hash]
    /\ r.chain \in Nat /\ r.seq \in Nat

\* The log is a sequence of parsed lines, numbers where numbers are expected; nothing is
\* said of how the lines came to be in it.
IsLog ==
    /\ log \in Seq({log[i] : i \in DOMAIN log})
    /\ \A i \in DOMAIN log : IsEntry(log[i])

LEMMA LogLines ==
    ASSUME IsLog, NEW c
    PROVE  /\ Len(log) \in Nat /\ DOMAIN log = 1 .. Len(log)
           /\ LinesOf(c) \subseteq DOMAIN log /\ IsFiniteSet(LinesOf(c))
           /\ \A i \in LinesOf(c) : i \in Nat /\ log[i].seq \in Nat /\ log[i].chain = c
<1>1. Len(log) \in Nat /\ DOMAIN log = 1 .. Len(log)
  BY LenProperties DEF IsLog
<1>2. IsFiniteSet(DOMAIN log)
  BY <1>1, FS_Interval
<1>3. LinesOf(c) \in SUBSET DOMAIN log
  BY DEF LinesOf
<1>4. IsFiniteSet(LinesOf(c))
  BY <1>2, <1>3, FS_Subset
<1> QED BY <1>1, <1>3, <1>4 DEF IsLog, IsEntry, LinesOf

\* InOrder(c) is every line of the chain, by number and then by place.
LEMMA OrderOfLines ==
    ASSUME IsLog, NEW c
    PROVE  LET n == Cardinality(LinesOf(c))
               s == InOrder(c)
           IN  /\ n \in Nat /\ DOMAIN s = 1 .. n
               /\ \A k \in 1 .. n : s[k] \in LinesOf(c)
               /\ \A i \in LinesOf(c) : \E k \in 1 .. n : s[k] = i
               /\ \A j, k \in 1 .. n : j < k =>
                     \/ log[s[j]].seq < log[s[k]].seq
                     \/ log[s[j]].seq = log[s[k]].seq /\ s[j] < s[k]
<1> DEFINE lines == LinesOf(c)
           n == Cardinality(lines)
           Before(i, j) == \/ log[i].seq < log[j].seq
                           \/ log[i].seq = log[j].seq /\ i < j
           R == {p \in lines \X lines : Before(p[1], p[2])}
           s == InOrder(c)
<1>1. IsFiniteSet(lines) /\ \A i \in lines : i \in Nat /\ log[i].seq \in Nat
  BY LogLines
<1>2. \A i, j \in lines : <<i, j>> \in R <=> Before(i, j)
  OBVIOUS
<1>3. StrictOrder(R, lines)
  <2> HIDE DEF lines, R
  <2> QED BY <1>1, <1>2 DEF StrictOrder
<1>4. \A t : Sorts(t, R, lines) <=>
              /\ t \in [1 .. n -> lines]
              /\ \A j, k \in DOMAIN t : j < k => Before(t[j], t[k])
  <2> HIDE DEF lines, R, Before
  <2> QED BY <1>2 DEF Sorts
<1>5. Sorts(s, R, lines)
  <2>1. \E t : Sorts(t, R, lines)
    <3> HIDE DEF lines, R
    <3> QED BY <1>1, <1>3, CanBeSorted
  <2>2. \E t \in [1 .. n -> lines] : \A j, k \in DOMAIN t : j < k => Before(t[j], t[k])
    <3> HIDE DEF lines, R, Before, n
    <3> QED BY <1>4, <2>1
  <2>3. s \in [1 .. n -> lines] /\ \A j, k \in DOMAIN s : j < k => Before(s[j], s[k])
    BY <2>2 DEF InOrder
  <2> HIDE DEF lines, R, Before, n, s
  <2> QED BY <1>4, <2>3
<1>6. n \in Nat /\ \A i \in lines : \E k \in 1 .. n : s[k] = i
  <2> HIDE DEF lines, R, s
  <2> QED BY <1>1, <1>3, <1>5, SortedIsComplete
<1>7. DOMAIN s = 1 .. n /\ s \in [1 .. n -> lines]
  <2> HIDE DEF lines, R, s
  <2> QED BY <1>5 DEF Sorts
<1>8. \A j, k \in 1 .. n : j < k => Before(s[j], s[k])
  <2> HIDE DEF lines, R, Before, s
  <2> QED BY <1>4, <1>5, <1>7
<1>9. \A k \in 1 .. n : s[k] \in lines
  <2> HIDE DEF lines, s
  <2> QED BY <1>7
<1> HIDE DEF s
<1> QED BY <1>6, <1>7, <1>8, <1>9 DEF s

\* The k-th line of the walk is as the line before it has the walk expect.
Fits(s, k) ==
    /\ log[s[k]].hash = ComputeHash(log[s[k]])
    /\ k = 1 => log[s[k]].seq = 0 /\ log[s[k]].prevHash = Genesis
    /\ k # 1 => /\ log[s[k]].seq = log[s[k - 1]].seq + 1
                /\ log[s[k]].prevHash = log[s[k - 1]].hash

LEMMA NoErrors ==
    ASSUME IsLog, NEW c
    PROVE  ChainErrors(c) = {} <=> \A k \in 1 .. Cardinality(LinesOf(c)) : Fits(InOrder(c), k)
<1> DEFINE n == Cardinality(LinesOf(c))
           s == InOrder(c)
           Expected(k) == IF k = 1 THEN [hash |-> Genesis, seq |-> 0] ELSE Expect(log[s[k - 1]])
<1>1. DOMAIN s = 1 .. n
  BY OrderOfLines
<1>2. ChainErrors(c) = {k \in DOMAIN s : ~ /\ SeqFits(Expected(k), log[s[k]])
                                           /\ LinkFits(Expected(k), log[s[k]])
                                           /\ HashFits(log[s[k]])}
  BY DEF ChainErrors
<1>3. \A k \in 1 .. n : Fits(s, k) <=> /\ SeqFits(Expected(k), log[s[k]])
                                       /\ LinkFits(Expected(k), log[s[k]])
                                       /\ HashFits(log[s[k]])
  BY DEF Fits, SeqFits, LinkFits, HashFits, Expect
<1> HIDE DEF s, n, Expected
<1>4. ChainErrors(c) = {} <=> \A k \in 1 .. n : Fits(s, k)
  BY <1>1, <1>2, <1>3
<1> QED BY <1>4 DEF s, n

\* In a walk without errors, and in the walk over a whole chain, the k-th line has number
\* k - 1; the first line for which that is wrong would have nothing before it.
LEMMA WalkCounts ==
    ASSUME IsLog, NEW c,
           \/ \A k \in 1 .. Cardinality(LinesOf(c)) : Fits(InOrder(c), k)
           \/ IsWhole(c)
    PROVE  \A k \in 1 .. Cardinality(LinesOf(c)) : log[InOrder(c)[k]].seq = k - 1
<1> DEFINE lines == LinesOf(c)
           n == Cardinality(lines)
           s == InOrder(c)
           Wrong == {k \in 1 .. n : log[s[k]].seq # k - 1}
<1>1. /\ n \in Nat
      /\ \A k \in 1 .. n : s[k] \in lines
      /\ \A i \in lines : \E k \in 1 .. n : s[k] = i
      /\ \A j, k \in 1 .. n : j < k => \/ log[s[j]].seq < log[s[k]].seq
                                       \/ log[s[j]].seq = log[s[k]].seq /\ s[j] < s[k]
  BY OrderOfLines
<1>2. \A i \in lines : i \in Nat /\ log[i].seq \in Nat /\ log[i].chain = c
  BY LogLines
<1>3. IsWhole(c) => \A i \in lines : InPlace(i)
  BY DEF IsWhole
<1>4. SUFFICES ASSUME Wrong # {} PROVE FALSE
  OBVIOUS
<1>5. PICK k \in Wrong : \A m \in Wrong : k <= m
  <2>1. Wrong \in SUBSET Nat
    BY <1>1
  <2> HIDE DEF Wrong
  <2> QED BY <1>4, <2>1, LeastNumber
<1>6. k \in 1 .. n /\ log[s[k]].seq # k - 1 /\ log[s[k]].seq \in Nat /\ s[k] \in lines
  BY <1>1, <1>2, <1>5
<1>7. \A m \in 1 .. n : m < k => log[s[m]].seq = m - 1
  BY <1>1, <1>5
<1>8. CASE \A m \in 1 .. n : Fits(s, m)
  <2>1. CASE k = 1
    BY <1>6, <1>8, <2>1 DEF Fits
  <2>2. CASE k # 1
    <3>1. k - 1 \in 1 .. n /\ k - 1 < k
      BY <1>1, <1>6, <2>2
    <3>2. log[s[k]].seq = log[s[k - 1]].seq + 1
      BY <1>6, <1>8, <2>2 DEF Fits
    <3> HIDE DEF s, n, lines, Wrong
    <3> QED BY <1>1, <1>6, <1>7, <3>1, <3>2
  <2> QED BY <2>1, <2>2
<1>9. CASE IsWhole(c)
  <2>1. InPlace(s[k]) /\ LinesOf(log[s[k]].chain) = lines
    BY <1>2, <1>3, <1>6, <1>9
  <2> HIDE DEF s, n, lines, Wrong
  <2>2. ASSUME NEW m \in 1 .. n, m < k PROVE log[s[m]].seq < log[s[k]].seq
    <3>1. s[m] # s[k]
      BY <1>1, <1>2, <1>6, <2>2
    <3>2. s[m] \in lines /\ log[s[m]].seq # log[s[k]].seq
      BY <1>1, <2>1, <2>2, <3>1 DEF InPlace
    <3> QED BY <1>1, <1>2, <1>6, <2>2, <3>2
  <2>3. log[s[k]].seq > k - 1
    <3>1. CASE k = 1
      BY <1>6, <3>1
    <3>2. CASE k # 1
      <4>1. k - 1 \in 1 .. n /\ k - 1 < k
        BY <1>1, <1>6, <3>2
      <4>2. log[s[k - 1]].seq = (k - 1) - 1 /\ log[s[k - 1]].seq < log[s[k]].seq
        BY <1>7, <2>2, <4>1
      <4> QED BY <1>6, <4>1, <4>2
    <3> QED BY <3>1, <3>2
  <2>4. PICK j \in lines : log[j].seq + 1 = log[s[k]].seq
    BY <1>6, <2>1, <2>3 DEF InPlace
  <2>5. PICK m \in 1 .. n : s[m] = j
    BY <1>1
  <2>6. log[s[m]].seq < log[s[k]].seq /\ log[s[m]].seq >= k - 1
    BY <1>2, <1>6, <2>3, <2>4, <2>5
  <2>7. ~(m < k) /\ m # k
    BY <1>1, <1>6, <1>7, <2>6
  <2> QED BY <1>1, <1>2, <1>6, <2>4, <2>5, <2>6, <2>7
<1> QED BY <1>8, <1>9

\* verifyChain finds no error in a chain exactly when the chain is whole, in a log of any
\* lines at all (audit.js:139-159).
LEMMA WalkIsExact ==
    ASSUME IsLog, NEW c
    PROVE  ChainErrors(c) = {} <=> IsWhole(c)
<1> DEFINE lines == LinesOf(c)
           n == Cardinality(lines)
           s == InOrder(c)
           AllFit == \A k \in 1 .. n : Fits(s, k)
<1>1. /\ n \in Nat
      /\ \A k \in 1 .. n : s[k] \in lines
      /\ \A i \in lines : \E k \in 1 .. n : s[k] = i
  BY OrderOfLines
<1>2. \A i \in lines : i \in Nat /\ log[i].seq \in Nat /\ LinesOf(log[i].chain) = lines
  BY LogLines
<1>3. ChainErrors(c) = {} <=> AllFit
  BY NoErrors
<1>4. AllFit \/ IsWhole(c) => \A k \in 1 .. n : log[s[k]].seq = k - 1
  BY WalkCounts
<1>5. IsWhole(c) <=> \A i \in lines : InPlace(i) /\ log[i].hash = ComputeHash(log[i])
  BY DEF IsWhole
<1> HIDE DEF lines, n, s
<1>6. ASSUME AllFit, NEW i \in lines PROVE InPlace(i) /\ log[i].hash = ComputeHash(log[i])
  <2>1. PICK k \in 1 .. n : s[k] = i
    BY <1>1
  <2>2. Fits(s, k) /\ log[i].seq = k - 1
    BY <1>4, <1>6, <2>1
  <2>3. ASSUME NEW j \in lines, log[j].seq = log[i].seq PROVE j = i
    <3>1. PICK m \in 1 .. n : s[m] = j
      BY <1>1
    <3>2. log[j].seq = m - 1
      BY <1>4, <1>6, <3>1
    <3> QED BY <1>1, <2>1, <2>2, <2>3, <3>1, <3>2
  <2>4. ASSUME log[i].seq # 0
        PROVE  \E j \in lines : log[j].seq + 1 = log[i].seq /\ log[i].prevHash = log[j].hash
    <3>1. k # 1 /\ k - 1 \in 1 .. n
      BY <1>1, <2>2, <2>4
    <3>2. s[k - 1] \in lines /\ log[s[k - 1]].seq = (k - 1) - 1
      BY <1>1, <1>4, <1>6, <3>1
    <3>3. log[i].prevHash = log[s[k - 1]].hash
      BY <2>1, <2>2, <3>1 DEF Fits
    <3>4. log[s[k - 1]].seq + 1 = log[i].seq
      BY <1>1, <2>2, <3>1, <3>2
    <3> QED BY <3>2, <3>3, <3>4
  <2>5. log[i].seq = 0 => log[i].prevHash = Genesis
    BY <1>1, <2>1, <2>2 DEF Fits
  <2>6. InPlace(i)
    BY <1>2, <2>3, <2>4, <2>5 DEF InPlace
  <2> QED BY <2>1, <2>2, <2>6 DEF Fits
<1>7. ASSUME IsWhole(c), NEW k \in 1 .. n PROVE Fits(s, k)
  <2> DEFINE i == s[k]
  <2>1. i \in lines /\ log[i].seq = k - 1 /\ InPlace(i) /\ log[i].hash = ComputeHash(log[i])
    BY <1>1, <1>4, <1>5, <1>7
  <2>2. CASE k = 1
    BY <1>2, <2>1, <2>2 DEF Fits, InPlace
  <2>3. CASE k # 1
    <3>1. PICK j \in lines : log[j].seq + 1 = log[i].seq /\ log[i].prevHash = log[j].hash
      BY <1>1, <1>2, <2>1, <2>3 DEF InPlace
    <3>2. PICK m \in 1 .. n : s[m] = j
      BY <1>1
    <3>3. log[j].seq = m - 1 /\ log[j].seq \in Nat
      BY <1>2, <1>4, <1>7, <3>2
    <3>4. m = k - 1
      BY <1>1, <2>1, <3>1, <3>3
    <3>5. log[i].seq = log[s[k - 1]].seq + 1 /\ log[i].prevHash = log[s[k - 1]].hash
      BY <3>1, <3>2, <3>4
    <3> QED BY <2>1, <2>3, <3>5 DEF Fits
  <2> QED BY <2>2, <2>3
<1> QED BY <1>3, <1>5, <1>6, <1>7

\* The walk accepts a log exactly when every chain in it is whole.
LEMMA LogIsExact ==
    ASSUME IsLog
    PROVE  VerifierIsExact
BY WalkIsExact DEF VerifierIsExact, VerifyOk

-----------------------------------------------------------------------------
(* The logs that processes write *)

\* A line says what its record said when it was hashed, but for the way it spells the
\* lack of a user agent.
AsWritten(i) ==
    \E a \in Agents : /\ log[i].agent = ToLine(a)
                      /\ log[i].hash = <<log[i].chain, log[i].seq, log[i].body, Canonical(a),
                                         log[i].prevHash>>

\* A process knows where its chain ends: no line of it has the next number, and lastHash
\* is the hash of the last line.
KnowsItsEnd(p) ==
    LET lines == LinesOf(chainId[p])
    IN  /\ \A i \in lines : log[i].seq < seq[p]
        /\ IF seq[p] = 0
           THEN lastHash[p] = Genesis
           ELSE \E i \in lines : log[i].seq + 1 = seq[p] /\ log[i].hash = lastHash[p]

\* While nothing has befallen the log: every chain was given to one process.
Writing ==
    /\ \A p \in Processes : chainId[p] # 0 => KnowsItsEnd(p)
    /\ \A p, q \in Processes : p # q /\ chainId[p] = chainId[q] => chainId[p] = 0
    /\ \A p \in Processes : chainId[p] <= boots
    /\ \A i \in DOMAIN log : log[i].chain \in 1 .. boots

AuditTypes ==
    /\ IsLog
    /\ chainId \in [Processes -> Nat] /\ seq \in [Processes -> Nat]
    /\ lastHash = [p \in Processes |-> lastHash[p]]
    /\ boots \in Nat
    /\ damage \in DamageKinds \cup {"none"}

Untouched == \A i \in DOMAIN log : InPlace(i) /\ AsWritten(i)

\* A log that lost at most its end, or whose lines moved, is untouched; after any other
\* change some chain is not whole.
AuditInv ==
    /\ AuditTypes
    /\ damage = "none" => Writing
    /\ damage \in {"none", "move", "truncate"} => Untouched
    /\ damage \in {"edit", "lose", "duplicate"} => \E c \in Chains : ~IsWhole(c)

-----------------------------------------------------------------------------
(* What becomes of the lines when a line is written, lost, inserted, edited or moved *)

LEMMA OwnValues ==
    ASSUME NEW S, NEW s \in Seq(S)
    PROVE  s \in Seq({s[i] : i \in DOMAIN s})
<1> DEFINE T == {s[i] : i \in DOMAIN s}
<1>1. Len(s) \in Nat /\ s \in [1 .. Len(s) -> S]
  BY LenProperties
<1>2. s \in [1 .. Len(s) -> T]
  BY <1>1
<1>3. \E n \in Nat : s \in [1 .. n -> T]
  BY <1>1, <1>2
<1>4. Seq(T) = UNION {[1 .. n -> T] : n \in Nat}
  BY SeqDef
<1> HIDE DEF T
<1>5. s \in Seq(T)
  BY <1>3, <1>4
<1> QED BY <1>5 DEF T

LEMMA StaysLog ==
    ASSUME NEW S, log' \in Seq(S), \A i \in DOMAIN log' : IsEntry(log'[i])
    PROVE  IsLog'
BY OwnValues DEF IsLog

LEMMA LogOfEntries ==
    ASSUME IsLog
    PROVE  /\ Len(log) \in Nat /\ DOMAIN log = 1 .. Len(log)
           /\ \A i \in DOMAIN log : IsEntry(log[i])
BY LenProperties DEF IsLog

LEMMA Written ==
    ASSUME IsLog, NEW r, IsEntry(r), log' = Append(log, r)
    PROVE  /\ IsLog'
           /\ Len(log') = Len(log) + 1 /\ DOMAIN log' = 1 .. Len(log) + 1
           /\ log'[Len(log) + 1] = r
           /\ \A i \in DOMAIN log : log'[i] = log[i]
<1> DEFINE S == {log[i] : i \in DOMAIN log} \cup {r}
<1>1. log \in Seq(S)
  BY SeqMonotonic DEF IsLog
<1> HIDE DEF S
<1>2. r \in S
  BY DEF S
<1>3. Len(log) \in Nat /\ DOMAIN log = 1 .. Len(log) /\ \A i \in DOMAIN log : IsEntry(log[i])
  BY LogOfEntries
<1>4. /\ log' \in Seq(S) /\ Len(log') = Len(log) + 1
      /\ \A i \in 1 .. Len(log) : log'[i] = log[i]
      /\ log'[Len(log) + 1] = r
  BY <1>1, <1>2, AppendProperties
<1>5. DOMAIN log' = 1 .. Len(log) + 1
  BY <1>4, LenProperties
<1>6. \A i \in DOMAIN log' : IsEntry(log'[i])
  BY <1>3, <1>4, <1>5
<1> QED BY <1>3, <1>4, <1>5, <1>6, StaysLog

LEMMA Removed ==
    ASSUME IsLog, NEW i \in DOMAIN log, log' = RemoveAt(log, i)
    PROVE  /\ IsLog'
           /\ DOMAIN log' = 1 .. Len(log) - 1
           /\ \A k \in DOMAIN log' : log'[k] = IF k < i THEN log[k] ELSE log[k + 1]
<1> DEFINE S == {log[k] : k \in DOMAIN log}
           s1 == SubSeq(log, 1, i - 1)
           s2 == SubSeq(log, i + 1, Len(log))
<1>1. Len(log) \in Nat /\ DOMAIN log = 1 .. Len(log) /\ \A k \in DOMAIN log : IsEntry(log[k])
  BY LogOfEntries
<1>2. \A k \in 1 .. Len(log) : log[k] \in S
  BY <1>1
<1> HIDE DEF S
<1>3. i \in 1 .. Len(log) /\ i \in Int /\ i - 1 \in Int /\ i + 1 \in Int /\ Len(log) \in Int
  BY <1>1
<1>4. /\ s1 \in Seq(S) /\ Len(s1) = i - 1
      /\ \A k \in 1 .. i - 1 : s1[k] = log[k]
  <2>1. \A k \in 1 .. i - 1 : log[k] \in S
    BY <1>2, <1>3
  <2>2. /\ s1 \in Seq(S) /\ Len(s1) = IF 1 <= i - 1 THEN (i - 1) - 1 + 1 ELSE 0
        /\ \A k \in 1 .. (i - 1) - 1 + 1 : s1[k] = log[1 + k - 1]
    BY <1>3, <2>1, SubSeqProperties
  <2> QED BY <1>3, <2>2
<1>5. /\ s2 \in Seq(S) /\ Len(s2) = Len(log) - i
      /\ \A k \in 1 .. Len(log) - i : s2[k] = log[k + i]
  <2>1. \A k \in i + 1 .. Len(log) : log[k] \in S
    BY <1>2, <1>3
  <2>2. /\ s2 \in Seq(S) /\ Len(s2) = IF i + 1 <= Len(log) THEN Len(log) - (i + 1) + 1 ELSE 0
        /\ \A k \in 1 .. Len(log) - (i + 1) + 1 : s2[k] = log[(i + 1) + k - 1]
    BY <1>3, <2>1, SubSeqProperties
  <2> QED BY <1>3, <2>2
<1> HIDE DEF s1, s2
<1>6. /\ log' \in Seq(S) /\ Len(log') = Len(s1) + Len(s2)
      /\ \A k \in 1 .. Len(s1) + Len(s2) : log'[k] = IF k <= Len(s1) THEN s1[k] ELSE s2[k - Len(s1)]
  BY <1>4, <1>5, ConcatProperties DEF RemoveAt, s1, s2
<1>7. DOMAIN log' = 1 .. Len(log) - 1
  BY <1>3, <1>4, <1>5, <1>6, LenProperties
<1>8. ASSUME NEW k \in DOMAIN log'
      PROVE  /\ log'[k] = IF k < i THEN log[k] ELSE log[k + 1]
             /\ k < i => k \in DOMAIN log
             /\ ~(k < i) => k + 1 \in DOMAIN log
  <2>1. CASE k < i
    BY <1>1, <1>3, <1>4, <1>5, <1>6, <1>7, <1>8, <2>1
  <2>2. CASE ~(k < i)
    <3>1. k - (i - 1) \in 1 .. Len(log) - i /\ k + 1 \in 1 .. Len(log) /\ ~(k <= i - 1)
      BY <1>3, <1>7, <1>8, <2>2
    <3>2. Len(s1) = i - 1 /\ k \in 1 .. Len(s1) + Len(s2) /\ ~(k <= Len(s1))
      <4>1. Len(s1) = i - 1 /\ Len(s2) = Len(log) - i
        BY <1>4, <1>5
      <4> QED BY <1>3, <1>7, <1>8, <3>1, <4>1
    <3>3. log'[k] = s2[k - (i - 1)]
      <4>1. log'[k] = s2[k - Len(s1)]
        BY <1>6, <3>2
      <4> QED BY <3>2, <4>1
    <3>4. s2[k - (i - 1)] = log[(k - (i - 1)) + i]
      BY <1>5, <3>1
    <3>5. (k - (i - 1)) + i = k + 1
      BY <1>3, <1>7, <1>8
    <3>6. log'[k] = log[k + 1]
      BY <3>3, <3>4, <3>5
    <3> QED BY <1>1, <2>2, <3>1, <3>6
  <2> QED BY <2>1, <2>2
<1>9. \A k \in DOMAIN log' : IsEntry(log'[k])
  BY <1>1, <1>8
<1> QED BY <1>6, <1>7, <1>8, <1>9, StaysLog

LEMMA Inserted ==
    ASSUME IsLog, NEW i \in DOMAIN log, NEW j \in DOMAIN log, log' = InsertAt(log, i, log[j])
    PROVE  /\ IsLog'
           /\ DOMAIN log' = 1 .. Len(log) + 1
           /\ \A k \in DOMAIN log' : /\ k < i => log'[k] = log[k]
                                     /\ k = i => log'[k] = log[j]
                                     /\ k > i => log'[k] = log[k - 1]
<1> DEFINE S == {log[k] : k \in DOMAIN log}
           s1 == SubSeq(log, 1, i - 1)
           s2 == <<log[j]>>
           s3 == SubSeq(log, i, Len(log))
           s12 == s1 \o s2
<1>1. Len(log) \in Nat /\ DOMAIN log = 1 .. Len(log) /\ \A k \in DOMAIN log : IsEntry(log[k])
  BY LogOfEntries
<1>2. \A k \in 1 .. Len(log) : log[k] \in S
  BY <1>1
<1> HIDE DEF S
<1>3. i \in 1 .. Len(log) /\ i \in Int /\ i - 1 \in Int /\ Len(log) \in Int /\ j \in 1 .. Len(log)
  BY <1>1
<1>4. /\ s1 \in Seq(S) /\ Len(s1) = i - 1
      /\ \A k \in 1 .. i - 1 : s1[k] = log[k]
  <2>1. \A k \in 1 .. i - 1 : log[k] \in S
    BY <1>2, <1>3
  <2>2. /\ s1 \in Seq(S) /\ Len(s1) = IF 1 <= i - 1 THEN (i - 1) - 1 + 1 ELSE 0
        /\ \A k \in 1 .. (i - 1) - 1 + 1 : s1[k] = log[1 + k - 1]
    BY <1>3, <2>1, SubSeqProperties
  <2> QED BY <1>3, <2>2
<1>5. /\ s3 \in Seq(S) /\ Len(s3) = Len(log) - i + 1
      /\ \A k \in 1 .. Len(log) - i + 1 : s3[k] = log[k + i - 1]
  <2>1. \A k \in i .. Len(log) : log[k] \in S
    BY <1>2, <1>3
  <2>2. /\ s3 \in Seq(S) /\ Len(s3) = IF i <= Len(log) THEN Len(log) - i + 1 ELSE 0
        /\ \A k \in 1 .. Len(log) - i + 1 : s3[k] = log[i + k - 1]
    BY <1>3, <2>1, SubSeqProperties
  <2> QED BY <1>3, <2>2
<1>6. s2 \in Seq(S) /\ Len(s2) = 1 /\ s2[1] = log[j]
  BY <1>2, <1>3
<1>7. log' = s12 \o s3
  BY DEF InsertAt
<1> HIDE DEF s1, s2, s3
<1>8. /\ s12 \in Seq(S) /\ Len(s12) = i
      /\ \A k \in 1 .. i : s12[k] = IF k <= i - 1 THEN s1[k] ELSE s2[k - (i - 1)]
  <2>1. /\ s12 \in Seq(S) /\ Len(s12) = Len(s1) + Len(s2)
        /\ \A k \in 1 .. Len(s1) + Len(s2) : s12[k] = IF k <= Len(s1) THEN s1[k] ELSE s2[k - Len(s1)]
    BY <1>4, <1>6, ConcatProperties
  <2>2. Len(s1) + Len(s2) = i
    BY <1>3, <1>4, <1>6
  <2> HIDE DEF s12
  <2> QED BY <1>4, <2>1, <2>2
<1> HIDE DEF s12
<1>9. \A k \in 1 .. i : s12[k] = IF k < i THEN log[k] ELSE log[j]
  BY <1>3, <1>4, <1>6, <1>8
<1>10. /\ log' \in Seq(S) /\ Len(log') = Len(log) + 1
       /\ \A k \in 1 .. Len(log) + 1 : log'[k] = IF k <= i THEN s12[k] ELSE s3[k - i]
  <2>1. /\ log' \in Seq(S) /\ Len(log') = Len(s12) + Len(s3)
        /\ \A k \in 1 .. Len(s12) + Len(s3) : log'[k] = IF k <= Len(s12) THEN s12[k] ELSE s3[k - Len(s12)]
    <3>1. s12 \in Seq(S) /\ s3 \in Seq(S)
      BY <1>5, <1>8
    <3> QED BY <1>7, <3>1, ConcatProperties
  <2>2. Len(s12) = i /\ Len(s12) + Len(s3) = Len(log) + 1
    <3>1. Len(s12) = i /\ Len(s3) = Len(log) - i + 1
      BY <1>5, <1>8
    <3> QED BY <1>3, <3>1
  <2> QED BY <2>1, <2>2
<1>11. DOMAIN log' = 1 .. Len(log) + 1
  BY <1>10, LenProperties
<1>12. ASSUME NEW k \in DOMAIN log'
       PROVE  /\ k < i => log'[k] = log[k] /\ k \in DOMAIN log
              /\ k = i => log'[k] = log[j]
              /\ k > i => log'[k] = log[k - 1] /\ k - 1 \in DOMAIN log
  <2>1. CASE k <= i
    <3>1. k \in 1 .. i /\ k \in 1 .. Len(log)
      BY <1>3, <1>11, <2>1
    <3>2. log'[k] = s12[k]
      BY <1>10, <1>11, <2>1
    <3> QED BY <1>1, <1>3, <1>9, <2>1, <3>1, <3>2
  <2>2. CASE ~(k <= i)
    <3>1. k - i \in 1 .. Len(log) - i + 1 /\ k - 1 \in 1 .. Len(log) /\ k > i /\ ~(k < i) /\ k # i
      BY <1>3, <1>11, <2>2
    <3>2. log'[k] = s3[k - i]
      BY <1>10, <1>11, <2>2
    <3>3. s3[k - i] = log[(k - i) + i - 1]
      BY <1>5, <3>1
    <3>4. (k - i) + i - 1 = k - 1
      BY <1>3, <1>11
    <3> QED BY <1>1, <3>1, <3>2, <3>3, <3>4
  <2> QED BY <2>1, <2>2
<1>13. \A k \in DOMAIN log' : IsEntry(log'[k])
  <2>1. \A k \in DOMAIN log' : k < i \/ k = i \/ k > i
    BY <1>3, <1>11
  <2> QED BY <1>1, <1>12, <2>1
<1> QED BY <1>10, <1>11, <1>12, <1>13, StaysLog

LEMMA Edited ==
    ASSUME IsLog, NEW i \in DOMAIN log, NEW e, IsEntry(e), log' = [log EXCEPT ![i] = e]
    PROVE  /\ IsLog' /\ DOMAIN log' = DOMAIN log
           /\ log'[i] = e
           /\ \A k \in DOMAIN log : k # i => log'[k] = log[k]
<1> DEFINE S == {log[k] : k \in DOMAIN log} \cup {e}
<1>1. Len(log) \in Nat /\ DOMAIN log = 1 .. Len(log) /\ \A k \in DOMAIN log : IsEntry(log[k])
  BY LogOfEntries
<1>2. log \in Seq(S)
  BY SeqMonotonic DEF IsLog
<1>3. e \in S
  OBVIOUS
<1> HIDE DEF S
<1>4. /\ log' \in Seq(S) /\ Len(log') = Len(log)
      /\ \A k \in 1 .. Len(log) : log'[k] = IF k = i THEN e ELSE log[k]
  BY <1>1, <1>2, <1>3, ExceptSeq
<1>5. DOMAIN log' = DOMAIN log
  BY <1>1, <1>4, LenProperties
<1>6. \A k \in DOMAIN log' : IsEntry(log'[k])
  BY <1>1, <1>4, <1>5
<1>7. IsLog'
  BY <1>4, <1>6, StaysLog
<1> QED BY <1>1, <1>4, <1>5, <1>7

\* A swap takes every line to one place, and back.
LEMMA Swapped ==
    ASSUME IsLog, NEW i \in DOMAIN log, NEW j \in DOMAIN log, i # j,
           log' = [log EXCEPT ![i] = log[j], ![j] = log[i]]
    PROVE  LET to(k) == IF k = i THEN j ELSE IF k = j THEN i ELSE k
           IN  /\ IsLog' /\ DOMAIN log' = DOMAIN log
               /\ \A k \in DOMAIN log : to(k) \in DOMAIN log /\ log'[k] = log[to(k)]
<1> DEFINE S == {log[k] : k \in DOMAIN log}
           l1 == [log EXCEPT ![i] = log[j]]
           to(k) == IF k = i THEN j ELSE IF k = j THEN i ELSE k
<1>1. Len(log) \in Nat /\ DOMAIN log = 1 .. Len(log) /\ \A k \in DOMAIN log : IsEntry(log[k])
  BY LogOfEntries
<1>2. log \in Seq(S) /\ log[i] \in S /\ log[j] \in S
  BY DEF IsLog
<1>3. log' = [l1 EXCEPT ![j] = log[i]]
  OBVIOUS
<1> HIDE DEF S
<1>4. /\ l1 \in Seq(S) /\ Len(l1) = Len(log)
      /\ \A k \in 1 .. Len(log) : l1[k] = IF k = i THEN log[j] ELSE log[k]
  BY <1>1, <1>2, ExceptSeq
<1> HIDE DEF l1
<1>5. /\ log' \in Seq(S) /\ Len(log') = Len(l1)
      /\ \A k \in 1 .. Len(l1) : log'[k] = IF k = j THEN log[i] ELSE l1[k]
  BY <1>1, <1>2, <1>3, <1>4, ExceptSeq
<1>6. DOMAIN log' = DOMAIN log
  BY <1>1, <1>4, <1>5, LenProperties
<1>7. \A k \in DOMAIN log : to(k) \in DOMAIN log /\ log'[k] = log[to(k)]
  BY <1>1, <1>4, <1>5
<1> HIDE DEF to
<1>8. \A k \in DOMAIN log' : IsEntry(log'[k])
  BY <1>1, <1>6, <1>7
<1>9. IsLog'
  BY <1>5, <1>8, StaysLog
<1> QED BY <1>6, <1>7, <1>9 DEF to

-----------------------------------------------------------------------------
(* The processes *)

\* A start begins a chain nobody has.
LEMMA StepBoot ==
    ASSUME AuditInv, NEW p \in Processes, Boot(p)
    PROVE  AuditInv'
<1>1. /\ AuditTypes /\ Writing /\ Untouched /\ damage = "none"
      /\ damage' = damage /\ log' = log /\ boots' = boots + 1
      /\ chainId' = [chainId EXCEPT ![p] = boots + 1]
      /\ seq' = [seq EXCEPT ![p] = 0] /\ lastHash' = [lastHash EXCEPT ![p] = Genesis]
  BY DEF AuditInv, Boot
<1>2. AuditTypes'
  <2>1. IsLog'
    BY <1>1 DEF AuditTypes, IsLog
  <2>2. boots + 1 \in Nat
    BY <1>1 DEF AuditTypes
  <2>3. chainId' \in [Processes -> Nat] /\ seq' \in [Processes -> Nat]
    BY <1>1, <2>2 DEF AuditTypes
  <2>4. lastHash' = [q \in Processes |-> lastHash'[q]]
    BY <1>1 DEF AuditTypes
  <2> QED BY <1>1, <2>1, <2>2, <2>3, <2>4 DEF AuditTypes
<1>3. Untouched'
  BY <1>1 DEF Untouched, InPlace, AsWritten, LinesOf
<1>4. /\ \A q \in Processes : chainId[q] \in Nat /\ chainId[q] <= boots
      /\ boots \in Nat /\ \A i \in DOMAIN log : log[i].chain \in 1 .. boots
  BY <1>1 DEF Writing, AuditTypes
<1>5. ASSUME NEW q \in Processes, chainId'[q] # 0 PROVE KnowsItsEnd(q)'
  <2>1. CASE q = p
    <3>1. chainId'[q] = boots + 1 /\ seq'[q] = 0 /\ lastHash'[q] = Genesis
      BY <1>1, <2>1 DEF AuditTypes
    <3> QED BY <1>1, <1>4, <3>1 DEF KnowsItsEnd, LinesOf
  <2>2. CASE q # p
    <3>1. chainId'[q] = chainId[q] /\ seq'[q] = seq[q] /\ lastHash'[q] = lastHash[q]
      BY <1>1, <2>2 DEF AuditTypes
    <3>2. KnowsItsEnd(q)
      BY <1>1, <1>5, <3>1 DEF Writing
    <3> QED BY <1>1, <3>1, <3>2 DEF KnowsItsEnd, LinesOf
  <2> QED BY <2>1, <2>2
<1>6. \A q, r \in Processes : q # r /\ chainId'[q] = chainId'[r] => chainId'[q] = 0
  <2>1. \A q \in Processes : chainId'[q] = IF q = p THEN boots + 1 ELSE chainId[q]
    BY <1>1 DEF AuditTypes
  <2> QED BY <1>1, <1>4, <2>1 DEF Writing
<1>7. /\ \A q \in Processes : chainId'[q] <= boots'
      /\ \A i \in DOMAIN log' : log'[i].chain \in 1 .. boots'
  BY <1>1, <1>4 DEF AuditTypes
<1>8. Writing'
  BY <1>5, <1>6, <1>7 DEF Writing
<1> QED BY <1>1, <1>2, <1>3, <1>8 DEF AuditInv

\* A record goes to the end of its chain: its number is free, and the line it commits to
\* is the last one.
LEMMA StepAudit ==
    ASSUME AuditInv, NEW p \in Processes, NEW b \in Bodies, NEW a \in Agents, Audit(p, b, a)
    PROVE  AuditInv'
<1> PICK c, n : c = chainId[p] /\ n = Len(log) + 1
  OBVIOUS
<1> DEFINE r == Record(c, seq[p], b, a, lastHash[p])
           e == Line(r)
<1>1. /\ AuditTypes /\ Writing /\ Untouched /\ damage = "none" /\ KnowsItsEnd(p)
      /\ c = chainId[p] /\ n = Len(log) + 1 /\ c # 0 /\ c \in Nat /\ seq[p] \in Nat /\ c <= boots /\ boots \in Nat
      /\ damage' = damage /\ log' = Append(log, e) /\ boots' = boots
      /\ chainId' = chainId
      /\ seq' = [seq EXCEPT ![p] = @ + 1] /\ lastHash' = [lastHash EXCEPT ![p] = NextHash(p, r)]
  BY DEF AuditInv, Audit, Writing, AuditTypes
<1>2. /\ e.chain = c /\ e.seq = seq[p] /\ e.body = b /\ e.agent = ToLine(a)
      /\ e.prevHash = lastHash[p] /\ e.hash = NextHash(p, r)
      /\ e.hash = <<c, seq[p], b, Canonical(a), lastHash[p]>>
  BY DEF Line, Record, ComputeHash, NextHash
<1>3. IsEntry(e)
  BY <1>1, <1>2 DEF IsEntry, Line
<1> HIDE DEF r, e
<1>4. /\ IsLog' /\ DOMAIN log' = 1 .. n /\ log'[n] = e
      /\ \A i \in DOMAIN log : log'[i] = log[i]
      /\ Len(log) \in Nat /\ DOMAIN log = 1 .. Len(log)
  BY <1>1, <1>3, Written, LogOfEntries DEF AuditTypes
<1>5. DOMAIN log' = DOMAIN log \cup {n} /\ n \notin DOMAIN log
  BY <1>4
<1>6. AuditTypes'
  <2>1. seq[p] + 1 \in Nat /\ DOMAIN seq = Processes
    BY <1>1 DEF AuditTypes
  <2>2. seq' \in [Processes -> Nat]
    BY <1>1, <2>1 DEF AuditTypes
  <2>3. lastHash' = [q \in Processes |-> lastHash'[q]]
    BY <1>1 DEF AuditTypes
  <2> QED BY <1>1, <1>4, <2>2, <2>3 DEF AuditTypes
<1>7. /\ \A d : d # c => LinesOf(d)' = LinesOf(d)
      /\ LinesOf(c)' = LinesOf(c) \cup {n}
  <2>1. log'[n].chain = c /\ \A i \in DOMAIN log : log'[i].chain = log[i].chain
    BY <1>2, <1>4
  <2> QED BY <1>5, <2>1 DEF LinesOf
<1>8. \A i \in LinesOf(c) : i \in DOMAIN log /\ log[i].seq < seq[p] /\ log[i].seq \in Nat
  BY <1>1, LogLines DEF KnowsItsEnd, AuditTypes
<1>9. ASSUME NEW i \in DOMAIN log PROVE InPlace(i)' /\ AsWritten(i)'
  <2>1. InPlace(i) /\ AsWritten(i) /\ log'[i] = log[i]
    BY <1>1, <1>4 DEF Untouched
  <2>2. AsWritten(i)'
    BY <2>1 DEF AsWritten
  <2>3. ASSUME NEW j \in LinesOf(log[i].chain)', log'[j].seq = log'[i].seq PROVE j = i
    <3>1. CASE j \in LinesOf(log[i].chain)
      BY <1>4, <2>1, <2>3, <3>1 DEF InPlace, LinesOf
    <3>2. CASE j = n /\ log[i].chain = c
      <4>1. i \in LinesOf(c)
        BY <3>2 DEF LinesOf
      <4> QED BY <1>2, <1>4, <1>8, <2>1, <2>3, <3>2, <4>1
    <3> QED BY <1>7, <2>1, <2>3, <3>1, <3>2
  <2>4. ASSUME log[i].seq # 0
        PROVE  \E j \in LinesOf(log[i].chain)' : /\ log'[j].seq + 1 = log[i].seq
                                                 /\ log[i].prevHash = log'[j].hash
    <3>1. PICK j \in LinesOf(log[i].chain) : log[j].seq + 1 = log[i].seq /\ log[i].prevHash = log[j].hash
      BY <2>1, <2>4 DEF InPlace
    <3>2. j \in LinesOf(log[i].chain)' /\ log'[j] = log[j]
      BY <1>4, <1>5, <2>1 DEF LinesOf
    <3> QED BY <3>1, <3>2
  <2>5. InPlace(i)'
    BY <2>1, <2>3, <2>4 DEF InPlace
  <2> QED BY <2>2, <2>5
<1>10. InPlace(n)' /\ AsWritten(n)'
  <2>1. AsWritten(n)'
    BY <1>2, <1>4 DEF AsWritten
  <2>2. \A j \in LinesOf(c)' : log'[j].seq = seq[p] => j = n
    BY <1>4, <1>7, <1>8
  <2>3. ASSUME seq[p] # 0
        PROVE  \E j \in LinesOf(c)' : log'[j].seq + 1 = seq[p] /\ lastHash[p] = log'[j].hash
    <3>1. PICK j \in LinesOf(c) : log[j].seq + 1 = seq[p] /\ log[j].hash = lastHash[p]
      BY <1>1, <2>3 DEF KnowsItsEnd
    <3>2. j \in LinesOf(c)' /\ log'[j] = log[j]
      BY <1>4, <1>7, <1>8
    <3> QED BY <3>1, <3>2
  <2>4. seq[p] = 0 => lastHash[p] = Genesis
    BY <1>1 DEF KnowsItsEnd
  <2>5. log'[n].chain = c /\ log'[n].seq = seq[p] /\ log'[n].prevHash = lastHash[p]
    BY <1>2, <1>4
  <2>6. InPlace(n)'
    BY <2>2, <2>3, <2>4, <2>5 DEF InPlace
  <2> QED BY <2>1, <2>6
<1>11. Untouched'
  BY <1>5, <1>9, <1>10 DEF Untouched
<1>12. ASSUME NEW q \in Processes, chainId[q] # 0 PROVE KnowsItsEnd(q)'
  <2>1. CASE q = p
    <3>1. seq'[q] = seq[p] + 1 /\ lastHash'[q] = NextHash(p, r) /\ chainId'[q] = c
      BY <1>1, <2>1 DEF AuditTypes
    <3>2. \A i \in LinesOf(c)' : log'[i].seq < seq[p] + 1
      BY <1>1, <1>2, <1>4, <1>7, <1>8
    <3>3. n \in LinesOf(c)' /\ log'[n].seq + 1 = seq[p] + 1 /\ log'[n].hash = NextHash(p, r)
      BY <1>2, <1>4, <1>7
    <3>4. seq[p] + 1 # 0
      BY <1>1
    <3> QED BY <3>1, <3>2, <3>3, <3>4 DEF KnowsItsEnd
  <2>2. CASE q # p
    <3>1. /\ seq'[q] = seq[q] /\ lastHash'[q] = lastHash[q] /\ chainId'[q] = chainId[q]
          /\ chainId[q] # c /\ KnowsItsEnd(q)
      BY <1>1, <1>12, <2>2 DEF AuditTypes, Writing
    <3>2. LinesOf(chainId[q])' = LinesOf(chainId[q]) /\ \A i \in LinesOf(chainId[q]) : log'[i] = log[i]
      BY <1>1, <1>4, <1>7, <3>1 DEF LinesOf
    <3> QED BY <3>1, <3>2 DEF KnowsItsEnd
  <2> QED BY <2>1, <2>2
<1>13. \A i \in DOMAIN log' : log'[i].chain \in 1 .. boots'
  BY <1>1, <1>2, <1>4, <1>5 DEF Writing
<1>14. Writing'
  BY <1>1, <1>12, <1>13 DEF Writing
<1> QED BY <1>1, <1>6, <1>11, <1>14 DEF AuditInv

-----------------------------------------------------------------------------
(* What befalls the log *)

LEMMA StepTypes ==
    ASSUME AuditTypes, NEW what \in DamageKinds, damage' = what, UNCHANGED chainVars, IsLog'
    PROVE  AuditTypes'
BY DEF AuditTypes, chainVars

LEMMA NotWhole ==
    ASSUME NEW i, i \in DOMAIN log', ~InPlace(i)' \/ log'[i].hash # ComputeHash(log'[i])
    PROVE  (\E c \in Chains : ~IsWhole(c))'
<1> PICK d : d = log'[i].chain
  OBVIOUS
<1>1. i \in LinesOf(d)' /\ d \in Chains'
  BY DEF LinesOf, Chains
<1>2. ~IsWhole(d)'
  BY <1>1 DEF IsWhole
<1> QED BY <1>1, <1>2

\* What an edit leaves of a line; a change of two fields at once is not considered.
LEMMA EditedFields ==
    ASSUME AuditTypes, NEW r, IsEntry(r), NEW e \in Edits(r) \ {r}
    PROVE  /\ IsEntry(e) /\ e.agent = r.agent
           /\ \/ /\ e.hash = r.hash
                 /\ e.chain # r.chain \/ e.seq # r.seq \/ e.body # r.body \/ e.prevHash # r.prevHash
              \/ /\ e.hash # r.hash /\ e.hash \in Hashes
                 /\ e.chain = r.chain /\ e.seq = r.seq
<1> USE DEF IsEntry
<1>1. ASSUME NEW b \in Bodies, e = [r EXCEPT !.body = b]
      PROVE  IsEntry(e) /\ e.agent = r.agent /\ e.hash = r.hash /\ e.body # r.body
  BY <1>1
<1>2. ASSUME NEW c \in 0 .. MaxBoots, e = [r EXCEPT !.chain = c]
      PROVE  IsEntry(e) /\ e.agent = r.agent /\ e.hash = r.hash /\ e.chain # r.chain
  BY <1>2, AuditAssumption
<1>3. ASSUME NEW n \in 0 .. MaxRecords, e = [r EXCEPT !.seq = n]
      PROVE  IsEntry(e) /\ e.agent = r.agent /\ e.hash = r.hash /\ e.seq # r.seq
  BY <1>3, AuditAssumption
<1>4. ASSUME NEW h \in Hashes, e = [r EXCEPT !.prevHash = h]
      PROVE  IsEntry(e) /\ e.agent = r.agent /\ e.hash = r.hash /\ e.prevHash # r.prevHash
  BY <1>4
<1>5. ASSUME NEW h \in Hashes, e = [r EXCEPT !.hash = h]
      PROVE  /\ IsEntry(e) /\ e.agent = r.agent /\ e.hash # r.hash /\ e.hash \in Hashes
             /\ e.chain = r.chain /\ e.seq = r.seq
  BY <1>5
<1>6. \/ \E b \in Bodies : e = [r EXCEPT !.body = b]
      \/ \E c \in 0 .. MaxBoots : e = [r EXCEPT !.chain = c]
      \/ \E n \in 0 .. MaxRecords : e = [r EXCEPT !.seq = n]
      \/ \E h \in Hashes : e = [r EXCEPT !.prevHash = h]
      \/ \E h \in Hashes : e = [r EXCEPT !.hash = h]
  BY Zenon DEF Edits
<1> HIDE DEF IsEntry
<1> QED BY <1>1, <1>2, <1>3, <1>4, <1>5, <1>6

\* An edited line is not what was hashed: a hash commits to the other fields, and to the
\* chain and the number, which no other line of the log has.
LEMMA StepEdit ==
    ASSUME AuditInv, EditLine
    PROVE  AuditInv'
<1>0. PICK i \in DOMAIN log : \E e \in Edits(log[i]) \ {log[i]} : log' = [log EXCEPT ![i] = e]
  BY DEF EditLine
<1>1. PICK e \in Edits(log[i]) \ {log[i]} : log' = [log EXCEPT ![i] = e]
  BY <1>0
<1>2. AuditTypes /\ IsLog /\ Untouched /\ damage' = "edit" /\ UNCHANGED chainVars
  BY DEF AuditInv, EditLine, Damage, AuditTypes
<1>3. /\ IsEntry(e) /\ e.agent = log[i].agent
      /\ \/ /\ e.hash = log[i].hash
            /\ \/ e.chain # log[i].chain \/ e.seq # log[i].seq \/ e.body # log[i].body
               \/ e.prevHash # log[i].prevHash
         \/ /\ e.hash # log[i].hash /\ e.hash \in Hashes
            /\ e.chain = log[i].chain /\ e.seq = log[i].seq
  BY <1>2, LogOfEntries, EditedFields
<1>4. IsLog' /\ DOMAIN log' = DOMAIN log /\ log'[i] = e
  BY <1>1, <1>2, <1>3, Edited
<1>5. AuditTypes'
  BY <1>2, <1>4, StepTypes DEF DamageKinds
<1>6. \A j \in DOMAIN log : \E a \in Agents :
         log[j].hash = <<log[j].chain, log[j].seq, log[j].body, Canonical(a), log[j].prevHash>>
  BY <1>2 DEF Untouched, AsWritten
<1>7. e.hash # ComputeHash(e)
  <2>1. CASE e.hash = log[i].hash
    BY <1>3, <1>6, <2>1 DEF ComputeHash
  <2>2. CASE e.hash = Genesis
    BY <2>2 DEF ComputeHash, Genesis
  <2>3. CASE e.hash # log[i].hash /\ e.hash # Genesis
    <3>1. PICK j \in DOMAIN log : log[j].hash = e.hash
      BY <1>3, <2>3 DEF Hashes
    <3>2. log[j].chain # e.chain \/ log[j].seq # e.seq
      BY <1>2, <1>3, <2>3, <3>1 DEF Untouched, InPlace, LinesOf
    <3> QED BY <1>6, <3>1, <3>2 DEF ComputeHash
  <2> QED BY <2>1, <2>2, <2>3
<1>8. (\E c \in Chains : ~IsWhole(c))'
  BY <1>4, <1>7, NotWhole
<1> QED BY <1>2, <1>5, <1>8 DEF AuditInv, DamageKinds

\* Where the removed line was not the last of its chain, the next one has lost the line
\* it commits to; else every line still has.
LEMMA StepLose ==
    ASSUME AuditInv, LoseLine
    PROVE  AuditInv'
<1>1. PICK i \in DOMAIN log : /\ Damage(IF LastOfChain(i) THEN "truncate" ELSE "lose")
                              /\ log' = RemoveAt(log, i)
  BY DEF LoseLine
<1>2. AuditTypes /\ IsLog /\ Untouched /\ UNCHANGED chainVars
  BY <1>1 DEF AuditInv, Damage, AuditTypes
<1>3. Len(log) \in Nat /\ DOMAIN log = 1 .. Len(log)
  BY <1>2, LogOfEntries
<1>4. /\ IsLog' /\ DOMAIN log' = 1 .. Len(log) - 1
      /\ \A k \in DOMAIN log' : log'[k] = IF k < i THEN log[k] ELSE log[k + 1]
  BY <1>1, <1>2, Removed
<1>5. AuditTypes'
  BY <1>1, <1>2, <1>4, StepTypes DEF Damage, DamageKinds
<1> DEFINE from == [k \in DOMAIN log' |-> IF k < i THEN k ELSE k + 1]
<1>6. /\ \A k \in DOMAIN log' : from[k] \in DOMAIN log \ {i} /\ log'[k] = log[from[k]]
      /\ \A k, m \in DOMAIN log' : from[k] = from[m] => k = m
      /\ \A k \in DOMAIN log \ {i} : \E m \in DOMAIN log' : from[m] = k
  <2>1. ASSUME NEW k \in DOMAIN log' PROVE from[k] \in DOMAIN log \ {i} /\ log'[k] = log[from[k]]
    BY <1>3, <1>4
  <2>2. ASSUME NEW k \in DOMAIN log', NEW m \in DOMAIN log', from[k] = from[m] PROVE k = m
    BY <1>3, <1>4, <2>2
  <2>3. ASSUME NEW k \in DOMAIN log \ {i} PROVE \E m \in DOMAIN log' : from[m] = k
    <3>1. CASE k < i
      <4>1. k \in DOMAIN log' /\ from[k] = k
        BY <1>3, <1>4, <3>1
      <4> QED BY <4>1
    <3>2. CASE ~(k < i)
      <4>1. k - 1 \in DOMAIN log' /\ from[k - 1] = k
        BY <1>3, <1>4, <3>2
      <4> QED BY <4>1
    <3> QED BY <3>1, <3>2
  <2> QED BY <2>1, <2>2, <2>3
<1> HIDE DEF from
<1>7. \A k \in DOMAIN log : log[k].seq \in Nat /\ InPlace(k) /\ AsWritten(k)
  BY <1>2, LogOfEntries DEF Untouched, IsEntry
<1>8. CASE LastOfChain(i)
  <2>1. damage' = "truncate"
    BY <1>1, <1>8 DEF Damage
  <2>2. ASSUME NEW k \in DOMAIN log' PROVE InPlace(k)' /\ AsWritten(k)'
    <3> DEFINE f == from[k]
    <3>1. f \in DOMAIN log \ {i} /\ log'[k] = log[f] /\ InPlace(f) /\ AsWritten(f)
      BY <1>6, <1>7
    <3> HIDE DEF f
    <3>2. AsWritten(k)'
      BY <3>1 DEF AsWritten
    <3>3. ASSUME NEW m \in DOMAIN log', log'[m].chain = log'[k].chain, log'[m].seq = log'[k].seq
          PROVE  m = k
      <4>1. from[m] = f
        BY <1>6, <3>1, <3>3 DEF InPlace, LinesOf
      <4> QED BY <1>6, <4>1 DEF f
    <3>4. ASSUME log[f].seq # 0
          PROVE  \E m \in DOMAIN log' : /\ log'[m].chain = log[f].chain
                                        /\ log'[m].seq + 1 = log[f].seq
                                        /\ log[f].prevHash = log'[m].hash
      <4>1. PICK j \in DOMAIN log : /\ log[j].chain = log[f].chain
                                    /\ log[j].seq + 1 = log[f].seq
                                    /\ log[f].prevHash = log[j].hash
        BY <3>1, <3>4 DEF InPlace, LinesOf
      <4>2. j # i
        BY <1>7, <1>8, <3>1, <4>1 DEF LastOfChain
      <4>3. PICK m \in DOMAIN log' : from[m] = j
        BY <1>6, <4>2
      <4> QED BY <1>6, <4>1, <4>3
    <3>5. InPlace(k)'
      BY <3>1, <3>3, <3>4 DEF InPlace, LinesOf
    <3> QED BY <3>2, <3>5
  <2> QED BY <1>5, <2>1, <2>2 DEF AuditInv, Untouched
<1>9. CASE ~LastOfChain(i)
  <2>1. damage' = "lose"
    BY <1>1, <1>9 DEF Damage
  <2> DEFINE c == log[i].chain
             later == {log[j].seq : j \in {k \in DOMAIN log : log[k].chain = c /\ log[k].seq > log[i].seq}}
  <2>2. PICK s \in later : \A t \in later : s <= t
    <3>1. later \in SUBSET Nat /\ later # {}
      BY <1>7, <1>9 DEF LastOfChain
    <3> HIDE DEF later
    <3> QED BY <3>1, LeastNumber
  <2>3. PICK j \in DOMAIN log : log[j].chain = c /\ log[j].seq > log[i].seq /\ log[j].seq = s
    BY <2>2
  <2>4. PICK m \in DOMAIN log' : from[m] = j
    BY <1>6, <1>7, <2>3
  <2>5. SUFFICES ASSUME InPlace(m)' PROVE FALSE
    <3>1. (\E d \in Chains : ~IsWhole(d))'
      BY <2>5, NotWhole
    <3> QED BY <1>5, <2>1, <3>1 DEF AuditInv
  <2>6. log'[m] = log[j] /\ log[j].seq # 0
    BY <1>6, <1>7, <2>3, <2>4
  <2>7. PICK k \in DOMAIN log' : log'[k].chain = log[j].chain /\ log'[k].seq + 1 = log[j].seq
    BY <2>5, <2>6 DEF InPlace, LinesOf
  <2>8. from[k] \in DOMAIN log \ {i} /\ log[from[k]].chain = c /\ log[from[k]].seq + 1 = s
    BY <1>6, <2>3, <2>7
  <2>9. log[from[k]].seq # log[i].seq
    BY <1>7, <2>8 DEF InPlace, LinesOf
  <2>10. log[from[k]].seq > log[i].seq /\ log[from[k]].seq < s
    BY <1>7, <2>3, <2>8, <2>9
  <2>11. log[from[k]].seq \in later
    BY <2>8, <2>10
  <2>12. log[from[k]].seq \in Nat /\ s \in Nat
    BY <1>7, <2>3, <2>8
  <2> HIDE DEF later
  <2>13. s <= log[from[k]].seq
    BY <2>2, <2>11
  <2> QED BY <2>10, <2>12, <2>13
<1> QED BY <1>8, <1>9

\* The copy of a line has the number of the line.
LEMMA StepDuplicate ==
    ASSUME AuditInv, DuplicateLine
    PROVE  AuditInv'
<1>1. PICK i, j \in DOMAIN log : log' = InsertAt(log, i, log[j])
  BY DEF DuplicateLine
<1>2. AuditTypes /\ IsLog /\ damage' = "duplicate" /\ UNCHANGED chainVars
  BY DEF AuditInv, DuplicateLine, Damage, AuditTypes
<1>3. Len(log) \in Nat /\ DOMAIN log = 1 .. Len(log)
  BY <1>2, LogOfEntries
<1>4. /\ IsLog' /\ DOMAIN log' = 1 .. Len(log) + 1
      /\ \A k \in DOMAIN log' : /\ k < i => log'[k] = log[k]
                                /\ k = i => log'[k] = log[j]
                                /\ k > i => log'[k] = log[k - 1]
  BY <1>1, <1>2, Inserted
<1>5. AuditTypes'
  BY <1>2, <1>4, StepTypes DEF DamageKinds
<1>6. i \in DOMAIN log' /\ log'[i] = log[j]
  BY <1>3, <1>4
<1>7. PICK m \in DOMAIN log' : m # i /\ log'[m] = log[j]
  <2>1. CASE j < i
    BY <1>3, <1>4, <2>1
  <2>2. CASE ~(j < i)
    <3>1. j + 1 \in DOMAIN log' /\ j + 1 > i /\ (j + 1) - 1 = j
      BY <1>3, <1>4, <2>2
    <3>2. j + 1 # i /\ log'[j + 1] = log[j]
      BY <1>3, <1>4, <3>1
    <3> QED BY <3>1, <3>2
  <2> QED BY <2>1, <2>2
<1>8. ~InPlace(i)'
  BY <1>6, <1>7 DEF InPlace, LinesOf
<1>9. (\E c \in Chains : ~IsWhole(c))'
  BY <1>6, <1>8, NotWhole
<1> QED BY <1>2, <1>5, <1>9 DEF AuditInv

\* Being in place is a matter of the other lines of the chain, wherever they stand.
LEMMA StepMove ==
    ASSUME AuditInv, MoveLine
    PROVE  AuditInv'
<1>1. PICK i, j \in DOMAIN log : i < j /\ log' = [log EXCEPT ![i] = log[j], ![j] = log[i]]
  BY DEF MoveLine
<1>2. AuditTypes /\ IsLog /\ Untouched /\ damage' = "move" /\ UNCHANGED chainVars
  BY DEF AuditInv, MoveLine, Damage, AuditTypes
<1> DEFINE to(k) == IF k = i THEN j ELSE IF k = j THEN i ELSE k
<1>3. i # j
  BY <1>1, <1>2, LogOfEntries
<1>4. /\ IsLog' /\ DOMAIN log' = DOMAIN log
      /\ \A k \in DOMAIN log : to(k) \in DOMAIN log /\ log'[k] = log[to(k)]
  BY <1>1, <1>2, <1>3, Swapped
<1>5. \A k \in DOMAIN log : to(to(k)) = k
  OBVIOUS
<1> HIDE DEF to
<1>6. AuditTypes'
  BY <1>2, <1>4, StepTypes DEF DamageKinds
<1>7. ASSUME NEW k \in DOMAIN log PROVE InPlace(k)' /\ AsWritten(k)'
  <2>1. to(k) \in DOMAIN log /\ log'[k] = log[to(k)] /\ InPlace(to(k)) /\ AsWritten(to(k))
    BY <1>2, <1>4 DEF Untouched
  <2>2. AsWritten(k)'
    BY <2>1 DEF AsWritten
  <2>3. ASSUME NEW m \in DOMAIN log, log'[m].chain = log'[k].chain, log'[m].seq = log'[k].seq
        PROVE  m = k
    <3>1. to(m) = to(k)
      BY <1>4, <2>1, <2>3 DEF InPlace, LinesOf
    <3> QED BY <1>5, <3>1
  <2>4. ASSUME log'[k].seq # 0
        PROVE  \E m \in DOMAIN log : /\ log'[m].chain = log'[k].chain
                                     /\ log'[m].seq + 1 = log'[k].seq
                                     /\ log'[k].prevHash = log'[m].hash
    <3>1. PICK l \in DOMAIN log : /\ log[l].chain = log'[k].chain
                                  /\ log[l].seq + 1 = log'[k].seq
                                  /\ log'[k].prevHash = log[l].hash
      BY <2>1, <2>4 DEF InPlace, LinesOf
    <3>2. to(l) \in DOMAIN log /\ log'[to(l)] = log[l]
      BY <1>4, <1>5
    <3> QED BY <3>1, <3>2
  <2>5. InPlace(k)'
    BY <1>4, <2>1, <2>3, <2>4 DEF InPlace, LinesOf
  <2> QED BY <2>2, <2>5
<1>8. Untouched'
  BY <1>4, <1>7 DEF Untouched
<1> QED BY <1>2, <1>6, <1>8 DEF AuditInv

-----------------------------------------------------------------------------
(* The theorems *)

\* What is known of the log and the processes, whatever befell the log.
THEOREM AuditInvariant == Spec => []AuditInv
<1>1. Init => AuditInv
  <2> SUFFICES ASSUME Init PROVE AuditInv
    OBVIOUS
  <2>1. log = <<>> /\ DOMAIN log = {} /\ damage = "none" /\ boots = 0
    BY DEF Init
  <2>2. AuditTypes
    <3>1. IsLog
      BY <2>1, EmptySeq DEF IsLog
    <3> QED BY <3>1 DEF Init, AuditTypes
  <2>3. Writing /\ Untouched
    BY <2>1 DEF Init, Writing, Untouched
  <2> QED BY <2>1, <2>2, <2>3 DEF AuditInv
<1>2. AuditInv /\ [Next]_vars => AuditInv'
  <2> SUFFICES ASSUME AuditInv, [Next]_vars PROVE AuditInv'
    OBVIOUS
  <2>1. ASSUME NEW p \in Processes, Boot(p) PROVE AuditInv'
    BY <2>1, StepBoot
  <2>2. ASSUME NEW p \in Processes, NEW b \in Bodies, NEW a \in Agents, Audit(p, b, a)
        PROVE  AuditInv'
    BY <2>2, StepAudit
  <2>3. ASSUME UNCHANGED vars PROVE AuditInv'
    <3>1. UNCHANGED <<log, chainId, seq, lastHash, boots, damage>>
      BY <2>3 DEF vars, chainVars
    <3>2. AuditTypes => AuditTypes'
      BY <3>1 DEF AuditTypes, IsLog
    <3>3. Writing => Writing'
      BY <3>1 DEF Writing, KnowsItsEnd, LinesOf
    <3>4. Untouched => Untouched'
      BY <3>1 DEF Untouched, InPlace, AsWritten, LinesOf
    <3>5. (\E c \in Chains : ~IsWhole(c)) => (\E c \in Chains : ~IsWhole(c))'
      BY <3>1 DEF Chains, IsWhole, InPlace, LinesOf
    <3> QED BY <3>1, <3>2, <3>3, <3>4, <3>5 DEF AuditInv
  <2> QED BY <2>1, <2>2, <2>3, StepEdit, StepLose, StepDuplicate, StepMove DEF Next
<1> QED BY <1>1, <1>2, PTL DEF Spec

\* The verifier accepts a log exactly when all its chains are whole, whatever was
\* written to it and whatever befell it (audit.js:128-163).
THEOREM VerifierExact == Spec => []VerifierIsExact
<1>1. AuditInv => VerifierIsExact
  BY LogIsExact DEF AuditInv, AuditTypes
<1> QED BY <1>1, AuditInvariant, PTL

LEMMA UntouchedVerifies ==
    ASSUME "undefined" \notin Agents, AuditInv, Untouched
    PROVE  VerifyOk
<1>1. \A i \in DOMAIN log : log[i].hash = ComputeHash(log[i])
  BY DEF Untouched, AsWritten, ComputeHash, ToLine, Canonical
<1>2. \A c \in Chains : IsWhole(c)
  BY <1>1 DEF Untouched, IsWhole, LinesOf
<1> QED BY <1>2, LogIsExact DEF AuditInv, AuditTypes, VerifierIsExact

\* Where every record has a user agent, the verifier accepts a log that nothing befell or
\* whose lines moved, of any processes that start any number of times (audit.js:123).
THEOREM IntactLogVerifies ==
    ASSUME "undefined" \notin Agents
    PROVE  Spec => []IntactVerifies
<1>1. AuditInv => IntactVerifies
  BY UntouchedVerifies DEF AuditInv, IntactVerifies
<1> QED BY <1>1, AuditInvariant, PTL

\* An edited, duplicated or lost record is found, and a record with the user agent missing
\* does not hide it (audit.js:17-18).
THEOREM DamageFound == Spec => []DamageIsFound
<1>1. AuditInv => DamageIsFound
  BY LogIsExact DEF AuditInv, AuditTypes, VerifierIsExact, DamageIsFound
<1> QED BY <1>1, AuditInvariant, PTL

\* The end of a chain can go unseen: the log still verifies, which is why audit.js:25-27
\* asks for the latest hash to be kept elsewhere.
THEOREM TruncationUnseen ==
    ASSUME "undefined" \notin Agents
    PROVE  Spec => [](damage = "truncate" => VerifyOk)
<1>1. AuditInv => (damage = "truncate" => VerifyOk)
  BY UntouchedVerifies DEF AuditInv
<1> QED BY <1>1, AuditInvariant, PTL
=============================================================================
