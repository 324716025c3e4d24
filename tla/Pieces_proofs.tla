----------------------------- MODULE Pieces_proofs -----------------------------
(***************************************************************************)
(* Proofs about what comes in pieces: the bytes of an event stream, the    *)
(* pages of a listing and the arguments of a process, for texts, sets of   *)
(* sessions and sequences of arguments of any size.                        *)
(*                                                                         *)
(* Each argument relates what was done so far to the whole.  Arguments:    *)
(* what was taken is what the options and words before the index mean      *)
(* (ArgumentsInv).  Pages: each page but the last has a cursor of its own, *)
(* and a session that nothing happens to is listed already or older than   *)
(* the cursor (PagesInv).  Streams: what is consumed ends with a blank     *)
(* line, or in the middle of the ending of one, and the events yielded are *)
(* those of the blocks that begin there or before (StreamInv).             *)
(***************************************************************************)
EXTENDS EventStream, SessionPages, TuiArguments, FiniteSetTheorems, FunctionTheorems, TLAPS

-----------------------------------------------------------------------------
(* Sets in an order.                                                       *)

\* How many elements come before one, itself included.
Rank(S, key) == [s \in S |-> Cardinality({t \in S : key[t] <= key[s]})]

LEMMA Ranked ==
  ASSUME NEW S, IsFiniteSet(S), NEW key \in [S -> Int], \A s, t \in S : key[s] = key[t] => s = t
  PROVE  /\ Cardinality(S) \in Nat
         /\ Rank(S, key) \in [S -> 1 .. Cardinality(S)]
         /\ \A s, t \in S : key[s] < key[t] => Rank(S, key)[s] < Rank(S, key)[t]
<1> DEFINE Upto(s) == {t \in S : key[t] <= key[s]}
           n == Cardinality(S)
<1>1. n \in Nat
  BY FS_CardinalityType
<1>2. ASSUME NEW s \in S
      PROVE  IsFiniteSet(Upto(s)) /\ Cardinality(Upto(s)) \in Nat /\ Cardinality(Upto(s)) <= n
  <2>1. Upto(s) \in SUBSET S
    OBVIOUS
  <2> HIDE DEF Upto
  <2> QED BY <2>1, FS_Subset, FS_CardinalityType
<1>3. ASSUME NEW s \in S PROVE Cardinality(Upto(s)) # 0
  <2>1. s \in Upto(s)
    OBVIOUS
  <2> HIDE DEF Upto
  <2> QED BY <1>2, <2>1, FS_EmptySet
<1>4. ASSUME NEW s \in S, NEW t \in S, key[s] < key[t]
      PROVE  Cardinality(Upto(s)) < Cardinality(Upto(t))
  <2>1. Upto(s) \in SUBSET Upto(t) /\ t \in Upto(t) /\ t \notin Upto(s)
    BY <1>4
  <2> HIDE DEF Upto
  <2>2. Cardinality(Upto(s)) <= Cardinality(Upto(t)) /\ Cardinality(Upto(s)) # Cardinality(Upto(t))
    BY <1>2, <2>1, FS_Subset
  <2> QED BY <1>2, <2>2
<1>5. \A s \in S : Rank(S, key)[s] = Cardinality(Upto(s))
  BY DEF Rank
<1>6. \A s \in S : Cardinality(Upto(s)) \in 1 .. n
  <2> HIDE DEF Upto
  <2> QED BY <1>1, <1>2, <1>3
<1>7. Rank(S, key) = [s \in S |-> Cardinality(Upto(s))]
  BY DEF Rank
<1> HIDE DEF Upto
<1> QED BY <1>1, <1>4, <1>5, <1>6, <1>7

\* A set in the order of its keys: each element once, the one with the lesser
\* key before the one with the greater.
LEMMA Ordered ==
  ASSUME NEW S, IsFiniteSet(S), NEW key \in [S -> Int], \A s, t \in S : key[s] = key[t] => s = t
  PROVE  /\ Cardinality(S) \in Nat
         /\ InOrder(S, key) \in [1 .. Cardinality(S) -> S]
         /\ \A i, j \in 1 .. Cardinality(S) : i < j => key[InOrder(S, key)[i]] < key[InOrder(S, key)[j]]
         /\ \A s \in S : \E i \in 1 .. Cardinality(S) : InOrder(S, key)[i] = s
<1> DEFINE n == Cardinality(S)
           rank == Rank(S, key)
           InKeys(q) == \A i, j \in 1 .. n : i < j => key[q[i]] < key[q[j]]
<1>1. /\ n \in Nat /\ rank \in [S -> 1 .. n]
      /\ \A s, t \in S : key[s] < key[t] => rank[s] < rank[t]
  BY Ranked
<1> HIDE DEF rank
<1>2. \A s, t \in S : rank[s] = rank[t] => s = t
  BY <1>1
<1>3. IsFiniteSet(1 .. n) /\ Cardinality(1 .. n) = n
  BY <1>1, FS_Interval
<1>4. \A i \in 1 .. n : \E s \in S : rank[s] = i
  <2>1. rank \in Injection(S, 1 .. n)
    BY <1>1, <1>2, Fun_IsInj
  <2>2. rank \in Surjection(S, 1 .. n)
    BY <1>3, <2>1, FS_Injection
  <2> QED BY <2>2, Fun_SurjectionProperties
<1>5. PICK q : q = [i \in 1 .. n |-> CHOOSE s \in S : rank[s] = i]
  OBVIOUS
<1>6. q \in [1 .. n -> S] /\ InKeys(q)
  <2>1. \A i \in 1 .. n : q[i] \in S /\ rank[q[i]] = i
    BY <1>4, <1>5
  <2>2. q \in [1 .. n -> S]
    BY <1>5, <2>1
  <2>3. ASSUME NEW i \in 1 .. n, NEW j \in 1 .. n, i < j PROVE key[q[i]] < key[q[j]]
    <3>1. q[i] # q[j] /\ ~(key[q[j]] < key[q[i]])
      BY <1>1, <2>1, <2>3
    <3> QED BY <2>1, <3>1
  <2> QED BY <2>2, <2>3
<1>7. InOrder(S, key) = CHOOSE p \in [1 .. n -> S] : InKeys(p)
  BY DEF InOrder
<1>8. InOrder(S, key) \in [1 .. n -> S] /\ InKeys(InOrder(S, key))
  <2> HIDE DEF InKeys
  <2> QED BY <1>6, <1>7
<1>10. n = Cardinality(S)
  OBVIOUS
<1> HIDE DEF n
<1>9. ASSUME NEW s \in S PROVE \E i \in 1 .. n : InOrder(S, key)[i] = s
  <2>1. \A i, j \in 1 .. n : InOrder(S, key)[i] = InOrder(S, key)[j] => i = j
    <3>1. \A i \in 1 .. n : key[InOrder(S, key)[i]] \in Int
      BY <1>8
    <3> QED BY <1>1, <1>8, <3>1
  <2>2. InOrder(S, key) \in Injection(1 .. n, S)
    BY <1>8, <2>1, Fun_IsInj
  <2>3. InOrder(S, key) \in Surjection(1 .. n, S)
    <3> HIDE DEF InKeys
    <3>1. IsFiniteSet(S) /\ Cardinality(1 .. n) = Cardinality(S)
      BY <1>3, <1>10
    <3>2. PICK T : T = 1 .. n
      OBVIOUS
    <3> QED BY <2>2, <3>1, <3>2, FS_Injection
  <2> QED BY <2>3 DEF Surjection
<1> QED BY <1>1, <1>8, <1>9 DEF n

\* A set of numbers that has one has a least one.
LEMMA NatMin == ASSUME NEW T \in SUBSET Nat, T # {} PROVE \E n \in T : \A k \in T : n <= k
<1>1. PICK t \in T : t \in Nat
  OBVIOUS
<1> DEFINE S == 0 .. t
           W == {0 .. k : k \in {x \in T : x <= t}}
<1>2. IsFiniteSet(S)
  BY <1>1, FS_Interval
<1>3. IsWellFoundedOn(StrictSubsetOrdering(S), SUBSET S)
  BY <1>2, FS_StrictSubsetOrderingWellFounded, FS_FiniteSubsetsOfFinite, Zenon
<1>4. W \subseteq SUBSET S /\ W # {}
  BY <1>1
<1>5. \E x \in W : \A y \in W : ~ (<<y, x>> \in StrictSubsetOrdering(S))
  <2> HIDE DEF W, S
  <2> QED BY <1>3, <1>4, WFMin
<1>6. PICK x \in W : \A y \in W : ~(y \subseteq x /\ y # x)
  BY <1>4, <1>5 DEF StrictSubsetOrdering
<1>7. PICK n \in T : n <= t /\ x = 0 .. n
  BY <1>6
<1>8. ASSUME NEW k \in T, ~(n <= k) PROVE FALSE
  <2>1. k <= t /\ k < n /\ k \in Nat /\ n \in Nat
    BY <1>1, <1>7, <1>8
  <2>2. (0 .. k) \in W
    BY <2>1
  <2>3. 0 .. k \subseteq 0 .. n /\ n \in 0 .. n /\ n \notin 0 .. k
    BY <2>1
  <2> QED BY <1>6, <1>7, <2>2, <2>3
<1> QED BY <1>7, <1>8

-----------------------------------------------------------------------------
(* The arguments of a terminal.                                            *)

\* Options in a row up to the one before.
Row(i) == {j \in 1 .. i - 1 : \A k \in j .. i - 1 : WantsValue(k)}

\* What stands behind an option that takes a value and is no value itself is a
\* value, and nothing else is.
LEMMA ValueNext == ASSUME NEW i \in Nat \ {0} PROVE IsValue(i + 1) <=> WantsValue(i) /\ ~IsValue(i)
<1>1. IsFiniteSet(Row(i)) /\ Cardinality(Row(i)) \in Nat
  <2>1. IsFiniteSet(1 .. i - 1) /\ Row(i) \in SUBSET (1 .. i - 1)
    BY FS_Interval DEF Row
  <2> QED BY <2>1, FS_Subset, FS_CardinalityType
<1>2. IsValue(i) <=> Cardinality(Row(i)) % 2 = 1
  BY DEF IsValue, Row
<1>3. IsValue(i + 1) <=> Cardinality(Row(i + 1)) % 2 = 1
  BY DEF IsValue, Row
<1>4. CASE WantsValue(i)
  <2>1. Row(i + 1) = Row(i) \cup {i} /\ i \notin Row(i)
    <3>1. \A j \in 1 .. i - 1 : j .. (i + 1) - 1 = (j .. i - 1) \cup {i}
      OBVIOUS
    <3>2. \A j \in 1 .. (i + 1) - 1 : j \in 1 .. i - 1 \/ j = i
      OBVIOUS
    <3>3. i .. (i + 1) - 1 = {i} /\ i \in 1 .. (i + 1) - 1 /\ i \notin 1 .. i - 1
      OBVIOUS
    <3>4. \A j \in 1 .. i - 1 : j \in 1 .. (i + 1) - 1
      OBVIOUS
    <3> HIDE DEF WantsValue
    <3> QED BY <1>4, <3>1, <3>2, <3>3, <3>4 DEF Row
  <2>2. Cardinality(Row(i + 1)) = Cardinality(Row(i)) + 1
    BY <1>1, <2>1, FS_AddElement
  <2> QED BY <1>1, <1>2, <1>3, <1>4, <2>2
<1>5. CASE ~WantsValue(i)
  <2>1. \A j \in 1 .. (i + 1) - 1 : i \in j .. (i + 1) - 1
    OBVIOUS
  <2>2. Row(i + 1) = {}
    BY <1>5, <2>1 DEF Row
  <2> QED BY <1>3, <1>5, <2>2, FS_EmptySet
<1> QED BY <1>4, <1>5

\* What an option that names a session says.
Told(i) ==
  IF argv[i] \in InlineSession THEN SessionOf[argv[i]]
  ELSE IF i < Len(argv) THEN argv[i + 1] ELSE NoName

Before(S) == {i \in S : i < index}

\* What was understood is what the arguments up to here mean.
ArgumentsInv ==
  /\ argv \in Seq(Arguments)
  /\ index \in Nat \ {0} /\ ~IsValue(index)
  /\ taken = [session |-> taken.session, continues |-> taken.continues, words |-> taken.words]
  /\ \/ Before(Telling) = {} /\ taken.session = NoName
     \/ \E i \in Before(Telling) : (\A j \in Before(Telling) : j <= i) /\ taken.session = Told(i)
  /\ taken.continues = (\E i \in Before(Options) : argv[i] \in ContinueOption)
  /\ taken.words \in Seq(Arguments)
  /\ \/ Before(Positions) = {} /\ taken.words = <<>>
     \/ \E i, j \in Before(Positions) :
          /\ \A k \in Before(Positions) : i <= k /\ k <= j
          /\ taken.words # <<>> /\ taken.words[1] = argv[i] /\ Last(taken.words) = argv[j]

LEMMA ArgumentsBegin == ASSUME NEW lengths \in SUBSET Nat, ArgumentsInit(lengths) PROVE ArgumentsInv
<1>1. PICK n \in lengths : argv \in [1 .. n -> Arguments]
  BY DEF ArgumentsInit
<1>2. argv \in Seq(Arguments)
  BY <1>1
<1>3. ~IsValue(index)
  <2>1. index = 1
    BY DEF ArgumentsInit
  <2>2. {j \in 1 .. index - 1 : \A k \in j .. index - 1 : WantsValue(k)} = {}
    BY <2>1
  <2> QED BY <2>2, FS_EmptySet DEF IsValue
<1>4. Before(Telling) = {} /\ Before(Options) = {} /\ Before(Positions) = {}
  <2>1. \A i \in DOMAIN argv : ~(i < 1)
    BY <1>1
  <2> QED BY <2>1 DEF ArgumentsInit, Before, Telling, Options, Positions
<1> QED BY <1>2, <1>3, <1>4 DEF ArgumentsInit, ArgumentsInv

\* No option behind the one that is looked at is passed over.
LEMMA Passed ==
  ASSUME ArgumentsInv, Take
  PROVE  /\ index \in DOMAIN argv /\ argv' = argv /\ index' \in Nat \ {0}
         /\ ~IsValue(index')
         /\ \A S : S \in {Options, Positions, Telling} =>
              {i \in S : i < index'} = Before(S) \cup (S \cap {index})
<1>1. /\ index \in DOMAIN argv /\ argv' = argv /\ argv \in Seq(Arguments)
      /\ index \in Nat \ {0} /\ ~IsValue(index)
      /\ index' = index + (IF WantsValue(index) THEN 2 ELSE 1)
  BY DEF ArgumentsInv, Take, Width, WantsValue
<1>2. /\ IsValue(index + 1) <=> WantsValue(index)
      /\ IsValue(index + 1 + 1) <=> WantsValue(index + 1) /\ ~IsValue(index + 1)
  <2>1. index \in Nat \ {0} /\ index + 1 \in Nat \ {0}
    BY <1>1
  <2>2. IsValue(index + 1) <=> WantsValue(index) /\ ~IsValue(index)
    BY <2>1, ValueNext
  <2>3. IsValue(index + 1 + 1) <=> WantsValue(index + 1) /\ ~IsValue(index + 1)
    BY <2>1, ValueNext
  <2> QED BY <1>1, <2>2, <2>3
<1>3. ~IsValue(index')
  <2>1. CASE WantsValue(index)
    BY <1>1, <1>2, <2>1
  <2>2. CASE ~WantsValue(index)
    BY <1>1, <1>2, <2>2
  <2> QED BY <2>1, <2>2
<1>4. ASSUME NEW S, S \in {Options, Positions, Telling}
      PROVE  {i \in S : i < index'} = Before(S) \cup (S \cap {index})
  <2>1. \A i \in S : i \in DOMAIN argv /\ ~IsValue(i)
    BY <1>4 DEF Options, Positions, Telling
  <2>2. \A i \in S : i \in Nat
    BY <1>1, <2>1
  <2>3. ASSUME NEW i \in S, i < index', ~(i < index), i # index PROVE FALSE
    <3>1. i = index + 1 /\ WantsValue(index)
      BY <1>1, <2>2, <2>3
    <3> QED BY <1>2, <2>1, <3>1
  <2>4. index < index' /\ \A i \in S : i < index => i < index'
    BY <1>1, <2>2
  <2> QED BY <2>3, <2>4 DEF Before
<1> QED BY <1>1, <1>3, <1>4

\* One argument after the other.
LEMMA ArgumentsKeep == ASSUME ArgumentsInv, Take PROVE ArgumentsInv'
<1> USE ArgumentsAssumption
<1> DEFINE argument == argv[index]
<1>1. /\ index \in DOMAIN argv /\ argv' = argv /\ index' \in Nat \ {0} /\ ~IsValue(index')
      /\ {i \in Options : i < index'} = Before(Options) \cup (Options \cap {index})
      /\ {i \in Positions : i < index'} = Before(Positions) \cup (Positions \cap {index})
      /\ {i \in Telling : i < index'} = Before(Telling) \cup (Telling \cap {index})
  BY Passed
<1>2. /\ argv \in Seq(Arguments) /\ index \in Nat \ {0} /\ ~IsValue(index) /\ argument \in Arguments
      /\ DOMAIN argv = 1 .. Len(argv) /\ Len(argv) \in Nat
  BY <1>1 DEF ArgumentsInv
<1>3. /\ IsValue(index)' <=> IsValue(index')
      /\ Options' = Options /\ Positions' = Positions /\ Telling' = Telling
      /\ \A i : Told(i)' = Told(i)
  BY <1>1 DEF IsValue, WantsValue, Options, Positions, Telling, Told
<1>4. /\ Before(Options)' = Before(Options) \cup (Options \cap {index})
      /\ Before(Positions)' = Before(Positions) \cup (Positions \cap {index})
      /\ Before(Telling)' = Before(Telling) \cup (Telling \cap {index})
  BY <1>1, <1>3 DEF Before
<1>5. /\ index \in Options <=> argument \in Dashed
      /\ index \in Positions <=> argument \notin Dashed
      /\ index \in Telling <=> argument \in SessionOption \cup InlineSession
  BY <1>1, <1>2 DEF Options, Positions, Telling
<1>6. /\ taken = [session |-> taken.session, continues |-> taken.continues, words |-> taken.words]
      /\ taken.words \in Seq(Arguments)
  BY DEF ArgumentsInv
<1>7. /\ taken' = [session |-> taken'.session, continues |-> taken'.continues, words |-> taken'.words]
      /\ taken'.session = IF argument \in SessionOption \cup InlineSession THEN Told(index) ELSE taken.session
      /\ taken'.continues = IF argument \in ContinueOption THEN TRUE ELSE taken.continues
      /\ taken'.words = IF argument \notin Dashed THEN Append(taken.words, argument) ELSE taken.words
  BY <1>1, <1>2, <1>6 DEF Take, Told, Value
<1>8. taken'.words \in Seq(Arguments)
  BY <1>2, <1>6, <1>7
<1>9. /\ \A i \in Before(Telling) : i \in Nat /\ i < index
      /\ \A i \in Before(Positions) : i \in Nat /\ i < index
  BY <1>2 DEF Before, Telling, Options, Positions
<1>10. \/ Before(Telling)' = {} /\ taken'.session = NoName
       \/ \E i \in Before(Telling)' : (\A j \in Before(Telling)' : j <= i) /\ taken'.session = Told(i)'
  <2>1. CASE argument \in SessionOption \cup InlineSession
    <3>1. index \in Before(Telling)' /\ \A j \in Before(Telling)' : j <= index
      BY <1>2, <1>4, <1>5, <1>9, <2>1
    <3> QED BY <1>3, <1>7, <2>1, <3>1
  <2>2. CASE argument \notin SessionOption \cup InlineSession
    <3>1. Before(Telling)' = Before(Telling) /\ taken'.session = taken.session
      BY <1>4, <1>5, <1>7, <2>2
    <3> QED BY <1>3, <3>1 DEF ArgumentsInv
  <2> QED BY <2>1, <2>2
<1>11. taken'.continues = (\E i \in Before(Options)' : argv[i] \in ContinueOption)
  <2>1. taken.continues = (\E i \in Before(Options) : argv[i] \in ContinueOption)
    BY DEF ArgumentsInv
  <2>2. CASE argument \in ContinueOption
    BY <1>4, <1>5, <1>7, <2>2
  <2>3. CASE argument \notin ContinueOption
    BY <1>4, <1>5, <1>7, <2>1, <2>3
  <2> QED BY <2>2, <2>3
<1>12. \/ Before(Positions)' = {} /\ taken'.words = <<>>
       \/ \E i, j \in Before(Positions)' :
            /\ \A k \in Before(Positions)' : i <= k /\ k <= j
            /\ taken'.words # <<>> /\ taken'.words[1] = argv[i] /\ Last(taken'.words) = argv[j]
  <2>1. CASE argument \in Dashed
    <3>1. Before(Positions)' = Before(Positions) /\ taken'.words = taken.words
      BY <1>4, <1>5, <1>7, <2>1
    <3> QED BY <3>1 DEF ArgumentsInv
  <2>2. CASE argument \notin Dashed
    <3>1. /\ Before(Positions)' = Before(Positions) \cup {index}
          /\ taken'.words = Append(taken.words, argument)
      BY <1>4, <1>5, <1>7, <2>2
    <3>2. /\ taken'.words # <<>> /\ Last(taken'.words) = argument
          /\ taken'.words[1] = IF taken.words = <<>> THEN argument ELSE taken.words[1]
      BY <1>2, <1>6, <3>1 DEF Last
    <3>3. CASE Before(Positions) = {} /\ taken.words = <<>>
      BY <1>2, <3>1, <3>2, <3>3
    <3>4. ASSUME NEW i \in Before(Positions), NEW j \in Before(Positions),
                 \A k \in Before(Positions) : i <= k /\ k <= j,
                 taken.words # <<>>, taken.words[1] = argv[i]
          PROVE  \E f, l \in Before(Positions)' :
                   /\ \A k \in Before(Positions)' : f <= k /\ k <= l
                   /\ taken'.words # <<>> /\ taken'.words[1] = argv[f] /\ Last(taken'.words) = argv[l]
      <4>1. i \in Before(Positions)' /\ index \in Before(Positions)'
        BY <3>1, <3>4
      <4>2. \A k \in Before(Positions)' : i <= k /\ k <= index
        BY <1>2, <1>9, <3>1, <3>4
      <4> QED BY <3>2, <3>4, <4>1, <4>2
    <3> QED BY <3>3, <3>4 DEF ArgumentsInv
  <2> QED BY <2>1, <2>2
<1> QED BY <1>1, <1>2, <1>3, <1>7, <1>8, <1>10, <1>11, <1>12 DEF ArgumentsInv

\* The least and the greatest of a set of numbers that has them.
LEMMA LeastGreatest ==
  ASSUME NEW S \in SUBSET Nat, NEW i \in S, NEW j \in S, \A k \in S : i <= k /\ k <= j
  PROVE  Min(S) = i /\ Max(S) = j
<1>1. \A x \in S : (\A y \in S : x <= y) => x = i
  OBVIOUS
<1>2. \A x \in S : (\A y \in S : x >= y) => x = j
  OBVIOUS
<1>3. (\A y \in S : i <= y) /\ (\A y \in S : j >= y)
  OBVIOUS
<1> QED BY <1>1, <1>2, <1>3 DEF Min, Max

LEMMA ArgumentsMean == ASSUME ArgumentsInv PROVE ArgumentsRead
<1> USE ArgumentsAssumption
<1> SUFFICES ASSUME index > Len(argv) PROVE ArgumentsRead
  BY DEF ArgumentsRead
<1>1. /\ Telling \in SUBSET Nat /\ Positions \in SUBSET Nat
      /\ Before(Telling) = Telling /\ Before(Options) = Options /\ Before(Positions) = Positions
  <2>1. \A i \in DOMAIN argv : i \in Nat /\ i < index
    BY DEF ArgumentsInv
  <2> QED BY <2>1 DEF Before, Telling, Options, Positions
<1>2. taken.session = Meant
  <2>1. CASE Telling = {}
    BY <1>1, <2>1 DEF ArgumentsInv, Meant
  <2>2. ASSUME NEW i \in Telling, \A j \in Telling : j <= i, taken.session = Told(i) PROVE taken.session = Meant
    <3>1. Max(Telling) = i
      <4>1. \A x \in Telling : (\A y \in Telling : x >= y) => x = i
        BY <1>1, <2>2
      <4>2. \A y \in Telling : i >= y
        BY <1>1, <2>2
      <4> QED BY <2>2, <4>1, <4>2 DEF Max
    <3> QED BY <2>2, <3>1 DEF Meant, Told
  <2> QED BY <1>1, <2>1, <2>2 DEF ArgumentsInv
<1>3. taken.continues <=> \E i \in Options : argv[i] \in ContinueOption
  BY <1>1 DEF ArgumentsInv
<1>4. CASE Positions = {} /\ taken.words = <<>>
  BY <1>2, <1>3, <1>4 DEF ArgumentsRead, Classified
<1>5. ASSUME NEW i \in Positions, NEW j \in Positions, \A k \in Positions : i <= k /\ k <= j,
             taken.words # <<>>, taken.words[1] = argv[i], Last(taken.words) = argv[j]
      PROVE  ArgumentsRead
  <2>1. Min(Positions) = i /\ Max(Positions) = j
    BY <1>1, <1>5, LeastGreatest
  <2>2. CASE argv[i] \in Commands
    BY <1>5, <2>1, <2>2 DEF ArgumentsRead, Classified
  <2>3. CASE argv[i] = Mini
    BY <1>2, <1>3, <1>5, <2>1, <2>3 DEF ArgumentsRead, Classified
  <2>4. CASE argv[i] \notin Commands \cup {Mini}
    BY <1>2, <1>3, <1>5, <2>1, <2>4 DEF ArgumentsRead, Classified
  <2> QED BY <2>2, <2>3, <2>4
<1> QED BY <1>1, <1>4, <1>5 DEF ArgumentsInv

\* Nothing changes when nothing is taken.
LEMMA ArgumentsStay == ASSUME ArgumentsInv, UNCHANGED argumentVars PROVE ArgumentsInv'
<1>1. argv' = argv /\ index' = index /\ taken' = taken
  BY DEF argumentVars
<1>2. /\ \A i : IsValue(i)' <=> IsValue(i)
      /\ Options' = Options /\ Positions' = Positions
  BY <1>1 DEF IsValue, WantsValue, Options, Positions
<1>3. Telling' = Telling /\ \A i : Told(i)' = Told(i)
  BY <1>1, <1>2 DEF Telling, Told
<1>4. Before(Telling)' = Before(Telling) /\ Before(Options)' = Before(Options) /\ Before(Positions)' = Before(Positions)
  BY <1>1, <1>2, <1>3 DEF Before
<1> QED BY <1>1, <1>2, <1>3, <1>4 DEF ArgumentsInv

\* Any sequence of arguments.
ArgumentsSpec == ArgumentsInit(Nat) /\ [][Take]_argumentVars

\* Whatever the arguments of a process are, and however many: the session is the
\* one named last, and no value of an option is taken for an option, a command or
\* a directory (attachment.rs, classify_argv).
THEOREM AnyArgumentsRead == ArgumentsSpec => []ArgumentsRead
<1>1. ArgumentsInit(Nat) => ArgumentsInv
  <2> SUFFICES ASSUME ArgumentsInit(Nat) PROVE ArgumentsInv
    OBVIOUS
  <2>1. PICK lengths \in SUBSET Nat : lengths = Nat
    OBVIOUS
  <2>2. ArgumentsInit(lengths)
    BY <2>1
  <2> QED BY <2>2, ArgumentsBegin
<1>2. ArgumentsInv /\ [Take]_argumentVars => ArgumentsInv'
  BY ArgumentsKeep, ArgumentsStay
<1>3. ArgumentsInv => ArgumentsRead
  BY ArgumentsMean
<1> QED BY <1>1, <1>2, <1>3, PTL DEF ArgumentsSpec

-----------------------------------------------------------------------------
(* The pages of a listing.                                                 *)

\* What a page says of a session.
Entries == {[id |-> s, directory |-> Directory(shape[s], place)] : s \in Sessions}

\* Nothing happened to it since the first request.
Steady(s) == updated[s] \in 1 .. Cardinality(Sessions)

Listed(s) == \E i \in 1 .. Len(fetch.got) : fetch.got[i].id = s

UpdatesSound ==
  /\ updated \in [Sessions -> Nat] /\ clock \in Nat /\ faulty \in BOOLEAN
  /\ Cardinality(Sessions) <= clock
  /\ clock <= IF faulty THEN Cardinality(Sessions) + 1 ELSE LastUpdate
  /\ \A s \in Sessions : updated[s] <= clock
  /\ \A s, t \in Sessions : updated[s] = updated[t] => s = t \/ updated[s] = 0

\* Each page but the last has a new cursor.
CursorsSound ==
  /\ fetch.cursor \in Nat /\ fetch.pages \in Nat
  /\ fetch.cursors \in SUBSET (0 .. clock)
  /\ fetch.pages <= Cardinality(fetch.cursors \ {0}) + 1
  /\ fetch.step = "pages" =>
       fetch.pages = Cardinality(fetch.cursors \ {0}) /\ 0 \notin fetch.cursors
  /\ fetch.step = "looped" => faulty
  /\ fetch.step = "pages" /\ ~faulty => \A c \in fetch.cursors : fetch.cursor <= c

\* What is listed, and what the cursor has yet to come to.
ListSound ==
  /\ fetch.got \in Seq(Entries)
  /\ ~faulty =>
       \A s \in Sessions : Steady(s) =>
         /\ fetch.step = "pages" => Listed(s) \/ updated[s] < fetch.cursor
         /\ fetch.step \in {"listed", "done"} => Listed(s)
         /\ fetch.asked => (s \in fetch.active <=> s \in active)
  /\ fetch.step = "done" =>
       /\ fetch.asked
       /\ \A i, j \in 1 .. Len(fetch.got) : i < j => fetch.got[i].id < fetch.got[j].id

FetchFields == {"step", "cursor", "cursors", "pages", "got", "asked", "active"}

PagesInv ==
  /\ UpdatesSound /\ CursorsSound /\ ListSound
  /\ DOMAIN fetch = FetchFields /\ fetch = [x \in FetchFields |-> fetch[x]]
  /\ fetch.step \in {"pages", "listed", "looped", "failed", "done"} /\ fetch.asked \in BOOLEAN

LEMMA SessionsCounted == Cardinality(Sessions) \in Nat /\ LastUpdate \in Nat
BY PagesAssumption, FS_CardinalityType DEF LastUpdate

\* What the server has that was updated before the cursor, the last one first,
\* as far as a page goes.
LEMMA PageIs ==
  ASSUME UpdatesSound, NEW c \in Nat
  PROVE  \E m \in Nat :
           /\ Page(c) \in [1 .. m -> Sessions] /\ Len(Page(c)) = m
           /\ \A i \in 1 .. m : updated[Page(c)[i]] \in 1 .. c - 1
           /\ Len(Older(c)) > PageSize =>
                /\ Last(Page(c)) \in Sessions /\ updated[Last(Page(c))] \in 1 .. c - 1
                /\ \A s \in Sessions :
                     updated[s] \in 1 .. c - 1 =>
                       (\E i \in 1 .. m : Page(c)[i] = s) \/ updated[s] < updated[Last(Page(c))]
           /\ Len(Older(c)) <= PageSize =>
                \A s \in Sessions : updated[s] \in 1 .. c - 1 => \E i \in 1 .. m : Page(c)[i] = s
           /\ Len(Older(c)) \in Nat
<1> USE PagesAssumption
<1> DEFINE older == {s \in Sessions : updated[s] \in 1 .. c - 1}
           key == [s \in older |-> -updated[s]]
           n == Cardinality(older)
<1>1. older \in SUBSET Sessions /\ IsFiniteSet(older)
  <2>1. older \in SUBSET Sessions
    OBVIOUS
  <2> HIDE DEF older
  <2> QED BY <2>1, FS_Subset
<1>2. key \in [older -> Int] /\ \A s, t \in older : key[s] = key[t] => s = t
  BY DEF UpdatesSound
<1>3. Older(c) = InOrder(older, key)
  BY DEF Older
<1>4. /\ n \in Nat /\ Older(c) \in [1 .. n -> older]
      /\ \A i, j \in 1 .. n : i < j => key[Older(c)[i]] < key[Older(c)[j]]
      /\ \A s \in older : \E i \in 1 .. n : Older(c)[i] = s
  <2> HIDE DEF older, key
  <2>1. PICK S, k : S = older /\ k = key
    OBVIOUS
  <2>2. IsFiniteSet(S) /\ k \in [S -> Int] /\ \A s, t \in S : k[s] = k[t] => s = t
    BY <1>1, <1>2, <2>1
  <2>3. /\ Cardinality(S) \in Nat /\ InOrder(S, k) \in [1 .. Cardinality(S) -> S]
        /\ \A i, j \in 1 .. Cardinality(S) : i < j => k[InOrder(S, k)[i]] < k[InOrder(S, k)[j]]
        /\ \A s \in S : \E i \in 1 .. Cardinality(S) : InOrder(S, k)[i] = s
    BY <2>2, Ordered
  <2>4. Older(c) = InOrder(S, k)
    BY <1>3, <2>1
  <2> QED BY <2>1, <2>3, <2>4
<1>5. PICK q : q = Older(c)
  OBVIOUS
<1>6. /\ q \in [1 .. n -> older] /\ Len(q) = n /\ DOMAIN q = 1 .. n
      /\ \A i, j \in 1 .. n : i < j => updated[q[j]] < updated[q[i]]
      /\ \A s \in older : \E i \in 1 .. n : q[i] = s
  <2>1. \A s \in older : key[s] = -updated[s] /\ updated[s] \in Nat
    BY DEF UpdatesSound
  <2> HIDE DEF older, key, n
  <2>2. q \in [1 .. n -> older] /\ Len(q) = n /\ DOMAIN q = 1 .. n
    BY <1>4, <1>5
  <2> QED BY <1>4, <1>5, <2>1, <2>2
<1>7. \A s \in older : s \in Sessions /\ updated[s] \in 1 .. c - 1
  OBVIOUS
<1>8. \A s \in Sessions : updated[s] \in 1 .. c - 1 => s \in older
  OBVIOUS
<1> DEFINE m == IF n <= PageSize THEN n ELSE PageSize
           page == [i \in 1 .. m |-> q[i]]
<1> HIDE DEF older, key, n
<1>9. m \in Nat /\ m <= n /\ (n > PageSize => m = PageSize /\ m >= 1) /\ (n <= PageSize => m = n)
  BY <1>4
<1>10. Page(c) = page
  <2>1. DOMAIN q \cap 1 .. PageSize = 1 .. m
    BY <1>4, <1>6
  <2> QED BY <1>5, <2>1 DEF Page
<1> HIDE DEF m
<1>11. Page(c) \in [1 .. m -> Sessions] /\ Len(Page(c)) = m
  BY <1>4, <1>6, <1>7, <1>9, <1>10
<1>12. \A i \in 1 .. m : Page(c)[i] = q[i] /\ q[i] \in older
  BY <1>4, <1>6, <1>9, <1>10
<1>13. ASSUME n > PageSize
       PROVE  /\ Last(Page(c)) \in older
              /\ \A s \in older : (\E i \in 1 .. m : Page(c)[i] = s) \/ updated[s] < updated[Last(Page(c))]
  <2>1. Last(Page(c)) = q[m] /\ m \in 1 .. m /\ m \in 1 .. n
    BY <1>4, <1>9, <1>11, <1>12, <1>13 DEF Last
  <2>2. ASSUME NEW s \in older, ~\E i \in 1 .. m : Page(c)[i] = s PROVE updated[s] < updated[q[m]]
    <3>1. PICK i \in 1 .. n : q[i] = s
      BY <1>6
    <3>2. m < i
      BY <1>4, <1>9, <1>12, <2>2, <3>1
    <3> QED BY <1>6, <2>1, <3>1, <3>2
  <2> QED BY <1>12, <2>1, <2>2
<1>14. ASSUME n <= PageSize PROVE \A s \in older : \E i \in 1 .. m : Page(c)[i] = s
  BY <1>6, <1>9, <1>12, <1>14
<1>15. Len(Older(c)) = n
  BY <1>5, <1>6
<1> QED BY <1>4, <1>7, <1>8, <1>9, <1>11, <1>12, <1>13, <1>14, <1>15

\* Sorted and each ID once, and none of the IDs is lost.
LEMMA DistinctIs ==
  ASSUME NEW E, \A e \in E : e.id \in Nat, NEW got \in Seq(E)
  PROVE  /\ Distinct(got) \in Seq(E)
         /\ \A i, j \in 1 .. Len(Distinct(got)) : i < j => Distinct(got)[i].id < Distinct(got)[j].id
         /\ \A i \in 1 .. Len(got) : \E j \in 1 .. Len(Distinct(got)) : Distinct(got)[j].id = got[i].id
<1> DEFINE first == {i \in DOMAIN got : \A j \in 1 .. i - 1 : got[j].id # got[i].id}
           key == [i \in first |-> got[i].id]
<1>1. DOMAIN got = 1 .. Len(got) /\ Len(got) \in Nat /\ \A i \in 1 .. Len(got) : got[i] \in E /\ got[i].id \in Nat
  OBVIOUS
<1>2. first \in SUBSET (1 .. Len(got)) /\ IsFiniteSet(first)
  <2>1. first \in SUBSET (1 .. Len(got)) /\ IsFiniteSet(1 .. Len(got))
    BY <1>1, FS_Interval
  <2> HIDE DEF first
  <2> QED BY <2>1, FS_Subset
<1>3. key \in [first -> Int] /\ \A i, j \in first : key[i] = key[j] => i = j
  <2>1. key \in [first -> Int]
    BY <1>1
  <2>2. ASSUME NEW i \in first, NEW j \in first, key[i] = key[j], i < j PROVE FALSE
    <3>1. i \in 1 .. j - 1
      BY <1>1, <2>2
    <3> QED BY <2>2, <3>1
  <2>3. \A i \in first : i \in Nat
    BY <1>1
  <2> HIDE DEF first, key
  <2> QED BY <2>1, <2>2, <2>3
<1>4. PICK S, k, q : S = first /\ k = key /\ q = InOrder(S, k)
  OBVIOUS
<1>5. PICK n : n = Cardinality(S)
  OBVIOUS
<1>6. /\ n \in Nat /\ q \in [1 .. n -> S]
      /\ \A i, j \in 1 .. n : i < j => k[q[i]] < k[q[j]]
      /\ \A s \in S : \E i \in 1 .. n : q[i] = s
  <2>1. IsFiniteSet(S) /\ k \in [S -> Int] /\ \A s, t \in S : k[s] = k[t] => s = t
    BY <1>2, <1>3, <1>4
  <2> HIDE DEF first, key
  <2> QED BY <1>4, <1>5, <2>1, Ordered
<1>7. Distinct(got) = [i \in 1 .. n |-> got[q[i]]]
  <2>1. DOMAIN q = 1 .. n
    BY <1>6
  <2>2. q = InOrder(first, key)
    BY <1>4
  <2> QED BY <2>1, <2>2 DEF Distinct
<1>8. \A i \in 1 .. n : q[i] \in S /\ q[i] \in 1 .. Len(got) /\ k[q[i]] = got[q[i]].id
  BY <1>2, <1>4, <1>6
<1>9. /\ Distinct(got) \in Seq(E) /\ Len(Distinct(got)) = n
      /\ \A i \in 1 .. n : Distinct(got)[i] = got[q[i]]
  <2> HIDE DEF first, key
  <2>1. Distinct(got) \in [1 .. n -> E]
    BY <1>1, <1>7, <1>8
  <2> QED BY <1>6, <1>7, <2>1
<1>10. ASSUME NEW i \in 1 .. Len(got) PROVE \E j \in 1 .. n : Distinct(got)[j].id = got[i].id
  <2> DEFINE same == {j \in 1 .. Len(got) : got[j].id = got[i].id}
  <2>1. same \in SUBSET Nat /\ same # {}
    BY <1>1
  <2>2. PICK j \in same : \A x \in same : j <= x
    <3> HIDE DEF same
    <3> QED BY <2>1, NatMin
  <2>3. j \in S
    <3>1. \A x \in 1 .. j - 1 : got[x].id # got[j].id
      BY <1>1, <2>2
    <3>2. j \in DOMAIN got
      BY <1>1
    <3> QED BY <1>4, <3>1, <3>2
  <2>4. PICK x \in 1 .. n : q[x] = j
    BY <1>6, <2>3
  <2> QED BY <1>9, <2>4
<1>11. ASSUME NEW i \in 1 .. n, NEW j \in 1 .. n, i < j PROVE Distinct(got)[i].id < Distinct(got)[j].id
  <2>1. k[q[i]] < k[q[j]]
    BY <1>6, <1>11
  <2> QED BY <1>8, <1>9, <2>1
<1> QED BY <1>9, <1>10, <1>11

\* The sessions a listing can begin with: of each ID one, some not there yet.
PagesStart(order) ==
  /\ order \in Seq(Sessions) /\ order # <<>>
  /\ \A i, j \in DOMAIN order : order[i] = order[j] => i = j

LEMMA PagesBegun ==
  ASSUME NEW order, PagesStart(order), NEW fault \in BOOLEAN, NEW shapes, NEW location,
         PagesInit(order, fault, shapes, location)
  PROVE  PagesInv
<1> USE PagesAssumption
<1>1. /\ DOMAIN order = 1 .. Len(order) /\ Len(order) \in Nat /\ order \in [1 .. Len(order) -> Sessions]
      /\ \A i, j \in 1 .. Len(order) : order[i] = order[j] => i = j
  BY DEF PagesStart
<1>2. Len(order) <= Cardinality(Sessions)
  <2>1. order \in Injection(1 .. Len(order), Sessions)
    BY <1>1, Fun_IsInj
  <2>2. Cardinality(1 .. Len(order)) <= Cardinality(Sessions)
    BY <2>1, FS_Injection
  <2>3. Cardinality(1 .. Len(order)) = Len(order)
    <3>1. PICK n \in Nat : n = Len(order)
      BY <1>1
    <3>2. Cardinality(1 .. n) = n
      BY FS_Interval
    <3> QED BY <3>1, <3>2
  <2> QED BY <2>2, <2>3
<1>3. Cardinality(Sessions) \in Nat /\ LastUpdate \in Nat /\ Cardinality(Sessions) <= LastUpdate
  BY SessionsCounted DEF LastUpdate
<1>4. /\ updated = [s \in Sessions |-> IF \E i \in DOMAIN order : order[i] = s
                                       THEN CHOOSE i \in DOMAIN order : order[i] = s ELSE 0]
      /\ clock = Cardinality(Sessions) /\ faulty = fault
      /\ fetch = [step |-> "pages", cursor |-> LastUpdate + 1, cursors |-> {}, pages |-> 0,
                  got |-> <<>>, asked |-> FALSE, active |-> {}]
  BY DEF PagesInit
<1>5. ASSUME NEW s \in Sessions
      PROVE  \/ updated[s] = 0
             \/ updated[s] \in 1 .. Len(order) /\ order[updated[s]] = s
  BY <1>1, <1>4
<1>6. UpdatesSound
  <2>1. \A s \in Sessions : updated[s] \in Nat /\ updated[s] <= clock
    BY <1>1, <1>2, <1>3, <1>4, <1>5
  <2>2. updated \in [Sessions -> Nat]
    BY <1>4, <2>1
  <2>3. \A s, t \in Sessions : updated[s] = updated[t] => s = t \/ updated[s] = 0
    BY <1>5
  <2> QED BY <1>3, <1>4, <2>1, <2>2, <2>3 DEF UpdatesSound
<1>7. CursorsSound
  <2>1. fetch.cursors \ {0} = {} /\ fetch.pages = 0 /\ fetch.cursor = LastUpdate + 1
    BY <1>4
  <2>2. Cardinality(fetch.cursors \ {0}) = 0
    BY <2>1, FS_EmptySet
  <2> QED BY <1>3, <1>4, <2>1, <2>2 DEF CursorsSound
<1>8. ListSound
  <2>1. \A s \in Sessions : Steady(s) => updated[s] < fetch.cursor
    BY <1>3, <1>4 DEF Steady
  <2> QED BY <1>4, <2>1 DEF ListSound
<1>9. DOMAIN fetch = FetchFields /\ fetch = [x \in FetchFields |-> fetch[x]]
  BY <1>4 DEF FetchFields
<1> QED BY <1>4, <1>6, <1>7, <1>8, <1>9 DEF PagesInv

\* What happens to a session leaves the others alone.
LEMMA ChangesKeep ==
  ASSUME PagesInv, NEW s \in Sessions, Touch(s) \/ Delete(s)
  PROVE  PagesInv'
<1>1. /\ clock' = clock + 1 /\ faulty' = faulty /\ shape' = shape /\ place' = place /\ fetch' = fetch
      /\ clock < IF faulty THEN Cardinality(Sessions) + 1 ELSE LastUpdate
  BY DEF Touch, Delete, Changes
<1>2. \E u \in {0, clock + 1} : updated' = [updated EXCEPT ![s] = u]
  BY DEF Touch, Delete
<1>3. \A t : t # s => (t \in active' <=> t \in active)
  BY DEF Touch, Delete
<1>4. UpdatesSound /\ Cardinality(Sessions) \in Nat /\ LastUpdate \in Nat
  BY SessionsCounted DEF PagesInv
<1>5. PICK u \in {0, clock + 1} : updated' = [updated EXCEPT ![s] = u]
  BY <1>2
<1>6. /\ u \in Nat /\ updated'[s] = u /\ \A t \in Sessions : t # s => updated'[t] = updated[t]
      /\ updated' \in [Sessions -> Nat] /\ clock \in Nat
  BY <1>4, <1>5 DEF UpdatesSound
<1>7. UpdatesSound'
  <2>1. \A t \in Sessions : updated'[t] \in Nat /\ updated'[t] <= clock'
    BY <1>1, <1>4, <1>6 DEF UpdatesSound
  <2>2. \A t \in Sessions : t # s => updated[t] < clock + 1 /\ updated[t] \in Nat
    BY <1>4 DEF UpdatesSound
  <2>3. ASSUME NEW t \in Sessions, NEW x \in Sessions, updated'[t] = updated'[x], t # x PROVE updated'[t] = 0
    BY <1>4, <1>5, <1>6, <2>2, <2>3 DEF UpdatesSound
  <2>4. clock' \in Nat /\ Cardinality(Sessions) <= clock' /\ clock' <= IF faulty THEN Cardinality(Sessions) + 1 ELSE LastUpdate
    BY <1>1, <1>4 DEF UpdatesSound
  <2> QED BY <1>1, <1>4, <1>6, <2>1, <2>3, <2>4 DEF UpdatesSound, LastUpdate
<1>8. CursorsSound'
  <2>1. 0 .. clock \subseteq 0 .. clock'
    BY <1>1, <1>6
  <2> QED BY <1>1, <2>1 DEF PagesInv, CursorsSound
<1>9. ListSound'
  <2>1. \A t \in Sessions : Steady(t)' => t # s /\ Steady(t) /\ updated'[t] = updated[t]
    BY <1>4, <1>5, <1>6 DEF Steady, UpdatesSound
  <2>2. Entries' = Entries
    BY <1>1 DEF Entries, Directory
  <2>3. \A t : Listed(t)' <=> Listed(t)
    BY <1>1 DEF Listed
  <2> QED BY <1>1, <1>3, <2>1, <2>2, <2>3 DEF PagesInv, ListSound
<1> QED BY <1>1, <1>7, <1>8, <1>9 DEF PagesInv

\* The list grows at its end.
LEMMA GotGrows ==
  ASSUME PagesInv, NEW m \in Nat, NEW page \in [1 .. m -> Sessions],
         fetch'.got = fetch.got \o [i \in DOMAIN page |->
                        [id |-> page[i], directory |-> Directory(shape[page[i]], place)]]
  PROVE  /\ fetch'.got \in Seq(Entries)
         /\ \A s : Listed(s) => Listed(s)'
         /\ \A i \in 1 .. m : Listed(page[i])'
<1> DEFINE more == [i \in DOMAIN page |-> [id |-> page[i], directory |-> Directory(shape[page[i]], place)]]
<1>1. fetch.got \in Seq(Entries)
  BY DEF PagesInv, ListSound
<1>2. more \in Seq(Entries) /\ Len(more) = m /\ \A i \in 1 .. m : more[i].id = page[i]
  <2>1. DOMAIN page = 1 .. m /\ \A i \in 1 .. m : more[i] \in Entries /\ more[i].id = page[i]
    BY DEF Entries
  <2>2. more \in [1 .. m -> Entries]
    BY <2>1
  <2> HIDE DEF more
  <2> QED BY <2>1, <2>2
<1>3. fetch'.got = fetch.got \o more
  OBVIOUS
<1> HIDE DEF more
<1>4. /\ fetch'.got \in Seq(Entries) /\ Len(fetch'.got) = Len(fetch.got) + m
      /\ \A i \in 1 .. Len(fetch.got) : fetch'.got[i] = fetch.got[i]
      /\ \A i \in 1 .. m : fetch'.got[Len(fetch.got) + i] = more[i]
  <2>1. PICK E, got, more2, grown : E = Entries /\ got = fetch.got /\ more2 = more /\ grown = fetch'.got
    OBVIOUS
  <2>2. got \in Seq(E) /\ more2 \in Seq(E) /\ Len(more2) = m /\ grown = got \o more2
    BY <1>1, <1>2, <1>3, <2>1
  <2>3. grown \in Seq(E) /\ Len(grown) = Len(got) + m
    <3>1. grown \in Seq(E)
      BY <2>2
    <3>2. got \in Seq(E) /\ more2 \in Seq(E)
      BY <2>2
    <3>3. Len(got \o more2) = Len(got) + Len(more2)
      BY <3>2
    <3>4. Len(grown) = Len(got) + m
      BY <2>2, <3>3, Zenon
    <3> QED BY <3>1, <3>4
  <2>4. \A i \in 1 .. Len(got) : grown[i] = got[i]
    BY <2>2
  <2>5. \A i \in 1 .. m : grown[Len(got) + i] = more2[i]
    BY <2>2
  <2> QED BY <2>1, <2>3, <2>4, <2>5
<1>5. ASSUME NEW s, Listed(s) PROVE Listed(s)'
  <2>1. PICK i \in 1 .. Len(fetch.got) : fetch.got[i].id = s
    BY <1>5 DEF Listed
  <2>2. i \in 1 .. Len(fetch'.got) /\ fetch'.got[i].id = s
    BY <1>1, <1>4, <2>1
  <2> QED BY <2>2 DEF Listed
<1>6. ASSUME NEW i \in 1 .. m PROVE Listed(page[i])'
  <2>1. Len(fetch.got) + i \in 1 .. Len(fetch'.got) /\ fetch'.got[Len(fetch.got) + i].id = page[i]
    BY <1>1, <1>2, <1>4
  <2> QED BY <2>1 DEF Listed
<1> QED BY <1>4, <1>5, <1>6

LEMMA PageKeeps == ASSUME PagesInv, FetchPage PROVE PagesInv'
<1> USE PagesAssumption
<1>1. PICK next \in NextCursors(fetch.cursor) :
        fetch' = [fetch EXCEPT
                    !.got = @ \o [i \in DOMAIN Page(fetch.cursor) |->
                                    [id |-> Page(fetch.cursor)[i],
                                     directory |-> Directory(shape[Page(fetch.cursor)[i]], place)]],
                    !.step = IF next = 0 THEN "listed" ELSE IF Repeated(next) THEN "looped" ELSE @,
                    !.cursors = @ \cup {next}, !.cursor = next, !.pages = @ + 1]
  BY DEF FetchPage
<1>2. /\ updated' = updated /\ active' = active /\ clock' = clock /\ faulty' = faulty
      /\ shape' = shape /\ place' = place /\ fetch.step = "pages"
  BY DEF FetchPage, serverVars
<1>3. UpdatesSound /\ CursorsSound /\ ListSound /\ Cardinality(Sessions) \in Nat /\ LastUpdate \in Nat
  BY SessionsCounted DEF PagesInv
<1>4. /\ DOMAIN fetch = FetchFields /\ DOMAIN fetch' = FetchFields /\ fetch' = [x \in FetchFields |-> fetch'[x]]
      /\ fetch'.step = (IF next = 0 THEN "listed" ELSE IF Repeated(next) THEN "looped" ELSE "pages")
      /\ fetch'.cursors = fetch.cursors \cup {next} /\ fetch'.cursor = next
      /\ fetch'.pages = fetch.pages + 1
      /\ fetch'.asked = fetch.asked /\ fetch'.active = fetch.active
      /\ fetch'.got = fetch.got \o [i \in DOMAIN Page(fetch.cursor) |->
                                      [id |-> Page(fetch.cursor)[i],
                                       directory |-> Directory(shape[Page(fetch.cursor)[i]], place)]]
  BY <1>1, <1>2 DEF PagesInv, FetchFields
<1>5. PICK m \in Nat :
        /\ Page(fetch.cursor) \in [1 .. m -> Sessions] /\ Len(Page(fetch.cursor)) = m
        /\ \A i \in 1 .. m : updated[Page(fetch.cursor)[i]] \in 1 .. fetch.cursor - 1
        /\ Len(Older(fetch.cursor)) > PageSize =>
             /\ Last(Page(fetch.cursor)) \in Sessions
             /\ updated[Last(Page(fetch.cursor))] \in 1 .. fetch.cursor - 1
             /\ \A s \in Sessions :
                  updated[s] \in 1 .. fetch.cursor - 1 =>
                    \/ \E i \in 1 .. m : Page(fetch.cursor)[i] = s
                    \/ updated[s] < updated[Last(Page(fetch.cursor))]
        /\ Len(Older(fetch.cursor)) <= PageSize =>
             \A s \in Sessions : updated[s] \in 1 .. fetch.cursor - 1 =>
               \E i \in 1 .. m : Page(fetch.cursor)[i] = s
        /\ Len(Older(fetch.cursor)) \in Nat
  BY <1>3, PageIs DEF CursorsSound
<1>p. PICK page : page = Page(fetch.cursor)
  OBVIOUS
<1>6. /\ fetch'.got \in Seq(Entries)
      /\ \A s : Listed(s) => Listed(s)'
      /\ \A i \in 1 .. m : Listed(page[i])'
  <2>1. page \in [1 .. m -> Sessions]
    BY <1>5, <1>p
  <2>2. fetch'.got = fetch.got \o [i \in DOMAIN page |->
                        [id |-> page[i], directory |-> Directory(shape[page[i]], place)]]
    BY <1>4, <1>p
  <2> QED BY <2>1, <2>2, GotGrows
<1>7. /\ next \in 0 .. clock
      /\ ~faulty =>
           \/ Len(Older(fetch.cursor)) > PageSize /\ next = updated[Last(Page(fetch.cursor))]
           \/ Len(Older(fetch.cursor)) <= PageSize /\ next = 0
  <2>1. CASE faulty
    <3>1. next = 0 \/ next \in Range(updated)
      BY <2>1 DEF NextCursors
    <3>2. \A s \in Sessions : updated[s] \in 0 .. clock
      BY <1>3 DEF UpdatesSound
    <3>3. DOMAIN updated = Sessions /\ clock \in Nat
      BY <1>3 DEF UpdatesSound
    <3>4. next \in 0 .. clock
      <4>1. CASE next = 0
        BY <3>3, <4>1
      <4>2. CASE next \in Range(updated)
        <5>1. PICK s \in Sessions : next = updated[s]
          BY <3>3, <4>2 DEF Range
        <5> QED BY <3>2, <5>1
      <4> QED BY <3>1, <4>1, <4>2
    <3> QED BY <2>1, <3>4
  <2>2. CASE ~faulty
    <3>1. CASE Len(Older(fetch.cursor)) > PageSize
      <4>1. next = updated[Last(Page(fetch.cursor))]
        BY <2>2, <3>1 DEF NextCursors
      <4>2. next \in 0 .. clock
        <5>1. PICK last : last = Last(Page(fetch.cursor))
          OBVIOUS
        <5>2. last \in Sessions /\ next = updated[last]
          BY <1>5, <3>1, <4>1, <5>1
        <5> QED BY <1>3, <5>2 DEF UpdatesSound
      <4> QED BY <2>2, <3>1, <4>1, <4>2
    <3>2. CASE ~(Len(Older(fetch.cursor)) > PageSize)
      <4>1. next = 0
        BY <2>2, <3>2 DEF NextCursors
      <4>2. Len(Older(fetch.cursor)) <= PageSize
        BY <1>5, <3>2, PagesAssumption
      <4>3. next \in 0 .. clock
        BY <1>3, <4>1 DEF UpdatesSound
      <4> QED BY <2>2, <4>1, <4>2, <4>3
    <3> QED BY <3>1, <3>2
  <2> QED BY <2>1, <2>2
<1>8. ~faulty /\ next # 0 => next < fetch.cursor /\ next \notin fetch.cursors
  BY <1>2, <1>3, <1>5, <1>7 DEF CursorsSound
<1>9. CursorsSound'
  <2> DEFINE old == fetch.cursors \ {0}
             new == fetch'.cursors \ {0}
  <2>1. clock \in Nat /\ fetch.cursors \in SUBSET (0 .. clock) /\ fetch.pages \in Nat
        /\ fetch.pages = Cardinality(old) /\ 0 \notin fetch.cursors
    BY <1>2, <1>3 DEF CursorsSound, UpdatesSound
  <2>2. IsFiniteSet(old) /\ Cardinality(old) \in Nat
    <3>1. IsFiniteSet(0 .. clock) /\ old \in SUBSET (0 .. clock)
      BY <2>1, FS_Interval
    <3> HIDE DEF old
    <3> QED BY <3>1, FS_Subset, FS_CardinalityType
  <2>3. CASE next = 0
    <3>1. Cardinality(fetch'.cursors \ {0}) = Cardinality(old)
      <4>1. new = old
        BY <1>4, <2>3
      <4> HIDE DEF old
      <4> QED BY <4>1
    <3>2. fetch'.step = "listed" /\ fetch'.cursor = 0 /\ fetch'.pages = Cardinality(old) + 1
      BY <1>4, <2>1, <2>3
    <3>3. fetch'.cursors \in SUBSET (0 .. clock')
      BY <1>2, <1>4, <1>7, <2>1
    <3> HIDE DEF old
    <3> QED BY <1>2, <2>2, <3>1, <3>2, <3>3 DEF CursorsSound
  <2>4. CASE next # 0 /\ Repeated(next)
    <3>1. new = old
      BY <1>4, <2>4 DEF Repeated
    <3>2. faulty
      BY <1>8, <2>4 DEF Repeated
    <3> QED BY <1>2, <1>4, <1>7, <2>1, <2>2, <2>4, <3>1, <3>2 DEF CursorsSound
  <2>5. CASE next # 0 /\ ~Repeated(next)
    <3>1. new = old \cup {next} /\ next \notin old
      BY <1>4, <2>5 DEF Repeated
    <3>2. Cardinality(new) = Cardinality(old) + 1
      <4> HIDE DEF old, new
      <4> QED BY <2>2, <3>1, FS_AddElement
    <3>3. ~faulty => \A c \in fetch'.cursors : next <= c
      BY <1>2, <1>3, <1>4, <1>7, <1>8, <2>1, <2>5 DEF CursorsSound
    <3> HIDE DEF old
    <3> QED BY <1>2, <1>4, <1>7, <2>1, <2>2, <2>5, <3>2, <3>3 DEF CursorsSound
  <2> QED BY <2>3, <2>4, <2>5
<1>10. ListSound'
  <2>1. Entries' = Entries /\ \A s : Steady(s)' <=> Steady(s)
    BY <1>2 DEF Entries, Directory, Steady
  <2>2. ASSUME ~faulty, NEW s \in Sessions, Steady(s), ~Listed(s)'
        PROVE  next # 0 /\ updated[s] < next
    <3>1. updated[s] < fetch.cursor /\ updated[s] \in Nat /\ updated[s] >= 1
      BY <1>2, <1>3, <1>6, <2>2 DEF ListSound, Steady, UpdatesSound
    <3>2. updated[s] \in 1 .. fetch.cursor - 1
      BY <1>3, <3>1 DEF CursorsSound
    <3>3. ASSUME NEW i \in 1 .. m, Page(fetch.cursor)[i] = s PROVE FALSE
      <4>1. page[i] = s
        BY <1>p, <3>3
      <4> QED BY <1>6, <2>2, <4>1
    <3>4. Len(Older(fetch.cursor)) > PageSize /\ next = updated[Last(Page(fetch.cursor))]
      BY <1>5, <1>7, <2>2, <3>2, <3>3
    <3> QED BY <1>5, <3>2, <3>3, <3>4
  <2>3. fetch'.step \in {"listed", "looped", "pages"} /\ (fetch'.step = "listed" <=> next = 0)
    BY <1>4
  <2>4. \A s \in Sessions : ~faulty /\ Steady(s) /\ fetch.asked => (s \in fetch.active <=> s \in active)
    BY <1>3 DEF ListSound
  <2> QED BY <1>2, <1>4, <1>6, <2>1, <2>2, <2>3, <2>4 DEF ListSound
<1>11. UpdatesSound'
  BY <1>2, <1>3 DEF UpdatesSound, LastUpdate
<1>12. fetch'.step \in {"pages", "listed", "looped", "failed", "done"} /\ fetch'.asked \in BOOLEAN
  BY <1>4 DEF PagesInv
<1> QED BY <1>4, <1>9, <1>10, <1>11, <1>12 DEF PagesInv

\* A request of another kind, or the end of the listing, leaves the cursors alone.
LEMMA StepKeeps ==
  ASSUME PagesInv, FetchActive \/ FetchFails \/ Assemble PROVE PagesInv'
<1>1. /\ updated' = updated /\ active' = active /\ clock' = clock /\ faulty' = faulty
      /\ shape' = shape /\ place' = place
  BY DEF FetchActive, FetchFails, Assemble, serverVars
<1>2. UpdatesSound' /\ Entries' = Entries /\ \A s : Steady(s)' <=> Steady(s)
  BY <1>1 DEF PagesInv, UpdatesSound, LastUpdate, Entries, Directory, Steady
<1>3. CursorsSound /\ ListSound /\ DOMAIN fetch = FetchFields
  BY DEF PagesInv
<1>4. CASE FetchActive
  <2>1. fetch.step \in {"pages", "listed"} /\ fetch' = [fetch EXCEPT !.asked = TRUE, !.active = active]
    BY <1>4 DEF FetchActive
  <2>2. /\ DOMAIN fetch' = FetchFields /\ fetch' = [x \in FetchFields |-> fetch'[x]]
        /\ fetch'.asked = TRUE /\ fetch'.active = active /\ fetch'.step = fetch.step
        /\ fetch'.cursor = fetch.cursor /\ fetch'.cursors = fetch.cursors /\ fetch'.pages = fetch.pages
        /\ fetch'.got = fetch.got
    BY <1>3, <2>1 DEF FetchFields
  <2>3. CursorsSound'
    BY <1>1, <1>3, <2>2 DEF CursorsSound
  <2>4. \A s : Listed(s)' <=> Listed(s)
    BY <2>2 DEF Listed
  <2>5. ListSound'
    BY <1>1, <1>2, <1>3, <2>1, <2>2, <2>4 DEF ListSound
  <2> QED BY <1>2, <2>1, <2>2, <2>3, <2>5 DEF PagesInv
<1>5. CASE FetchFails
  <2>1. fetch' = [fetch EXCEPT !.step = "failed"]
    BY <1>5 DEF FetchFails
  <2>2. /\ DOMAIN fetch' = FetchFields /\ fetch' = [x \in FetchFields |-> fetch'[x]]
        /\ fetch'.asked = fetch.asked /\ fetch'.active = fetch.active /\ fetch'.step = "failed"
        /\ fetch'.cursor = fetch.cursor /\ fetch'.cursors = fetch.cursors /\ fetch'.pages = fetch.pages
        /\ fetch'.got = fetch.got
    BY <1>3, <2>1 DEF FetchFields
  <2>3. CursorsSound'
    BY <1>1, <1>3, <2>2 DEF CursorsSound
  <2>4. ListSound'
    BY <1>1, <1>2, <1>3, <2>2 DEF ListSound
  <2> QED BY <1>2, <2>2, <2>3, <2>4 DEF PagesInv
<1>6. CASE Assemble
  <2>1. /\ fetch.step = "listed" /\ fetch.asked
        /\ fetch' = [fetch EXCEPT !.step = "done", !.got = Distinct(fetch.got)]
    BY <1>6 DEF Assemble
  <2>2. /\ DOMAIN fetch' = FetchFields /\ fetch' = [x \in FetchFields |-> fetch'[x]]
        /\ fetch'.asked = fetch.asked /\ fetch'.active = fetch.active /\ fetch'.step = "done"
        /\ fetch'.cursor = fetch.cursor /\ fetch'.cursors = fetch.cursors /\ fetch'.pages = fetch.pages
        /\ fetch'.got = Distinct(fetch.got)
    BY <1>3, <2>1 DEF FetchFields
  <2>3. CursorsSound'
    BY <1>1, <1>3, <2>2 DEF CursorsSound
  <2>4. PICK E, got : E = Entries /\ got = fetch.got
    OBVIOUS
  <2>5. got \in Seq(E) /\ \A e \in E : e.id \in Nat
    <3>1. \A e \in Entries : e.id \in Sessions
      BY DEF Entries
    <3> QED BY <1>3, <2>4, <3>1, PagesAssumption DEF ListSound
  <2>6. /\ fetch'.got \in Seq(Entries)
        /\ \A i, j \in 1 .. Len(fetch'.got) : i < j => fetch'.got[i].id < fetch'.got[j].id
        /\ \A i \in 1 .. Len(fetch.got) : \E j \in 1 .. Len(fetch'.got) : fetch'.got[j].id = fetch.got[i].id
    <3>1. /\ Distinct(got) \in Seq(E)
          /\ \A i, j \in 1 .. Len(Distinct(got)) : i < j => Distinct(got)[i].id < Distinct(got)[j].id
          /\ \A i \in 1 .. Len(got) : \E j \in 1 .. Len(Distinct(got)) : Distinct(got)[j].id = got[i].id
      BY <2>5, DistinctIs
    <3>2. fetch'.got = Distinct(got)
      BY <2>2, <2>4
    <3> QED BY <2>4, <3>1, <3>2
  <2>7. \A s : Listed(s) => Listed(s)'
    BY <2>6 DEF Listed
  <2>8. ListSound'
    BY <1>1, <1>2, <1>3, <2>1, <2>2, <2>6, <2>7 DEF ListSound
  <2> QED BY <1>2, <2>1, <2>2, <2>3, <2>8 DEF PagesInv
<1> QED BY <1>4, <1>5, <1>6

LEMMA PagesKept == ASSUME PagesInv, PagesNext \/ UNCHANGED pagesVars PROVE PagesInv'
<1>1. CASE UNCHANGED pagesVars
  <2>1. /\ updated' = updated /\ active' = active /\ clock' = clock /\ faulty' = faulty
        /\ shape' = shape /\ place' = place /\ fetch' = fetch
    BY <1>1 DEF pagesVars
  <2>2. UpdatesSound' <=> UpdatesSound
    BY <2>1 DEF UpdatesSound, LastUpdate
  <2>3. CursorsSound' <=> CursorsSound
    BY <2>1 DEF CursorsSound
  <2>4. Entries' = Entries /\ (\A s : Steady(s)' <=> Steady(s)) /\ (\A s : Listed(s)' <=> Listed(s))
    BY <2>1 DEF Entries, Directory, Steady, Listed
  <2>5. ListSound' <=> ListSound
    BY <2>1, <2>4 DEF ListSound
  <2> QED BY <2>1, <2>2, <2>3, <2>5 DEF PagesInv
<1>2. CASE PagesNext
  BY <1>2, ChangesKeep, PageKeeps, StepKeeps DEF PagesNext
<1> QED BY <1>1, <1>2

LEMMA PagesMean == ASSUME PagesInv PROVE SessionsFetched
<1>1. UpdatesSound /\ CursorsSound /\ ListSound /\ Cardinality(Sessions) \in Nat /\ LastUpdate \in Nat
  BY SessionsCounted DEF PagesInv
<1>2. fetch.pages <= LastUpdate + 2
  <2> DEFINE named == fetch.cursors \ {0}
  <2>1. clock \in Nat /\ clock <= LastUpdate + 1
    BY <1>1, PagesAssumption DEF UpdatesSound, LastUpdate
  <2>2. IsFiniteSet(1 .. clock) /\ Cardinality(1 .. clock) = clock
    <3>1. PICK n \in Nat : n = clock
      BY <2>1
    <3>2. IsFiniteSet(1 .. n) /\ Cardinality(1 .. n) = n
      BY FS_Interval
    <3> QED BY <3>1, <3>2
  <2>3. named \in SUBSET (1 .. clock)
    BY <1>1, <2>1 DEF CursorsSound
  <2>4. fetch.pages \in Nat /\ fetch.pages <= Cardinality(named) + 1
    BY <1>1 DEF CursorsSound
  <2>5. Cardinality(named) <= clock /\ Cardinality(named) \in Nat
    <3> HIDE DEF named
    <3> QED BY <2>2, <2>3, FS_Subset, FS_CardinalityType
  <2> HIDE DEF named
  <2> QED BY <1>1, <2>1, <2>4, <2>5
<1>3. fetch.step = "looped" => faulty
  BY <1>1 DEF CursorsSound
<1>4. ASSUME fetch.step = "done"
      PROVE  /\ \A i, j \in DOMAIN fetch.got : i < j => fetch.got[i].id < fetch.got[j].id
             /\ \A s \in Sessions :
                  ~faulty /\ updated[s] \in 1 .. Cardinality(Sessions) =>
                    /\ \E i \in DOMAIN fetch.got : fetch.got[i].id = s
                    /\ Status(s) = "busy" <=> s \in active
             /\ \A i \in DOMAIN fetch.got :
                  LET entry == shape[fetch.got[i].id]
                      names == {entry.own, IF entry.located THEN entry.outer ELSE entry.inner} \ {NoPath}
                  IN  names # {} => fetch.got[i].directory \in names
  <2>1. fetch.got \in Seq(Entries) /\ DOMAIN fetch.got = 1 .. Len(fetch.got)
    BY <1>1 DEF ListSound
  <2>2. \A i, j \in DOMAIN fetch.got : i < j => fetch.got[i].id < fetch.got[j].id
    BY <1>1, <1>4, <2>1 DEF ListSound
  <2>3. ASSUME NEW s \in Sessions, ~faulty, Steady(s)
        PROVE  (\E i \in DOMAIN fetch.got : fetch.got[i].id = s) /\ (Status(s) = "busy" <=> s \in active)
    <3>1. Listed(s) /\ (s \in fetch.active <=> s \in active)
      BY <1>1, <1>4, <2>3 DEF ListSound
    <3> QED BY <2>1, <3>1 DEF Listed, Status
  <2>4. ASSUME NEW i \in DOMAIN fetch.got
        PROVE  LET entry == shape[fetch.got[i].id]
                   names == {entry.own, IF entry.located THEN entry.outer ELSE entry.inner} \ {NoPath}
               IN  names # {} => fetch.got[i].directory \in names
    <3>1. fetch.got[i] \in Entries
      BY <2>1, <2>4
    <3>2. PICK s \in Sessions : fetch.got[i] = [id |-> s, directory |-> Directory(shape[s], place)]
      BY <3>1 DEF Entries
    <3>3. fetch.got[i].id = s /\ fetch.got[i].directory = Directory(shape[s], place)
      BY <3>2
    <3> QED BY <3>3 DEF Directory
  <2> QED BY <2>2, <2>3, <2>4 DEF Steady
<1> QED BY <1>2, <1>3, <1>4 DEF SessionsFetched

\* Listings of any sessions, in any order, with any entries.
PagesSpec ==
  /\ \E order, shapes, location : \E fault \in BOOLEAN :
       PagesStart(order) /\ PagesInit(order, fault, shapes, location)
  /\ [][PagesNext]_pagesVars

\* Whatever becomes of the sessions, and whatever cursors a server at fault names,
\* the pages end, and what is listed is sorted, each session once, with none
\* missing that stayed, and with its own directory and status (client.rs,
\* OpenCodeV2Client::snapshot): for any number of sessions, size of page and
\* number of changes.
THEOREM AnyListingFetched == PagesSpec => []SessionsFetched
<1>1. ASSUME \E order, shapes, location : \E fault \in BOOLEAN :
               PagesStart(order) /\ PagesInit(order, fault, shapes, location)
      PROVE  PagesInv
  BY <1>1, PagesBegun
<1>2. PagesInv /\ [PagesNext]_pagesVars => PagesInv'
  BY PagesKept
<1>3. PagesInv => SessionsFetched
  BY PagesMean
<1> QED BY <1>1, <1>2, <1>3, PTL DEF PagesSpec

-----------------------------------------------------------------------------
(* The event stream.                                                       *)

Bytes == Endings \cup {"d", "c"}

\* Line p is blank, by its neighbours: its ending begins there, nothing is before.
IsBlank(t, p) ==
  /\ p \in 1 .. Len(t) /\ t[p] \in Endings
  /\ ~(p > 1 /\ t[p - 1] = "r" /\ t[p] = "n")
  /\ p = 1 \/ t[p - 1] \in Endings

\* Nothing is consumed, or the last byte is of the ending of a blank line.
AtBlank(t, c) ==
  \/ c = 0
  \/ IsBlank(t, c)
  \/ c \in 2 .. Len(t) /\ IsBlank(t, c - 1) /\ t[c - 1] = "r" /\ t[c] = "n"

Consumed == fed - Len(buffer)

\* The events yielded are the first ones of the text.
EventsSound ==
  /\ Len(events) <= Len(Events(text))
  /\ \A i \in 1 .. Len(events) :
       events[i] = SubSeq(text, Events(text)[i].first, Events(text)[i].ending - 1)
  /\ ~failed =>
       /\ \A i \in 1 .. Len(Events(text)) : Events(text)[i].first <= Consumed <=> i <= Len(events)
       /\ \A block \in Blocks(text) :
            block.first <= Consumed => block.ending - block.first <= MaxFrame
  /\ failed => Overlong(text)

StreamInv ==
  /\ text \in Seq(Bytes) /\ fed \in 0 .. Len(text)
  /\ Len(buffer) \in 0 .. fed /\ buffer = SubSeq(text, Consumed + 1, fed)
  /\ closed \in BOOLEAN /\ failed \in BOOLEAN /\ (closed => fed = Len(text))
  /\ from \in Nat \ {0} /\ \A p \in FrameEnds(buffer, 1) : p >= from
  /\ ~failed => AtBlank(text, Consumed)
  /\ events \in Seq(Seq(Bytes)) /\ EventsSound

LEMMA BytesOf ==
  ASSUME NEW t \in Seq(Bytes)
  PROVE  /\ DOMAIN t = 1 .. Len(t) /\ Len(t) \in Nat
         /\ \A p \in 1 .. Len(t) : t[p] \in {"r", "n", "d", "c"}
BY DEF Bytes, Endings

LEMMA EndingIs ==
  ASSUME NEW t \in Seq(Bytes), NEW p \in 1 .. Len(t)
  PROVE  /\ EndingLength(t, p) \in {1, 2}
         /\ EndingLength(t, p) = 2 <=> p < Len(t) /\ t[p] = "r" /\ t[p + 1] = "n"
BY DEF EndingLength

\* What Breaks, LineStarts and Blanks say by sets.
LEMMA BreakIs ==
  ASSUME NEW t \in Seq(Bytes), NEW p \in Nat
  PROVE  p \in Breaks(t) <=> p \in 1 .. Len(t) /\ t[p] \in Endings /\ ~(p > 1 /\ t[p - 1] = "r" /\ t[p] = "n")
BY BytesOf DEF Breaks, Endings

LEMMA LineStartIs ==
  ASSUME NEW t \in Seq(Bytes), NEW p \in 1 .. Len(t),
         t[p] \notin Endings \/ ~(p > 1 /\ t[p - 1] = "r" /\ t[p] = "n")
  PROVE  p \in LineStarts(t) <=> p = 1 \/ t[p - 1] \in Endings
<1>1. ASSUME p \in LineStarts(t), p # 1 PROVE t[p - 1] \in Endings
  <2>1. PICK x \in Breaks(t) : p = x + EndingLength(t, x)
    BY <1>1 DEF LineStarts
  <2>2. x \in 1 .. Len(t) /\ t[x] \in Endings
    BY <2>1, BytesOf DEF Breaks, Endings
  <2>3. CASE EndingLength(t, x) = 1
    BY <2>1, <2>2, <2>3
  <2>4. CASE EndingLength(t, x) = 2
    <3>1. t[x + 1] = "n" /\ p - 1 = x + 1
      BY <2>1, <2>2, <2>4, EndingIs
    <3> QED BY <3>1 DEF Endings
  <2> QED BY <2>2, <2>3, <2>4, EndingIs
<1>2. ASSUME p # 1, t[p - 1] \in Endings PROVE p \in LineStarts(t)
  <2>1. p - 1 \in 1 .. Len(t) /\ p - 1 < Len(t) /\ p > 1
    BY <1>2, BytesOf
  <2>2. CASE p - 1 \in Breaks(t)
    <3>1. EndingLength(t, p - 1) = 1
      BY <2>1, EndingIs DEF Endings
    <3> QED BY <2>1, <2>2, <3>1 DEF LineStarts
  <2>3. CASE p - 1 \notin Breaks(t)
    <3>1. p - 1 > 1 /\ t[p - 2] = "r" /\ t[p - 1] = "n"
      <4>1. (p - 1) - 1 = p - 2
        BY <2>1
      <4> QED BY <1>2, <2>1, <2>3, <4>1, BreakIs
    <3>2. p - 2 \in 1 .. Len(t) /\ p - 2 < Len(t) /\ (p - 2) + 1 = p - 1
      BY <2>1, <3>1
    <3>3. EndingLength(t, p - 2) = 2
      BY <3>1, <3>2, EndingIs
    <3>4. p - 2 \in Breaks(t)
      BY <3>1, <3>2, BreakIs DEF Endings
    <3>5. p = (p - 2) + EndingLength(t, p - 2)
      BY <2>1, <3>3
    <3> QED BY <3>4, <3>5 DEF LineStarts
  <2> QED BY <2>2, <2>3
<1> QED BY <1>1, <1>2 DEF LineStarts

LEMMA BlankIs ==
  ASSUME NEW t \in Seq(Bytes), NEW p \in Nat PROVE p \in Blanks(t) <=> IsBlank(t, p)
<1>1. p \in Blanks(t) <=> p \in Breaks(t) /\ p \in LineStarts(t)
  BY DEF Blanks
<1>2. IsBlank(t, p) <=> p \in Breaks(t) /\ (p = 1 \/ t[p - 1] \in Endings)
  BY BreakIs DEF IsBlank
<1>3. p \in Breaks(t) => p \in 1 .. Len(t) /\ ~(p > 1 /\ t[p - 1] = "r" /\ t[p] = "n")
  BY BreakIs
<1> QED BY <1>1, <1>2, <1>3, LineStartIs

LEMMA BlanksCounted == ASSUME NEW t \in Seq(Bytes) PROVE Blanks(t) \in SUBSET (1 .. Len(t))
BY BytesOf DEF Blanks, Breaks

\* A block begins behind a blank line.
LEMMA StartIs ==
  ASSUME NEW t \in Seq(Bytes), NEW a \in Nat
  PROVE  a \in BlockStarts(t) <=> a \in 1 .. Len(t) /\ t[a] \notin Endings /\ AtBlank(t, a - 1)
<1>1. ASSUME NEW p \in Blanks(t), a = p + EndingLength(t, p), a \in 1 .. Len(t), t[a] \notin Endings
      PROVE  AtBlank(t, a - 1)
  <2>1. p \in 1 .. Len(t) /\ IsBlank(t, p)
    BY BlankIs, BlanksCounted
  <2>2. CASE EndingLength(t, p) = 1
    <3>1. a - 1 = p
      BY <1>1, <2>1, <2>2
    <3> QED BY <2>1, <3>1 DEF AtBlank
  <2>3. CASE EndingLength(t, p) = 2
    <3>1. a - 1 = p + 1 /\ (a - 1) - 1 = p /\ t[p] = "r" /\ t[p + 1] = "n" /\ p + 1 \in 2 .. Len(t)
      BY <1>1, <2>1, <2>3, EndingIs, BytesOf
    <3> QED BY <2>1, <3>1 DEF AtBlank
  <2> QED BY <2>1, <2>2, <2>3, EndingIs
<1>2. ASSUME a \in 1 .. Len(t), t[a] \notin Endings, AtBlank(t, a - 1), a # 1
      PROVE  \E p \in Blanks(t) : a = p + EndingLength(t, p)
  <2>1. CASE IsBlank(t, a - 1)
    <3>1. a - 1 \in 1 .. Len(t) /\ a - 1 \in Blanks(t) /\ (a - 1) + 1 = a
      BY <1>2, <2>1, BlankIs, BytesOf DEF IsBlank
    <3>2. EndingLength(t, a - 1) = 1
      BY <1>2, <3>1, EndingIs DEF Endings
    <3> QED BY <1>2, <3>1, <3>2
  <2>2. CASE a - 1 \in 2 .. Len(t) /\ IsBlank(t, (a - 1) - 1) /\ t[(a - 1) - 1] = "r" /\ t[a - 1] = "n"
    <3>1. (a - 1) - 1 = a - 2 /\ a - 2 \in 1 .. Len(t) /\ (a - 2) + 1 = a - 1 /\ a - 2 < Len(t)
      BY <1>2, <2>2, BytesOf
    <3>2. EndingLength(t, a - 2) = 2 /\ a - 2 \in Blanks(t)
      BY <2>2, <3>1, EndingIs, BlankIs
    <3> QED BY <1>2, <3>1, <3>2
  <2> QED BY <1>2, <2>1, <2>2 DEF AtBlank
<1>3. a = 1 => AtBlank(t, a - 1)
  BY DEF AtBlank
<1>4. DOMAIN t = 1 .. Len(t)
  BY BytesOf
<1> QED BY <1>1, <1>2, <1>3, <1>4 DEF BlockStarts

\* Does the block have a line of data?
WithData(t, block) == \E p \in LineStarts(t) : p \in block.first .. block.ending /\ t[p] = "d"

LEMMA BlockIs ==
  ASSUME NEW t \in Seq(Bytes), NEW block \in Blocks(t)
  PROVE  /\ block.first \in 1 .. Len(t) /\ t[block.first] \notin Endings /\ AtBlank(t, block.first - 1)
         /\ block.ending \in 1 .. Len(t) /\ block.first < block.ending
         /\ block.ending \in Breaks(t) /\ block.first \in BlockStarts(t)
         /\ IsBlank(t, block.ending + EndingLength(t, block.ending))
         /\ block.ending + EndingLength(t, block.ending) \in Nat
         /\ \A p \in Nat : IsBlank(t, p) => p \notin block.first .. block.ending
         /\ block = [first |-> block.first, ending |-> block.ending]
<1>1. /\ block \in [first : BlockStarts(t), ending : Breaks(t)]
      /\ block.first < block.ending /\ block.ending + EndingLength(t, block.ending) \in Blanks(t)
      /\ \A p \in Blanks(t) : p \notin block.first .. block.ending
  BY DEF Blocks
<1>2. block.first \in BlockStarts(t) /\ block.ending \in Breaks(t) /\ block = [first |-> block.first, ending |-> block.ending]
  BY <1>1
<1>3. block.first \in 1 .. Len(t) /\ block.ending \in 1 .. Len(t)
  BY <1>2, BytesOf DEF BlockStarts, Breaks
<1>4. block.first \in Nat /\ block.ending \in Nat /\ block.ending + EndingLength(t, block.ending) \in Nat
  BY <1>3, EndingIs, BytesOf
<1> QED BY <1>1, <1>2, <1>3, <1>4, StartIs, BlankIs

LEMMA BlockUnique ==
  ASSUME NEW t \in Seq(Bytes), NEW block \in Blocks(t), NEW other \in Blocks(t), block.first = other.first
  PROVE  block = other
<1>1. ASSUME NEW x \in Blocks(t), NEW y \in Blocks(t), x.first = y.first, x.ending < y.ending PROVE FALSE
  <2>1. x.ending \in 1 .. Len(t) /\ y.ending \in 1 .. Len(t) /\ y.first < x.ending /\ y.first \in 1 .. Len(t)
    BY <1>1, BlockIs
  <2>2. t[x.ending] \in Endings /\ EndingLength(t, x.ending) \in {1, 2}
    BY <1>1, <2>1, BlockIs, BreakIs, EndingIs
  <2>3. IsBlank(t, x.ending + EndingLength(t, x.ending))
    BY <1>1, BlockIs
  <2>4. ~(t[y.ending - 1] = "r" /\ t[y.ending] = "n")
    <3>1. y.ending > 1 /\ y.ending \in Nat /\ y.ending \in Breaks(t)
      BY <1>1, <2>1, BlockIs
    <3> QED BY <3>1, BreakIs
  <2>5. x.ending + EndingLength(t, x.ending) <= y.ending
    <3>1. CASE EndingLength(t, x.ending) = 1
      BY <1>1, <2>1, <3>1
    <3>2. CASE EndingLength(t, x.ending) = 2
      <4>1. t[x.ending] = "r" /\ t[x.ending + 1] = "n"
        BY <2>1, <3>2, EndingIs
      <4>2. y.ending # x.ending + 1
        <5>1. y.ending = x.ending + 1 => y.ending - 1 = x.ending
          BY <2>1
        <5> QED BY <2>4, <4>1, <5>1
      <4> QED BY <1>1, <2>1, <3>2, <4>2
    <3> QED BY <2>2, <3>1, <3>2
  <2>6. x.ending + EndingLength(t, x.ending) \in y.first .. y.ending
    BY <2>1, <2>2, <2>5
  <2> QED BY <1>1, <2>2, <2>1, <2>3, <2>6, BlockIs
<1>2. block.ending = other.ending
  <2>1. block.ending \in Nat /\ other.ending \in Nat
    BY BlockIs
  <2>2. ~(block.ending < other.ending) /\ ~(other.ending < block.ending)
    BY <1>1
  <2> QED BY <2>1, <2>2
<1> QED BY <1>2, BlockIs, Zenon

LEMMA BlocksFinite == ASSUME NEW t \in Seq(Bytes) PROVE IsFiniteSet(Blocks(t))
<1> DEFINE start == [block \in Blocks(t) |-> block.first]
<1>1. start \in Injection(Blocks(t), 1 .. Len(t))
  <2>1. start \in [Blocks(t) -> 1 .. Len(t)]
    BY BlockIs
  <2>2. \A x, y \in Blocks(t) : start[x] = start[y] => x = y
    BY BlockUnique
  <2> HIDE DEF start
  <2> QED BY <2>1, <2>2, Fun_IsInj
<1>2. IsFiniteSet(1 .. Len(t))
  BY BytesOf, FS_Interval
<1> HIDE DEF start
<1> QED BY <1>1, <1>2, FS_Injection

\* The events are the blocks with data, in their order.
LEMMA EventsAre ==
  ASSUME NEW t \in Seq(Bytes)
  PROVE  /\ Len(Events(t)) \in Nat
         /\ \A i \in 1 .. Len(Events(t)) : Events(t)[i] \in Blocks(t) /\ WithData(t, Events(t)[i])
         /\ \A i, j \in 1 .. Len(Events(t)) : i < j => Events(t)[i].first < Events(t)[j].first
         /\ \A block \in Blocks(t) : WithData(t, block) => \E i \in 1 .. Len(Events(t)) : Events(t)[i] = block
<1> DEFINE told == {block \in Blocks(t) : WithData(t, block)}
           key == [block \in told |-> block.first]
<1>1. told \in SUBSET Blocks(t) /\ \A block \in told : block \in Blocks(t) /\ WithData(t, block)
  OBVIOUS
<1>2. \A block \in Blocks(t) : WithData(t, block) => block \in told
  OBVIOUS
<1>3. IsFiniteSet(told)
  <2> HIDE DEF told
  <2> QED BY <1>1, BlocksFinite, FS_Subset
<1>4. key \in [told -> Int] /\ \A x \in told : key[x] = x.first
  <2>1. \A x \in told : x.first \in Int
    BY BlockIs
  <2> HIDE DEF told
  <2> QED BY <2>1
<1>5. \A x, y \in told : key[x] = key[y] => x = y
  <2> HIDE DEF told, key
  <2> QED BY <1>1, <1>4, BlockUnique
<1>6. Events(t) = InOrder(told, key)
  BY DEF Events, WithData
<1>7. PICK S, k, q, n : S = told /\ k = key /\ q = InOrder(S, k) /\ n = Cardinality(S)
  OBVIOUS
<1> HIDE DEF told, key
<1>8. /\ n \in Nat /\ q \in [1 .. n -> S]
      /\ \A i, j \in 1 .. n : i < j => k[q[i]] < k[q[j]]
      /\ \A s \in S : \E i \in 1 .. n : q[i] = s
  <2>1. IsFiniteSet(S) /\ k \in [S -> Int] /\ \A s, x \in S : k[s] = k[x] => s = x
    BY <1>3, <1>4, <1>5, <1>7
  <2> QED BY <1>7, <2>1, Ordered
<1>9. Events(t) = q /\ Len(q) = n
  BY <1>6, <1>7, <1>8
<1>10. \A i \in 1 .. n : q[i] \in told /\ k[q[i]] = q[i].first
  BY <1>4, <1>7, <1>8
<1> QED BY <1>1, <1>2, <1>7, <1>8, <1>9, <1>10

\* The bytes of a text behind the first c of them, as far as they have come.
Window(t, b, c, f) ==
  t \in Seq(Bytes) /\ c \in Nat /\ f \in Nat /\ c <= f /\ f <= Len(t) /\ b = SubSeq(t, c + 1, f)

LEMMA WindowIs ==
  ASSUME NEW t, NEW b, NEW c, NEW f, Window(t, b, c, f)
  PROVE  /\ t \in Seq(Bytes) /\ b \in Seq(Bytes) /\ c \in Nat /\ f \in Nat /\ Len(t) \in Nat
         /\ c <= f /\ f <= Len(t) /\ Len(b) = f - c /\ Len(b) \in Nat /\ DOMAIN b = 1 .. f - c
         /\ \A i \in 1 .. f - c : b[i] = t[c + i]
<1>1. t \in Seq(Bytes) /\ c \in Nat /\ f \in Nat /\ c <= f /\ f <= Len(t) /\ b = SubSeq(t, c + 1, f) /\ Len(t) \in Nat
  BY DEF Window
<1>2. Len(b) = f - c
  BY <1>1
<1>3. \A i \in 1 .. f - c : b[i] = t[c + i]
  BY <1>1
<1>4. b \in Seq(Bytes)
  BY <1>1
<1> QED BY <1>1, <1>2, <1>3, <1>4, BytesOf

LEMMA WindowEnding ==
  ASSUME NEW t, NEW b, NEW c, NEW f, Window(t, b, c, f), NEW p \in 1 .. Len(b), p < Len(b) \/ f = Len(t)
  PROVE  EndingLength(b, p) = EndingLength(t, c + p) /\ c + p \in 1 .. Len(t) /\ b[p] = t[c + p]
<1>1. /\ t \in Seq(Bytes) /\ b \in Seq(Bytes) /\ c \in Nat /\ f \in Nat /\ Len(t) \in Nat
      /\ c <= f /\ f <= Len(t) /\ Len(b) = f - c
      /\ \A i \in 1 .. f - c : b[i] = t[c + i]
  BY WindowIs
<1>2. c + p \in 1 .. Len(t) /\ b[p] = t[c + p]
  BY <1>1
<1>3. p < Len(b) => b[p + 1] = t[(c + p) + 1] /\ c + p < Len(t)
  <2>1. p < Len(b) => p + 1 \in 1 .. f - c /\ c + (p + 1) = (c + p) + 1
    BY <1>1
  <2> QED BY <1>1, <2>1
<1>4. ~(p < Len(b)) => ~(c + p < Len(t))
  BY <1>1
<1> QED BY <1>2, <1>3, <1>4 DEF EndingLength

\* Blank lines are found: none ends before the first place where the search stops.
LEMMA NoBlankBefore ==
  ASSUME NEW t, NEW b, NEW c, NEW f, Window(t, b, c, f), c < f => t[c + 1] \notin Endings,
         NEW u \in Nat, \A p \in FrameEnds(b, 1) : u <= p,
         NEW x \in Nat, c < x, x <= f, IsBlank(t, x)
  PROVE  c + u < x
<1>1. /\ t \in Seq(Bytes) /\ b \in Seq(Bytes) /\ c \in Nat /\ f \in Nat /\ Len(t) \in Nat
      /\ c <= f /\ f <= Len(t) /\ Len(b) = f - c
      /\ \A i \in 1 .. f - c : b[i] = t[c + i]
  BY WindowIs
<1>2. t[x] \in Endings /\ ~(x > 1 /\ t[x - 1] = "r" /\ t[x] = "n") /\ (x = 1 \/ t[x - 1] \in Endings)
  BY DEF IsBlank
<1>3. x # c + 1 /\ x - 1 # c + 1
  <2>1. x = c + 1 => FALSE
    BY <1>1, <1>2
  <2>2. x - 1 = c + 1 => t[c + 1] \in Endings
    BY <1>1, <1>2
  <2> QED BY <1>1, <2>1, <2>2
<1> DEFINE p == x - 1 - c
<1>4. p \in 1 .. Len(b) /\ p < Len(b) /\ c + p = x - 1 /\ p + 1 = x - c /\ (c + p) + 1 = x
  BY <1>1, <1>3
<1> HIDE DEF p
<1>5. b[p] = t[x - 1] /\ EndingLength(b, p) = EndingLength(t, x - 1) /\ x - 1 \in 1 .. Len(t)
  BY <1>4, WindowEnding
<1>6. EndingLength(t, x - 1) = 1
  <2>1. PICK y : y = x - 1
    OBVIOUS
  <2>2. y \in 1 .. Len(t) /\ y + 1 = x /\ x > 1
    BY <1>1, <1>5, <2>1
  <2>3. ~(t[y] = "r" /\ t[y + 1] = "n")
    BY <1>2, <2>1, <2>2
  <2>4. EndingLength(t, y) = 1
    BY <1>1, <2>2, <2>3, EndingIs
  <2> QED BY <2>1, <2>4
<1>7. b[p + 1] = t[x] /\ p + 1 <= Len(b)
  <2>1. p + 1 \in 1 .. f - c /\ c + (p + 1) = x
    BY <1>1, <1>4
  <2> QED BY <1>1, <2>1
<1>8. p \in FrameEnds(b, 1)
  <2>1. b[p] \in Endings
    BY <1>1, <1>2, <1>3, <1>5
  <2>2. EndingLength(b, p) = 1
    BY <1>5, <1>6
  <2>3. b[p + 1] \in Endings
    BY <1>2, <1>7
  <2> QED BY <1>1, <1>4, <1>7, <2>1, <2>2, <2>3 DEF FrameEnds
<1> QED BY <1>1, <1>4, <1>8

\* A frame is a block: the first one behind what is consumed, whose blank line is
\* consumed with it.
LEMMA FrameIs ==
  ASSUME NEW t, NEW b, NEW c, NEW f, Window(t, b, c, f), AtBlank(t, c), t[c + 1] \notin Endings,
         NEW q \in FrameEnds(b, 1), \A p \in FrameEnds(b, 1) : q <= p
  PROVE  /\ q \in Nat /\ 1 < q /\ EndingLength(b, q) \in {1, 2} /\ q + EndingLength(b, q) <= Len(b)
         /\ [first |-> c + 1, ending |-> c + q] \in Blocks(t)
         /\ AtBlank(t, c + q + EndingLength(b, q))
         /\ \A block \in Blocks(t) :
              block.first <= c + q + EndingLength(b, q) =>
                block.first <= c \/ block = [first |-> c + 1, ending |-> c + q]
<1>1. /\ t \in Seq(Bytes) /\ b \in Seq(Bytes) /\ c \in Nat /\ f \in Nat /\ Len(t) \in Nat
      /\ c <= f /\ f <= Len(t) /\ Len(b) = f - c
      /\ \A i \in 1 .. f - c : b[i] = t[c + i]
  BY WindowIs
<1>2. PICK el : el = EndingLength(b, q)
  OBVIOUS
<1>3. q \in 1 .. Len(b) /\ b[q] \in Endings /\ q + el <= Len(b) /\ b[q + el] \in Endings /\ q \in Nat
  BY <1>1, <1>2 DEF FrameEnds
<1>4. el \in {1, 2} /\ q < Len(b) /\ (el = 2 <=> b[q] = "r" /\ b[q + 1] = "n")
  BY <1>1, <1>2, <1>3, EndingIs
<1>5. /\ EndingLength(t, c + q) = el /\ c + q \in 1 .. Len(t) /\ b[q] = t[c + q]
      /\ b[q + 1] = t[c + q + 1] /\ b[q + el] = t[c + q + el] /\ c + q + el <= f /\ c + q + el \in Nat
  <2>1. EndingLength(t, c + q) = el /\ c + q \in 1 .. Len(t) /\ b[q] = t[c + q]
    BY <1>2, <1>3, <1>4, WindowEnding
  <2>2. PICK x, y : x = q + 1 /\ y = q + el
    OBVIOUS
  <2>3. /\ x \in 1 .. f - c /\ y \in 1 .. f - c
        /\ c + x = c + q + 1 /\ c + y = c + q + el
    BY <1>1, <1>3, <1>4, <2>2
  <2>4. b[x] = t[c + x] /\ b[y] = t[c + y]
    BY <1>1, <2>3
  <2>5. b[q + 1] = t[c + q + 1] /\ b[q + el] = t[c + q + el]
    BY <2>2, <2>3, <2>4
  <2>6. c + q + el <= f /\ c + q + el \in Nat
    BY <1>1, <1>3, <1>4
  <2> QED BY <2>1, <2>5, <2>6
<1>6. 1 < q
  <2>1. q = 1 => b[q] = t[c + 1]
    BY <1>1, <1>3
  <2> QED BY <1>3, <2>1
<1>7. ~(t[c + q - 1] = "r" /\ t[c + q] = "n")
  <2> SUFFICES ASSUME t[c + q - 1] = "r", t[c + q] = "n" PROVE FALSE
    OBVIOUS
  <2>1. q - 1 \in 1 .. Len(b) /\ q - 1 < Len(b) /\ (q - 1) + 1 = q /\ c + (q - 1) = c + q - 1 /\ q - 1 \in 1 .. f - c
    BY <1>1, <1>3, <1>6
  <2>2. b[q - 1] = "r" /\ b[q] = "n" /\ el = 1
    BY <1>1, <1>4, <1>5, <2>1
  <2>3. EndingLength(b, q - 1) = 2
    <3>1. PICK y : y = q - 1
      OBVIOUS
    <3>2. y \in 1 .. Len(b) /\ y < Len(b) /\ b[y] = "r" /\ b[y + 1] = "n"
      BY <2>1, <2>2, <3>1
    <3>3. EndingLength(b, y) = 2
      BY <1>1, <3>2, EndingIs
    <3> QED BY <3>1, <3>3
  <2>4. (q - 1) + 2 = q + el
    BY <1>3, <2>2
  <2>5. q - 1 \in FrameEnds(b, 1)
    BY <1>1, <1>3, <2>1, <2>2, <2>3, <2>4 DEF FrameEnds, Endings
  <2> QED BY <1>3, <2>5
<1>8. c + q \in Breaks(t)
  <2>1. PICK y : y = c + q
    OBVIOUS
  <2>2. y \in Nat /\ y \in 1 .. Len(t) /\ t[y] \in Endings /\ ~(t[y - 1] = "r" /\ t[y] = "n")
    BY <1>1, <1>3, <1>5, <1>7, <2>1
  <2>3. y \in Breaks(t)
    BY <1>1, <2>2, BreakIs
  <2> QED BY <2>1, <2>3
<1>9. IsBlank(t, c + q + el)
  <2>1. c + q + el \in 1 .. Len(t) /\ t[c + q + el] \in Endings
    BY <1>1, <1>3, <1>4, <1>5
  <2>2. CASE el = 1
    <3>1. (c + q + el) - 1 = c + q /\ c + q + el = c + q + 1
      BY <1>1, <1>3, <2>2
    <3>2. ~(t[c + q] = "r" /\ t[c + q + 1] = "n")
      BY <1>4, <1>5, <2>2
    <3> QED BY <1>3, <1>5, <2>1, <3>1, <3>2 DEF IsBlank
  <2>3. CASE el = 2
    <3>1. (c + q + el) - 1 = c + q + 1
      BY <1>1, <1>3, <2>3
    <3>2. t[c + q + 1] = "n"
      BY <1>4, <1>5, <2>3
    <3> QED BY <2>1, <3>1, <3>2 DEF IsBlank, Endings
  <2> QED BY <1>4, <2>2, <2>3
<1>10. ASSUME NEW p \in Nat, IsBlank(t, p) PROVE ~(c < p /\ p <= c + q)
  <2>1. c < p /\ p <= c + q => p <= f
    BY <1>1, <1>3
  <2>2. c < p /\ p <= f => c + q < p
    BY <1>10, <1>1, <1>3, NoBlankBefore
  <2> QED BY <1>1, <1>3, <2>1, <2>2
<1> DEFINE cut == [first |-> c + 1, ending |-> c + q]
<1>11. cut \in Blocks(t)
  <2>1. c + 1 \in BlockStarts(t)
    <3>1. c + 1 \in Nat /\ c + 1 \in 1 .. Len(t) /\ (c + 1) - 1 = c
      BY <1>1, <1>3
    <3> QED BY <1>1, <3>1, StartIs
  <2>2. (c + q) + EndingLength(t, c + q) \in Blanks(t)
    BY <1>1, <1>5, <1>9, BlankIs
  <2>3. \A p \in Blanks(t) : p \notin c + 1 .. c + q
    <3>1. \A p \in Blanks(t) : p \in Nat /\ IsBlank(t, p)
      BY <1>1, BlankIs, BlanksCounted
    <3>2. \A p \in Nat : p \in c + 1 .. c + q => c < p /\ p <= c + q
      BY <1>1, <1>3
    <3> QED BY <1>10, <3>1, <3>2
  <2>4. c + 1 < c + q
    BY <1>1, <1>3, <1>6
  <2>5. cut \in [first : BlockStarts(t), ending : Breaks(t)] /\ cut.first = c + 1 /\ cut.ending = c + q
    BY <1>8, <2>1
  <2> HIDE DEF cut
  <2> QED BY <2>2, <2>3, <2>4, <2>5 DEF Blocks
<1>12. ASSUME NEW block \in Blocks(t), block.first <= c + q + el, ~(block.first <= c) PROVE block = cut
  <2>1. PICK a : a = block.first
    OBVIOUS
  <2>2. a \in 1 .. Len(t) /\ t[a] \notin Endings /\ AtBlank(t, a - 1) /\ c < a /\ a <= c + q + el
    BY <1>1, <1>12, <2>1, BlockIs
  <2>3. a # c + q + el /\ (el = 2 => a # c + q + 1)
    <3>1. el = 2 => t[c + q + 1] = "n"
      BY <1>4, <1>5
    <3> QED BY <1>3, <1>5, <2>2, <3>1 DEF Endings
  <2>4. a <= c + q
    BY <1>1, <1>3, <1>4, <2>2, <2>3
  <2>5. a = c + 1
    <3> SUFFICES ASSUME a # c + 1 PROVE FALSE
      OBVIOUS
    <3>1. a - 1 > c /\ a - 1 <= c + q /\ a - 1 \in Nat
      BY <1>1, <1>3, <2>2, <2>4
    <3>2. ~IsBlank(t, a - 1)
      BY <1>10, <3>1
    <3>3. IsBlank(t, (a - 1) - 1) /\ t[a - 1] = "n" /\ (a - 1) - 1 \in Nat
      BY <1>1, <2>2, <3>1, <3>2 DEF AtBlank
    <3>4. ~(c < (a - 1) - 1)
      BY <1>1, <1>3, <1>10, <3>1, <3>3
    <3>5. a - 1 = c + 1
      BY <1>1, <3>1, <3>4
    <3> QED BY <3>3, <3>5 DEF Endings
  <2>6. cut.first = block.first
    BY <2>1, <2>5
  <2> HIDE DEF cut
  <2> QED BY <1>1, <1>11, <2>6, BlockUnique
<1>13. AtBlank(t, c + q + el)
  BY <1>9 DEF AtBlank
<1> QED BY <1>2, <1>3, <1>4, <1>6, <1>11, <1>12, <1>13

LEMMA LeadingIs ==
  ASSUME NEW b \in Seq(Bytes), NEW ended \in BOOLEAN
  PROVE  /\ LeadingEnding(b, ended) \in {0, 1, 2}
         /\ LeadingEnding(b, ended) > 0 => Len(b) >= LeadingEnding(b, ended) /\ b[1] \in Endings
         /\ LeadingEnding(b, ended) = 2 <=> Len(b) > 1 /\ b[1] = "r" /\ b[2] = "n"
         /\ LeadingEnding(b, ended) = 0 => Len(b) = 0 \/ b[1] \notin Endings \/ (Len(b) = 1 /\ ~ended)
<1>1. Len(b) \in Nat /\ (b = <<>> <=> Len(b) = 0) /\ (b = <<"r">> <=> Len(b) = 1 /\ b[1] = "r")
  BY BytesOf
<1>2. CASE Len(b) = 0
  BY <1>1, <1>2 DEF LeadingEnding
<1>3. CASE Len(b) # 0
  BY <1>1, <1>3 DEF LeadingEnding, Endings
<1> QED BY <1>2, <1>3

\* A blank line, or the rest of one, is skipped as a whole.
LEMMA SkipIs ==
  ASSUME NEW t, NEW b, NEW c, NEW f, Window(t, b, c, f), AtBlank(t, c), NEW ended \in BOOLEAN,
         LeadingEnding(b, ended) > 0
  PROVE  /\ LeadingEnding(b, ended) \in {1, 2} /\ LeadingEnding(b, ended) <= Len(b)
         /\ AtBlank(t, c + LeadingEnding(b, ended))
         /\ \A a \in Nat : c < a /\ a <= c + LeadingEnding(b, ended) => t[a] \in Endings
<1>1. /\ t \in Seq(Bytes) /\ b \in Seq(Bytes) /\ c \in Nat /\ f \in Nat /\ Len(t) \in Nat
      /\ c <= f /\ f <= Len(t) /\ Len(b) = f - c
      /\ \A i \in 1 .. f - c : b[i] = t[c + i]
  BY WindowIs
<1>2. PICK l : l = LeadingEnding(b, ended)
  OBVIOUS
<1>3. l \in {1, 2} /\ l <= Len(b) /\ b[1] \in Endings /\ (l = 2 <=> Len(b) > 1 /\ b[1] = "r" /\ b[2] = "n")
  BY <1>1, <1>2, LeadingIs
<1>4. b[1] = t[c + 1] /\ c + 1 \in 1 .. Len(t) /\ (l = 2 => b[2] = t[c + 2] /\ c + 2 \in 1 .. Len(t))
  BY <1>1, <1>3
<1>5. \A a \in Nat : c < a /\ a <= c + l => t[a] \in Endings
  <2>1. l = 2 => t[c + 2] \in Endings
    BY <1>3, <1>4 DEF Endings
  <2>2. \A a \in Nat : c < a /\ a <= c + l => a = c + 1 \/ (l = 2 /\ a = c + 2)
    BY <1>1, <1>3
  <2> QED BY <1>3, <1>4, <2>1, <2>2
<1>6. c > 0 => t[c] \in Endings
  BY <1>1 DEF AtBlank, IsBlank, Endings
<1>7. PICK x : x = c + 1
  OBVIOUS
<1>8. x \in 1 .. Len(t) /\ t[x] \in Endings /\ x - 1 = c /\ x \in Nat
  BY <1>1, <1>3, <1>4, <1>7
<1>9. ~(c > 0 /\ t[c] = "r" /\ t[x] = "n") => IsBlank(t, x)
  <2>1. x = 1 \/ t[x - 1] \in Endings
    BY <1>1, <1>6, <1>7, <1>8
  <2> QED BY <1>1, <1>7, <1>8, <2>1 DEF IsBlank
<1>10. CASE l = 1 /\ c > 0 /\ t[c] = "r" /\ t[x] = "n"
  <2>1. IsBlank(t, c)
    <3>1. "r" # "n"
      OBVIOUS
    <3> QED BY <1>1, <1>10, <3>1 DEF AtBlank
  <2>2. x \in 2 .. Len(t) /\ IsBlank(t, x - 1) /\ t[x - 1] = "r" /\ t[x] = "n"
    BY <1>1, <1>7, <1>8, <1>10, <2>1
  <2>3. AtBlank(t, x)
    BY <2>2 DEF AtBlank
  <2> QED BY <1>2, <1>3, <1>5, <1>7, <1>10, <2>3
<1>11. CASE l = 1 /\ ~(c > 0 /\ t[c] = "r" /\ t[x] = "n")
  <2>1. AtBlank(t, x)
    BY <1>9, <1>11 DEF AtBlank
  <2> QED BY <1>2, <1>3, <1>5, <1>7, <1>11, <2>1
<1>12. CASE l = 2
  <2>1. IsBlank(t, x)
    <3>1. t[x] # "n"
      BY <1>3, <1>4, <1>7, <1>12
    <3> QED BY <1>9, <3>1
  <2>2. PICK y : y = c + 2
    OBVIOUS
  <2>3. y \in 2 .. Len(t) /\ y - 1 = x /\ t[x] = "r" /\ t[y] = "n"
    BY <1>1, <1>3, <1>4, <1>7, <1>12, <2>2
  <2>4. AtBlank(t, y)
    BY <2>1, <2>3 DEF AtBlank
  <2> QED BY <1>2, <1>3, <1>5, <1>12, <2>2, <2>4
<1> QED BY <1>3, <1>10, <1>11, <1>12

\* A line of data is one of the frame if it is one of the block.
LEMMA DataIs ==
  ASSUME NEW t, NEW b, NEW c, NEW f, Window(t, b, c, f), AtBlank(t, c),
         NEW q \in 1 .. Len(b), b[q] \in Endings
  PROVE  HasData(SubSeq(b, 1, q - 1)) <=> WithData(t, [first |-> c + 1, ending |-> c + q])
<1>1. /\ t \in Seq(Bytes) /\ b \in Seq(Bytes) /\ c \in Nat /\ f \in Nat /\ Len(t) \in Nat
      /\ c <= f /\ f <= Len(t) /\ Len(b) = f - c
      /\ \A i \in 1 .. f - c : b[i] = t[c + i]
  BY WindowIs
<1>2. PICK frame : frame = SubSeq(b, 1, q - 1)
  OBVIOUS
<1>3. DOMAIN frame = 1 .. q - 1 /\ \A i \in 1 .. q - 1 : frame[i] = b[i]
  BY <1>1, <1>2
<1>4. c > 0 => t[c] \in Endings
  BY <1>1 DEF AtBlank, IsBlank, Endings
<1>5. "d" \notin Endings
  BY DEF Endings
<1>6. ASSUME NEW i \in 1 .. q - 1, b[i] = "d"
      PROVE  i = 1 \/ frame[i - 1] \in Endings <=> c + i \in LineStarts(t)
  <2>1. PICK x : x = c + i
    OBVIOUS
  <2>2. x \in 1 .. Len(t) /\ t[x] \notin Endings
    BY <1>1, <1>5, <1>6, <2>1
  <2>3. x \in LineStarts(t) <=> x = 1 \/ t[x - 1] \in Endings
    BY <1>1, <2>2, LineStartIs
  <2>4. CASE i = 1
    <3>1. x - 1 = c /\ (x = 1 <=> c = 0)
      BY <1>1, <2>1, <2>4
    <3> QED BY <1>1, <1>4, <2>1, <2>3, <2>4, <3>1
  <2>5. CASE i # 1
    <3>1. i - 1 \in 1 .. q - 1 /\ i - 1 \in 1 .. f - c /\ c + (i - 1) = x - 1 /\ x # 1
      BY <1>1, <2>1, <2>5
    <3>2. frame[i - 1] = t[x - 1]
      BY <1>1, <1>3, <3>1
    <3> QED BY <2>1, <2>3, <2>5, <3>1, <3>2
  <2> QED BY <2>4, <2>5
<1>7. ASSUME HasData(frame) PROVE WithData(t, [first |-> c + 1, ending |-> c + q])
  <2>1. PICK i \in 1 .. q - 1 : frame[i] = "d" /\ (i = 1 \/ frame[i - 1] \in Endings)
    BY <1>3, <1>7 DEF HasData
  <2>2. c + i \in LineStarts(t)
    BY <1>3, <1>6, <2>1
  <2>3. c + i \in c + 1 .. c + q /\ t[c + i] = "d"
    BY <1>1, <1>3, <2>1
  <2> QED BY <2>2, <2>3 DEF WithData
<1>8. ASSUME WithData(t, [first |-> c + 1, ending |-> c + q]) PROVE HasData(frame)
  <2>1. PICK x \in LineStarts(t) : x \in c + 1 .. c + q /\ t[x] = "d"
    BY <1>8 DEF WithData
  <2>2. PICK i : i = x - c
    OBVIOUS
  <2>3. i \in 1 .. q /\ c + i = x /\ i \in 1 .. f - c
    BY <1>1, <2>1, <2>2
  <2>4. b[i] = "d"
    BY <1>1, <2>1, <2>3
  <2>5. i # q
    BY <1>5, <2>4
  <2>6. i \in 1 .. q - 1
    BY <1>1, <2>3, <2>5
  <2>7. i = 1 \/ frame[i - 1] \in Endings
    BY <1>6, <2>1, <2>3, <2>4, <2>6
  <2> QED BY <1>3, <2>4, <2>6, <2>7 DEF HasData
<1> QED BY <1>2, <1>7, <1>8

\* Lengths of what is too long but for the start of a blank line.
Partial == {<<"n">>, <<"r">>, <<"n", "r">>, <<"r", "r">>, <<"r", "n">>, <<"r", "n", "r">>}

LEMMA TooLargeIs ==
  ASSUME NEW b \in Seq(Bytes)
  PROVE  /\ TooLarge(b) <=> Len(b) > MaxFrame /\ Behind(b, MaxFrame) \notin Partial
         /\ Len(b) > MaxFrame =>
              /\ Behind(b, MaxFrame) \in Seq(Bytes) /\ Len(Behind(b, MaxFrame)) = Len(b) - MaxFrame
              /\ \A i \in 1 .. Len(b) - MaxFrame : Behind(b, MaxFrame)[i] = b[MaxFrame + i]
<1>1. Len(b) \in Nat /\ MaxFrame \in Nat
  BY StreamAssumption
<1>2. TooLarge(b) <=> Len(b) > MaxFrame /\ Behind(b, MaxFrame) \notin Partial
  BY DEF TooLarge, Partial
<1>3. ASSUME Len(b) > MaxFrame
      PROVE  /\ Behind(b, MaxFrame) \in Seq(Bytes) /\ Len(Behind(b, MaxFrame)) = Len(b) - MaxFrame
             /\ \A i \in 1 .. Len(b) - MaxFrame : Behind(b, MaxFrame)[i] = b[MaxFrame + i]
  <2>1. PICK n \in Nat : n = Len(b)
    BY <1>1
  <2>2. Behind(b, MaxFrame) = SubSeq(b, MaxFrame + 1, n) /\ MaxFrame < n
    BY <1>3, <2>1 DEF Behind
  <2> QED BY <1>1, <2>1, <2>2
<1> QED BY <1>2, <1>3

LEMMA PartialIs ==
  ASSUME NEW s \in Seq(Bytes)
  PROVE  s \in Partial <=>
           \/ Len(s) = 1 /\ s[1] \in Endings
           \/ Len(s) = 2 /\ s[1] \in Endings /\ s[2] \in Endings /\ (s[1] = "r" \/ s[2] = "r")
           \/ Len(s) = 3 /\ s[1] = "r" /\ s[2] = "n" /\ s[3] = "r"
<1>1. Len(s) = 1 => s = <<s[1]>>
  OBVIOUS
<1>2. Len(s) = 2 => s = <<s[1], s[2]>>
  OBVIOUS
<1>3. Len(s) = 3 => s = <<s[1], s[2], s[3]>>
  OBVIOUS
<1>4. ASSUME s \in Partial
      PROVE  \/ Len(s) = 1 /\ s[1] \in Endings
             \/ Len(s) = 2 /\ s[1] \in Endings /\ s[2] \in Endings /\ (s[1] = "r" \/ s[2] = "r")
             \/ Len(s) = 3 /\ s[1] = "r" /\ s[2] = "n" /\ s[3] = "r"
  BY <1>4 DEF Partial, Endings
<1>5. Len(s) = 1 /\ s[1] \in Endings => s \in Partial
  BY <1>1 DEF Partial, Endings
<1>6. Len(s) = 2 /\ s[1] \in Endings /\ s[2] \in Endings /\ (s[1] = "r" \/ s[2] = "r") => s \in Partial
  BY <1>2 DEF Partial, Endings
<1>7. Len(s) = 3 /\ s[1] = "r" /\ s[2] = "n" /\ s[3] = "r" => s \in Partial
  BY <1>3 DEF Partial
<1> QED BY <1>4, <1>5, <1>6, <1>7

\* What is too long stays so when more bytes come.
LEMMA TooLargeStays ==
  ASSUME NEW t, NEW b, NEW c, NEW f, Window(t, b, c, f), TooLarge(b)
  PROVE  TooLarge(SubSeq(t, c + 1, Len(t)))
<1>1. /\ t \in Seq(Bytes) /\ b \in Seq(Bytes) /\ c \in Nat /\ f \in Nat /\ Len(t) \in Nat
      /\ c <= f /\ f <= Len(t) /\ Len(b) = f - c
      /\ \A i \in 1 .. f - c : b[i] = t[c + i]
  BY WindowIs
<1>2. PICK z, g : g = Len(t) /\ z = SubSeq(t, c + 1, g)
  OBVIOUS
<1>3. Window(t, z, c, g)
  BY <1>1, <1>2 DEF Window
<1>4. z \in Seq(Bytes) /\ Len(z) = g - c /\ g \in Nat /\ \A i \in 1 .. g - c : z[i] = t[c + i]
  BY <1>3, WindowIs
<1>5. Len(b) <= Len(z) /\ \A i \in 1 .. Len(b) : z[i] = b[i]
  <2>1. Len(b) = f - c /\ Len(z) = g - c /\ f <= g /\ c \in Nat /\ f \in Nat /\ g \in Nat /\ c <= f
    BY <1>1, <1>2, <1>4
  <2>2. \A i \in 1 .. Len(b) : i \in 1 .. f - c /\ i \in 1 .. g - c
    BY <2>1
  <2>3. ASSUME NEW i \in 1 .. Len(b) PROVE z[i] = b[i]
    <3>1. b[i] = t[c + i]
      BY <1>1, <2>2
    <3>2. z[i] = t[c + i]
      BY <1>4, <2>2
    <3> QED BY <3>1, <3>2
  <2> QED BY <2>1, <2>3
<1>6. MaxFrame \in Nat /\ Len(b) > MaxFrame /\ Len(z) > MaxFrame /\ Len(b) \in Nat /\ Len(z) \in Nat
  BY <1>1, <1>4, <1>5, TooLargeIs, StreamAssumption
<1>7. PICK s, x : s = Behind(b, MaxFrame) /\ x = Behind(z, MaxFrame)
  OBVIOUS
<1>8. /\ s \in Seq(Bytes) /\ x \in Seq(Bytes) /\ s \notin Partial
      /\ Len(s) = Len(b) - MaxFrame /\ Len(x) = Len(z) - MaxFrame
      /\ \A i \in 1 .. Len(b) - MaxFrame : s[i] = b[MaxFrame + i]
      /\ \A i \in 1 .. Len(z) - MaxFrame : x[i] = z[MaxFrame + i]
  BY <1>1, <1>4, <1>6, <1>7, TooLargeIs
<1>9. Len(s) >= 1 /\ Len(s) <= Len(x) /\ Len(s) \in Nat /\ Len(x) \in Nat /\ \A i \in 1 .. Len(s) : x[i] = s[i]
  BY <1>5, <1>6, <1>8
<1>10. x \notin Partial
  <2> SUFFICES ASSUME x \in Partial PROVE FALSE
    OBVIOUS
  <2>1. \/ Len(x) = 1 /\ x[1] \in Endings
        \/ Len(x) = 2 /\ x[1] \in Endings /\ x[2] \in Endings /\ (x[1] = "r" \/ x[2] = "r")
        \/ Len(x) = 3 /\ x[1] = "r" /\ x[2] = "n" /\ x[3] = "r"
    BY <1>8, PartialIs
  <2>2. x[1] = s[1] /\ (Len(s) >= 2 => x[2] = s[2]) /\ (Len(s) >= 3 => x[3] = s[3])
    BY <1>9
  <2>3. Len(s) \in 1 .. 3
    <3>1. Len(x) \in {1, 2, 3}
      BY <2>1
    <3>2. PICK m, n : m = Len(s) /\ n = Len(x)
      OBVIOUS
    <3>3. m \in Nat /\ n \in {1, 2, 3} /\ m >= 1 /\ m <= n
      BY <1>9, <3>1, <3>2
    <3>4. m \in 1 .. 3
      BY <3>3
    <3> QED BY <3>2, <3>4
  <2>4. \/ Len(s) = 1 /\ s[1] \in Endings
        \/ Len(s) = 2 /\ s[1] \in Endings /\ s[2] \in Endings /\ (s[1] = "r" \/ s[2] = "r")
        \/ Len(s) = 3 /\ s[1] = "r" /\ s[2] = "n" /\ s[3] = "r"
    BY <1>9, <2>1, <2>2, <2>3 DEF Endings
  <2> QED BY <1>8, <2>4, PartialIs
<1> QED BY <1>2, <1>4, <1>6, <1>7, <1>10, TooLargeIs

\* What has no frame in it yet and is too long belongs to a block that is.
LEMMA OverflowIs ==
  ASSUME NEW t, NEW b, NEW c, NEW f, Window(t, b, c, f), AtBlank(t, c), t[c + 1] \notin Endings,
         FrameEnds(b, 1) = {}, TooLarge(b)
  PROVE  Overlong(t)
<1>1. /\ t \in Seq(Bytes) /\ b \in Seq(Bytes) /\ c \in Nat /\ f \in Nat /\ Len(t) \in Nat
      /\ c <= f /\ f <= Len(t) /\ Len(b) = f - c
      /\ \A i \in 1 .. f - c : b[i] = t[c + i]
  BY WindowIs
<1>2. MaxFrame \in Nat \ {0} /\ Len(b) > MaxFrame
  BY <1>1, TooLargeIs, StreamAssumption
<1>3. PICK a : a = c + 1
  OBVIOUS
<1>4. a \in BlockStarts(t) /\ a \in 1 .. Len(t) /\ a \in Nat
  <2>1. a \in Nat /\ a \in 1 .. Len(t) /\ a - 1 = c
    BY <1>1, <1>2, <1>3
  <2> QED BY <1>1, <1>3, <2>1, StartIs
<1>5. ASSUME NEW x \in Nat, IsBlank(t, x) PROVE ~(c < x /\ x <= f)
  <2>1. f - c + 1 \in Nat /\ \A p \in FrameEnds(b, 1) : f - c + 1 <= p
    BY <1>1
  <2>2. c < x /\ x <= f => c + (f - c + 1) < x
    BY <1>1, <1>5, <2>1, NoBlankBefore
  <2> QED BY <1>1, <2>2
<1>6. CASE \A p \in Blanks(t) : p < a
  <2>1. TooLarge(SubSeq(t, a, Len(t)))
    BY <1>3, TooLargeStays
  <2> QED BY <1>4, <1>6, <2>1 DEF Overlong
<1>7. CASE ~ \A p \in Blanks(t) : p < a
  <2> DEFINE later == {p \in Blanks(t) : a <= p}
  <2>1. Blanks(t) \in SUBSET (1 .. Len(t)) /\ \A p \in Blanks(t) : p \in Nat /\ IsBlank(t, p)
    BY <1>1, BlanksCounted, BlankIs
  <2>2. later \in SUBSET Nat /\ later # {}
    BY <1>4, <1>7, <2>1
  <2>3. PICK x \in later : \A y \in later : x <= y
    <3> HIDE DEF later
    <3> QED BY <2>2, NatMin
  <2>4. x \in Nat /\ IsBlank(t, x) /\ a <= x /\ x \in 1 .. Len(t) /\ x \in Blanks(t)
    BY <2>1, <2>3
  <2>5. f < x
    BY <1>1, <1>3, <1>5, <2>4
  <2>6. t[x - 1] \in Endings /\ ~(t[x - 1] = "r" /\ t[x] = "n") /\ x > 1
    BY <1>1, <1>3, <2>4, <1>2, <2>5 DEF IsBlank
  <2>7. \A p \in Blanks(t) : a <= p => x <= p
    BY <2>3
  <2> HIDE DEF later
  \* The last line of the block ends at e.
  <2>8. \E e \in Breaks(t) :
          /\ a < e /\ e \in 1 .. Len(t) /\ e + EndingLength(t, e) = x
          /\ \/ e = x - 1
             \/ e = x - 2 /\ t[x - 2] = "r" /\ t[x - 1] = "n"
    <3>1. PICK y : y = x - 1
      OBVIOUS
    <3>2. y \in 1 .. Len(t) /\ y < Len(t) /\ t[y] \in Endings /\ y + 1 = x /\ a < y
      <4>1. y # a
        BY <1>3, <2>6, <3>1
      <4> QED BY <1>1, <1>2, <1>3, <2>4, <2>5, <2>6, <3>1, <4>1
    <3>3. CASE y \in Breaks(t)
      <4>1. EndingLength(t, y) = 1
        BY <1>1, <2>6, <3>1, <3>2, EndingIs
      <4> QED BY <3>1, <3>2, <3>3, <4>1
    <3>4. CASE y \notin Breaks(t)
      <4>1. y > 1 /\ t[y - 1] = "r" /\ t[y] = "n"
        BY <1>1, <3>2, <3>4, BreakIs
      <4>2. PICK e : e = y - 1
        OBVIOUS
      <4>3. e \in 1 .. Len(t) /\ e < Len(t) /\ e + 1 = y /\ e + 2 = x /\ e = x - 2 /\ e \in Nat
        <5>1. PICK g \in Nat : g = Len(t)
          BY <1>1
        <5>2. y \in 1 .. g /\ y < g /\ y > 1 /\ e = y - 1 /\ x = y + 1
          BY <3>2, <4>1, <4>2, <5>1
        <5>3. e \in 1 .. g /\ e < g /\ e + 1 = y /\ e + 2 = x /\ e = x - 2 /\ e \in Nat
          BY <5>2
        <5> QED BY <5>1, <5>3
      <4>4. EndingLength(t, e) = 2 /\ e \in Breaks(t)
        BY <1>1, <4>1, <4>2, <4>3, EndingIs, BreakIs DEF Endings
      <4>5. a # e
        BY <1>3, <4>1, <4>2 DEF Endings
      <4>6. a < e
        BY <1>4, <3>2, <4>3, <4>5
      <4> QED BY <3>1, <4>1, <4>2, <4>3, <4>4, <4>6
    <3> QED BY <3>3, <3>4
  <2>9. PICK e \in Breaks(t) :
          /\ a < e /\ e \in 1 .. Len(t) /\ e + EndingLength(t, e) = x
          /\ \/ e = x - 1
             \/ e = x - 2 /\ t[x - 2] = "r" /\ t[x - 1] = "n"
    BY <2>8
  <2>10. PICK block : block = [first |-> a, ending |-> e]
    OBVIOUS
  <2>11. block.first = a /\ block.ending = e /\ block \in Blocks(t)
    <3>1. \A p \in Blanks(t) : p \notin a .. e
      BY <1>4, <2>1, <2>4, <2>7, <2>9
    <3>2. block \in [first : BlockStarts(t), ending : Breaks(t)] /\ block.first = a /\ block.ending = e
      BY <1>4, <2>10
    <3> QED BY <2>4, <2>9, <3>1, <3>2 DEF Blocks
  <2>12. e - a > MaxFrame
    <3> SUFFICES ASSUME ~(e - a > MaxFrame) PROVE FALSE
      OBVIOUS
    <3>1. PICK s, n : s = Behind(b, MaxFrame) /\ n = Len(b) - MaxFrame
      OBVIOUS
    <3>2. /\ s \in Seq(Bytes) /\ s \notin Partial /\ Len(s) = n /\ n \in Nat /\ n >= 1
          /\ \A i \in 1 .. n : s[i] = b[MaxFrame + i]
      <4>1. s \notin Partial
        BY <1>1, <3>1, TooLargeIs
      <4>2. s \in Seq(Bytes) /\ Len(s) = n
        BY <1>1, <1>2, <3>1, TooLargeIs
      <4>3. \A i \in 1 .. n : s[i] = b[MaxFrame + i]
        BY <1>1, <1>2, <3>1, TooLargeIs
      <4>4. n \in Nat /\ n >= 1
        BY <1>1, <1>2, <3>1
      <4> QED BY <4>1, <4>2, <4>3, <4>4
    <3>3. n = f - c - MaxFrame /\ e <= a + MaxFrame /\ a + MaxFrame <= f /\ f <= x - 1
      BY <1>1, <1>2, <1>3, <2>4, <2>5, <2>9, <3>1
    <3>4. \A i \in 1 .. n : s[i] = t[c + MaxFrame + i]
      <4>1. \A i \in 1 .. n : MaxFrame + i \in 1 .. f - c /\ c + (MaxFrame + i) = c + MaxFrame + i
        BY <1>1, <1>2, <3>3
      <4> QED BY <1>1, <3>2, <4>1
    <3>5. c + MaxFrame + 1 = a + MaxFrame
      BY <1>1, <1>2, <1>3
    <3>6. CASE f = a + MaxFrame
      <4>1. n = 1 /\ s[1] = t[f]
        BY <1>1, <1>2, <1>3, <3>3, <3>4, <3>5, <3>6
      <4>2. t[f] \in Endings
        <5>1. f = e \/ f = x - 1
          BY <1>1, <1>2, <1>4, <2>4, <2>9, <3>3, <3>6
        <5>2. t[e] \in Endings
          BY <1>1, <2>9, BreakIs
        <5> QED BY <2>6, <5>1, <5>2
      <4> QED BY <3>2, <4>1, <4>2, PartialIs
    <3>7. CASE f # a + MaxFrame
      <4>1. f = x - 1 /\ e = x - 2 /\ a + MaxFrame = e /\ n = 2
        BY <1>1, <1>2, <1>3, <2>4, <2>9, <3>3, <3>7
      <4>2. s[1] = t[x - 2] /\ s[2] = t[x - 1]
        <5>1. c + MaxFrame + 1 = x - 2 /\ c + MaxFrame + 2 = x - 1
          BY <1>1, <1>2, <1>3, <2>4, <4>1
        <5> QED BY <3>4, <4>1, <5>1
      <4>3. s[1] = "r" /\ s[2] = "n"
        BY <2>4, <2>9, <4>1, <4>2
      <4> QED BY <3>2, <4>1, <4>3, PartialIs DEF Endings
    <3> QED BY <3>6, <3>7
  <2> QED BY <2>11, <2>12 DEF Overlong
<1> QED BY <1>6, <1>7

\* Where the text ends and no frame is in the rest, no block is.
LEMMA EndIs ==
  ASSUME NEW t, NEW b, NEW c, NEW f, Window(t, b, c, f), AtBlank(t, c), f = Len(t),
         Len(b) = 0 \/ b[1] \notin Endings, FrameEnds(b, 1) = {}
  PROVE  /\ \A block \in Blocks(t) : block.first <= c
         /\ \A a \in BlockStarts(t) :
              (\A p \in Blanks(t) : p < a) => SubSeq(t, a, Len(t)) = b
<1>1. /\ t \in Seq(Bytes) /\ b \in Seq(Bytes) /\ c \in Nat /\ f \in Nat /\ Len(t) \in Nat
      /\ c <= f /\ f <= Len(t) /\ Len(b) = f - c
      /\ \A i \in 1 .. f - c : b[i] = t[c + i]
  BY WindowIs
<1>2. c < f => t[c + 1] \notin Endings
  BY <1>1
<1>3. ASSUME NEW x \in Nat, IsBlank(t, x) PROVE x <= c
  <2>1. f - c + 1 \in Nat /\ \A p \in FrameEnds(b, 1) : f - c + 1 <= p
    BY <1>1
  <2>2. c < x /\ x <= f => c + (f - c + 1) < x
    BY <1>1, <1>2, <1>3, <2>1, NoBlankBefore
  <2>3. x <= f
    BY <1>1, <1>3 DEF IsBlank
  <2> QED BY <1>1, <2>2, <2>3
<1>4. ASSUME NEW block \in Blocks(t) PROVE block.first <= c
  <2>1. PICK x : x = block.ending + EndingLength(t, block.ending)
    OBVIOUS
  <2>2. x \in Nat /\ IsBlank(t, x)
    BY <1>1, <2>1, BlockIs
  <2>3. block.first \in Nat /\ block.ending \in Nat /\ block.first < block.ending /\ EndingLength(t, block.ending) \in {1, 2}
    BY <1>1, BlockIs, EndingIs
  <2> QED BY <1>1, <1>3, <2>1, <2>2, <2>3
<1>5. ASSUME NEW a \in BlockStarts(t), \A p \in Blanks(t) : p < a PROVE a = c + 1
  <2>1. a \in 1 .. Len(t) /\ a \in Nat /\ t[a] \notin Endings /\ AtBlank(t, a - 1)
    <3>1. a \in Nat
      BY <1>1, BytesOf DEF BlockStarts
    <3> QED BY <1>1, <3>1, StartIs
  <2>2. \A x \in Nat : IsBlank(t, x) => x < a
    BY <1>1, <1>5, BlankIs
  <2>3. c < a
    <3>1. CASE c = 0
      BY <2>1, <3>1
    <3>2. CASE IsBlank(t, c)
      BY <1>1, <2>2, <3>2
    <3>3. CASE c \in 2 .. Len(t) /\ IsBlank(t, c - 1) /\ t[c - 1] = "r" /\ t[c] = "n"
      <4>1. c - 1 \in Nat /\ c - 1 < a
        BY <1>1, <2>2, <3>3
      <4>2. a # c
        BY <2>1, <3>3 DEF Endings
      <4> QED BY <1>1, <2>1, <4>1, <4>2
    <3> QED BY <3>1, <3>2, <3>3 DEF AtBlank
  <2>4. a - 1 <= c
    <3>1. CASE a - 1 = 0
      BY <1>1, <3>1
    <3>2. CASE IsBlank(t, a - 1)
      BY <1>3, <2>1, <3>2
    <3>3. CASE a - 1 \in 2 .. Len(t) /\ IsBlank(t, (a - 1) - 1) /\ t[(a - 1) - 1] = "r" /\ t[a - 1] = "n"
      <4>1. (a - 1) - 1 \in Nat /\ (a - 1) - 1 <= c
        BY <1>3, <2>1, <3>3
      <4>2. a - 1 = c + 1 => FALSE
        <5>1. a - 1 = c + 1 => c < f /\ t[c + 1] = "n"
          BY <1>1, <2>1, <3>3
        <5> QED BY <1>2, <5>1 DEF Endings
      <4> QED BY <1>1, <2>1, <4>1, <4>2
    <3> QED BY <2>1, <3>1, <3>2, <3>3 DEF AtBlank
  <2> QED BY <1>1, <2>1, <2>3, <2>4
<1>6. b = SubSeq(t, c + 1, Len(t))
  BY DEF Window
<1> QED BY <1>4, <1>5, <1>6

LEMMA WindowNow ==
  ASSUME StreamInv
  PROVE  /\ Window(text, buffer, Consumed, fed)
         /\ text \in Seq(Bytes) /\ buffer \in Seq(Bytes) /\ fed \in Nat /\ Consumed \in Nat
         /\ Len(text) \in Nat /\ Len(buffer) \in Nat
         /\ Len(buffer) = fed - Consumed /\ Consumed <= fed /\ fed <= Len(text)
<1>1. /\ text \in Seq(Bytes) /\ fed \in 0 .. Len(text)
      /\ Len(buffer) \in 0 .. fed /\ buffer = SubSeq(text, Consumed + 1, fed)
  BY DEF StreamInv
<1>2. Len(text) \in Nat
  BY <1>1
<1>3. Consumed \in Nat /\ fed \in Nat /\ Consumed <= fed /\ fed <= Len(text)
  BY <1>1, <1>2 DEF Consumed
<1>4. Window(text, buffer, Consumed, fed)
  BY <1>1, <1>3 DEF Window
<1>5. PICK t, b, c, f : t = text /\ b = buffer /\ c = Consumed /\ f = fed
  OBVIOUS
<1>6. b \in Seq(Bytes) /\ Len(b) = f - c /\ Len(b) \in Nat
  BY <1>4, <1>5, WindowIs
<1> QED BY <1>1, <1>2, <1>3, <1>4, <1>5, <1>6

\* The frame that is found is the first one of the buffer.
LEMMA FrameFound ==
  ASSUME StreamInv
  PROVE  /\ Frame = <<>> <=> FrameEnds(buffer, 1) = {}
         /\ Frame # <<>> =>
              \E q \in FrameEnds(buffer, 1) :
                /\ \A p \in FrameEnds(buffer, 1) : q <= p
                /\ Frame[1] = q - 1 /\ Frame[2] = EndingLength(buffer, q) + 1
<1>1. FrameEnds(buffer, from) = FrameEnds(buffer, 1)
  <2>2. Len(buffer) \in Nat /\ from \in Nat \ {0}
    BY WindowNow DEF StreamInv
  <2>3. \A p \in FrameEnds(buffer, 1) : p >= from
    BY DEF StreamInv
  <2> QED BY <2>2, <2>3 DEF FrameEnds
<1>2. FrameEnds(buffer, 1) \in SUBSET Nat
  BY WindowNow DEF FrameEnds
<1>3. CASE FrameEnds(buffer, 1) = {}
  BY <1>1, <1>3 DEF Frame, FrameEnd
<1>4. CASE FrameEnds(buffer, 1) # {}
  <2>1. PICK T : T = FrameEnds(buffer, 1)
    OBVIOUS
  <2>2. \E q \in T : \A o \in T : q <= o
    BY <1>2, <1>4, <2>1, NatMin
  <2>3. PICK q : q = CHOOSE x \in T : \A o \in T : x <= o
    OBVIOUS
  <2>4. q \in T /\ \A o \in T : q <= o
    BY <2>2, <2>3
  <2>5. Frame = <<q - 1, EndingLength(buffer, q) + 1>>
    BY <1>1, <1>4, <2>1, <2>3 DEF Frame, FrameEnd
  <2>6. Frame[1] = q - 1 /\ Frame[2] = EndingLength(buffer, q) + 1 /\ Frame # <<>>
    BY <2>5
  <2> QED BY <1>4, <2>1, <2>4, <2>6
<1> QED BY <1>3, <1>4

LEMMA EventsStay ==
  ASSUME StreamInv, text' = text, events' = events, failed' = failed,
         \A block \in Blocks(text) : block.first <= Consumed' <=> block.first <= Consumed
  PROVE  EventsSound'
<1>1. PICK t : t = text
  OBVIOUS
<1>2. text = t /\ text' = t /\ t \in Seq(Bytes)
  BY <1>1, WindowNow
<1>3. \A i \in 1 .. Len(Events(t)) : Events(t)[i] \in Blocks(t)
  BY <1>2, EventsAre
<1>4. EventsSound
  BY DEF StreamInv
<1> QED BY <1>2, <1>3, <1>4 DEF EventsSound

LEMMA StreamBegun == ASSUME StreamInit PROVE StreamInv
<1>1. /\ text \in Seq(Bytes) /\ fed = 0 /\ buffer = <<>> /\ from = 1
      /\ closed = FALSE /\ events = <<>> /\ failed = FALSE
  BY StreamAssumption DEF StreamInit, Bytes
<1>2. Len(text) \in Nat /\ Len(buffer) = 0 /\ Consumed = 0 /\ buffer = SubSeq(text, 1, 0)
  <2>1. Len(text) \in Nat /\ Len(buffer) = 0
    BY <1>1
  <2>2. Consumed = 0
    <3>1. fed = 0 /\ Len(buffer) = 0
      BY <1>1, <2>1
    <3> QED BY <3>1 DEF Consumed
  <2>3. PICK t : t = text
    OBVIOUS
  <2>4. t \in Seq(Bytes) => SubSeq(t, 1, 0) = <<>>
    OBVIOUS
  <2> QED BY <1>1, <2>1, <2>2, <2>3, <2>4
<1>3. FrameEnds(buffer, 1) = {}
  BY <1>1, <1>2 DEF FrameEnds
<1>4. EventsSound
  <2>1. PICK t : t = text
    OBVIOUS
  <2>2. \A block \in Blocks(t) : ~(block.first <= 0)
    <3>1. \A block \in Blocks(t) : block.first \in 1 .. Len(t)
      BY <1>1, <2>1, BlockIs
    <3> QED BY <1>2, <2>1, <3>1
  <2>3. Len(Events(t)) \in Nat /\ \A i \in 1 .. Len(Events(t)) : Events(t)[i] \in Blocks(t)
    BY <1>1, <2>1, EventsAre
  <2>4. Len(events) = 0
    BY <1>1
  <2> QED BY <1>1, <1>2, <2>1, <2>2, <2>3, <2>4 DEF EventsSound
<1>5. AtBlank(text, Consumed) /\ fed \in 0 .. Len(text) /\ Len(buffer) \in 0 .. fed
  BY <1>1, <1>2 DEF AtBlank
<1>6. buffer = SubSeq(text, Consumed + 1, fed)
  BY <1>1, <1>2
<1>7. events \in Seq(Seq(Bytes))
  BY <1>1
<1>8. \A p \in FrameEnds(buffer, 1) : p >= from
  BY <1>3
<1>9. closed \in BOOLEAN /\ failed \in BOOLEAN /\ ~closed /\ from \in Nat \ {0} /\ text \in Seq(Bytes)
  <2>1. closed = FALSE /\ failed = FALSE
    BY <1>1
  <2>2. closed \in BOOLEAN /\ failed \in BOOLEAN /\ ~closed
    BY <2>1, Zenon
  <2>3. from \in Nat \ {0} /\ text \in Seq(Bytes)
    BY <1>1
  <2> QED BY <2>2, <2>3
<1> QED BY <1>4, <1>5, <1>6, <1>7, <1>8, <1>9 DEF StreamInv

LEMMA SkipKeeps == ASSUME StreamInv, SkipEnding PROVE StreamInv'
<1>1. /\ ~failed /\ Leading > 0 /\ buffer' = Behind(buffer, Leading) /\ from' = 1
      /\ text' = text /\ fed' = fed /\ closed' = closed /\ events' = events /\ failed' = failed
  BY DEF SkipEnding
<1>2. PICK t, b, c, f, l : t = text /\ b = buffer /\ c = Consumed /\ f = fed /\ l = Leading
  OBVIOUS
<1>3. /\ Window(t, b, c, f) /\ AtBlank(t, c) /\ t \in Seq(Bytes) /\ b \in Seq(Bytes)
      /\ c \in Nat /\ f \in Nat /\ Len(t) \in Nat /\ Len(b) = f - c /\ c <= f /\ f <= Len(t)
      /\ b = SubSeq(t, c + 1, f) /\ closed \in BOOLEAN
  BY <1>1, <1>2, WindowNow DEF StreamInv, Window
<1>4. /\ l \in {1, 2} /\ l <= Len(b) /\ AtBlank(t, c + l)
      /\ \A a \in Nat : c < a /\ a <= c + l => t[a] \in Endings
  <2>1. l = LeadingEnding(b, closed) /\ l > 0
    BY <1>1, <1>2 DEF Leading
  <2> QED BY <1>3, <2>1, SkipIs
<1>5. buffer' = SubSeq(t, c + l + 1, f) /\ Len(buffer') = f - c - l
  <2>1. buffer' = SubSeq(b, l + 1, Len(b))
    BY <1>1, <1>2 DEF Behind
  <2> QED BY <1>3, <1>4, <2>1
<1>6. Consumed' = c + l
  <2>1. PICK n : n = Len(buffer')
    OBVIOUS
  <2>2. n = f - c - l /\ fed' = f
    BY <1>1, <1>2, <1>5, <2>1
  <2>3. f - n = c + l
    BY <1>3, <1>4, <2>2
  <2> QED BY <2>1, <2>2, <2>3 DEF Consumed
<1>7. \A block \in Blocks(t) : block.first <= c + l <=> block.first <= c
  <2>1. \A block \in Blocks(t) : block.first \in 1 .. Len(t) /\ t[block.first] \notin Endings
    BY <1>3, BlockIs
  <2> QED BY <1>3, <1>4, <2>1
<1>8. EventsSound'
  <2>1. \A block \in Blocks(text) : block.first <= Consumed' <=> block.first <= Consumed
    BY <1>2, <1>6, <1>7
  <2> QED BY <1>1, <2>1, EventsStay
<1>9. \A p \in FrameEnds(buffer', 1) : p >= 1
  BY <1>3, <1>4, <1>5 DEF FrameEnds
<1>10. Len(buffer') \in 0 .. f /\ f \in 0 .. Len(t) /\ buffer' = SubSeq(t, (c + l) + 1, f)
  BY <1>3, <1>4, <1>5
<1> QED BY <1>1, <1>2, <1>3, <1>4, <1>6, <1>8, <1>9, <1>10 DEF StreamInv

LEMMA OverflowKeeps == ASSUME StreamInv, Overflow PROVE StreamInv'
<1>1. /\ ~failed /\ Leading = 0 /\ Frame = <<>> /\ TooLarge(buffer) /\ failed' = TRUE
      /\ text' = text /\ fed' = fed /\ buffer' = buffer /\ from' = from /\ closed' = closed /\ events' = events
  BY DEF Overflow, Pending
<1>2. PICK t, b, c, f : t = text /\ b = buffer /\ c = Consumed /\ f = fed
  OBVIOUS
<1>3. /\ Window(t, b, c, f) /\ AtBlank(t, c) /\ t \in Seq(Bytes) /\ b \in Seq(Bytes)
      /\ c \in Nat /\ f \in Nat /\ Len(t) \in Nat /\ Len(b) = f - c /\ c <= f /\ f <= Len(t)
      /\ closed \in BOOLEAN
  BY <1>1, <1>2, WindowNow DEF StreamInv
<1>4. FrameEnds(b, 1) = {} /\ TooLarge(b)
  BY <1>1, <1>2, FrameFound
<1>5. t[c + 1] \notin Endings
  <2>1. Len(b) > MaxFrame /\ MaxFrame >= 1 /\ MaxFrame \in Nat
    BY <1>3, <1>4, TooLargeIs, StreamAssumption
  <2>2. PICK ended \in BOOLEAN : LeadingEnding(b, ended) = 0
    BY <1>1, <1>2, <1>3 DEF Leading
  <2>3. b[1] \notin Endings
    <3>1. Len(b) = 0 \/ b[1] \notin Endings \/ (Len(b) = 1 /\ ~ended)
      BY <1>3, <2>2, LeadingIs
    <3> QED BY <1>3, <2>1, <3>1
  <2>4. b[1] = t[c + 1]
    <3>0. Window(t, b, c, f)
      BY <1>3
    <3>1. \A i \in 1 .. f - c : b[i] = t[c + i]
      BY <3>0, WindowIs
    <3> QED BY <1>3, <2>1, <3>1
  <2> QED BY <2>3, <2>4
<1>6. Overlong(text)
  BY <1>2, <1>3, <1>4, <1>5, OverflowIs
<1>7. EventsSound'
  <2>1. EventsSound
    BY DEF StreamInv
  <2> QED BY <1>1, <1>6, <2>1 DEF EventsSound
<1> QED BY <1>1, <1>7 DEF StreamInv, Consumed

\* More bytes, or the end of them: what was searched stays searched.
LEMMA WaitKeeps ==
  ASSUME StreamInv, Close \/ \E length \in 1 .. Len(text) : Chunk(length) PROVE StreamInv'
<1>1. /\ ~failed /\ Leading = 0 /\ Frame = <<>> /\ ~closed /\ from' = SearchFrom(buffer)
      /\ text' = text /\ events' = events /\ failed' = failed
  BY DEF Close, Chunk, Pending
<1>2. PICK t, b, c, f : t = text /\ b = buffer /\ c = Consumed /\ f = fed
  OBVIOUS
<1>3. /\ Window(t, b, c, f) /\ AtBlank(t, c) /\ t \in Seq(Bytes) /\ b \in Seq(Bytes)
      /\ c \in Nat /\ f \in Nat /\ Len(t) \in Nat /\ Len(b) = f - c /\ c <= f /\ f <= Len(t)
      /\ b = SubSeq(t, c + 1, f)
  BY <1>1, <1>2, WindowNow DEF StreamInv, Window
<1>4. FrameEnds(b, 1) = {}
  BY <1>1, <1>2, FrameFound
<1>5. \E g \in Nat : /\ f <= g /\ g <= Len(t) /\ fed' = g /\ buffer' = SubSeq(t, c + 1, g)
                     /\ closed' \in BOOLEAN /\ (closed' => g = Len(t))
  <2>1. CASE Close
    <3>1. fed = Len(text) /\ fed' = fed /\ buffer' = buffer /\ closed' = TRUE
      BY <2>1 DEF Close
    <3> QED BY <1>2, <1>3, <3>1
  <2>2. CASE \E length \in 1 .. Len(text) : Chunk(length)
    <3>1. PICK length \in 1 .. Len(text) : Chunk(length)
      BY <2>2
    <3>2. /\ length \in 1 .. Len(text) - fed /\ buffer' = buffer \o SubSeq(text, fed + 1, fed + length)
          /\ fed' = fed + length /\ closed' = closed
      BY <3>1 DEF Chunk
    <3>3. PICK g : g = f + length
      OBVIOUS
    <3>4. g \in Nat /\ f <= g /\ g <= Len(t) /\ fed' = g /\ length \in Nat
      BY <1>2, <1>3, <3>2, <3>3
    <3>5. SubSeq(t, c + 1, f) \o SubSeq(t, f + 1, g) = SubSeq(t, c + 1, g)
      BY <1>3, <3>4
    <3>6. buffer' = SubSeq(t, c + 1, g)
      BY <1>2, <1>3, <3>2, <3>3, <3>5
    <3>7. closed' = FALSE
      <4>1. closed \in BOOLEAN /\ ~closed
        BY <1>1 DEF StreamInv
      <4> QED BY <3>2, <4>1
    <3> QED BY <3>4, <3>6, <3>7
  <2> QED BY <2>1, <2>2
<1>6. PICK g \in Nat : /\ f <= g /\ g <= Len(t) /\ fed' = g /\ buffer' = SubSeq(t, c + 1, g)
                       /\ closed' \in BOOLEAN /\ (closed' => g = Len(t))
  BY <1>5
<1>7. PICK z : z = buffer'
  OBVIOUS
<1>8. Window(t, z, c, g)
  BY <1>3, <1>6, <1>7 DEF Window
<1>9. z \in Seq(Bytes) /\ Len(z) = g - c /\ \A i \in 1 .. g - c : z[i] = t[c + i]
  BY <1>8, WindowIs
<1>10. Len(b) <= Len(z) /\ Len(b) \in Nat /\ Len(z) \in Nat /\ \A i \in 1 .. Len(b) : z[i] = b[i]
  <2>1. \A i \in 1 .. f - c : b[i] = t[c + i]
    BY <1>3, WindowIs
  <2> QED BY <1>3, <1>6, <1>9, <2>1
<1>11. ASSUME NEW p \in FrameEnds(z, 1) PROVE p >= from'
  <2>1. p \in 1 .. Len(z) /\ z[p] \in Endings /\ z[p + EndingLength(z, p)] \in Endings
    BY <1>10, <1>11 DEF FrameEnds
  <2>2. PICK el : el = EndingLength(z, p)
    OBVIOUS
  <2>3. el \in {1, 2}
    BY <1>9, <2>1, <2>2, EndingIs
  <2>4. ASSUME p <= Len(b) - 3 PROVE FALSE
    <3>1. p \in 1 .. Len(b) /\ p < Len(b) /\ p + 1 \in 1 .. Len(b) /\ p + el \in 1 .. Len(b) /\ p < Len(z) /\ p \in Nat
      BY <1>10, <2>1, <2>3, <2>4
    <3>2. z[p] = b[p] /\ z[p + 1] = b[p + 1] /\ z[p + el] = b[p + el]
      <4>1. PICK x, y : x = p + 1 /\ y = p + el
        OBVIOUS
      <4>2. z[p] = b[p] /\ z[x] = b[x] /\ z[y] = b[y]
        BY <1>10, <3>1, <4>1
      <4> QED BY <4>1, <4>2
    <3>3. EndingLength(b, p) = el
      BY <2>2, <3>1, <3>2 DEF EndingLength
    <3>4. p \in FrameEnds(b, 1)
      BY <1>10, <2>1, <2>2, <3>1, <3>2, <3>3 DEF FrameEnds
    <3> QED BY <1>4, <3>4
  <2>5. from' = IF Len(b) < 3 THEN 1 ELSE Len(b) - 2
    BY <1>1, <1>2 DEF SearchFrom
  <2> QED BY <1>10, <2>1, <2>4, <2>5
<1>12. from' \in Nat \ {0}
  BY <1>1, <1>2, <1>10 DEF SearchFrom
<1>13. Consumed' = c
  BY <1>6, <1>7, <1>9, <1>3 DEF Consumed
<1>14. EventsSound'
  BY <1>1, <1>2, <1>13, EventsStay
<1>15. text' \in Seq(Bytes) /\ fed' \in 0 .. Len(text') /\ Len(buffer') \in 0 .. fed'
  BY <1>1, <1>2, <1>3, <1>6, <1>7, <1>9
<1>16. AtBlank(text, Consumed)' /\ buffer' = SubSeq(text', Consumed' + 1, fed')
  BY <1>1, <1>2, <1>3, <1>6, <1>13
<1> QED BY <1>1, <1>2, <1>6, <1>7, <1>11, <1>12, <1>14, <1>15, <1>16 DEF StreamInv

\* A frame that is cut is the next block, and an event if it has data.
LEMMA CutKeeps == ASSUME StreamInv, CutFrame PROVE StreamInv'
<1>1. /\ ~failed /\ Frame # <<>>
      /\ buffer' = Behind(buffer, Frame[1] + Frame[2]) /\ from' = 1
      /\ failed' = (Frame[1] > MaxFrame)
      /\ events' = IF ~failed' /\ HasData(SubSeq(buffer, 1, Frame[1]))
                   THEN Append(events, SubSeq(buffer, 1, Frame[1])) ELSE events
      /\ text' = text /\ fed' = fed /\ closed' = closed
  BY DEF CutFrame
<1>2. PICK t, b, c, f : t = text /\ b = buffer /\ c = Consumed /\ f = fed
  OBVIOUS
<1>3. /\ AtBlank(t, c) /\ t \in Seq(Bytes) /\ b \in Seq(Bytes)
      /\ c \in Nat /\ f \in Nat /\ Len(t) \in Nat /\ Len(b) = f - c /\ c <= f /\ f <= Len(t)
      /\ b = SubSeq(t, c + 1, f) /\ closed \in BOOLEAN
  BY <1>1, <1>2, WindowNow DEF StreamInv, Window
<1>4. Window(t, b, c, f)
  BY <1>3 DEF Window
<1>5. PICK q \in FrameEnds(b, 1) :
        /\ \A p \in FrameEnds(b, 1) : q <= p
        /\ Frame[1] = q - 1 /\ Frame[2] = EndingLength(b, q) + 1
  BY <1>1, <1>2, FrameFound
<1>6. q \in 1 .. Len(b) /\ b[q] \in Endings /\ 2 <= Len(b)
  <2>1. q \in 1 .. Len(b) /\ b[q] \in Endings /\ q + EndingLength(b, q) <= Len(b)
    BY <1>3 DEF FrameEnds
  <2>2. EndingLength(b, q) \in {1, 2}
    BY <1>3, <2>1, EndingIs
  <2> QED BY <1>3, <2>1, <2>2
<1>7. t[c + 1] \notin Endings
  <2>1. PICK ended \in BOOLEAN : LeadingEnding(b, ended) = 0
    BY <1>2, <1>3 DEF Leading, CutFrame
  <2>2. Len(b) = 0 \/ b[1] \notin Endings \/ (Len(b) = 1 /\ ~ended)
    BY <1>3, <2>1, LeadingIs
  <2>3. \A i \in 1 .. f - c : b[i] = t[c + i]
    BY <1>4, WindowIs
  <2> QED BY <1>3, <1>6, <2>2, <2>3
<1>8. PICK el : el = EndingLength(b, q)
  OBVIOUS
<1>9. PICK cut : cut = [first |-> c + 1, ending |-> c + q]
  OBVIOUS
<1>10. /\ q \in Nat /\ 1 < q /\ el \in {1, 2} /\ q + el <= Len(b)
       /\ cut \in Blocks(t) /\ AtBlank(t, c + q + el)
       /\ \A block \in Blocks(t) : block.first <= c + q + el => block.first <= c \/ block = cut
  BY <1>3, <1>4, <1>5, <1>7, <1>8, <1>9, FrameIs
<1>11. cut.first = c + 1 /\ cut.ending = c + q
  BY <1>9
<1>12. PICK n, frame : n = q + el /\ frame = SubSeq(b, 1, q - 1)
  OBVIOUS
<1>13. n \in Nat /\ n <= Len(b) /\ Frame[1] + Frame[2] = n /\ q < n
  <2>1. Frame[1] = q - 1 /\ Frame[2] = el + 1
    BY <1>5, <1>8
  <2>2. n = q + el /\ q \in Nat /\ el \in {1, 2} /\ q + el <= Len(b)
    BY <1>10, <1>12
  <2> QED BY <2>1, <2>2
<1>14. buffer' = SubSeq(t, c + n + 1, f) /\ Len(buffer') = f - c - n
  <2>1. buffer' = SubSeq(b, n + 1, Len(b))
    BY <1>1, <1>2, <1>13 DEF Behind
  <2> QED BY <1>3, <1>13, <2>1
<1>15. Consumed' = c + n
  <2>1. PICK m : m = Len(buffer')
    OBVIOUS
  <2>2. m = f - c - n /\ fed' = f
    BY <1>1, <1>2, <1>14, <2>1
  <2>3. f - m = c + n
    BY <1>3, <1>13, <2>2
  <2> QED BY <2>1, <2>2, <2>3 DEF Consumed
<1>16. frame \in Seq(Bytes) /\ frame = SubSeq(t, c + 1, c + q - 1)
  BY <1>3, <1>6, <1>10, <1>12
<1>17. HasData(frame) <=> WithData(t, cut)
  BY <1>3, <1>4, <1>6, <1>9, <1>12, DataIs
<1>18. /\ failed' <=> q - 1 > MaxFrame
       /\ failed' \in BOOLEAN
       /\ events' = IF ~failed' /\ HasData(frame) THEN Append(events, frame) ELSE events
  <2>1. PICK size, more : size = Frame[1] /\ more = failed'
    OBVIOUS
  <2>2. size = q - 1 /\ SubSeq(buffer, 1, size) = frame
    BY <1>2, <1>5, <1>12, <2>1
  <2>3. more = (size > MaxFrame)
    BY <1>1, <2>1
  <2>4. (more <=> q - 1 > MaxFrame) /\ more \in BOOLEAN
    <3>1. (size > MaxFrame) \in BOOLEAN /\ (size > MaxFrame <=> q - 1 > MaxFrame)
      BY <1>10, <2>2, StreamAssumption
    <3> QED BY <2>3, <3>1, Zenon
  <2>5. events' = IF ~more /\ HasData(frame) THEN Append(events, frame) ELSE events
    BY <1>1, <2>1, <2>2
  <2> QED BY <2>1, <2>4, <2>5
<1>19. PICK E, k : E = Events(t) /\ k = Len(events)
  OBVIOUS
<1>20. /\ Len(E) \in Nat /\ \A i \in 1 .. Len(E) : E[i] \in Blocks(t) /\ WithData(t, E[i])
       /\ \A i, j \in 1 .. Len(E) : i < j => E[i].first < E[j].first
       /\ \A block \in Blocks(t) : WithData(t, block) => \E i \in 1 .. Len(E) : E[i] = block
  BY <1>3, <1>19, EventsAre
<1>21. /\ events \in Seq(Seq(Bytes)) /\ k \in Nat /\ k <= Len(E)
       /\ \A i \in 1 .. k : events[i] = SubSeq(t, E[i].first, E[i].ending - 1)
       /\ \A i \in 1 .. Len(E) : E[i].first <= c <=> i <= k
       /\ \A block \in Blocks(t) : block.first <= c => block.ending - block.first <= MaxFrame
  BY <1>1, <1>2, <1>19 DEF StreamInv, EventsSound
<1>22. \A block \in Blocks(t) : block.first \in Nat
  BY <1>3, BlockIs
<1>23. \A block \in Blocks(t) : block.first <= c + n => block.first <= c \/ block = cut
  <2>1. c + q + el = c + n
    BY <1>3, <1>10, <1>12
  <2> QED BY <1>10, <2>1
<1>24. MaxFrame \in Nat
  BY StreamAssumption
<1>25. ASSUME failed' PROVE EventsSound' /\ events' \in Seq(Seq(Bytes))
  <2>1. events' = events
    BY <1>18, <1>25
  <2>2. Overlong(t)
    <3>1. cut.ending - cut.first > MaxFrame
      BY <1>3, <1>10, <1>11, <1>18, <1>24, <1>25
    <3> QED BY <1>10, <3>1 DEF Overlong
  <2>3. EventsSound'
    BY <1>1, <1>2, <1>19, <1>21, <1>25, <2>1, <2>2 DEF EventsSound
  <2> QED BY <1>21, <2>1, <2>3
<1>26. ASSUME ~failed', HasData(frame) PROVE EventsSound' /\ events' \in Seq(Seq(Bytes))
  <2>1. events' = Append(events, frame)
    BY <1>18, <1>26
  <2>2. PICK j \in 1 .. Len(E) : E[j] = cut
    BY <1>10, <1>17, <1>20, <1>26
  <2>3. j = k + 1
    <3>1. ~(j <= k)
      BY <1>3, <1>11, <1>21, <2>2
    <3>2. k + 1 < j => E[k + 1].first < c + 1 /\ k + 1 \in 1 .. Len(E)
      <4>1. k + 1 < j => k + 1 \in 1 .. Len(E)
        BY <1>20, <1>21, <2>2
      <4> QED BY <1>11, <1>20, <2>2, <4>1
    <3>3. ~(k + 1 < j)
      <4>1. k + 1 < j => E[k + 1].first \in Nat
        BY <1>20, <1>22, <3>2
      <4>2. k + 1 < j => E[k + 1].first <= c
        BY <1>3, <3>2, <4>1
      <4>3. ~(k + 1 <= k)
        BY <1>21
      <4> QED BY <1>21, <3>2, <4>2, <4>3
    <3> QED BY <1>20, <1>21, <2>2, <3>1, <3>3
  <2>4. \A i \in 1 .. Len(E) : E[i].first <= c + n <=> i <= k + 1
    <3>1. ASSUME NEW i \in 1 .. Len(E), E[i].first <= c + n PROVE i <= k + 1
      <4>1. E[i].first <= c \/ E[i] = cut
        BY <1>20, <1>23, <3>1
      <4>2. CASE E[i].first <= c
        BY <1>21, <4>2
      <4>3. CASE E[i] = cut
        <5>1. i < j => E[i].first < E[j].first
          BY <1>20
        <5>2. j < i => E[j].first < E[i].first
          BY <1>20
        <5> QED BY <1>3, <1>11, <2>2, <2>3, <4>3, <5>1, <5>2
      <4> QED BY <4>1, <4>2, <4>3
    <3>2. ASSUME NEW i \in 1 .. Len(E), i <= k + 1 PROVE E[i].first <= c + n
      <4>1. i <= k \/ i = j
        BY <1>21, <2>3, <3>2
      <4>2. CASE i <= k
        <5>1. E[i].first <= c /\ E[i].first \in Nat
          BY <1>20, <1>21, <1>22, <4>2
        <5> QED BY <1>3, <1>13, <5>1
      <4>3. CASE i = j
        BY <1>3, <1>10, <1>11, <1>13, <2>2, <4>3
      <4> QED BY <4>1, <4>2, <4>3
    <3> QED BY <3>1, <3>2
  <2>5. /\ Len(events') = k + 1 /\ events' \in Seq(Seq(Bytes))
        /\ \A i \in 1 .. k : events'[i] = events[i]
        /\ events'[k + 1] = frame
    <3>1. PICK A, old : A = Seq(Bytes) /\ old = events
      OBVIOUS
    <3>2. old \in Seq(A) /\ frame \in A /\ Len(old) = k /\ k \in Nat /\ events' = Append(old, frame)
      BY <1>16, <1>19, <1>21, <2>1, <3>1
    <3>3. Append(old, frame) \in Seq(A) /\ Len(Append(old, frame)) = k + 1
      BY <3>2
    <3>4. (\A i \in 1 .. k : Append(old, frame)[i] = old[i]) /\ Append(old, frame)[k + 1] = frame
      BY <3>2
    <3> QED BY <3>1, <3>2, <3>3, <3>4
  <2>6. \A i \in 1 .. k + 1 : events'[i] = SubSeq(t, E[i].first, E[i].ending - 1)
    <3>1. events'[k + 1] = SubSeq(t, E[k + 1].first, E[k + 1].ending - 1)
      <4>1. PICK x : x = E[k + 1]
        OBVIOUS
      <4>2. x.first = c + 1 /\ x.ending = c + q
        BY <1>11, <2>2, <2>3, <4>1
      <4>3. frame = SubSeq(t, x.first, x.ending - 1)
        BY <1>3, <1>10, <1>16, <4>2
      <4> QED BY <2>5, <4>1, <4>3
    <3>2. \A i \in 1 .. k + 1 : i \in 1 .. k \/ i = k + 1
      BY <1>21
    <3> QED BY <1>21, <2>5, <3>1, <3>2
  <2>7. \A block \in Blocks(t) : block.first <= c + n => block.ending - block.first <= MaxFrame
    <3>1. cut.ending - cut.first <= MaxFrame
      BY <1>3, <1>10, <1>11, <1>18, <1>24, <1>26
    <3> QED BY <1>21, <1>23, <3>1
  <2>8. k + 1 <= Len(E)
    BY <1>20, <2>2, <2>3
  <2>9. EventsSound'
    BY <1>1, <1>2, <1>15, <1>19, <1>26, <2>4, <2>5, <2>6, <2>7, <2>8 DEF EventsSound
  <2> QED BY <2>5, <2>9
<1>27. ASSUME ~failed', ~HasData(frame) PROVE EventsSound' /\ events' \in Seq(Seq(Bytes))
  <2>1. events' = events
    BY <1>18, <1>27
  <2>2. \A i \in 1 .. Len(E) : E[i].first <= c + n <=> i <= k
    <3>1. ASSUME NEW i \in 1 .. Len(E) PROVE E[i].first <= c + n <=> E[i].first <= c
      <4>1. E[i] # cut /\ E[i] \in Blocks(t) /\ E[i].first \in Nat
        BY <1>17, <1>20, <1>22, <1>27
      <4> QED BY <1>3, <1>13, <1>23, <4>1
    <3> QED BY <1>21, <3>1
  <2>3. \A block \in Blocks(t) : block.first <= c + n => block.ending - block.first <= MaxFrame
    <3>1. cut.ending - cut.first <= MaxFrame
      BY <1>3, <1>10, <1>11, <1>18, <1>24, <1>27
    <3> QED BY <1>21, <1>23, <3>1
  <2>4. EventsSound'
    BY <1>1, <1>2, <1>15, <1>19, <1>21, <1>27, <2>1, <2>2, <2>3 DEF EventsSound
  <2> QED BY <1>21, <2>1, <2>4
<1>28. EventsSound' /\ events' \in Seq(Seq(Bytes))
  BY <1>18, <1>25, <1>26, <1>27
<1>29. \A p \in FrameEnds(buffer', 1) : p >= 1
  BY <1>3, <1>13, <1>14 DEF FrameEnds
<1>30. Len(buffer') \in 0 .. f /\ f \in 0 .. Len(t) /\ buffer' = SubSeq(t, (c + n) + 1, f)
  BY <1>3, <1>13, <1>14
<1>31. AtBlank(t, c + n)
  <2>1. c + n = c + q + el
    BY <1>3, <1>10, <1>12
  <2> QED BY <1>10, <2>1
<1>32. closed => f = Len(t)
  BY <1>2 DEF StreamInv
<1>33. /\ text' \in Seq(Bytes) /\ fed' \in 0 .. Len(text') /\ Len(buffer') \in 0 .. fed'
       /\ buffer' = SubSeq(text', Consumed' + 1, fed')
  BY <1>1, <1>2, <1>3, <1>15, <1>30
<1>34. closed' \in BOOLEAN /\ (closed' => fed' = Len(text'))
  BY <1>1, <1>2, <1>3, <1>32
<1>35. from' \in Nat \ {0} /\ \A p \in FrameEnds(buffer', 1) : p >= from'
  BY <1>1, <1>29
<1>36. AtBlank(text', Consumed')
  BY <1>1, <1>2, <1>15, <1>31
<1>37. failed' \in BOOLEAN
  BY <1>18
<1> QED BY <1>28, <1>33, <1>34, <1>35, <1>36, <1>37 DEF StreamInv

LEMMA StreamKept == ASSUME StreamInv, StreamNext \/ UNCHANGED streamVars PROVE StreamInv'
<1>1. CASE UNCHANGED streamVars
  <2>1. /\ text' = text /\ fed' = fed /\ buffer' = buffer /\ from' = from
        /\ closed' = closed /\ events' = events /\ failed' = failed
    BY <1>1 DEF streamVars
  <2>2. Consumed' = Consumed
    BY <2>1 DEF Consumed
  <2>3. EventsSound' <=> EventsSound
    BY <2>1, <2>2 DEF EventsSound
  <2> QED BY <2>1, <2>2, <2>3 DEF StreamInv
<1>2. CASE StreamNext
  BY <1>2, SkipKeeps, CutKeeps, OverflowKeeps, WaitKeeps DEF StreamNext
<1> QED BY <1>1, <1>2

LEMMA StreamMeans == ASSUME StreamInv PROVE FramesFaithful
<1>1. PICK t, b, c, f : t = text /\ b = buffer /\ c = Consumed /\ f = fed
  OBVIOUS
<1>2. /\ Window(t, b, c, f) /\ t \in Seq(Bytes) /\ b \in Seq(Bytes)
      /\ Len(t) \in Nat /\ Len(b) \in Nat /\ c \in Nat
  BY <1>1, WindowNow
<1>3. EventsSound /\ events \in Seq(Seq(Bytes)) /\ closed \in BOOLEAN
  BY DEF StreamInv
<1>4. DOMAIN events = 1 .. Len(events) /\ Len(events) \in Nat
  BY <1>3
<1>5. PICK E : E = Events(t)
  OBVIOUS
<1>6. Len(E) \in Nat /\ \A i \in 1 .. Len(E) : E[i] \in Blocks(t)
  BY <1>2, <1>5, EventsAre
<1>7. ASSUME closed, Pending, ~TooLarge(buffer) PROVE Len(events) = Len(Events(text)) /\ ~Overlong(text)
  <2>1. ~failed /\ Leading = 0 /\ Frame = <<>>
    BY <1>7 DEF Pending
  <2>2. AtBlank(t, c) /\ f = Len(t) /\ FrameEnds(b, 1) = {} /\ ~TooLarge(b)
    BY <1>1, <1>7, <2>1, FrameFound DEF StreamInv
  <2>3. Len(b) = 0 \/ b[1] \notin Endings
    <3>1. PICK ended \in BOOLEAN : ended /\ LeadingEnding(b, ended) = 0
      BY <1>1, <1>3, <1>7, <2>1 DEF Leading
    <3> QED BY <1>2, <3>1, LeadingIs
  <2>4. /\ \A block \in Blocks(t) : block.first <= c
        /\ \A a \in BlockStarts(t) : (\A p \in Blanks(t) : p < a) => SubSeq(t, a, Len(t)) = b
    BY <1>2, <2>2, <2>3, EndIs
  <2>5. /\ Len(events) <= Len(E)
        /\ \A i \in 1 .. Len(E) : E[i].first <= c <=> i <= Len(events)
        /\ \A block \in Blocks(t) : block.first <= c => block.ending - block.first <= MaxFrame
    BY <1>1, <1>3, <1>5, <2>1 DEF EventsSound
  <2>6. Len(E) <= Len(events)
    <3>1. Len(E) \in 1 .. Len(E) => Len(E) <= Len(events)
      BY <1>6, <2>4, <2>5
    <3> QED BY <1>4, <1>6, <3>1
  <2>7. ~Overlong(t)
    <3>1. \A block \in Blocks(t) : ~(block.ending - block.first > MaxFrame)
      <4>1. \A block \in Blocks(t) : block.ending \in Nat /\ block.first \in Nat
        BY <1>2, BlockIs
      <4>2. MaxFrame \in Nat
        BY StreamAssumption
      <4> QED BY <2>4, <2>5, <4>1, <4>2
    <3> QED BY <2>2, <2>4, <3>1 DEF Overlong
  <2> QED BY <1>1, <1>4, <1>5, <1>6, <2>5, <2>6, <2>7
<1> QED BY <1>3, <1>4, <1>7 DEF FramesFaithful, EventsSound

StreamSpec == StreamInit /\ [][StreamNext]_streamVars

\* However the bytes of a stream are cut into chunks, the events yielded are the
\* blocks of its text that have a line of data, in their order, and whether a
\* frame is too long does not depend on the chunks (client.rs, decode_next_frame):
\* for texts of any length and any limit on the length of a frame.
THEOREM AnyStreamFaithful == StreamSpec => []FramesFaithful
<1>1. StreamInit => StreamInv
  BY StreamBegun
<1>2. StreamInv /\ [StreamNext]_streamVars => StreamInv'
  BY StreamKept
<1>3. StreamInv => FramesFaithful
  BY StreamMeans
<1> QED BY <1>1, <1>2, <1>3, PTL DEF StreamSpec
=================================================================================
