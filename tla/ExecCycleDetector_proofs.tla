---------------------- MODULE ExecCycleDetector_proofs -----------------------
(***************************************************************************)
(* The task cycle detector of ExecCompilation: the packed word holds two   *)
(* counters, the counters are exact, the process is ended only when no     *)
(* task can go on, and a round that is not ended has lost no task.         *)
(***************************************************************************)
EXTENDS ExecCompilation_proofs

-----------------------------------------------------------------------------
(* Adding to the packed word adds to each counter, for words of any width: *)
(* nothing is carried or borrowed from one half to the other.              *)

\* The sizes of a half and of the word.
LEMMA HalfIsPositive == Half \in Nat /\ Half > 0 /\ Words \in Nat /\ Words > 0
<1>1. Half \in Nat /\ Half > 0  BY BiasAssumption DEF Half
<1>2. Half * Half \in Nat /\ Half * Half > 0  BY <1>1
<1> QED  BY <1>1, <1>2 DEF Words

\* An integer q * n + r, where r is less than n, has the quotient q and the
\* remainder r.
LEMMA Division ==
  ASSUME NEW n \in Nat, n > 0, NEW q \in Int, NEW r \in 0 .. n - 1
  PROVE  (q * n + r) \div n = q /\ (q * n + r) % n = r
<1> DEFINE x == q * n + r
<1>1. x \in Int  OBVIOUS
<1>2. PICK d \in Int : d = x \div n  BY <1>1
<1>3. PICK m \in 0 .. n - 1 : m = x % n  BY <1>1
<1>4. x = n * d + m  BY <1>1, <1>2, <1>3
<1>5. (d - q) * n = r - m  BY <1>4
<1>6. ASSUME d - q >= 1 PROVE FALSE
  <2>1. (d - q) * n >= n  BY <1>6
  <2> QED  BY <2>1, <1>5
<1>7. ASSUME d - q <= -1 PROVE FALSE
  <2>1. (d - q) * n <= -n  BY <1>7
  <2> QED  BY <2>1, <1>5
<1>8. d = q  BY <1>6, <1>7
<1>9. m = r  BY <1>8, <1>5
<1> QED  BY <1>2, <1>3, <1>8, <1>9

\* Each half of a word holds a counter, and they make up the word.
LEMMA Halves ==
  ASSUME NEW word \in 0 .. Words - 1
  PROVE  /\ word \div Half \in 0 .. Half - 1 /\ word % Half \in 0 .. Half - 1
         /\ word = (word \div Half) * Half + (word % Half)
<1> DEFINE h == word \div Half
           l == word % Half
<1>1. h \in Int /\ l \in 0 .. Half - 1 /\ word = h * Half + l
  <2>1. PICK n \in Nat : n = Half /\ n > 0  BY HalfIsPositive
  <2>2. word \in Int  BY HalfIsPositive
  <2>3. word \div n \in Int /\ word % n \in 0 .. n - 1 /\ word = (word \div n) * n + (word % n)
    BY <2>1, <2>2
  <2> QED  BY <2>1, <2>3
<1> HIDE DEF h, l
<1>2. ASSUME h < 0 PROVE FALSE
  <2>1. h * Half <= -Half  BY <1>1, <1>2, HalfIsPositive
  <2> QED  BY <1>1, <2>1, HalfIsPositive
<1>3. ASSUME h >= Half PROVE FALSE
  <2>1. h * Half >= Half * Half  BY <1>1, <1>3, HalfIsPositive
  <2> QED  BY <1>1, <2>1, HalfIsPositive DEF Words
<1>4. h \in 0 .. Half - 1  BY <1>1, <1>2, <1>3, HalfIsPositive
<1> QED  BY <1>1, <1>4 DEF h, l

\* A thread that adds to both counters at once, with amounts of any sign, adds to
\* each its amount and nothing else, as long as the sums are counters.
THEOREM AddIsExact ==
  ASSUME NEW word \in 0 .. Words - 1, NEW b \in Int, NEW u \in Int,
         Unpack(word)[1] + b \in Counter, Unpack(word)[2] + u \in Counter
  PROVE  /\ AddTo(word, b, u) \in 0 .. Words - 1
         /\ Unpack(AddTo(word, b, u)) = <<Unpack(word)[1] + b, Unpack(word)[2] + u>>
<1> DEFINE h == word \div Half
           l == word % Half
<1>1. h \in 0 .. Half - 1 /\ l \in 0 .. Half - 1 /\ word = h * Half + l  BY Halves
<1>2. Unpack(word) = <<h - Bias, l - Bias>>  BY DEF Unpack
<1> HIDE DEF h, l
<1>4. h + b \in 0 .. Half - 1 /\ l + u \in 0 .. Half - 1
  BY <1>1, <1>2, BiasAssumption DEF Counter, Half
<1> DEFINE sum == (h + b) * Half + (l + u)
<1>5. sum \in 0 .. Words - 1
  <2>1. (h + b) * Half >= 0 /\ (h + b) * Half <= (Half - 1) * Half
    BY <1>4, HalfIsPositive
  <2>2. (Half - 1) * Half = Words - Half  BY HalfIsPositive DEF Words
  <2> QED  BY <1>4, <2>1, <2>2, HalfIsPositive
\* The amount modulo the word makes the same sum modulo the word.
<1>6. AddTo(word, b, u) = sum
  <2> DEFINE amount == b * Half + u
  <2>1. amount \in Int /\ sum = word + amount  BY <1>1, HalfIsPositive
  <2>2. PICK k \in Int : k = amount \div Words  BY <2>1, HalfIsPositive
  <2>3. PICK multiple \in Int : multiple = k * Words  BY HalfIsPositive
  <2>4. amount % Words = amount - multiple  BY <2>1, <2>2, <2>3, HalfIsPositive
  <2>5. (-k) * Words = -multiple /\ -k \in Int  BY <2>3, HalfIsPositive
  <2> HIDE DEF amount, sum
  <2>6. word + (amount % Words) = (-k) * Words + sum
    BY <2>1, <2>4, <2>5, <1>5, HalfIsPositive
  <2>7. ((-k) * Words + sum) % Words = sum
    BY <1>5, <2>5, HalfIsPositive, Division, Zenon
  <2>8. AddTo(word, b, u) = (word + (amount % Words)) % Words
    BY Zenon DEF AddTo, PackIncrementAmount, amount
  <2> QED  BY <2>6, <2>7, <2>8, Zenon
<1>7. sum \div Half = h + b /\ sum % Half = l + u
  BY <1>4, HalfIsPositive, Division
<1> HIDE DEF sum
<1> QED
  <2>1. Unpack(sum) = <<h + b - Bias, l + u - Bias>>
    BY <1>1, <1>5, <1>7, BiasAssumption, HalfIsPositive DEF Unpack
  <2> QED  BY <1>1, <1>2, <1>5, <1>6, <2>1, BiasAssumption

-----------------------------------------------------------------------------
(* Sums over finite sets of threads.                                       *)

Positive(n) == IF n > 0 THEN n ELSE 0

\* Equal amounts have the same units.
LEMMA UnitsSame ==
  ASSUME NEW T, NEW amount, NEW other, \A th \in T : amount[th] = other[th]
  PROVE  Units(amount, T) = Units(other, T)
<1> DEFINE A == {{th} \X (1 .. amount[th]) : th \in T}
           B == {{th} \X (1 .. other[th]) : th \in T}
<1>1. A = B  OBVIOUS
<1>2. Units(amount, T) = UNION A /\ Units(other, T) = UNION B  BY DEF Units
<1> HIDE DEF A, B
<1> QED  BY <1>1, <1>2

\* Finitely many amounts have finitely many units.
LEMMA UnitsFinite ==
  ASSUME NEW T, IsFiniteSet(T), NEW amount, \A th \in T : amount[th] \in Int
  PROVE  IsFiniteSet(Units(amount, T))
<1> DEFINE A == {{th} \X (1 .. amount[th]) : th \in T}
           f == [th \in T |-> {th} \X (1 .. amount[th])]
<1>1. f \in Surjection(T, A)
  BY DEF Surjection
<1>2. \A U \in A : IsFiniteSet(U)
  <2> SUFFICES ASSUME NEW th \in T PROVE IsFiniteSet({th} \X (1 .. amount[th]))
    OBVIOUS
  <2>1. IsFiniteSet({th}) /\ IsFiniteSet(1 .. amount[th])
    <3>1. PICK n \in Int : n = amount[th]  OBVIOUS
    <3>2. IsFiniteSet(1 .. n)  BY FS_Interval
    <3> QED  BY <3>1, <3>2, FS_Singleton
  <2> QED  BY <2>1, FS_Product
<1>3. Units(amount, T) = UNION A  BY DEF Units
<1> HIDE DEF A, f
<1>4. IsFiniteSet(A)  BY <1>1, FS_Surjection
<1> QED  BY <1>2, <1>3, <1>4, FS_UNION

\* The units of one thread are added to those of the others.
LEMMA UnitsSplit ==
  ASSUME NEW T, IsFiniteSet(T), NEW amount, \A th \in T : amount[th] \in Int,
         NEW th \in T
  PROVE  /\ Cardinality(Units(amount, T)) \in Nat
         /\ Cardinality(Units(amount, T \ {th})) \in Nat
         /\ Cardinality(Units(amount, T)) =
              Cardinality(Units(amount, T \ {th})) + Positive(amount[th])
<1> DEFINE R == T \ {th}
           A == Units(amount, R)
           B == {th} \X (1 .. amount[th])
<1>1. PICK n \in Int : n = amount[th]  OBVIOUS
<1>2. IsFiniteSet(R) /\ \A u \in R : amount[u] \in Int  BY FS_RemoveElement
<1>3. IsFiniteSet(A)  BY <1>2, UnitsFinite
<1>4. IsFiniteSet(B) /\ Cardinality(B) = Positive(n)
  <2>1. IsFiniteSet({th}) /\ Cardinality({th}) = 1  BY FS_Singleton
  <2>2. IsFiniteSet(1 .. n) /\ Cardinality(1 .. n) = IF 1 > n THEN 0 ELSE n - 1 + 1  BY FS_Interval
  <2>3. IsFiniteSet(B) /\ Cardinality(B) = Cardinality({th}) * Cardinality(1 .. n)
    BY <1>1, <2>1, <2>2, FS_Product
  <2>4. Cardinality(1 .. n) = Positive(n)  BY <2>2 DEF Positive
  <2>5. Positive(n) \in Nat  BY DEF Positive
  <2> HIDE DEF B
  <2>6. Cardinality(B) = 1 * Positive(n)  BY <2>1, <2>3, <2>4
  <2> QED  BY <2>3, <2>5, <2>6
<1>5. Units(amount, T) = A \cup B
  <2>1. ASSUME NEW x PROVE x \in Units(amount, T) <=> x \in A \cup B
    <3>1. x \in Units(amount, T) <=> \E u \in T : x \in {u} \X (1 .. amount[u])  BY DEF Units
    <3>2. x \in A <=> \E u \in R : x \in {u} \X (1 .. amount[u])  BY DEF Units
    <3> QED  BY <3>1, <3>2
  <2> QED  BY <2>1
<1>6. A \cap B = {}
  <2>1. ASSUME NEW x \in A, x \in B PROVE FALSE
    <3>1. PICK u \in R : x \in {u} \X (1 .. amount[u])  BY DEF Units
    <3>2. x[1] = u /\ x[1] = th  BY <2>1, <3>1
    <3> QED  BY <3>1, <3>2
  <2> QED  BY <2>1
<1> HIDE DEF A, B
<1>7. Cardinality(A) \in Nat /\ Positive(n) \in Nat  BY <1>3, FS_CardinalityType DEF Positive
<1>8. Cardinality(A \cup B) = Cardinality(A) + Cardinality(B) - Cardinality(A \cap B)
  BY <1>3, <1>4, FS_Union
<1>9. Cardinality(A \cap B) = 0  BY <1>6, FS_EmptySet
<1>10. Cardinality(Units(amount, T)) = Cardinality(A) + Positive(n)  BY <1>4, <1>5, <1>7, <1>8, <1>9
<1> QED  BY <1>1, <1>7, <1>10 DEF A

\* Equal amounts have the same total.
LEMMA TotalSame ==
  ASSUME NEW T, NEW amount, NEW other, \A th \in T : amount[th] = other[th]
  PROVE  Total(amount, T) = Total(other, T)
<1> DEFINE less == [th \in T |-> -amount[th]]
           lessOther == [th \in T |-> -other[th]]
<1>1. less = lessOther  OBVIOUS
<1> HIDE DEF less, lessOther
<1>2. Units(amount, T) = Units(other, T)  BY UnitsSame
<1> QED  BY <1>1, <1>2 DEF Total, less, lessOther

\* The amount of one thread is added to the total of the others.
LEMMA TotalSplit ==
  ASSUME NEW T, IsFiniteSet(T), NEW amount, \A th \in T : amount[th] \in Int,
         NEW th \in T
  PROVE  /\ Total(amount, T) \in Int /\ Total(amount, T \ {th}) \in Int
         /\ Total(amount, T) = Total(amount, T \ {th}) + amount[th]
<1> DEFINE R == T \ {th}
           less == [u \in T |-> -amount[u]]
           lessR == [u \in R |-> -amount[u]]
<1>1. PICK n \in Int : n = amount[th]  OBVIOUS
<1>2. /\ Cardinality(Units(amount, T)) \in Nat /\ Cardinality(Units(amount, R)) \in Nat
      /\ Cardinality(Units(amount, T)) = Cardinality(Units(amount, R)) + Positive(n)
  BY <1>1, UnitsSplit
<1>3. \A u \in T : less[u] \in Int  OBVIOUS
<1>4. less[th] = -n /\ \A u \in R : less[u] = lessR[u]  BY <1>1
<1>5. Total(amount, T) = Cardinality(Units(amount, T)) - Cardinality(Units(less, T))
      /\ Total(amount, R) = Cardinality(Units(amount, R)) - Cardinality(Units(lessR, R))
  BY DEF Total
<1> HIDE DEF less, lessR
<1>6. /\ Cardinality(Units(less, T)) \in Nat /\ Cardinality(Units(less, R)) \in Nat
      /\ Cardinality(Units(less, T)) = Cardinality(Units(less, R)) + Positive(-n)
  BY <1>3, <1>4, UnitsSplit
<1>7. Units(less, R) = Units(lessR, R)  BY <1>4, UnitsSame
<1>8. Positive(n) - Positive(-n) = n  BY DEF Positive
<1>9. Positive(n) \in Nat /\ Positive(-n) \in Nat  BY DEF Positive
<1> QED  BY <1>1, <1>2, <1>5, <1>6, <1>7, <1>8, <1>9

\* Nobody's total is 0.
LEMMA TotalEmpty ==
  ASSUME NEW amount
  PROVE  Total(amount, {}) = 0 /\ Cardinality(Units(amount, {})) = 0
<1>1. \A a : Units(a, {}) = {}  BY DEF Units
<1> DEFINE less == [th \in {} |-> -amount[th]]
<1>2. Total(amount, {}) = Cardinality(Units(amount, {})) - Cardinality(Units(less, {}))
  BY DEF Total
<1> HIDE DEF less
<1>3. Units(amount, {}) = {} /\ Units(less, {}) = {}  BY <1>1
<1> QED  BY <1>2, <1>3, FS_EmptySet

\* The total of finitely many amounts is a number, and its debts are at most
\* its credits.
LEMMA TotalType ==
  ASSUME NEW T, IsFiniteSet(T), NEW amount, \A th \in T : amount[th] \in Int
  PROVE  /\ Total(amount, T) \in Int /\ Cardinality(Units(amount, T)) \in Nat
         /\ Total(amount, T) <= Cardinality(Units(amount, T))
<1> DEFINE less == [u \in T |-> -amount[u]]
<1>1. \A u \in T : less[u] \in Int  OBVIOUS
<1>2. Total(amount, T) = Cardinality(Units(amount, T)) - Cardinality(Units(less, T))
  BY DEF Total
<1> HIDE DEF less
<1>3. Cardinality(Units(amount, T)) \in Nat /\ Cardinality(Units(less, T)) \in Nat
  BY <1>1, UnitsFinite, FS_CardinalityType
<1> QED  BY <1>2, <1>3


-----------------------------------------------------------------------------
(* What the threads have counted, and what the tasks amount to.            *)

\* What each thread has counted, and the threads whose counts are unflushed.
Amount(field) == [th \in Threads |-> local[th][field]]
Busy(pcs) == {th \in Threads : stack[th] # <<>> /\ stack[th][1].pc \notin pcs}
Free == Alive \ Blocked

\* What the variables of the detector are.
CountersType ==
  /\ local \in [Threads -> [blocked : Int, unblocked : Int]]
  /\ packed \in 0 .. Words - 1 /\ blockedTasks \in Int /\ aborted \in BOOLEAN

\* Each task is counted as unblocked when it is created and when it goes on
\* with its second phase, at most, so that the counter stays in its half.
Final == {"Compile", "MarkDone", "Notify", "Complete", "Destroy"}
Created == {t \in Tasks : life[t] # "Absent"}
Resumed == {t \in Tasks : taskPhase[t] = 1 /\ (numDependents[t] = 0 \/ In(t, Final))}
Credits == Cardinality(Units(Amount("unblocked"), Busy({"Check"})))
Budget == Positive(unblockedTasks) + Credits <= Cardinality(Created) + Cardinality(Resumed)

\* The thread that looks for blocked tasks is the only one, and there is nothing
\* for another one to do.
CheckOK == \A th \in Threads : stack[th] # <<>> /\ stack[th][1].pc = "Check" =>
             unblockedTasks = 0 /\ \A u \in Threads \ {th} : stack[u] = <<>>

\* No counter is left behind by the last thread.
NoneLost == WaitReturns /\ ~aborted => blockedTasks = 0

CInv == CountersType /\ CountersExact /\ Budget /\ NoFalseAlarm /\ CheckOK /\ NoneLost

\* The invariant in terms of the sums.
LEMMA ExactDef ==
  CountersExact <=>
    /\ blockedTasks + Total(Amount("blocked"), Busy({"Flush", "Check"})) = Cardinality(Blocked)
    /\ unblockedTasks + Total(Amount("unblocked"), Busy({"Check"})) = Cardinality(Free)
    /\ busyThreads = Cardinality(Busy({"Check"}))
<1>1. Busy({"Check"}) = {th \in Threads : stack[th] # <<>> /\ stack[th][1].pc # "Check"}
  BY DEF Busy
<1> QED  BY <1>1, Zenon DEF CountersExact, Unflushed, Amount, Busy, Free

\* The same of the state after a step.
LEMMA ExactNext ==
  CountersExact' <=>
    /\ blockedTasks' + Total(Amount("blocked")', Busy({"Flush", "Check"})') = Cardinality(Blocked')
    /\ unblockedTasks' + Total(Amount("unblocked")', Busy({"Check"})') = Cardinality(Free')
    /\ busyThreads' = Cardinality(Busy({"Check"})')
<1>1. Busy({"Check"})' = {th \in Threads : stack'[th] # <<>> /\ stack'[th][1].pc # "Check"}
  BY DEF Busy
<1> QED  BY <1>1, Zenon DEF CountersExact, Unflushed, Amount, Busy, Free

\* Sets of threads and of tasks are finite, and bounded by all of them.
LEMMA SetSizes ==
  /\ \A pcs : IsFiniteSet(Busy(pcs)) /\ Cardinality(Busy(pcs)) \in Nat
              /\ Cardinality(Busy(pcs)) <= Cardinality(Threads)
  /\ Cardinality(Threads) \in Nat /\ Cardinality(Tasks) \in Nat
  /\ \A S \in SUBSET Tasks : IsFiniteSet(S) /\ Cardinality(S) \in Nat
                             /\ Cardinality(S) <= Cardinality(Tasks)
<1>1. ASSUME NEW pcs
      PROVE  /\ IsFiniteSet(Busy(pcs)) /\ Cardinality(Busy(pcs)) \in Nat
             /\ Cardinality(Busy(pcs)) <= Cardinality(Threads)
  <2>1. Busy(pcs) \subseteq Threads  BY DEF Busy
  <2> QED  BY <2>1, CountersAssumption, FS_Subset, FS_CardinalityType
<1>2. ASSUME NEW S \in SUBSET Tasks
      PROVE  /\ IsFiniteSet(S) /\ Cardinality(S) \in Nat
             /\ Cardinality(S) <= Cardinality(Tasks)
  BY CountersAssumption, FS_Subset, FS_CardinalityType
<1> QED  BY <1>1, <1>2, CountersAssumption, FS_CardinalityType

\* Membership in the sets of tasks that are counted ...
LEMMA TaskSets ==
  /\ Blocked \subseteq Tasks /\ Free \subseteq Tasks /\ Alive = Blocked \cup Free
  /\ Created \subseteq Tasks /\ Resumed \subseteq Tasks
  /\ \A t : t \in Blocked <=> t \in Tasks /\ life[t] = "Alive" /\ numDependents[t] > 0
  /\ \A t : t \in Free <=> t \in Tasks /\ life[t] = "Alive" /\ ~(numDependents[t] > 0)
  BY DEF Alive, Blocked, Free, Created, Resumed

\* ... and after a step.
LEMMA TaskSetsNext ==
  /\ Blocked' \subseteq Tasks /\ Free' \subseteq Tasks /\ Alive' = Blocked' \cup Free'
  /\ Created' \subseteq Tasks /\ Resumed' \subseteq Tasks
  /\ \A t : t \in Blocked' <=> t \in Tasks /\ life'[t] = "Alive" /\ numDependents'[t] > 0
  /\ \A t : t \in Free' <=> t \in Tasks /\ life'[t] = "Alive" /\ ~(numDependents'[t] > 0)
  BY DEF Alive, Blocked, Free, Created, Resumed

\* One task more or less.
LEMMA OneMore ==
  ASSUME NEW S \in SUBSET Tasks, NEW t \in Tasks, t \notin S, NEW T, T = S \cup {t}
  PROVE  Cardinality(T) = Cardinality(S) + 1
  BY SetSizes, FS_AddElement

LEMMA OneLess ==
  ASSUME NEW S \in SUBSET Tasks, NEW t \in S, NEW T, T = S \ {t}
  PROVE  Cardinality(T) = Cardinality(S) - 1
  BY SetSizes, FS_RemoveElement

\* A set that lacks a task is smaller by one at least.
LEMMA AtLeast ==
  ASSUME NEW T \in SUBSET Tasks, NEW S \in SUBSET T
  PROVE  /\ Cardinality(S) <= Cardinality(T)
         /\ S # T => Cardinality(S) + 1 <= Cardinality(T)
<1>1. IsFiniteSet(T)  BY SetSizes
<1>2. Cardinality(S) \in Nat /\ Cardinality(T) \in Nat  BY SetSizes
<1> QED  BY <1>1, <1>2, FS_Subset

\* A thread whose innermost frame goes on, and which is busy all the while.
Runs(th) == /\ stack[th] # <<>> /\ stack[th][1].pc \notin {"Flush", "Check"}
            /\ stack'[th] # <<>> /\ stack'[th][1].pc \notin {"Flush", "Check"}
            /\ \A u \in Threads \ {th} : stack'[u] = stack[u]

\* The busy threads are the same.
LEMMA RunsBusy ==
  ASSUME NEW th \in Threads, Runs(th), NEW pcs \in SUBSET {"Flush", "Check"}
  PROVE  Busy(pcs)' = Busy(pcs) /\ th \in Busy(pcs)
<1>1. th \in Busy(pcs) /\ th \in Busy(pcs)'  BY DEF Runs, Busy
<1>2. \A u \in Threads \ {th} : u \in Busy(pcs)' <=> u \in Busy(pcs)  BY DEF Runs, Busy
<1>3. Busy(pcs) \subseteq Threads /\ Busy(pcs)' \subseteq Threads  BY DEF Busy
<1> QED  BY <1>1, <1>2, <1>3

\* The sums change by what a busy thread adds to its own counters.
LEMMA AmountStep ==
  ASSUME NEW T, IsFiniteSet(T), NEW th \in T, NEW old, NEW new, NEW d \in Int,
         \A u \in T : old[u] \in Int,
         \A u \in T \ {th} : new[u] = old[u], new[th] = old[th] + d
  PROVE  /\ Total(old, T) \in Int /\ Total(new, T) = Total(old, T) + d
         /\ Cardinality(Units(old, T)) \in Nat /\ Cardinality(Units(new, T)) \in Nat
         /\ Cardinality(Units(new, T)) <= Cardinality(Units(old, T)) + Positive(d)
<1>1. \A u \in T : new[u] \in Int  OBVIOUS
<1>2. /\ Total(old, T) \in Int /\ Total(old, T \ {th}) \in Int
      /\ Total(old, T) = Total(old, T \ {th}) + old[th]
  BY TotalSplit
<1>3. Total(new, T) = Total(new, T \ {th}) + new[th]  BY <1>1, TotalSplit
<1>4. Total(new, T \ {th}) = Total(old, T \ {th})  BY TotalSame
<1>5. /\ Cardinality(Units(old, T)) \in Nat /\ Cardinality(Units(old, T \ {th})) \in Nat
      /\ Cardinality(Units(old, T)) = Cardinality(Units(old, T \ {th})) + Positive(old[th])
  BY UnitsSplit
<1>6. /\ Cardinality(Units(new, T)) \in Nat
      /\ Cardinality(Units(new, T)) = Cardinality(Units(new, T \ {th})) + Positive(new[th])
  BY <1>1, UnitsSplit
<1>7. Units(new, T \ {th}) = Units(old, T \ {th})  BY UnitsSame
<1>8. old[th] \in Int /\ Positive(old[th] + d) <= Positive(old[th]) + Positive(d)
      /\ Positive(old[th]) \in Nat /\ Positive(d) \in Nat /\ Positive(old[th] + d) \in Nat
  BY DEF Positive
<1> QED
  <2>1. Total(new, T) = Total(old, T) + d  BY <1>2, <1>3, <1>4, <1>8
  <2>2. Cardinality(Units(new, T)) <= Cardinality(Units(old, T)) + Positive(d)
    BY <1>5, <1>6, <1>7, <1>8
  <2> QED  BY <1>2, <1>5, <1>6, <2>1, <2>2

\* The same, of what all threads have counted.
LEMMA AmountsStep ==
  ASSUME NEW T \in SUBSET Threads, NEW th \in T, NEW d \in Int, NEW x, NEW y,
         x \in [Threads -> Int], DOMAIN y = Threads,
         \A v \in Threads \ {th} : y[v] = x[v], y[th] = x[th] + d
  PROVE  /\ Total(x, T) \in Int /\ Total(y, T) = Total(x, T) + d
         /\ Cardinality(Units(x, T)) \in Nat /\ Cardinality(Units(y, T)) \in Nat
         /\ Cardinality(Units(y, T)) <= Cardinality(Units(x, T)) + Positive(d)
<1>1. IsFiniteSet(T)  BY CountersAssumption, FS_Subset
<1>2. \A v \in T : x[v] \in Int  OBVIOUS
<1>3. \A v \in T \ {th} : y[v] = x[v]  OBVIOUS
<1> QED  BY <1>1, <1>2, <1>3, AmountStep

\* A step of a busy thread that changes its own counters by b and u keeps the
\* shared ones exact if the numbers of blocked and unblocked tasks change by b
\* and u, and within bounds if only a task that is created or goes on with its
\* second phase becomes unblocked.
LEMMA CountStep ==
  ASSUME CInv, ~aborted, NEW th \in Threads, Runs(th), NEW b \in Int, NEW u \in Int,
         local' \in [Threads -> [blocked : Int, unblocked : Int]],
         local'[th].blocked = local[th].blocked + b,
         local'[th].unblocked = local[th].unblocked + u,
         \A v \in Threads \ {th} : local'[v] = local[v],
         UNCHANGED <<packed, blockedTasks, aborted>>,
         Cardinality(Blocked') = Cardinality(Blocked) + b,
         Cardinality(Free') = Cardinality(Free) + u,
         Created \subseteq Created', Resumed \subseteq Resumed',
         u <= 0 \/ (u = 1 /\ (Created # Created' \/ Resumed # Resumed'))
  PROVE  CInv'
<1>1. busyThreads' = busyThreads /\ unblockedTasks' = unblockedTasks
  BY DEF busyThreads, unblockedTasks, Unpack
<1>2. CountersType'  BY DEF CInv, CountersType
<1>3. local \in [Threads -> [blocked : Int, unblocked : Int]] /\ unblockedTasks \in Int
      /\ blockedTasks \in Int
  BY HalfIsPositive, BiasAssumption DEF CInv, CountersType, unblockedTasks, Unpack
<1>4. Busy({"Check"})' = Busy({"Check"}) /\ th \in Busy({"Check"})
      /\ Busy({"Flush", "Check"})' = Busy({"Flush", "Check"}) /\ th \in Busy({"Flush", "Check"})
  BY RunsBusy
<1>5. IsFiniteSet(Busy({"Check"})) /\ Busy({"Check"}) \subseteq Threads
      /\ IsFiniteSet(Busy({"Flush", "Check"})) /\ Busy({"Flush", "Check"}) \subseteq Threads
  BY SetSizes DEF Busy
<1>6. PICK T : T = Busy({"Check"})  OBVIOUS
<1>7. PICK F : F = Busy({"Flush", "Check"})  OBVIOUS
<1>8. PICK x, y : x = Amount("unblocked") /\ y = Amount("unblocked")'  OBVIOUS
<1>9. /\ Total(x, T) \in Int /\ Total(y, T) = Total(x, T) + u
      /\ Cardinality(Units(x, T)) \in Nat /\ Cardinality(Units(y, T)) \in Nat
      /\ Cardinality(Units(y, T)) <= Cardinality(Units(x, T)) + Positive(u)
  <2>1. x = [v \in Threads |-> local[v].unblocked] /\ y = [v \in Threads |-> local'[v].unblocked]
    BY <1>8 DEF Amount
  <2>2. x \in [Threads -> Int] /\ DOMAIN y = Threads  BY <1>3, <2>1
  <2>4. \A v \in Threads \ {th} : y[v] = x[v]  BY <2>1
  <2>5. y[th] = x[th] + u  BY <2>1
  <2>3. T \subseteq Threads /\ th \in T  BY <1>4, <1>5, <1>6
  <2> QED  BY <2>2, <2>3, <2>4, <2>5, AmountsStep
<1>10. PICK p, q : p = Amount("blocked") /\ q = Amount("blocked")'  OBVIOUS
<1>11. Total(p, F) \in Int /\ Total(q, F) = Total(p, F) + b
  <2>1. p = [v \in Threads |-> local[v].blocked] /\ q = [v \in Threads |-> local'[v].blocked]
    BY <1>10 DEF Amount
  <2>2. p \in [Threads -> Int] /\ DOMAIN q = Threads  BY <1>3, <2>1
  <2>4. \A v \in Threads \ {th} : q[v] = p[v]  BY <2>1
  <2>5. q[th] = p[th] + b  BY <2>1
  <2>3. F \subseteq Threads /\ th \in F  BY <1>4, <1>5, <1>7
  <2> QED  BY <2>2, <2>3, <2>4, <2>5, AmountsStep
<1>12. CountersExact'
  <2>1. /\ blockedTasks + Total(p, F) = Cardinality(Blocked)
        /\ unblockedTasks + Total(x, T) = Cardinality(Free)
        /\ busyThreads = Cardinality(T)
    BY <1>6, <1>7, <1>8, <1>10, ExactDef DEF CInv
  <2>2. blockedTasks' + Total(q, F) = Cardinality(Blocked')
    BY <1>3, <1>11, <2>1
  <2>3. unblockedTasks' + Total(y, T) = Cardinality(Free')
    BY <1>1, <1>3, <1>9, <2>1
  <2> QED  BY <1>1, <1>4, <1>6, <1>7, <1>8, <1>10, <2>1, <2>2, <2>3, ExactNext
<1>13. Budget'
  <2>1. PICK c \in Nat, d \in Nat : c = Cardinality(Created) /\ d = Cardinality(Created')
    BY TaskSets, TaskSetsNext, SetSizes
  <2>2. PICK m \in Nat, n \in Nat : m = Cardinality(Resumed) /\ n = Cardinality(Resumed')
    BY TaskSets, TaskSetsNext, SetSizes
  <2>3. c <= d /\ m <= n /\ (Created # Created' => c + 1 <= d) /\ (Resumed # Resumed' => m + 1 <= n)
    BY <2>1, <2>2, TaskSetsNext, AtLeast
  <2>4. c + m + Positive(u) <= d + n
    BY <2>3 DEF Positive
  <2>5. PICK i \in Nat : i = Positive(unblockedTasks)  BY <1>3 DEF Positive
  <2>6. PICK j \in Nat : j = Positive(u)  BY DEF Positive
  <2>7. i + Cardinality(Units(x, T)) <= c + m
    BY <1>6, <1>8, <2>1, <2>2, <2>5 DEF CInv, Budget, Credits
  <2>8. i + Cardinality(Units(y, T)) <= d + n
    BY <1>9, <2>4, <2>6, <2>7
  <2> QED  BY <1>1, <1>4, <1>6, <1>8, <2>1, <2>2, <2>5, <2>8 DEF Budget, Credits
<1>14. NoFalseAlarm'  BY DEF NoFalseAlarm
<1>15. CheckOK'
  <2> SUFFICES ASSUME NEW v \in Threads, stack'[v] # <<>>, stack'[v][1].pc = "Check"
               PROVE  FALSE
    BY DEF CheckOK
  <2>1. v # th /\ stack'[v] = stack[v]  BY DEF Runs
  <2>2. stack[th] = <<>>  BY <2>1 DEF CInv, CheckOK
  <2> QED  BY <2>2 DEF Runs
<1>16. NoneLost'  BY DEF NoneLost, WaitReturns, Runs
<1> QED  BY <1>2, <1>12, <1>13, <1>14, <1>15, <1>16 DEF CInv

\* The tasks that have gone on with their second phase are no fewer.
LEMMA ResumedKept ==
  ASSUME \A t \in Tasks : taskPhase[t] = 1 => taskPhase'[t] = 1,
         \A t \in Tasks : numDependents[t] = 0 /\ taskPhase[t] = 1 =>
                            numDependents'[t] = 0 \/ In(t, Final)',
         \A t \in Tasks : In(t, Final) => In(t, Final)' \/ numDependents'[t] = 0
  PROVE  Resumed \subseteq Resumed'
<1> SUFFICES ASSUME NEW t \in Tasks, t \in Resumed PROVE t \in Resumed'
  BY DEF Resumed
<1>1. taskPhase[t] = 1 /\ (numDependents[t] = 0 \/ In(t, Final))  BY DEF Resumed
<1>2. taskPhase'[t] = 1 /\ (numDependents'[t] = 0 \/ In(t, Final)')  BY <1>1
<1> QED  BY <1>2 DEF Resumed

\* Nothing that is counted changes.
LEMMA SameStep ==
  ASSUME CInv, ~aborted, NEW th \in Threads, Runs(th),
         UNCHANGED <<life, local, packed, blockedTasks, aborted>>,
         \A t \in Tasks : numDependents'[t] > 0 <=> numDependents[t] > 0,
         Resumed \subseteq Resumed'
  PROVE  CInv'
<1>1. Blocked' = Blocked /\ Free' = Free
  BY TaskSets, TaskSetsNext
<1>2. Created' = Created  BY DEF Created
<1>3. local \in [Threads -> [blocked : Int, unblocked : Int]]  BY DEF CInv, CountersType
<1>4. Cardinality(Blocked) \in Nat /\ Cardinality(Free) \in Nat  BY TaskSets, SetSizes
<1>5. Cardinality(Blocked') = Cardinality(Blocked) + 0
      /\ Cardinality(Free') = Cardinality(Free) + 0
  BY <1>1, <1>4
<1>6. /\ local'[th].blocked = local[th].blocked + 0
      /\ local'[th].unblocked = local[th].unblocked + 0
      /\ local' \in [Threads -> [blocked : Int, unblocked : Int]]
      /\ \A v \in Threads \ {th} : local'[v] = local[v]
  BY <1>3
<1>7. UNCHANGED <<packed, blockedTasks, aborted>> /\ Created \subseteq Created'  BY <1>2
<1>8. 0 \in Int /\ 0 <= 0  OBVIOUS
<1> QED  BY <1>5, <1>6, <1>7, <1>8, CountStep

\* A task is created.
LEMMA CreateStep ==
  ASSUME CInv, ~aborted, NEW th \in Threads, Runs(th), NEW t \in Tasks,
         life \in [Tasks -> {"Absent", "Alive", "Deleted"}],
         life[t] = "Absent", life' = [life EXCEPT ![t] = "Alive"], ~(numDependents[t] > 0),
         \A v \in Tasks : numDependents'[v] > 0 <=> numDependents[v] > 0,
         local' = [local EXCEPT ![th].unblocked = @ + 1],
         UNCHANGED <<packed, blockedTasks, aborted>>,
         Resumed \subseteq Resumed'
  PROVE  CInv'
<1>1. Blocked' = Blocked /\ Free' = Free \cup {t} /\ t \notin Free
  BY TaskSets, TaskSetsNext
<1>2. Created \subseteq Created' /\ Created # Created'  BY DEF Created
<1>3. local \in [Threads -> [blocked : Int, unblocked : Int]]  BY DEF CInv, CountersType
<1>4. Cardinality(Blocked) \in Nat /\ Cardinality(Free') = Cardinality(Free) + 1
  BY <1>1, TaskSets, TaskSetsNext, SetSizes, OneMore
<1>5. Cardinality(Blocked') = Cardinality(Blocked) + 0  BY <1>1, <1>4
<1>6. /\ local'[th].blocked = local[th].blocked + 0
      /\ local'[th].unblocked = local[th].unblocked + 1
      /\ local' \in [Threads -> [blocked : Int, unblocked : Int]]
      /\ \A v \in Threads \ {th} : local'[v] = local[v]
  BY <1>3
<1>7. 0 \in Int /\ 1 \in Int /\ 1 = 1  OBVIOUS
<1> QED  BY <1>2, <1>4, <1>5, <1>6, <1>7, CountStep

\* A task becomes blocked.
LEMMA BlockStep ==
  ASSUME CInv, ~aborted, NEW th \in Threads, Runs(th), NEW t \in Tasks,
         life[t] = "Alive", life' = life, ~(numDependents[t] > 0), numDependents'[t] > 0,
         \A v \in Tasks \ {t} : numDependents'[v] > 0 <=> numDependents[v] > 0,
         Block(th), UNCHANGED <<packed, blockedTasks, aborted>>,
         Resumed \subseteq Resumed'
  PROVE  CInv'
<1>1. Blocked' = Blocked \cup {t} /\ t \notin Blocked /\ Free' = Free \ {t} /\ t \in Free
  BY TaskSets, TaskSetsNext
<1>2. Created \subseteq Created'  BY DEF Created
<1>3. local \in [Threads -> [blocked : Int, unblocked : Int]]  BY DEF CInv, CountersType
<1>4. Cardinality(Free) \in Nat /\ Cardinality(Free') = Cardinality(Free) - 1
  BY <1>1, TaskSets, TaskSetsNext, SetSizes, OneLess
<1>5. Cardinality(Blocked') = Cardinality(Blocked) + 1
  BY <1>1, TaskSets, TaskSetsNext, OneMore
<1>6. /\ local'[th].blocked = local[th].blocked + 1
      /\ local'[th].unblocked = local[th].unblocked + (-1)
      /\ local' \in [Threads -> [blocked : Int, unblocked : Int]]
      /\ \A v \in Threads \ {th} : local'[v] = local[v]
  BY <1>3 DEF Block
<1>7. 1 \in Int /\ -1 \in Int /\ -1 <= 0 /\ Cardinality(Free') = Cardinality(Free) + (-1)
  BY <1>4
<1> QED  BY <1>2, <1>5, <1>6, <1>7, CountStep

\* A task becomes unblocked, and goes on with its second phase.
LEMMA UnblockStep ==
  ASSUME CInv, ~aborted, NEW th \in Threads, Runs(th), NEW t \in Tasks,
         life[t] = "Alive", life' = life, numDependents[t] > 0, ~(numDependents'[t] > 0),
         \A v \in Tasks \ {t} : numDependents'[v] > 0 <=> numDependents[v] > 0,
         Unblock(th), UNCHANGED <<packed, blockedTasks, aborted>>,
         Resumed \subseteq Resumed', t \notin Resumed, t \in Resumed'
  PROVE  CInv'
<1>1. Free' = Free \cup {t} /\ t \notin Free /\ Blocked' = Blocked \ {t} /\ t \in Blocked
  BY TaskSets, TaskSetsNext
<1>2. Created \subseteq Created'  BY DEF Created
<1>3. local \in [Threads -> [blocked : Int, unblocked : Int]]  BY DEF CInv, CountersType
<1>4. Cardinality(Blocked) \in Nat /\ Cardinality(Blocked') = Cardinality(Blocked) - 1
  BY <1>1, TaskSets, TaskSetsNext, SetSizes, OneLess
<1>5. Cardinality(Free') = Cardinality(Free) + 1
  BY <1>1, TaskSets, TaskSetsNext, OneMore
<1>6. /\ local'[th].blocked = local[th].blocked + (-1)
      /\ local'[th].unblocked = local[th].unblocked + 1
      /\ local' \in [Threads -> [blocked : Int, unblocked : Int]]
      /\ \A v \in Threads \ {th} : local'[v] = local[v]
  BY <1>3 DEF Unblock
<1>7. 1 \in Int /\ -1 \in Int /\ 1 = 1 /\ Cardinality(Blocked') = Cardinality(Blocked) + (-1)
  BY <1>4
<1> QED  BY <1>2, <1>5, <1>6, <1>7, CountStep

\* A blocked task is deleted.
LEMMA DeleteStep ==
  ASSUME CInv, ~aborted, NEW th \in Threads, Runs(th), NEW t \in Tasks,
         life \in [Tasks -> {"Absent", "Alive", "Deleted"}],
         life[t] = "Alive", life' = [life EXCEPT ![t] = "Deleted"], numDependents[t] > 0,
         \A v \in Tasks \ {t} : numDependents'[v] > 0 <=> numDependents[v] > 0,
         local' = [local EXCEPT ![th].blocked = @ - 1],
         UNCHANGED <<packed, blockedTasks, aborted>>,
         Resumed \subseteq Resumed'
  PROVE  CInv'
<1>1. Free' = Free /\ Blocked' = Blocked \ {t} /\ t \in Blocked
  BY TaskSets, TaskSetsNext
<1>2. Created \subseteq Created'  BY DEF Created
<1>3. local \in [Threads -> [blocked : Int, unblocked : Int]]  BY DEF CInv, CountersType
<1>4. Cardinality(Blocked) \in Nat /\ Cardinality(Blocked') = Cardinality(Blocked) - 1
      /\ Cardinality(Free) \in Nat
  BY <1>1, TaskSets, TaskSetsNext, SetSizes, OneLess
<1>5. Cardinality(Free') = Cardinality(Free) + 0
  BY <1>1, <1>4
<1>6. /\ local'[th].blocked = local[th].blocked + (-1)
      /\ local'[th].unblocked = local[th].unblocked + 0
      /\ local' \in [Threads -> [blocked : Int, unblocked : Int]]
      /\ \A v \in Threads \ {th} : local'[v] = local[v]
  BY <1>3
<1>7. 0 \in Int /\ -1 \in Int /\ 0 <= 0 /\ Cardinality(Blocked') = Cardinality(Blocked) + (-1)
  BY <1>4
<1> QED  BY <1>2, <1>5, <1>6, <1>7, CountStep

-----------------------------------------------------------------------------
(* The steps of busy threads.                                              *)

\* The innermost frame becomes f, and may invoke a task.
LEMMA GoesOn ==
  ASSUME GInv, NEW th \in Threads, stack[th] # <<>>, NEW f \in FrameRecs,
         Set(th, f) \/ \E t \in Tasks : f.depth < MaxDepth /\ Invoke(th, f, t),
         Top(th).pc \notin {"Flush", "Check"}, f.pc \notin {"Flush", "Check"},
         f.task = Top(th).task
  PROVE  /\ Runs(th) /\ f \in Active' /\ Others(th) \subseteq Active'
         /\ Active = {Top(th)} \cup Others(th)
         /\ (Top(th).pc \in Final => f.pc \in Final) =>
              \A t : In(t, Final) => In(t, Final)'
<1>1. StackType  BY DEF GInv, Stacks
<1>2. Top(th) = stack[th][1] /\ Active = {Top(th)} \cup Others(th)  BY <1>1, TopFrame
<1>3. Runs(th) /\ f \in Active' /\ Others(th) \subseteq Active'
  <2>1. CASE Set(th, f)
    <3>1. /\ Active' = {f} \cup Others(th) /\ stack'[th] # <<>> /\ Top(th)' = f
          /\ \A u \in Threads \ {th} : stack'[u] = stack[u]
      BY <1>1, <2>1, SetFrame
    <3>2. stack'[th][1] = f
      <4>1. StackType'  BY <1>1, <2>1, SetFrame
      <4> QED  BY <3>1, <4>1 DEF Top, StackType
    <3> QED  BY <1>2, <3>1, <3>2 DEF Runs
  <2>2. ASSUME NEW t \in Tasks, f.depth < MaxDepth, Invoke(th, f, t)
        PROVE  Runs(th) /\ f \in Active' /\ Others(th) \subseteq Active'
    <3> DEFINE g == Frame(t, f.depth + 1)
    <3>1. /\ Active' = {f, g} \cup Others(th) /\ stack'[th] # <<>> /\ stack'[th][1] = g
          /\ \A u \in Threads \ {th} : stack'[u] = stack[u]
      BY <1>1, <2>2, PushFrame
    <3>2. g.pc = "Enter"  BY DEF Frame
    <3> HIDE DEF g
    <3> QED  BY <1>2, <3>1, <3>2 DEF Runs
  <2> QED  BY <2>1, <2>2
<1>4. ASSUME Top(th).pc \in Final => f.pc \in Final, NEW t, In(t, Final) PROVE In(t, Final)'
  <2>1. PICK g \in Active : g.task = t /\ g.pc \in Final  BY <1>4 DEF In
  <2>2. g = Top(th) => f.task = t /\ f.pc \in Final  BY <1>4, <2>1
  <2>3. \E h \in Active' : h.task = t /\ h.pc \in Final  BY <1>2, <1>3, <2>1, <2>2
  <2> QED  BY <2>3 DEF In
<1> QED  BY <1>2, <1>3, <1>4

\* A task that runs is counted as blocked.
LEMMA RunsBlocked ==
  ASSUME GInv, NEW g \in Active, NEW t \in Tasks, g.task = t, g.pc \in RunPcs
  PROVE  numDependents[t] > 0 /\ life[t] = "Alive" /\ <<t, -1>> \in Deps(t)
<1>1. Depends(t, t, -1)  BY DEF Depends, In
<1>2. <<t, -1>> \in Deps(t)  BY <1>1, DepsDef
<1>3. numDependents[t] \in Nat /\ numDependents[t] # 0  BY <1>2, CountIs DEF GInv, Counts
<1>4. life[t] = "Alive"  BY <1>2 DEF GInv, TasksOK, TaskOK
<1> QED  BY <1>2, <1>3, <1>4

\* Steps that only go on in the code of the task, or leave it.
LEMMA PlainKeepsCInv ==
  ASSUME GInv, CInv, ~aborted, NEW th \in Threads, stack[th] # <<>>, NEW f \in FrameRecs,
         Set(th, f) \/ \E t \in Tasks : f.depth < MaxDepth /\ Invoke(th, f, t),
         Top(th).pc \notin {"Flush", "Check"}, f.pc \notin {"Flush", "Check"},
         f.task = Top(th).task, Top(th).pc \in Final => f.pc \in Final,
         UNCHANGED <<life, local, packed, blockedTasks, aborted>>,
         \A t \in Tasks : taskPhase[t] = 1 => taskPhase'[t] = 1,
         \A t \in Tasks : numDependents'[t] > 0 <=> numDependents[t] > 0,
         \A t \in Tasks : numDependents[t] = 0 => numDependents'[t] = 0
  PROVE  CInv'
<1>1. Runs(th) /\ \A t : In(t, Final) => In(t, Final)'  BY GoesOn
<1>2. Resumed \subseteq Resumed'  BY <1>1, ResumedKept
<1> QED  BY <1>1, <1>2, SameStep

\* The first phase ends.
LEMMA EndPhaseKeepsCInv ==
  ASSUME GInv, CInv, NEW th \in Threads, EndPhase(th)
  PROVE  CInv'
<1>1. ~aborted /\ stack[th] # <<>> /\ Top(th).pc = "Inputs"  BY DEF EndPhase, At, Top
<1>2. PICK t \in Tasks : t = This(th)  BY <1>1, ThisTask DEF Over
<1>3. Top(th) \in FrameRecs /\ FrameOK(Top(th))  BY <1>1, ThisTask
<1>4. PICK f \in FrameRecs : f = [Top(th) EXCEPT !.pc = IF Top(th).deps THEN "Suspend"
                                       ELSE IF t \in Keys THEN "Compile" ELSE "Complete"]
  BY <1>3 DEF FrameRecs, Pcs
<1>5. /\ f.task = Top(th).task
      /\ f.pc = IF Top(th).deps THEN "Suspend" ELSE IF t \in Keys THEN "Compile" ELSE "Complete"
  BY <1>3, <1>4 DEF FrameRecs
<1>6. /\ Set(th, f) /\ taskPhase' = [taskPhase EXCEPT ![t] = 1]
      /\ UNCHANGED <<life, numDependents, local, packed, blockedTasks, aborted>>
  BY <1>2, <1>4 DEF EndPhase, sharedVars
<1>7. \A v \in Tasks : taskPhase[v] = 1 => taskPhase'[v] = 1  BY <1>6 DEF GInv, Types
<1>8. /\ Top(th).pc \notin {"Flush", "Check"} /\ f.pc \notin {"Flush", "Check"}
      /\ Top(th).pc \notin Final
  BY <1>1, <1>5 DEF Final
<1>9. \A v \in Tasks : /\ numDependents'[v] > 0 <=> numDependents[v] > 0
                       /\ numDependents[v] = 0 => numDependents'[v] = 0
  BY <1>6
<1> QED  BY <1>1, <1>5, <1>6, <1>7, <1>8, <1>9, PlainKeepsCInv

\* What changes no dependency: an output that is there, the node, the claim, the
\* end of a list, a task without a parent.
LEMMA CodeKeepsCInv ==
  ASSUME GInv, CInv, NEW th \in Threads,
         \/ Available(th) \/ CompileNode(th) \/ MarkDone(th)
         \/ Notify(th) /\ Top(th).list = <<>>
         \/ Complete(th) /\ parent[This(th)] = None
  PROVE  CInv'
<1>1. /\ ~aborted /\ stack[th] # <<>>
      /\ Top(th).pc \in {"Inputs", "Compile", "MarkDone", "Notify", "Complete"}
      /\ Available(th) => Top(th).pc = "Inputs"
  BY DEF Available, Requests, CompileNode, MarkDone, Notify, Complete, At, Top
<1>2. Top(th) \in FrameRecs  BY <1>1, ThisTask
<1>3. PICK f \in FrameRecs :
        /\ f.task = Top(th).task /\ Set(th, f)
        /\ f.pc \in Final \/ (Available(th) /\ f.pc = "Inputs")
  <2>1. CASE Available(th)
    <3>4. Top(th).i + 1 \in Nat \ {0}  BY <1>2 DEF FrameRecs
    <3>1. PICK f \in FrameRecs : f = [Top(th) EXCEPT !.i = @ + 1]  BY <1>2, <3>4 DEF FrameRecs
    <3>2. f.task = Top(th).task /\ f.pc = "Inputs"  BY <1>1, <1>2, <2>1, <3>1 DEF FrameRecs
    <3>3. Set(th, f)  BY <2>1, <3>1 DEF Available
    <3> QED  BY <2>1, <3>2, <3>3
  <2>2. CASE CompileNode(th) \/ (Notify(th) /\ Top(th).list = <<>>) \/ (Complete(th) /\ parent[This(th)] = None)
    <3>1. PICK pc \in {"Complete", "MarkDone", "Destroy"} : Set(th, [Top(th) EXCEPT !.pc = pc])
      BY <2>2 DEF CompileNode, Notify, Complete
    <3>2. PICK f \in FrameRecs : f = [Top(th) EXCEPT !.pc = pc]  BY <1>2, <3>1 DEF FrameRecs, Pcs
    <3>3. f.task = Top(th).task /\ f.pc = pc  BY <1>2, <3>2 DEF FrameRecs
    <3> QED  BY <3>1, <3>2, <3>3 DEF Final
  <2>3. CASE MarkDone(th)
    <3>1. PICK k \in Keys : k = This(th)
      <4>1. Top(th).pc = "MarkDone"  BY <2>3 DEF MarkDone, At, Top
      <4>2. FrameOK(Top(th))  BY <1>1, ThisTask
      <4> QED  BY <4>1, <4>2 DEF FrameOK, This
    <3>2. waiting[k] \in Seq(InputTasks)  BY DEF GInv, Types
    <3>3. PICK f \in FrameRecs : f = [Top(th) EXCEPT !.pc = "Notify", !.list = waiting[k]]
      BY <1>2, <3>2 DEF FrameRecs, Pcs
    <3>4. f.task = Top(th).task /\ f.pc = "Notify"  BY <1>2, <3>3 DEF FrameRecs
    <3>5. Set(th, f)  BY <2>3, <3>1, <3>3 DEF MarkDone
    <3> QED  BY <3>4, <3>5 DEF Final
  <2> QED  BY <2>1, <2>2, <2>3
<1>4. UNCHANGED <<life, numDependents, taskPhase, local, packed, blockedTasks, aborted>>
  BY DEF Available, CompileNode, MarkDone, Notify, Complete, taskVars, sharedVars
<1>5. /\ Top(th).pc \notin {"Flush", "Check"} /\ f.pc \notin {"Flush", "Check"}
      /\ Top(th).pc \in Final => f.pc \in Final
  BY <1>1, <1>3 DEF Final
<1>6. \A v \in Tasks : /\ numDependents'[v] > 0 <=> numDependents[v] > 0
                       /\ numDependents[v] = 0 => numDependents'[v] = 0
                       /\ taskPhase[v] = 1 => taskPhase'[v] = 1
  BY <1>4
<1> QED  BY <1>1, <1>3, <1>4, <1>5, <1>6, PlainKeepsCInv

\* The last subtask is invoked or dispatched.
LEMMA RunSubtaskKeepsCInv ==
  ASSUME GInv, CInv, NEW th \in Threads, RunSubtask(th)
  PROVE  CInv'
<1>1. ~aborted /\ stack[th] # <<>> /\ Top(th).pc = "Suspend" /\ Top(th).next # None
  BY DEF RunSubtask, At, Top
<1>2. Top(th) \in FrameRecs  BY <1>1, ThisTask
<1>3. PICK u \in Tasks : u = Top(th).next  BY <1>1, <1>2 DEF FrameRecs
<1>4. PICK f \in FrameRecs : f = [Top(th) EXCEPT !.next = None]  BY <1>2 DEF FrameRecs
<1>5. f.task = Top(th).task /\ f.pc = "Suspend"  BY <1>1, <1>2, <1>4 DEF FrameRecs
<1>6. Set(th, f) \/ (f.depth < MaxDepth /\ Invoke(th, f, u))
  BY <1>3, <1>4 DEF RunSubtask
<1>7. /\ UNCHANGED <<life, numDependents, taskPhase, local, packed, blockedTasks, aborted>>
      /\ Set(th, f) \/ \E t \in Tasks : f.depth < MaxDepth /\ Invoke(th, f, t)
  BY <1>6 DEF RunSubtask, sharedVars
<1>8. /\ Top(th).pc \notin {"Flush", "Check"} /\ f.pc \notin {"Flush", "Check"}
      /\ Top(th).pc \notin Final
  BY <1>1, <1>5 DEF Final
<1>9. \A v \in Tasks : /\ numDependents'[v] > 0 <=> numDependents[v] > 0
                       /\ numDependents[v] = 0 => numDependents'[v] = 0
                       /\ taskPhase[v] = 1 => taskPhase'[v] = 1
  BY <1>7
<1> QED  BY <1>1, <1>5, <1>7, <1>8, <1>9, PlainKeepsCInv

\* A task that runs, and so is blocked, waits for one thing more.
LEMMA WaitKeepsCInv ==
  ASSUME GInv, CInv, NEW th \in Threads, Wait(th)
  PROVE  CInv'
<1>1. ~aborted /\ stack[th] # <<>> /\ Top(th).pc = "Inputs"  BY DEF Wait, Requests, At, Top
<1>2. PICK t \in Tasks : t = This(th)  BY <1>1, ThisTask DEF Over
<1>3. Top(th) \in FrameRecs /\ Top(th) \in Active  BY <1>1, ThisTask
<1>4. PICK f \in FrameRecs : f = [Top(th) EXCEPT !.i = @ + 1, !.deps = TRUE]
  <2>1. Top(th).i + 1 \in Nat \ {0}  BY <1>3 DEF FrameRecs
  <2> QED  BY <1>3, <2>1 DEF FrameRecs
<1>5. f.task = Top(th).task /\ f.pc = "Inputs"  BY <1>1, <1>3, <1>4 DEF FrameRecs
<1>6. /\ Set(th, f) /\ numDependents' = [numDependents EXCEPT ![t] = @ + 1]
      /\ UNCHANGED <<life, taskPhase, local, packed, blockedTasks, aborted>>
  BY <1>2, <1>4 DEF Wait, sharedVars
<1>7. numDependents[t] > 0 /\ numDependents \in [Tasks -> Int]
  <2>1. Top(th).task = t /\ Top(th).pc \in RunPcs  BY <1>1, <1>2 DEF This, RunPcs
  <2> QED  BY <1>3, <2>1, RunsBlocked DEF GInv, Types
<1>8. /\ Top(th).pc \notin {"Flush", "Check"} /\ f.pc \notin {"Flush", "Check"}
      /\ Top(th).pc \notin Final
  BY <1>1, <1>5 DEF Final
<1>9. \A v \in Tasks : /\ numDependents'[v] > 0 <=> numDependents[v] > 0
                       /\ numDependents[v] = 0 => numDependents'[v] = 0
                       /\ taskPhase[v] = 1 => taskPhase'[v] = 1
  BY <1>6, <1>7
<1> QED  BY <1>1, <1>5, <1>6, <1>8, <1>9, PlainKeepsCInv

\* All roots exist.
LEMMA SpawnEndKeepsCInv ==
  ASSUME GInv, CInv, SpawnEnd
  PROVE  CInv'
<1>1. ~aborted /\ Main \in Threads /\ stack[Main] # <<>> /\ Top(Main).pc = "Spawn"
  BY InputsAssumption DEF SpawnEnd, At, Top
<1>2. Top(Main) \in FrameRecs  BY <1>1, ThisTask
<1>3. PICK f \in FrameRecs : f = [Top(Main) EXCEPT !.pc = "End"]  BY <1>2 DEF FrameRecs, Pcs
<1>4. f.task = Top(Main).task /\ f.pc = "End" /\ Set(Main, f)
  BY <1>2, <1>3 DEF FrameRecs, SpawnEnd
<1>5. UNCHANGED <<life, numDependents, taskPhase, local, packed, blockedTasks, aborted>>
  BY DEF SpawnEnd, taskVars, sharedVars
<1>6. /\ Top(Main).pc \notin {"Flush", "Check"} /\ f.pc \notin {"Flush", "Check"}
      /\ Top(Main).pc \notin Final
  BY <1>1, <1>4 DEF Final
<1>7. \A v \in Tasks : /\ numDependents'[v] > 0 <=> numDependents[v] > 0
                       /\ numDependents[v] = 0 => numDependents'[v] = 0
                       /\ taskPhase[v] = 1 => taskPhase'[v] = 1
  BY <1>5
<1> QED  BY <1>1, <1>4, <1>5, <1>6, <1>7, PlainKeepsCInv

\* The frame below goes on; it is not at EndThreadBusy.
LEMMA EndNestedKeepsCInv ==
  ASSUME GInv, CInv, NEW th \in Threads, EndNested(th)
  PROVE  CInv'
<1>1. /\ ~aborted /\ stack[th] # <<>> /\ Top(th).pc = "End" /\ Len(stack[th]) > 1
      /\ stack' = [stack EXCEPT ![th] = Tail(@)]
      /\ UNCHANGED <<life, numDependents, taskPhase, local, packed, blockedTasks, aborted>>
  BY DEF EndNested, At, Top, taskVars, sharedVars
<1>2. /\ Top(th) = stack[th][1] /\ Active = {Top(th)} \cup Others(th)
      /\ Len(stack[th]) \in Nat \ {0}
  BY <1>1, TopFrame DEF GInv, Stacks
<1>3. /\ Active' = Others(th) /\ Len(stack'[th]) = Len(stack[th]) - 1 /\ StackType'
      /\ \A j \in 1 .. Len(stack'[th]) : stack'[th][j] = stack[th][j + 1]
      /\ \A u \in Threads \ {th} : stack'[u] = stack[u]
  BY <1>1, PopFrame DEF GInv, Stacks
<1>4. Runs(th)
  <2>1. 2 \in 2 .. Len(stack[th]) /\ 1 \in 1 .. Len(stack'[th])  BY <1>1, <1>2, <1>3
  <2>2. stack'[th][1] = stack[th][2]  BY <1>3, <2>1
  <2>3. stack[th][2].pc \in {"Suspend", "End", "Destroy"}
    BY <2>1 DEF GInv, Stacks, StackOK
  <2>4. stack'[th] # <<>>  BY <2>1
  <2> QED  BY <1>1, <1>2, <1>3, <2>2, <2>3, <2>4 DEF Runs
<1>5. \A t : In(t, Final) => In(t, Final)'
  BY <1>1, <1>2, <1>3 DEF In, Final
<1>6. Resumed \subseteq Resumed'  BY <1>1, <1>5, ResumedKept
<1>7. \A v \in Tasks : numDependents'[v] > 0 <=> numDependents[v] > 0  BY <1>1
<1> QED  BY <1>1, <1>4, <1>6, <1>7, SameStep

\* The task that runs depends on itself, and becomes blocked.
LEMMA EnterKeepsCInv ==
  ASSUME GInv, CInv, NEW th \in Threads, Enter(th)
  PROVE  CInv'
<1>1. ~aborted /\ stack[th] # <<>> /\ Top(th).pc = "Enter"  BY DEF Enter, At, Top
<1>2. PICK t \in Tasks : t = This(th)  BY <1>1, ThisTask DEF Over
<1>3. Top(th) \in FrameRecs /\ FrameOK(Top(th)) /\ Top(th) \in Active  BY <1>1, ThisTask
<1>4. PICK f \in FrameRecs : f = [Top(th) EXCEPT !.pc = IF taskPhase[t] = 0 THEN "Inputs"
                                       ELSE IF t \in Keys THEN "Compile" ELSE "Complete"]
  BY <1>3 DEF FrameRecs, Pcs
<1>5. /\ f.task = Top(th).task /\ f.task = t
      /\ f.pc = IF taskPhase[t] = 0 THEN "Inputs" ELSE IF t \in Keys THEN "Compile" ELSE "Complete"
  BY <1>2, <1>3, <1>4 DEF FrameRecs, This
<1>6. Deps(t) = {} /\ numDependents[t] = 0 /\ numDependents \in [Tasks -> Int]
  <2>1. Deps(t) = {}  BY <1>1, <1>3, <1>5 DEF FrameOK
  <2> QED  BY <2>1, CountIs DEF GInv, Counts, Types
<1>7. /\ Set(th, f) /\ numDependents' = [numDependents EXCEPT ![t] = @ + 1] /\ Block(th)
      /\ UNCHANGED <<life, taskPhase, packed, blockedTasks, aborted>>
  BY <1>2, <1>4, <1>6 DEF Enter, sharedVars
<1>8. life[t] = "Alive"
  <2>1. Top(th) \in Handles(t)  BY <1>1, <1>3, <1>5 DEF Handles
  <2> QED  BY <1>3, <2>1 DEF GInv, TasksOK, TaskOK, Handled
<1>9. Top(th).pc \notin {"Flush", "Check"} /\ f.pc \notin {"Flush", "Check"} /\ Top(th).pc \notin Final
  BY <1>1, <1>5 DEF Final
<1>10. Runs(th) /\ f \in Active' /\ \A v : In(v, Final) => In(v, Final)'
  BY <1>1, <1>5, <1>7, <1>9, GoesOn
<1>11. Resumed \subseteq Resumed'
  <2>1. taskPhase[t] = 1 => In(t, Final)'
    <3>1. taskPhase[t] = 1 => f.pc \in Final  BY <1>5 DEF Final
    <3> QED  BY <1>5, <1>10, <3>1 DEF In
  <2>2. \A v \in Tasks \ {t} : numDependents'[v] = numDependents[v]  BY <1>6, <1>7
  <2> QED  BY <1>7, <1>10, <2>1, <2>2, ResumedKept
<1>12. /\ ~(numDependents[t] > 0) /\ numDependents'[t] > 0
       /\ \A v \in Tasks \ {t} : numDependents'[v] > 0 <=> numDependents[v] > 0
  BY <1>6, <1>7
<1> QED  BY <1>1, <1>7, <1>8, <1>10, <1>11, <1>12, BlockStep

\* The removal of a dependency that w has: of the last one it becomes unblocked.
LEMMA RemovalKeepsCInv ==
  ASSUME GInv, CInv, ~aborted, NEW th \in Threads, stack[th] # <<>>, NEW f \in FrameRecs,
         NEW w \in Tasks, NEW invoke, RemoveDependency(th, w, f, invoke),
         Top(th).pc \notin {"Flush", "Check"}, f.pc \notin {"Flush", "Check"},
         f.task = Top(th).task, Top(th).pc \in Final => f.pc \in Final,
         UNCHANGED <<life, taskPhase, packed, blockedTasks, aborted>>,
         numDependents[w] > 0, life[w] = "Alive",
         numDependents[w] = 1 => taskPhase[w] = 1 /\ ~In(w, Final)
  PROVE  CInv'
<1>1. numDependents' = [numDependents EXCEPT ![w] = @ - 1] /\ numDependents \in [Tasks -> Int]
  BY DEF RemoveDependency, GInv, Types
<1>2. \A v \in Tasks \ {w} : numDependents'[v] = numDependents[v]  BY <1>1
<1>3. numDependents'[w] = numDependents[w] - 1  BY <1>1
<1>4. Set(th, f) \/ \E t \in Tasks : f.depth < MaxDepth /\ Invoke(th, f, t)
  BY DEF RemoveDependency
<1>5. Runs(th) /\ \A t : In(t, Final) => In(t, Final)'  BY <1>4, GoesOn
<1>6. Resumed \subseteq Resumed'
  <2>1. \A t \in Tasks : numDependents[t] = 0 => numDependents'[t] = 0  BY <1>2
  <2> QED  BY <1>5, <2>1, ResumedKept
<1>7. CASE numDependents[w] # 1
  <2>1. local' = local  BY <1>7 DEF RemoveDependency
  <2>2. \A t \in Tasks : numDependents'[t] > 0 <=> numDependents[t] > 0
    BY <1>1, <1>2, <1>3, <1>7
  <2> QED  BY <1>5, <1>6, <2>1, <2>2, SameStep
<1>8. CASE numDependents[w] = 1
  <2>1. Unblock(th)  BY <1>8 DEF RemoveDependency
  <2>2. numDependents'[w] = 0  BY <1>3, <1>8
  <2>3. w \in Resumed' /\ w \notin Resumed  BY <1>8, <2>2 DEF Resumed
  <2>4. ~(numDependents'[w] > 0) /\ life' = life  BY <2>2
  <2>5. \A v \in Tasks \ {w} : numDependents'[v] > 0 <=> numDependents[v] > 0  BY <1>2
  <2> QED  BY <1>5, <1>6, <2>1, <2>3, <2>4, <2>5, UnblockStep
<1> QED  BY <1>7, <1>8

\* A task whose last dependency is on another task waits between its phases.
LEMMA LastOfAnother ==
  ASSUME GInv, NEW w \in Tasks, NEW e \in Deps(w), e # <<w, -1>>
  PROVE  /\ numDependents[w] > 0 /\ life[w] = "Alive"
         /\ numDependents[w] = 1 => taskPhase[w] = 1 /\ ~In(w, Final)
<1>1. /\ dispatched[w] = 0 /\ life[w] = "Alive"
      /\ \A g \in Active : g \in Handles(w) => <<w, -1>> \in Deps(w)
  BY WaitersAsleep
<1>2. numDependents[w] \in Nat /\ numDependents[w] # 0 /\ (numDependents[w] = 1 => Deps(w) = {e})
  BY CountIs DEF GInv, Counts
<1>3. ASSUME numDependents[w] = 1 PROVE taskPhase[w] = 1 /\ ~In(w, Final)
  <2>1. <<w, -1>> \notin Deps(w)  BY <1>2, <1>3
  <2>2. ~Handled(w)  BY <1>1, <2>1 DEF Handled
  <2>3. taskPhase[w] = 1  BY <1>1, <2>2 DEF GInv, TasksOK, TaskOK
  <2>4. ASSUME In(w, Final) PROVE FALSE
    <3>1. PICK g \in Active : g.task = w /\ g.pc \in Final  BY <2>4 DEF In
    <3>2. g.pc \in RunPcs  BY <3>1 DEF Final, RunPcs
    <3> QED  BY <2>1, <3>1, <3>2, RunsBlocked
  <2> QED  BY <2>3, <2>4
<1> QED  BY <1>1, <1>2, <1>3

\* A task runs in no other frame.
LEMMA OnlyFrame ==
  ASSUME GInv, NEW th \in Threads, stack[th] # <<>>, NEW t \in Tasks, t = This(th),
         Top(th).pc \notin Over, NEW g \in Active, g.task = t, g.pc \notin Over
  PROVE  g = Top(th)
<1>1. /\ Top(th) \in FrameRecs /\ Active = {Top(th)} \cup Others(th)
      /\ \A S : Once(S) /\ Top(th) \in S => \A h \in Others(th) : h \notin S
  BY TopFrame DEF GInv, Stacks
<1>2. g \in FrameRecs  BY ActiveDef DEF GInv, Stacks, StackType
<1>3. g \in Handles(t) /\ Top(th) \in Handles(t)  BY <1>1, <1>2 DEF Handles, Over, This
<1>4. Once(Handles(t))  BY DEF GInv, Handling, Exclusive
<1> QED  BY <1>1, <1>3, <1>4

\* The task depends on itself no more, and is between its phases.
LEMMA SuspendKeepsCInv ==
  ASSUME GInv, CInv, NEW th \in Threads, Suspend(th)
  PROVE  CInv'
<1>1. ~aborted /\ stack[th] # <<>> /\ Top(th).pc = "Suspend"  BY DEF Suspend, At, Top
<1>2. PICK t \in Tasks : t = This(th)  BY <1>1, ThisTask DEF Over
<1>3. Top(th) \in FrameRecs /\ FrameOK(Top(th)) /\ Top(th) \in Active  BY <1>1, ThisTask
<1>4. PICK f \in FrameRecs : f = [Top(th) EXCEPT !.pc = "End"]  BY <1>3 DEF FrameRecs, Pcs
<1>5. f.task = Top(th).task /\ f.task = t /\ f.pc = "End"
  BY <1>2, <1>3, <1>4 DEF FrameRecs, This
<1>6. /\ RemoveDependency(th, t, f, TRUE)
      /\ UNCHANGED <<life, taskPhase, packed, blockedTasks, aborted>>
  BY <1>2, <1>4 DEF Suspend, sharedVars
<1>7. numDependents[t] > 0 /\ life[t] = "Alive"
  <2>1. Top(th).task = t /\ Top(th).pc \in RunPcs  BY <1>1, <1>5 DEF RunPcs
  <2> QED  BY <1>3, <2>1, RunsBlocked
<1>8. taskPhase[t] = 1  BY <1>1, <1>3, <1>5 DEF FrameOK, RunPcs
<1>9. ~In(t, Final)
  <2> SUFFICES ASSUME NEW g \in Active, g.task = t, g.pc \in Final PROVE FALSE
    BY DEF In
  <2>1. g.pc \notin Over /\ Top(th).pc \notin Over  BY <1>1 DEF Final, Over
  <2>2. g = Top(th)  BY <1>1, <1>2, <2>1, OnlyFrame
  <2> QED  BY <1>1, <2>2 DEF Final
<1>10. Top(th).pc \notin {"Flush", "Check"} /\ f.pc \notin {"Flush", "Check"} /\ Top(th).pc \notin Final
  BY <1>1, <1>5 DEF Final
<1> QED  BY <1>1, <1>5, <1>6, <1>7, <1>8, <1>9, <1>10, RemovalKeepsCInv

\* A task on the list is told.
LEMMA NotifyOneKeepsCInv ==
  ASSUME GInv, CInv, NEW th \in Threads, Notify(th), Top(th).list # <<>>
  PROVE  CInv'
<1>1. ~aborted /\ stack[th] # <<>> /\ Top(th).pc = "Notify"  BY DEF Notify, At, Top
<1>2. PICK t \in Keys : t = This(th) /\ t = Top(th).task /\ t \in Tasks
  BY <1>1, ThisTask, TypeFacts DEF FrameOK, This
<1>3. Top(th) \in FrameRecs /\ Top(th) \in Active  BY <1>1, ThisTask
<1>4. PICK list \in Seq(InputTasks) : list = Top(th).list /\ list # <<>>  BY <1>3 DEF FrameRecs
<1>5. PICK m \in Nat \ {0} : m = Len(list)  BY <1>4
<1>6. PICK w \in InputTasks : w = Head(list) /\ w = list[1] /\ w \in Tasks /\ w # t
  BY <1>4, <1>2, TypeFacts
<1>7. PICK f \in FrameRecs : f = [Top(th) EXCEPT !.list = Tail(list)]
  <2>1. Tail(list) \in Seq(InputTasks)  BY <1>4
  <2> QED  BY <1>3, <2>1 DEF FrameRecs
<1>8. f.task = Top(th).task /\ f.pc = "Notify"  BY <1>1, <1>3, <1>7 DEF FrameRecs
<1>9. /\ RemoveDependency(th, w, f, FALSE)
      /\ UNCHANGED <<life, taskPhase, packed, blockedTasks, aborted>>
  BY <1>4, <1>6, <1>7 DEF Notify, sharedVars
<1>10. <<t, m>> \in Deps(w) /\ <<t, m>> # <<w, -1>>
  <2>1. AtEnd(list, m, w)
    <3>1. m \in 1 .. Len(list) /\ Len(list) + 1 - m = 1  BY <1>5
    <3> QED  BY <1>6, <3>1 DEF AtEnd
  <2>2. Entry(t, m, w)  BY <1>2, <1>3, <1>4, <2>1 DEF Entry
  <2>3. Depends(w, t, m) /\ m \in Int  BY <1>5, <2>2 DEF Depends
  <2> QED  BY <1>2, <1>5, <1>6, <2>3, DepsDef
<1>11. /\ numDependents[w] > 0 /\ life[w] = "Alive"
       /\ numDependents[w] = 1 => taskPhase[w] = 1 /\ ~In(w, Final)
  BY <1>6, <1>10, LastOfAnother
<1>12. Top(th).pc \notin {"Flush", "Check"} /\ f.pc \notin {"Flush", "Check"} /\ f.pc \in Final
  BY <1>1, <1>8 DEF Final
<1>13. w \in Tasks  BY <1>6
<1> QED  BY <1>1, <1>8, <1>9, <1>11, <1>12, <1>13, RemovalKeepsCInv

\* The parent is told.
LEMMA CompleteSubtaskKeepsCInv ==
  ASSUME GInv, CInv, NEW th \in Threads, Complete(th), parent[This(th)] # None
  PROVE  CInv'
<1>1. ~aborted /\ stack[th] # <<>> /\ Top(th).pc = "Complete"  BY DEF Complete, At, Top
<1>2. PICK t \in Tasks : t = This(th)  BY <1>1, ThisTask DEF Over
<1>3. /\ Top(th) \in FrameRecs /\ FrameOK(Top(th)) /\ Top(th) \in Active
      /\ Top(th).task = t
  BY <1>1, <1>2, ThisTask DEF This
<1>4. PICK w \in Tasks : w = parent[t]  BY <1>2 DEF GInv, Types
<1>5. PICK f \in FrameRecs : f = [Top(th) EXCEPT !.pc = "Destroy"]  BY <1>3 DEF FrameRecs, Pcs
<1>6. f.task = Top(th).task /\ f.pc = "Destroy"  BY <1>3, <1>5 DEF FrameRecs
<1>7. /\ RemoveDependency(th, w, f, TRUE)
      /\ UNCHANGED <<life, taskPhase, packed, blockedTasks, aborted>>
  BY <1>2, <1>4, <1>5 DEF Complete, sharedVars
<1>8. life[t] = "Alive"
  <2>1. Top(th).pc \in RunPcs  BY <1>1 DEF RunPcs
  <2> QED  BY <1>3, <2>1, RunsBlocked
<1>9. ~In(t, {"Destroy"})
  <2> SUFFICES ASSUME NEW g \in Active, g.task = t, g.pc = "Destroy" PROVE FALSE
    BY DEF In
  <2>1. g.pc \notin Over /\ Top(th).pc \notin Over  BY <1>1 DEF Over
  <2>2. g = Top(th)  BY <1>1, <1>2, <2>1, OnlyFrame
  <2> QED  BY <1>1, <2>2
<1>10. <<t, 0>> \in Deps(w) /\ <<t, 0>> # <<w, -1>>
  <2>1. Depends(w, t, 0)  BY <1>4, <1>8, <1>9 DEF Depends, Child
  <2> QED  BY <2>1, DepsDef
<1>11. /\ numDependents[w] > 0 /\ life[w] = "Alive"
       /\ numDependents[w] = 1 => taskPhase[w] = 1 /\ ~In(w, Final)
  BY <1>10, LastOfAnother
<1>12. Top(th).pc \notin {"Flush", "Check"} /\ f.pc \notin {"Flush", "Check"} /\ f.pc \in Final
  BY <1>1, <1>6 DEF Final
<1> QED  BY <1>1, <1>6, <1>7, <1>11, <1>12, RemovalKeepsCInv

\* The task is blocked, by itself alone, until it is deleted.
LEMMA DestroyKeepsCInv ==
  ASSUME GInv, CInv, NEW th \in Threads, Destroy(th)
  PROVE  CInv'
<1>1. ~aborted /\ stack[th] # <<>> /\ Top(th).pc = "Destroy"  BY DEF Destroy, At, Top
<1>2. PICK t \in Tasks : t = This(th)  BY <1>1, ThisTask DEF Over
<1>3. /\ Top(th) \in FrameRecs /\ FrameOK(Top(th)) /\ Top(th) \in Active
      /\ Top(th).task = t /\ Active = {Top(th)} \cup Others(th)
  BY <1>1, <1>2, ThisTask, TopFrame DEF This, GInv, Stacks
<1>4. PICK f \in FrameRecs : f = [Top(th) EXCEPT !.pc = "End"]  BY <1>3 DEF FrameRecs, Pcs
<1>5. f.task = Top(th).task /\ f.pc = "End" /\ Set(th, f)
  BY <1>3, <1>4 DEF FrameRecs, Destroy
<1>6. numDependents[t] = 1 /\ life[t] = "Alive" /\ numDependents \in [Tasks -> Int]
  <2>1. Deps(t) = {<<t, -1>>}  BY <1>1, <1>3 DEF FrameOK, RunPcs
  <2>2. numDependents[t] = 1  BY <2>1, CountIs DEF GInv, Counts
  <2>3. life[t] = "Alive"
    <3>1. Top(th).pc \in RunPcs  BY <1>1 DEF RunPcs
    <3> QED  BY <1>3, <3>1, RunsBlocked
  <2> QED  BY <2>2, <2>3 DEF GInv, Types
<1>7. /\ numDependents' = [numDependents EXCEPT ![t] = @ - 1]
      /\ local' = [local EXCEPT ![th].blocked = @ - 1]
      /\ life' = [life EXCEPT ![t] = "Deleted"]
      /\ UNCHANGED <<taskPhase, packed, blockedTasks, aborted>>
  BY <1>2, <1>6 DEF Destroy, sharedVars
<1>8. Top(th).pc \notin {"Flush", "Check"} /\ f.pc \notin {"Flush", "Check"}
  BY <1>1, <1>5
<1>9. Runs(th) /\ Others(th) \subseteq Active'
  BY <1>1, <1>5, <1>8, GoesOn
<1>10. /\ numDependents'[t] = 0
       /\ \A v \in Tasks \ {t} : numDependents'[v] = numDependents[v]
  BY <1>6, <1>7
<1>11. Resumed \subseteq Resumed'
  <2>1. ASSUME NEW v \in Tasks \ {t}, In(v, Final) PROVE In(v, Final)'
    <3>1. PICK g \in Active : g.task = v /\ g.pc \in Final  BY <2>1 DEF In
    <3>2. g \in Active'  BY <1>3, <1>9, <3>1
    <3> QED  BY <3>1, <3>2 DEF In
  <2>2. \A v \in Tasks : taskPhase[v] = 1 => taskPhase'[v] = 1  BY <1>7
  <2> QED  BY <1>10, <2>1, <2>2, ResumedKept
<1>12. life \in [Tasks -> {"Absent", "Alive", "Deleted"}]  BY DEF GInv, Types
<1>13. numDependents[t] > 0 /\ \A v \in Tasks \ {t} : numDependents'[v] > 0 <=> numDependents[v] > 0
  BY <1>6, <1>10
<1>14. UNCHANGED <<packed, blockedTasks, aborted>>  BY <1>7
<1> QED  BY <1>1, <1>6, <1>7, <1>9, <1>11, <1>12, <1>13, <1>14, DeleteStep

\* The parent runs, and so is blocked already; the subtask is unblocked.
LEMMA NewSubtaskKeepsCInv ==
  ASSUME GInv, CInv, ~aborted, NEW th \in Threads, stack[th] # <<>>, Top(th).pc = "Inputs",
         NEW u \in Tasks, life[u] = "Absent", NewSubtask(th, u, Top(th)),
         UNCHANGED <<packed, blockedTasks, aborted>>
  PROVE  CInv'
<1>1. Top(th) \in FrameRecs /\ FrameOK(Top(th)) /\ Top(th) \in Active  BY ThisTask
<1>2. PICK t \in Tasks : t = This(th) /\ t = Top(th).task  BY ThisTask DEF Over, This
<1>3. PICK f \in FrameRecs : f = [Top(th) EXCEPT !.i = @ + 1, !.next = u, !.deps = TRUE]
  <2>1. Top(th).i + 1 \in Nat \ {0}  BY <1>1 DEF FrameRecs
  <2> QED  BY <1>1, <2>1 DEF FrameRecs
<1>4. f.task = Top(th).task /\ f.pc = "Inputs"  BY <1>1, <1>3 DEF FrameRecs
<1>5. /\ Set(th, f) /\ life' = [life EXCEPT ![u] = "Alive"]
      /\ numDependents' = [numDependents EXCEPT ![t] = @ + 1]
      /\ local' = [local EXCEPT ![th].unblocked = @ + 1] /\ taskPhase' = taskPhase
  BY <1>2, <1>3 DEF NewSubtask
<1>6. Types  BY DEF GInv
<1>7. numDependents[t] > 0
  <2>1. Top(th).pc \in RunPcs  BY DEF RunPcs
  <2> QED  BY <1>1, <1>2, <2>1, RunsBlocked
<1>8. ~(numDependents[u] > 0)
  <2>1. Deps(u) = {}  BY DEF GInv, TasksOK, TaskOK
  <2> QED  BY <2>1, CountIs DEF GInv, Counts
<1>9. \A v \in Tasks : /\ numDependents'[v] > 0 <=> numDependents[v] > 0
                       /\ numDependents[v] = 0 => numDependents'[v] = 0
  BY <1>5, <1>6, <1>7 DEF Types
<1>10. Top(th).pc \notin {"Flush", "Check"} /\ f.pc \notin {"Flush", "Check"} /\ Top(th).pc \notin Final
  BY <1>4 DEF Final
<1>11. Runs(th) /\ \A v : In(v, Final) => In(v, Final)'  BY <1>4, <1>5, <1>10, GoesOn
<1>12. Resumed \subseteq Resumed'  BY <1>5, <1>9, <1>11, ResumedKept
<1>13. life \in [Tasks -> {"Absent", "Alive", "Deleted"}]  BY <1>6 DEF Types
<1>14. \A v \in Tasks : numDependents'[v] > 0 <=> numDependents[v] > 0  BY <1>9
<1> QED  BY <1>5, <1>8, <1>11, <1>12, <1>13, <1>14, CreateStep

\* The subtask of an input is new, since no other frame runs its owner.
LEMMA ResolveInputKeepsCInv ==
  ASSUME GInv, CInv, NEW th \in Threads, ResolveInput(th)
  PROVE  CInv'
<1>1. ~aborted /\ stack[th] # <<>> /\ Top(th).pc = "Inputs"  BY DEF ResolveInput, At, Top
<1>2. PICK t \in Tasks : t = This(th)  BY <1>1, ThisTask DEF Over
<1>3. /\ Top(th) \in FrameRecs /\ FrameOK(Top(th)) /\ Top(th).task = t
  BY <1>1, <1>2, ThisTask DEF This
<1>4. PICK i \in Nat \ {0} : i = Top(th).i  BY <1>3 DEF FrameRecs
<1>5. t \in Owners /\ i \in 1 .. Len(InputKeys[t])
  <2>1. ~IsInputTask(t) /\ i <= Len(InputKeys[t])  BY <1>2, <1>4 DEF ResolveInput
  <2>2. t \in Owners  BY <2>1, TypeFacts DEF IsInputTask
  <2>3. Len(InputKeys[t]) \in Nat  BY <2>2, TypeFacts
  <2> QED  BY <1>4, <2>1, <2>2, <2>3
<1>6. PICK u \in Tasks : u = <<t, i>>  BY <1>5, TypeFacts
<1>7. /\ NewSubtask(th, u, Top(th)) /\ UNCHANGED <<packed, blockedTasks, aborted>>
  BY <1>2, <1>4, <1>6 DEF ResolveInput, sharedVars
<1>8. life[u] = "Absent"
  <2>1. InputsOK(t, i)  BY <1>5 DEF GInv, InputTasksOK
  <2>2. taskPhase[t] = 0  BY <1>1, <1>3 DEF FrameOK
  <2>3. ASSUME NEW g \in Active, g.task = t, g.pc = "Inputs" PROVE g.i <= i
    <3>1. g.pc \notin Over /\ Top(th).pc \notin Over  BY <1>1, <2>3 DEF Over
    <3>2. g = Top(th)  BY <1>1, <1>2, <2>3, <3>1, OnlyFrame
    <3> QED  BY <1>4, <3>2
  <2> QED  BY <1>6, <2>1, <2>2, <2>3 DEF InputsOK
<1> QED  BY <1>1, <1>7, <1>8, NewSubtaskKeepsCInv

\* The task of a key is new, since the key was unclaimed.
LEMMA ClaimKeepsCInv ==
  ASSUME GInv, CInv, NEW th \in Threads, Claim(th)
  PROVE  CInv'
<1>1. ~aborted /\ stack[th] # <<>> /\ Top(th).pc = "Inputs"  BY DEF Claim, Requests, At, Top
<1>2. PICK t \in Tasks : t = This(th)  BY <1>1, ThisTask DEF Over
<1>3. Top(th) \in FrameRecs  BY <1>1, ThisTask
<1>4. PICK i \in Nat \ {0} : i = Top(th).i  BY <1>3 DEF FrameRecs
<1>5. IsInputTask(t) /\ i \in 1 .. Len(OutputKeys(t)) /\ OutputKeys(t) \in Seq(Keys)
  BY <1>2, <1>4, TypeFacts DEF Claim, Requests, IsInputTask
<1>6. PICK u \in Keys : u = OutputKeys(t)[i] /\ u \in Tasks  BY <1>5, TypeFacts
<1>7. /\ NewSubtask(th, u, Top(th)) /\ claimed[u] = "Unclaimed"
      /\ UNCHANGED <<packed, blockedTasks, aborted>>
  BY <1>2, <1>4, <1>6 DEF Claim, Requested, sharedVars
<1>8. life[u] = "Absent" /\ u \in Tasks  BY <1>6, <1>7 DEF GInv, KeysOK, KeyOK
<1> QED  BY <1>1, <1>7, <1>8, NewSubtaskKeepsCInv

\* A root task is created by the main thread, which is busy.
LEMMA SpawnKeepsCInv ==
  ASSUME GInv, CInv, NEW r \in Roots, Spawn(r)
  PROVE  CInv'
<1>1. /\ ~aborted /\ Main \in Threads /\ stack[Main] # <<>> /\ Top(Main).pc = "Spawn"
      /\ r \in Tasks
  BY InputsAssumption, TypeFacts DEF Spawn, At, Top
<1>2. /\ life' = [life EXCEPT ![r] = "Alive"]
      /\ local' = [local EXCEPT ![Main].unblocked = @ + 1]
      /\ UNCHANGED <<numDependents, taskPhase, stack, packed, blockedTasks, aborted>>
  BY DEF Spawn, sharedVars
<1>3. Runs(Main)
  <2>1. Top(Main) = stack[Main][1]  BY <1>1, TopFrame DEF GInv, Stacks
  <2> QED  BY <1>1, <1>2, <2>1 DEF Runs
<1>4. life[r] = "Absent"  BY DEF GInv, RootsOK, Spawn
<1>5. ~(numDependents[r] > 0)
  <2>1. Deps(r) = {}  BY <1>1, <1>4 DEF GInv, TasksOK, TaskOK
  <2> QED  BY <1>1, <2>1, CountIs DEF GInv, Counts
<1>6. \A v : In(v, Final)' <=> In(v, Final)
  <2>1. Active' = Active  BY <1>2 DEF Active
  <2> QED  BY <2>1 DEF In
<1>7. Resumed \subseteq Resumed'  BY <1>2, <1>6, ResumedKept
<1>8. life \in [Tasks -> {"Absent", "Alive", "Deleted"}]  BY DEF GInv, Types
<1>9. \A v \in Tasks : numDependents'[v] > 0 <=> numDependents[v] > 0  BY <1>2
<1> QED  BY <1>1, <1>2, <1>3, <1>4, <1>5, <1>7, <1>8, <1>9, CreateStep

-----------------------------------------------------------------------------
(* The shared counters.                                                    *)

\* What a step that changes no task leaves as it was.
LEMMA TasksSame ==
  ASSUME UNCHANGED <<life, numDependents, taskPhase>>,
         \A t : In(t, Final) <=> In(t, Final)'
  PROVE  /\ Blocked' = Blocked /\ Free' = Free /\ Alive' = Alive
         /\ Created' = Created /\ Resumed' = Resumed
<1>1. Blocked' = Blocked /\ Free' = Free /\ Created' = Created /\ Alive' = Alive
  BY DEF Blocked, Free, Created, Alive
<1>2. Resumed' = Resumed  BY DEF Resumed
<1> QED  BY <1>1, <1>2

\* The counters are numbers, and within bounds.
LEMMA CountersBounds ==
  ASSUME CInv
  PROVE  /\ busyThreads \in Int /\ unblockedTasks \in Int /\ blockedTasks \in Int
         /\ Positive(unblockedTasks) + Credits <= 2 * Cardinality(Tasks)
         /\ Cardinality(Threads) \in Nat /\ Cardinality(Tasks) \in Nat
         /\ Cardinality(Threads) < Bias /\ 2 * Cardinality(Tasks) < Bias
         /\ local \in [Threads -> [blocked : Int, unblocked : Int]]
         /\ packed \in 0 .. Words - 1
         /\ busyThreads = Unpack(packed)[1] /\ unblockedTasks = Unpack(packed)[2]
<1>1. local \in [Threads -> [blocked : Int, unblocked : Int]] /\ blockedTasks \in Int
      /\ packed \in 0 .. Words - 1
  BY DEF CInv, CountersType
<1>2. busyThreads \in Int /\ unblockedTasks \in Int
      /\ busyThreads = Unpack(packed)[1] /\ unblockedTasks = Unpack(packed)[2]
  <2>1. packed \div Half \in 0 .. Half - 1 /\ packed % Half \in 0 .. Half - 1
    BY <1>1, Halves
  <2> QED  BY <2>1, HalfIsPositive, BiasAssumption DEF busyThreads, unblockedTasks, Unpack
<1>3. Cardinality(Created) <= Cardinality(Tasks) /\ Cardinality(Resumed) <= Cardinality(Tasks)
      /\ Cardinality(Created) \in Nat /\ Cardinality(Resumed) \in Nat
  BY TaskSets, SetSizes
<1>4. Positive(unblockedTasks) \in Nat  BY <1>2 DEF Positive
<1>5. Credits \in Nat
  <2>1. PICK T : T = Busy({"Check"})  OBVIOUS
  <2>2. PICK x : x = Amount("unblocked")  OBVIOUS
  <2>3. IsFiniteSet(T) /\ \A th \in T : x[th] \in Int  BY <1>1, <2>1, <2>2, SetSizes DEF Amount, Busy
  <2>4. Cardinality(Units(x, T)) \in Nat  BY <2>3, UnitsFinite, FS_CardinalityType
  <2> QED  BY <2>1, <2>2, <2>4 DEF Credits
<1>6. Positive(unblockedTasks) + Credits <= 2 * Cardinality(Tasks)
  <2>1. Positive(unblockedTasks) + Credits <= Cardinality(Created) + Cardinality(Resumed)
    BY DEF CInv, Budget
  <2>2. Cardinality(Tasks) \in Nat  BY SetSizes
  <2> QED  BY <1>3, <1>4, <1>5, <2>1, <2>2
<1> QED  BY <1>1, <1>2, <1>6, SetSizes, CountersAssumption

\* The packed word after an addition whose sums are in range.
LEMMA AddKeepsType ==
  ASSUME CInv, NEW b \in Int, NEW u \in Int, packed' = AddTo(packed, b, u),
         busyThreads + b \in Counter, unblockedTasks + u \in Counter
  PROVE  /\ packed' \in 0 .. Words - 1
         /\ busyThreads' = busyThreads + b /\ unblockedTasks' = unblockedTasks + u
<1>1. PICK w \in 0 .. Words - 1 : w = packed  BY CountersBounds
<1>2. Unpack(w)[1] + b \in Counter /\ Unpack(w)[2] + u \in Counter
  BY <1>1, CountersBounds
<1>3. /\ AddTo(w, b, u) \in 0 .. Words - 1
      /\ Unpack(AddTo(w, b, u)) = <<Unpack(w)[1] + b, Unpack(w)[2] + u>>
  BY <1>2, AddIsExact
<1>4. Unpack(packed') = <<Unpack(w)[1] + b, Unpack(w)[2] + u>>  BY <1>1, <1>3
<1>5. busyThreads' = Unpack(packed')[1] /\ unblockedTasks' = Unpack(packed')[2]
  BY DEF busyThreads, unblockedTasks
<1> QED  BY <1>1, <1>3, <1>4, <1>5, CountersBounds

\* Both counters are in their halves, and the unflushed credits bound what is
\* missing from the shared one.
LEMMA CountersFit ==
  ASSUME CInv
  PROVE  /\ busyThreads \in 0 .. Bias - 1 /\ unblockedTasks \in Counter
         /\ Bias \in Nat \ {0}
<1>1. busyThreads \in 0 .. Bias - 1
  BY SetSizes, CountersBounds, ExactDef, BiasAssumption DEF CInv
<1>2. packed \div Half \in 0 .. Half - 1 /\ packed % Half \in 0 .. Half - 1
  BY CountersBounds, Halves
<1>3. unblockedTasks \in Counter
  BY <1>2, BiasAssumption DEF unblockedTasks, Unpack, Counter, Half
<1> QED  BY <1>1, <1>3, BiasAssumption

\* A thread joins with amounts of zero, or leaves with what it has counted.
LEMMA JoinStep ==
  ASSUME NEW T \in SUBSET Threads, NEW th \in Threads \ T, NEW x, NEW y,
         x \in [Threads -> Int], DOMAIN y = Threads,
         \A v \in Threads \ {th} : y[v] = x[v], y[th] = 0
  PROVE  /\ Total(y, T \cup {th}) = Total(x, T)
         /\ Cardinality(Units(y, T \cup {th})) = Cardinality(Units(x, T))
<1> DEFINE S == T \cup {th}
<1>1. IsFiniteSet(S) /\ S \ {th} = T /\ th \in S  BY CountersAssumption, FS_Subset
<1>2. \A v \in S : y[v] \in Int  OBVIOUS
<1>3. \A v \in T : y[v] = x[v]  OBVIOUS
<1> HIDE DEF S
<1>4. Total(y, T) = Total(x, T) /\ Units(y, T) = Units(x, T)  BY <1>3, TotalSame, UnitsSame
<1>5. Total(y, S) = Total(y, S \ {th}) + y[th] /\ Total(y, S \ {th}) \in Int
  BY <1>1, <1>2, TotalSplit
<1>6. /\ Cardinality(Units(y, S)) = Cardinality(Units(y, S \ {th})) + Positive(y[th])
      /\ Cardinality(Units(y, S \ {th})) \in Nat
  BY <1>1, <1>2, UnitsSplit
<1>7. Positive(0) = 0  BY DEF Positive
<1>8. /\ Total(y, S \ {th}) = Total(x, T)
      /\ Cardinality(Units(y, S \ {th})) = Cardinality(Units(x, T))
  BY <1>1, <1>4, Zenon
<1>9. Total(y, S) = Total(x, T) /\ Cardinality(Units(y, S)) = Cardinality(Units(x, T))
  BY <1>5, <1>6, <1>7, <1>8
<1> QED  BY <1>9 DEF S

\* The others' total and units are without those of th.
LEMMA LeaveStep ==
  ASSUME NEW T \in SUBSET Threads, NEW th \in T, NEW x, x \in [Threads -> Int]
  PROVE  /\ Total(x, T) = Total(x, T \ {th}) + x[th] /\ Total(x, T \ {th}) \in Int
         /\ Cardinality(Units(x, T)) = Cardinality(Units(x, T \ {th})) + Positive(x[th])
         /\ Cardinality(Units(x, T \ {th})) \in Nat /\ x[th] \in Int
         /\ Total(x, T \ {th}) <= Cardinality(Units(x, T \ {th}))
<1>1. IsFiniteSet(T) /\ IsFiniteSet(T \ {th})  BY CountersAssumption, FS_Subset
<1>2. \A v \in T : x[v] \in Int  OBVIOUS
<1>3. \A v \in T \ {th} : x[v] \in Int  OBVIOUS
<1>4. Total(x, T) = Total(x, T \ {th}) + x[th] /\ Total(x, T \ {th}) \in Int
  BY <1>1, <1>2, TotalSplit
<1>5. /\ Cardinality(Units(x, T)) = Cardinality(Units(x, T \ {th})) + Positive(x[th])
      /\ Cardinality(Units(x, T \ {th})) \in Nat
  BY <1>1, <1>2, UnitsSplit
<1>6. Total(x, T \ {th}) <= Cardinality(Units(x, T \ {th}))  BY <1>1, <1>3, TotalType
<1> QED  BY <1>4, <1>5, <1>6

\* The amounts are numbers.
LEMMA AmountTypes ==
  ASSUME CountersType
  PROVE  /\ Amount("blocked") \in [Threads -> Int] /\ Amount("unblocked") \in [Threads -> Int]
         /\ \A th \in Threads : /\ Amount("blocked")[th] = local[th].blocked
                                /\ Amount("unblocked")[th] = local[th].unblocked
  BY DEF CountersType, Amount

\* A thread becomes busy.  No other one is looking for blocked tasks: the task it
\* takes is unblocked, and would have been counted.
LEMMA StartKeepsCInv ==
  ASSUME GInv, CInv, NEW th \in Threads, NEW t \in Tasks, Start(th, t)
  PROVE  CInv'
<1>1. /\ ~aborted /\ stack[th] = <<>> /\ dispatched[t] > 0
      /\ stack' = [stack EXCEPT ![th] = <<Frame(t, 0)>>]
      /\ packed' = AddTo(packed, 1, 0) /\ local' = [local EXCEPT ![th] = Zero]
      /\ UNCHANGED <<life, numDependents, taskPhase, blockedTasks, aborted>>
  BY DEF Start
<1>2. PICK f : f = Frame(t, 0)  OBVIOUS
<1>3. f.pc = "Enter"  BY <1>2 DEF Frame
<1>4. /\ Active' = {f} \cup Active /\ stack'[th] # <<>> /\ stack'[th][1] = f
      /\ \A v \in Threads \ {th} : stack'[v] = stack[v]
  BY <1>1, <1>2, FirstFrame DEF GInv, Stacks
<1>5. \A v : In(v, Final) <=> In(v, Final)'  BY <1>3, <1>4 DEF In, Final
<1>6. /\ Blocked' = Blocked /\ Free' = Free /\ Alive' = Alive
      /\ Created' = Created /\ Resumed' = Resumed
  BY <1>1, <1>5, TasksSame
<1>7. PICK T \in SUBSET Threads, F \in SUBSET Threads :
         T = Busy({"Check"}) /\ F = Busy({"Flush", "Check"})
  BY DEF Busy
<1>8. /\ Busy({"Check"})' = T \cup {th} /\ Busy({"Flush", "Check"})' = F \cup {th}
      /\ th \notin T /\ th \notin F
  BY <1>1, <1>3, <1>4, <1>7 DEF Busy
<1>9. PICK x, y : x = Amount("unblocked") /\ y = Amount("unblocked")'  OBVIOUS
<1>10. PICK p, q : p = Amount("blocked") /\ q = Amount("blocked")'  OBVIOUS
<1>11. /\ CountersType /\ local \in [Threads -> [blocked : Int, unblocked : Int]]
       /\ local' \in [Threads -> [blocked : Int, unblocked : Int]]
  BY <1>1 DEF CInv, CountersType, Zero
<1>12. /\ x \in [Threads -> Int] /\ DOMAIN y = Threads /\ y[th] = 0
       /\ \A v \in Threads \ {th} : y[v] = x[v]
  BY <1>1, <1>9, <1>11 DEF Amount, Zero
<1>13. /\ p \in [Threads -> Int] /\ DOMAIN q = Threads /\ q[th] = 0
       /\ \A v \in Threads \ {th} : q[v] = p[v]
  BY <1>1, <1>10, <1>11 DEF Amount, Zero
<1>14. /\ Total(y, T \cup {th}) = Total(x, T)
       /\ Cardinality(Units(y, T \cup {th})) = Cardinality(Units(x, T))
  BY <1>8, <1>12, JoinStep
<1>15. Total(q, F \cup {th}) = Total(p, F)  BY <1>8, <1>13, JoinStep
<1>16. /\ blockedTasks + Total(p, F) = Cardinality(Blocked)
       /\ unblockedTasks + Total(x, T) = Cardinality(Free)
       /\ busyThreads = Cardinality(T)
  BY <1>7, <1>9, <1>10, ExactDef DEF CInv
<1>17. Cardinality(T \cup {th}) = Cardinality(T) + 1 /\ Cardinality(T \cup {th}) < Bias
  <2>1. IsFiniteSet(T) /\ IsFiniteSet(Threads)  BY CountersAssumption, FS_Subset
  <2>2. Cardinality(T \cup {th}) = Cardinality(T) + 1  BY <1>8, <2>1, FS_AddElement
  <2>3. T \cup {th} \in SUBSET Threads  OBVIOUS
  <2>4. Cardinality(T \cup {th}) <= Cardinality(Threads)  BY <2>1, <2>3, FS_Subset
  <2>5. Cardinality(T) \in Nat  BY <2>1, FS_CardinalityType
  <2> QED  BY <2>2, <2>4, <2>5, CountersBounds, CountersFit
<1>18. /\ packed' \in 0 .. Words - 1
       /\ busyThreads' = busyThreads + 1 /\ unblockedTasks' = unblockedTasks
  <2>1. busyThreads + 1 \in Counter /\ unblockedTasks + 0 \in Counter /\ unblockedTasks \in Int
    BY <1>16, <1>17, CountersFit DEF Counter
  <2> QED  BY <1>1, <2>1, AddKeepsType
<1>19. CountersExact'
  <2>1. blockedTasks' = blockedTasks  BY <1>1
  <2> QED  BY <1>6, <1>8, <1>9, <1>10, <1>14, <1>15, <1>16, <1>17, <1>18, <2>1, ExactNext
<1>20. Budget'
  <2>1. Positive(unblockedTasks) + Cardinality(Units(x, T)) <= Cardinality(Created) + Cardinality(Resumed)
    BY <1>7, <1>9 DEF CInv, Budget, Credits
  <2>2. Credits' = Cardinality(Units(y, T \cup {th}))  BY <1>8, <1>9 DEF Credits
  <2> QED  BY <1>6, <1>14, <1>18, <2>1, <2>2 DEF Budget
<1>21. CountersType'  BY <1>1, <1>11, <1>18 DEF CInv, CountersType
<1>22. NoFalseAlarm'  BY <1>1 DEF NoFalseAlarm
<1>23. CheckOK'
  <2> SUFFICES ASSUME NEW v \in Threads, stack'[v] # <<>>, stack'[v][1].pc = "Check" PROVE FALSE
    BY DEF CheckOK
  <2>1. v # th /\ stack'[v] = stack[v]  BY <1>3, <1>4
  <2>2. unblockedTasks = 0 /\ \A u \in Threads \ {v} : stack[u] = <<>>
    BY <2>1 DEF CInv, CheckOK
  <2>3. T = {}  BY <1>7, <2>1, <2>2 DEF Busy
  <2>4. Free = {}
    <3>1. Cardinality(Free) = 0  BY <1>16, <2>2, <2>3, TotalEmpty
    <3>2. IsFiniteSet(Free)  BY TaskSets, SetSizes
    <3> QED  BY <3>1, <3>2, FS_EmptySet
  <2>5. t \in Free
    <3>1. TaskOK(t) /\ CountOK(t)  BY DEF GInv, TasksOK, Counts
    <3>2. Deps(t) = {}  BY <1>1, <3>1 DEF TaskOK
    <3>3. numDependents[t] = 0  BY <3>1, <3>2, CountIs
    <3>4. life[t] = "Alive"  BY <1>1, <3>1 DEF TaskOK, Handled
    <3> QED  BY <3>3, <3>4, TaskSets
  <2> QED  BY <2>4, <2>5
<1>24. NoneLost'  BY <1>4 DEF NoneLost, WaitReturns
<1> QED  BY <1>19, <1>20, <1>21, <1>22, <1>23, <1>24 DEF CInv

\* What the dispatcher has is counted as unblocked.
LEMMA DispatchedIsFree ==
  ASSUME GInv, NEW t \in Tasks, dispatched[t] > 0
  PROVE  t \in Free
<1>1. TaskOK(t) /\ CountOK(t)  BY DEF GInv, TasksOK, Counts
<1>2. Deps(t) = {}  BY <1>1 DEF TaskOK
<1>3. numDependents[t] = 0  BY <1>1, <1>2, CountIs
<1>4. life[t] = "Alive"  BY <1>1 DEF TaskOK, Handled
<1> QED  BY <1>3, <1>4, TaskSets

\* Somebody is going to run an unblocked task.
LEMMA FreeIsHandled ==
  ASSUME GInv, NEW t \in Free
  PROVE  t \in Tasks /\ Handled(t)
<1>1. t \in Tasks /\ life[t] = "Alive" /\ ~(numDependents[t] > 0)  BY TaskSets
<1>2. TaskOK(t) /\ CountOK(t)  BY <1>1 DEF GInv, TasksOK, Counts
<1>3. Deps(t) = {}  BY <1>1, <1>2, CountIs
<1> QED  BY <1>1, <1>2, <1>3 DEF TaskOK

\* Only frames of the second phase matter to Resumed.
LEMMA FinalSame ==
  ASSUME GInv, NEW th \in Threads, stack[th] # <<>>, Top(th).pc \notin Final,
         \/ Active' = Others(th)
         \/ \E f : f.pc \notin Final /\ Active' = {f} \cup Others(th)
  PROVE  \A v : In(v, Final) <=> In(v, Final)'
<1>1. Active = {Top(th)} \cup Others(th)  BY TopFrame DEF GInv, Stacks
<1> QED  BY <1>1 DEF In

\* The blocked tasks of a thread go to the shared counter.
LEMMA FlushBlockedKeepsCInv ==
  ASSUME GInv, CInv, NEW th \in Threads, FlushBlocked(th)
  PROVE  CInv'
<1>1. /\ ~aborted /\ stack[th] # <<>> /\ Top(th).pc = "End"
      /\ blockedTasks' = blockedTasks + local[th].blocked
      /\ UNCHANGED <<life, numDependents, taskPhase, local, packed, aborted>>
  BY DEF FlushBlocked, At, Top, taskVars
<1>2. Top(th) \in FrameRecs /\ Top(th) = stack[th][1]
  BY <1>1, TopFrame DEF GInv, Stacks
<1>3. PICK f \in FrameRecs : f = [Top(th) EXCEPT !.pc = "Flush"]  BY <1>2 DEF FrameRecs, Pcs
<1>4. f.pc = "Flush" /\ Set(th, f)  BY <1>2, <1>3 DEF FrameRecs, FlushBlocked
<1>5. /\ Active' = {f} \cup Others(th) /\ stack'[th] # <<>> /\ StackType' /\ Top(th)' = f
      /\ \A v \in Threads \ {th} : stack'[v] = stack[v]
  BY <1>1, <1>4, SetFrame DEF GInv, Stacks
<1>6. stack'[th][1] = f  BY <1>5 DEF Top, StackType
<1>7. \A v : In(v, Final) <=> In(v, Final)'
  <2>1. f.pc \notin Final /\ Top(th).pc \notin Final  BY <1>1, <1>4 DEF Final
  <2> QED  BY <1>1, <1>5, <2>1, FinalSame
<1>8. /\ Blocked' = Blocked /\ Free' = Free /\ Created' = Created /\ Resumed' = Resumed
  BY <1>1, <1>7, TasksSame
<1>9. PICK T \in SUBSET Threads, F \in SUBSET Threads :
        T = Busy({"Check"}) /\ F = Busy({"Flush", "Check"})
  BY DEF Busy
<1>10. Busy({"Check"})' = T /\ Busy({"Flush", "Check"})' = F \ {th} /\ th \in F
  <2>1. th \in F /\ th \in T  BY <1>1, <1>2, <1>9 DEF Busy
  <2>2. th \in Busy({"Check"})' /\ th \notin Busy({"Flush", "Check"})'
    BY <1>4, <1>5, <1>6 DEF Busy
  <2>3. \A v \in Threads \ {th} : /\ v \in Busy({"Check"})' <=> v \in T
                                  /\ v \in Busy({"Flush", "Check"})' <=> v \in F
    BY <1>5, <1>9 DEF Busy
  <2>4. Busy({"Check"})' \subseteq Threads /\ Busy({"Flush", "Check"})' \subseteq Threads
    BY DEF Busy
  <2> QED  BY <2>1, <2>2, <2>3, <2>4
<1>11. PICK x, p : x = Amount("unblocked") /\ p = Amount("blocked")  OBVIOUS
<1>12. Amount("unblocked")' = x /\ Amount("blocked")' = p  BY <1>1, <1>11 DEF Amount
<1>13. p \in [Threads -> Int] /\ p[th] = local[th].blocked  BY <1>11, AmountTypes DEF CInv
<1>14. Total(p, F) = Total(p, F \ {th}) + p[th] /\ Total(p, F \ {th}) \in Int /\ p[th] \in Int
  BY <1>10, <1>13, LeaveStep
<1>15. busyThreads' = busyThreads /\ unblockedTasks' = unblockedTasks
  BY <1>1 DEF busyThreads, unblockedTasks, Unpack
<1>16. /\ blockedTasks + Total(p, F) = Cardinality(Blocked)
       /\ unblockedTasks + Total(x, T) = Cardinality(Free)
       /\ busyThreads = Cardinality(T)
  BY <1>9, <1>11, ExactDef DEF CInv
<1>17. blockedTasks' + Total(p, F \ {th}) = Cardinality(Blocked)
  BY <1>1, <1>13, <1>14, <1>16, CountersBounds
<1>18. CountersExact'
  BY <1>8, <1>10, <1>12, <1>15, <1>16, <1>17, ExactNext
<1>19. Budget'
  <2>1. Credits' = Credits  BY <1>9, <1>10, <1>11, <1>12 DEF Credits
  <2> QED  BY <1>8, <1>15, <2>1 DEF CInv, Budget
<1>20. CountersType'  BY <1>1, <1>13, <1>14, CountersBounds DEF CInv, CountersType
<1>21. NoFalseAlarm'  BY <1>1 DEF NoFalseAlarm
<1>22. CheckOK'
  <2> SUFFICES ASSUME NEW v \in Threads, stack'[v] # <<>>, stack'[v][1].pc = "Check" PROVE FALSE
    BY DEF CheckOK
  <2>1. v # th /\ stack'[v] = stack[v]  BY <1>4, <1>5, <1>6
  <2> QED  BY <1>1, <2>1 DEF CInv, CheckOK
<1>23. NoneLost'  BY <1>5 DEF NoneLost, WaitReturns
<1> QED  BY <1>18, <1>19, <1>20, <1>21, <1>22, <1>23 DEF CInv

\* The last thread finds the number of blocked tasks, and no others.
LEMMA CheckKeepsCInv ==
  ASSUME GInv, CInv, NEW th \in Threads, Check(th)
  PROVE  CInv'
<1>1. /\ ~aborted /\ stack[th] # <<>> /\ Top(th).pc = "Check"
      /\ aborted' = (blockedTasks # 0) /\ stack' = [stack EXCEPT ![th] = <<>>]
      /\ UNCHANGED <<life, numDependents, taskPhase, dispatched, unspawned, local, packed,
                     blockedTasks>>
  BY DEF Check, At, Top, taskVars, sharedVars
<1>2. Top(th) = stack[th][1]  BY <1>1, TopFrame DEF GInv, Stacks
<1>3. unblockedTasks = 0 /\ \A u \in Threads \ {th} : stack[u] = <<>>
  BY <1>1, <1>2 DEF CInv, CheckOK
<1>4. \A u \in Threads : stack'[u] = <<>>  BY <1>1, <1>3 DEF GInv, Types
<1>5. /\ Busy({"Check"}) = {} /\ Busy({"Flush", "Check"}) = {}
      /\ Busy({"Check"})' = {} /\ Busy({"Flush", "Check"})' = {}
  BY <1>1, <1>2, <1>3, <1>4 DEF Busy
<1>6. Active' = Others(th)
  <2>1. Len(stack[th]) = 1  BY <1>1, <1>2 DEF GInv, Stacks, StackOK
  <2>2. stack' = [stack EXCEPT ![th] = Tail(@)]  BY <1>1, <2>1, LastFrame DEF GInv, Stacks
  <2> QED  BY <1>1, <2>2, PopFrame DEF GInv, Stacks
<1>7. \A v : In(v, Final) <=> In(v, Final)'
  <2>1. Top(th).pc \notin Final  BY <1>1 DEF Final
  <2> QED  BY <1>1, <1>6, <2>1, FinalSame
<1>8. /\ Blocked' = Blocked /\ Free' = Free /\ Alive' = Alive
      /\ Created' = Created /\ Resumed' = Resumed
  BY <1>1, <1>7, TasksSame
<1>9. PICK x, p : x = Amount("unblocked") /\ p = Amount("blocked")  OBVIOUS
<1>10. Amount("unblocked")' = x /\ Amount("blocked")' = p  BY <1>1, <1>9 DEF Amount
<1>11. busyThreads' = busyThreads /\ unblockedTasks' = unblockedTasks
  BY <1>1 DEF busyThreads, unblockedTasks, Unpack
<1>12. CountersExact'
  <2>1. /\ blockedTasks + Total(p, {}) = Cardinality(Blocked)
        /\ unblockedTasks + Total(x, {}) = Cardinality(Free)
        /\ busyThreads = Cardinality({})
    BY <1>5, <1>9, ExactDef DEF CInv
  <2>2. blockedTasks' = blockedTasks  BY <1>1
  <2> QED  BY <1>5, <1>8, <1>10, <1>11, <2>1, <2>2, ExactNext
<1>13. blockedTasks = Cardinality(Blocked) /\ Cardinality(Free) = 0
  <2>1. /\ blockedTasks + Total(p, {}) = Cardinality(Blocked)
        /\ unblockedTasks + Total(x, {}) = Cardinality(Free)
    BY <1>5, <1>9, ExactDef DEF CInv
  <2> QED  BY <1>3, <2>1, TotalEmpty, CountersBounds
<1>14. Free = {}
  <2>1. IsFiniteSet(Free)  BY TaskSets, SetSizes
  <2> QED  BY <1>13, <2>1, FS_EmptySet
<1>15. WaitReturns'
  <2>1. unspawned = {}
    <3>1. unspawned # {} => stack[Main] # <<>> /\ Top(Main).pc = "Spawn"  BY DEF GInv, RootsOK
    <3>2. Main \in Threads  BY InputsAssumption
    <3> QED  BY <1>1, <1>3, <3>1, <3>2
  <2>2. \A t \in Tasks : dispatched[t] = 0
    <3> SUFFICES ASSUME NEW t \in Tasks PROVE dispatched[t] = 0
      OBVIOUS
    <3>1. ~(dispatched[t] > 0)  BY <1>14, DispatchedIsFree
    <3>2. dispatched[t] \in 0 .. 1  BY DEF GInv, Types
    <3> QED  BY <3>1, <3>2
  <2> QED  BY <1>1, <1>4, <2>1, <2>2 DEF WaitReturns
<1>16. NoFalseAlarm'
  <2>1. aborted' => Blocked # {}
    <3>1. Blocked = {} => Cardinality(Blocked) = 0  BY FS_EmptySet
    <3> QED  BY <1>1, <1>13, <3>1
  <2>2. Alive = Blocked  BY <1>14, TaskSets
  <2> QED  BY <1>8, <1>15, <2>1, <2>2 DEF NoFalseAlarm
<1>17. Budget'
  <2>1. Credits' = Credits  BY <1>5, <1>9, <1>10 DEF Credits
  <2> QED  BY <1>8, <1>11, <2>1 DEF CInv, Budget
<1>18. CountersType'  BY <1>1 DEF CInv, CountersType
<1>19. CheckOK'  BY <1>4 DEF CheckOK
<1>20. NoneLost'  BY <1>1 DEF NoneLost
<1> QED  BY <1>12, <1>16, <1>17, <1>18, <1>19, <1>20 DEF CInv

\* The sums the last flush of a thread leaves are in range.
LEMMA FlushFits ==
  ASSUME CInv, NEW th \in Busy({"Check"})
  PROVE  /\ busyThreads - 1 \in Counter
         /\ unblockedTasks + local[th].unblocked \in Counter
         /\ local[th].unblocked \in Int
         /\ Positive(unblockedTasks + local[th].unblocked)
              + Cardinality(Units(Amount("unblocked"), Busy({"Check"}) \ {th}))
            <= Cardinality(Created) + Cardinality(Resumed)
         /\ unblockedTasks + local[th].unblocked
              + Total(Amount("unblocked"), Busy({"Check"}) \ {th}) = Cardinality(Free)
<1>1. PICK T \in SUBSET Threads : T = Busy({"Check"})  BY DEF Busy
<1>2. PICK x \in [Threads -> Int] : x = Amount("unblocked")
  BY AmountTypes DEF CInv
<1>3. PICK u \in Int : u = local[th].unblocked /\ u = x[th]
  BY <1>1, <1>2, AmountTypes, CountersBounds DEF CInv
<1>4. PICK rest \in Int : rest = Total(x, T \ {th})  BY <1>1, <1>2, LeaveStep
<1>5. PICK credits \in Nat : credits = Cardinality(Units(x, T \ {th}))
  BY <1>1, <1>2, LeaveStep
<1>6. /\ Total(x, T) = rest + u /\ Cardinality(Units(x, T)) = credits + Positive(u)
      /\ rest <= credits
  <2>1. /\ Total(x, T) = Total(x, T \ {th}) + x[th]
        /\ Cardinality(Units(x, T)) = Cardinality(Units(x, T \ {th})) + Positive(x[th])
        /\ Total(x, T \ {th}) <= Cardinality(Units(x, T \ {th}))
    BY <1>1, <1>2, LeaveStep
  <2> QED  BY <1>3, <1>4, <1>5, <2>1
<1>7. PICK U \in Int : U = unblockedTasks  BY CountersBounds
<1>8. U + rest + u = Cardinality(Free) /\ Cardinality(Free) \in Nat
  <2>1. U + Total(x, T) = Cardinality(Free)  BY <1>1, <1>2, <1>7, ExactDef DEF CInv
  <2> QED  BY <1>6, <2>1, TaskSets, SetSizes
<1>9. PICK most \in Nat : most = Cardinality(Created) + Cardinality(Resumed)
  BY TaskSets, SetSizes
<1>10. Positive(U) + (credits + Positive(u)) <= most
  BY <1>1, <1>2, <1>6, <1>7, <1>9 DEF CInv, Budget, Credits
<1>11. most < Bias
  <2>1. Cardinality(Created) <= Cardinality(Tasks) /\ Cardinality(Resumed) <= Cardinality(Tasks)
        /\ Cardinality(Created) \in Nat /\ Cardinality(Resumed) \in Nat
    BY TaskSets, SetSizes
  <2> QED  BY <1>9, <2>1, CountersBounds, CountersFit
<1>12. Positive(U + u) + credits <= most
  BY <1>10 DEF Positive
<1>13. U + u \in Counter
  <2>1. U + u <= most  BY <1>12 DEF Positive
  <2>2. credits <= most  BY <1>12 DEF Positive
  <2>3. U + u >= -most  BY <1>6, <1>8, <2>2
  <2> QED  BY <1>11, <2>1, <2>3, CountersFit DEF Counter
<1>14. busyThreads - 1 \in Counter
  BY CountersFit DEF Counter
<1>15. U + u + rest = Cardinality(Free)  BY <1>8
<1> QED
  BY <1>1, <1>2, <1>3, <1>4, <1>5, <1>7, <1>9, <1>12, <1>13, <1>14, <1>15

\* A thread stops being busy.  The last one that leaves an unblocked task behind
\* leaves it to the dispatcher, and the round goes on.
LEMMA FlushBusyKeepsCInv ==
  ASSUME GInv, CInv, NEW th \in Threads, FlushBusy(th)
  PROVE  CInv'
<1>1. /\ ~aborted /\ stack[th] # <<>> /\ Top(th).pc = "Flush"
      /\ packed' = AddTo(packed, -1, local[th].unblocked)
      /\ UNCHANGED <<life, numDependents, taskPhase, dispatched, local, blockedTasks, aborted>>
  BY DEF FlushBusy, At, Top, taskVars
<1>2. /\ Top(th) \in FrameRecs /\ Top(th) = stack[th][1] /\ FrameOK(Top(th))
      /\ Active = {Top(th)} \cup Others(th) /\ Len(stack[th]) \in Nat \ {0}
  BY <1>1, TopFrame, ThisTask DEF GInv, Stacks
<1>3. th \in Busy({"Check"}) /\ th \notin Busy({"Flush", "Check"})
  BY <1>1, <1>2 DEF Busy
<1>4. /\ packed' \in 0 .. Words - 1
      /\ busyThreads' = busyThreads - 1
      /\ unblockedTasks' = unblockedTasks + local[th].unblocked
  <2>1. PICK b \in Int, u \in Int : b = -1 /\ u = local[th].unblocked
    <3>1. local[th].unblocked \in Int  BY <1>3, FlushFits, Zenon
    <3>2. -1 \in Int  OBVIOUS
    <3> QED  BY <3>1, <3>2
  <2>2. busyThreads + b \in Counter /\ unblockedTasks + u \in Counter
    BY <1>3, <2>1, FlushFits, CountersBounds
  <2>3. packed' = AddTo(packed, b, u)  BY <1>1, <2>1
  <2>4. /\ packed' \in 0 .. Words - 1 /\ busyThreads' = busyThreads + b
        /\ unblockedTasks' = unblockedTasks + u
    BY <2>2, <2>3, AddKeepsType
  <2> QED  BY <2>1, <2>4, CountersBounds
\* The thread looks for blocked tasks, or is idle.
<1>5. PICK f \in FrameRecs : f = [Top(th) EXCEPT !.pc = "Check"]  BY <1>2 DEF FrameRecs, Pcs
<1>6. f.pc = "Check"  BY <1>2, <1>5 DEF FrameRecs
<1>7. \A v \in Threads \ {th} : stack'[v] = stack[v]
  BY DEF FlushBusy, Set, GInv, Types
<1>8. \/ /\ stack'[th] = <<>> /\ Active' = Others(th)
         /\ ~(busyThreads' = 0 /\ unblockedTasks' = 0)
      \/ /\ stack'[th] # <<>> /\ stack'[th][1] = f /\ Active' = {f} \cup Others(th)
         /\ busyThreads' = 0 /\ unblockedTasks' = 0
  <2>1. CASE busyThreads' = 0 /\ unblockedTasks' = 0
    <3>1. Set(th, f)  BY <1>5, <2>1 DEF FlushBusy
    <3>2. /\ Active' = {f} \cup Others(th) /\ stack'[th] # <<>> /\ StackType' /\ Top(th)' = f
      BY <1>1, <3>1, SetFrame DEF GInv, Stacks
    <3> QED  BY <2>1, <3>2 DEF Top, StackType
  <2>2. CASE ~(busyThreads' = 0 /\ unblockedTasks' = 0)
    <3>1. stack' = [stack EXCEPT ![th] = <<>>]  BY <2>2 DEF FlushBusy
    <3>2. Len(stack[th]) = 1  BY <1>1, <1>2 DEF GInv, Stacks, StackOK
    <3>3. stack' = [stack EXCEPT ![th] = Tail(@)]  BY <3>1, <3>2, LastFrame DEF GInv, Stacks
    <3>4. Active' = Others(th)  BY <1>1, <3>3, PopFrame DEF GInv, Stacks
    <3> QED  BY <2>2, <3>1, <3>4 DEF GInv, Types
  <2> QED  BY <2>1, <2>2
<1>9. \A v : In(v, Final) <=> In(v, Final)'
  <2>1. f.pc \notin Final /\ Top(th).pc \notin Final  BY <1>1, <1>6 DEF Final
  <2> QED  BY <1>1, <1>8, <2>1, FinalSame
<1>10. Blocked' = Blocked /\ Free' = Free /\ Created' = Created /\ Resumed' = Resumed
  BY <1>1, <1>9, TasksSame
<1>11. PICK T \in SUBSET Threads, F \in SUBSET Threads :
         T = Busy({"Check"}) /\ F = Busy({"Flush", "Check"})
  BY DEF Busy
<1>12. Busy({"Check"})' = T \ {th} /\ Busy({"Flush", "Check"})' = F
  <2>1. th \notin Busy({"Check"})' /\ th \notin Busy({"Flush", "Check"})'
    BY <1>6, <1>8 DEF Busy
  <2>2. \A v \in Threads \ {th} : /\ v \in Busy({"Check"})' <=> v \in T
                                  /\ v \in Busy({"Flush", "Check"})' <=> v \in F
    BY <1>7, <1>11 DEF Busy
  <2>3. Busy({"Check"})' \subseteq Threads /\ Busy({"Flush", "Check"})' \subseteq Threads
    BY DEF Busy
  <2> QED  BY <1>3, <1>11, <2>1, <2>2, <2>3
<1>13. PICK x, p : x = Amount("unblocked") /\ p = Amount("blocked")  OBVIOUS
<1>14. Amount("unblocked")' = x /\ Amount("blocked")' = p  BY <1>1, <1>13 DEF Amount
<1>15. busyThreads' = Cardinality(T \ {th})
  <2>1. IsFiniteSet(T) /\ Cardinality(T) \in Nat  BY <1>11, SetSizes
  <2>2. Cardinality(T \ {th}) = Cardinality(T) - 1  BY <1>3, <1>11, <2>1, FS_RemoveElement
  <2>3. busyThreads = Cardinality(T)  BY <1>11, ExactDef DEF CInv
  <2> QED  BY <1>4, <2>1, <2>2, <2>3
<1>16. unblockedTasks' + Total(x, T \ {th}) = Cardinality(Free)
  BY <1>3, <1>4, <1>11, <1>13, FlushFits
<1>17. CountersExact'
  <2>1. blockedTasks' + Total(p, F) = Cardinality(Blocked)
    BY <1>1, <1>11, <1>13, ExactDef DEF CInv
  <2> QED  BY <1>10, <1>12, <1>14, <1>15, <1>16, <2>1, ExactNext
<1>18. Budget'
  <2>1. Credits' = Cardinality(Units(x, T \ {th}))  BY <1>12, <1>14 DEF Credits
  <2> QED  BY <1>3, <1>4, <1>10, <1>11, <1>13, <2>1, FlushFits DEF Budget
<1>19. CountersType'  BY <1>1, <1>4 DEF CInv, CountersType
<1>20. NoFalseAlarm'  BY <1>1 DEF NoFalseAlarm
<1>21. busyThreads' = 0 => T \ {th} = {}
  <2>1. IsFiniteSet(T \ {th})  BY <1>11, SetSizes, FS_RemoveElement
  <2> QED  BY <1>15, <2>1, FS_EmptySet
<1>22. CheckOK'
  <2> SUFFICES ASSUME NEW v \in Threads, stack'[v] # <<>>, stack'[v][1].pc = "Check"
               PROVE  unblockedTasks' = 0 /\ \A u \in Threads \ {v} : stack'[u] = <<>>
    BY DEF CheckOK
  <2>1. ASSUME NEW u \in Threads \ {th}, stack[u] # <<>>, stack[u][1].pc = "Check" PROVE FALSE
    BY <1>1, <2>1 DEF CInv, CheckOK
  <2>2. v = th  BY <1>7, <2>1
  <2>3. busyThreads' = 0 /\ unblockedTasks' = 0  BY <1>8, <2>2
  <2>4. ASSUME NEW u \in Threads \ {th}, stack[u] # <<>> PROVE FALSE
    <3>1. u \in T  BY <1>11, <2>1, <2>4 DEF Busy
    <3> QED  BY <1>21, <2>3, <3>1
  <2> QED  BY <1>7, <2>2, <2>3, <2>4
<1>23. NoneLost'
  <2> SUFFICES ASSUME WaitReturns' PROVE FALSE
    BY DEF NoneLost
  <2>1. \A u \in Threads : stack'[u] = <<>>  BY DEF WaitReturns
  <2>2. Active' = {}
    <3>1. \A u \in Threads : 1 .. Len(stack'[u]) = {}  BY <2>1
    <3> QED  BY <3>1 DEF Active
  <2>3. T \ {th} = {}  BY <1>12, <2>1 DEF Busy
  <2>4. busyThreads' = 0  BY <1>15, <2>3, FS_EmptySet
  <2>5. unblockedTasks' # 0  BY <1>8, <2>1, <2>4
  <2>6. unblockedTasks' = Cardinality(Free)
    <3>1. unblockedTasks' + Total(x, {}) = Cardinality(Free)  BY <1>16, <2>3
    <3>2. unblockedTasks' \in Int  BY <1>3, <1>4, CountersBounds, FlushFits
    <3> QED  BY <3>1, <3>2, TotalEmpty
  <2>7. PICK t : t \in Free  BY <2>5, <2>6, FS_EmptySet
  <2>8. t \in Tasks /\ Handled(t)  BY <2>7, FreeIsHandled
  <2>9. ~(dispatched[t] > 0)  BY <1>1, <2>8 DEF WaitReturns
  <2>10. PICK g \in Active : g \in Handles(t)  BY <2>8, <2>9 DEF Handled
  <2>11. g = Top(th)  BY <1>2, <1>8, <2>1, <2>2, <2>10
  <2>12. Top(th).next = t  BY <1>1, <2>10, <2>11 DEF Handles
  <2>13. t # None  BY <2>8, TypeFacts
  <2> QED  BY <1>1, <1>2, <2>12, <2>13 DEF FrameOK
<1> QED  BY <1>17, <1>18, <1>19, <1>20, <1>22, <1>23 DEF CInv

-----------------------------------------------------------------------------
(* The invariant, and the properties.                                      *)

\* The main thread is busy, and has counted nothing.
LEMMA InitCounts ==
  ASSUME Init
  PROVE  CInv
<1>1. /\ life = [t \in Tasks |-> "Absent"] /\ local = [th \in Threads |-> Zero]
      /\ packed = AddTo(PackedZero, 1, 0) /\ blockedTasks = 0 /\ aborted = FALSE
      /\ stack = [th \in Threads |-> IF th = Main
                                     THEN <<[Frame(None, 0) EXCEPT !.pc = "Spawn"]>> ELSE <<>>]
  BY DEF Init
<1>2. Main \in Threads /\ Bias \in Nat /\ Bias > 1
  <2>1. Main \in Threads  BY InputsAssumption
  <2>2. Cardinality({Main}) = 1 /\ Cardinality({Main}) <= Cardinality(Threads)
    BY <2>1, CountersAssumption, FS_Subset, FS_Singleton
  <2>3. Cardinality(Threads) \in Nat /\ Cardinality(Threads) < Bias
    BY CountersAssumption, FS_CardinalityType
  <2> QED  BY <2>1, <2>2, <2>3, BiasAssumption
<1>3. /\ stack[Main] # <<>> /\ stack[Main][1].pc = "Spawn"
      /\ \A th \in Threads \ {Main} : stack[th] = <<>>
  BY <1>1, <1>2 DEF Frame
<1>4. Busy({"Check"}) = {Main} /\ Busy({"Flush", "Check"}) = {Main}
  BY <1>2, <1>3 DEF Busy
<1>5. packed \in 0 .. Words - 1 /\ busyThreads = 1 /\ unblockedTasks = 0
  <2>1. PICK zero \in Int : zero = Bias * Half + Bias  BY <1>2, HalfIsPositive
  <2>2. Bias \in 0 .. Half - 1  BY <1>2 DEF Half
  <2>3. zero \div Half = Bias /\ zero % Half = Bias
    BY <1>2, <2>1, <2>2, HalfIsPositive, Division
  <2>4. zero \in 0 .. Words - 1
    <3>1. Bias * Half >= 0 /\ Bias * Half <= (Half - 1) * Half
      BY <1>2, <2>2, HalfIsPositive
    <3>2. (Half - 1) * Half = Words - Half  BY HalfIsPositive DEF Words
    <3> QED  BY <1>2, <2>1, <2>2, <3>1, <3>2, HalfIsPositive
  <2>5. Unpack(zero) = <<0, 0>>  BY <1>2, <2>3 DEF Unpack
  <2>6. Unpack(zero)[1] + 1 \in Counter /\ Unpack(zero)[2] + 0 \in Counter
    BY <1>2, <2>5 DEF Counter
  <2>7. AddTo(zero, 1, 0) \in 0 .. Words - 1 /\ Unpack(AddTo(zero, 1, 0)) = <<1, 0>>
    <3>1. 1 \in Int /\ 0 \in Int  OBVIOUS
    <3>2. /\ AddTo(zero, 1, 0) \in 0 .. Words - 1
          /\ Unpack(AddTo(zero, 1, 0)) = <<Unpack(zero)[1] + 1, Unpack(zero)[2] + 0>>
      BY <2>4, <2>6, <3>1, AddIsExact, Zenon
    <3> QED  BY <2>5, <3>2
  <2>8. packed = AddTo(zero, 1, 0)  BY <1>1, <2>1 DEF PackedZero
  <2> QED  BY <2>7, <2>8 DEF busyThreads, unblockedTasks
<1>6. CountersType
  <2>1. Zero \in [blocked : Int, unblocked : Int]  BY DEF Zero
  <2>2. local \in [Threads -> [blocked : Int, unblocked : Int]]  BY <1>1, <2>1
  <2>3. blockedTasks \in Int  BY <1>1
  <2>5. aborted \in BOOLEAN
    <3>1. aborted = FALSE  BY DEF Init
    <3> QED  BY <3>1, Zenon
  <2>4. packed \in 0 .. Words - 1  BY <1>5
  <2> QED  BY <2>2, <2>3, <2>4, <2>5, Zenon DEF CountersType
<1>7. PICK x, p : x = Amount("unblocked") /\ p = Amount("blocked")  OBVIOUS
<1>8. Total(x, {Main}) = 0 /\ Total(p, {Main}) = 0 /\ Cardinality(Units(x, {Main})) = 0
  <2>1. /\ x \in [Threads -> Int] /\ x[Main] = 0
        /\ p \in [Threads -> Int] /\ p[Main] = 0
    BY <1>1, <1>2, <1>6, <1>7, AmountTypes DEF Zero
  <2>2. {Main} \in SUBSET Threads /\ Main \in {Main} /\ {Main} \ {Main} = {}  BY <1>2
  <2>3. /\ Total(x, {Main}) = Total(x, {}) + x[Main] /\ Total(p, {Main}) = Total(p, {}) + p[Main]
        /\ Cardinality(Units(x, {Main})) = Cardinality(Units(x, {})) + Positive(x[Main])
    BY <2>1, <2>2, LeaveStep
  <2> QED  BY <2>1, <2>3, TotalEmpty DEF Positive
<1>9. Alive = {} /\ Blocked = {} /\ Free = {}
  BY <1>1 DEF Alive, Blocked, Free
<1>10. CountersExact
  <2>1. Cardinality({}) = 0 /\ Cardinality({Main}) = 1  BY FS_EmptySet, FS_Singleton
  <2>2. /\ blockedTasks + Total(p, {Main}) = Cardinality(Blocked)
        /\ unblockedTasks + Total(x, {Main}) = Cardinality(Free)
        /\ busyThreads = Cardinality({Main})
    BY <1>1, <1>5, <1>8, <1>9, <2>1
  <2> QED  BY <1>4, <1>7, <2>2, ExactDef
<1>11. Budget
  <2>1. Credits = 0  BY <1>4, <1>7, <1>8 DEF Credits
  <2>2. Cardinality(Created) \in Nat /\ Cardinality(Resumed) \in Nat  BY TaskSets, SetSizes
  <2> QED  BY <1>5, <2>1, <2>2 DEF Budget, Positive
<1>12. NoFalseAlarm  BY <1>1 DEF NoFalseAlarm
<1>13. CheckOK  BY <1>2, <1>3 DEF CheckOK
<1>14. NoneLost  BY <1>1 DEF NoneLost
<1> QED  BY <1>6, <1>10, <1>11, <1>12, <1>13, <1>14 DEF CInv

\* A step that changes nothing.
LEMMA CInvStutters ==
  ASSUME CInv, UNCHANGED vars
  PROVE  CInv'
<1>1. UNCHANGED <<life, numDependents, taskPhase, dispatched, unspawned, stack, local, packed,
                  blockedTasks, aborted>>
  BY DEF vars, taskVars, sharedVars
<1>2. busyThreads' = busyThreads /\ unblockedTasks' = unblockedTasks
  BY <1>1 DEF busyThreads, unblockedTasks, Unpack
<1>3. Active' = Active  BY <1>1 DEF Active
<1>4. \A v : In(v, Final) <=> In(v, Final)'  BY <1>3 DEF In
<1>5. /\ Blocked' = Blocked /\ Free' = Free /\ Alive' = Alive
      /\ Created' = Created /\ Resumed' = Resumed
  BY <1>1, <1>4, TasksSame
<1>6. /\ Amount("unblocked")' = Amount("unblocked") /\ Amount("blocked")' = Amount("blocked")
      /\ \A pcs : Busy(pcs)' = Busy(pcs)
  BY <1>1 DEF Amount, Busy
<1>7. PICK x, p : x = Amount("unblocked") /\ p = Amount("blocked")  OBVIOUS
<1>8. PICK T, F : T = Busy({"Check"}) /\ F = Busy({"Flush", "Check"})  OBVIOUS
<1>9. CountersExact'
  <2>1. /\ blockedTasks + Total(p, F) = Cardinality(Blocked)
        /\ unblockedTasks + Total(x, T) = Cardinality(Free)
        /\ busyThreads = Cardinality(T)
    BY <1>7, <1>8, ExactDef DEF CInv
  <2>2. /\ Amount("unblocked")' = x /\ Amount("blocked")' = p
        /\ Busy({"Check"})' = T /\ Busy({"Flush", "Check"})' = F
        /\ blockedTasks' = blockedTasks
    BY <1>1, <1>6, <1>7, <1>8
  <2> QED  BY <1>2, <1>5, <2>1, <2>2, ExactNext
<1>10. Budget'
  <2>1. Credits' = Credits  BY <1>6, <1>7, <1>8 DEF Credits
  <2> QED  BY <1>2, <1>5, <2>1 DEF CInv, Budget
<1>11. CountersType'  BY <1>1 DEF CInv, CountersType
<1>12. WaitReturns' <=> WaitReturns  BY <1>1 DEF WaitReturns
<1>13. NoFalseAlarm' /\ NoneLost'  BY <1>1, <1>5, <1>12 DEF CInv, NoFalseAlarm, NoneLost
<1>14. CheckOK'  BY <1>1, <1>2 DEF CInv, CheckOK
<1> QED  BY <1>9, <1>10, <1>11, <1>13, <1>14 DEF CInv

\* Every step keeps the counters right.
LEMMA NextKeepsCInv ==
  ASSUME GInv, CInv, Next
  PROVE  CInv'
<1>1. ASSUME NEW th \in Threads, Step(th) PROVE CInv'
  <2>1. CASE Enter(th)  BY <2>1, EnterKeepsCInv
  <2>2. CASE ResolveInput(th)  BY <2>2, ResolveInputKeepsCInv
  <2>3. CASE Available(th) \/ CompileNode(th) \/ MarkDone(th)  BY <2>3, CodeKeepsCInv
  <2>4. CASE Wait(th)  BY <2>4, WaitKeepsCInv
  <2>5. CASE Claim(th)  BY <2>5, ClaimKeepsCInv
  <2>6. CASE EndPhase(th)  BY <2>6, EndPhaseKeepsCInv
  <2>7. CASE RunSubtask(th)  BY <2>7, RunSubtaskKeepsCInv
  <2>8. CASE Suspend(th)  BY <2>8, SuspendKeepsCInv
  <2>9. CASE Notify(th)
    <3>1. CASE Top(th).list = <<>>  BY <2>9, <3>1, CodeKeepsCInv
    <3>2. CASE Top(th).list # <<>>  BY <2>9, <3>2, NotifyOneKeepsCInv
    <3> QED  BY <3>1, <3>2
  <2>10. CASE Complete(th)
    <3>1. CASE parent[This(th)] = None  BY <2>10, <3>1, CodeKeepsCInv
    <3>2. CASE parent[This(th)] # None  BY <2>10, <3>2, CompleteSubtaskKeepsCInv
    <3> QED  BY <3>1, <3>2
  <2>11. CASE Destroy(th)  BY <2>11, DestroyKeepsCInv
  <2>12. CASE EndNested(th)  BY <2>12, EndNestedKeepsCInv
  <2>13. CASE FlushBlocked(th)  BY <2>13, FlushBlockedKeepsCInv
  <2>14. CASE FlushBusy(th)  BY <2>14, FlushBusyKeepsCInv
  <2>15. CASE Check(th)  BY <2>15, CheckKeepsCInv
  <2> QED
    BY <1>1, <2>1, <2>2, <2>3, <2>4, <2>5, <2>6, <2>7, <2>8, <2>9, <2>10, <2>11, <2>12, <2>13,
       <2>14, <2>15 DEF Step
<1>2. CASE Spawning  BY <1>2, SpawnEndKeepsCInv, SpawnKeepsCInv DEF Spawning
<1>3. CASE Starting  BY <1>3, StartKeepsCInv DEF Starting
<1>4. CASE Terminated  BY <1>4, CInvStutters DEF Terminated
<1> QED  BY <1>1, <1>2, <1>3, <1>4 DEF Next

\* The two invariants together are inductive: with what the threads have not
\* flushed, the shared counters are those of the task graph, and neither half of
\* the packed word runs over into the other.
THEOREM CounterInvariant == Spec => [](GInv /\ CInv)
<1>1. Init => GInv /\ CInv  BY InitEstablishes, InitCounts
<1>2. GInv /\ CInv /\ [Next]_vars => GInv' /\ CInv'
  BY NextKeepsGInv, NextKeepsCInv, Stutters, CInvStutters
<1> QED  BY <1>1, <1>2, PTL DEF Spec

\* What the counters say is what there is, whichever threads saw it happen.
THEOREM DetectorCountsRight == Spec => []CountersExact
<1>1. GInv /\ CInv => CountersExact  BY DEF CInv
<1> QED  BY <1>1, CounterInvariant, PTL

\* EndThreadBusy ends the process only when no thread runs, nothing is
\* dispatched and every task that is left waits.
THEOREM AlarmIsJustified == Spec => []NoFalseAlarm
<1>1. GInv /\ CInv => NoFalseAlarm  BY DEF CInv
<1> QED  BY <1>1, CounterInvariant, PTL

\* With all stacks empty nothing is unflushed, and an unblocked task would be
\* dispatched.
LEMMA NoSilentLossHolds ==
  ASSUME GInv, CInv
  PROVE  NoSilentLoss
<1> SUFFICES ASSUME WaitReturns, ~aborted
             PROVE  Alive = {} /\ busyThreads = 0 /\ unblockedTasks = 0 /\ blockedTasks = 0
  BY DEF NoSilentLoss
<1>1. \A th \in Threads : stack[th] = <<>>  BY DEF WaitReturns
<1>2. Busy({"Check"}) = {} /\ Busy({"Flush", "Check"}) = {}  BY <1>1 DEF Busy
<1>3. blockedTasks = 0  BY DEF CInv, NoneLost
<1>4. PICK x, p : x = Amount("unblocked") /\ p = Amount("blocked")  OBVIOUS
<1>5. /\ blockedTasks + Total(p, {}) = Cardinality(Blocked)
      /\ unblockedTasks + Total(x, {}) = Cardinality(Free)
      /\ busyThreads = Cardinality({})
  BY <1>2, <1>4, ExactDef DEF CInv
<1>6. Blocked = {}
  <2>1. Cardinality(Blocked) = 0  BY <1>3, <1>5, TotalEmpty
  <2>2. IsFiniteSet(Blocked)  BY TaskSets, SetSizes
  <2> QED  BY <2>1, <2>2, FS_EmptySet
<1>7. Free = {}
  <2> SUFFICES ASSUME NEW t \in Free PROVE FALSE
    OBVIOUS
  <2>1. t \in Tasks /\ Handled(t)  BY FreeIsHandled
  <2>2. Active = {}
    <3>1. \A u \in Threads : 1 .. Len(stack[u]) = {}  BY <1>1
    <3> QED  BY <3>1 DEF Active
  <2> QED  BY <2>1, <2>2 DEF Handled, WaitReturns
<1>8. unblockedTasks = 0 /\ busyThreads = 0
  BY <1>5, <1>7, TotalEmpty, FS_EmptySet, CountersBounds
<1> QED  BY <1>3, <1>6, <1>7, <1>8, TaskSets

\* A round that the process survives has completed every task.
THEOREM RoundsLoseNothing == Spec => []NoSilentLoss
<1>1. GInv /\ CInv => NoSilentLoss  BY NoSilentLossHolds
<1> QED  BY <1>1, CounterInvariant, PTL

\* The count of dependencies is their number, and so is the one of busy threads.
LEMMA TypeHolds ==
  ASSUME GInv, CInv
  PROVE  TypeOK
<1>1. numDependents \in [Tasks -> Nat]
  <2>1. \A t \in Tasks : numDependents[t] \in Nat  BY CountIs DEF GInv, Counts
  <2> QED  BY <2>1 DEF GInv, Types
<1>2. ASSUME NEW th \in Threads
      PROVE  /\ Len(stack[th]) <= MaxDepth + 1
             /\ \A j \in DOMAIN stack[th] : stack[th][j].pc \in Pcs
  <2>1. stack[th] \in Seq(FrameRecs) /\ StackOK(th)  BY DEF GInv, Stacks, StackType
  <2>2. \A j \in DOMAIN stack[th] : stack[th][j] \in FrameRecs  BY <2>1
  <2> QED  BY <2>1, <2>2 DEF StackOK, FrameRecs
<1>3. busyThreads \in 0 .. Cardinality(Threads)
  BY SetSizes, ExactDef DEF CInv
<1> QED  BY <1>1, <1>2, <1>3 DEF TypeOK, GInv, Types, CInv, CountersType

\* No counter of a task or of the detector runs below zero, and the recursion of
\* _RunOrInvoke stays within MaxDepth.
THEOREM TypeCorrect == Spec => []TypeOK
<1>1. GInv /\ CInv => TypeOK  BY TypeHolds
<1> QED  BY <1>1, CounterInvariant, PTL

\* A key whose node was null leaves the tasks on its waiting list.
FailedKeyLeftWaiters ==
  \E k \in Keys \cap Failing : life[k] = "Deleted" /\ waiting[k] # <<>>

\* No frame is left, so that each dependency of a blocked task is a subtask or a
\* place on the waiting list of a key whose task is alive, and blocked too.
LEMMA AlarmMeansCycleHolds ==
  ASSUME GInv, CInv
  PROVE  AbortMeansCycle \/ FailedKeyLeftWaiters
<1> SUFFICES ASSUME aborted, ~FailedKeyLeftWaiters
             PROVE  \E S \in SUBSET Blocked \ {{}} : \A t \in S : \E u \in S : WaitsFor(t, u)
  BY DEF AbortMeansCycle
<1>1. WaitReturns /\ Blocked # {} /\ Alive = Blocked  BY DEF CInv, NoFalseAlarm
<1>2. Active = {}
  <2>1. \A u \in Threads : 1 .. Len(stack[u]) = {}  BY <1>1 DEF WaitReturns
  <2> QED  BY <2>1 DEF Active
<1>3. ASSUME NEW t \in Blocked PROVE \E u \in Blocked : WaitsFor(t, u)
  <2>1. t \in Tasks /\ numDependents[t] > 0  BY TaskSets
  <2>2. Deps(t) # {}  BY <2>1, CountIs DEF GInv, Counts
  <2>3. PICK u \in Tasks, n \in Int : Depends(t, u, n)
    <3>1. PICK e : e \in Deps(t)  BY <2>2
    <3> QED  BY <3>1, DepsDef
  <2>4. n # -1 /\ ~In(u, {"Destroy"})  BY <1>2, <2>3 DEF Depends, In
  <2>5. CASE n = 0
    <3>1. life[u] = "Alive" /\ parent[u] = t  BY <2>3, <2>5 DEF Depends, Child
    <3>2. u \in Alive  BY <3>1 DEF Alive
    <3> QED  BY <1>1, <3>1, <3>2 DEF WaitsFor
  <2>6. CASE n > 0
    <3>1. u \in Keys /\ AtEnd(waiting[u], n, t)
      BY <1>2, <2>3, <2>6 DEF Depends, Entry
    <3>2. waiting[u] \in Seq(InputTasks)  BY <3>1 DEF GInv, Types
    <3>3. PICK j \in DOMAIN waiting[u] : waiting[u][j] = t
      <4>1. PICK m \in Nat : m = Len(waiting[u])  BY <3>2
      <4>2. m + 1 - n \in 1 .. m /\ waiting[u][m + 1 - n] = t  BY <3>1, <4>1 DEF AtEnd
      <4>3. DOMAIN waiting[u] = 1 .. m  BY <3>2, <4>1
      <4> QED  BY <4>2, <4>3
    <3>4. waiting[u] # <<>>  BY <3>2, <3>3
    <3>5. KeyOK(u)  BY <3>1 DEF GInv, KeysOK
    <3>6. life[u] # "Absent" /\ life[u] # "Deleted"
      <4>1. claimed[u] = "Claimed"  BY <3>4, <3>5 DEF KeyOK
      <4>2. life[u] = "Deleted" => u \in Failing  BY <3>5, <4>1 DEF KeyOK
      <4> QED  BY <3>1, <3>4, <3>5, <4>1, <4>2 DEF KeyOK, FailedKeyLeftWaiters
    <3>7. life[u] = "Alive"  BY <2>3, <3>6 DEF GInv, Types
    <3>8. u \in Blocked  BY <1>1, <2>3, <3>7 DEF Alive
    <3> QED  BY <3>1, <3>3, <3>8 DEF WaitsFor
  <2> QED  BY <2>3, <2>4, <2>5, <2>6 DEF Depends
<1> QED  BY <1>1, <1>3

\* When EndThreadBusy ends the process, some of the blocked tasks wait for each
\* other, as taskCycleDetector.h says, or a null node kept a key from being
\* marked done: there is no other way.
THEOREM AlarmMeansCycle == Spec => [](AbortMeansCycle \/ FailedKeyLeftWaiters)
<1>1. GInv /\ CInv => AbortMeansCycle \/ FailedKeyLeftWaiters  BY AlarmMeansCycleHolds
<1> QED  BY <1>1, CounterInvariant, PTL

\* As long as every node is compiled, an ended process had a cycle.
THEOREM AlarmsAreCycles ==
  ASSUME Failing = {}
  PROVE  Spec => []AbortMeansCycle
<1>1. GInv /\ CInv => AbortMeansCycle  BY AlarmMeansCycleHolds DEF FailedKeyLeftWaiters
<1> QED  BY <1>1, CounterInvariant, PTL
=============================================================================
