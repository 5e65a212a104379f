--------------------------- MODULE LogWatchProofs ---------------------------
(***************************************************************************)
(* What `logs-watch' prints of a log that is not longer than a page, for   *)
(* pages of any size and logs of any length: each entry of the plugin's    *)
(* once, in order, and none left out when a tick is done.                  *)
(***************************************************************************)
EXTENDS LogWatch, FiniteSetTheorems, FunctionTheorems, SequenceTheorems, TLAPS

(* Sequences in order *)

Increasing(s) == \A j, k \in 1..Len(s) : j < k => s[j] < s[k]

\* How many elements of S are not greater than x: x's place in order.
Rank(S, x) == Cardinality({ y \in S : y <= x })

LEMMA RankType ==
    ASSUME NEW S \in SUBSET Nat, IsFiniteSet(S), NEW x \in S
    PROVE  Rank(S, x) \in 1..Cardinality(S)
<1> DEFINE T == { y \in S : y <= x }
<1>1. /\ IsFiniteSet(T)
      /\ Cardinality(T) <= Cardinality(S)
  BY FS_Subset, T \in SUBSET S
<1>2. Cardinality(T) \in Nat /\ Cardinality(S) \in Nat
  BY <1>1, FS_CardinalityType
<1>3. x \in T
  OBVIOUS
<1>4. Cardinality(T) # 0
  BY <1>1, <1>3, FS_EmptySet
<1> QED
  BY <1>1, <1>2, <1>4 DEF Rank

LEMMA RankMonotone ==
    ASSUME NEW S \in SUBSET Nat, IsFiniteSet(S), NEW x \in S, NEW y \in S, x < y
    PROVE  Rank(S, x) < Rank(S, y)
<1> DEFINE T(z) == { w \in S : w <= z }
<1>1. IsFiniteSet(T(y))
  BY FS_Subset, T(y) \in SUBSET S
<1>2. T(x) \in SUBSET T(y)
  <2>1. ASSUME NEW w \in S, w <= x
        PROVE  w <= y
    <3>1. w \in Nat /\ x \in Nat /\ y \in Nat
      OBVIOUS
    <3> QED
      BY <2>1, <3>1
  <2> QED
    BY <2>1
<1>3. T(x) # T(y)
  <2>1. y \in T(y) /\ y \notin T(x)
    OBVIOUS
  <2> QED
    BY <2>1
<1>4. /\ IsFiniteSet(T(x))
      /\ Cardinality(T(x)) <= Cardinality(T(y))
      /\ Cardinality(T(y)) = Cardinality(T(x)) => T(y) = T(x)
  BY <1>1, <1>2, FS_Subset
<1>5. Cardinality(T(x)) \in Nat /\ Cardinality(T(y)) \in Nat
  BY <1>1, <1>4, FS_CardinalityType
<1>6. Cardinality(T(x)) < Cardinality(T(y))
  BY <1>3, <1>4, <1>5
<1> QED
  BY <1>6 DEF Rank

\* A finite set of numbers can be put in order: the element of each place is
\* the one of that rank, and a place that no element had would leave two
\* elements with one place.
LEMMA InOrderExists ==
    ASSUME NEW S \in SUBSET Nat, IsFiniteSet(S)
    PROVE  \E s \in [1..Cardinality(S) -> S] :
              \A j, k \in 1..Cardinality(S) : j < k => s[j] < s[k]
<1> DEFINE n == Cardinality(S)
           f == [x \in S |-> Rank(S, x)]
<1>1. n \in Nat
  BY FS_CardinalityType
<1>2. f \in Injection(S, 1..n)
  <2>1. f \in [S -> 1..n]
    BY RankType
  <2>2. ASSUME NEW x \in S, NEW y \in S, f[x] = f[y]
        PROVE  x = y
    <3>1. \A z \in S : Rank(S, z) \in Nat
      BY <1>1, RankType
    <3>2. ~ (x < y) /\ ~ (y < x)
      BY <2>2, <3>1, RankMonotone
    <3> QED
      BY <3>2
  <2> QED
    BY <2>1, <2>2 DEF Injection, IsInjective
<1>3. f \in Surjection(S, 1..n)
  <2>1. IsFiniteSet(1..n) /\ Cardinality(1..n) = n
    BY <1>1, FS_Interval
  <2> QED
    BY <1>2, <2>1, FS_Injection
<1>4. \A k \in 1..n : \E x \in S : f[x] = k
  BY <1>3 DEF Surjection
<1> DEFINE s == [k \in 1..n |-> CHOOSE x \in S : f[x] = k]
<1>5. \A k \in 1..n : s[k] \in S /\ Rank(S, s[k]) = k
  BY <1>4
<1>6. s \in [1..n -> S]
  BY <1>5
<1> HIDE DEF n, s
<1>7. ASSUME NEW j \in 1..n, NEW k \in 1..n, j < k
      PROVE  s[j] < s[k]
  <2>0. s[j] \in Nat /\ s[k] \in Nat /\ j \in Nat /\ k \in Nat
    <3>1. s[j] \in S /\ s[k] \in S
      BY <1>5
    <3>2. j \in Nat /\ k \in Nat
      BY <1>1
    <3> QED
      BY <3>1, <3>2
  <2>1. ~ (s[k] < s[j])
    <3>1. s[k] < s[j] => Rank(S, s[k]) < Rank(S, s[j])
      BY <1>5, RankMonotone
    <3> QED
      BY <1>5, <1>7, <2>0, <3>1
  <2>2. s[k] # s[j]
    BY <1>5, <1>7, <2>0
  <2> QED
    BY <2>0, <2>1, <2>2
<1> QED
  BY <1>6, <1>7 DEF n

\* InOrder(S) has all of S and nothing else, the smallest first.
LEMMA InOrderProperties ==
    ASSUME NEW S \in SUBSET Nat, IsFiniteSet(S)
    PROVE  /\ InOrder(S) \in Seq(S)
           /\ Len(InOrder(S)) = Cardinality(S)
           /\ Increasing(InOrder(S))
           /\ \A x \in S : Contains(InOrder(S), x)
<1> DEFINE n == Cardinality(S)
           s == InOrder(S)
<1>1. n \in Nat
  BY FS_CardinalityType
<1>2. /\ s \in [1..n -> S]
      /\ \A j, k \in 1..n : j < k => s[j] < s[k]
  BY InOrderExists DEF InOrder
<1> HIDE DEF s
<1>3. s \in Seq(S) /\ Len(s) = n
  BY <1>1, <1>2
<1>4. s \in Injection(1..n, S)
  <2>1. ASSUME NEW j \in 1..n, NEW k \in 1..n, s[j] = s[k]
        PROVE  j = k
    <3>1. s[j] \in Nat /\ s[k] \in Nat
      BY <1>2
    <3>2. ~ (j < k) /\ ~ (k < j)
      BY <1>2, <2>1, <3>1
    <3> QED
      BY <1>1, <3>2
  <2> QED
    BY <1>2, <2>1 DEF Injection, IsInjective
<1>5. s \in Surjection(1..n, S)
  <2>1. IsFiniteSet(1..n) /\ Cardinality(1..n) = n
    BY <1>1, FS_Interval
  <2> QED
    BY <1>4, <2>1, FS_Injection
<1>6. \A x \in S : \E k \in 1..n : s[k] = x
  BY <1>5 DEF Surjection
<1> QED
  BY <1>2, <1>3, <1>6 DEF s, Increasing, Contains

LEMMA LastOfIncreasing ==
    ASSUME NEW S \in SUBSET Nat, NEW s \in Seq(S), s # <<>>, Increasing(s)
    PROVE  /\ Last(s) \in S /\ Contains(s, Last(s))
           /\ \A x : Contains(s, x) => x \in S /\ x <= Last(s)
<1>1. Len(s) \in Nat \ {0} /\ \A k \in 1..Len(s) : s[k] \in S
  OBVIOUS
<1>2. Last(s) \in S /\ Contains(s, Last(s))
  BY <1>1 DEF Last, Contains
<1>3. ASSUME NEW k \in 1..Len(s)
      PROVE  s[k] <= s[Len(s)]
  <2>1. s[k] \in Nat /\ s[Len(s)] \in Nat
    <3>1. s[k] \in S /\ s[Len(s)] \in S
      BY <1>1
    <3> QED
      BY <3>1
  <2>2. k < Len(s) => s[k] < s[Len(s)]
    BY <1>1 DEF Increasing
  <2> QED
    BY <1>1, <2>1, <2>2
<1> QED
  BY <1>1, <1>2, <1>3 DEF Last, Contains

LEMMA ConcatContains ==
    ASSUME NEW S, NEW s \in Seq(S), NEW t \in Seq(S)
    PROVE  \A x : Contains(s \o t, x) <=> Contains(s, x) \/ Contains(t, x)
<1>1. /\ Len(s) \in Nat /\ Len(t) \in Nat
      /\ Len(s \o t) = Len(s) + Len(t)
      /\ \A k \in 1..Len(s) : (s \o t)[k] = s[k]
      /\ \A k \in 1..Len(t) : (s \o t)[Len(s) + k] = t[k]
  OBVIOUS
<1> SUFFICES ASSUME NEW x
             PROVE  Contains(s \o t, x) <=> Contains(s, x) \/ Contains(t, x)
  OBVIOUS
<1>2. Contains(s, x) => Contains(s \o t, x)
  BY <1>1 DEF Contains
<1>3. Contains(t, x) => Contains(s \o t, x)
  <2> SUFFICES ASSUME NEW k \in 1..Len(t), t[k] = x
               PROVE  Contains(s \o t, x)
    BY DEF Contains
  <2>1. Len(s) + k \in 1..Len(s \o t)
    BY <1>1
  <2> QED
    BY <1>1, <2>1 DEF Contains
<1>4. ASSUME Contains(s \o t, x)
      PROVE  Contains(s, x) \/ Contains(t, x)
  <2> PICK k \in 1..Len(s \o t) : (s \o t)[k] = x
    BY <1>4 DEF Contains
  <2>1. CASE k \in 1..Len(s)
    BY <1>1, <2>1 DEF Contains
  <2>2. CASE k \notin 1..Len(s)
    <3>1. k - Len(s) \in 1..Len(t) /\ Len(s) + (k - Len(s)) = k
      BY <1>1, <2>2
    <3>2. t[k - Len(s)] = x
      BY <1>1, <3>1
    <3> QED
      BY <3>1, <3>2 DEF Contains
  <2> QED
    BY <2>1, <2>2
<1> QED
  BY <1>2, <1>3, <1>4

LEMMA ConcatIncreasing ==
    ASSUME NEW S \in SUBSET Nat, NEW s \in Seq(S), NEW t \in Seq(S),
           Increasing(s), Increasing(t),
           \A x, y : Contains(s, x) /\ Contains(t, y) => x < y
    PROVE  Increasing(s \o t)
<1>1. /\ Len(s) \in Nat /\ Len(t) \in Nat
      /\ Len(s \o t) = Len(s) + Len(t)
      /\ \A k \in 1..Len(s) : (s \o t)[k] = s[k]
      /\ \A k \in 1..Len(s) + Len(t) : k > Len(s) => (s \o t)[k] = t[k - Len(s)]
  OBVIOUS
<1> SUFFICES ASSUME NEW j \in 1..Len(s \o t), NEW k \in 1..Len(s \o t), j < k
             PROVE  (s \o t)[j] < (s \o t)[k]
  BY DEF Increasing
<1>2. CASE k <= Len(s)
  BY <1>1, <1>2 DEF Increasing
<1>3. CASE j > Len(s)
  <2>1. j - Len(s) \in 1..Len(t) /\ k - Len(s) \in 1..Len(t) /\ j - Len(s) < k - Len(s)
    BY <1>1, <1>3
  <2>2. t[j - Len(s)] < t[k - Len(s)]
    BY <2>1 DEF Increasing
  <2> QED
    BY <1>1, <1>3, <2>2
<1>4. CASE j <= Len(s) /\ k > Len(s)
  <2>1. j \in 1..Len(s) /\ k - Len(s) \in 1..Len(t)
    BY <1>1, <1>4
  <2>2. Contains(s, s[j]) /\ Contains(t, t[k - Len(s)])
    BY <2>1 DEF Contains
  <2> QED
    BY <1>1, <1>4, <2>1, <2>2
<1> QED
  BY <1>1, <1>2, <1>3, <1>4

(* What a page is, and what is left of it *)

\* A page has just the entries that are wanted and in its window, in order.
LEMMA PageProperties ==
    ASSUME LogTypeOK, NEW n \in Nat
    PROVE  /\ Wanted \in SUBSET (1..Len(log)) /\ Len(log) \in Nat
           /\ fetchLogs(n) \in Seq(Wanted)
           /\ Increasing(fetchLogs(n))
           /\ \A i : Contains(fetchLogs(n), i) <=>
                        /\ i \in Wanted
                        /\ i + n * LogsPerPage <= Len(log)
                        /\ i + (n + 1) * LogsPerPage > Len(log)
<1> DEFINE Window(i) == /\ i + n * LogsPerPage <= Len(log)
                        /\ i + (n + 1) * LogsPerPage > Len(log)
           S == { i \in Wanted : Window(i) }
<1>1. Len(log) \in Nat /\ Wanted \in SUBSET (1..Len(log))
  BY DEF LogTypeOK, Wanted
<1>6. S \subseteq Wanted
  OBVIOUS
<1>2. S \in SUBSET Nat /\ S \in SUBSET (1..Len(log))
  <2> HIDE DEF S
  <2>1. S \in SUBSET (1..Len(log))
    BY <1>1, <1>6
  <2>2. 1..Len(log) \in SUBSET Nat
    BY <1>1
  <2> QED
    BY <2>1, <2>2
<1>3. IsFiniteSet(S)
  <2> HIDE DEF S
  <2>1. IsFiniteSet(1..Len(log))
    BY <1>1, FS_Interval
  <2> QED
    BY <1>2, <2>1, FS_Subset
<1>4. fetchLogs(n) = InOrder(S)
  BY DEF fetchLogs
<1> HIDE DEF S
<1>5. /\ fetchLogs(n) \in Seq(S) /\ Increasing(fetchLogs(n))
      /\ \A x \in S : Contains(fetchLogs(n), x)
  BY <1>2, <1>3, <1>4, InOrderProperties
<1>7. fetchLogs(n) \in Seq(Wanted)
  BY <1>5, <1>6, SeqMonotonic
<1>8. \A x : Contains(fetchLogs(n), x) => x \in S
  BY <1>5 DEF Contains
<1> QED
  BY <1>1, <1>5, <1>7, <1>8 DEF S

\* What checkOldestEntry leaves of a page: all of it, if the entry it looks for
\* is not there; else what comes after that entry.
LEMMA CheckedProperties ==
    ASSUME NEW S \in SUBSET Nat, NEW logs \in Seq(S), logs # <<>>, Increasing(logs),
           NEW oldest
    PROVE  LET c == checkOldestEntry(logs, oldest)
           IN  /\ c.logs \in Seq(S) /\ Increasing(c.logs)
               /\ c.oldest = Last(logs)
               /\ c.allNew <=> ~ Contains(logs, oldest)
               /\ c.allNew => c.logs = logs
               /\ ~ c.allNew => \A x : Contains(c.logs, x) <=>
                                          Contains(logs, x) /\ x > oldest
<1> DEFINE c == checkOldestEntry(logs, oldest)
           n == Len(logs)
<1>0. n \in Nat /\ \A k \in 1..n : logs[k] \in S
  OBVIOUS
<1>1. CASE ~ Contains(logs, oldest)
  <2>1. c = [logs |-> logs, oldest |-> Last(logs), allNew |-> TRUE]
    BY <1>1 DEF checkOldestEntry
  <2> QED
    BY <1>1, <2>1
<1>2. CASE Contains(logs, oldest)
  <2> DEFINE j == Index(logs, oldest)
             s == SubSeq(logs, j + 1, n)
  <2>1. c = [logs |-> s, oldest |-> Last(logs), allNew |-> FALSE]
    BY <1>2 DEF checkOldestEntry
  <2>2. j \in 1..n /\ logs[j] = oldest
    BY <1>2 DEF Index, Contains
  <2> HIDE DEF j
  <2>3. /\ s \in Seq(S) /\ Len(s) = n - j
        /\ \A k \in 1..n - j : s[k] = logs[j + k]
    <3>1. \A k \in j + 1 .. n : logs[k] \in S
      BY <1>0, <2>2
    <3> QED
      BY <1>0, <2>2, <3>1, SubSeqProperties
  <2> HIDE DEF s
  <2>4. Increasing(s)
    <3> SUFFICES ASSUME NEW i \in 1..Len(s), NEW k \in 1..Len(s), i < k
                 PROVE  s[i] < s[k]
      BY DEF Increasing
    <3>1. j + i \in 1..n /\ j + k \in 1..n /\ j + i < j + k
      BY <1>0, <2>2, <2>3
    <3>2. logs[j + i] < logs[j + k]
      BY <3>1 DEF Increasing
    <3> QED
      BY <2>3, <3>2
  <2>5. ASSUME NEW x, Contains(s, x)
        PROVE  Contains(logs, x) /\ x > oldest
    <3> PICK k \in 1..Len(s) : s[k] = x
      BY <2>5 DEF Contains
    <3>1. j + k \in 1..n /\ j < j + k /\ logs[j + k] = x
      BY <1>0, <2>2, <2>3
    <3>2. logs[j] < logs[j + k]
      BY <2>2, <3>1 DEF Increasing
    <3>3. x > oldest
      BY <2>2, <3>1, <3>2
    <3> QED
      BY <3>1, <3>3 DEF Contains
  <2>6. ASSUME NEW x, Contains(logs, x), x > oldest
        PROVE  Contains(s, x)
    <3> PICK k \in 1..n : logs[k] = x
      BY <2>6 DEF Contains
    <3>1. logs[k] \in Nat /\ logs[j] \in Nat
      BY <1>0, <2>2
    <3>2. k > j
      <4>1. k < j => logs[k] < logs[j]
        BY <2>2 DEF Increasing
      <4> QED
        BY <1>0, <2>2, <2>6, <3>1, <4>1
    <3>3. k - j \in 1..Len(s) /\ s[k - j] = logs[j + (k - j)] /\ j + (k - j) = k
      BY <1>0, <2>2, <2>3, <3>2
    <3> QED
      BY <3>3 DEF Contains
  <2> QED
    BY <1>2, <2>1, <2>3, <2>4, <2>5, <2>6
<1> QED
  BY <1>1, <1>2

(* The invariant *)

\* Page 0 has all there is to print, and oldestEntry is the entry printed last.
OrderInv ==
    /\ page \in {0, 1}
    /\ Increasing(printed)
    /\ IF printed = <<>> THEN page = 0 /\ oldestEntry = 0
                         ELSE oldestEntry = Last(printed)
    /\ \A i \in Wanted : printed # <<>> /\ i < Last(printed) => Contains(printed, i)

LogInv == LogTypeOK /\ (Short => OrderInv)

LEMMA InitLogInv == LogInit => LogTypeOK /\ OrderInv
<1> SUFFICES ASSUME LogInit
             PROVE  LogTypeOK /\ OrderInv
  OBVIOUS
<1>1. log \in Seq({"plugin", "other"}) /\ Len(log) \in Nat
  BY LogAssumption DEF LogInit
<1>2. LogTypeOK
  BY <1>1 DEF LogInit, LogTypeOK
<1>3. OrderInv
  BY DEF LogInit, OrderInv, Increasing
<1> QED
  BY <1>2, <1>3

\* An entry more is not between any that were printed.
LEMMA WriteKeeps ==
    ASSUME LogTypeOK, NEW who \in {"plugin", "other"}, Write(who)
    PROVE  LogTypeOK' /\ (Short' => Short) /\ (OrderInv => OrderInv')
<1>1. /\ log' \in Seq({"plugin", "other"}) /\ Len(log') = Len(log) + 1
      /\ Len(log) \in Nat
      /\ \A i \in 1..Len(log) : log'[i] = log[i]
  BY DEF LogTypeOK, Write
<1>2. /\ UNCHANGED <<since, page, oldestEntry, printed, watching>>
      /\ since \in Nat
  BY <1>1 DEF Write, LogTypeOK
<1>3. /\ Wanted \subseteq Wanted'
      /\ Wanted' \subseteq Wanted \cup {Len(log) + 1}
      /\ Wanted \in SUBSET (1..Len(log))
  BY <1>1, <1>2 DEF Wanted
<1>4. printed \in Seq(Wanted')
  BY <1>3, SeqMonotonic DEF LogTypeOK
<1>5. LogTypeOK'
  <2>1. since' \in Nat /\ page' \in 0..Len(log')
    BY <1>1, <1>2 DEF LogTypeOK
  <2>2. oldestEntry' \in {0} \cup Wanted' /\ watching' \in BOOLEAN
    BY <1>2, <1>3 DEF LogTypeOK
  <2>3. printed' \in Seq(Wanted')
    BY <1>2, <1>4
  <2> QED
    BY <1>1, <2>1, <2>2, <2>3 DEF LogTypeOK
<1>6. Short' => Short
  BY <1>1, <1>2, LogAssumption DEF Short, LogTypeOK
<1>7. ASSUME printed # <<>>
      PROVE  Last(printed) \in Wanted
  BY <1>7 DEF LogTypeOK, Last
<1>8. ASSUME OrderInv, printed # <<>>, NEW i \in Wanted', i < Last(printed)
      PROVE  Contains(printed, i)
  <2>1. i # Len(log) + 1
    <3>1. Last(printed) \in 1..Len(log)
      BY <1>3, <1>7, <1>8
    <3> QED
      BY <1>1, <1>8, <3>1
  <2> QED
    BY <1>3, <1>8, <2>1 DEF OrderInv
<1>9. OrderInv => OrderInv'
  BY <1>2, <1>8 DEF OrderInv, Increasing, Last, Contains
<1> QED
  BY <1>5, <1>6, <1>9

\* No page fetched has the watch leave the log: a page with an entry begins
\* before the log ends.
LEMMA FetchKeepsType ==
    ASSUME LogTypeOK, FetchPage
    PROVE  LogTypeOK'
<1> DEFINE logs == fetchLogs(page)
           c == checkOldestEntry(logs, oldestEntry)
<1>1. /\ printed' = printed \o c.logs /\ oldestEntry' = c.oldest
      /\ page' = IF c.allNew THEN page + 1 ELSE 0
      /\ UNCHANGED <<log, since, watching>>
  BY DEF FetchPage
<1>2. /\ page \in Nat /\ Len(log) \in Nat /\ page <= Len(log)
      /\ LogsPerPage \in Nat /\ LogsPerPage >= 1
  BY LogAssumption DEF LogTypeOK
<1>3. /\ Wanted \in SUBSET (1..Len(log))
      /\ logs \in Seq(Wanted) /\ Increasing(logs)
      /\ \A i : Contains(logs, i) => /\ i \in Wanted
                                    /\ i + page * LogsPerPage <= Len(log)
  BY <1>2, PageProperties
<1>4. Wanted' = Wanted /\ Wanted \in SUBSET Nat
  <2>1. 1..Len(log) \in SUBSET Nat
    BY <1>2
  <2> QED
    BY <1>1, <1>3, <2>1 DEF Wanted
<1> HIDE DEF logs
<1>5. CASE logs = <<>>
  <2>1. c = [logs |-> <<>>, oldest |-> oldestEntry, allNew |-> FALSE]
    BY <1>5 DEF checkOldestEntry
  <2>2. printed' = printed
    BY <1>1, <2>1 DEF LogTypeOK
  <2> QED
    BY <1>1, <1>2, <1>4, <2>1, <2>2 DEF LogTypeOK
<1>6. CASE logs # <<>>
  <2>1. /\ c.logs \in Seq(Wanted) /\ c.oldest = Last(logs)
    BY <1>3, <1>4, <1>6, CheckedProperties
  <2>2. Last(logs) \in Wanted /\ Contains(logs, Last(logs))
    BY <1>3, <1>4, <1>6, LastOfIncreasing
  <2> HIDE DEF c
  <2>3. printed' \in Seq(Wanted)
    BY <1>1, <2>1, ConcatProperties DEF LogTypeOK
  <2>4. page + 1 <= Len(log)
    <3>1. Last(logs) + page * LogsPerPage <= Len(log) /\ Last(logs) \in 1..Len(log)
      BY <1>3, <2>2
    <3>2. page <= page * LogsPerPage /\ page * LogsPerPage \in Nat
      BY <1>2
    <3> QED
      BY <1>2, <3>1, <3>2
  <2> QED
    BY <1>1, <1>2, <1>4, <2>1, <2>2, <2>3, <2>4 DEF LogTypeOK
<1> QED
  BY <1>5, <1>6

\* A short log is all on the first page.
LEMMA ShortSuffices ==
    ASSUME LogTypeOK, Short, OrderInv
    PROVE  FirstPageSuffices
<1>1. /\ Len(log) \in Nat /\ since \in Nat
      /\ LogsPerPage \in Nat
      /\ Len(log) - since <= LogsPerPage
  BY LogAssumption DEF LogTypeOK, Short
<1>2. \A i \in Wanted : i + LogsPerPage > Len(log)
  BY <1>1 DEF Wanted, LogTypeOK
<1>3. printed # <<>> => oldestEntry \in Wanted
  BY DEF OrderInv, LogTypeOK, Last
<1> QED
  BY <1>2, <1>3 DEF FirstPageSuffices

\* When the first page suffices, there is on it all that is not printed yet and
\* the entry to look for, and on the second page nothing.
LEMMA SufficientPages ==
    ASSUME LogTypeOK, OrderInv, FirstPageSuffices
    PROVE  /\ page = 0 => \A i : Contains(fetchLogs(0), i) <=>
                                i \in Wanted /\ i + LogsPerPage > Len(log)
           /\ page = 0 /\ printed = <<>> => \A i \in Wanted : i + LogsPerPage > Len(log)
           /\ page = 0 /\ printed # <<>> => oldestEntry + LogsPerPage > Len(log)
           /\ page = 1 => fetchLogs(1) = <<>>
<1>1. /\ Len(log) \in Nat
      /\ LogsPerPage \in Nat /\ LogsPerPage >= 1
  BY LogAssumption DEF LogTypeOK
<1>2. \A i \in Wanted : i \in Nat /\ i <= Len(log)
  BY <1>1 DEF Wanted
<1>3. \A i : Contains(fetchLogs(0), i) <=> i \in Wanted /\ i + LogsPerPage > Len(log)
  <2>1. \A i : Contains(fetchLogs(0), i) <=>
                 i \in Wanted /\ i + 0 * LogsPerPage <= Len(log)
                             /\ i + (0 + 1) * LogsPerPage > Len(log)
    BY PageProperties
  <2>2. ASSUME NEW i \in Wanted
        PROVE  i + 0 * LogsPerPage <= Len(log) /\ (0 + 1) * LogsPerPage = LogsPerPage
    BY <1>1, <1>2
  <2> QED
    BY <2>1, <2>2
<1>4. ASSUME page = 1
      PROVE  fetchLogs(1) = <<>>
  <2>1. /\ fetchLogs(1) \in Seq(Wanted)
        /\ \A i : Contains(fetchLogs(1), i) =>
                 i \in Wanted /\ i + 1 * LogsPerPage <= Len(log)
    BY PageProperties
  <2>2. \A i \in Wanted : i + LogsPerPage > Len(log)
    BY <1>4 DEF FirstPageSuffices
  <2>3. \A i : ~ Contains(fetchLogs(1), i)
    BY <1>1, <1>2, <2>1, <2>2
  <2>4. ASSUME fetchLogs(1) # <<>>
        PROVE  FALSE
    <3>1. Len(fetchLogs(1)) \in Nat \ {0}
      BY <2>1, <2>4
    <3>2. Contains(fetchLogs(1), fetchLogs(1)[1])
      BY <3>1 DEF Contains
    <3> QED
      BY <2>3, <3>2
  <2> QED
    BY <2>4
<1> QED
  BY <1>3, <1>4 DEF FirstPageSuffices

\* What the first page of a tick brings, and what is printed with it.
FirstPage == checkOldestEntry(fetchLogs(0), oldestEntry)
Output == printed \o FirstPage.logs

\* What the first page of a tick does: it prints just what had not been printed,
\* after what had been.
LEMMA TickPrints ==
    ASSUME LogTypeOK, OrderInv, FirstPageSuffices, page = 0
    PROVE  /\ Increasing(Output)
           /\ \A i \in Wanted : Contains(Output, i)
           /\ IF Output = <<>> THEN ~ FirstPage.allNew /\ FirstPage.oldest = 0
                               ELSE FirstPage.oldest = Last(Output)
<1> DEFINE logs == fetchLogs(0)
           c == checkOldestEntry(logs, oldestEntry)
<1>1. FirstPage = c /\ Output = printed \o c.logs
  BY DEF FirstPage, Output
<1>2. /\ Wanted \in SUBSET (1..Len(log)) /\ Len(log) \in Nat
      /\ logs \in Seq(Wanted) /\ Increasing(logs)
  BY PageProperties
<1>3. Wanted \in SUBSET Nat
  <2>1. 1..Len(log) \in SUBSET Nat
    BY <1>2
  <2> QED
    BY <1>2, <2>1
<1>4. /\ \A i : Contains(logs, i) <=> i \in Wanted /\ i + LogsPerPage > Len(log)
      /\ printed = <<>> => \A i \in Wanted : i + LogsPerPage > Len(log)
      /\ printed # <<>> => oldestEntry + LogsPerPage > Len(log)
  BY SufficientPages
<1>5. /\ printed \in Seq(Wanted) /\ Increasing(printed)
      /\ IF printed = <<>> THEN oldestEntry = 0 ELSE oldestEntry = Last(printed)
      /\ \A i \in Wanted : printed # <<>> /\ i < Last(printed) => Contains(printed, i)
  BY DEF LogTypeOK, OrderInv
<1> HIDE DEF logs
<1>6. CASE logs = <<>>
  <2>1. \A i : ~ Contains(logs, i)
    BY <1>6 DEF Contains
  <2>2. printed = <<>> /\ Wanted = {}
    <3>1. printed # <<>> => oldestEntry \in Wanted
      BY <1>5 DEF Last
    <3> QED
      BY <1>4, <2>1, <3>1
  <2>3. c = [logs |-> <<>>, oldest |-> oldestEntry, allNew |-> FALSE]
    BY <1>6 DEF checkOldestEntry
  <2>4. Output = <<>> /\ ~ c.allNew /\ FirstPage.oldest = 0
    BY <1>1, <1>5, <2>2, <2>3
  <2> QED
    BY <1>1, <2>2, <2>4 DEF Increasing
<1>7. CASE logs # <<>>
  <2>1. /\ c.logs \in Seq(Wanted) /\ Increasing(c.logs) /\ c.oldest = Last(logs)
        /\ c.allNew <=> ~ Contains(logs, oldestEntry)
        /\ c.allNew => c.logs = logs
        /\ ~ c.allNew => \A x : Contains(c.logs, x) <=> Contains(logs, x) /\ x > oldestEntry
    BY <1>2, <1>3, <1>7, CheckedProperties
  <2>2. /\ Last(logs) \in Wanted
        /\ \A x \in Wanted : x <= Last(logs)
    <3>1. /\ Last(logs) \in Wanted /\ Contains(logs, Last(logs))
          /\ \A x : Contains(logs, x) => x <= Last(logs)
      BY <1>2, <1>3, <1>7, LastOfIncreasing
    <3> SUFFICES ASSUME NEW x \in Wanted
                 PROVE  x <= Last(logs)
      BY <3>1
    <3>2. x \in Nat /\ Last(logs) \in Nat /\ LogsPerPage \in Nat
      BY <1>3, <3>1, LogAssumption
    <3>3. Last(logs) + LogsPerPage > Len(log)
      BY <1>4, <3>1
    <3>4. CASE x + LogsPerPage > Len(log)
      BY <1>4, <3>1, <3>4
    <3>5. CASE ~ (x + LogsPerPage > Len(log))
      BY <1>2, <3>2, <3>3, <3>5
    <3> QED
      BY <3>4, <3>5
  <2> HIDE DEF c
  <2>3. \A x : Contains(Output, x) <=> Contains(printed, x) \/ Contains(c.logs, x)
    BY <1>1, <1>5, <2>1, ConcatContains
  <2>4. CASE printed = <<>>
    <3>1. ~ Contains(logs, oldestEntry)
      BY <1>2, <1>4, <1>5, <2>4
    <3>2. Output = logs /\ c.allNew
      BY <1>1, <1>2, <2>1, <2>4, <3>1
    <3> QED
      BY <1>1, <1>2, <1>4, <1>7, <2>1, <2>4, <3>2
  <2>5. CASE printed # <<>>
    <3>1. /\ oldestEntry = Last(printed) /\ oldestEntry \in Wanted
          /\ Contains(printed, oldestEntry)
          /\ \A x : Contains(printed, x) => x \in Wanted /\ x <= oldestEntry
      BY <1>3, <1>5, <2>5, LastOfIncreasing
    <3>2. /\ \A x : Contains(c.logs, x) <=> x \in Wanted /\ x > oldestEntry
          /\ ~ c.allNew
      <4>1. ASSUME NEW x \in Wanted, x > oldestEntry
            PROVE  x + LogsPerPage > Len(log)
        <5>1. x \in Nat /\ oldestEntry \in Nat /\ LogsPerPage \in Nat
          BY <1>3, <3>1, LogAssumption
        <5> QED
          BY <1>2, <1>4, <2>5, <4>1, <5>1
      <4>2. Contains(logs, oldestEntry)
        BY <1>4, <2>5, <3>1
      <4> QED
        BY <1>1, <1>4, <2>1, <4>1, <4>2
    <3>3. \A x, y : Contains(printed, x) /\ Contains(c.logs, y) => x < y
      <4> SUFFICES ASSUME NEW x, NEW y, Contains(printed, x), Contains(c.logs, y)
                   PROVE  x < y
        OBVIOUS
      <4>1. x \in Nat /\ y \in Nat /\ oldestEntry \in Nat
        BY <1>3, <3>1, <3>2
      <4> QED
        BY <3>1, <3>2, <4>1
    <3>4. Increasing(Output)
      BY <1>1, <1>3, <1>5, <2>1, <3>3, ConcatIncreasing
    <3>5. ASSUME NEW i \in Wanted
          PROVE  Contains(Output, i)
      <4>1. i \in Nat /\ oldestEntry \in Nat
        BY <1>3, <3>1
      <4>2. i < oldestEntry \/ i = oldestEntry \/ i > oldestEntry
        BY <4>1
      <4> QED
        BY <1>5, <2>3, <2>5, <3>1, <3>2, <4>2
    <3>6. Output \in Seq(Wanted) /\ Output # <<>>
      BY <1>1, <1>5, <2>1, <2>5, ConcatProperties, EmptySeq
    <3>7. Last(Output) = Last(logs)
      <4>1. /\ Last(Output) \in Wanted
            /\ \A x : Contains(Output, x) => x <= Last(Output)
        BY <1>3, <3>4, <3>6, LastOfIncreasing
      <4>2. Last(Output) \in Nat /\ Last(logs) \in Nat
        BY <1>3, <2>2, <4>1
      <4>3. Last(logs) <= Last(Output) /\ Last(Output) <= Last(logs)
        BY <2>2, <3>5, <4>1
      <4> QED
        BY <4>2, <4>3
    <3> QED
      BY <1>1, <2>1, <3>2, <3>4, <3>5, <3>6, <3>7
  <2> QED
    BY <2>4, <2>5
<1> QED
  BY <1>6, <1>7

LEMMA FetchKeepsOrder ==
    ASSUME LogTypeOK, OrderInv, FirstPageSuffices, FetchPage
    PROVE  OrderInv'
<1>1. CASE page = 0
  <2>1. Wanted' = Wanted
    BY DEF FetchPage, Wanted
  <2>2. /\ printed' = Output /\ oldestEntry' = FirstPage.oldest
        /\ page' = IF FirstPage.allNew THEN 1 ELSE 0
    BY <1>1 DEF FetchPage, FirstPage, Output
  <2> QED
    BY <1>1, <2>1, <2>2, TickPrints DEF OrderInv, Increasing, Last, Contains
<1>2. CASE page = 1
  <2>1. fetchLogs(page) = <<>>
    BY <1>2, SufficientPages
  <2>2. checkOldestEntry(fetchLogs(page), oldestEntry)
          = [logs |-> <<>>, oldest |-> oldestEntry, allNew |-> FALSE]
    BY <2>1 DEF checkOldestEntry
  <2>3. printed' = printed /\ oldestEntry' = oldestEntry /\ page' = 0 /\ Wanted' = Wanted
    BY <2>2 DEF FetchPage, LogTypeOK, Wanted
  <2> QED
    BY <1>2, <2>3 DEF OrderInv, Increasing, Last, Contains
<1> QED
  BY <1>1, <1>2 DEF OrderInv

LEMMA QuietStep ==
    ASSUME StopWatching \/ UNCHANGED logVars
    PROVE  /\ LogTypeOK => LogTypeOK'
           /\ Short' <=> Short
           /\ OrderInv => OrderInv'
BY DEF StopWatching, logVars, LogTypeOK, OrderInv, Short, Wanted, Increasing, Last, Contains

-----------------------------------------------------------------------------
LEMMA LogInvAlways == LogSpec => []LogInv
<1>1. LogInit => LogInv
  BY InitLogInv DEF LogInv
<1>2. LogInv /\ [LogNext]_logVars => LogInv'
  <2> SUFFICES ASSUME LogInv, [LogNext]_logVars
               PROVE  LogInv'
    OBVIOUS
  <2>1. ASSUME NEW who \in {"plugin", "other"}, Write(who)
        PROVE  LogInv'
    BY <2>1, WriteKeeps DEF LogInv
  <2>2. CASE FetchPage
    <3>1. Short' <=> Short
      BY <2>2 DEF FetchPage, Short
    <3> QED
      BY <2>2, <3>1, FetchKeepsType, FetchKeepsOrder, ShortSuffices DEF LogInv
  <2>3. CASE StopWatching \/ UNCHANGED logVars
    BY <2>3, QuietStep DEF LogInv
  <2> QED
    BY <2>1, <2>2, <2>3 DEF LogNext
<1> QED
  BY <1>1, <1>2, PTL DEF LogSpec

LEMMA OrderIsWhole ==
    ASSUME LogTypeOK, OrderInv
    PROVE  PrintedWhole
<1>1. Len(printed) \in Nat
  BY DEF LogTypeOK
<1>2. \A k \in 1 .. Len(printed) - 1 : /\ k \in 1..Len(printed)
                                       /\ k + 1 \in 1..Len(printed)
                                       /\ k < k + 1
  BY <1>1
<1> QED
  BY <1>2 DEF OrderInv, Increasing, PrintedWhole

\* What is printed is the plugin's and of after the start, and the pages fetched
\* are pages of the log, however long it is and however fast it grows.
THEOREM LogTypeCorrect == LogSpec => []LogTypeOK
<1>1. LogInv => LogTypeOK
  BY DEF LogInv
<1> QED
  BY <1>1, LogInvAlways, PTL

\* A log that fits on a page is printed in order, each entry once, and without
\* a gap, whatever is written between and during the ticks.
THEOREM PrintsShortLogCorrect == LogSpec => []PrintsShortLog
<1>1. LogInv => PrintsShortLog
  BY OrderIsWhole DEF LogInv, PrintsShortLog
<1> QED
  BY <1>1, LogInvAlways, PTL

\* A log of any length is printed so if the newest page always reaches back to
\* the entry printed last: it is then that the search of checkOldestEntry finds
\* what it looks for.
THEOREM PrintsBusyLogCorrect == LogSpec => PrintsBusyLog
<1>1. LogInit => LogTypeOK /\ OrderInv
  BY InitLogInv
<1>2. LogTypeOK /\ OrderInv /\ FirstPageSuffices /\ [LogNext]_logVars
        => LogTypeOK' /\ OrderInv'
  <2> SUFFICES ASSUME LogTypeOK, OrderInv, FirstPageSuffices, [LogNext]_logVars
               PROVE  LogTypeOK' /\ OrderInv'
    OBVIOUS
  <2>1. ASSUME NEW who \in {"plugin", "other"}, Write(who)
        PROVE  LogTypeOK' /\ OrderInv'
    BY <2>1, WriteKeeps
  <2>2. CASE FetchPage
    BY <2>2, FetchKeepsType, FetchKeepsOrder
  <2>3. CASE StopWatching \/ UNCHANGED logVars
    BY <2>3, QuietStep
  <2> QED
    BY <2>1, <2>2, <2>3 DEF LogNext
<1>3. LogTypeOK /\ OrderInv => PrintedWhole
  BY OrderIsWhole
<1> QED
  BY <1>1, <1>2, <1>3, PTL DEF LogSpec, PrintsBusyLog

\* Each tick brings the output up to date as long as the log fits on a page.
THEOREM TickCatchesUpCorrect == LogSpec => []TickCatchesUp
<1>1. LogInv => TickCatchesUp
  BY TickPrints, ShortSuffices DEF LogInv, TickCatchesUp, FirstPage, Output
<1> QED
  BY <1>1, LogInvAlways, PTL
=============================================================================
