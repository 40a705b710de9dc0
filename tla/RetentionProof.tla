--------------------------- MODULE RetentionProof ---------------------------
(***************************************************************************)
(* Proof of what log retention promises, for any number of candidates,     *)
(* executions and prunes, any sizes and any budget of mishaps: the log of  *)
(* a candidate in flight is never touched, the budget is kept, no file is  *)
(* forgotten while nothing fails, a failure's last lines outlive its log,  *)
(* and sasse logs prints what the run it names, or a later one of its      *)
(* candidate, said.                                                        *)
(*                                                                         *)
(* Candidates settle for good, rows and executions are only appended, and  *)
(* the file of a candidate is that of its last execution: what a survey    *)
(* found stays true of whatever it goes on to remove, however late.        *)
(***************************************************************************)
EXTENDS RetentionProperties, FiniteSetTheorems, SequenceTheorems,
        WellFoundedInduction, Recursion, TLAPS

-----------------------------------------------------------------------------
(* The invariant.                                                          *)

\* Execution x is the last one of candidate c.
Latest(c, x) ==
    /\ x \in DOMAIN execs /\ execs[x] = c
    /\ \A y \in DOMAIN execs : execs[y] = c => y <= x

\* A log that was found is the log of a run of a settled candidate.
Surveyed(log) ==
    /\ log.run \in DOMAIN runs
    /\ log.cand = runs[log.run].cand
    /\ log.passed = runs[log.run].passed
    /\ cand[log.cand] = "settled"

Distinct(logs) == \A i, j \in DOMAIN logs : logs[i].run = logs[j].run => i = j

\* The tail x is of run r's candidate, and of no earlier execution.
TailOf(x, r) ==
    x # NoTail => /\ x \in DOMAIN execs /\ execs[x] = runs[r].cand
                  /\ x >= runs[r].exec

Removing == {"remove", "forget", "unlink"}
Gated == {"gate", "run", "record", "settle"}

\* What a process has surveyed.
Holds(p) ==
    LET todo == proc[p].todo
        found == proc[p].found
        left == proc[p].left
    IN  /\ \A i \in DOMAIN todo :
              todo[i] \in DOMAIN runs /\ cand[runs[todo[i]].cand] = "settled"
        /\ \A i, j \in DOMAIN todo : todo[i] = todo[j] => i = j
        /\ \A i \in DOMAIN found :
              Surveyed(found[i]) /\ \A j \in DOMAIN todo : todo[j] # found[i].run
        /\ Distinct(found)
        /\ \A i \in DOMAIN left : Surveyed(left[i])
        /\ Distinct(left)
        /\ proc[p].pc # "size" => todo = <<>>
        /\ proc[p].pc \notin {"size"} \cup Removing => found = <<>>
        /\ proc[p].pc \notin Removing => left = <<>>
        /\ proc[p].pc \in {"forget", "unlink"} => left # <<>>
        /\ proc[p].pc = "forget" => TailOf(proc[p].tail, Head(left).run)
        /\ p \in Prune => proc[p].pc \in {"idle"} \cup Applying

\* Rows, executions and files.
Tables ==
    /\ \A x \in DOMAIN execs : cand[execs[x]] # "absent"
    /\ \A c \in OnDisk : Latest(c, files[c].exec)
    /\ \A r \in DOMAIN runs :
          /\ runs[r].exec \in DOMAIN execs
          /\ execs[runs[r].exec] = runs[r].cand
          /\ TailOf(runs[r].tail, r)
          /\ cand[runs[r].cand] = "active" => runs[r].logged
    /\ \A r, s \in DOMAIN runs : runs[r].exec = runs[s].exec => r = s

\* The candidate in flight, and its log.
Flight ==
    LET pc == proc[Worker].pc
    IN  /\ \A c, d \in Active : c = d
        /\ Len(execs) <= MaxExecutions
        /\ pc \in Gated => Active # {}
        /\ pc = "gate" => Len(execs) < MaxExecutions
        /\ pc \in {"run", "record"} =>
              /\ \A c \in Active : c \in OnDisk /\ files[c].exec = Len(execs)
              /\ \A r \in DOMAIN runs : runs[r].exec < Len(execs)
        /\ pc = "settle" => \E r \in DOMAIN runs : runs[r].cand \in Active

Sound == Tables /\ Flight /\ \A p \in Process : Holds(p)

\* A row of a candidate gated once has its log, or says why it need not.
Kept(r) ==
    GatedOnce(runs[r].cand) =>
        IF runs[r].logged THEN runs[r].cand \in OnDisk
        ELSE runs[r].passed \/ runs[r].tail = runs[r].exec

\* The rows the worker is about to do something about still have their logs.
Marked ==
    LET w == proc[Worker]
        gone == IF w.pc = "unlink" THEN {1} ELSE {}
    IN  /\ \A i \in DOMAIN w.todo : runs[w.todo[i]].logged
        /\ w.pc = "size" => \A i \in DOMAIN w.found : runs[w.found[i].run].logged
        /\ \A i \in DOMAIN w.left \ gone : runs[w.left[i].run].logged
        /\ w.pc = "forget" /\ GatedOnce(Head(w.left).cand) /\ ~Head(w.left).passed =>
              w.tail = runs[Head(w.left).run].exec
        /\ w.pc = "unlink" => ~runs[Head(w.left).run].logged

\* Without a prune beside it, the worker's survey stays true of the rows too.
Alone ==
    /\ \A p \in Prune : proc[p].pc = "idle"
    /\ \A r \in DOMAIN runs : Kept(r)
    /\ Marked

\* Somebody will do something about the log of c.
Offered(c) ==
    \/ cand[c] = "active"
    \/ c \in Accounted
    \/ \E p \in Process : At(p, "unlink") /\ Head(proc[p].left).cand = c

\* While nothing fails, what is in flight is being gated, and every other log
\* has a row or is about to go.
Tidy ==
    /\ ~orphan
    /\ proc[Worker].pc \in Gated \/ Active = {}
    /\ proc[Worker].pc = "gate" => \A c \in Active : c \notin OnDisk
    /\ \A c \in OnDisk : Offered(c)

RetentionInv ==
    /\ TypeOK /\ Sound
    /\ spent["prune"] = 0 => Alone
    /\ spent["crash"] + spent["fault"] = 0 => Tidy

-----------------------------------------------------------------------------
(* Rows in the order of their ids.                                         *)

\* A list of numbers, smallest first, that has every one of S once.
IsById(rows, S) ==
    /\ rows \in [1..Cardinality(S) -> S]
    /\ \A i, j \in 1..Cardinality(S) : i < j => rows[i] < rows[j]

\* Every finite set of numbers can be put in order: take the smallest, and
\* the rest in order after it.
LEMMA OrderExists ==
    ASSUME NEW S \in SUBSET Nat, IsFiniteSet(S)
    PROVE  \E rows : IsById(rows, S)
  <1> DEFINE Bad == {T \in FiniteSubsetsOf(Nat) : ~\E rows : IsById(rows, T)}
  <1> SUFFICES ASSUME Bad # {} PROVE FALSE
    <2>1. S \in FiniteSubsetsOf(Nat)
      BY DEF FiniteSubsetsOf
    <2> QED BY <2>1
  <1>1. PICK T \in Bad :
           \A U \in Bad : ~(<<U, T>> \in StrictSubsetOrdering(Nat))
    <2>1. IsWellFoundedOn(StrictSubsetOrdering(Nat), FiniteSubsetsOf(Nat))
      BY FS_StrictSubsetOrderingWellFounded
    <2> HIDE DEF Bad
    <2>2. Bad \subseteq FiniteSubsetsOf(Nat)
      BY DEF Bad
    <2> QED BY <2>1, <2>2, WFMin
  <1>2. T \in SUBSET Nat /\ IsFiniteSet(T) /\ ~\E rows : IsById(rows, T)
    BY <1>1 DEF FiniteSubsetsOf
  <1>3. T # {}
    <2>1. Cardinality({}) = 0
      BY FS_EmptySet
    <2>2. IsById([i \in 1..0 |-> 0], {})
      BY <2>1 DEF IsById
    <2> QED BY <1>2, <2>2
  <1>4. PICK x \in T : \A y \in T : x <= y
    <2>1. PICK x \in T : \A y \in T : ~(<<y, x>> \in OpToRel(<, Nat))
      BY <1>2, <1>3, NatLessThanWellFounded, WFMin
    <2>2. ASSUME NEW y \in T PROVE x <= y
      <3>1. x \in Nat /\ y \in Nat
        BY <1>2
      <3>2. ~(y < x)
        BY <2>1, <3>1 DEF OpToRel
      <3> QED BY <3>1, <3>2
    <2> QED BY <2>2
  <1> DEFINE U == T \ {x}
             n == Cardinality(T)
  <1>5. /\ IsFiniteSet(U) /\ Cardinality(U) = n - 1 /\ n \in Nat
        /\ n - 1 \in Nat
    <2>1. IsFiniteSet(U) /\ Cardinality(U) = n - 1
      BY <1>2, FS_RemoveElement
    <2>2. n \in Nat /\ Cardinality(U) \in Nat
      BY <1>2, <2>1, FS_CardinalityType
    <2> QED BY <2>1, <2>2
  <1>6. PICK rows : IsById(rows, U)
    <2>1. <<U, T>> \in StrictSubsetOrdering(Nat)
      BY <1>2 DEF StrictSubsetOrdering
    <2>2. U \in FiniteSubsetsOf(Nat)
      BY <1>2, <1>5 DEF FiniteSubsetsOf
    <2> QED BY <1>1, <2>1, <2>2
  <1> DEFINE longer == [i \in 1..n |-> IF i = 1 THEN x ELSE rows[i - 1]]
  <1>7. ASSUME NEW i \in 2..n
        PROVE  i - 1 \in 1..(n - 1) /\ rows[i - 1] \in T /\ rows[i - 1] > x
    <2>1. i - 1 \in 1..(n - 1)
      BY <1>5
    <2>2. rows[i - 1] \in U
      BY <1>5, <1>6, <2>1 DEF IsById
    <2>3. rows[i - 1] \in Nat /\ x \in Nat /\ x <= rows[i - 1] /\ rows[i - 1] # x
      BY <1>2, <1>4, <2>2
    <2> QED BY <2>1, <2>2, <2>3
  <1>8. IsById(longer, T)
    <2>1. longer \in [1..n -> T]
      BY <1>5, <1>7
    <2>2. ASSUME NEW i \in 1..n, NEW j \in 1..n, i < j
          PROVE  longer[i] < longer[j]
      <3>0. j \in 2..n /\ longer[j] = rows[j - 1]
        BY <1>5, <2>2
      <3>1. CASE i = 1
        BY <1>7, <3>0, <3>1
      <3>2. CASE i # 1
        <4>1. i \in 2..n /\ longer[i] = rows[i - 1]
          BY <1>5, <2>2, <3>2
        <4>2. /\ i - 1 \in 1..Cardinality(U) /\ j - 1 \in 1..Cardinality(U)
              /\ i - 1 < j - 1
          BY <1>5, <1>7, <2>2, <3>0, <4>1
        <4> QED BY <1>6, <3>0, <4>1, <4>2 DEF IsById
      <3> QED BY <3>1, <3>2
    <2> QED BY <2>1, <2>2 DEF IsById
  <1> QED BY <1>2, <1>8

\* ById has all of them, each in one place.
LEMMA ByIdType ==
    ASSUME NEW S \in SUBSET Nat, IsFiniteSet(S)
    PROVE  /\ Cardinality(S) \in Nat
           /\ ById(S) \in [1..Cardinality(S) -> S]
           /\ \A i, j \in 1..Cardinality(S) : ById(S)[i] = ById(S)[j] => i = j
           /\ \A x \in S : \E i \in 1..Cardinality(S) : ById(S)[i] = x
  <1> DEFINE n == Cardinality(S)
             rows == ById(S)
  <1>1. n \in Nat
    BY FS_CardinalityType
  <1>2. IsById(rows, S)
    BY OrderExists DEF IsById, ById
  <1>3. /\ rows \in [1..n -> S]
        /\ \A i, j \in 1..n : i < j => rows[i] < rows[j]
    BY <1>2 DEF IsById
  <1> HIDE DEF rows
  <1>4. ASSUME NEW i \in 1..n, NEW j \in 1..n, i # j
        PROVE  rows[i] # rows[j]
    <2>1. rows[i] \in Nat /\ rows[j] \in Nat
      BY <1>3
    <2>2. rows[i] < rows[j] \/ rows[j] < rows[i]
      BY <1>1, <1>3, <1>4
    <2> QED BY <2>1, <2>2
  <1>5. rows \in Injection(1..n, S)
    BY <1>3, <1>4 DEF Injection, IsInjective
  <1>6. Cardinality(1..n) = n
    BY <1>1, FS_Interval
  <1>7. rows \in Surjection(1..n, S)
    BY <1>5, <1>6, FS_Injection
  <1>8. \A x \in S : \E i \in 1..n : rows[i] = x
    BY <1>7 DEF Surjection
  <1> QED BY <1>1, <1>3, <1>4, <1>8 DEF rows

-----------------------------------------------------------------------------
(* The plan.                                                               *)

\* A function on 1..n is a list.
LEMMA ListIsSeq ==
    ASSUME NEW T, NEW n \in Nat, NEW f \in [1..n -> T]
    PROVE  f \in Seq(T) /\ Len(f) = n /\ DOMAIN f = 1..n
  OBVIOUS

\* Logs picked by their places are logs, each picked once.
LEMMA PickedType ==
    ASSUME NEW logs \in Seq(LogFile), Distinct(logs),
           NEW S \in SUBSET DOMAIN logs,
           NEW those, those = [i \in 1..Cardinality(S) |-> logs[ById(S)[i]]]
    PROVE  /\ those \in Seq(LogFile)
           /\ DOMAIN those = 1..Len(those) /\ Len(those) \in Nat
           /\ \A i \in DOMAIN those : \E j \in S : those[i] = logs[j]
           /\ Distinct(those)
  <1>1. DOMAIN logs = 1..Len(logs) /\ Len(logs) \in Nat
    BY LenProperties
  <1>2. S \in SUBSET Nat /\ IsFiniteSet(S)
    <2>1. IsFiniteSet(1..Len(logs))
      BY <1>1, FS_Interval
    <2> QED BY <1>1, <2>1, FS_Subset
  <1> DEFINE n == Cardinality(S)
  <1>3. /\ n \in Nat
        /\ ById(S) \in [1..n -> S]
        /\ \A i, j \in 1..n : ById(S)[i] = ById(S)[j] => i = j
    BY <1>2, ByIdType
  <1> HIDE DEF n
  <1>4. those = [i \in 1..n |-> logs[ById(S)[i]]]
    BY DEF n
  <1>5. \A i \in 1..n : ById(S)[i] \in S /\ those[i] = logs[ById(S)[i]]
    BY <1>3, <1>4
  <1>6. \A j \in S : logs[j] \in LogFile
    BY <1>1, ElementOfSeq
  <1>7. those \in [1..n -> LogFile]
    BY <1>4, <1>5, <1>6
  <1>8. those \in Seq(LogFile) /\ Len(those) = n /\ DOMAIN those = 1..n
    <2>1. n \in Nat
      BY <1>3
    <2> QED BY ONLY <1>7, <2>1, ListIsSeq
  <1>9. Distinct(those)
    <2> SUFFICES ASSUME NEW i \in 1..n, NEW j \in 1..n,
                        those[i].run = those[j].run
                 PROVE  i = j
      BY <1>8 DEF Distinct
    <2>1. ById(S)[i] \in DOMAIN logs /\ ById(S)[j] \in DOMAIN logs
      BY <1>5
    <2>2. logs[ById(S)[i]].run = logs[ById(S)[j]].run
      BY <1>5
    <2>3. ById(S)[i] = ById(S)[j]
      BY <2>1, <2>2 DEF Distinct
    <2> QED BY <1>3, <2>3
  <1> QED BY <1>3, <1>5, <1>8, <1>9

\* The surplus is such that the rest fits into the budget, if anything is left.
LEMMA SurplusFits ==
    ASSUME NEW failed, Len(failed) \in Nat
    PROVE  LET k == Surplus(failed)
           IN  /\ k \in 0..Len(failed)
               /\ k = Len(failed) \/ Bytes(After(k, failed)) <= LogBudget
  <1> DEFINE S == {n \in 0..Len(failed) :
                      n = Len(failed) \/ Bytes(After(n, failed)) <= LogBudget}
  <1>1. Len(failed) \in S /\ S \subseteq Nat
    OBVIOUS
  <1> HIDE DEF S
  <1>2. PICK x \in S : \A y \in S : ~(<<y, x>> \in OpToRel(<, Nat))
    BY <1>1, WFMin, NatLessThanWellFounded
  <1>3. \A y \in S : x <= y
    <2> SUFFICES ASSUME NEW y \in S PROVE x <= y
      OBVIOUS
    <2>1. x \in Nat /\ y \in Nat
      BY <1>1
    <2>2. ~(y < x)
      BY <1>2, <2>1 DEF OpToRel
    <2> QED BY <2>1, <2>2
  <1>4. Min(S) \in S
    BY <1>3 DEF Min
  <1>5. Surplus(failed) = Min(S)
    BY DEF Surplus, S
  <1> QED BY <1>4, <1>5 DEF S

\* What is planned to go is some of what was found, each log once.
LEMMA PlanType ==
    ASSUME NEW logs \in Seq(LogFile), Distinct(logs)
    PROVE  /\ Plan(logs) \in Seq(LogFile)
           /\ \A i \in DOMAIN Plan(logs) : \E j \in DOMAIN logs : Plan(logs)[i] = logs[j]
           /\ Distinct(Plan(logs))
  <1> DEFINE P == {i \in DOMAIN logs : logs[i].passed}
             F == {i \in DOMAIN logs : ~logs[i].passed}
             passed == [i \in 1..Cardinality(P) |-> logs[ById(P)[i]]]
             failed == [i \in 1..Cardinality(F) |-> logs[ById(F)[i]]]
             k == Surplus(failed)
             some == SubSeq(failed, 1, k)
  <1>1. Plan(logs) = passed \o some
    BY DEF Plan
  <1>2. /\ passed \in Seq(LogFile)
        /\ DOMAIN passed = 1..Len(passed) /\ Len(passed) \in Nat
        /\ \A i \in DOMAIN passed : \E j \in P : passed[i] = logs[j]
        /\ Distinct(passed)
    BY PickedType
  <1>3. /\ failed \in Seq(LogFile)
        /\ DOMAIN failed = 1..Len(failed) /\ Len(failed) \in Nat
        /\ \A i \in DOMAIN failed : \E j \in F : failed[i] = logs[j]
        /\ Distinct(failed)
    BY PickedType
  <1> HIDE DEF passed, failed
  <1>4. k \in 0..Len(failed)
    BY <1>3, SurplusFits
  <1> HIDE DEF k
  <1>5. /\ some \in Seq(LogFile) /\ Len(some) = k
        /\ \A i \in 1..k : some[i] = failed[i]
    <2>1. \A i \in 1..k : failed[i] \in LogFile
      BY <1>3, <1>4
    <2>2. k \in Int /\ (IF 1 <= k THEN k - 1 + 1 ELSE 0) = k /\ k - 1 + 1 = k
      BY <1>3, <1>4
    <2>3. /\ some \in Seq(LogFile)
          /\ Len(some) = IF 1 <= k THEN k - 1 + 1 ELSE 0
          /\ \A i \in 1..(k - 1 + 1) : some[i] = failed[1 + i - 1]
      BY <2>1, <2>2, SubSeqProperties
    <2>4. \A i \in 1..k : 1 + i - 1 = i
      BY <2>2
    <2> QED BY <2>2, <2>3, <2>4
  <1> HIDE DEF some
  <1>6. /\ Plan(logs) \in Seq(LogFile)
        /\ Len(Plan(logs)) = Len(passed) + k
        /\ \A i \in 1..(Len(passed) + k) : Plan(logs)[i] =
              IF i <= Len(passed) THEN passed[i] ELSE some[i - Len(passed)]
    <2>1. /\ passed \o some \in Seq(LogFile)
          /\ Len(passed \o some) = Len(passed) + Len(some)
          /\ \A i \in 1..(Len(passed) + Len(some)) : (passed \o some)[i] =
                IF i <= Len(passed) THEN passed[i] ELSE some[i - Len(passed)]
      <3>1. passed \in Seq(LogFile) /\ some \in Seq(LogFile)
        BY <1>2, <1>5
      <3> QED BY ONLY <3>1, ConcatProperties
    <2>2. Len(some) = k
      BY <1>5
    <2> QED BY <1>1, <2>1, <2>2
  <1>7. DOMAIN Plan(logs) = 1..(Len(passed) + k)
    BY <1>6, LenProperties
  <1>8. \A i \in DOMAIN Plan(logs) :
           \/ i \in 1..Len(passed) /\ Plan(logs)[i] = passed[i]
           \/ /\ i \notin 1..Len(passed)
              /\ i - Len(passed) \in 1..Len(failed)
              /\ Plan(logs)[i] = failed[i - Len(passed)]
    <2> SUFFICES ASSUME NEW i \in 1..(Len(passed) + k), ~(i <= Len(passed))
                 PROVE  /\ i - Len(passed) \in 1..Len(failed)
                        /\ Plan(logs)[i] = failed[i - Len(passed)]
      BY <1>2, <1>4, <1>6, <1>7
    <2>1. i - Len(passed) \in 1..k
      BY <1>2, <1>3, <1>4
    <2> QED BY <1>3, <1>4, <1>5, <1>6, <2>1
  <1>9. \A i \in DOMAIN Plan(logs) : \E j \in DOMAIN logs : Plan(logs)[i] = logs[j]
    BY <1>2, <1>3, <1>8
  <1>10. ASSUME NEW i \in DOMAIN Plan(logs), NEW j \in DOMAIN Plan(logs),
                Plan(logs)[i].run = Plan(logs)[j].run
         PROVE  i = j
    <2>1. i \in Int /\ j \in Int /\ Len(passed) \in Int
      BY <1>2, <1>4, <1>7
    <2>2. CASE i \in 1..Len(passed) /\ j \in 1..Len(passed)
      BY <1>2, <1>8, <1>10, <2>2 DEF Distinct
    <2>3. CASE i \notin 1..Len(passed) /\ j \notin 1..Len(passed)
      <3>1. i - Len(passed) = j - Len(passed)
        BY <1>3, <1>8, <1>10, <2>3 DEF Distinct
      <3> QED BY <2>1, <3>1
    <2>4. ASSUME NEW x \in 1..Len(passed), NEW y \in 1..Len(failed),
                 passed[x].run = failed[y].run
          PROVE  FALSE
      <3>1. PICK a \in P : passed[x] = logs[a]
        BY <1>2
      <3>2. PICK b \in F : failed[y] = logs[b]
        BY <1>3
      <3> QED BY <2>4, <3>1, <3>2 DEF Distinct
    <2>5. CASE i \in 1..Len(passed) /\ j \notin 1..Len(passed)
      BY <1>8, <1>10, <2>4, <2>5
    <2>6. CASE i \notin 1..Len(passed) /\ j \in 1..Len(passed)
      BY <1>8, <1>10, <2>4, <2>6
    <2> QED BY <2>2, <2>3, <2>5, <2>6
  <1>11. Distinct(Plan(logs))
    BY <1>10 DEF Distinct
  <1> QED BY <1>6, <1>9, <1>11

-----------------------------------------------------------------------------
(* Sums.                                                                   *)

\* sums[i] is the sum of the first i of the numbers.
IsSums(sums, numbers) ==
    /\ sums \in [0..Len(numbers) -> Nat]
    /\ sums[0] = 0
    /\ \A i \in 1..Len(numbers) : sums[i] = sums[i - 1] + numbers[i]

\* The total is the last of such sums, and so there are some.
LEMMA TotalIsSum ==
    ASSUME NEW numbers \in Seq(Nat)
    PROVE  \E sums : IsSums(sums, numbers) /\ Total(numbers) = sums[Len(numbers)]
  <1> DEFINE n == Len(numbers)
             step == [p \in Nat \X (1..n) |-> p[1] + numbers[p[2]]]
             Is(f) == f = [i \in 0..n |-> IF i = 0 THEN 0 ELSE f[i - 1] + numbers[i]]
             total == CHOOSE f : Is(f)
  <1>1. n \in Nat
    OBVIOUS
  <1>2. \A i \in 1..n : numbers[i] \in Nat
    OBVIOUS
  <1> HIDE DEF n
  <1>3. step \in [Nat \X (1..n) -> Nat]
    BY <1>1, <1>2
  <1>4. \A x \in Nat, i \in 1..n : step[<<x, i>>] = x + numbers[i]
    OBVIOUS
  <1>5. PICK f : GoesBy(f, Nat, n, 0, step)
    <2>1. 0 \in Nat
      OBVIOUS
    <2> HIDE DEF step, Is, total
    <2> QED BY ONLY <1>1, <1>3, <2>1, RecursionExists
  <1>6. Is(f)
    <2>1. \A i \in 0..n : i # 0 => i \in 1..n /\ i - 1 \in 0..n
      BY <1>1
    <2>2. \A i \in 0..n : f[i] = IF i = 0 THEN 0 ELSE f[i - 1] + numbers[i]
      BY <1>4, <1>5, <2>1 DEF GoesBy
    <2>3. f = [i \in 0..n |-> f[i]]
      BY <1>5 DEF GoesBy
    <2> QED BY ONLY <2>2, <2>3
  <1>7. Is(total)
    <2> HIDE DEF Is
    <2> QED BY <1>6
  <1>8. PICK t : t = total
    OBVIOUS
  <1>9. Total(numbers) = t[n]
    BY <1>8 DEF Total, n
  <1>10. t = [i \in 0..n |-> IF i = 0 THEN 0 ELSE t[i - 1] + numbers[i]]
    <2> HIDE DEF total
    <2> QED BY <1>7, <1>8
  <1> HIDE DEF Is, total
  <1>11. t[0] = 0
    BY ONLY <1>1, <1>10
  <1>12. \A i \in 1..n : t[i] = t[i - 1] + numbers[i]
    BY ONLY <1>1, <1>10
  <1>13. t = [i \in 0..n |-> t[i]]
    BY ONLY <1>10
  <1>14. \A i \in 0..n : t[i] \in Nat
    <2> DEFINE S == {i \in 0..n : t[i] \in Nat}
    <2>1. 0 \in S
      BY <1>1, <1>11
    <2>2. \A i \in 1..n : i - 1 \in S => i \in S
      BY ONLY <1>1, <1>2, <1>12
    <2>3. \A i \in 0..n : i \in S
      <3> HIDE DEF S
      <3> QED BY ONLY <1>1, <2>1, <2>2, UpTo
    <2> QED BY <2>3
  <1>15. t \in [0..n -> Nat]
    BY ONLY <1>13, <1>14
  <1> QED BY <1>9, <1>11, <1>12, <1>15 DEF IsSums, n

\* A sum of numbers is one.
LEMMA TotalType ==
    ASSUME NEW numbers \in Seq(Nat)
    PROVE  Total(numbers) \in Nat
  <1>1. PICK sums : IsSums(sums, numbers) /\ Total(numbers) = sums[Len(numbers)]
    BY TotalIsSum
  <1>2. Len(numbers) \in 0..Len(numbers)
    OBVIOUS
  <1> QED BY <1>1, <1>2 DEF IsSums

\* The sum of nothing is nothing.
LEMMA TotalOfZeros ==
    ASSUME NEW numbers \in Seq(Nat), \A i \in 1..Len(numbers) : numbers[i] = 0
    PROVE  Total(numbers) = 0
  <1> DEFINE n == Len(numbers)
  <1>0. n \in Nat
    OBVIOUS
  <1>1. PICK sums : IsSums(sums, numbers) /\ Total(numbers) = sums[n]
    BY TotalIsSum
  <1> DEFINE S == {i \in 0..n : sums[i] = 0}
  <1>2. 0 \in S
    BY <1>0, <1>1 DEF IsSums
  <1>3. \A i \in 1..n : i - 1 \in S => i \in S
    BY <1>0, <1>1 DEF IsSums
  <1>4. \A i \in 0..n : i \in S
    <2> HIDE DEF S, n
    <2> QED BY <1>0, <1>2, <1>3, UpTo
  <1>5. n \in 0..n
    BY <1>0
  <1> QED BY <1>1, <1>4, <1>5

\* The more each number is, the more is their sum.
LEMMA TotalGrows ==
    ASSUME NEW n \in Nat, NEW f \in [1..n -> Nat], NEW g \in [1..n -> Nat],
           \A i \in 1..n : f[i] <= g[i]
    PROVE  Total(f) <= Total(g)
  <1>1. f \in Seq(Nat) /\ Len(f) = n /\ g \in Seq(Nat) /\ Len(g) = n
    OBVIOUS
  <1>2. PICK sf : IsSums(sf, f) /\ Total(f) = sf[n]
    BY <1>1, TotalIsSum
  <1>3. PICK sg : IsSums(sg, g) /\ Total(g) = sg[n]
    BY <1>1, TotalIsSum
  <1> DEFINE S == {i \in 0..n : sf[i] <= sg[i]}
  <1>4. 0 \in S
    BY <1>1, <1>2, <1>3 DEF IsSums
  <1>5. ASSUME NEW i \in 1..n, i - 1 \in S
        PROVE  i \in S
    <2>1. sf[i - 1] \in Nat /\ sg[i - 1] \in Nat /\ f[i] \in Nat /\ g[i] \in Nat
      BY <1>1, <1>2, <1>3 DEF IsSums
    <2>2. sf[i] = sf[i - 1] + f[i] /\ sg[i] = sg[i - 1] + g[i]
      BY <1>1, <1>2, <1>3 DEF IsSums
    <2>3. sf[i] <= sg[i]
      BY <1>5, <2>1, <2>2
    <2> QED BY <2>3
  <1>6. \A i \in 0..n : i \in S
    <2>1. \A i \in 1..n : i - 1 \in S => i \in S
      BY <1>5
    <2> HIDE DEF S
    <2> QED BY <1>4, <2>1, UpTo
  <1>7. n \in 0..n
    OBVIOUS
  <1> QED BY <1>2, <1>3, <1>6, <1>7

\* Without one of the numbers, a sum is less by no more than that.
LEMMA TotalWithout ==
    ASSUME NEW n \in Nat, NEW f \in [1..n -> Nat], NEW c \in 1..n,
           NEW g, g = [f EXCEPT ![c] = 0]
    PROVE  Total(f) <= Total(g) + f[c]
  <1>0. g \in [1..n -> Nat] /\ g[c] = 0 /\ \A i \in 1..n : i # c => g[i] = f[i]
    OBVIOUS
  <1>1. f \in Seq(Nat) /\ Len(f) = n /\ g \in Seq(Nat) /\ Len(g) = n
    BY <1>0
  <1>2. PICK sf : IsSums(sf, f) /\ Total(f) = sf[n]
    BY <1>1, TotalIsSum
  <1>3. PICK sg : IsSums(sg, g) /\ Total(g) = sg[n]
    BY <1>1, TotalIsSum
  <1> DEFINE S == {i \in 0..n : sf[i] <= sg[i] + IF c <= i THEN f[c] ELSE 0}
  <1>4. 0 \in S
    BY <1>1, <1>2, <1>3 DEF IsSums
  <1>5. ASSUME NEW i \in 1..n, i - 1 \in S
        PROVE  i \in S
    <2>1. /\ sf[i - 1] \in Nat /\ sg[i - 1] \in Nat
          /\ f[i] \in Nat /\ g[i] \in Nat /\ f[c] \in Nat
      <3>1. i - 1 \in 0..n
        OBVIOUS
      <3>2. sf \in [0..n -> Nat] /\ sg \in [0..n -> Nat]
        BY <1>1, <1>2, <1>3 DEF IsSums
      <3> QED BY <1>0, <3>1, <3>2
    <2>2. sf[i] = sf[i - 1] + f[i] /\ sg[i] = sg[i - 1] + g[i]
      BY <1>1, <1>2, <1>3 DEF IsSums
    <2>3. sf[i - 1] <= sg[i - 1] + IF c <= i - 1 THEN f[c] ELSE 0
      BY <1>5
    <2>4. sf[i] <= sg[i] + IF c <= i THEN f[c] ELSE 0
      <3>1. CASE i = c
        <4>1. g[i] = 0 /\ f[i] = f[c] /\ ~(c <= i - 1) /\ c <= i
          BY <1>0, <3>1
        <4> QED BY <2>1, <2>2, <2>3, <4>1
      <3>2. CASE i # c
        <4>1. g[i] = f[i] /\ (c <= i <=> c <= i - 1)
          BY <1>0, <3>2
        <4> QED BY <2>1, <2>2, <2>3, <4>1
      <3> QED BY <3>1, <3>2
    <2> QED BY <2>4
  <1>6. \A i \in 0..n : i \in S
    <2>1. \A i \in 1..n : i - 1 \in S => i \in S
      BY <1>5
    <2> HIDE DEF S
    <2> QED BY <1>4, <2>1, UpTo
  <1>7. n \in 0..n /\ c <= n
    OBVIOUS
  <1>8. sf[n] <= sg[n] + f[c]
    BY <1>6, <1>7
  <1> QED BY <1>2, <1>3, <1>8

\* Each of the n numbers f, if it is not 0, is found in a list of m sizes, which
\* says of each size what number it is about.
Listed(f, n, sizes, at, m) ==
    \A c \in 1..n : f[c] # 0 => \E j \in 1..m : at[j] = c /\ f[c] <= sizes[j]

\* Numbers that are all listed add up to no more than the list does.
LEMMA TotalCovered ==
    ASSUME NEW n \in Nat, NEW f \in [1..n -> Nat],
           NEW m \in Nat, NEW sizes \in [1..m -> Nat], NEW at \in [1..m -> 1..n],
           Listed(f, n, sizes, at, m)
    PROVE  Total(f) <= Total(sizes)
  <1> DEFINE Covered(g, k) ==
                \A c \in 1..n : g[c] # 0 =>
                    \E j \in 1..k : at[j] = c /\ g[c] <= sizes[j]
  <1>1. sizes \in Seq(Nat) /\ Len(sizes) = m
    OBVIOUS
  <1>2. PICK sums : IsSums(sums, sizes) /\ Total(sizes) = sums[m]
    BY <1>1, TotalIsSum
  <1>3. /\ sums[0] = 0 /\ \A i \in 0..m : sums[i] \in Nat
        /\ \A i \in 1..m : sums[i] = sums[i - 1] + sizes[i]
    BY <1>1, <1>2 DEF IsSums
  <1> DEFINE S == {k \in 0..m : \A g \in [1..n -> Nat] :
                                    Covered(g, k) => Total(g) <= sums[k]}
  <1>4. 0 \in S
    <2>1. ASSUME NEW g \in [1..n -> Nat], Covered(g, 0) PROVE Total(g) <= sums[0]
      <3>1. g \in Seq(Nat) /\ Len(g) = n
        OBVIOUS
      <3>2. \A c \in 1..n : g[c] = 0
        BY <2>1
      <3>3. Total(g) = 0
        BY <3>1, <3>2, TotalOfZeros
      <3> QED BY <1>3, <3>3
    <2>2. 0 \in 0..m
      OBVIOUS
    <2> HIDE DEF Covered
    <2> QED BY <2>1, <2>2
  <1>5. ASSUME NEW k \in 1..m, k - 1 \in S
        PROVE  k \in S
    <2>1. ASSUME NEW g \in [1..n -> Nat], Covered(g, k) PROVE Total(g) <= sums[k]
      <3>0. /\ at[k] \in 1..n /\ sizes[k] \in Nat /\ k - 1 \in 0..m
            /\ sums[k - 1] \in Nat /\ sums[k] = sums[k - 1] + sizes[k]
        BY <1>3
      <3>1. CASE g[at[k]] <= sizes[k]
        <4>1. PICK h : h = [g EXCEPT ![at[k]] = 0]
          OBVIOUS
        <4>2. h \in [1..n -> Nat] /\ \A c \in 1..n : h[c] = IF c = at[k] THEN 0 ELSE g[c]
          BY <4>1
        <4>3. Covered(h, k - 1)
          <5> SUFFICES ASSUME NEW c \in 1..n, h[c] # 0
                       PROVE  \E j \in 1..(k - 1) : at[j] = c /\ h[c] <= sizes[j]
            OBVIOUS
          <5>1. c # at[k] /\ h[c] = g[c]
            BY <4>2
          <5>2. PICK j \in 1..k : at[j] = c /\ g[c] <= sizes[j]
            BY <2>1, <5>1
          <5>3. j \in 1..(k - 1)
            BY <5>1, <5>2
          <5> QED BY <5>1, <5>2, <5>3
        <4>4. Total(h) <= sums[k - 1]
          BY <1>5, <4>2, <4>3
        <4>5. Total(g) <= Total(h) + g[at[k]]
          BY <3>0, <4>1, TotalWithout
        <4>6. Total(g) \in Nat /\ Total(h) \in Nat /\ g[at[k]] \in Nat
          <5>1. g \in Seq(Nat)
            OBVIOUS
          <5>2. h \in Seq(Nat)
            BY ONLY n \in Nat, <4>2, ListIsSeq
          <5> QED BY <3>0, <5>1, <5>2, TotalType
        <4>7. PICK all, rest, one, before, size :
                 /\ all = Total(g) /\ rest = Total(h) /\ one = g[at[k]]
                 /\ before = sums[k - 1] /\ size = sizes[k]
          OBVIOUS
        <4>8. all <= before + size
          <5>1. /\ all \in Nat /\ rest \in Nat /\ one \in Nat /\ before \in Nat
                /\ size \in Nat
                /\ rest <= before /\ all <= rest + one /\ one <= size
            BY <3>0, <3>1, <4>4, <4>5, <4>6, <4>7
          <5> QED BY ONLY <5>1
        <4> QED BY <3>0, <4>7, <4>8
      <3>2. CASE ~(g[at[k]] <= sizes[k])
        <4>1. Covered(g, k - 1)
          <5> SUFFICES ASSUME NEW c \in 1..n, g[c] # 0
                       PROVE  \E j \in 1..(k - 1) : at[j] = c /\ g[c] <= sizes[j]
            OBVIOUS
          <5>1. PICK j \in 1..k : at[j] = c /\ g[c] <= sizes[j]
            BY <2>1
          <5>2. j \in 1..(k - 1)
            BY <3>2, <5>1
          <5> QED BY <5>1, <5>2
        <4>2. Total(g) <= sums[k - 1]
          BY <1>5, <4>1
        <4>3. Total(g) \in Nat
          <5>1. g \in Seq(Nat)
            OBVIOUS
          <5> QED BY <5>1, TotalType
        <4>4. PICK all, before, size :
                 all = Total(g) /\ before = sums[k - 1] /\ size = sizes[k]
          OBVIOUS
        <4>5. all <= before + size
          <5>1. all \in Nat /\ before \in Nat /\ size \in Nat /\ all <= before
            BY <3>0, <4>2, <4>3, <4>4
          <5> QED BY ONLY <5>1
        <4> QED BY <3>0, <4>4, <4>5
      <3> QED BY <3>1, <3>2
    <2>2. k \in 0..m
      OBVIOUS
    <2> HIDE DEF Covered
    <2> QED BY <2>1, <2>2
  <1>6. \A k \in 0..m : k \in S
    <2>1. \A k \in 1..m : k - 1 \in S => k \in S
      BY <1>5
    <2> HIDE DEF S
    <2> QED BY <1>4, <2>1, UpTo
  <1>7. m \in 0..m
    OBVIOUS
  <1>8. Covered(f, m)
    BY DEF Listed
  <1> QED BY <1>2, <1>6, <1>7, <1>8

-----------------------------------------------------------------------------
(* What the plan leaves.                                                   *)

\* The logs at the places in S, in order.
ArePicked(those, logs, S) == those = [i \in 1..Cardinality(S) |-> logs[ById(S)[i]]]

\* Picking logs by their places misses none of them.
LEMMA PickedAll ==
    ASSUME NEW logs \in Seq(LogFile), Distinct(logs),
           NEW S \in SUBSET DOMAIN logs,
           NEW those, ArePicked(those, logs, S)
    PROVE  /\ those \in Seq(LogFile)
           /\ \A j \in S : \E i \in DOMAIN those : those[i] = logs[j]
  <1>0. those = [i \in 1..Cardinality(S) |-> logs[ById(S)[i]]]
    BY DEF ArePicked
  <1>1. those \in Seq(LogFile)
    BY <1>0, PickedType
  <1>2. S \in SUBSET Nat /\ IsFiniteSet(S)
    <2>1. DOMAIN logs = 1..Len(logs) /\ Len(logs) \in Nat
      BY LenProperties
    <2>2. IsFiniteSet(1..Len(logs))
      BY <2>1, FS_Interval
    <2> QED BY <2>1, <2>2, FS_Subset
  <1>3. \A j \in S : \E i \in 1..Cardinality(S) : ById(S)[i] = j
    BY <1>2, ByIdType
  <1>4. ASSUME NEW j \in S PROVE \E i \in DOMAIN those : those[i] = logs[j]
    <2>1. PICK i \in 1..Cardinality(S) : ById(S)[i] = j
      BY <1>3
    <2>2. i \in DOMAIN those /\ those[i] = logs[j]
      BY <1>0, <2>1
    <2> QED BY <2>2
  <1> QED BY <1>1, <1>4

\* A list cut in two.
LEMMA CutInTwo ==
    ASSUME NEW T, NEW list \in Seq(T), NEW k \in 0..Len(list)
    PROVE  /\ SubSeq(list, 1, k) \in Seq(T)
           /\ DOMAIN SubSeq(list, 1, k) = 1..k
           /\ \A i \in 1..k : SubSeq(list, 1, k)[i] = list[i]
           /\ SubSeq(list, k + 1, Len(list)) \in Seq(T)
           /\ DOMAIN SubSeq(list, k + 1, Len(list)) = 1..(Len(list) - k)
           /\ Len(SubSeq(list, k + 1, Len(list))) = Len(list) - k
           /\ \A i \in 1..(Len(list) - k) :
                 SubSeq(list, k + 1, Len(list))[i] = list[k + i]
  OBVIOUS

\* Every element of a list is its first or one of the rest.
LEMMA FirstOrRest ==
    ASSUME NEW T, NEW list \in Seq(T), NEW i \in DOMAIN list
    PROVE  \/ list[i] = Head(list) /\ i = 1
           \/ i - 1 \in DOMAIN Tail(list) /\ Tail(list)[i - 1] = list[i]
  <1>1. Len(list) \in Nat /\ DOMAIN list = 1..Len(list) /\ list # <<>>
    OBVIOUS
  <1>2. CASE i = 1
    BY <1>1, <1>2
  <1>3. CASE i # 1
    <2>1. i - 1 \in 1..(Len(list) - 1) /\ i - 1 + 1 = i
      BY <1>1, <1>3
    <2>2. Len(Tail(list)) = Len(list) - 1 /\ DOMAIN Tail(list) = 1..(Len(list) - 1)
      BY <1>1
    <2> QED BY <1>1, <2>1, <2>2
  <1> QED BY <1>2, <1>3

\* What is in either of two lists is in both together.
LEMMA Joined ==
    ASSUME NEW T, NEW a \in Seq(T), NEW b \in Seq(T)
    PROVE  /\ \A i \in DOMAIN a : i \in DOMAIN (a \o b) /\ (a \o b)[i] = a[i]
           /\ \A i \in DOMAIN b : /\ Len(a) + i \in DOMAIN (a \o b)
                                  /\ (a \o b)[Len(a) + i] = b[i]
  OBVIOUS

\* A log that was found and is not planned to go is one of those that fit into
\* the budget.
LEMMA PlanKeepsBudget ==
    ASSUME NEW logs \in Seq(LogFile), Distinct(logs)
    PROVE  \E kept \in Seq(LogFile) :
              /\ Bytes(kept) <= LogBudget
              /\ \A i \in DOMAIN logs :
                    \/ \E j \in DOMAIN Plan(logs) : Plan(logs)[j] = logs[i]
                    \/ \E j \in DOMAIN kept : kept[j] = logs[i]
  <1> DEFINE P == {i \in DOMAIN logs : logs[i].passed}
             F == {i \in DOMAIN logs : ~logs[i].passed}
  <1>1. PICK passed, failed :
           /\ passed = [i \in 1..Cardinality(P) |-> logs[ById(P)[i]]]
           /\ failed = [i \in 1..Cardinality(F) |-> logs[ById(F)[i]]]
    OBVIOUS
  <1>2. Plan(logs) = passed \o SubSeq(failed, 1, Surplus(failed))
    BY <1>1 DEF Plan
  <1>3. P \in SUBSET DOMAIN logs /\ F \in SUBSET DOMAIN logs /\ DOMAIN logs = P \cup F
    OBVIOUS
  <1>4. /\ passed \in Seq(LogFile)
        /\ \A j \in P : \E i \in DOMAIN passed : passed[i] = logs[j]
    <2>1. ArePicked(passed, logs, P)
      BY <1>1 DEF ArePicked
    <2> HIDE DEF P, F
    <2> QED BY <1>3, <2>1, PickedAll
  <1>5. /\ failed \in Seq(LogFile)
        /\ \A j \in F : \E i \in DOMAIN failed : failed[i] = logs[j]
    <2>1. ArePicked(failed, logs, F)
      BY <1>1 DEF ArePicked
    <2> HIDE DEF P, F
    <2> QED BY <1>3, <2>1, PickedAll
  <1> HIDE DEF P, F
  <1>6. Len(failed) \in Nat /\ DOMAIN failed = 1..Len(failed)
    BY <1>5
  <1>7. PICK k, some, rest :
           /\ k = Surplus(failed) /\ some = SubSeq(failed, 1, k)
           /\ rest = After(k, failed)
    OBVIOUS
  <1>8. k \in 0..Len(failed) /\ (k = Len(failed) \/ Bytes(rest) <= LogBudget)
    BY <1>6, <1>7, SurplusFits
  <1>9. /\ some \in Seq(LogFile) /\ DOMAIN some = 1..k
        /\ \A i \in 1..k : some[i] = failed[i]
        /\ rest \in Seq(LogFile) /\ DOMAIN rest = 1..(Len(failed) - k)
        /\ Len(rest) = Len(failed) - k
        /\ \A i \in 1..(Len(failed) - k) : rest[i] = failed[k + i]
    <2>1. rest = SubSeq(failed, k + 1, Len(failed))
      BY <1>7 DEF After
    <2>2. some = SubSeq(failed, 1, k)
      BY <1>7
    <2>3. k \in 0..Len(failed)
      BY <1>8
    <2>4. failed \in Seq(LogFile)
      BY <1>5
    <2> QED BY ONLY <2>1, <2>2, <2>3, <2>4, CutInTwo
  <1>10. PICK plan : plan = Plan(logs)
    OBVIOUS
  <1>11. /\ \A i \in DOMAIN passed : \E j \in DOMAIN plan : plan[j] = passed[i]
         /\ \A i \in DOMAIN some : \E j \in DOMAIN plan : plan[j] = some[i]
    <2>1. plan = passed \o some
      BY <1>2, <1>7, <1>10
    <2>2. passed \in Seq(LogFile) /\ some \in Seq(LogFile)
      BY <1>4, <1>9
    <2>3. /\ \A i \in DOMAIN passed : i \in DOMAIN plan /\ plan[i] = passed[i]
          /\ \A i \in DOMAIN some : /\ Len(passed) + i \in DOMAIN plan
                                    /\ plan[Len(passed) + i] = some[i]
      BY ONLY <2>1, <2>2, Joined
    <2> QED BY ONLY <2>3
  <1>12. ASSUME NEW i \in DOMAIN logs,
                ~\E j \in DOMAIN plan : plan[j] = logs[i]
         PROVE  \E j \in DOMAIN rest : rest[j] = logs[i]
    <2>1. i \in F
      BY <1>3, <1>4, <1>11, <1>12
    <2>2. PICK x \in 1..Len(failed) : failed[x] = logs[i]
      BY <1>5, <1>6, <2>1
    <2>3. x \notin 1..k
      BY <1>9, <1>11, <1>12, <2>2
    <2>4. x - k \in 1..(Len(failed) - k) /\ k + (x - k) = x
      <3>1. PICK n : n = Len(failed)
        OBVIOUS
      <3>2. n \in Nat /\ k \in 0..n /\ x \in 1..n /\ x \notin 1..k
        BY <1>6, <1>8, <2>3, <3>1
      <3>3. x - k \in 1..(n - k) /\ k + (x - k) = x
        BY ONLY <3>2
      <3> QED BY <3>1, <3>3
    <2> QED BY <1>9, <2>2, <2>4
  <1>13. CASE Bytes(rest) <= LogBudget
    BY <1>9, <1>10, <1>12, <1>13
  <1>14. CASE ~(Bytes(rest) <= LogBudget)
    <2>1. k = Len(failed)
      BY <1>8, <1>14
    <2>2. Len(rest) = 0 /\ DOMAIN rest = 1..0
      BY ONLY <1>6, <1>9, <2>1
    <2>3. Bytes(rest) = 0
      <3>1. PICK sizes : sizes = [i \in DOMAIN rest |-> rest[i].bytes]
        OBVIOUS
      <3>2. sizes \in [1..0 -> Nat]
        BY <2>2, <3>1
      <3>3. sizes \in Seq(Nat) /\ Len(sizes) = 0
        BY ONLY <3>2, ListIsSeq
      <3>4. Total(sizes) = 0
        <4>1. \A i \in 1..Len(sizes) : sizes[i] = 0
          BY ONLY <3>3
        <4> QED BY ONLY <3>3, <4>1, TotalOfZeros
      <3> QED BY <3>1, <3>4 DEF Bytes
    <2> QED BY <1>14, <2>3, RetentionAssumption
  <1> QED BY <1>13, <1>14

-----------------------------------------------------------------------------
(* Types.                                                                  *)

\* What the types say of each row and each process.
LEMMA RowTypes ==
    ASSUME TypeOK
    PROVE  /\ DOMAIN runs = 1..Len(runs) /\ Len(runs) \in Nat
           /\ \A r \in DOMAIN runs :
                 /\ runs[r] \in RunRow /\ runs[r].cand \in CandidateId
                 /\ runs[r].exec \in Nat /\ runs[r].passed \in BOOLEAN
                 /\ runs[r].tail \in Nat /\ runs[r].logged \in BOOLEAN
           /\ DOMAIN execs = 1..Len(execs) /\ Len(execs) \in Nat
           /\ \A x \in DOMAIN execs : execs[x] \in CandidateId
           /\ \A c \in OnDisk : c \in CandidateId /\ files[c] \in File
                                /\ files[c].exec \in Execution
  <1>1. runs \in Seq(RunRow) /\ execs \in Seq(CandidateId)
    BY DEF TypeOK
  <1>2. \A r \in DOMAIN runs : runs[r] \in RunRow
    BY <1>1
  <1>3. \A row \in RunRow :
           /\ row.cand \in CandidateId /\ row.exec \in Nat
           /\ row.passed \in BOOLEAN
           /\ row.tail \in Nat /\ row.logged \in BOOLEAN
    BY DEF RunRow, Execution, NoTail
  <1>4. \A c \in OnDisk : c \in CandidateId /\ files[c] \in File
    BY DEF OnDisk, TypeOK
  <1>5. \A file \in File : file.exec \in Execution
    BY DEF File
  <1> QED BY <1>1, <1>2, <1>3, <1>4, <1>5

\* There are finitely many rows.
LEMMA FiniteRows ==
    ASSUME TypeOK, NEW S \in SUBSET DOMAIN runs
    PROVE  S \in SUBSET Nat /\ IsFiniteSet(S)
  <1>1. DOMAIN runs = 1..Len(runs) /\ Len(runs) \in Nat
    BY RowTypes
  <1>2. IsFiniteSet(1..Len(runs))
    BY ONLY <1>1, FS_Interval
  <1>3. IsFiniteSet(S)
    <2>1. S \in SUBSET (1..Len(runs))
      BY <1>1
    <2> QED BY ONLY <1>2, <2>1, FS_Subset
  <1> QED BY <1>1, <1>3

\* What they say of what a process remembers.
LEMMA MemoryTypes ==
    ASSUME TypeOK, NEW p \in Process
    PROVE  /\ proc \in [Process -> Memory] /\ proc[p] \in Memory
           /\ proc[p].todo \in Seq(Nat)
           /\ proc[p].found \in Seq(LogFile) /\ proc[p].left \in Seq(LogFile)
           /\ proc[p].tail \in Execution \cup {NoTail}
           /\ proc[p].passed \in BOOLEAN
  BY DEF TypeOK, Memory

\* Nothing in memory is well typed.
LEMMA RestingType ==
    /\ Resting \in Memory
    /\ \A pc \in Applying \cup Gating : [Resting EXCEPT !.pc = pc] \in Memory
  <1>1. <<>> \in Seq(Nat) /\ <<>> \in Seq(LogFile)
    OBVIOUS
  <1> QED BY <1>1 DEF Resting, Memory, NoTail, Applying, Gating

\* Only the memory of p changes, and it stays well typed.
LEMMA MemoryStep ==
    ASSUME TypeOK, NEW p \in Process, NEW memory \in Memory,
           proc' = [proc EXCEPT ![p] = memory],
           UNCHANGED <<cand, execs, runs, files>>,
           orphan' \in BOOLEAN, spent' \in [Event -> Nat]
    PROVE  TypeOK'
  BY DEF TypeOK

\* The same, when nothing goes wrong either.
LEMMA StepOfMemory ==
    ASSUME TypeOK, NEW p \in Process, NEW memory \in Memory,
           proc' = [proc EXCEPT ![p] = memory],
           UNCHANGED <<cand, execs, runs, files, orphan, spent>>
    PROVE  TypeOK'
  <1>1. orphan' \in BOOLEAN /\ spent' \in [Event -> Nat]
    BY DEF TypeOK
  <1> QED BY <1>1, MemoryStep

\* The counters of mishaps stay numbers.
LEMMA SpendType ==
    ASSUME spent \in [Event -> Nat], NEW event \in Event, Spend(event)
    PROVE  spent' \in [Event -> Nat]
  BY DEF Spend, Event

\* Forgetting a log changes its row, and only that.
LEMMA ForgottenType ==
    ASSUME TypeOK, NEW r \in DOMAIN runs, NEW tail \in Execution \cup {NoTail},
           Forgotten(r, tail)
    PROVE  /\ runs' \in Seq(RunRow)
           /\ Len(runs') = Len(runs) /\ DOMAIN runs' = DOMAIN runs
           /\ \A s \in DOMAIN runs :
                 runs'[s] = IF s = r THEN [runs[s] EXCEPT !.logged = FALSE,
                                                          !.tail = tail]
                            ELSE runs[s]
  <1> DEFINE row == [runs[r] EXCEPT !.logged = FALSE, !.tail = tail]
  <1>1. runs[r] \in RunRow /\ runs \in Seq(RunRow) /\ r \in 1..Len(runs)
    BY RowTypes DEF TypeOK
  <1>2. row \in RunRow
    BY <1>1 DEF RunRow
  <1>3. runs' = [runs EXCEPT ![r] = row]
    BY DEF Forgotten
  <1> HIDE DEF row
  <1>4. /\ runs' \in Seq(RunRow) /\ Len(runs') = Len(runs)
        /\ \A s \in 1..Len(runs) : runs'[s] = IF s = r THEN row ELSE runs[s]
    <2>1. runs \in [1..Len(runs) -> RunRow] /\ Len(runs) \in Nat
      BY <1>1
    <2>2. runs' \in [1..Len(runs) -> RunRow]
      BY ONLY <1>2, <1>3, <2>1
    <2>3. runs' \in Seq(RunRow) /\ Len(runs') = Len(runs)
      BY ONLY <2>1, <2>2, ListIsSeq
    <2>4. \A s \in 1..Len(runs) : runs'[s] = IF s = r THEN row ELSE runs[s]
      BY ONLY <1>3, <2>1
    <2> QED BY ONLY <2>3, <2>4
  <1>5. DOMAIN runs = 1..Len(runs) /\ DOMAIN runs' = DOMAIN runs
    <2>1. runs \in [1..Len(runs) -> RunRow] /\ Len(runs) \in Nat
      BY <1>1
    <2> QED BY ONLY <1>3, <2>1
  <1> QED BY ONLY <1>4, <1>5 DEF row

\* Survey, the sizes, the plan and what is done about it.
LEMMA ApplyType ==
    ASSUME TypeOK, Sound, NEW p \in Process, Apply(p) \/ StartPrune(p)
    PROVE  TypeOK'
  <1> USE MemoryTypes, RowTypes
  <1>0. Holds(p)
    BY DEF Sound
  <1>1. CASE Survey(p)
    <2> DEFINE S == {r \in DOMAIN runs :
                        runs[r].logged /\ cand[runs[r].cand] = "settled"}
    <2>1. S \in SUBSET Nat /\ IsFiniteSet(S)
      BY FiniteRows
    <2>2. /\ Cardinality(S) \in Nat
          /\ LoggedRuns \in [1..Cardinality(S) -> S]
      BY <2>1, ByIdType DEF LoggedRuns
    <2>4. LoggedRuns \in [1..Cardinality(S) -> Nat]
      <3> HIDE DEF S
      <3> QED BY ONLY <2>1, <2>2
    <2>5. LoggedRuns \in Seq(Nat)
      BY ONLY <2>2, <2>4, ListIsSeq
    <2>3. PICK memory : memory = [proc[p] EXCEPT !.pc = "size", !.todo = LoggedRuns]
      OBVIOUS
    <2>6. memory \in Memory
      BY <2>3, <2>5 DEF Memory, Applying
    <2>7. /\ proc' = [proc EXCEPT ![p] = memory]
          /\ UNCHANGED <<cand, execs, runs, files, orphan, spent>>
      BY <1>1, <2>3 DEF Survey
    <2> QED BY ONLY TypeOK, p \in Process, <2>6, <2>7, StepOfMemory
  <1>2. CASE SizeOfNext(p)
    <2> DEFINE r == Head(proc[p].todo)
               c == runs[r].cand
               log == [run |-> r, cand |-> c, bytes |-> files[c].bytes,
                       passed |-> runs[r].passed]
    <2>0. proc[p].todo \in Seq(Nat) /\ proc[p].todo # <<>>
      BY <1>2 DEF SizeOfNext
    <2>1. Tail(proc[p].todo) \in Seq(Nat)
      BY ONLY <2>0
    <2>2. r \in DOMAIN runs
      <3>1. 1 \in DOMAIN proc[p].todo /\ r = proc[p].todo[1]
        BY ONLY <2>0
      <3> QED BY <1>0, <3>1 DEF Holds
    <2>3. CASE c \in OnDisk
      <3>1. log \in LogFile
        BY <2>2, <2>3 DEF LogFile, File
      <3>2. Append(proc[p].found, log) \in Seq(LogFile)
        BY <3>1
      <3>3. PICK memory : memory = [proc[p] EXCEPT
                    !.todo = Tail(proc[p].todo), !.found = Append(proc[p].found, log)]
        OBVIOUS
      <3>4. memory \in Memory
        BY <2>1, <3>2, <3>3 DEF Memory
      <3>5. /\ proc' = [proc EXCEPT ![p] = memory]
            /\ UNCHANGED <<cand, execs, runs, files, orphan, spent>>
        BY <1>2, <2>3, <3>3 DEF SizeOfNext
      <3> QED BY ONLY TypeOK, p \in Process, <3>4, <3>5, StepOfMemory
    <2>4. CASE c \notin OnDisk
      <3>1. [proc[p] EXCEPT !.todo = Tail(@)] \in Memory
        BY <2>1 DEF Memory
      <3>2. runs' \in Seq(RunRow)
        BY <1>2, <2>2, <2>4, ForgottenType DEF SizeOfNext
      <3> QED BY <1>2, <2>4, <3>1, <3>2 DEF SizeOfNext, TypeOK
    <2> QED BY <2>3, <2>4
  <1>3. CASE Decide(p)
    <2>1. Plan(proc[p].found) \in Seq(LogFile)
      BY <1>0, PlanType DEF Holds
    <2>2. PICK memory : memory = [proc[p] EXCEPT
                  !.pc = "remove", !.left = Plan(proc[p].found)]
      OBVIOUS
    <2>3. memory \in Memory
      BY <2>1, <2>2 DEF Memory, Applying
    <2>4. /\ proc' = [proc EXCEPT ![p] = memory]
          /\ UNCHANGED <<cand, execs, runs, files, orphan, spent>>
      BY <1>3, <2>2 DEF Decide
    <2> QED BY ONLY TypeOK, p \in Process, <2>3, <2>4, StepOfMemory
  <1>4. CASE ReadTail(p)
    <2> DEFINE log == Head(proc[p].left)
               tail == IF log.passed THEN NoTail ELSE LastLines(log.cand)
    <2>1. tail \in Execution \cup {NoTail}
      BY DEF LastLines
    <2>2. PICK memory : memory = [proc[p] EXCEPT !.pc = "forget", !.tail = tail]
      OBVIOUS
    <2>3. memory \in Memory
      BY <2>1, <2>2 DEF Memory, Applying
    <2>4. /\ proc' = [proc EXCEPT ![p] = memory]
          /\ UNCHANGED <<cand, execs, runs, files, orphan, spent>>
      BY <1>4, <2>2 DEF ReadTail
    <2> QED BY ONLY TypeOK, p \in Process, <2>3, <2>4, StepOfMemory
  <1>5. CASE ForgetLog(p)
    <2>1. Head(proc[p].left).run \in DOMAIN runs
      <3>1. proc[p].left # <<>> /\ proc[p].left \in Seq(LogFile)
        BY <1>0, <1>5 DEF Holds, ForgetLog, At
      <3>2. 1 \in DOMAIN proc[p].left /\ Head(proc[p].left) = proc[p].left[1]
        BY ONLY <3>1
      <3> QED BY <1>0, <3>2 DEF Holds, Surveyed
    <2>2. runs' \in Seq(RunRow)
      BY <1>5, <2>1, ForgottenType DEF ForgetLog
    <2>3. [proc[p] EXCEPT !.pc = "unlink"] \in Memory
      BY DEF Memory, Applying
    <2> QED BY <1>5, <2>2, <2>3 DEF ForgetLog, Goto, TypeOK
  <1>6. CASE RemoveFile(p)
    <2>1. Tail(proc[p].left) \in Seq(LogFile)
      BY <1>0, <1>6 DEF Holds, RemoveFile, At
    <2>2. [proc[p] EXCEPT !.pc = "remove", !.left = Tail(@)] \in Memory
      BY <2>1 DEF Memory, Applying
    <2>3. files' \in [CandidateId -> File \cup {NoFile}]
      BY <1>6 DEF RemoveFile, TypeOK
    <2> QED BY <1>6, <2>2, <2>3 DEF RemoveFile, TypeOK
  <1>7. CASE FindFileGone(p) \/ ReportDryRun(p)
    BY <1>7, MemoryStep, RestingType DEF FindFileGone, ReportDryRun, Finish, TypeOK
  <1>8. CASE Applied(p)
    <2>1. [Resting EXCEPT !.pc = IF p = Worker THEN "look" ELSE "idle"] \in Memory
      BY RestingType DEF Resting, Memory, Gating
    <2> QED BY <1>8, <2>1, MemoryStep DEF Applied, TypeOK
  <1>9. CASE StartPrune(p)
    <2>1. [proc[p] EXCEPT !.pc = "survey"] \in Memory
      BY DEF Memory, Applying
    <2>2. spent' \in [Event -> Nat]
      BY <1>9, SpendType DEF StartPrune, TypeOK, Event
    <2> QED BY <1>9, <2>1, <2>2, MemoryStep DEF StartPrune, Goto, TypeOK
  <1> QED BY <1>1, <1>2, <1>3, <1>4, <1>5, <1>6, <1>7, <1>8, <1>9 DEF Apply

\* A candidate in flight is the only one.
LEMMA OneActive ==
    ASSUME Sound, proc[Worker].pc \in Gated
    PROVE  \E c \in CandidateId : Active = {c}
  <1>1. PICK c \in Active : TRUE
    BY DEF Sound, Flight
  <1>2. \A d \in Active : d = c
    BY DEF Sound, Flight
  <1>3. c \in CandidateId
    BY DEF Active
  <1>4. Active = {c}
    BY <1>1, <1>2
  <1> QED BY <1>3, <1>4

\* The gate of one candidate is one execution.
LEMMA ListOfOne ==
    ASSUME NEW c
    PROVE  SetToSeq({c}) = <<c>>
  <1>1. Cardinality({c}) = 1
    BY FS_Singleton
  <1>2. SetToSeq({c}) = CHOOSE f \in [1..1 -> {c}] : IsInjective(f)
    BY <1>1 DEF SetToSeq
  <1>3. <<c>> \in [1..1 -> {c}] /\ IsInjective(<<c>>)
    BY DEF IsInjective
  <1>4. SetToSeq({c}) \in [1..1 -> {c}]
    BY <1>2, <1>3
  <1> QED BY <1>4

\* The execution the gate starts.
LEMMA OneMoreExecution ==
    ASSUME TypeOK, Sound, GateStarts
    PROVE  \E c \in CandidateId :
              /\ Active = {c}
              /\ execs' = Append(execs, c)
              /\ Len(execs) + 1 \in Execution
              /\ files' = [files EXCEPT ![c] = [exec |-> Len(execs) + 1,
                                               bytes |-> 0]]
  <1>1. PICK c \in CandidateId : Active = {c}
    BY OneActive DEF GateStarts, At, Gated
  <1>2. execs \in Seq(CandidateId) /\ Len(execs) \in Nat
    BY DEF TypeOK
  <1>3. execs' = Append(execs, c)
    <2>1. execs' = execs \o <<c>>
      BY <1>1, ListOfOne DEF GateStarts
    <2> QED BY ONLY <1>1, <1>2, <2>1
  <1>4. Len(execs) + 1 \in Execution
    BY <1>2, RetentionAssumption DEF Sound, Flight, GateStarts, At, Execution
  <1>5. files' = [files EXCEPT ![c] = [exec |-> Len(execs) + 1, bytes |-> 0]]
    BY <1>1 DEF GateStarts, TypeOK
  <1> QED BY <1>1, <1>3, <1>4, <1>5

\* What the gate wrote, and what record_run makes of it.
LEMMA OneMoreRow ==
    ASSUME TypeOK, Sound, RecordRun
    PROVE  \E c \in CandidateId :
              /\ Active = {c} /\ c \in OnDisk
              /\ Latest(c, Len(execs)) /\ Len(execs) \in Execution
              /\ runs' = Append(runs, [cand |-> c, exec |-> Len(execs),
                                      passed |-> proc[Worker].passed,
                                      logged |-> TRUE, tail |-> NoTail])
  <1>1. PICK c \in CandidateId : Active = {c}
    BY OneActive DEF RecordRun, At, Gated
  <1>2. c \in OnDisk /\ files[c].exec = Len(execs)
    BY <1>1 DEF Sound, Flight, RecordRun, At
  <1>3. Latest(c, Len(execs))
    BY <1>2 DEF Sound, Tables
  <1>4. Len(execs) \in Execution
    BY <1>2, RowTypes
  <1> QED BY <1>1, <1>2, <1>3, <1>4 DEF RecordRun

\* Sizes are numbers, whatever the gate prints.
LEMMA CappedType ==
    ASSUME NEW output \in Output
    PROVE  CappedSize(output) \in Nat
  <1>1. MaxLogSize \in Nat /\ Marker \in Nat /\ output \in Nat
    BY RetentionAssumption
  <1>2. MaxLogSize \div 2 \in Nat
    BY <1>1
  <1>3. Half \in Nat
    BY <1>2 DEF Half
  <1> QED BY <1>1, <1>3 DEF CappedSize

\* The rest of a tick.
LEMMA TickType ==
    ASSUME TypeOK, Sound, TickRest
    PROVE  TypeOK'
  <1> DEFINE w == proc[Worker]
  <1>0. Worker \in Process
    BY DEF Process
  <1>1. /\ proc \in [Process -> Memory] /\ w \in Memory
        /\ \A pc \in Applying \cup Gating : [w EXCEPT !.pc = pc] \in Memory
        /\ \A passed \in BOOLEAN :
              [w EXCEPT !.pc = "record", !.passed = passed] \in Memory
    BY <1>0, MemoryTypes DEF Memory, Applying, Gating
  <1>2. CASE StartTick
    <2>1. [w EXCEPT !.pc = "survey"] \in Memory
      BY <1>1 DEF Applying
    <2> QED BY <1>0, <1>2, <2>1 DEF StartTick, Goto, TypeOK
  <1>3. CASE FindNothingQueued
    BY <1>0, <1>3, MemoryStep, RestingType DEF FindNothingQueued, Finish, TypeOK
  <1>4. CASE Open
    <2>1. [w EXCEPT !.pc = "gate"] \in Memory
      BY <1>1 DEF Gating
    <2> QED BY <1>0, <1>4, <2>1 DEF Open, Goto, TypeOK
  <1>5. CASE Resume
    <2>1. [w EXCEPT !.pc = "gate"] \in Memory
      BY <1>1 DEF Gating
    <2> QED BY <1>0, <1>5, <2>1, MemoryStep DEF Resume, Goto, TypeOK
  <1>6. CASE SettleUngated
    BY <1>0, <1>6, RestingType DEF SettleUngated, SettleActive, Finish, TypeOK
  <1>7. CASE GateStarts
    <2>1. PICK c \in CandidateId :
             /\ execs' = Append(execs, c)
             /\ Len(execs) + 1 \in Execution
             /\ files' = [files EXCEPT ![c] = [exec |-> Len(execs) + 1,
                                              bytes |-> 0]]
      BY <1>7, OneMoreExecution
    <2>2. [w EXCEPT !.pc = "run"] \in Memory
      BY <1>1 DEF Gating
    <2>3. execs' \in Seq(CandidateId)
      BY <2>1 DEF TypeOK
    <2>4. [exec |-> Len(execs) + 1, bytes |-> 0] \in File
      BY <2>1 DEF File
    <2>5. files' \in [CandidateId -> File \cup {NoFile}]
      BY <2>1, <2>4 DEF TypeOK
    <2> QED BY <1>0, <1>7, <2>2, <2>3, <2>5 DEF GateStarts, Goto, TypeOK
  <1>8. CASE GateEnds
    <2>1. PICK output \in Output :
             files' = [c \in CandidateId |->
                         IF c \in Active
                         THEN [files[c] EXCEPT !.bytes = CappedSize(output)]
                         ELSE files[c]]
      BY <1>8 DEF GateEnds
    <2>2. ASSUME NEW c \in Active
          PROVE  [files[c] EXCEPT !.bytes = CappedSize(output)] \in File
      <3>1. files[c] \in File
        BY <1>8, RowTypes DEF Sound, Flight, GateEnds, At
      <3> QED BY <3>1, CappedType DEF File
    <2>3. files' \in [CandidateId -> File \cup {NoFile}]
      BY <2>1, <2>2 DEF TypeOK
    <2>4. proc' \in [Process -> Memory]
      BY <1>0, <1>1, <1>8 DEF GateEnds
    <2> QED BY <1>8, <2>3, <2>4 DEF GateEnds, TypeOK
  <1>9. CASE RecordRun
    <2>1. PICK c \in CandidateId :
             /\ Len(execs) \in Execution
             /\ runs' = Append(runs, [cand |-> c, exec |-> Len(execs),
                                     passed |-> w.passed,
                                     logged |-> TRUE, tail |-> NoTail])
      BY <1>9, OneMoreRow
    <2>2. w.passed \in BOOLEAN
      BY <1>0, MemoryTypes
    <2>3. [cand |-> c, exec |-> Len(execs), passed |-> w.passed,
           logged |-> TRUE, tail |-> NoTail] \in RunRow
      BY <2>1, <2>2 DEF RunRow
    <2>4. runs' \in Seq(RunRow)
      BY <2>1, <2>3 DEF TypeOK
    <2>5. [w EXCEPT !.pc = "settle"] \in Memory
      BY <1>1 DEF Gating
    <2> QED BY <1>0, <1>9, <2>4, <2>5 DEF RecordRun, Goto, TypeOK
  <1>10. CASE Settle
    BY <1>0, <1>10, RestingType DEF Settle, SettleActive, Finish, TypeOK
  <1> QED BY <1>2, <1>3, <1>4, <1>5, <1>6, <1>7, <1>8, <1>9, <1>10 DEF TickRest

\* Every step is well typed.
LEMMA TypeStep ==
    ASSUME TypeOK, Sound, Next
    PROVE  TypeOK'
  <1>1. ASSUME NEW p \in Process, TickFails(p) \/ Crash(p)
        PROVE  TypeOK'
    <2>1. spent' \in [Event -> Nat]
      BY <1>1, SpendType DEF TickFails, Crash, TypeOK, Event
    <2>2. orphan' \in BOOLEAN
      BY <1>1 DEF TickFails, Crash, TypeOK
    <2> QED BY <1>1, <2>1, <2>2, MemoryStep, RestingType DEF TickFails, Crash, Finish
  <1> QED BY <1>1, ApplyType, TickType DEF Next

-----------------------------------------------------------------------------
(* What was found stays true.                                              *)

\* Nothing is unsettled, and rows and executions are only appended.
Onward ==
    /\ \A c \in CandidateId : cand[c] = "settled" => cand'[c] = "settled"
    /\ \A c \in CandidateId : cand[c] # "absent" => cand'[c] # "absent"
    /\ \A x \in DOMAIN execs : x \in DOMAIN execs' /\ execs'[x] = execs[x]
    /\ \A r \in DOMAIN runs :
          /\ r \in DOMAIN runs' /\ runs'[r].cand = runs[r].cand
          /\ runs'[r].exec = runs[r].exec /\ runs'[r].passed = runs[r].passed

\* What apply may do to a candidate, a row and a file.
Trimmed ==
    /\ UNCHANGED <<cand, execs>>
    /\ \A c \in CandidateId :
          \/ files'[c] = files[c]
          \/ files'[c] = NoFile /\ cand[c] = "settled"
    /\ DOMAIN runs' = DOMAIN runs
    /\ \A r \in DOMAIN runs :
          /\ runs'[r].cand = runs[r].cand /\ runs'[r].exec = runs[r].exec
          /\ runs'[r].passed = runs[r].passed
          /\ runs'[r].tail = runs[r].tail \/ TailOf(runs'[r].tail, r)
          /\ runs'[r].logged = runs[r].logged \/ cand[runs[r].cand] = "settled"

\* Apply only goes on.
LEMMA TrimmedIsOnward ==
    ASSUME Trimmed PROVE Onward
  BY DEF Trimmed, Onward

\* Leaving the tables alone is the least it may do.
LEMMA UntouchedIsTrimmed ==
    ASSUME UNCHANGED <<cand, execs, runs, files>> PROVE Trimmed
  BY DEF Trimmed

\* Forgetting the log of a settled candidate is within what it may do.
LEMMA ForgottenIsTrimmed ==
    ASSUME TypeOK, NEW r \in DOMAIN runs, NEW tail \in Execution \cup {NoTail},
           Forgotten(r, tail), cand[runs[r].cand] = "settled", TailOf(tail, r),
           UNCHANGED <<cand, execs, files>>
    PROVE  /\ Trimmed
           /\ ~runs'[r].logged /\ runs'[r].tail = tail
           /\ \A s \in DOMAIN runs : s # r => runs'[s] = runs[s]
  <1>1. /\ DOMAIN runs' = DOMAIN runs
        /\ \A s \in DOMAIN runs :
              runs'[s] = IF s = r THEN [runs[s] EXCEPT !.logged = FALSE,
                                                       !.tail = tail]
                         ELSE runs[s]
    BY ForgottenType
  <1>2. runs[r] \in RunRow
    BY RowTypes
  <1>3. /\ runs'[r].cand = runs[r].cand /\ runs'[r].exec = runs[r].exec
        /\ runs'[r].passed = runs[r].passed
        /\ runs'[r].logged = FALSE /\ runs'[r].tail = tail
    BY <1>1, <1>2 DEF RunRow
  <1>4. \A s \in DOMAIN runs : s # r => runs'[s] = runs[s]
    BY <1>1
  <1> QED BY <1>1, <1>3, <1>4 DEF Trimmed

\* What was found is true after the step as well.
StillSurveyed(log) ==
    /\ log.run \in DOMAIN runs'
    /\ log.cand = runs'[log.run].cand
    /\ log.passed = runs'[log.run].passed
    /\ cand'[log.cand] = "settled"

\* A survey outlives every step of everybody else.
LEMMA SurveyStays ==
    ASSUME TypeOK, Onward, NEW log, Surveyed(log)
    PROVE  StillSurveyed(log)
  BY RowTypes DEF Onward, Surveyed, StillSurveyed

\* So does a tail that was read.
LEMMA TailStays ==
    ASSUME Onward, NEW r \in DOMAIN runs, NEW x, TailOf(x, r), x # NoTail
    PROVE  x \in DOMAIN execs' /\ execs'[x] = runs'[r].cand /\ x >= runs'[r].exec
  BY DEF Onward, TailOf

\* A process that is not at it keeps what it holds.
LEMMA HoldingStays ==
    ASSUME TypeOK, Onward, NEW q \in Process, Holds(q), proc'[q] = proc[q]
    PROVE  Holds(q)'
  <1> DEFINE todo == proc[q].todo
             found == proc[q].found
             left == proc[q].left
  <1>0. \A r \in DOMAIN runs : runs[r].cand \in CandidateId
    BY RowTypes
  <1>1. \A i \in DOMAIN todo :
           todo[i] \in DOMAIN runs' /\ cand'[runs'[todo[i]].cand] = "settled"
    BY <1>0 DEF Holds, Onward
  <1>2. (\A i \in DOMAIN found : Surveyed(found[i]))'
    <2>1. \A i \in DOMAIN found : StillSurveyed(found[i])
      BY SurveyStays DEF Holds
    <2> QED BY <2>1 DEF Surveyed, StillSurveyed
  <1>3. (\A i \in DOMAIN left : Surveyed(left[i]))'
    <2>1. \A i \in DOMAIN left : StillSurveyed(left[i])
      BY SurveyStays DEF Holds
    <2> QED BY <2>1 DEF Surveyed, StillSurveyed
  <1>4. proc[q].pc = "forget" => TailOf(proc[q].tail, Head(left).run)'
    <2> SUFFICES ASSUME proc[q].pc = "forget", proc[q].tail # NoTail
                 PROVE  TailOf(proc[q].tail, Head(left).run)'
      BY DEF TailOf
    <2>1. PICK x, r : x = proc[q].tail /\ r = Head(left).run
      OBVIOUS
    <2>2. TailOf(x, r) /\ x # NoTail
      BY <2>1 DEF Holds
    <2>3. left \in Seq(LogFile) /\ left # <<>>
      BY MemoryTypes DEF Holds
    <2>4. 1 \in DOMAIN left /\ Head(left) = left[1]
      BY ONLY <2>3
    <2>5. r \in DOMAIN runs
      BY <2>1, <2>4 DEF Holds, Surveyed
    <2>6. x \in DOMAIN execs' /\ execs'[x] = runs'[r].cand /\ x >= runs'[r].exec
      BY <2>2, <2>5, TailStays
    <2> QED BY <2>1, <2>6 DEF TailOf
  <1> QED BY <1>1, <1>2, <1>3, <1>4 DEF Holds, Distinct

\* A process that ticks on holds nothing yet.
LEMMA EmptyHanded ==
    ASSUME NEW q \in Process,
           proc'[q].todo = <<>>, proc'[q].found = <<>>, proc'[q].left = <<>>,
           proc'[q].pc \notin Removing,
           q \in Prune => proc'[q].pc \in {"idle"} \cup Applying
    PROVE  Holds(q)'
  <1>1. DOMAIN <<>> = {}
    OBVIOUS
  <1> QED BY ONLY <1>1, proc'[q].todo = <<>>, proc'[q].found = <<>>,
            proc'[q].left = <<>>, proc'[q].pc \notin Removing,
            q \in Prune => proc'[q].pc \in {"idle"} \cup Applying
          DEF Holds, Distinct, Removing

-----------------------------------------------------------------------------
(* Apply is sound.                                                         *)

\* If a process does no more to the tables than it may, and holds what is
\* true, everything else stays as it should be.
LEMMA TrimmedIsSound ==
    ASSUME TypeOK, Sound, Trimmed, NEW p \in Process, Holds(p)',
           \A q \in Process \ {p} : proc'[q] = proc[q],
           proc'[p].pc \notin Gated
    PROVE  Sound'
  <1>1. \A q \in Process : Holds(q)'
    BY HoldingStays, TrimmedIsOnward DEF Sound
  <1>2. /\ Active' = Active /\ execs' = execs /\ cand' = cand
        /\ DOMAIN runs' = DOMAIN runs
    BY DEF Active, Trimmed
  <1>3. \A c \in OnDisk' : c \in OnDisk /\ files'[c] = files[c]
    BY DEF OnDisk, Trimmed
  <1>4. \A c \in Active : files'[c] = files[c] /\ (c \in OnDisk => c \in OnDisk')
    BY DEF OnDisk, Active, Trimmed
  <1>5. Tables'
    <2>1. \A c \in OnDisk' : Latest(c, files[c].exec)'
      BY <1>2, <1>3 DEF Sound, Tables, Latest
    <2>2. ASSUME NEW r \in DOMAIN runs
          PROVE  /\ runs'[r].exec \in DOMAIN execs
                 /\ execs[runs'[r].exec] = runs'[r].cand
                 /\ TailOf(runs[r].tail, r)'
                 /\ cand[runs'[r].cand] = "active" => runs'[r].logged
      BY <1>2 DEF Sound, Tables, Trimmed, TailOf
    <2>3. \A r, s \in DOMAIN runs : runs'[r].exec = runs'[s].exec => r = s
      BY DEF Sound, Tables, Trimmed
    <2> QED BY <1>2, <2>1, <2>2, <2>3 DEF Sound, Tables
  <1>6. Flight'
    <2>1. CASE p = Worker
      BY <1>2, <2>1 DEF Sound, Flight, Gated
    <2>2. CASE p # Worker
      <3>1. proc'[Worker] = proc[Worker]
        BY <2>2 DEF Process
      <3>2. \A r \in DOMAIN runs :
               runs'[r].exec = runs[r].exec /\ runs'[r].cand = runs[r].cand
        BY DEF Trimmed
      <3> QED BY <1>2, <1>4, <3>1, <3>2 DEF Sound, Flight
    <2> QED BY <2>1, <2>2
  <1> QED BY <1>1, <1>5, <1>6 DEF Sound

\* The first of a list, and the rest of it.
LEMMA HeadAndTail ==
    ASSUME NEW T, NEW list \in Seq(T), list # <<>>
    PROVE  /\ 1 \in DOMAIN list /\ Head(list) = list[1]
           /\ Tail(list) \in Seq(T)
           /\ \A i \in DOMAIN Tail(list) :
                 /\ i + 1 \in DOMAIN list /\ i + 1 # 1 /\ i \in Nat
                 /\ Tail(list)[i] = list[i + 1]
  OBVIOUS

\* A list with one more at its end.
LEMMA OneMore ==
    ASSUME NEW T, NEW list \in Seq(T), NEW last \in T
    PROVE  /\ Append(list, last) \in Seq(T)
           /\ \A i \in DOMAIN Append(list, last) :
                 \/ i \in DOMAIN list /\ Append(list, last)[i] = list[i]
                 \/ /\ i = Len(list) + 1 /\ i \notin DOMAIN list
                    /\ Append(list, last)[i] = last
           /\ \A i \in DOMAIN list : /\ i \in DOMAIN Append(list, last)
                                     /\ Append(list, last)[i] = list[i]
           /\ Len(list) + 1 \in DOMAIN Append(list, last)
           /\ Append(list, last)[Len(list) + 1] = last
  OBVIOUS

\* What a process is about to do something about.
LEMMA FirstOfLeft ==
    ASSUME TypeOK, Sound, NEW p \in Process, proc[p].left # <<>>
    PROVE  LET log == Head(proc[p].left)
           IN  /\ 1 \in DOMAIN proc[p].left /\ log = proc[p].left[1]
               /\ log \in LogFile /\ log.run \in DOMAIN runs
               /\ log.cand = runs[log.run].cand /\ log.cand \in CandidateId
               /\ log.passed = runs[log.run].passed
               /\ cand[log.cand] = "settled"
  <1>1. proc[p].left \in Seq(LogFile)
    BY MemoryTypes
  <1>2. 1 \in DOMAIN proc[p].left /\ Head(proc[p].left) = proc[p].left[1]
    BY ONLY <1>1, proc[p].left # <<>>
  <1>3. proc[p].left[1] \in LogFile
    BY <1>1, <1>2
  <1>4. Surveyed(proc[p].left[1])
    BY <1>2 DEF Sound, Holds
  <1> QED BY <1>2, <1>3, <1>4, RowTypes DEF Surveyed

\* The next row to be sized.
LEMMA FirstOfTodo ==
    ASSUME TypeOK, Sound, NEW p \in Process, proc[p].todo # <<>>
    PROVE  LET r == Head(proc[p].todo)
           IN  /\ 1 \in DOMAIN proc[p].todo /\ r = proc[p].todo[1]
               /\ r \in DOMAIN runs /\ runs[r].cand \in CandidateId
               /\ cand[runs[r].cand] = "settled"
  <1>1. proc[p].todo \in Seq(Nat)
    BY MemoryTypes
  <1>2. 1 \in DOMAIN proc[p].todo /\ Head(proc[p].todo) = proc[p].todo[1]
    BY ONLY <1>1, proc[p].todo # <<>>
  <1> QED BY <1>2, RowTypes DEF Sound, Holds

\* What the survey finds is settled, and each row is found once.
LEMMA SurveyFinds ==
    ASSUME TypeOK
    PROVE  /\ \A i \in DOMAIN LoggedRuns :
                 /\ LoggedRuns[i] \in DOMAIN runs /\ runs[LoggedRuns[i]].logged
                 /\ cand[runs[LoggedRuns[i]].cand] = "settled"
           /\ \A i, j \in DOMAIN LoggedRuns : LoggedRuns[i] = LoggedRuns[j] => i = j
  <1> DEFINE S == {r \in DOMAIN runs :
                      runs[r].logged /\ cand[runs[r].cand] = "settled"}
  <1>1. S \in SUBSET Nat /\ IsFiniteSet(S)
    BY FiniteRows
  <1>2. /\ LoggedRuns \in [1..Cardinality(S) -> S]
        /\ \A i, j \in 1..Cardinality(S) : LoggedRuns[i] = LoggedRuns[j] => i = j
    BY <1>1, ByIdType DEF LoggedRuns
  <1>3. DOMAIN LoggedRuns = 1..Cardinality(S) /\ \A i \in DOMAIN LoggedRuns : LoggedRuns[i] \in S
    <2> HIDE DEF S
    <2> QED BY ONLY <1>2
  <1> QED BY <1>2, <1>3

\* A row that is found is sized, or reconciled if its file is gone.
LEMMA SizeIsSound ==
    ASSUME TypeOK, Sound, NEW p \in Process, SizeOfNext(p)
    PROVE  Trimmed /\ Holds(p)'
  <1> DEFINE todo == proc[p].todo
             found == proc[p].found
             r == Head(todo)
             c == runs[r].cand
             log == [run |-> r, cand |-> c, bytes |-> files[c].bytes,
                     passed |-> runs[r].passed]
  <1>1. /\ 1 \in DOMAIN todo /\ r = todo[1] /\ r \in DOMAIN runs
        /\ c \in CandidateId /\ cand[c] = "settled"
    BY FirstOfTodo DEF SizeOfNext
  <1>2. /\ todo \in Seq(Nat) /\ found \in Seq(LogFile)
        /\ proc \in [Process -> Memory] /\ proc[p] \in Memory
        /\ Tail(todo) \in Seq(Nat)
    BY MemoryTypes DEF SizeOfNext
  <1>3. \A i \in DOMAIN Tail(todo) :
           /\ i + 1 \in DOMAIN todo /\ i + 1 # 1 /\ i \in Nat
           /\ Tail(todo)[i] = todo[i + 1]
    <2>1. todo # <<>>
      BY DEF SizeOfNext
    <2> QED BY ONLY <1>2, <2>1, HeadAndTail
  <1>4. /\ \A i, j \in DOMAIN todo : todo[i] = todo[j] => i = j
        /\ \A i \in DOMAIN todo :
              todo[i] \in DOMAIN runs /\ cand[runs[todo[i]].cand] = "settled"
        /\ \A i \in DOMAIN found :
              Surveyed(found[i]) /\ \A j \in DOMAIN todo : todo[j] # found[i].run
        /\ Distinct(found)
        /\ p \in Prune => proc[p].pc \in {"idle"} \cup Applying
        /\ proc[p].left = <<>>
    BY DEF Sound, Holds, SizeOfNext, At, Removing
  <1>5. \A i, j \in DOMAIN Tail(todo) : Tail(todo)[i] = Tail(todo)[j] => i = j
    <2> SUFFICES ASSUME NEW i \in DOMAIN Tail(todo), NEW j \in DOMAIN Tail(todo),
                        Tail(todo)[i] = Tail(todo)[j]
                 PROVE  i = j
      OBVIOUS
    <2>1. i + 1 = j + 1 /\ i \in Nat /\ j \in Nat
      BY <1>3, <1>4
    <2> QED BY <2>1
  <1>6. \A i \in DOMAIN Tail(todo) : Tail(todo)[i] # r
    BY <1>1, <1>3, <1>4
  <1>7. CASE c \in OnDisk
    <2>1. /\ proc'[p] = [proc[p] EXCEPT !.todo = Tail(todo), !.found = Append(found, log)]
          /\ UNCHANGED <<cand, execs, runs, files>>
      BY <1>2, <1>7 DEF SizeOfNext
    <2>2. /\ proc'[p].todo = Tail(todo) /\ proc'[p].found = Append(found, log)
          /\ proc'[p].left = <<>> /\ proc'[p].pc = "size"
      BY <1>2, <1>4, <2>1 DEF Memory, SizeOfNext, At
    <2>3. log \in LogFile
      BY <1>1, <1>7, RowTypes DEF LogFile, File
    <2>4. Surveyed(log) /\ log.run = r
      BY <1>1 DEF Surveyed
    <2> HIDE DEF log
    <2>5. \A i \in DOMAIN Append(found, log) :
             \/ i \in DOMAIN found /\ Append(found, log)[i] = found[i]
             \/ /\ i = Len(found) + 1 /\ i \notin DOMAIN found
                /\ Append(found, log)[i] = log
      BY ONLY <1>2, <2>3, OneMore
    <2>6. \A i \in DOMAIN Append(found, log) :
             /\ Surveyed(Append(found, log)[i])
             /\ \A j \in DOMAIN Tail(todo) : Tail(todo)[j] # Append(found, log)[i].run
      BY <1>3, <1>4, <1>6, <2>4, <2>5
    <2>7. Distinct(Append(found, log))
      <3> SUFFICES ASSUME NEW i \in DOMAIN Append(found, log),
                          NEW j \in DOMAIN Append(found, log),
                          Append(found, log)[i].run = Append(found, log)[j].run
                   PROVE  i = j
        BY DEF Distinct
      <3>1. \A k \in DOMAIN found : found[k].run # log.run
        BY <1>1, <1>4, <2>4
      <3> QED BY <1>4, <2>5, <3>1 DEF Distinct
    <2>8. Trimmed
      BY <2>1, UntouchedIsTrimmed
    <2>9. (\A i \in DOMAIN found : Surveyed(found[i]))'
      <3>1. \A i \in DOMAIN Append(found, log) : StillSurveyed(Append(found, log)[i])
        BY <2>1, <2>6 DEF Surveyed, StillSurveyed
      <3> QED BY <2>2, <3>1 DEF Surveyed, StillSurveyed
    <2>10. \A i \in DOMAIN Tail(todo) :
              Tail(todo)[i] \in DOMAIN runs /\ cand[runs[Tail(todo)[i]].cand] = "settled"
      BY <1>3, <1>4
    <2>11. \A i \in DOMAIN <<>> : FALSE
      OBVIOUS
    <2> QED BY <1>4, <1>5, <2>1, <2>2, <2>6, <2>7, <2>8, <2>9, <2>10, <2>11
            DEF Holds, Distinct, Removing, Applying
  <1>8. CASE c \notin OnDisk
    <2>1. /\ proc'[p] = [proc[p] EXCEPT !.todo = Tail(todo)]
          /\ Forgotten(r, NoTail) /\ UNCHANGED <<cand, execs, files>>
      BY <1>2, <1>8 DEF SizeOfNext
    <2>2. /\ proc'[p].todo = Tail(todo) /\ proc'[p].found = found
          /\ proc'[p].left = <<>> /\ proc'[p].pc = "size"
      BY <1>2, <1>4, <2>1 DEF Memory, SizeOfNext, At
    <2>3. Trimmed
      BY <1>1, <2>1, ForgottenIsTrimmed DEF TailOf
    <2>4. (\A i \in DOMAIN found : Surveyed(found[i]))'
      <3>1. \A i \in DOMAIN found : StillSurveyed(found[i])
        BY <1>4, <2>3, SurveyStays, TrimmedIsOnward
      <3> QED BY <2>2, <3>1 DEF Surveyed, StillSurveyed
    <2>5. \A i \in DOMAIN Tail(todo) :
             Tail(todo)[i] \in DOMAIN runs' /\ cand'[runs'[Tail(todo)[i]].cand] = "settled"
      BY <1>3, <1>4, <2>3 DEF Trimmed
    <2>6. \A i \in DOMAIN found : \A j \in DOMAIN Tail(todo) :
             Tail(todo)[j] # found[i].run
      BY <1>3, <1>4
    <2>7. \A i \in DOMAIN <<>> : FALSE
      OBVIOUS
    <2> QED BY <1>4, <1>5, <2>2, <2>3, <2>4, <2>5, <2>6, <2>7
            DEF Holds, Distinct, Removing, Applying
  <1> QED BY <1>7, <1>8

\* What is planned to go was found.
LEMMA DecideIsSound ==
    ASSUME TypeOK, Sound, NEW p \in Process, Decide(p)
    PROVE  Trimmed /\ Holds(p)'
  <1> DEFINE found == proc[p].found
             left == proc[p].left
  <1>1. /\ found \in Seq(LogFile) /\ proc \in [Process -> Memory]
        /\ proc[p] \in Memory
    BY MemoryTypes
  <1>2. /\ proc'[p].todo = <<>> /\ proc'[p].found = found
        /\ proc'[p].left = Plan(found) /\ proc'[p].pc = "remove"
        /\ UNCHANGED <<cand, execs, runs, files>>
    BY <1>1 DEF Memory, Decide
  <1>3. /\ Distinct(found) /\ \A i \in DOMAIN found : Surveyed(found[i])
        /\ p \in Prune => proc[p].pc \in {"idle"} \cup Applying
    BY DEF Sound, Holds
  <1>4. /\ \A i \in DOMAIN Plan(found) : \E j \in DOMAIN found : Plan(found)[i] = found[j]
        /\ Distinct(Plan(found))
    <2> HIDE DEF found
    <2> QED BY ONLY <1>1, <1>3, PlanType
  <1>5. (\A i \in DOMAIN found : Surveyed(found[i]))'
    BY <1>2, <1>3 DEF Surveyed
  <1>6. (\A i \in DOMAIN left : Surveyed(left[i]))'
    <2>1. \A i \in DOMAIN Plan(found) : Surveyed(Plan(found)[i])
      BY <1>3, <1>4
    <2> QED BY <1>2, <2>1 DEF Surveyed
  <1>7. \A i \in DOMAIN <<>> : FALSE
    OBVIOUS
  <1> QED BY <1>2, <1>3, <1>4, <1>5, <1>6, <1>7, UntouchedIsTrimmed
          DEF Holds, Distinct, Removing, Applying

\* The tail that is read is of the execution the log is of, or a later one.
LEMMA ReadTailIsSound ==
    ASSUME TypeOK, Sound, NEW p \in Process, ReadTail(p)
    PROVE  Trimmed /\ Holds(p)'
  <1> DEFINE found == proc[p].found
             left == proc[p].left
             log == Head(left)
             tail == IF log.passed THEN NoTail ELSE LastLines(log.cand)
  <1>1. proc \in [Process -> Memory] /\ proc[p] \in Memory
    BY MemoryTypes
  <1>2. /\ proc'[p].todo = proc[p].todo /\ proc'[p].found = found
        /\ proc'[p].left = left /\ proc'[p].pc = "forget" /\ proc'[p].tail = tail
        /\ UNCHANGED <<cand, execs, runs, files>> /\ left # <<>>
    BY <1>1 DEF Memory, ReadTail
  <1>3. /\ log.run \in DOMAIN runs /\ log.cand = runs[log.run].cand
    BY <1>2, FirstOfLeft
  <1>4. TailOf(tail, log.run)
    <2> SUFFICES ASSUME tail # NoTail PROVE TailOf(tail, log.run)
      BY DEF TailOf
    <2>1. log.cand \in OnDisk /\ tail = files[log.cand].exec
      BY DEF LastLines
    <2>2. Latest(log.cand, tail)
      BY <2>1 DEF Sound, Tables
    <2>3. /\ runs[log.run].exec \in DOMAIN execs
          /\ execs[runs[log.run].exec] = log.cand
      BY <1>3 DEF Sound, Tables
    <2>4. tail \in Nat /\ runs[log.run].exec \in Nat
      BY <1>3, <2>2, RowTypes DEF Latest
    <2> QED BY <1>3, <2>2, <2>3, <2>4 DEF TailOf, Latest
  <1>5. (\A i \in DOMAIN found : Surveyed(found[i]))'
        /\ (\A i \in DOMAIN left : Surveyed(left[i]))'
    <2>1. /\ \A i \in DOMAIN found : Surveyed(found[i])
          /\ \A i \in DOMAIN left : Surveyed(left[i])
      BY DEF Sound, Holds
    <2>2. /\ found' = found /\ left' = left
          /\ cand' = cand /\ runs' = runs
      BY <1>2
    <2> HIDE DEF found, left, log, tail
    <2>3. (\A i \in DOMAIN found : Surveyed(found[i]))'
      BY ONLY <2>1, <2>2 DEF Surveyed
    <2>4. (\A i \in DOMAIN left : Surveyed(left[i]))'
      BY ONLY <2>1, <2>2 DEF Surveyed
    <2> QED BY ONLY <2>3, <2>4
  <1>6. TailOf(proc[p].tail, log.run)'
    BY <1>2, <1>4 DEF TailOf
  <1>7. Distinct(found)' /\ Distinct(left)'
    BY <1>2 DEF Sound, Holds, Distinct
  <1>8. proc[p].todo = <<>> /\ \A i \in DOMAIN <<>> : FALSE
    BY DEF Sound, Holds, ReadTail, At
  <1>9. p \in Prune => "forget" \in {"idle"} \cup Applying
    BY DEF Applying
  <1>10. Trimmed
    BY <1>2, UntouchedIsTrimmed
  <1> HIDE DEF tail
  <1> QED BY ONLY <1>2, <1>5, <1>6, <1>7, <1>8, <1>9, <1>10 DEF Holds, Removing

\* A row is told to forget the log it had.
LEMMA ForgetIsSound ==
    ASSUME TypeOK, Sound, NEW p \in Process, ForgetLog(p)
    PROVE  Trimmed /\ Holds(p)'
  <1> DEFINE found == proc[p].found
             left == proc[p].left
             log == Head(left)
  <1>1. proc \in [Process -> Memory] /\ proc[p] \in Memory
    BY MemoryTypes
  <1>2. /\ proc'[p].todo = proc[p].todo /\ proc'[p].found = found
        /\ proc'[p].left = left /\ proc'[p].pc = "unlink"
        /\ UNCHANGED <<cand, execs, files>>
    BY <1>1 DEF Memory, ForgetLog, Goto
  <1>3. left # <<>> /\ TailOf(proc[p].tail, log.run)
        /\ proc[p].todo = <<>>
    BY DEF Sound, Holds, ForgetLog, At
  <1>4. Trimmed
    <2>1. /\ log.run \in DOMAIN runs /\ cand[runs[log.run].cand] = "settled"
      BY <1>3, FirstOfLeft
    <2>2. proc[p].tail \in Execution \cup {NoTail}
      BY MemoryTypes
    <2>3. PICK r, tail : r = log.run /\ tail = proc[p].tail
      OBVIOUS
    <2> QED BY <1>2, <1>3, <2>1, <2>2, <2>3, ForgottenIsTrimmed DEF ForgetLog
  <1>5. (\A i \in DOMAIN found : Surveyed(found[i]))'
    <2>1. \A i \in DOMAIN found : StillSurveyed(found[i])
      BY <1>4, SurveyStays, TrimmedIsOnward DEF Sound, Holds
    <2> QED BY <1>2, <2>1 DEF Surveyed, StillSurveyed
  <1>6. (\A i \in DOMAIN left : Surveyed(left[i]))'
    <2>1. \A i \in DOMAIN left : StillSurveyed(left[i])
      BY <1>4, SurveyStays, TrimmedIsOnward DEF Sound, Holds
    <2> QED BY <1>2, <2>1 DEF Surveyed, StillSurveyed
  <1>7. \A i \in DOMAIN <<>> : FALSE
    OBVIOUS
  <1> QED BY <1>2, <1>3, <1>4, <1>5, <1>6, <1>7
          DEF Sound, Holds, Distinct, Removing, Applying, ForgetLog, At

\* Only the file of a settled candidate is removed.
LEMMA RemoveIsSound ==
    ASSUME TypeOK, Sound, NEW p \in Process, RemoveFile(p)
    PROVE  Trimmed /\ Holds(p)'
  <1> DEFINE found == proc[p].found
             left == proc[p].left
             log == Head(left)
  <1>1. /\ proc \in [Process -> Memory] /\ proc[p] \in Memory
        /\ left \in Seq(LogFile)
    BY MemoryTypes
  <1>2. /\ proc'[p].todo = proc[p].todo /\ proc'[p].found = found
        /\ proc'[p].left = Tail(left) /\ proc'[p].pc = "remove"
        /\ UNCHANGED <<cand, execs, runs>>
        /\ files' = [files EXCEPT ![log.cand] = NoFile]
    BY <1>1 DEF Memory, RemoveFile
  <1>3. /\ left # <<>> /\ proc[p].todo = <<>>
        /\ p \in Prune => proc[p].pc \in {"idle"} \cup Applying
    BY DEF Sound, Holds, RemoveFile, At
  <1>4. log.cand \in CandidateId /\ cand[log.cand] = "settled"
    BY <1>3, FirstOfLeft
  <1>5. Trimmed
    BY <1>2, <1>4 DEF Trimmed, TypeOK
  <1>6. \A i \in DOMAIN Tail(left) :
           /\ i + 1 \in DOMAIN left /\ i + 1 # 1 /\ i \in Nat
           /\ Tail(left)[i] = left[i + 1]
    BY ONLY <1>1, <1>3, HeadAndTail
  <1>7. (\A i \in DOMAIN found : Surveyed(found[i]))'
    BY <1>2 DEF Surveyed, Sound, Holds
  <1>8. (\A i \in DOMAIN left : Surveyed(left[i]))'
    <2>1. \A i \in DOMAIN Tail(left) : Surveyed(Tail(left)[i])
      BY <1>6 DEF Sound, Holds
    <2> QED BY <1>2, <2>1 DEF Surveyed
  <1>9. Distinct(Tail(left))
    <2> SUFFICES ASSUME NEW i \in DOMAIN Tail(left), NEW j \in DOMAIN Tail(left),
                        Tail(left)[i].run = Tail(left)[j].run
                 PROVE  i = j
      BY DEF Distinct
    <2>1. i + 1 = j + 1 /\ i \in Nat /\ j \in Nat
      BY <1>6 DEF Sound, Holds, Distinct
    <2> QED BY <2>1
  <1>10. \A i \in DOMAIN <<>> : FALSE
    OBVIOUS
  <1>11. Distinct(found)
    BY DEF Sound, Holds
  <1>12. Distinct(found)' /\ Distinct(left)'
    BY <1>2, <1>9, <1>11 DEF Distinct
  <1>13. p \in Prune => "remove" \in {"idle"} \cup Applying
    BY DEF Applying
  <1> QED BY ONLY <1>2, <1>3, <1>5, <1>7, <1>8, <1>10, <1>12, <1>13
          DEF Holds, Removing

\* Whatever apply does, and wherever it is stopped, is sound.
LEMMA ApplyIsTrimmed ==
    ASSUME TypeOK, Sound, NEW p \in Process,
           Apply(p) \/ StartPrune(p) \/ TickFails(p) \/ Crash(p)
    PROVE  /\ Trimmed /\ Holds(p)'
           /\ \A q \in Process \ {p} : proc'[q] = proc[q]
           /\ proc'[p].pc \notin Gated
  <1>0. proc \in [Process -> Memory] /\ proc[p] \in Memory
    BY MemoryTypes
  <1>1. \A q \in Process \ {p} : proc'[q] = proc[q]
    BY <1>0 DEF Apply, Survey, SizeOfNext, Decide, ReportDryRun, ReadTail, ForgetLog,
                RemoveFile, FindFileGone, Applied, StartPrune, TickFails, Crash,
                Goto, Finish
  <1>2. CASE Survey(p)
    <2>1. /\ proc'[p].todo = LoggedRuns /\ proc'[p].found = <<>>
          /\ proc'[p].left = <<>> /\ proc'[p].pc = "size"
          /\ UNCHANGED <<cand, execs, runs, files>>
      <3>1. proc[p].found = <<>> /\ proc[p].left = <<>>
        BY <1>2 DEF Sound, Holds, Survey, At, Removing
      <3> QED BY <1>0, <1>2, <3>1 DEF Memory, Survey
    <2>2. \A i \in DOMAIN <<>> : FALSE
      OBVIOUS
    <2>3. Holds(p)'
      BY <2>1, <2>2, SurveyFinds DEF Holds, Distinct, Removing, Applying
    <2>4. Trimmed
      BY <2>1, UntouchedIsTrimmed
    <2> QED BY <1>1, <2>1, <2>3, <2>4 DEF Gated
  <1>3. CASE SizeOfNext(p)
    <2>1. proc'[p].pc = "size"
      BY <1>0, <1>3 DEF SizeOfNext, Memory, At
    <2> QED BY <1>1, <1>3, <2>1, SizeIsSound DEF Gated
  <1>4. CASE Decide(p)
    <2>1. proc'[p].pc = "remove"
      BY <1>0, <1>4 DEF Decide, Memory, At
    <2> QED BY <1>1, <1>4, <2>1, DecideIsSound DEF Gated
  <1>5. CASE ReadTail(p)
    <2>1. proc'[p].pc = "forget"
      BY <1>0, <1>5 DEF ReadTail, Memory, At
    <2> QED BY <1>1, <1>5, <2>1, ReadTailIsSound DEF Gated
  <1>6. CASE ForgetLog(p)
    <2>1. proc'[p].pc = "unlink"
      BY <1>0, <1>6 DEF ForgetLog, Memory, At, Goto
    <2> QED BY <1>1, <1>6, <2>1, ForgetIsSound DEF Gated
  <1>7. CASE RemoveFile(p)
    <2>1. proc'[p].pc = "remove"
      BY <1>0, <1>7 DEF RemoveFile, Memory, At
    <2> QED BY <1>1, <1>7, <2>1, RemoveIsSound DEF Gated
  <1>8. CASE FindFileGone(p) \/ ReportDryRun(p) \/ TickFails(p) \/ Crash(p)
    <2>1. /\ proc'[p] = Resting /\ UNCHANGED <<cand, execs, runs, files>>
      BY <1>0, <1>8 DEF FindFileGone, ReportDryRun, TickFails, Crash, Finish
    <2>2. /\ proc'[p].todo = <<>> /\ proc'[p].found = <<>> /\ proc'[p].left = <<>>
          /\ proc'[p].pc = "idle"
      BY <2>1 DEF Resting
    <2>3. Holds(p)'
      BY <2>2, EmptyHanded DEF Removing
    <2> QED BY <1>1, <2>1, <2>2, <2>3, UntouchedIsTrimmed DEF Gated
  <1>9. CASE Applied(p)
    <2>1. /\ proc'[p] = [Resting EXCEPT !.pc = IF p = Worker THEN "look" ELSE "idle"]
          /\ UNCHANGED <<cand, execs, runs, files>>
      BY <1>0, <1>9 DEF Applied
    <2>2. /\ proc'[p].todo = <<>> /\ proc'[p].found = <<>> /\ proc'[p].left = <<>>
          /\ proc'[p].pc = IF p = Worker THEN "look" ELSE "idle"
      BY <2>1 DEF Resting
    <2>3. Holds(p)'
      BY <2>2, EmptyHanded, RetentionAssumption DEF Removing
    <2> QED BY <1>1, <2>1, <2>2, <2>3, UntouchedIsTrimmed DEF Gated
  <1>10. CASE StartPrune(p)
    <2>1. /\ proc'[p].todo = <<>> /\ proc'[p].found = <<>> /\ proc'[p].left = <<>>
          /\ proc'[p].pc = "survey" /\ UNCHANGED <<cand, execs, runs, files>>
      <3>1. proc[p].todo = <<>> /\ proc[p].found = <<>> /\ proc[p].left = <<>>
        BY <1>10 DEF Sound, Holds, StartPrune, At, Removing
      <3> QED BY <1>0, <1>10, <3>1 DEF Memory, StartPrune, Goto
    <2>2. Holds(p)'
      BY <2>1, EmptyHanded DEF Removing, Applying
    <2> QED BY <1>1, <2>1, <2>2, UntouchedIsTrimmed DEF Gated
  <1> QED BY <1>2, <1>3, <1>4, <1>5, <1>6, <1>7, <1>8, <1>9, <1>10 DEF Apply

\* So the invariant is kept.
LEMMA ApplyIsSound ==
    ASSUME TypeOK, Sound, NEW p \in Process,
           Apply(p) \/ StartPrune(p) \/ TickFails(p) \/ Crash(p)
    PROVE  Sound'
  BY ApplyIsTrimmed, TrimmedIsSound

-----------------------------------------------------------------------------
(* The rest of the tick is sound.                                          *)

\* Nobody else notices, and the worker holds nothing.
LEMMA TickHands ==
    ASSUME TypeOK, Sound, TickRest
    PROVE  /\ \A q \in Process \ {Worker} : proc'[q] = proc[q]
           /\ Holds(Worker)'
           /\ \/ StartTick /\ proc'[Worker].pc = "survey"
              \/ /\ FindNothingQueued \/ SettleUngated \/ Settle
                 /\ proc'[Worker].pc = "idle"
              \/ (Open \/ Resume) /\ proc'[Worker].pc = "gate"
              \/ GateStarts /\ proc'[Worker].pc = "run"
              \/ GateEnds /\ proc'[Worker].pc = "record"
              \/ RecordRun /\ proc'[Worker].pc = "settle"
           /\ proc'[Worker].todo = <<>> /\ proc'[Worker].left = <<>>
           /\ proc'[Worker].found = <<>>
  <1> DEFINE w == proc[Worker]
  <1>0. Worker \in Process /\ Worker \notin Prune
    BY RetentionAssumption DEF Process
  <1>1. proc \in [Process -> Memory] /\ w \in Memory
    BY <1>0, MemoryTypes
  <1>2. w.pc \in {"idle", "look", "gate", "run", "record", "settle"}
    BY DEF TickRest, StartTick, FindNothingQueued, Open, Resume, SettleUngated,
           GateStarts, GateEnds, RecordRun, Settle, At
  <1>3. w.todo = <<>> /\ w.found = <<>> /\ w.left = <<>>
    BY <1>0, <1>2 DEF Sound, Holds, Removing
  <1>4. \/ StartTick /\ proc' = [proc EXCEPT ![Worker].pc = "survey"]
        \/ /\ FindNothingQueued \/ SettleUngated \/ Settle
           /\ proc' = [proc EXCEPT ![Worker] = Resting]
        \/ (Open \/ Resume) /\ proc' = [proc EXCEPT ![Worker].pc = "gate"]
        \/ GateStarts /\ proc' = [proc EXCEPT ![Worker].pc = "run"]
        \/ GateEnds /\ \E passed \in BOOLEAN :
              proc' = [proc EXCEPT ![Worker].pc = "record", ![Worker].passed = passed]
        \/ RecordRun /\ proc' = [proc EXCEPT ![Worker].pc = "settle"]
    BY DEF TickRest, StartTick, FindNothingQueued, Open, Resume, SettleUngated,
           GateStarts, GateEnds, RecordRun, Settle, Goto, Finish
  <1>5. \A q \in Process \ {Worker} : proc'[q] = proc[q]
    BY <1>0, <1>1, <1>4
  <1>6. /\ Resting.pc = "idle" /\ Resting.todo = <<>>
        /\ Resting.found = <<>> /\ Resting.left = <<>>
    BY DEF Resting
  <1>7. /\ \/ StartTick /\ proc'[Worker].pc = "survey"
           \/ /\ FindNothingQueued \/ SettleUngated \/ Settle
              /\ proc'[Worker].pc = "idle"
           \/ (Open \/ Resume) /\ proc'[Worker].pc = "gate"
           \/ GateStarts /\ proc'[Worker].pc = "run"
           \/ GateEnds /\ proc'[Worker].pc = "record"
           \/ RecordRun /\ proc'[Worker].pc = "settle"
        /\ proc'[Worker].todo = <<>> /\ proc'[Worker].left = <<>>
        /\ proc'[Worker].found = <<>>
    BY <1>0, <1>1, <1>3, <1>4, <1>6 DEF Memory
  <1>8. Holds(Worker)'
    BY <1>0, <1>7, EmptyHanded DEF Removing
  <1> QED BY <1>5, <1>7, <1>8

\* The tables and the candidate in flight, once the worker's survey is out of
\* the way.
LEMMA TickSettles ==
    ASSUME TypeOK, Sound,
           \A c \in CandidateId :
              cand'[c] = cand[c] \/ (cand[c] = "active" /\ cand'[c] = "settled"),
           UNCHANGED <<execs, runs, files>>,
           proc'[Worker].pc \notin Gated
    PROVE  Onward /\ Tables' /\ Flight'
  <1>1. /\ \A r \in DOMAIN runs : runs[r].cand \in CandidateId
        /\ \A x \in DOMAIN execs : execs[x] \in CandidateId
    BY RowTypes
  <1>2. Onward
    BY <1>1 DEF Onward
  <1>3. Active' \subseteq Active /\ OnDisk' = OnDisk
    BY DEF Active, OnDisk
  <1>4. Tables'
    <2>1. \A c \in OnDisk' : Latest(c, files[c].exec)'
      BY <1>3 DEF Sound, Tables, Latest
    <2>2. \A r \in DOMAIN runs : TailOf(runs[r].tail, r)'
      BY DEF Sound, Tables, TailOf
    <2>3. \A x \in DOMAIN execs : cand'[execs[x]] # "absent"
      BY <1>1 DEF Sound, Tables
    <2>4. \A r \in DOMAIN runs : cand'[runs[r].cand] = "active" => runs[r].logged
      BY <1>1 DEF Sound, Tables
    <2> QED BY <2>1, <2>2, <2>3, <2>4 DEF Sound, Tables
  <1>5. Flight'
    BY <1>3 DEF Sound, Flight, Gated
  <1> QED BY <1>2, <1>4, <1>5

\* A new candidate has no executions, no rows and no file.
LEMMA OpenIsSound ==
    ASSUME TypeOK, Sound, Open, proc'[Worker].pc = "gate"
    PROVE  Onward /\ Tables' /\ Flight'
  <1>1. PICK c \in CandidateId : cand[c] = "absent" /\ cand' = [cand EXCEPT ![c] = "active"]
    BY DEF Open
  <1>2. cand'[c] = "active" /\ \A d \in CandidateId : d # c => cand'[d] = cand[d]
    BY <1>1 DEF TypeOK
  <1>3. /\ \A r \in DOMAIN runs : runs[r].cand \in CandidateId
        /\ \A x \in DOMAIN execs : execs[x] \in CandidateId
    BY RowTypes
  <1>4. UNCHANGED <<execs, runs, files>>
    BY DEF Open
  <1>5. \A x \in DOMAIN execs : execs[x] # c
    BY <1>1 DEF Sound, Tables
  <1>6. \A r \in DOMAIN runs : runs[r].cand # c
    BY <1>5 DEF Sound, Tables
  <1>7. Onward
    BY <1>1, <1>2, <1>3, <1>4 DEF Onward
  <1>8. Active' = {c} /\ OnDisk' = OnDisk
    BY <1>1, <1>2, <1>4 DEF Open, Active, OnDisk
  <1>9. Tables'
    <2>1. \A d \in OnDisk' : Latest(d, files[d].exec)'
      BY <1>4, <1>8 DEF Sound, Tables, Latest
    <2>2. \A r \in DOMAIN runs : TailOf(runs[r].tail, r)'
      BY <1>4 DEF Sound, Tables, TailOf
    <2>3. \A x \in DOMAIN execs : cand'[execs[x]] # "absent"
      BY <1>2, <1>3 DEF Sound, Tables
    <2>4. \A r \in DOMAIN runs : cand'[runs[r].cand] = "active" => runs[r].logged
      BY <1>2, <1>3, <1>6 DEF Sound, Tables
    <2> QED BY <1>4, <2>1, <2>2, <2>3, <2>4 DEF Sound, Tables
  <1>10. Flight'
    BY <1>4, <1>8 DEF Sound, Flight, Gated, Open
  <1> QED BY <1>7, <1>9, <1>10

\* The gate's file is that of the execution it starts.
LEMMA StartIsSound ==
    ASSUME TypeOK, Sound, GateStarts, proc'[Worker].pc = "run"
    PROVE  Onward /\ Tables' /\ Flight'
  <1>1. PICK c \in CandidateId :
           /\ Active = {c}
           /\ execs' = Append(execs, c)
           /\ Len(execs) + 1 \in Execution
           /\ files' = [files EXCEPT ![c] = [exec |-> Len(execs) + 1, bytes |-> 0]]
    BY OneMoreExecution
  <1> DEFINE n == Len(execs) + 1
  <1>2. /\ DOMAIN execs = 1..Len(execs) /\ Len(execs) \in Nat
        /\ \A x \in DOMAIN execs : execs[x] \in CandidateId
        /\ execs \in Seq(CandidateId)
    BY RowTypes DEF TypeOK
  <1>3. /\ Len(execs') = n /\ DOMAIN execs' = 1..n /\ execs'[n] = c
        /\ \A x \in DOMAIN execs : x \in DOMAIN execs' /\ execs'[x] = execs[x] /\ x < n
        /\ \A x \in DOMAIN execs' : x \in DOMAIN execs \/ x = n
    <2>1. Append(execs, c) \in Seq(CandidateId)
      BY <1>2
    <2> QED BY ONLY <1>1, <1>2, <2>1
  <1>4. UNCHANGED <<cand, runs>> /\ Active' = Active
    BY DEF GateStarts, Active
  <1>5. Onward
    BY <1>3, <1>4 DEF Onward
  <1>6. [exec |-> n, bytes |-> 0] # NoFile
    <2>1. [exec |-> n, bytes |-> 0] \in [exec : Nat, bytes : Nat]
      BY <1>2
    <2> QED BY <2>1, RetentionAssumption
  <1>7. /\ files'[c].exec = n /\ c \in OnDisk'
        /\ \A d \in OnDisk' : d # c => d \in OnDisk /\ files'[d] = files[d]
    BY <1>1, <1>6 DEF TypeOK, OnDisk
  <1>8. Tables'
    <2>1. \A d \in OnDisk' : Latest(d, files[d].exec)'
      <3> SUFFICES ASSUME NEW d \in OnDisk' PROVE Latest(d, files[d].exec)'
        OBVIOUS
      <3>1. CASE d = c
        <4>1. \A y \in 1..n : y <= n
          BY <1>2
        <4>2. n \in 1..n
          BY <1>2
        <4> QED BY <1>3, <1>7, <3>1, <4>1, <4>2 DEF Latest
      <3>2. CASE d # c
        <4>1. Latest(d, files[d].exec) /\ files'[d] = files[d]
          BY <1>7, <3>2 DEF Sound, Tables
        <4> QED BY <1>3, <3>2, <4>1 DEF Latest
      <3> QED BY <3>1, <3>2
    <2>2. \A r \in DOMAIN runs : TailOf(runs[r].tail, r)'
      BY <1>3, <1>4 DEF Sound, Tables, TailOf
    <2>3. \A x \in DOMAIN execs' : cand[execs'[x]] # "absent"
      BY <1>1, <1>3 DEF Sound, Tables, Active
    <2>4. \A r \in DOMAIN runs :
             runs[r].exec \in DOMAIN execs' /\ execs'[runs[r].exec] = runs[r].cand
      BY <1>3 DEF Sound, Tables
    <2> QED BY <1>4, <2>1, <2>2, <2>3, <2>4 DEF Sound, Tables
  <1>9. Flight'
    <2>1. \A r \in DOMAIN runs : runs[r].exec < n
      BY <1>3 DEF Sound, Tables
    <2>2. n <= MaxExecutions
      BY <1>1, RetentionAssumption DEF Execution
    <2> QED BY <1>1, <1>3, <1>4, <1>7, <2>1, <2>2 DEF Sound, Flight, Gated
  <1> QED BY <1>5, <1>8, <1>9

\* What the gate prints changes the size of its file.
LEMMA EndIsSound ==
    ASSUME TypeOK, Sound, GateEnds, proc'[Worker].pc = "record"
    PROVE  Onward /\ Tables' /\ Flight'
  <1>1. PICK output \in Output :
           files' = [c \in CandidateId |->
                       IF c \in Active
                       THEN [files[c] EXCEPT !.bytes = CappedSize(output)]
                       ELSE files[c]]
    BY DEF GateEnds
  <1>2. UNCHANGED <<cand, execs, runs>> /\ Active' = Active
    BY DEF GateEnds, Active
  <1>3. \A c \in Active : /\ c \in CandidateId /\ c \in OnDisk
                          /\ files[c].exec = Len(execs)
    BY DEF Sound, Flight, GateEnds, At, Active
  <1>4. ASSUME NEW c \in Active
        PROVE  files'[c].exec = files[c].exec /\ files'[c] # NoFile
    <2>1. files[c] \in File /\ c \in CandidateId
      BY <1>3, RowTypes
    <2>2. files'[c] = [files[c] EXCEPT !.bytes = CappedSize(output)]
      BY <1>1, <2>1
    <2>3. CappedSize(output) \in Nat
      BY CappedType
    <2>4. files'[c] \in [exec : Nat, bytes : Nat] /\ files'[c].exec = files[c].exec
      BY <2>1, <2>2, <2>3 DEF File, Execution
    <2> QED BY <2>4, RetentionAssumption
  <1>5. /\ \A c \in OnDisk' : c \in OnDisk /\ files'[c].exec = files[c].exec
        /\ \A c \in Active : c \in OnDisk' /\ files'[c].exec = Len(execs)
    BY <1>1, <1>3, <1>4 DEF OnDisk
  <1>6. Onward
    BY <1>2 DEF Onward
  <1>7. Tables'
    <2>1. \A c \in OnDisk' : Latest(c, files[c].exec)'
      BY <1>2, <1>5 DEF Sound, Tables, Latest
    <2>2. \A r \in DOMAIN runs : TailOf(runs[r].tail, r)'
      BY <1>2 DEF Sound, Tables, TailOf
    <2> QED BY <1>2, <2>1, <2>2 DEF Sound, Tables
  <1>8. Flight'
    BY <1>2, <1>5 DEF Sound, Flight, Gated, GateEnds, At
  <1> QED BY <1>6, <1>7, <1>8

\* The row of the execution that ended is the first one of it.
LEMMA RecordIsSound ==
    ASSUME TypeOK, Sound, RecordRun, proc'[Worker].pc = "settle"
    PROVE  Onward /\ Tables' /\ Flight'
  <1>1. PICK c \in CandidateId :
           /\ Active = {c} /\ Latest(c, Len(execs)) /\ Len(execs) \in Execution
           /\ runs' = Append(runs, [cand |-> c, exec |-> Len(execs),
                                   passed |-> proc[Worker].passed,
                                   logged |-> TRUE, tail |-> NoTail])
    BY OneMoreRow
  <1> DEFINE n == Len(runs) + 1
  <1>2. /\ DOMAIN runs = 1..Len(runs) /\ Len(runs) \in Nat
        /\ runs \in Seq(RunRow)
        /\ \A r \in DOMAIN runs : runs[r].exec \in Nat
    BY RowTypes DEF TypeOK
  <1>3. proc[Worker].passed \in BOOLEAN
    BY MemoryTypes DEF Process
  <1>4. /\ DOMAIN runs' = 1..n
        /\ runs'[n] = [cand |-> c, exec |-> Len(execs),
                       passed |-> proc[Worker].passed,
                       logged |-> TRUE, tail |-> NoTail]
        /\ \A r \in DOMAIN runs : r \in DOMAIN runs' /\ runs'[r] = runs[r] /\ r # n
        /\ \A r \in DOMAIN runs' : r \in DOMAIN runs \/ r = n
        /\ n \in DOMAIN runs'
    <2>1. [cand |-> c, exec |-> Len(execs), passed |-> proc[Worker].passed,
           logged |-> TRUE, tail |-> NoTail] \in RunRow
      BY <1>1, <1>3 DEF RunRow
    <2> QED BY ONLY <1>1, <1>2, <2>1
  <1>5. /\ runs'[n].cand = c /\ runs'[n].exec = Len(execs)
        /\ runs'[n].logged /\ runs'[n].tail = NoTail
    BY <1>4
  <1>6. UNCHANGED <<cand, execs, files>> /\ Active' = Active /\ OnDisk' = OnDisk
    BY DEF RecordRun, Active, OnDisk
  <1>7. Onward
    BY <1>4, <1>6 DEF Onward
  <1>8. \A r \in DOMAIN runs : runs[r].exec < Len(execs)
    BY DEF Sound, Flight, RecordRun, At
  <1>9. Tables'
    <2>1. \A d \in OnDisk' : Latest(d, files[d].exec)'
      BY <1>6 DEF Sound, Tables, Latest
    <2>2. ASSUME NEW r \in DOMAIN runs'
          PROVE  /\ runs'[r].exec \in DOMAIN execs'
                 /\ execs'[runs'[r].exec] = runs'[r].cand
                 /\ TailOf(runs[r].tail, r)'
                 /\ cand'[runs'[r].cand] = "active" => runs'[r].logged
      <3>1. CASE r = n
        BY <1>1, <1>5, <1>6, <3>1 DEF Latest, TailOf
      <3>2. CASE r # n
        BY <1>4, <1>6, <3>2 DEF Sound, Tables, TailOf
      <3> QED BY <3>1, <3>2
    <2>3. ASSUME NEW r \in DOMAIN runs', NEW s \in DOMAIN runs',
                 runs'[r].exec = runs'[s].exec
          PROVE  r = s
      <3>1. \A q \in DOMAIN runs : runs'[q].exec = runs[q].exec
                                    /\ runs'[q].exec # runs'[n].exec
        BY <1>2, <1>4, <1>5, <1>8
      <3> QED BY <1>4, <2>3, <3>1 DEF Sound, Tables
    <2> QED BY <1>6, <2>1, <2>2, <2>3 DEF Sound, Tables
  <1>10. Flight'
    BY <1>1, <1>4, <1>5, <1>6 DEF Sound, Flight, Gated
  <1> QED BY <1>7, <1>9, <1>10

\* Whatever the tick does, the invariant is kept.
LEMMA TickIsSound ==
    ASSUME TypeOK, Sound, TickRest
    PROVE  Onward /\ Sound'
  <1>1. /\ \A q \in Process \ {Worker} : proc'[q] = proc[q]
        /\ Holds(Worker)'
        /\ \/ StartTick /\ proc'[Worker].pc = "survey"
           \/ /\ FindNothingQueued \/ SettleUngated \/ Settle
              /\ proc'[Worker].pc = "idle"
           \/ (Open \/ Resume) /\ proc'[Worker].pc = "gate"
           \/ GateStarts /\ proc'[Worker].pc = "run"
           \/ GateEnds /\ proc'[Worker].pc = "record"
           \/ RecordRun /\ proc'[Worker].pc = "settle"
    BY TickHands
  <1>2. Onward /\ Tables' /\ Flight'
    <2>1. CASE StartTick /\ proc'[Worker].pc = "survey"
      <3>1. \A c \in CandidateId :
               cand'[c] = cand[c] \/ (cand[c] = "active" /\ cand'[c] = "settled")
        BY <2>1 DEF StartTick, Active
      <3> QED BY <2>1, <3>1, TickSettles DEF StartTick, Gated
    <2>2. CASE (SettleUngated \/ Settle) /\ proc'[Worker].pc = "idle"
      <3>1. \A c \in CandidateId :
               cand'[c] = cand[c] \/ (cand[c] = "active" /\ cand'[c] = "settled")
        BY <2>2 DEF SettleUngated, Settle, SettleActive, Active
      <3> QED BY <2>2, <3>1, TickSettles DEF SettleUngated, Settle, Gated
    <2>3. CASE FindNothingQueued /\ proc'[Worker].pc = "idle"
      BY <2>3, TickSettles DEF FindNothingQueued, Gated
    <2>4. CASE Resume /\ proc'[Worker].pc = "gate"
      <3>1. UNCHANGED <<cand, execs, runs, files>> /\ Active # {}
            /\ Len(execs) < MaxExecutions
        BY <2>4 DEF Resume
      <3>2. Active' = Active /\ OnDisk' = OnDisk
        BY <3>1 DEF Active, OnDisk
      <3>3. Onward
        BY <3>1 DEF Onward
      <3>4. Tables'
        <4>1. \A c \in OnDisk' : Latest(c, files[c].exec)'
          BY <3>1, <3>2 DEF Sound, Tables, Latest
        <4>2. \A r \in DOMAIN runs : TailOf(runs[r].tail, r)'
          BY <3>1 DEF Sound, Tables, TailOf
        <4> QED BY <3>1, <4>1, <4>2 DEF Sound, Tables
      <3>5. Flight'
        BY <2>4, <3>1, <3>2 DEF Sound, Flight, Gated
      <3> QED BY <3>3, <3>4, <3>5
    <2> QED BY <1>1, <2>1, <2>2, <2>3, <2>4, OpenIsSound, StartIsSound, EndIsSound,
               RecordIsSound
  <1>3. \A q \in Process : Holds(q)'
    BY <1>1, <1>2, HoldingStays DEF Sound
  <1> QED BY <1>2, <1>3 DEF Sound

-----------------------------------------------------------------------------
(* Types, and the logs of candidates in flight.                            *)

\* Nothing has happened yet.
LEMMA SoundInit ==
    ASSUME Init
    PROVE  TypeOK /\ Sound
  <1>1. \A i \in DOMAIN <<>> : FALSE
    OBVIOUS
  <1>2. TypeOK
    <2>1. <<>> \in Seq(CandidateId) /\ <<>> \in Seq(RunRow)
      OBVIOUS
    <2>2. cand \in [CandidateId -> {"absent", "active", "settled"}]
      BY DEF Init
    <2>3. proc \in [Process -> Memory] /\ spent \in [Event -> Nat]
      BY RestingType DEF Init
    <2>4. files \in [CandidateId -> File \cup {NoFile}]
      BY DEF Init
    <2> QED BY <2>1, <2>2, <2>3, <2>4 DEF Init, TypeOK
  <1>3. OnDisk = {} /\ Active = {} /\ DOMAIN execs = {} /\ DOMAIN runs = {}
    BY DEF Init, OnDisk, Active
  <1>4. Tables
    BY <1>3 DEF Tables
  <1>5. Flight
    <2>1. Worker \in Process /\ proc[Worker].pc = "idle"
      BY DEF Init, Process, Resting
    <2>2. Len(execs) = 0
      BY DEF Init
    <2> QED BY <1>3, <2>1, <2>2, RetentionAssumption DEF Flight, Gated
  <1>6. \A p \in Process : Holds(p)
    <2> SUFFICES ASSUME NEW p \in Process PROVE Holds(p)
      OBVIOUS
    <2>1. /\ proc[p].pc = "idle" /\ proc[p].todo = <<>>
          /\ proc[p].found = <<>> /\ proc[p].left = <<>>
      BY DEF Init, Resting
    <2> QED BY ONLY <1>1, <2>1 DEF Holds, Distinct, Removing
  <1> QED BY <1>2, <1>4, <1>5, <1>6 DEF Sound

\* Every step of anybody keeps types and tables.
LEMMA SoundStep ==
    ASSUME TypeOK, Sound, [Next]_vars
    PROVE  TypeOK' /\ Sound'
  <1>1. CASE Next
    BY <1>1, TypeStep, ApplyIsSound, TickIsSound DEF Next
  <1>2. CASE UNCHANGED vars
    <2>1. TypeOK'
      BY <1>2 DEF vars, TypeOK
    <2>2. Tables' /\ Flight'
      BY <1>2 DEF vars, Sound, Tables, Flight, Latest, TailOf, Active, OnDisk
    <2>3. \A p \in Process : Holds(p)'
      BY <1>2 DEF vars, Sound, Holds, Surveyed, Distinct, TailOf
    <2> QED BY <2>1, <2>2, <2>3 DEF Sound
  <1> QED BY <1>1, <1>2

\* Retention is well typed for any number of candidates, executions and prunes
\* and any mishaps: what apply remembers of rows and logs always exists.
THEOREM RetentionTypes == Spec => []TypeOK
  <1>1. Init => TypeOK /\ Sound
    BY SoundInit
  <1>2. TypeOK /\ Sound /\ [Next]_vars => (TypeOK /\ Sound)'
    BY SoundStep
  <1> QED BY <1>1, <1>2, PTL DEF Spec

\* A tick takes no file away.
LEMMA TickKeepsFiles ==
    ASSUME TypeOK, Sound, TickRest
    PROVE  OnDisk \subseteq OnDisk'
  <1> SUFFICES ASSUME NEW c \in CandidateId, files[c] # NoFile
               PROVE  files'[c] # NoFile
    BY DEF OnDisk
  <1>1. CASE GateStarts
    <2>1. PICK d \in CandidateId :
             /\ Len(execs) + 1 \in Execution
             /\ files' = [files EXCEPT ![d] = [exec |-> Len(execs) + 1, bytes |-> 0]]
      BY <1>1, OneMoreExecution
    <2>2. [exec |-> Len(execs) + 1, bytes |-> 0] \in [exec : Nat, bytes : Nat]
      BY <2>1 DEF Execution
    <2> QED BY <2>1, <2>2, RetentionAssumption DEF TypeOK
  <1>2. CASE GateEnds
    <2>1. PICK output \in Output :
             files'[c] = IF c \in Active
                         THEN [files[c] EXCEPT !.bytes = CappedSize(output)]
                         ELSE files[c]
      BY <1>2 DEF GateEnds
    <2>2. files[c] \in File /\ CappedSize(output) \in Nat
      BY CappedType DEF TypeOK
    <2>3. [files[c] EXCEPT !.bytes = CappedSize(output)] \in [exec : Nat, bytes : Nat]
      BY <2>2 DEF File, Execution
    <2> QED BY <2>1, <2>3, RetentionAssumption
  <1>3. CASE ~GateStarts /\ ~GateEnds
    <2>1. UNCHANGED files
      BY <1>3 DEF TickRest, StartTick, FindNothingQueued, Open, Resume,
                  SettleUngated, RecordRun, Settle
    <2> QED BY <2>1
  <1> QED BY <1>1, <1>2, <1>3

\* A log that goes is that of a settled candidate.
LEMMA OnlySettledGo ==
    ASSUME TypeOK, Sound, [Next]_vars, NEW c \in OnDisk, files'[c] = NoFile
    PROVE  cand[c] = "settled"
  <1>0. c \in CandidateId /\ files[c] # NoFile
    BY DEF OnDisk
  <1>1. CASE UNCHANGED vars
    BY <1>0, <1>1 DEF vars
  <1>2. ASSUME NEW p \in Process,
               Apply(p) \/ StartPrune(p) \/ TickFails(p) \/ Crash(p)
        PROVE  cand[c] = "settled"
    BY <1>0, <1>2, ApplyIsTrimmed DEF Trimmed
  <1>3. CASE TickRest
    <2>1. c \in OnDisk'
      BY <1>3, TickKeepsFiles
    <2> QED BY <2>1 DEF OnDisk
  <1> QED BY <1>1, <1>2, <1>3 DEF Next

\* Pruning never touches a candidate still being assembled or gated, whoever
\* prunes beside whom and however old the survey it goes by.
THEOREM LogsInFlightStay == Spec => ActiveLogsStay
  <1>1. Init => TypeOK /\ Sound
    BY SoundInit
  <1>2. TypeOK /\ Sound /\ [Next]_vars => (TypeOK /\ Sound)'
    BY SoundStep
  <1>3. TypeOK /\ Sound /\ [Next]_vars =>
           [\A c \in OnDisk : files'[c] = NoFile => cand[c] = "settled"]_vars
    BY OnlySettledGo
  <1> QED BY <1>1, <1>2, <1>3, PTL DEF Spec, ActiveLogsStay

-----------------------------------------------------------------------------
(* A failure's last lines, while nobody prunes beside the worker.          *)

\* Candidate c has exactly one execution.
Once(c) ==
    \E x \in DOMAIN execs :
        execs[x] = c /\ \A y \in DOMAIN execs : execs[y] = c => y = x

\* A set of one number has no other.
LEMMA OneMember ==
    ASSUME NEW n \in Nat, NEW S \in SUBSET (1..n), Cardinality(S) = 1
    PROVE  \E x \in S : \A y \in S : y = x
  <1>1. IsFiniteSet(1..n)
    BY FS_Interval
  <1>2. IsFiniteSet(S)
    BY <1>1, FS_Subset
  <1>3. PICK a : S = {a}
    BY ONLY <1>2, Cardinality(S) = 1, FS_Singleton
  <1> QED BY <1>3

\* Gated once is having one execution.
LEMMA GatedOnceIsOnce ==
    ASSUME TypeOK, NEW c, GatedOnce(c)
    PROVE  Once(c)
  <1>1. DOMAIN execs = 1..Len(execs) /\ Len(execs) \in Nat
    BY RowTypes
  <1>2. PICK S : S = ExecutionsOf(c)
    OBVIOUS
  <1>3. S \in SUBSET (1..Len(execs)) /\ Cardinality(S) = 1
    BY <1>1, <1>2 DEF GatedOnce, ExecutionsOf
  <1>4. PICK x \in S : \A y \in S : y = x
    BY <1>1, <1>3, OneMember
  <1> QED BY <1>2, <1>4 DEF Once, ExecutionsOf

\* A row is kept as long as rows, executions and files are.
LEMMA KeptStays ==
    ASSUME UNCHANGED <<execs, runs>>, OnDisk \subseteq OnDisk',
           \A r \in DOMAIN runs : Kept(r)
    PROVE  (\A r \in DOMAIN runs : Kept(r))'
  BY DEF Kept, GatedOnce, ExecutionsOf

\* A worker that surveys nothing has nothing to mark.
LEMMA NothingMarked ==
    ASSUME proc'[Worker].todo = <<>>, proc'[Worker].found = <<>>,
           proc'[Worker].left = <<>>, proc'[Worker].pc \notin Removing
    PROVE  Marked'
  <1>1. DOMAIN <<>> = {}
    OBVIOUS
  <1> QED BY ONLY <1>1, proc'[Worker].todo = <<>>, proc'[Worker].found = <<>>,
            proc'[Worker].left = <<>>, proc'[Worker].pc \notin Removing
          DEF Marked, Removing

\* A row whose file is gone is not that of a candidate gated once.
LEMMA AloneSize ==
    ASSUME TypeOK, Sound, Alone, SizeOfNext(Worker)
    PROVE  (\A r \in DOMAIN runs : Kept(r))' /\ Marked'
  <1> DEFINE w == proc[Worker]
             r == Head(w.todo)
             c == runs[r].cand
             log == [run |-> r, cand |-> c, bytes |-> files[c].bytes,
                     passed |-> runs[r].passed]
  <1>0. Worker \in Process
    BY DEF Process
  <1>1. /\ 1 \in DOMAIN w.todo /\ r = w.todo[1] /\ r \in DOMAIN runs
        /\ c \in CandidateId /\ cand[c] = "settled" /\ runs[r].logged
    BY <1>0, FirstOfTodo DEF SizeOfNext, Alone, Marked
  <1>2. /\ w.todo \in Seq(Nat) /\ w.found \in Seq(LogFile)
        /\ proc \in [Process -> Memory] /\ w \in Memory
    BY <1>0, MemoryTypes
  <1>3. \A i \in DOMAIN Tail(w.todo) :
           /\ i + 1 \in DOMAIN w.todo /\ i + 1 # 1 /\ i \in Nat
           /\ Tail(w.todo)[i] = w.todo[i + 1]
    <2>1. w.todo # <<>>
      BY DEF SizeOfNext
    <2> QED BY ONLY <1>2, <2>1, HeadAndTail
  <1>4. /\ \A i, j \in DOMAIN w.todo : w.todo[i] = w.todo[j] => i = j
        /\ \A i \in DOMAIN w.todo : w.todo[i] \in DOMAIN runs
        /\ \A i \in DOMAIN w.found :
              /\ w.found[i].run \in DOMAIN runs
              /\ \A j \in DOMAIN w.todo : w.todo[j] # w.found[i].run
        /\ w.left = <<>> /\ w.pc = "size"
    BY <1>0 DEF Sound, Holds, Surveyed, SizeOfNext, At, Removing
  <1>5. /\ \A i \in DOMAIN Tail(w.todo) : /\ Tail(w.todo)[i] # r
                                         /\ Tail(w.todo)[i] \in DOMAIN runs
                                         /\ runs[Tail(w.todo)[i]].logged
        /\ \A i \in DOMAIN w.found : w.found[i].run # r /\ runs[w.found[i].run].logged
    BY <1>1, <1>3, <1>4 DEF Alone, Marked
  <1>6. CASE c \in OnDisk
    <2>1. /\ proc'[Worker] = [w EXCEPT !.todo = Tail(w.todo),
                                       !.found = Append(w.found, log)]
          /\ UNCHANGED <<cand, execs, runs, files>>
      BY <1>0, <1>2, <1>6 DEF SizeOfNext
    <2>2. /\ proc'[Worker].todo = Tail(w.todo)
          /\ proc'[Worker].found = Append(w.found, log)
          /\ proc'[Worker].left = <<>> /\ proc'[Worker].pc = "size"
      BY <1>2, <1>4, <2>1 DEF Memory
    <2>3. log \in LogFile /\ log.run = r
      BY <1>1, <1>6, RowTypes DEF LogFile, File
    <2> HIDE DEF log
    <2>4. \A i \in DOMAIN Append(w.found, log) :
             \/ i \in DOMAIN w.found /\ Append(w.found, log)[i] = w.found[i]
             \/ /\ i = Len(w.found) + 1 /\ i \notin DOMAIN w.found
                /\ Append(w.found, log)[i] = log
      BY ONLY <1>2, <2>3, OneMore
    <2>5. \A i \in DOMAIN Append(w.found, log) : runs[Append(w.found, log)[i].run].logged
      BY <1>1, <1>5, <2>3, <2>4
    <2>6. \A i \in DOMAIN <<>> : FALSE
      OBVIOUS
    <2>7. Marked'
      BY <1>5, <2>1, <2>2, <2>5, <2>6 DEF Marked
    <2>8. OnDisk' = OnDisk
      BY <2>1 DEF OnDisk
    <2> QED BY <2>1, <2>7, <2>8, KeptStays DEF Alone
  <1>7. CASE c \notin OnDisk
    <2>1. /\ proc'[Worker] = [w EXCEPT !.todo = Tail(w.todo)]
          /\ Forgotten(r, NoTail) /\ UNCHANGED <<cand, execs, files>>
      BY <1>0, <1>2, <1>7 DEF SizeOfNext
    <2>2. /\ proc'[Worker].todo = Tail(w.todo) /\ proc'[Worker].found = w.found
          /\ proc'[Worker].left = <<>> /\ proc'[Worker].pc = "size"
      BY <1>2, <1>4, <2>1 DEF Memory
    <2>3. /\ Trimmed /\ \A s \in DOMAIN runs : s # r => runs'[s] = runs[s]
      BY <1>1, <2>1, ForgottenIsTrimmed DEF TailOf
    <2>4. \A i \in DOMAIN <<>> : FALSE
      OBVIOUS
    <2>5. Marked'
      BY <1>4, <1>5, <2>2, <2>3, <2>4 DEF Marked
    <2>6. OnDisk' = OnDisk
      BY <2>1 DEF OnDisk
    <2>7. ~GatedOnce(c)
      BY <1>1, <1>7 DEF Alone, Kept
    <2>8. \A s \in DOMAIN runs' : Kept(s)'
      <3> SUFFICES ASSUME NEW s \in DOMAIN runs' PROVE Kept(s)'
        OBVIOUS
      <3>1. s \in DOMAIN runs /\ execs' = execs
        BY <2>3 DEF Trimmed
      <3>2. CASE s = r
        <4>1. runs'[s].cand = c
          BY <2>3, <3>1, <3>2 DEF Trimmed
        <4> QED BY <2>7, <3>1, <4>1 DEF Kept, GatedOnce, ExecutionsOf
      <3>3. CASE s # r
        BY <2>3, <2>6, <3>1, <3>3 DEF Alone, Kept, GatedOnce, ExecutionsOf
      <3> QED BY <3>2, <3>3
    <2> QED BY <2>5, <2>8
  <1> QED BY <1>6, <1>7

\* The tail of a failure that was gated once is that of its own execution.
LEMMA AloneRead ==
    ASSUME TypeOK, Sound, Alone, ReadTail(Worker)
    PROVE  (\A r \in DOMAIN runs : Kept(r))' /\ Marked'
  <1> DEFINE w == proc[Worker]
             log == Head(w.left)
             tail == IF log.passed THEN NoTail ELSE LastLines(log.cand)
  <1>0. Worker \in Process
    BY DEF Process
  <1>1. proc \in [Process -> Memory] /\ w \in Memory
    BY <1>0, MemoryTypes
  <1>2. /\ proc'[Worker].todo = w.todo /\ proc'[Worker].found = w.found
        /\ proc'[Worker].left = w.left /\ proc'[Worker].pc = "forget"
        /\ proc'[Worker].tail = tail
        /\ UNCHANGED <<cand, execs, runs, files>> /\ w.left # <<>> /\ w.pc = "remove"
    BY <1>0, <1>1 DEF Memory, ReadTail, At
  <1>3. /\ 1 \in DOMAIN w.left /\ log = w.left[1] /\ log.run \in DOMAIN runs
        /\ log.cand = runs[log.run].cand /\ runs[log.run].logged
    BY <1>0, <1>2, FirstOfLeft DEF Alone, Marked
  <1>4. ASSUME GatedOnce(log.cand), ~log.passed
        PROVE  tail = runs[log.run].exec
    <2>1. log.cand \in OnDisk
      BY <1>3, <1>4 DEF Alone, Kept
    <2>2. Latest(log.cand, tail)
      BY <1>4, <2>1 DEF Sound, Tables, LastLines
    <2>3. /\ runs[log.run].exec \in DOMAIN execs
          /\ execs[runs[log.run].exec] = log.cand
      BY <1>3 DEF Sound, Tables
    <2>4. Once(log.cand)
      <3>1. PICK c : c = log.cand
        OBVIOUS
      <3> QED BY <1>4, <3>1, GatedOnceIsOnce
    <2> QED BY <2>2, <2>3, <2>4 DEF Latest, Once
  <1>5. OnDisk' = OnDisk
    BY <1>2 DEF OnDisk
  <1>6. GatedOnce(log.cand)' <=> GatedOnce(log.cand)
    BY <1>2 DEF GatedOnce, ExecutionsOf
  <1> HIDE DEF tail
  <1>7. Marked'
    BY <1>2, <1>4, <1>6 DEF Alone, Marked
  <1> QED BY <1>2, <1>5, <1>7, KeptStays DEF Alone

\* A row that forgets its log has kept its tail.
LEMMA AloneForget ==
    ASSUME TypeOK, Sound, Alone, ForgetLog(Worker)
    PROVE  (\A r \in DOMAIN runs : Kept(r))' /\ Marked'
  <1> DEFINE w == proc[Worker]
             log == Head(w.left)
             r == log.run
  <1>0. Worker \in Process
    BY DEF Process
  <1>1. proc \in [Process -> Memory] /\ w \in Memory
    BY <1>0, MemoryTypes
  <1>2. /\ proc'[Worker].todo = w.todo /\ proc'[Worker].found = w.found
        /\ proc'[Worker].left = w.left /\ proc'[Worker].pc = "unlink"
        /\ UNCHANGED <<cand, execs, files>> /\ w.pc = "forget"
    BY <1>0, <1>1 DEF Memory, ForgetLog, Goto, At
  <1>3. w.left # <<>> /\ TailOf(w.tail, r) /\ w.todo = <<>> /\ Distinct(w.left)
    BY <1>0, <1>2 DEF Sound, Holds
  <1>4. /\ 1 \in DOMAIN w.left /\ log = w.left[1] /\ r \in DOMAIN runs
        /\ log.cand = runs[r].cand /\ log.passed = runs[r].passed
        /\ cand[runs[r].cand] = "settled"
    BY <1>0, <1>3, FirstOfLeft
  <1>5. /\ Trimmed /\ ~runs'[r].logged /\ runs'[r].tail = w.tail
        /\ \A s \in DOMAIN runs : s # r => runs'[s] = runs[s]
    <2>1. w.tail \in Execution \cup {NoTail}
      BY <1>0, MemoryTypes
    <2>2. PICK row, tail : row = r /\ tail = w.tail
      OBVIOUS
    <2> QED BY <1>2, <1>3, <1>4, <2>1, <2>2, ForgottenIsTrimmed DEF ForgetLog
  <1>6. OnDisk' = OnDisk
    BY <1>2 DEF OnDisk
  <1>7. \A s \in DOMAIN runs' : Kept(s)'
    <2> SUFFICES ASSUME NEW s \in DOMAIN runs' PROVE Kept(s)'
      OBVIOUS
    <2>1. s \in DOMAIN runs /\ execs' = execs
      BY <1>5 DEF Trimmed
    <2>2. CASE s = r
      <3>1. /\ runs'[s].cand = log.cand /\ runs'[s].passed = log.passed
            /\ runs'[s].exec = runs[r].exec
        BY <1>4, <1>5, <2>1, <2>2 DEF Trimmed
      <3>2. GatedOnce(log.cand) /\ ~log.passed => w.tail = runs[r].exec
        BY <1>2 DEF Alone, Marked
      <3> QED BY <1>5, <2>1, <2>2, <3>1, <3>2 DEF Kept, GatedOnce, ExecutionsOf
    <2>3. CASE s # r
      BY <1>5, <1>6, <2>1, <2>3 DEF Alone, Kept, GatedOnce, ExecutionsOf
    <2> QED BY <2>2, <2>3
  <1>8. \A i \in DOMAIN w.left \ {1} : runs'[w.left[i].run].logged
    <2> SUFFICES ASSUME NEW i \in DOMAIN w.left, i # 1
                 PROVE  runs'[w.left[i].run].logged
      OBVIOUS
    <2>1. w.left[i].run # r
      BY <1>3, <1>4 DEF Distinct
    <2>2. runs[w.left[i].run].logged /\ w.left[i].run \in DOMAIN runs
      BY <1>0, <1>2 DEF Alone, Marked, Sound, Holds, Surveyed
    <2> QED BY <1>5, <2>1, <2>2
  <1>9. DOMAIN <<>> = {}
    OBVIOUS
  <1>10. Marked'
    BY <1>2, <1>3, <1>5, <1>8, <1>9 DEF Marked
  <1> QED BY <1>7, <1>10

\* The file that goes is that of a row that has forgotten it.
LEMMA AloneRemove ==
    ASSUME TypeOK, Sound, Alone, RemoveFile(Worker)
    PROVE  (\A r \in DOMAIN runs : Kept(r))' /\ Marked'
  <1> DEFINE w == proc[Worker]
             log == Head(w.left)
             r == log.run
             c == log.cand
  <1>0. Worker \in Process
    BY DEF Process
  <1>1. proc \in [Process -> Memory] /\ w \in Memory /\ w.left \in Seq(LogFile)
    BY <1>0, MemoryTypes
  <1>2. /\ proc'[Worker].todo = w.todo /\ proc'[Worker].found = w.found
        /\ proc'[Worker].left = Tail(w.left) /\ proc'[Worker].pc = "remove"
        /\ UNCHANGED <<cand, execs, runs>> /\ w.pc = "unlink"
        /\ files' = [files EXCEPT ![c] = NoFile]
    BY <1>0, <1>1 DEF Memory, RemoveFile, At
  <1>3. w.left # <<>> /\ w.todo = <<>>
    BY <1>0, <1>2 DEF Sound, Holds
  <1>4. /\ r \in DOMAIN runs /\ c = runs[r].cand /\ ~runs[r].logged
    BY <1>0, <1>2, <1>3, FirstOfLeft DEF Alone, Marked
  <1>5. \A d \in OnDisk : d # c => d \in OnDisk'
    BY <1>2 DEF OnDisk, TypeOK
  <1>6. \A s \in DOMAIN runs : Kept(s)'
    <2> SUFFICES ASSUME NEW s \in DOMAIN runs, GatedOnce(runs[s].cand)
                 PROVE  IF runs[s].logged THEN runs[s].cand \in OnDisk'
                        ELSE runs[s].passed \/ runs[s].tail = runs[s].exec
      BY <1>2 DEF Kept, GatedOnce, ExecutionsOf
    <2>1. CASE runs[s].cand # c
      BY <1>5, <2>1 DEF Alone, Kept
    <2>2. CASE runs[s].cand = c
      <3>1. Once(c)
        <4>1. PICK d : d = c
          OBVIOUS
        <4> QED BY <2>2, <4>1, GatedOnceIsOnce
      <3>2. runs[s].exec = runs[r].exec
        BY <1>4, <2>2, <3>1 DEF Sound, Tables, Once
      <3>3. s = r
        BY <1>4, <3>2 DEF Sound, Tables
      <3> QED BY <1>4, <3>3 DEF Alone, Kept
    <2> QED BY <2>1, <2>2
  <1>7. \A i \in DOMAIN Tail(w.left) :
           /\ i + 1 \in DOMAIN w.left /\ i + 1 # 1 /\ i \in Nat
           /\ Tail(w.left)[i] = w.left[i + 1]
    BY ONLY <1>1, <1>3, HeadAndTail
  <1>8. \A i \in DOMAIN Tail(w.left) : runs[Tail(w.left)[i].run].logged
    BY <1>2, <1>7 DEF Alone, Marked
  <1>9. DOMAIN <<>> = {}
    OBVIOUS
  <1>10. Marked'
    BY <1>2, <1>3, <1>8, <1>9 DEF Marked
  <1> QED BY <1>2, <1>6, <1>10

\* A candidate that is gated again was not gated once.
LEMMA AloneStart ==
    ASSUME TypeOK, Sound, Alone, TypeOK', GateStarts
    PROVE  (\A r \in DOMAIN runs : Kept(r))'
  <1>1. PICK c \in CandidateId :
           /\ Active = {c} /\ execs' = Append(execs, c)
           /\ Len(execs) + 1 \in Execution
           /\ files' = [files EXCEPT ![c] = [exec |-> Len(execs) + 1, bytes |-> 0]]
    BY OneMoreExecution
  <1> DEFINE n == Len(execs) + 1
  <1>2. /\ DOMAIN execs = 1..Len(execs) /\ Len(execs) \in Nat
        /\ execs \in Seq(CandidateId)
    BY RowTypes DEF TypeOK
  <1>3. /\ DOMAIN execs' = 1..n /\ execs'[n] = c /\ n \in 1..n /\ n \in Nat
        /\ \A x \in DOMAIN execs : x \in DOMAIN execs' /\ execs'[x] = execs[x] /\ x # n
        /\ \A x \in DOMAIN execs' : x \in DOMAIN execs \/ x = n
    <2>1. Append(execs, c) \in Seq(CandidateId)
      BY <1>2
    <2> QED BY ONLY <1>1, <1>2, <2>1
  <1>4. runs' = runs
    BY DEF GateStarts
  <1>5. \A d \in OnDisk : d # c => d \in OnDisk'
    BY <1>1 DEF OnDisk, TypeOK
  <1>6. ASSUME NEW r \in DOMAIN runs, GatedOnce(runs[r].cand)'
        PROVE  GatedOnce(runs[r].cand) /\ runs[r].cand # c
    <2>1. PICK S, d : S = ExecutionsOf(d)' /\ d = runs[r].cand
      OBVIOUS
    <2>2. S \in SUBSET (1..n) /\ Cardinality(S) = 1
      BY <1>3, <1>4, <1>6, <2>1 DEF GatedOnce, ExecutionsOf
    <2>3. PICK x \in S : \A y \in S : y = x
      BY <1>3, <2>2, OneMember
    <2>4. runs[r].exec \in DOMAIN execs /\ execs[runs[r].exec] = d
      BY <2>1 DEF Sound, Tables
    <2>5. runs[r].exec \in S
      BY <1>3, <2>1, <2>4 DEF ExecutionsOf
    <2>6. d # c
      <3>1. n \notin S
        BY <1>3, <2>3, <2>4, <2>5
      <3> QED BY <1>3, <2>1, <3>1 DEF ExecutionsOf
    <2>7. S = ExecutionsOf(d)
      BY <1>3, <2>1, <2>6 DEF ExecutionsOf
    <2> QED BY <2>1, <2>2, <2>6, <2>7 DEF GatedOnce
  <1> QED BY <1>4, <1>5, <1>6 DEF Alone, Kept

\* The row of an execution has its log.
LEMMA AloneRecord ==
    ASSUME TypeOK, Sound, Alone, RecordRun
    PROVE  (\A r \in DOMAIN runs : Kept(r))'
  <1>1. PICK c \in CandidateId :
           /\ Active = {c} /\ c \in OnDisk /\ Len(execs) \in Execution
           /\ runs' = Append(runs, [cand |-> c, exec |-> Len(execs),
                                   passed |-> proc[Worker].passed,
                                   logged |-> TRUE, tail |-> NoTail])
    BY OneMoreRow
  <1> DEFINE row == [cand |-> c, exec |-> Len(execs), passed |-> proc[Worker].passed,
                     logged |-> TRUE, tail |-> NoTail]
  <1>2. runs \in Seq(RunRow) /\ row \in RunRow
    BY <1>1, MemoryTypes DEF TypeOK, RunRow, Process
  <1>3. row.cand = c /\ row.logged
    OBVIOUS
  <1>4. runs' = Append(runs, row)
    BY <1>1
  <1> HIDE DEF row
  <1>5. \A r \in DOMAIN runs' :
           (r \in DOMAIN runs /\ runs'[r] = runs[r]) \/ runs'[r] = row
    <2>1. \A r \in DOMAIN Append(runs, row) :
             \/ r \in DOMAIN runs /\ Append(runs, row)[r] = runs[r]
             \/ /\ r = Len(runs) + 1 /\ r \notin DOMAIN runs
                /\ Append(runs, row)[r] = row
      BY ONLY <1>2, OneMore
    <2> QED BY <1>4, <2>1
  <1>6. UNCHANGED execs /\ OnDisk' = OnDisk
    BY DEF RecordRun, OnDisk
  <1> QED BY <1>1, <1>3, <1>5, <1>6 DEF Alone, Kept, GatedOnce, ExecutionsOf

\* As long as nobody prunes, nobody takes the worker by surprise.
LEMMA AloneStep ==
    ASSUME TypeOK, Sound, Alone, TypeOK', Next, spent'["prune"] = 0
    PROVE  Alone'
  <1>0. Worker \in Process /\ Worker \notin Prune /\ Prune \subseteq Process
    BY RetentionAssumption DEF Process
  <1>1. CASE TickRest
    <2>1. /\ \A q \in Process \ {Worker} : proc'[q] = proc[q]
          /\ proc'[Worker].todo = <<>> /\ proc'[Worker].left = <<>>
          /\ proc'[Worker].found = <<>> /\ proc'[Worker].pc \notin Removing
      BY <1>1, TickHands DEF Removing
    <2>2. \A p \in Prune : proc'[p].pc = "idle"
      BY <1>0, <2>1 DEF Alone
    <2>3. Marked'
      BY <2>1, NothingMarked
    <2>4. (\A r \in DOMAIN runs : Kept(r))'
      <3>1. CASE GateStarts
        BY <3>1, AloneStart
      <3>2. CASE RecordRun
        BY <3>2, AloneRecord
      <3>3. CASE GateEnds
        <4>1. UNCHANGED <<execs, runs>>
          BY <3>3 DEF GateEnds
        <4>2. OnDisk \subseteq OnDisk'
          BY <1>1, TickKeepsFiles
        <4> QED BY <4>1, <4>2, KeptStays DEF Alone
      <3>4. CASE ~GateStarts /\ ~RecordRun /\ ~GateEnds
        <4>1. UNCHANGED <<execs, runs, files>>
          BY <1>1, <3>4 DEF TickRest, StartTick, FindNothingQueued, Open, Resume,
                            SettleUngated, Settle
        <4>2. OnDisk' = OnDisk
          BY <4>1 DEF OnDisk
        <4> QED BY <4>1, <4>2, KeptStays DEF Alone
      <3> QED BY <3>1, <3>2, <3>3, <3>4
    <2> QED BY <2>2, <2>3, <2>4 DEF Alone
  <1>2. ASSUME NEW p \in Process,
               Apply(p) \/ StartPrune(p) \/ TickFails(p) \/ Crash(p)
        PROVE  Alone'
    <2>1. p = Worker /\ ~StartPrune(p)
      <3>1. ~StartPrune(p)
        BY DEF StartPrune, Spend, Event, TypeOK
      <3>2. ~At(p, "idle")
        BY <1>2, <3>1 DEF Apply, Survey, SizeOfNext, Decide, ReportDryRun, ReadTail,
                          ForgetLog, RemoveFile, FindFileGone, Applied, TickFails,
                          Crash, At
      <3> QED BY <3>1, <3>2 DEF Alone, At, Process
    <2>2. \A q \in Prune : proc'[q].pc = "idle"
      BY <1>0, <1>2, <2>1, ApplyIsTrimmed DEF Alone
    <2>3. (\A r \in DOMAIN runs : Kept(r))' /\ Marked'
      <3> DEFINE w == proc[Worker]
      <3>0. proc \in [Process -> Memory] /\ w \in Memory
        BY <1>0, MemoryTypes
      <3>1. CASE Survey(Worker)
        <4>1. /\ proc'[Worker].todo = LoggedRuns /\ proc'[Worker].found = <<>>
              /\ proc'[Worker].left = <<>> /\ proc'[Worker].pc = "size"
              /\ UNCHANGED <<cand, execs, runs, files>>
          <5>1. w.found = <<>> /\ w.left = <<>>
            BY <1>0, <3>1 DEF Sound, Holds, Survey, At, Removing
          <5> QED BY <1>0, <3>0, <3>1, <5>1 DEF Memory, Survey
        <4>2. DOMAIN <<>> = {}
          OBVIOUS
        <4>3. Marked'
          BY <4>1, <4>2, SurveyFinds DEF Marked
        <4>4. OnDisk' = OnDisk
          BY <4>1 DEF OnDisk
        <4> QED BY <4>1, <4>3, <4>4, KeptStays DEF Alone
      <3>2. CASE SizeOfNext(Worker)
        BY <3>2, AloneSize
      <3>3. CASE Decide(Worker)
        <4>1. /\ proc'[Worker].todo = <<>> /\ proc'[Worker].found = w.found
              /\ proc'[Worker].left = Plan(w.found) /\ proc'[Worker].pc = "remove"
              /\ UNCHANGED <<cand, execs, runs, files>> /\ w.pc = "size"
          BY <1>0, <3>0, <3>3 DEF Memory, Decide, At
        <4>2. \A i \in DOMAIN Plan(w.found) :
                 \E j \in DOMAIN w.found : Plan(w.found)[i] = w.found[j]
          <5>1. w.found \in Seq(LogFile) /\ Distinct(w.found)
            BY <1>0, MemoryTypes DEF Sound, Holds
          <5> HIDE DEF w
          <5> QED BY ONLY <5>1, PlanType
        <4>3. \A i \in DOMAIN Plan(w.found) : runs[Plan(w.found)[i].run].logged
          BY <4>1, <4>2 DEF Alone, Marked
        <4>4. DOMAIN <<>> = {}
          OBVIOUS
        <4>5. Marked'
          BY <4>1, <4>3, <4>4 DEF Marked
        <4>6. OnDisk' = OnDisk
          BY <4>1 DEF OnDisk
        <4> QED BY <4>1, <4>5, <4>6, KeptStays DEF Alone
      <3>4. CASE ReadTail(Worker)
        BY <3>4, AloneRead
      <3>5. CASE ForgetLog(Worker)
        BY <3>5, AloneForget
      <3>6. CASE RemoveFile(Worker)
        BY <3>6, AloneRemove
      <3>7. CASE \/ FindFileGone(Worker) \/ ReportDryRun(Worker) \/ Applied(Worker)
                 \/ TickFails(Worker) \/ Crash(Worker)
        <4>1. /\ \/ proc'[Worker] = Resting
                 \/ proc'[Worker] = [Resting EXCEPT !.pc = "look"]
              /\ UNCHANGED <<cand, execs, runs, files>>
          BY <1>0, <3>0, <3>7 DEF FindFileGone, ReportDryRun, Applied, TickFails, Crash,
                                  Finish
        <4>2. /\ proc'[Worker].todo = <<>> /\ proc'[Worker].left = <<>>
              /\ proc'[Worker].found = <<>> /\ proc'[Worker].pc \notin Removing
          BY <4>1 DEF Resting, Removing
        <4>3. OnDisk' = OnDisk
          BY <4>1 DEF OnDisk
        <4> QED BY <4>1, <4>2, <4>3, NothingMarked, KeptStays DEF Alone
      <3> QED BY <1>2, <2>1, <3>1, <3>2, <3>3, <3>4, <3>5, <3>6, <3>7 DEF Apply
    <2> QED BY <2>2, <2>3 DEF Alone
  <1> QED BY <1>1, <1>2 DEF Next

-----------------------------------------------------------------------------
(* Files nobody forgets, while nothing fails.                              *)

\* What is offered stays so, as long as its rows and those at it do.
LEMMA OfferedStays ==
    ASSUME NEW c, Offered(c), c \in OnDisk',
           cand'[c] = cand[c],
           \A r \in DOMAIN runs :
              /\ r \in DOMAIN runs' /\ runs'[r].cand = runs[r].cand
              /\ runs[r].logged => runs'[r].logged,
           \A p \in Process : At(p, "unlink") => proc'[p] = proc[p]
    PROVE  Offered(c)'
  <1>1. CASE cand[c] = "active"
    BY <1>1 DEF Offered
  <1>2. CASE c \in Accounted
    BY <1>2 DEF Offered, Accounted
  <1>3. CASE \E p \in Process : At(p, "unlink") /\ Head(proc[p].left).cand = c
    BY <1>3 DEF Offered, At
  <1> QED BY <1>1, <1>2, <1>3 DEF Offered

\* A row that forgets its log, or a file that goes, is in hand.
LEMMA TidyApply ==
    ASSUME TypeOK, Sound, Tidy, NEW p \in Process, Apply(p) \/ StartPrune(p)
    PROVE  Tidy'
  <1>0. Worker \in Process
    BY DEF Process
  <1>1. /\ Trimmed /\ \A q \in Process \ {p} : proc'[q] = proc[q]
        /\ proc'[p].pc \notin Gated
    BY ApplyIsTrimmed
  <1>2. /\ cand' = cand /\ Active' = Active /\ OnDisk' \subseteq OnDisk
    BY <1>1 DEF Trimmed, Active, OnDisk
  <1>3. ~orphan'
    BY DEF Apply, Survey, SizeOfNext, Decide, ReportDryRun, ReadTail, ForgetLog,
           RemoveFile, FindFileGone, Applied, StartPrune, Tidy
  <1>4. proc[p].pc \in {"idle"} \cup Applying
    BY DEF Apply, Survey, SizeOfNext, Decide, ReportDryRun, ReadTail, ForgetLog,
           RemoveFile, FindFileGone, Applied, StartPrune, At, Applying
  <1>5. /\ proc'[Worker].pc \in Gated \/ Active = {}
        /\ proc'[Worker].pc = "gate" => \A c \in Active : c \notin OnDisk'
    BY <1>0, <1>1, <1>2, <1>4 DEF Tidy, Gated, Applying
  <1>6. \A c \in OnDisk' : Offered(c)'
    <2> SUFFICES ASSUME NEW c \in OnDisk' PROVE Offered(c)'
      OBVIOUS
    <2>0. Offered(c) /\ c \in OnDisk /\ c \in CandidateId
      BY <1>2 DEF Tidy, OnDisk
    <2>1. CASE SizeOfNext(p)
      <3>1. CASE UNCHANGED runs
        BY <1>1, <1>2, <2>0, <2>1, <3>1, OfferedStays DEF SizeOfNext, At
      <3>2. CASE /\ Forgotten(Head(proc[p].todo), NoTail)
                 /\ runs[Head(proc[p].todo)].cand \notin OnDisk
        <4>1. PICK r : r = Head(proc[p].todo)
          OBVIOUS
        <4>2. r \in DOMAIN runs /\ cand[runs[r].cand] = "settled"
          BY <2>1, <4>1, FirstOfTodo DEF SizeOfNext
        <4>3. \A s \in DOMAIN runs : s # r => runs'[s] = runs[s]
          BY <2>1, <3>2, <4>1, <4>2, ForgottenIsTrimmed DEF TailOf, SizeOfNext
        <4>4. CASE c \in Accounted
          <5>1. PICK s \in DOMAIN runs : /\ runs[s].cand = c /\ runs[s].logged
                                         /\ cand[c] = "settled"
            BY <4>4 DEF Accounted
          <5>2. s # r
            BY <2>0, <3>2, <4>1, <5>1
          <5>3. s \in DOMAIN runs' /\ runs'[s] = runs[s]
            BY <1>1, <4>3, <5>2 DEF Trimmed
          <5> QED BY <1>2, <5>1, <5>3 DEF Offered, Accounted
        <4>5. CASE cand[c] = "active"
          BY <1>2, <4>5 DEF Offered
        <4>6. CASE \E q \in Process : At(q, "unlink") /\ Head(proc[q].left).cand = c
          BY <1>1, <2>1, <4>6 DEF Offered, At, SizeOfNext
        <4> QED BY <2>0, <4>4, <4>5, <4>6 DEF Offered
      <3> QED BY <2>1, <3>1, <3>2 DEF SizeOfNext
    <2>2. CASE ForgetLog(p)
      <3>1. /\ proc' = [proc EXCEPT ![p].pc = "unlink"] /\ At(p, "forget")
            /\ Forgotten(Head(proc[p].left).run, proc[p].tail)
            /\ UNCHANGED <<cand, execs, files>>
        BY <2>2 DEF ForgetLog, Goto
      <3>2. At(p, "unlink")' /\ proc'[p].left = proc[p].left
        BY <3>1, MemoryTypes DEF At, Memory
      <3>3. PICK r, tail : r = Head(proc[p].left).run /\ tail = proc[p].tail
        OBVIOUS
      <3>4. proc[p].left # <<>> /\ TailOf(tail, r)
        BY <3>1, <3>3 DEF Sound, Holds, At
      <3>5. /\ r \in DOMAIN runs /\ runs[r].cand = Head(proc[p].left).cand
            /\ cand[runs[r].cand] = "settled"
        BY <3>3, <3>4, FirstOfLeft
      <3>6. tail \in Execution \cup {NoTail}
        BY <3>3, MemoryTypes
      <3>7. \A s \in DOMAIN runs : s # r => runs'[s] = runs[s]
        BY <3>1, <3>3, <3>4, <3>5, <3>6, ForgottenIsTrimmed
      <3>8. CASE c = runs[r].cand
        BY <3>2, <3>5, <3>8 DEF Offered
      <3>9. CASE c # runs[r].cand /\ c \in Accounted
        <4>1. PICK s \in DOMAIN runs : /\ runs[s].cand = c /\ runs[s].logged
                                       /\ cand[c] = "settled"
          BY <3>9 DEF Accounted
        <4>2. s \in DOMAIN runs' /\ runs'[s] = runs[s]
          BY <1>1, <3>7, <3>9, <4>1 DEF Trimmed
        <4> QED BY <1>2, <4>1, <4>2 DEF Offered, Accounted
      <3>10. CASE cand[c] = "active"
        BY <1>2, <3>10 DEF Offered
      <3>11. CASE \E q \in Process : At(q, "unlink") /\ Head(proc[q].left).cand = c
        BY <1>1, <3>1, <3>11 DEF Offered, At
      <3> QED BY <2>0, <3>8, <3>9, <3>10, <3>11 DEF Offered
    <2>3. CASE RemoveFile(p) \/ FindFileGone(p)
      <3>1. Head(proc[p].left).cand # c
        BY <2>0, <2>3 DEF RemoveFile, FindFileGone, TypeOK, OnDisk
      <3>2. runs' = runs
        BY <2>3 DEF RemoveFile, FindFileGone
      <3>3. CASE c \in Accounted
        BY <1>2, <3>2, <3>3 DEF Offered, Accounted
      <3>4. CASE cand[c] = "active"
        BY <1>2, <3>4 DEF Offered
      <3>5. CASE \E q \in Process : At(q, "unlink") /\ Head(proc[q].left).cand = c
        BY <1>1, <3>1, <3>5 DEF Offered, At
      <3> QED BY <2>0, <3>3, <3>4, <3>5 DEF Offered
    <2>4. CASE \/ Survey(p) \/ Decide(p) \/ ReportDryRun(p) \/ ReadTail(p)
               \/ Applied(p) \/ StartPrune(p)
      <3>1. runs' = runs /\ ~At(p, "unlink")
        BY <2>4 DEF Survey, Decide, ReportDryRun, ReadTail, Applied, StartPrune, At
      <3> QED BY <1>1, <1>2, <2>0, <3>1, OfferedStays
    <2> QED BY <2>1, <2>2, <2>3, <2>4 DEF Apply
  <1> QED BY <1>2, <1>3, <1>5, <1>6 DEF Tidy

\* A candidate settles with a row that points at its log, or with no log.
LEMMA TidyTick ==
    ASSUME TypeOK, Sound, Tidy, TickRest
    PROVE  Tidy'
  <1>1. /\ \A q \in Process \ {Worker} : proc'[q] = proc[q]
        /\ \/ StartTick /\ proc'[Worker].pc = "survey"
           \/ /\ FindNothingQueued \/ SettleUngated \/ Settle
              /\ proc'[Worker].pc = "idle"
           \/ (Open \/ Resume) /\ proc'[Worker].pc = "gate"
           \/ GateStarts /\ proc'[Worker].pc = "run"
           \/ GateEnds /\ proc'[Worker].pc = "record"
           \/ RecordRun /\ proc'[Worker].pc = "settle"
    BY TickHands
  <1>2. ~At(Worker, "unlink")
    BY DEF TickRest, StartTick, FindNothingQueued, Open, Resume, SettleUngated,
           GateStarts, GateEnds, RecordRun, Settle, At
  <1>3. \A p \in Process : At(p, "unlink") => proc'[p] = proc[p]
    BY <1>1, <1>2
  <1>4. ASSUME UNCHANGED <<cand, runs, files>> PROVE \A c \in OnDisk' : Offered(c)'
    <2> SUFFICES ASSUME NEW c \in OnDisk' PROVE Offered(c)'
      OBVIOUS
    <2>1. Offered(c)
      BY <1>4 DEF Tidy, OnDisk
    <2> QED BY <1>3, <1>4, <2>1, OfferedStays
  <1>5. CASE StartTick /\ proc'[Worker].pc = "survey"
    <2>1. cand' = cand
      BY <1>5 DEF StartTick, Tidy, TypeOK
    <2>2. UNCHANGED <<runs, files>> /\ ~orphan' /\ Active = {}
      BY <1>5 DEF StartTick, Tidy, At, Gated
    <2>3. Active' = {}
      BY <2>1, <2>2 DEF Active
    <2> QED BY <1>4, <1>5, <2>1, <2>2, <2>3 DEF Tidy
  <1>6. CASE FindNothingQueued /\ proc'[Worker].pc = "idle"
    <2>1. UNCHANGED <<cand, runs, files>> /\ ~orphan' /\ Active = {}
      BY <1>6 DEF FindNothingQueued, Tidy
    <2>2. Active' = {}
      BY <2>1 DEF Active
    <2> QED BY <1>4, <1>6, <2>1, <2>2 DEF Tidy
  <1>7. CASE Open /\ proc'[Worker].pc = "gate"
    <2>1. PICK c \in CandidateId : cand[c] = "absent" /\ cand' = [cand EXCEPT ![c] = "active"]
      BY <1>7 DEF Open
    <2>2. UNCHANGED <<execs, runs, files>> /\ ~orphan' /\ Active = {}
      BY <1>7 DEF Open, Tidy
    <2>3. Active' = {c} /\ OnDisk' = OnDisk /\ \A d \in CandidateId : d # c => cand'[d] = cand[d]
      BY <2>1, <2>2 DEF Active, OnDisk, TypeOK
    <2>4. c \notin OnDisk
      BY <2>1 DEF Sound, Tables, Latest
    <2>5. ASSUME NEW d \in OnDisk' PROVE Offered(d)'
      <3>1. Offered(d) /\ d # c /\ d \in CandidateId
        BY <2>3, <2>4 DEF Tidy, OnDisk
      <3> QED BY <1>3, <2>2, <2>3, <2>5, <3>1, OfferedStays
    <2> QED BY <1>7, <2>2, <2>3, <2>4, <2>5 DEF Tidy, Gated
  <1>8. CASE Resume /\ proc'[Worker].pc = "gate"
    BY <1>8 DEF Resume, Tidy, At, Gated
  <1>9. CASE SettleUngated /\ proc'[Worker].pc = "idle"
    <2>1. /\ proc[Worker].pc = "gate" /\ \A c \in Active : c \notin OnDisk
          /\ UNCHANGED <<execs, runs, files>> /\ ~orphan' /\ SettleActive
      BY <1>9 DEF SettleUngated, Tidy, Gated
    <2>2. /\ Active' = {} /\ OnDisk' = OnDisk
          /\ \A d \in CandidateId : d \notin Active => cand'[d] = cand[d]
      BY <2>1 DEF SettleActive, Active, OnDisk
    <2>3. ASSUME NEW d \in OnDisk' PROVE Offered(d)'
      <3>1. Offered(d) /\ cand'[d] = cand[d]
        BY <2>1, <2>2 DEF Tidy, OnDisk
      <3> QED BY <1>3, <2>1, <2>2, <2>3, <3>1, OfferedStays
    <2> QED BY <1>9, <2>1, <2>2, <2>3 DEF Tidy
  <1>10. CASE GateStarts /\ proc'[Worker].pc = "run"
    <2>1. PICK c \in CandidateId :
             /\ Active = {c}
             /\ files' = [files EXCEPT ![c] = [exec |-> Len(execs) + 1, bytes |-> 0]]
      BY <1>10, OneMoreExecution
    <2>2. UNCHANGED <<cand, runs>> /\ ~orphan' /\ Active' = Active
      BY <1>10 DEF GateStarts, Tidy, Active
    <2>3. ASSUME NEW d \in OnDisk' PROVE Offered(d)'
      <3>1. CASE d = c
        BY <2>1, <2>2, <3>1 DEF Offered, Active
      <3>2. CASE d # c
        <4>1. Offered(d)
          BY <2>1, <3>2 DEF Tidy, OnDisk, TypeOK
        <4> QED BY <1>3, <2>2, <2>3, <4>1, OfferedStays
      <3> QED BY <3>1, <3>2
    <2> QED BY <1>10, <2>2, <2>3 DEF Tidy, Gated
  <1>11. CASE GateEnds /\ proc'[Worker].pc = "record"
    <2>1. UNCHANGED <<cand, runs>> /\ ~orphan' /\ Active' = Active
      BY <1>11 DEF GateEnds, Tidy, Active
    <2>2. \A c \in OnDisk' : c \in Active \/ c \in OnDisk
      BY <1>11 DEF GateEnds, OnDisk
    <2>3. ASSUME NEW d \in OnDisk' PROVE Offered(d)'
      <3>1. CASE d \in Active
        BY <2>1, <3>1 DEF Offered, Active
      <3>2. CASE d \in OnDisk
        <4>1. Offered(d)
          BY <3>2 DEF Tidy
        <4> QED BY <1>3, <2>1, <2>3, <4>1, OfferedStays
      <3> QED BY <2>2, <3>1, <3>2
    <2> QED BY <1>11, <2>1, <2>3 DEF Tidy, Gated
  <1>12. CASE RecordRun /\ proc'[Worker].pc = "settle"
    <2>1. UNCHANGED <<cand, files>> /\ ~orphan' /\ Active' = Active /\ OnDisk' = OnDisk
      BY <1>12 DEF RecordRun, Tidy, Active, OnDisk
    <2>2. \A r \in DOMAIN runs : r \in DOMAIN runs' /\ runs'[r] = runs[r]
      <3>1. PICK row \in RunRow : runs' = Append(runs, row)
        <4>1. PICK c \in CandidateId :
                 /\ Len(execs) \in Execution
                 /\ runs' = Append(runs, [cand |-> c, exec |-> Len(execs),
                                         passed |-> proc[Worker].passed,
                                         logged |-> TRUE, tail |-> NoTail])
          BY <1>12, OneMoreRow
        <4>2. [cand |-> c, exec |-> Len(execs), passed |-> proc[Worker].passed,
               logged |-> TRUE, tail |-> NoTail] \in RunRow
          BY <4>1, MemoryTypes DEF RunRow, Process
        <4> QED BY <4>1, <4>2
      <3>2. runs \in Seq(RunRow)
        BY DEF TypeOK
      <3>3. \A r \in DOMAIN runs : /\ r \in DOMAIN Append(runs, row)
                                   /\ Append(runs, row)[r] = runs[r]
        BY ONLY <3>2, OneMore
      <3> QED BY <3>1, <3>3
    <2>3. ASSUME NEW d \in OnDisk' PROVE Offered(d)'
      <3>1. Offered(d)
        BY <2>1 DEF Tidy
      <3> QED BY <1>3, <2>1, <2>2, <2>3, <3>1, OfferedStays
    <2> QED BY <1>12, <2>1, <2>3 DEF Tidy, Gated
  <1>13. CASE Settle /\ proc'[Worker].pc = "idle"
    <2>1. UNCHANGED <<execs, runs, files>> /\ ~orphan' /\ SettleActive /\ At(Worker, "settle")
      BY <1>13 DEF Settle, Tidy
    <2>2. /\ Active' = {} /\ OnDisk' = OnDisk
          /\ \A d \in CandidateId :
                cand'[d] = IF d \in Active THEN "settled" ELSE cand[d]
      BY <2>1 DEF SettleActive, Active, OnDisk
    <2>3. ASSUME NEW d \in OnDisk' PROVE Offered(d)'
      <3>0. d \in CandidateId /\ Offered(d)
        BY <2>2 DEF OnDisk, Tidy
      <3>1. CASE d \in Active
        <4>1. PICK r \in DOMAIN runs : runs[r].cand \in Active
          BY <2>1 DEF Sound, Flight, At
        <4>2. runs[r].cand = d /\ runs[r].logged
          BY <3>1, <4>1 DEF Sound, Flight, Tables, Active
        <4> QED BY <2>1, <2>2, <3>0, <3>1, <4>2 DEF Offered, Accounted
      <3>2. CASE d \notin Active
        BY <1>3, <2>1, <2>2, <2>3, <3>0, <3>2, OfferedStays
      <3> QED BY <3>1, <3>2
    <2> QED BY <1>13, <2>1, <2>2, <2>3 DEF Tidy
  <1> QED BY <1>1, <1>5, <1>6, <1>7, <1>8, <1>9, <1>10, <1>11, <1>12, <1>13

-----------------------------------------------------------------------------
(* The budget.                                                             *)

\* The logs a row still points at that the worker does not plan to remove.
Staying ==
    {c \in Accounted :
        \A i \in DOMAIN proc[Worker].left : proc[Worker].left[i].cand # c}

\* The worker's survey misses no log that a row points at, and knows its size;
\* and once it has decided, what stays fits into the budget.
Budgeted ==
    LET w == proc[Worker]
    IN  /\ w.pc = "size" =>
              /\ \A r \in DOMAIN runs :
                    runs[r].logged /\ cand[runs[r].cand] = "settled" =>
                        \/ \E i \in DOMAIN w.todo : w.todo[i] = r
                        \/ \E i \in DOMAIN w.found : w.found[i].run = r
              /\ \A i \in DOMAIN w.found :
                    w.found[i].cand \in OnDisk =>
                        w.found[i].bytes = files[w.found[i].cand].bytes
        /\ w.pc \in {"look"} \cup Removing => BytesOf(Staying) <= LogBudget

\* The bytes of some candidates' logs are numbers.
LEMMA BytesType ==
    ASSUME TypeOK, NEW S \in SUBSET OnDisk
    PROVE  [c \in CandidateId |-> IF c \in S THEN files[c].bytes ELSE 0]
              \in [1..MaxCandidates -> Nat]
  <1>1. \A c \in S : files[c].bytes \in Nat
    <2>1. \A file \in File : file.bytes \in Nat
      BY DEF File
    <2> QED BY <2>1, RowTypes
  <1> QED BY <1>1 DEF CandidateId

\* Fewer logs, none of them rewritten, have no more bytes.
LEMMA BytesShrink ==
    ASSUME TypeOK, TypeOK',
           \A c \in Staying' : c \in Staying /\ files'[c] = files[c]
    PROVE  /\ BytesOf(Staying)' <= BytesOf(Staying)
           /\ BytesOf(Staying)' \in Nat /\ BytesOf(Staying) \in Nat
  <1>1. PICK f : f = [c \in CandidateId |-> IF c \in Staying' THEN files'[c].bytes ELSE 0]
    OBVIOUS
  <1>2. PICK g : g = [c \in CandidateId |-> IF c \in Staying THEN files[c].bytes ELSE 0]
    OBVIOUS
  <1>3. g \in [1..MaxCandidates -> Nat]
    <2>1. Staying \in SUBSET OnDisk
      BY DEF Staying, Accounted
    <2> QED BY <1>2, <2>1, BytesType
  <1>4. f \in [1..MaxCandidates -> Nat] /\ \A c \in 1..MaxCandidates : f[c] <= g[c]
    <2>1. ASSUME NEW c \in 1..MaxCandidates PROVE f[c] \in Nat /\ f[c] <= g[c]
      <3>1. g[c] \in Nat /\ c \in CandidateId
        BY <1>3 DEF CandidateId
      <3>2. f[c] = g[c] \/ f[c] = 0
        BY <1>1, <1>2, <3>1
      <3> QED BY ONLY <3>1, <3>2
    <2>2. f = [c \in 1..MaxCandidates |-> f[c]]
      BY <1>1 DEF CandidateId
    <2> QED BY <2>1, <2>2
  <1>5. Total(f) <= Total(g) /\ Total(f) \in Nat /\ Total(g) \in Nat
    <2>1. MaxCandidates \in Nat
      BY RetentionAssumption
    <2>2. f \in Seq(Nat) /\ g \in Seq(Nat)
      BY ONLY <1>3, <1>4, <2>1, ListIsSeq
    <2>3. Total(f) <= Total(g)
      BY ONLY <1>3, <1>4, <2>1, TotalGrows
    <2> QED BY <2>2, <2>3, TotalType
  <1> QED BY <1>1, <1>2, <1>5 DEF BytesOf

\* No row gets its log back.
LEMMA FewerLogged ==
    ASSUME TypeOK, Sound, NEW p \in Process,
           Apply(p) \/ StartPrune(p) \/ TickFails(p) \/ Crash(p)
    PROVE  \A r \in DOMAIN runs : runs'[r].logged => runs[r].logged
  <1>1. \/ UNCHANGED runs
        \/ \E r \in DOMAIN runs, tail \in Execution \cup {NoTail} : Forgotten(r, tail)
    <2>1. CASE SizeOfNext(p)
      BY <2>1, FirstOfTodo DEF SizeOfNext
    <2>2. CASE ForgetLog(p)
      <3>1. proc[p].left # <<>>
        BY <2>2 DEF Sound, Holds, ForgetLog, At
      <3> QED BY <2>2, <3>1, FirstOfLeft, MemoryTypes DEF ForgetLog
    <2>3. CASE ~SizeOfNext(p) /\ ~ForgetLog(p)
      BY <2>3 DEF Apply, Survey, Decide, ReportDryRun, ReadTail, RemoveFile,
                  FindFileGone, Applied, StartPrune, TickFails, Crash
    <2> QED BY <2>1, <2>2, <2>3
  <1>2. ASSUME NEW r \in DOMAIN runs, NEW tail \in Execution \cup {NoTail},
               Forgotten(r, tail), NEW s \in DOMAIN runs, runs'[s].logged
        PROVE  runs[s].logged
    <2>1. runs'[s] = IF s = r THEN [runs[s] EXCEPT !.logged = FALSE, !.tail = tail]
                     ELSE runs[s]
      BY <1>2, ForgottenType
    <2>2. runs[s] \in RunRow
      BY RowTypes
    <2> QED BY <1>2, <2>1, <2>2 DEF RunRow
  <1> QED BY <1>1, <1>2

\* Whoever prunes, no log is accounted for that was not, and none is rewritten.
LEMMA FewerAccounted ==
    ASSUME TypeOK, Sound, NEW p \in Process,
           Apply(p) \/ StartPrune(p) \/ TickFails(p) \/ Crash(p)
    PROVE  \A c \in Accounted' : c \in Accounted /\ files'[c] = files[c]
  <1> SUFFICES ASSUME NEW c \in Accounted'
               PROVE  c \in Accounted /\ files'[c] = files[c]
    OBVIOUS
  <1>1. Trimmed
    BY ApplyIsTrimmed
  <1>2. c \in CandidateId /\ files'[c] # NoFile
    BY DEF Accounted, OnDisk
  <1>3. PICK r \in DOMAIN runs' : runs'[r].cand = c /\ runs'[r].logged /\ cand'[c] = "settled"
    BY DEF Accounted
  <1>4. files'[c] = files[c] /\ cand' = cand /\ r \in DOMAIN runs /\ runs'[r].cand = runs[r].cand
    BY <1>1, <1>2, <1>3 DEF Trimmed
  <1>5. runs[r].logged
    BY <1>3, <1>4, FewerLogged
  <1> QED BY <1>2, <1>3, <1>4, <1>5 DEF Accounted, OnDisk

\* A survey lists every row that points at the log of a settled candidate.
LEMMA BudgetSurvey ==
    ASSUME TypeOK, Sound, Survey(Worker)
    PROVE  Budgeted'
  <1> DEFINE S == {r \in DOMAIN runs :
                      runs[r].logged /\ cand[runs[r].cand] = "settled"}
  <1>1. Worker \in Process /\ proc \in [Process -> Memory] /\ proc[Worker] \in Memory
    BY MemoryTypes DEF Process
  <1>2. /\ proc'[Worker].todo = LoggedRuns /\ proc'[Worker].found = <<>>
        /\ proc'[Worker].pc = "size" /\ UNCHANGED <<cand, runs, files>>
    <2>1. proc[Worker].found = <<>>
      BY <1>1 DEF Sound, Holds, Survey, At, Removing
    <2> QED BY <1>1, <2>1 DEF Memory, Survey
  <1>3. S \in SUBSET Nat /\ IsFiniteSet(S)
    BY FiniteRows
  <1>4. /\ LoggedRuns \in [1..Cardinality(S) -> S]
        /\ \A r \in S : \E i \in 1..Cardinality(S) : LoggedRuns[i] = r
    BY <1>3, ByIdType DEF LoggedRuns
  <1>5. \A r \in S : \E i \in DOMAIN LoggedRuns : LoggedRuns[i] = r
    <2> HIDE DEF S
    <2> QED BY ONLY <1>4
  <1>6. \A i \in DOMAIN <<>> : FALSE
    OBVIOUS
  <1> QED BY <1>2, <1>5, <1>6 DEF Budgeted, Removing

\* A row that was listed is sized, or has lost its log for good.
LEMMA BudgetSize ==
    ASSUME TypeOK, Sound, Budgeted, SizeOfNext(Worker)
    PROVE  Budgeted'
  <1> DEFINE todo == proc[Worker].todo
             found == proc[Worker].found
             r == Head(todo)
             c == runs[r].cand
             log == [run |-> r, cand |-> c, bytes |-> files[c].bytes,
                     passed |-> runs[r].passed]
  <1>1. /\ Worker \in Process /\ proc \in [Process -> Memory]
        /\ proc[Worker] \in Memory /\ todo \in Seq(Nat) /\ found \in Seq(LogFile)
    BY MemoryTypes DEF Process
  <1>2. /\ 1 \in DOMAIN todo /\ r = todo[1] /\ r \in DOMAIN runs
        /\ c \in CandidateId
    BY <1>1, FirstOfTodo DEF SizeOfNext
  <1>3. \A i \in DOMAIN todo : i # 1 => \E j \in DOMAIN Tail(todo) : Tail(todo)[j] = todo[i]
    BY <1>1, FirstOrRest
  <1>4. /\ \A s \in DOMAIN runs :
              runs[s].logged /\ cand[runs[s].cand] = "settled" =>
                  \/ \E i \in DOMAIN todo : todo[i] = s
                  \/ \E i \in DOMAIN found : found[i].run = s
        /\ \A i \in DOMAIN found :
              found[i].cand \in OnDisk => found[i].bytes = files[found[i].cand].bytes
    BY DEF Budgeted, SizeOfNext, At
  <1>5. \A s \in DOMAIN runs :
           runs[s].logged /\ cand[runs[s].cand] = "settled" /\ s # r =>
               \/ \E i \in DOMAIN Tail(todo) : Tail(todo)[i] = s
               \/ \E i \in DOMAIN found : found[i].run = s
    BY <1>2, <1>3, <1>4
  <1>6. CASE c \in OnDisk
    <2>1. /\ proc' = [proc EXCEPT ![Worker].todo = Tail(todo),
                                  ![Worker].found = Append(found, log)]
          /\ UNCHANGED <<cand, runs, files>>
      BY <1>6 DEF SizeOfNext
    <2>2. /\ proc'[Worker].todo = Tail(todo) /\ proc'[Worker].pc = "size"
          /\ proc'[Worker].found = Append(found, log)
      BY <1>1, <2>1 DEF Memory, SizeOfNext, At
    <2>3. log \in LogFile
      BY <1>2, <1>6, RowTypes DEF LogFile, File
    <2>4. log.run = r /\ log.cand = c /\ log.bytes = files[c].bytes
      OBVIOUS
    <2> HIDE DEF log
    <2>5. /\ \A i \in DOMAIN Append(found, log) :
                 \/ i \in DOMAIN found /\ Append(found, log)[i] = found[i]
                 \/ /\ i = Len(found) + 1 /\ i \notin DOMAIN found
                    /\ Append(found, log)[i] = log
          /\ \A i \in DOMAIN found : /\ i \in DOMAIN Append(found, log)
                                     /\ Append(found, log)[i] = found[i]
          /\ Len(found) + 1 \in DOMAIN Append(found, log)
          /\ Append(found, log)[Len(found) + 1] = log
      BY ONLY <1>1, <2>3, OneMore
    <2>6. \A s \in DOMAIN runs :
             runs[s].logged /\ cand[runs[s].cand] = "settled" =>
                 \/ \E i \in DOMAIN Tail(todo) : Tail(todo)[i] = s
                 \/ \E i \in DOMAIN Append(found, log) : Append(found, log)[i].run = s
      <3> SUFFICES ASSUME NEW s \in DOMAIN runs,
                          runs[s].logged, cand[runs[s].cand] = "settled"
                   PROVE  \/ \E i \in DOMAIN Tail(todo) : Tail(todo)[i] = s
                          \/ \E i \in DOMAIN Append(found, log) :
                                Append(found, log)[i].run = s
        OBVIOUS
      <3>1. CASE s = r
        BY <2>4, <2>5, <3>1
      <3>2. CASE s # r
        BY <1>5, <2>5, <3>2
      <3> QED BY <3>1, <3>2
    <2>7. \A i \in DOMAIN Append(found, log) :
             Append(found, log)[i].cand \in OnDisk =>
                 Append(found, log)[i].bytes = files[Append(found, log)[i].cand].bytes
      BY <1>4, <2>4, <2>5
    <2>8. OnDisk' = OnDisk
      BY <2>1 DEF OnDisk
    <2>9. PICK rest, longer : rest = Tail(todo) /\ longer = Append(found, log)
      OBVIOUS
    <2>10. \A s \in DOMAIN runs' :
              runs'[s].logged /\ cand'[runs'[s].cand] = "settled" =>
                  \/ \E i \in DOMAIN rest : rest[i] = s
                  \/ \E i \in DOMAIN longer : longer[i].run = s
      BY <2>1, <2>6, <2>9
    <2>11. \A i \in DOMAIN longer :
              longer[i].cand \in OnDisk' => longer[i].bytes = files'[longer[i].cand].bytes
      BY <2>1, <2>7, <2>8, <2>9
    <2>12. /\ proc'[Worker].todo = rest /\ proc'[Worker].pc = "size"
           /\ proc'[Worker].found = longer
      BY <2>2, <2>9
    <2> QED BY ONLY <2>10, <2>11, <2>12 DEF Budgeted, Removing
  <1>7. CASE c \notin OnDisk
    <2>1. /\ proc' = [proc EXCEPT ![Worker].todo = Tail(todo)]
          /\ Forgotten(r, NoTail) /\ UNCHANGED <<cand, files>>
      BY <1>7 DEF SizeOfNext
    <2>2. /\ proc'[Worker].todo = Tail(todo) /\ proc'[Worker].pc = "size"
          /\ proc'[Worker].found = found
      BY <1>1, <2>1 DEF Memory, SizeOfNext, At
    <2>3. /\ DOMAIN runs' = DOMAIN runs
          /\ \A s \in DOMAIN runs : s # r => runs'[s] = runs[s]
          /\ ~runs'[r].logged
      <3>1. /\ DOMAIN runs' = DOMAIN runs
            /\ \A s \in DOMAIN runs :
                  runs'[s] = IF s = r THEN [runs[s] EXCEPT !.logged = FALSE,
                                                           !.tail = NoTail]
                             ELSE runs[s]
        BY <1>2, <2>1, ForgottenType
      <3>2. runs[r] \in RunRow
        BY <1>2, RowTypes
      <3> QED BY <1>2, <3>1, <3>2 DEF RunRow
    <2>4. OnDisk' = OnDisk
      BY <2>1 DEF OnDisk
    <2> QED BY <1>4, <1>5, <2>1, <2>2, <2>3, <2>4 DEF Budgeted, Removing
  <1> QED BY <1>6, <1>7

\* What is not planned to go is what the plan leaves of the budget.
LEMMA BudgetDecide ==
    ASSUME TypeOK, Sound, Budgeted, Decide(Worker)
    PROVE  Budgeted'
  <1> DEFINE found == proc[Worker].found
  <1>1. /\ Worker \in Process /\ proc \in [Process -> Memory]
        /\ proc[Worker] \in Memory /\ found \in Seq(LogFile)
    BY MemoryTypes DEF Process
  <1>2. /\ proc'[Worker].left = Plan(found) /\ proc'[Worker].pc = "remove"
        /\ UNCHANGED <<cand, runs, files>> /\ proc[Worker].pc = "size"
        /\ proc[Worker].todo = <<>>
    BY <1>1 DEF Memory, Decide, At
  <1>3. /\ Distinct(found) /\ \A i \in DOMAIN found : Surveyed(found[i])
    BY <1>1 DEF Sound, Holds
  <1>4. /\ \A r \in DOMAIN runs :
              runs[r].logged /\ cand[runs[r].cand] = "settled" =>
                  \E i \in DOMAIN found : found[i].run = r
        /\ \A i \in DOMAIN found :
              found[i].cand \in OnDisk => found[i].bytes = files[found[i].cand].bytes
    <2>1. \A i \in DOMAIN <<>> : FALSE
      OBVIOUS
    <2> QED BY <1>2, <2>1 DEF Budgeted
  <1>5. PICK kept \in Seq(LogFile) :
           /\ Bytes(kept) <= LogBudget
           /\ \A i \in DOMAIN found :
                 \/ \E j \in DOMAIN Plan(found) : Plan(found)[j] = found[i]
                 \/ \E j \in DOMAIN kept : kept[j] = found[i]
    BY <1>1, <1>3, PlanKeepsBudget
  <1>6. PICK m : m = Len(kept)
    OBVIOUS
  <1>7. m \in Nat /\ DOMAIN kept = 1..m /\ \A j \in 1..m : kept[j] \in LogFile
    BY <1>5, <1>6
  <1>8. PICK sizes, at, f :
           /\ sizes = [j \in 1..m |-> kept[j].bytes]
           /\ at = [j \in 1..m |-> kept[j].cand]
           /\ f = [c \in CandidateId |-> IF c \in Staying' THEN files[c].bytes ELSE 0]
    OBVIOUS
  <1>9. sizes \in [1..m -> Nat] /\ at \in [1..m -> 1..MaxCandidates]
    <2>1. \A log \in LogFile : log.bytes \in Nat /\ log.cand \in 1..MaxCandidates
      BY DEF LogFile, CandidateId
    <2> QED BY <1>7, <1>8, <2>1
  <1>10. f \in [1..MaxCandidates -> Nat]
    <2>1. Staying' \in SUBSET OnDisk
      BY <1>2 DEF Staying, Accounted, OnDisk
    <2> QED BY <1>8, <2>1, BytesType
  <1>11. ASSUME NEW c \in 1..MaxCandidates, f[c] # 0
         PROVE  \E j \in 1..m : at[j] = c /\ f[c] <= sizes[j]
    <2>1. c \in Staying' /\ f[c] = files[c].bytes
      BY <1>8, <1>11 DEF CandidateId
    <2>2. c \in OnDisk /\ \E r \in DOMAIN runs :
             runs[r].cand = c /\ runs[r].logged /\ cand[c] = "settled"
      BY <1>2, <2>1 DEF Staying, Accounted, OnDisk
    <2>3. \A j \in DOMAIN Plan(found) : Plan(found)[j].cand # c
      BY <1>2, <2>1 DEF Staying
    <2>4. PICK i \in DOMAIN found : found[i].cand = c
      BY <1>3, <1>4, <2>2 DEF Surveyed
    <2>5. PICK j \in 1..m : kept[j] = found[i]
      BY <1>5, <1>7, <2>3, <2>4
    <2>6. at[j] = c /\ sizes[j] = f[c]
      BY <1>4, <1>8, <2>1, <2>2, <2>4, <2>5
    <2>7. f[c] <= f[c]
      BY <1>10
    <2> QED BY <2>5, <2>6, <2>7
  <1>12. Total(f) <= Total(sizes)
    <2>1. MaxCandidates \in Nat
      BY RetentionAssumption
    <2>2. Listed(f, MaxCandidates, sizes, at, m)
      BY <1>11 DEF Listed
    <2>3. m \in Nat
      BY <1>7
    <2> QED BY ONLY <1>9, <1>10, <2>1, <2>2, <2>3, TotalCovered
  <1>13. Total(sizes) = Bytes(kept)
    BY <1>7, <1>8 DEF Bytes
  <1>14. BytesOf(Staying)' = Total(f)
    BY <1>2, <1>8 DEF BytesOf
  <1>15. Total(f) \in Nat /\ Total(sizes) \in Nat /\ LogBudget \in Nat
    <2>1. f \in Seq(Nat) /\ sizes \in Seq(Nat)
      BY <1>7, <1>9, <1>10, RetentionAssumption, ListIsSeq
    <2> QED BY <2>1, TotalType, RetentionAssumption
  <1>16. BytesOf(Staying)' <= LogBudget
    BY ONLY <1>5, <1>12, <1>13, <1>14, <1>15
  <1> QED BY <1>2, <1>16 DEF Budgeted

\* Nobody brings the worker over its budget while it prunes.
LEMMA BudgetStep ==
    ASSUME TypeOK, Sound, TypeOK', Budgeted, Next
    PROVE  Budgeted'
  <1>1. CASE TickRest
    <2>1. proc'[Worker].pc \notin {"size", "look"} \cup Removing
      BY <1>1, TickHands DEF Removing
    <2> QED BY <2>1 DEF Budgeted
  <1>2. ASSUME NEW p \in Process,
               Apply(p) \/ StartPrune(p) \/ TickFails(p) \/ Crash(p)
        PROVE  Budgeted'
    <2>0. /\ proc \in [Process -> Memory] /\ proc[p] \in Memory /\ Worker \in Process
          /\ proc[p].left \in Seq(LogFile)
      BY MemoryTypes DEF Process
    <2>1. \A c \in Accounted' : c \in Accounted /\ files'[c] = files[c]
      BY <1>2, FewerAccounted
    <2>2. /\ Trimmed /\ \A q \in Process \ {p} : proc'[q] = proc[q]
          /\ \A r \in DOMAIN runs : runs'[r].logged => runs[r].logged
      BY <1>2, ApplyIsTrimmed, FewerLogged
    <2>3. ASSUME \A c \in Staying' : c \in Staying, BytesOf(Staying) <= LogBudget
          PROVE  BytesOf(Staying)' <= LogBudget
      <3>1. \A c \in Staying' : c \in Accounted'
        BY DEF Staying
      <3>2. /\ BytesOf(Staying)' <= BytesOf(Staying)
            /\ BytesOf(Staying)' \in Nat /\ BytesOf(Staying) \in Nat
        BY <2>1, <2>3, <3>1, BytesShrink
      <3>3. LogBudget \in Nat
        BY RetentionAssumption
      <3> QED BY ONLY <2>3, <3>2, <3>3
    <2>4. CASE p # Worker
      <3>1. proc'[Worker] = proc[Worker]
        BY <2>0, <2>2, <2>4
      <3>2. /\ DOMAIN runs' = DOMAIN runs /\ cand' = cand
            /\ \A r \in DOMAIN runs : runs'[r].cand = runs[r].cand
        BY <2>2 DEF Trimmed
      <3>3. \A c \in OnDisk' : c \in OnDisk /\ files'[c] = files[c]
        BY <2>2 DEF Trimmed, OnDisk
      <3>4. \A c \in Staying' : c \in Staying
        BY <2>1, <3>1 DEF Staying
      <3> QED BY <2>2, <2>3, <3>1, <3>2, <3>3, <3>4 DEF Budgeted
    <2>5. CASE p = Worker
      <3>0. Worker \notin Prune
        BY RetentionAssumption
      <3>1. CASE Survey(p)
        BY <2>5, <3>1, BudgetSurvey
      <3>2. CASE SizeOfNext(p)
        BY <2>5, <3>2, BudgetSize
      <3>3. CASE Decide(p)
        BY <2>5, <3>3, BudgetDecide
      <3>4. CASE ReadTail(p) \/ ForgetLog(p)
        <4>1. /\ proc'[p].left = proc[p].left /\ proc'[p].pc \in Removing
              /\ proc[p].pc \in Removing
          BY <2>0, <3>4 DEF ReadTail, ForgetLog, Goto, At, Memory, Removing
        <4>2. \A c \in Staying' : c \in Staying
          BY <2>1, <2>5, <4>1 DEF Staying
        <4> QED BY <2>3, <2>5, <4>1, <4>2 DEF Budgeted, Removing
      <3>5. CASE RemoveFile(p)
        <4>1. /\ proc'[p].left = Tail(proc[p].left) /\ proc'[p].pc \in Removing
              /\ proc[p].pc \in Removing
          BY <2>0, <3>5 DEF RemoveFile, At, Memory, Removing
        <4>3. Head(proc[p].left).cand \notin OnDisk'
          BY <3>5 DEF RemoveFile, OnDisk, TypeOK
        <4>4. \A i \in DOMAIN proc[p].left :
                 \/ proc[p].left[i] = Head(proc[p].left)
                 \/ \E j \in DOMAIN Tail(proc[p].left) :
                       Tail(proc[p].left)[j] = proc[p].left[i]
          BY <2>0, FirstOrRest
        <4>5. \A c \in Staying' : c \in Staying
          <5> SUFFICES ASSUME NEW c \in Staying', NEW i \in DOMAIN proc[p].left,
                              proc[p].left[i].cand = c
                       PROVE  FALSE
            BY <2>1, <2>5 DEF Staying
          <5>1. c \in OnDisk' /\ \A j \in DOMAIN Tail(proc[p].left) :
                                    Tail(proc[p].left)[j].cand # c
            BY <2>5, <4>1 DEF Staying, Accounted
          <5> QED BY <4>3, <4>4, <5>1
        <4> QED BY <2>3, <2>5, <4>1, <4>5 DEF Budgeted, Removing
      <3>6. CASE Applied(p)
        <4>1. /\ proc[p].left = <<>> /\ proc[p].pc \in Removing
              /\ proc'[p].left = <<>> /\ proc'[p].pc = "look"
          BY <2>0, <2>5, <3>6 DEF Applied, At, Resting, Removing
        <4>2. \A c \in Staying' : c \in Staying
          BY <2>1, <2>5, <4>1 DEF Staying
        <4> QED BY <2>3, <2>5, <4>1, <4>2 DEF Budgeted, Removing
      <3>7. CASE FindFileGone(p) \/ TickFails(p) \/ Crash(p)
        <4>1. proc'[p].pc = "idle"
          BY <2>0, <3>7 DEF FindFileGone, TickFails, Crash, Finish, Resting
        <4> QED BY <2>5, <4>1 DEF Budgeted, Removing
      <3>8. ~ReportDryRun(p) /\ ~StartPrune(p)
        BY <2>5, <3>0 DEF ReportDryRun, StartPrune
      <3> QED BY <1>2, <3>1, <3>2, <3>3, <3>4, <3>5, <3>6, <3>7, <3>8 DEF Apply
    <2> QED BY <2>4, <2>5
  <1> QED BY <1>1, <1>2 DEF Next

-----------------------------------------------------------------------------
(* The theorems.                                                           *)

\* The invariant holds at first, and every step of anybody keeps it.
LEMMA RetentionHolds == Spec => []RetentionInv
  <1>1. Init => RetentionInv
    <2> SUFFICES ASSUME Init PROVE RetentionInv
      OBVIOUS
    <2>1. TypeOK /\ Sound
      BY SoundInit
    <2>2. /\ OnDisk = {} /\ Active = {} /\ DOMAIN runs = {} /\ ~orphan
          /\ \A p \in Process : proc[p] = Resting
      BY DEF Init, OnDisk, Active
    <2>3. /\ Worker \in Process /\ Prune \subseteq Process
          /\ Resting.pc = "idle" /\ Resting.todo = <<>>
          /\ Resting.found = <<>> /\ Resting.left = <<>> /\ DOMAIN <<>> = {}
      BY DEF Process, Resting
    <2>4. Alone
      BY <2>2, <2>3 DEF Alone, Marked
    <2>5. Tidy
      BY <2>2, <2>3 DEF Tidy
    <2> QED BY <2>1, <2>4, <2>5 DEF RetentionInv
  <1>2. RetentionInv /\ [Next]_vars => RetentionInv'
    <2> SUFFICES ASSUME RetentionInv, [Next]_vars PROVE RetentionInv'
      OBVIOUS
    <2>1. TypeOK /\ Sound /\ TypeOK' /\ Sound'
      BY SoundStep DEF RetentionInv
    <2>2. CASE Next
      <3>1. \/ TickRest /\ spent' = spent
            \/ \E p \in Process :
                 \/ Apply(p) /\ spent' = spent
                 \/ StartPrune(p) /\ Spend("prune")
                 \/ TickFails(p) /\ Spend("fault")
                 \/ Crash(p) /\ Spend("crash")
        <4>1. TickRest => spent' = spent
          BY DEF TickRest, StartTick, FindNothingQueued, Open, Resume,
                 SettleUngated, GateStarts, GateEnds, RecordRun, Settle
        <4>2. \A p \in Process : Apply(p) => spent' = spent
          <5> TAKE p \in Process
          <5>1. Survey(p) \/ SizeOfNext(p) \/ Decide(p) \/ ReportDryRun(p)
                   => spent' = spent
            BY DEF Survey, SizeOfNext, Decide, ReportDryRun
          <5>2. ReadTail(p) \/ ForgetLog(p) \/ RemoveFile(p) \/ FindFileGone(p)
                   \/ Applied(p) => spent' = spent
            BY DEF ReadTail, ForgetLog, RemoveFile, FindFileGone, Applied
          <5> QED BY <5>1, <5>2 DEF Apply
        <4>3. \A p \in Process : /\ StartPrune(p) => Spend("prune")
                                 /\ TickFails(p) => Spend("fault")
                                 /\ Crash(p) => Spend("crash")
          BY DEF StartPrune, TickFails, Crash
        <4>4. TickRest \/ \E p \in Process : \/ Apply(p) \/ StartPrune(p)
                                             \/ TickFails(p) \/ Crash(p)
          BY <2>2 DEF Next
        <4> QED BY <4>1, <4>2, <4>3, <4>4
      <3>2. spent \in [Event -> Nat]
        BY <2>1 DEF TypeOK
      <3>3. spent'["prune"] = 0 => spent["prune"] = 0
        BY <3>1, <3>2 DEF Spend, Event
      <3>4. spent'["prune"] = 0 => Alone'
        BY <2>1, <2>2, <3>3, AloneStep DEF RetentionInv
      <3>5. ASSUME spent'["crash"] + spent'["fault"] = 0
            PROVE  /\ spent["crash"] + spent["fault"] = 0
                   /\ TickRest \/ \E p \in Process : Apply(p) \/ StartPrune(p)
        BY <3>1, <3>2, <3>5 DEF Spend, Event
      <3>6. spent'["crash"] + spent'["fault"] = 0 => Tidy'
        BY <2>1, <3>5, TidyTick, TidyApply DEF RetentionInv
      <3> QED BY <2>1, <3>4, <3>6 DEF RetentionInv
    <2>3. CASE UNCHANGED vars
      <3>1. Alone => Alone'
        BY <2>3 DEF vars, Alone, Kept, Marked, GatedOnce, ExecutionsOf, OnDisk
      <3>2. Tidy => Tidy'
        BY <2>3 DEF vars, Tidy, Offered, Accounted, Active, OnDisk, At
      <3> QED BY <2>1, <2>3, <3>1, <3>2 DEF vars, RetentionInv
    <2> QED BY <2>2, <2>3
  <1> QED BY <1>1, <1>2, PTL DEF Spec

\* As long as nothing was killed or failed, every log on disk is one somebody
\* will offer, sasse prune beside the worker or not.
THEOREM NoFileIsForgotten == Spec => []NothingLeaks
  <1>1. RetentionInv => NothingLeaks
    BY DEF RetentionInv, Tidy, Offered, NothingLeaks
  <1> QED BY <1>1, RetentionHolds, PTL

\* A failure's last lines survive its file whatever dies or fails between the
\* tail, the row and the file, unless two prunes race or it is gated again.
THEOREM ReasonsSurvive == Spec => []ReasonSurvivesCrashes
  <1>1. RetentionInv => ReasonSurvivesCrashes
    <2> SUFFICES ASSUME RetentionInv, spent["prune"] = 0, NEW r \in DOMAIN runs,
                        ~runs[r].passed, GatedOnce(runs[r].cand)
                 PROVE  Explained(r)
      BY DEF ReasonSurvivesCrashes
    <2>1. TypeOK /\ Sound /\ Kept(r)
      BY DEF RetentionInv, Alone
    <2> DEFINE c == runs[r].cand
    <2>2. CASE ~runs[r].logged
      <3>1. runs[r].tail = runs[r].exec
        BY <2>1, <2>2 DEF Kept
      <3> QED BY <3>1 DEF Explained
    <2>3. CASE runs[r].logged
      <3>1. c \in OnDisk
        BY <2>1, <2>3 DEF Kept
      <3>2. Latest(c, files[c].exec)
        BY <2>1, <3>1 DEF Sound, Tables
      <3>3. runs[r].exec \in DOMAIN execs /\ execs[runs[r].exec] = c
        BY <2>1 DEF Sound, Tables
      <3>4. Once(c)
        <4>1. PICK d : d = c
          OBVIOUS
        <4> QED BY <2>1, <4>1, GatedOnceIsOnce
      <3>5. files[c].exec = runs[r].exec
        BY <3>2, <3>3, <3>4 DEF Latest, Once
      <3> QED BY <2>3, <3>1, <3>5 DEF Explained
    <2> QED BY <2>2, <2>3
  <1> QED BY <1>1, RetentionHolds, PTL

\* The last run that sasse logs shows is a run of the candidate it was asked for.
LEMMA LastRunIsARun ==
    ASSUME TypeOK, NEW c, RunsOf(c) # <<>>
    PROVE  LastRun(c) \in DOMAIN runs /\ runs[LastRun(c)].cand = c
  <1> DEFINE S == {r \in DOMAIN runs : runs[r].cand = c}
             n == Cardinality(S)
             rows == RunsOf(c)
  <1>1. S \in SUBSET Nat /\ IsFiniteSet(S)
    BY FiniteRows
  <1>2. n \in Nat /\ rows \in [1..n -> S]
    BY <1>1, ByIdType DEF RunsOf
  <1> HIDE DEF S, n, rows
  <1>3. rows \in Seq(S) /\ Len(rows) = n
    BY ONLY <1>2, ListIsSeq
  <1>4. rows # <<>>
    BY DEF rows
  <1>5. Len(rows) \in DOMAIN rows /\ rows[Len(rows)] \in S
    BY ONLY <1>3, <1>4
  <1>6. LastRun(c) = rows[Len(rows)]
    BY DEF LastRun, Last, rows
  <1> QED BY <1>5, <1>6 DEF S

\* sasse logs shows the output of an execution of the candidate it was asked
\* for, never of one before the run it names; and it only says that nothing
\* was kept because the gate passed if it did, unless two prunes raced or the
\* candidate was gated again.
THEOREM LogsAreHonest == Spec => []LogsTellTheTruth
  <1>1. RetentionInv => LogsTellTheTruth
    <2> SUFFICES ASSUME RetentionInv, NEW c \in CandidateId, RunsOf(c) # <<>>
                 PROVE  LET r == LastRun(c)
                            printed == Printed(r)
                        IN  /\ printed.exec # NoTail =>
                                  /\ execs[printed.exec] = c
                                  /\ printed.exec >= runs[r].exec
                            /\ printed.what = "passed" /\ spent["prune"] = 0
                                  /\ GatedOnce(c) => runs[r].passed
      BY DEF LogsTellTheTruth
    <2>1. TypeOK /\ Sound /\ (spent["prune"] = 0 => Alone)
      BY DEF RetentionInv
    <2>2. PICK r : r = LastRun(c)
      OBVIOUS
    <2>3. r \in DOMAIN runs /\ runs[r].cand = c
      BY <2>1, <2>2, LastRunIsARun
    <2>4. /\ runs[r].exec \in Execution /\ runs[r].exec \in DOMAIN execs
          /\ execs[runs[r].exec] = c
      <3>1. runs \in Seq(RunRow)
        BY <2>1 DEF TypeOK
      <3>2. runs[r] \in RunRow
        BY <2>3, <3>1
      <3> QED BY <2>1, <2>3, <3>2 DEF RunRow, Sound, Tables
    <2>5. CASE runs[r].logged /\ c \in OnDisk
      <3>1. Printed(r) = [what |-> "log", exec |-> files[c].exec]
        BY <2>3, <2>5 DEF Printed
      <3>2. Latest(c, files[c].exec)
        BY <2>1, <2>5 DEF Sound, Tables
      <3>3. execs[files[c].exec] = c /\ files[c].exec >= runs[r].exec
        <4>1. files[c].exec \in Nat /\ runs[r].exec \in Nat
          BY <2>1, <2>4, <2>5, RowTypes DEF Execution
        <4> QED BY <2>4, <3>2, <4>1 DEF Latest
      <3> QED BY <2>2, <3>1, <3>3
    <2>6. CASE runs[r].logged /\ c \notin OnDisk
      <3>1. Printed(r) = [what |-> "unreadable", exec |-> NoTail]
        BY <2>3, <2>6 DEF Printed
      <3> QED BY <2>2, <3>1
    <2>7. CASE ~runs[r].logged /\ runs[r].tail # NoTail
      <3>1. Printed(r) = [what |-> "tail", exec |-> runs[r].tail]
        BY <2>3, <2>7 DEF Printed
      <3>2. TailOf(runs[r].tail, r)
        BY <2>1, <2>3 DEF Sound, Tables
      <3> QED BY <2>2, <2>3, <2>7, <3>1, <3>2 DEF TailOf
    <2>8. CASE ~runs[r].logged /\ runs[r].tail = NoTail
      <3>1. Printed(r) = [what |-> "passed", exec |-> NoTail]
        BY <2>3, <2>8 DEF Printed
      <3>2. ASSUME spent["prune"] = 0, GatedOnce(c) PROVE runs[r].passed
        <4>1. runs[r].passed \/ runs[r].tail = runs[r].exec
          BY <2>1, <2>3, <2>8, <3>2 DEF Alone, Kept
        <4>2. runs[r].exec # NoTail
          BY <2>4, RetentionAssumption DEF Execution, NoTail
        <4> QED BY <2>8, <4>1, <4>2
      <3> QED BY <2>2, <3>1, <3>2
    <2> QED BY <2>5, <2>6, <2>7, <2>8
  <1> QED BY <1>1, RetentionHolds, PTL

\* When a tick goes on to the queue, the logs that some row still points at fit
\* into the budget, whoever else prunes, dies or fails.
THEOREM BudgetHolds == Spec => []BudgetIsKept
  <1>1. Init => TypeOK /\ Sound /\ Budgeted
    <2> SUFFICES ASSUME Init PROVE Budgeted
      BY SoundInit
    <2>1. proc[Worker].pc = "idle"
      BY DEF Init, Process, Resting
    <2> QED BY <2>1 DEF Budgeted, Removing
  <1>2. TypeOK /\ Sound /\ Budgeted /\ [Next]_vars => (TypeOK /\ Sound /\ Budgeted)'
    <2> SUFFICES ASSUME TypeOK, Sound, Budgeted, [Next]_vars
                 PROVE  (TypeOK /\ Sound /\ Budgeted)'
      OBVIOUS
    <2>1. TypeOK' /\ Sound'
      BY SoundStep
    <2>2. CASE Next
      BY <2>1, <2>2, BudgetStep
    <2>3. CASE UNCHANGED vars
      BY <2>1, <2>3 DEF vars, Budgeted, Staying, Accounted, OnDisk, BytesOf
    <2> QED BY <2>2, <2>3
  <1>3. TypeOK /\ Sound /\ Budgeted => BudgetIsKept
    <2> SUFFICES ASSUME TypeOK, Sound, Budgeted, At(Worker, "look")
                 PROVE  BytesOf(Accounted) <= LogBudget
      BY DEF BudgetIsKept
    <2>1. proc[Worker].left = <<>>
      BY DEF Sound, Holds, At, Removing, Process
    <2>2. \A i \in DOMAIN <<>> : FALSE
      OBVIOUS
    <2>3. Staying = Accounted
      BY <2>1, <2>2 DEF Staying
    <2> QED BY <2>3 DEF Budgeted, At
  <1> QED BY <1>1, <1>2, <1>3, PTL DEF Spec
=============================================================================
