------------------------------ MODULE Recursion ------------------------------
(***************************************************************************)
(* Induction and recursion over the places of a list, stated about sets    *)
(* and functions and not about operators: with the set of the places where *)
(* a formula holds, and the function that takes a result one place         *)
(* further, the proofs can use them for whatever list they are about.      *)
(***************************************************************************)
EXTENDS Integers, WellFoundedInduction, TLAPS

\* What holds at 0, and at each place if it does at the one before, holds at
\* every place up to n.
LEMMA UpTo ==
    ASSUME NEW n \in Nat, NEW S, 0 \in S,
           \A i \in 1..n : i - 1 \in S => i \in S
    PROVE  \A i \in 0..n : i \in S
  <1> DEFINE Bad == {i \in 0..n : i \notin S}
  <1> SUFFICES ASSUME Bad # {} PROVE FALSE
    OBVIOUS
  <1>1. Bad \subseteq Nat
    OBVIOUS
  <1>2. PICK x \in Bad : \A y \in Bad : ~(<<y, x>> \in OpToRel(<, Nat))
    <2> HIDE DEF Bad
    <2> QED BY <1>1, WFMin, NatLessThanWellFounded
  <1>3. x \in 1..n /\ x - 1 \in 0..n
    OBVIOUS
  <1>4. \A y \in Bad : ~(y < x)
    <2> SUFFICES ASSUME NEW y \in Bad PROVE ~(y < x)
      OBVIOUS
    <2>1. y \in Nat /\ x \in Nat
      BY <1>1
    <2> QED BY <1>2, <2>1 DEF OpToRel
  <1>5. x - 1 < x /\ x \notin S
    OBVIOUS
  <1>6. x - 1 \notin Bad
    BY <1>4, <1>5
  <1> QED BY <1>3, <1>5, <1>6

\* f starts at base, and step makes each of its results, up to place n, of the
\* one before and of the place.
GoesBy(f, T, n, base, step) ==
    /\ f \in [0..n -> T]
    /\ f[0] = base
    /\ \A i \in 1..n : f[i] = step[<<f[i - 1], i>>]

\* A function that goes by recursion over the places of a list exists.
LEMMA RecursionExists ==
    ASSUME NEW T, NEW n \in Nat, NEW base \in T, NEW step \in [T \X (1..n) -> T]
    PROVE  \E f : GoesBy(f, T, n, base, step)
  <1> DEFINE Goes(f, k) == f[0] = base /\ \A i \in 1..k : f[i] = step[<<f[i - 1], i>>]
             S == {k \in 0..n : \E f \in [0..k -> T] : Goes(f, k)}
  <1>1. 0 \in S
    <2> DEFINE f == [i \in 0..0 |-> base]
    <2>1. f \in [0..0 -> T] /\ f[0] = base
      OBVIOUS
    <2>2. \A i \in 1..0 : FALSE
      OBVIOUS
    <2> HIDE DEF f
    <2>3. Goes(f, 0)
      BY <2>1, <2>2
    <2> QED BY <2>1, <2>3
  <1>2. ASSUME NEW k \in 1..n, k - 1 \in S PROVE k \in S
    <2>1. PICK f \in [0..(k - 1) -> T] : Goes(f, k - 1)
      BY <1>2
    <2>2. f[k - 1] \in T
      BY <2>1
    <2> DEFINE longer == [i \in 0..k |-> IF i = k THEN step[<<f[k - 1], k>>] ELSE f[i]]
    <2>3. longer \in [0..k -> T]
      <3>1. step[<<f[k - 1], k>>] \in T
        BY <2>2
      <3>2. \A i \in 0..k : i # k => i \in 0..(k - 1)
        OBVIOUS
      <3> QED BY <3>1, <3>2
    <2>4. \A i \in 0..k : longer[i] = IF i = k THEN step[<<f[k - 1], k>>] ELSE f[i]
      OBVIOUS
    <2> HIDE DEF longer
    <2>5. Goes(longer, k)
      <3>1. longer[0] = base
        BY <2>1, <2>4
      <3>2. ASSUME NEW i \in 1..k PROVE longer[i] = step[<<longer[i - 1], i>>]
        <4>1. i \in 0..k /\ i - 1 \in 0..k /\ i - 1 # k
          OBVIOUS
        <4>2. longer[i - 1] = f[i - 1]
          BY <2>4, <4>1
        <4>3. CASE i = k
          BY <2>4, <4>1, <4>2, <4>3
        <4>4. CASE i # k
          <5>1. i \in 1..(k - 1) /\ longer[i] = f[i]
            BY <2>4, <4>1, <4>4
          <5>2. f[i] = step[<<f[i - 1], i>>]
            BY <2>1, <5>1
          <5> QED BY <4>2, <5>1, <5>2
        <4> QED BY <4>3, <4>4
      <3> QED BY <3>1, <3>2
    <2>6. k \in 0..n
      OBVIOUS
    <2> QED BY <2>3, <2>5, <2>6
  <1>3. \A i \in 0..n : i \in S
    <2>1. \A i \in 1..n : i - 1 \in S => i \in S
      BY <1>2
    <2> HIDE DEF S
    <2> QED BY <1>1, <2>1, UpTo
  <1>4. n \in S
    <2>1. n \in 0..n
      OBVIOUS
    <2> HIDE DEF S
    <2> QED BY <1>3, <2>1
  <1> QED BY <1>4 DEF GoesBy
=============================================================================
