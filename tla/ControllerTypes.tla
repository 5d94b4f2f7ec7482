--------------------------- MODULE ControllerTypes ---------------------------
(***************************************************************************)
(* The inductive invariant CtlInv of Controller. Lemmas on sequences and   *)
(* on what the operators of ServiceInfo return come first; then each part  *)
(* of CtlInv, action by action: the requests and their tasks, the          *)
(* configuration and the replicas, the entries, and the stack of calls of  *)
(* the holder of the lock.                                                 *)
(***************************************************************************)
EXTENDS ControllerInv, NetIdPoolProofs, FiniteSetTheorems, WellFoundedInduction, TLAPS

(* A set of numbers that is not empty has a least element.                 *)
LEMMA Least ==
    ASSUME NEW S, S \subseteq Nat, S # {}
    PROVE  \E m \in S : \A n \in S : m <= n
<1> DEFINE R == OpToRel(<, Nat)
<1>1. IsWellFoundedOn(R, Nat)
  BY NatLessThanWellFounded
<1> HIDE DEF R
<1>2. PICK m \in S : \A y \in S : ~ (<<y, m>> \in R)
  BY <1>1, WFMin
<1>3. \A x, y \in Nat : y < x => <<y, x>> \in R
  BY DEF R, OpToRel
<1>4. \A n \in S : ~(n < m)
  BY <1>2, <1>3
<1> HIDE DEF R
<1>5. \A n \in S : n \in Nat
  OBVIOUS
<1>6. \A n \in S : m <= n
  BY <1>4, <1>5
<1> QED
  BY <1>6

(* The Min of the community modules is that element.                       *)
LEMMA MinOf ==
    ASSUME NEW S, S \subseteq Nat, S # {}
    PROVE  Min(S) \in S /\ \A n \in S : Min(S) <= n
<1>1. \E m \in S : \A n \in S : m <= n
  BY Least
<1> QED
  BY <1>1, Zenon DEF Min

(* Induction over an interval, for a set instead of a predicate. *)
LEMMA Reaches ==
    ASSUME NEW n \in Nat, NEW S, 0 \in S, \A i \in 0 .. n - 1 : i \in S => i + 1 \in S
    PROVE  0 .. n \subseteq S
<1> DEFINE Out == {i \in 0 .. n : i \notin S}
<1>1. SUFFICES ASSUME Out # {} PROVE FALSE
  OBVIOUS
<1>2. PICK m \in Out : \A i \in Out : m <= i
  <2>1. Out \subseteq Nat
    OBVIOUS
  <2> HIDE DEF Out
  <2> QED
    BY <1>1, <2>1, Least
<1>3. m # 0 /\ m - 1 \in 0 .. n - 1
  BY <1>2
<1>4. m - 1 \in S
  BY <1>2, <1>3
<1> QED
  BY <1>2, <1>3, <1>4

(* f is the function that starts at t0 and takes step.                     *)
Unfolds(f, t0, n, step) ==
    /\ f[0] = t0
    /\ \A i \in 1 .. n : f[i] = step[<<i, f[i - 1]>>]

(* A recursive function on 0 .. n exists and stays in T: how the walks and *)
(* counts of ServiceInfo, which go through a list one element at a time,   *)
(* are reasoned about.                                                     *)
LEMMA Recursion ==
    ASSUME NEW T, NEW t0 \in T, NEW n \in Nat, NEW step \in [(1 .. n) \X T -> T]
    PROVE  \E f \in [0 .. n -> T] : Unfolds(f, t0, n, step)
<1> DEFINE Good(m) == {f \in [0 .. m -> T] :
                           /\ f[0] = t0
                           /\ \A i \in 1 .. m : f[i] = step[<<i, f[i - 1]>>]}
           S == {m \in 0 .. n : Good(m) # {}}
<1>1. 0 \in S
  <2>1. [i \in 0 .. 0 |-> t0] \in Good(0)
    OBVIOUS
  <2>2. 0 \in 0 .. n /\ Good(0) # {}
    BY <2>1
  <2> HIDE DEF Good
  <2> QED
    BY <2>2
<1>2. ASSUME NEW m \in 0 .. n - 1, m \in S
      PROVE  m + 1 \in S
  <2>1. PICK f : f \in Good(m)
    BY <1>2
  <2>2. f \in [0 .. m -> T] /\ f[0] = t0 /\ \A i \in 1 .. m : f[i] = step[<<i, f[i - 1]>>]
    BY <2>1
  <2>3. m \in Nat /\ m \in 0 .. m /\ m + 1 \in 1 .. n /\ m + 1 \in 0 .. n
    OBVIOUS
  <2> HIDE DEF Good, S
  <2>4. PICK last : last = step[<<m + 1, f[m]>>]
    OBVIOUS
  <2>5. last \in T
    BY <2>2, <2>3, <2>4
  <2> DEFINE g == [i \in 0 .. m + 1 |-> IF i = m + 1 THEN last ELSE f[i]]
  <2>6. \A i \in 0 .. m + 1 : i = m + 1 \/ i \in 0 .. m
    BY <2>3
  <2>7. g \in [0 .. m + 1 -> T]
    BY <2>2, <2>5, <2>6
  <2>8. g[0] = t0
    <3>1. 0 \in 0 .. m + 1 /\ 0 # m + 1
      BY <2>3
    <3> QED
      BY <2>2, <3>1
  <2>9. ASSUME NEW i \in 1 .. m + 1
        PROVE  g[i] = step[<<i, g[i - 1]>>]
    <3>1. i - 1 \in 0 .. m /\ i - 1 \in 0 .. m + 1 /\ i - 1 # m + 1 /\ i \in 0 .. m + 1
      BY <2>3
    <3>2. g[i - 1] = f[i - 1]
      BY <3>1
    <3>3. CASE i = m + 1
      <4>1. g[i] = last /\ i - 1 = m
        BY <3>3, <3>1, <2>3
      <4> QED
        BY <4>1, <3>2, <3>3, <2>4
    <3>4. CASE i # m + 1
      <4>1. i \in 1 .. m
        BY <3>4, <2>3
      <4>2. g[i] = f[i]
        BY <3>1, <3>4
      <4> HIDE DEF g
      <4> QED
        BY <2>2, <3>2, <4>1, <4>2
    <3> QED
      BY <3>3, <3>4
  <2>10. g \in Good(m + 1)
    <3> HIDE DEF g
    <3> QED
      BY <2>7, <2>8, <2>9 DEF Good
  <2> QED
    BY <2>3, <2>10 DEF S
<1>3. n \in S
  <2> HIDE DEF S
  <2> QED
    BY <1>1, <1>2, Reaches
<1> QED
  BY <1>3 DEF Unfolds

(* The concatenation of sequences over a set is one over that set.         *)
LEMMA FlattenTyped ==
    ASSUME NEW T, NEW s \in Seq(Seq(T))
    PROVE  FlattenSeq(s) \in Seq(T)
<1> DEFINE D == 1 .. Len(s)
           F(f) == [i \in D |-> IF i = 1 THEN s[i] ELSE f[i - 1] \o s[i]]
<1>1. CASE Len(s) = 0
  BY <1>1 DEF FlattenSeq
<1>2. CASE Len(s) # 0
  <2>1. \E f : f = F(f)
    <3> DEFINE step == [x \in D \X Seq(T) |-> IF x[1] = 1 THEN s[x[1]] ELSE x[2] \o s[x[1]]]
    <3>1. step \in [D \X Seq(T) -> Seq(T)]
      OBVIOUS
    <3>2. PICK f \in [0 .. Len(s) -> Seq(T)] :
               f[0] = <<>> /\ \A i \in 1 .. Len(s) : f[i] = step[<<i, f[i - 1]>>]
      <4>1. <<>> \in Seq(T) /\ Len(s) \in Nat
        OBVIOUS
      <4> HIDE DEF step, D
      <4>2. step \in [(1 .. Len(s)) \X Seq(T) -> Seq(T)]
        BY <3>1 DEF D
      <4>3. \E f \in [0 .. Len(s) -> Seq(T)] : Unfolds(f, <<>>, Len(s), step)
        BY <4>1, <4>2, Recursion
      <4> QED
        BY <4>3 DEF Unfolds
    <3> DEFINE g == [i \in D |-> f[i]]
    <3>3. ASSUME NEW i \in D PROVE g[i] = IF i = 1 THEN s[i] ELSE g[i - 1] \o s[i]
      <4>1. f[i] = step[<<i, f[i - 1]>>]
        BY <3>2
      <4>2. i - 1 \in 0 .. Len(s)
        OBVIOUS
      <4>3. f[i - 1] \in Seq(T)
        BY <4>2, <3>2
      <4>4. f[i] = IF i = 1 THEN s[i] ELSE f[i - 1] \o s[i]
        BY <4>1, <4>3
      <4>5. i # 1 => i - 1 \in D
        OBVIOUS
      <4> QED
        BY <4>4, <4>5
    <3>4. g = F(g)
      BY <3>3
    <3> QED
      BY <3>4
  <2>2. PICK f : f = CHOOSE g : g = F(g)
    OBVIOUS
  <2>3. FlattenSeq(s) = f[Len(s)]
    BY <1>2, <2>2 DEF FlattenSeq
  <2>4. \A i \in D : f[i] = IF i = 1 THEN s[i] ELSE f[i - 1] \o s[i]
    <3>1. f = F(f)
      BY <2>1, <2>2, Zenon
    <3> QED
      BY <3>1
  <2> DEFINE S == {i \in Nat : i \in D => f[i] \in Seq(T)}
  <2>5. 0 \in S
    OBVIOUS
  <2>6. ASSUME NEW i \in 0 .. Len(s) - 1, i \in S
        PROVE  i + 1 \in S
    <3>1. i + 1 \in D /\ s[i + 1] \in Seq(T)
      OBVIOUS
    <3>2. f[i + 1] = IF i + 1 = 1 THEN s[i + 1] ELSE f[i] \o s[i + 1]
      BY <2>4, <3>1
    <3>3. i + 1 # 1 => f[i] \in Seq(T)
      BY <2>6
    <3>4. f[i + 1] \in Seq(T)
      BY <3>1, <3>2, <3>3
    <3> QED
      BY <3>4
  <2>7. Len(s) \in S
    <3> HIDE DEF S
    <3>1. 0 .. Len(s) \subseteq S
      BY <2>5, <2>6, Reaches, Len(s) \in Nat
    <3> QED
      BY <3>1
  <2> QED
    BY <1>2, <2>3, <2>7
<1> QED
  BY <1>1, <1>2

(* A sequence is a function on 1 .. Len.                                   *)
LEMMA SequenceIsFunction ==
    ASSUME NEW s, IsSequence(s)
    PROVE  /\ Len(s) \in Nat /\ DOMAIN s = 1 .. Len(s)
           /\ s = <<>> <=> Len(s) = 0
  BY DEF IsSequence

(* A sequence over any set is a sequence over its own elements.            *)
LEMMA TypedIsSequence ==
    ASSUME NEW T, NEW s \in Seq(T)
    PROVE  IsSequence(s) /\ ToSet(s) \subseteq T
<1>1. s = [i \in 1 .. Len(s) |-> s[i]] /\ Len(s) \in Nat /\ DOMAIN s = 1 .. Len(s)
  OBVIOUS
<1>2. \A i \in 1 .. Len(s) : s[i] \in ToSet(s)
  BY <1>1 DEF ToSet
<1>3. s \in Seq(ToSet(s))
  BY <1>1, <1>2
<1>4. ToSet(s) \subseteq T
  BY DEF ToSet
<1> QED
  BY <1>3, <1>4 DEF IsSequence

(* A sequence whose elements are in a set is one over that set.            *)
LEMMA SequenceIsTyped ==
    ASSUME NEW s, IsSequence(s), NEW T, \A i \in DOMAIN s : s[i] \in T
    PROVE  s \in Seq(T)
  BY SequenceIsFunction DEF IsSequence, ToSet

(* A function on 1 .. n is a sequence.                                     *)
LEMMA EachIsSequence ==
    ASSUME NEW n \in Nat, NEW f, f = [i \in 1 .. n |-> f[i]]
    PROVE  IsSequence(f) /\ Len(f) = n /\ DOMAIN f = 1 .. n
<1>1. \A i \in 1 .. n : f[i] \in ToSet(f)
  BY DEF ToSet
<1>2. f \in [1 .. n -> ToSet(f)]
  BY <1>1
<1>3. f \in Seq(ToSet(f)) /\ Len(f) = n
  BY <1>2
<1> QED
  BY <1>3 DEF IsSequence

(* What a concatenation holds at each place.                               *)
LEMMA Concat ==
    ASSUME NEW a, NEW b, IsSequence(a), IsSequence(b)
    PROVE  /\ IsSequence(a \o b)
           /\ Len(a \o b) = Len(a) + Len(b)
           /\ \A i \in DOMAIN a : (a \o b)[i] = a[i]
           /\ \A i \in DOMAIN b : (a \o b)[Len(a) + i] = b[i]
<1> DEFINE T == ToSet(a) \cup ToSet(b)
<1>1. a \in Seq(T) /\ b \in Seq(T)
  BY SequenceIsTyped, SequenceIsFunction DEF ToSet
<1>2. a \o b \in Seq(T)
  BY <1>1
<1>3. IsSequence(a \o b)
  BY <1>2, TypedIsSequence
<1> HIDE DEF T
<1> QED
  BY <1>1, <1>3

(* What is left when the first element is taken off.                       *)
LEMMA TailOf ==
    ASSUME NEW s, IsSequence(s), s # <<>>
    PROVE  /\ IsSequence(Tail(s))
           /\ Len(Tail(s)) = Len(s) - 1
           /\ \A i \in DOMAIN Tail(s) : i + 1 \in DOMAIN s /\ Tail(s)[i] = s[i + 1]
<1>1. s \in Seq(ToSet(s))
  BY DEF IsSequence
<1>2. PICK T : T = ToSet(s)
  OBVIOUS
<1>3. s \in Seq(T)
  BY <1>1, <1>2
<1>4. Tail(s) \in Seq(T)
  BY <1>3
<1>5. IsSequence(Tail(s))
  BY <1>4, TypedIsSequence
<1>6. Len(s) \in Nat \ {0} /\ DOMAIN s = 1 .. Len(s)
  BY SequenceIsFunction
<1>7. Len(Tail(s)) = Len(s) - 1 /\ DOMAIN Tail(s) = 1 .. Len(s) - 1
  BY <1>3, <1>4
<1>8. ASSUME NEW i \in 1 .. Len(s) - 1
      PROVE  i + 1 \in 1 .. Len(s) /\ Tail(s)[i] = s[i + 1]
  <2>1. i + 1 \in 1 .. Len(s)
    BY <1>6
  <2> QED
    BY <1>3, <2>1
<1> QED
  BY <1>5, <1>6, <1>7, <1>8

(* One more element.                                                       *)
LEMMA ToSetAppend ==
    ASSUME NEW T, NEW q \in Seq(T), NEW x \in T
    PROVE  ToSet(Append(q, x)) = ToSet(q) \cup {x}
<1>1. PICK a : a = Append(q, x)
  OBVIOUS
<1>2. /\ Len(q) \in Nat /\ DOMAIN q = 1 .. Len(q) /\ DOMAIN a = 1 .. Len(q) + 1
      /\ a[Len(q) + 1] = x /\ \A i \in 1 .. Len(q) : a[i] = q[i]
  BY <1>1
<1>3. \A i \in DOMAIN a : i \in DOMAIN q \/ i = Len(q) + 1
  BY <1>2
<1>4. Len(q) + 1 \in DOMAIN a /\ \A i \in DOMAIN q : i \in DOMAIN a
  BY <1>2
<1>5. ToSet(a) = ToSet(q) \cup {x}
  BY <1>2, <1>3, <1>4 DEF ToSet
<1> QED
  BY <1>1, <1>5

(* The part of a list that Vec::retain or a filter leaves: its elements    *)
(* are those of the list that are in the set, none of them twice if none   *)
(* was.                                                                    *)
LEMMA AmongKeeps ==
    ASSUME NEW T, NEW s \in Seq(T), NEW set
    PROVE  /\ Among(s, set) \in Seq(T)
           /\ ToSet(Among(s, set)) = ToSet(s) \cap set
           /\ IsInjective(s) => IsInjective(Among(s, set))
<1> DEFINE D == 0 .. Len(s)
           F(f) == [i \in D |-> IF i = 0 THEN <<>>
                                ELSE IF s[i] \in set THEN Append(f[i - 1], s[i])
                                                     ELSE f[i - 1]]
<1>0. Len(s) \in Nat
  OBVIOUS
<1>1. \E f : f = F(f)
  <2> DEFINE step == [x \in (1 .. Len(s)) \X Seq(T) |->
                         IF s[x[1]] \in set THEN Append(x[2], s[x[1]]) ELSE x[2]]
  <2>1. step \in [(1 .. Len(s)) \X Seq(T) -> Seq(T)]
    OBVIOUS
  <2>2. PICK f \in [0 .. Len(s) -> Seq(T)] : Unfolds(f, <<>>, Len(s), step)
    <3>1. <<>> \in Seq(T)
      OBVIOUS
    <3> HIDE DEF step
    <3> QED
      BY <1>0, <2>1, <3>1, Recursion
  <2>3. f[0] = <<>> /\ \A i \in 1 .. Len(s) : f[i] = step[<<i, f[i - 1]>>]
    BY <2>2 DEF Unfolds
  <2>4. ASSUME NEW i \in D, i # 0
        PROVE  f[i] = IF s[i] \in set THEN Append(f[i - 1], s[i]) ELSE f[i - 1]
    <3>1. i \in 1 .. Len(s) /\ i - 1 \in 0 .. Len(s)
      BY <2>4
    <3>2. f[i - 1] \in Seq(T)
      BY <3>1
    <3>3. f[i] = step[<<i, f[i - 1]>>]
      BY <2>3, <3>1
    <3> QED
      BY <3>1, <3>2, <3>3
  <2>5. f = F(f)
    BY <2>3, <2>4
  <2> QED
    BY <2>5
<1>2. PICK f : f = CHOOSE g : g = F(g)
  OBVIOUS
<1>3. Among(s, set) = f[Len(s)]
  BY <1>2 DEF Among
<1>4. /\ f[0] = <<>>
      /\ \A i \in 1 .. Len(s) :
            f[i] = IF s[i] \in set THEN Append(f[i - 1], s[i]) ELSE f[i - 1]
  <2>1. f = F(f)
    BY <1>1, <1>2, Zenon
  <2>2. \A i \in D : f[i] = IF i = 0 THEN <<>>
                            ELSE IF s[i] \in set THEN Append(f[i - 1], s[i])
                                                 ELSE f[i - 1]
    BY <2>1
  <2>3. 0 \in D /\ \A i \in 1 .. Len(s) : i \in D /\ i # 0
    BY <1>0
  <2> HIDE DEF D
  <2> QED
    BY <2>2, <2>3
<1> HIDE DEF D
<1> DEFINE Upto(i) == {s[j] : j \in 1 .. i}
           Good(i) == /\ f[i] \in Seq(T)
                      /\ ToSet(f[i]) = Upto(i) \cap set
                      /\ IsInjective(s) => IsInjective(f[i])
           S == {i \in 0 .. Len(s) : Good(i)}
<1>5. 0 \in S
  <2>1. f[0] = <<>> /\ 0 \in 0 .. Len(s)
    BY <1>0, <1>4
  <2>2. <<>> \in Seq(T) /\ ToSet(<<>>) = {} /\ Upto(0) = {} /\ IsInjective(<<>>)
    BY DEF ToSet, IsInjective
  <2> HIDE DEF Upto
  <2> QED
    BY <2>1, <2>2
<1>6. ASSUME NEW i \in 0 .. Len(s) - 1, i \in S
      PROVE  i + 1 \in S
  <2>1. i + 1 \in 1 .. Len(s) /\ i + 1 \in 0 .. Len(s) /\ (i + 1) - 1 = i /\ i \in Nat
    BY <1>0
  <2>2. PICK x : x = s[i + 1]
    OBVIOUS
  <2>3. f[i + 1] = IF x \in set THEN Append(f[i], x) ELSE f[i]
    BY <1>4, <2>1, <2>2
  <2>4. Good(i)
    BY <1>6
  <2>5. Upto(i + 1) = Upto(i) \cup {x}
    <3>1. 1 .. i + 1 = (1 .. i) \cup {i + 1}
      BY <2>1
    <3> QED
      BY <3>1, <2>2
  <2>6. x \in T
    BY <2>1, <2>2
  <2>7. PICK q : q = f[i]
    OBVIOUS
  <2>8. q \in Seq(T) /\ ToSet(q) = Upto(i) \cap set /\ (IsInjective(s) => IsInjective(q))
    BY <2>4, <2>7
  <2>9. CASE x \notin set
    <3>1. f[i + 1] = q /\ ToSet(q) = Upto(i + 1) \cap set
      BY <2>3, <2>5, <2>7, <2>8, <2>9
    <3> HIDE DEF Upto
    <3> QED
      BY <2>1, <2>8, <3>1
  <2>10. CASE x \in set
    <3>1. f[i + 1] = Append(q, x) /\ Append(q, x) \in Seq(T)
      BY <2>3, <2>6, <2>7, <2>8, <2>10
    <3>2. ToSet(Append(q, x)) = ToSet(q) \cup {x}
      BY <2>6, <2>8, ToSetAppend
    <3>3. ToSet(Append(q, x)) = Upto(i + 1) \cap set
      <4> HIDE DEF Upto
      <4> QED
        BY <2>5, <2>8, <2>10, <3>2
    <3>4. ASSUME IsInjective(s) PROVE IsInjective(Append(q, x))
      <4>1. x \notin Upto(i)
        <5>1. \A j \in 1 .. i : j \in DOMAIN s /\ i + 1 \in DOMAIN s /\ j # i + 1
          BY <2>1
        <5> QED
          BY <5>1, <2>2, <3>4 DEF IsInjective
      <4>2. \A j \in DOMAIN q : q[j] # x
        <5> HIDE DEF Upto
        <5> QED
          BY <2>8, <4>1 DEF ToSet
      <4>3. IsInjective(q)
        BY <2>8, <3>4
      <4> QED
        BY <2>6, <2>8, <4>2, <4>3 DEF IsInjective
    <3> HIDE DEF Upto
    <3> QED
      BY <2>1, <3>1, <3>3, <3>4
  <2> QED
    BY <2>9, <2>10
<1>7. Len(s) \in S
  <2> HIDE DEF S
  <2>1. 0 .. Len(s) \subseteq S
    BY <1>0, <1>5, <1>6, Reaches
  <2> QED
    BY <1>0, <2>1
<1>8. Upto(Len(s)) = ToSet(s)
  BY DEF ToSet
<1> QED
  <2> HIDE DEF Upto
  <2> QED
    BY <1>3, <1>7, <1>8
------------------------------------------------------------------------------
(* A set of numbers closed under predecessor is an initial segment.        *)
LEMMA InitialSegment ==
    ASSUME NEW n \in Nat, NEW S, S \subseteq 1 .. n,
           \A i \in 1 .. n : i + 1 \in S => i \in S
    PROVE  \E m \in 0 .. n : S = 1 .. m
<1> DEFINE Out == (1 .. n + 1) \ S
<1>1. n + 1 \in Out
  OBVIOUS
<1>2. PICK l \in Out : \A i \in Out : l <= i
  <2>1. Out \subseteq Nat /\ Out # {}
    BY <1>1
  <2> HIDE DEF Out
  <2> QED
    BY <2>1, Least
<1>3. l \in 1 .. n + 1 /\ l \notin S
  OBVIOUS
<1> DEFINE Above == {j \in Nat : l + j \notin S}
<1>4. 0 \in Above
  BY <1>3
<1>5. ASSUME NEW j \in 0 .. n - 1, j \in Above
      PROVE  j + 1 \in Above
  <2>1. l + j \notin S /\ l + (j + 1) = (l + j) + 1 /\ j + 1 \in Nat
    BY <1>3, <1>5
  <2>2. ASSUME l + (j + 1) \in S PROVE FALSE
    <3>1. l + (j + 1) \in 1 .. n
      BY <2>2
    <3>2. l + j \in 1 .. n
      BY <3>1, <1>3
    <3> QED
      BY <2>1, <2>2, <3>2
  <2> QED
    BY <2>1, <2>2
<1>6. 0 .. n \subseteq Above
  <2> HIDE DEF Above
  <2> QED
    BY <1>4, <1>5, Reaches
<1>7. ASSUME NEW i \in 1 .. n
      PROVE  i \in S <=> i <= l - 1
  <2>1. CASE i < l
    BY <1>2, <2>1
  <2>2. CASE ~(i < l)
    <3>1. i - l \in 0 .. n /\ l + (i - l) = i
      BY <1>3, <2>2
    <3>2. i \notin S
      BY <1>6, <3>1
    <3> QED
      BY <1>3, <2>2, <3>2
  <2> QED
    BY <2>1, <2>2
<1>8. l - 1 \in 0 .. n
  BY <1>3
<1>9. S = 1 .. l - 1
  <2>1. ASSUME NEW i \in S PROVE i \in 1 .. l - 1
    <3>1. i \in 1 .. n
      OBVIOUS
    <3> QED
      BY <1>3, <1>7, <3>1
  <2>2. ASSUME NEW i \in 1 .. l - 1 PROVE i \in S
    <3>1. i \in 1 .. n /\ i <= l - 1
      BY <1>8
    <3> QED
      BY <1>7, <3>1
  <2> QED
    BY <2>1, <2>2
<1> QED
  BY <1>8, <1>9

(* An enumeration of a finite set is a sequence over it.                   *)
LEMMA SetToSeqTyped ==
    ASSUME NEW S, IsFiniteSet(S)
    PROVE  SetToSeq(S) \in Seq(S)
<1>1. Cardinality(S) \in Nat /\ ExistsBijection(1 .. Cardinality(S), S)
  BY FS_CardinalityType
<1>2. PICK n : n = Cardinality(S)
  OBVIOUS
<1>3. \E f \in [1 .. n -> S] : IsInjective(f)
  BY <1>1, <1>2 DEF ExistsBijection, Bijection, Injection
<1>4. SetToSeq(S) \in [1 .. n -> S]
  BY <1>2, <1>3 DEF SetToSeq
<1> QED
  BY <1>1, <1>2, <1>4

(* A sequence has finitely many elements.                                  *)
LEMMA SetOfSequence ==
    ASSUME NEW s, IsSequence(s)
    PROVE  IsFiniteSet(ToSet(s))
<1> DEFINE f == [i \in 1 .. Len(s) |-> s[i]]
<1>1. Len(s) \in Nat /\ DOMAIN s = 1 .. Len(s)
  BY SequenceIsFunction
<1>2. f \in Surjection(1 .. Len(s), ToSet(s))
  BY <1>1 DEF Surjection, ToSet
<1>3. IsFiniteSet(1 .. Len(s))
  BY <1>1, FS_Interval
<1> HIDE DEF f
<1> QED
  BY <1>2, <1>3, FS_Surjection
------------------------------------------------------------------------------
(* The service map. *)

(* ServiceInfo::Registered holds at least one replica, the first one of    *)
(* the list.                                                               *)
LEMMA RegisteredHasReplicas ==
    ASSUME Listed, IsConfig(config), NEW n, IsRegistered(n)
    PROVE  /\ n \in Names
           /\ Len(replicas[n]) \in Nat /\ DOMAIN replicas[n] = 1 .. Len(replicas[n])
           /\ 1 \in DOMAIN replicas[n]
           /\ ReplicaSet(n) \subseteq AllReplicas
<1>1. n \in Names /\ replicas[n] # <<>>
  BY DEF IsRegistered, IsConfig
<1>2. replicas[n] \in Seq(AllReplicas)
  BY <1>1 DEF Listed
<1>3. ReplicaSet(n) \subseteq AllReplicas /\ IsSequence(replicas[n])
  BY <1>2, TypedIsSequence DEF ReplicaSet
<1> QED
  BY <1>1, <1>3, SequenceIsFunction

(* The replica that the search by client finds is one of the service, with *)
(* an entry of that client.                                                *)
LEMMA FirstHolder ==
    ASSUME NEW n, NEW c, NEW cl, NEW m \in Nat, DOMAIN replicas[n] = 1 .. m, Holds(n, c, cl)
    PROVE  /\ EntryKey(n, c, cl) \in DOMAIN cl
           /\ EntryKey(n, c, cl)[1] = n /\ EntryKey(n, c, cl)[3] = c
           /\ ClientReplica(n, c, cl) \in ReplicaSet(n)
<1>1. Holders(n, c, cl) \subseteq Nat /\ Holders(n, c, cl) # {}
  BY DEF Holds, Holders
<1>2. Min(Holders(n, c, cl)) \in Holders(n, c, cl)
  BY <1>1, MinOf
<1>3. PICK i : i = Min(Holders(n, c, cl))
  OBVIOUS
<1>4. i \in DOMAIN replicas[n] /\ <<n, replicas[n][i], c>> \in DOMAIN cl
  BY <1>2, <1>3 DEF Holders
<1>5. ClientReplica(n, c, cl) = replicas[n][i]
  BY <1>3 DEF ClientReplica
<1> QED
  BY <1>4, <1>5 DEF EntryKey, ReplicaSet, ToSet

(* FirstHolder, for a service of the map.                                  *)
LEMMA RegisteredHolder ==
    ASSUME Listed, IsConfig(config), NEW n, IsRegistered(n), NEW c, NEW cl, Holds(n, c, cl)
    PROVE  /\ EntryKey(n, c, cl) \in DOMAIN cl
           /\ EntryKey(n, c, cl)[1] = n /\ EntryKey(n, c, cl)[3] = c
           /\ ClientReplica(n, c, cl) \in ReplicaSet(n)
<1>1. PICK m : m = Len(replicas[n])
  OBVIOUS
<1>2. m \in Nat /\ DOMAIN replicas[n] = 1 .. m
  BY <1>1, RegisteredHasReplicas
<1> QED
  BY <1>2, FirstHolder

(* Counting a chain (add_chain) leaves the keys and the networks of all    *)
(* entries as they are.                                                    *)
LEMMA AddChainKeeps ==
    ASSUME NEW n, NEW c, NEW m \in Nat, DOMAIN replicas[n] = 1 .. m,
           NEW D, NEW cl \in [D -> Entries]
    PROVE  /\ AddChain(n, c, cl) \in [D -> Entries]
           /\ \A k \in D : AddChain(n, c, cl)[k].net_id = cl[k].net_id
<1>1. CASE ~Holds(n, c, cl)
  BY <1>1 DEF AddChain
<1>2. CASE Holds(n, c, cl)
  <2>1. PICK key : key = EntryKey(n, c, cl)
    OBVIOUS
  <2>2. key \in D
    BY <1>2, <2>1, FirstHolder
  <2>3. cl[key] \in Entries
    BY <2>2
  <2>4. PICK e : e = [cl[key] EXCEPT !.active_chains = @ + 1]
    OBVIOUS
  <2>5. e \in Entries /\ e.net_id = cl[key].net_id
    BY <2>3, <2>4 DEF Entries
  <2>6. AddChain(n, c, cl) = [cl EXCEPT ![key] = e]
    BY <1>2, <2>1, <2>4 DEF AddChain
  <2> HIDE DEF Entries
  <2> QED
    BY <2>2, <2>5, <2>6
<1> QED
  BY <1>1, <1>2

(* Counting a chain on each edge of a dependency walk keeps keys, types    *)
(* and networks.                                                           *)
LEMMA AddChainsKeeps ==
    ASSUME Listed, IsConfig(config),
           NEW edges, IsSequence(edges), NEW D, NEW cl \in [D -> Entries]
    PROVE  /\ AddChains(edges, cl) \in [D -> Entries]
           /\ \A k \in D : AddChains(edges, cl)[k].net_id = cl[k].net_id
<1> DEFINE T == {g \in [D -> Entries] : \A k \in D : g[k].net_id = cl[k].net_id}
           F(f) == [i \in 0 .. Len(edges) |->
                       IF i = 0 THEN cl
                       ELSE IF IsRegistered(edges[i][2])
                           THEN AddChain(edges[i][2], edges[i][1], f[i - 1])
                           ELSE f[i - 1]]
           After(i, c) == IF IsRegistered(edges[i][2])
                              THEN AddChain(edges[i][2], edges[i][1], c) ELSE c
<1>0. Len(edges) \in Nat
  BY SequenceIsFunction
<1>1. ASSUME NEW i, NEW c \in T PROVE After(i, c) \in T
  BY AddChainKeeps, RegisteredHasReplicas
<1> HIDE DEF T
<1>2. cl \in T
  BY DEF T
<1>3. \E f : f = F(f)
  <2> DEFINE step == [x \in (1 .. Len(edges)) \X T |-> After(x[1], x[2])]
  <2>1. step \in [(1 .. Len(edges)) \X T -> T]
    <3> HIDE DEF After
    <3> QED
      BY <1>1
  <2>2. PICK f \in [0 .. Len(edges) -> T] : Unfolds(f, cl, Len(edges), step)
    <3> HIDE DEF step
    <3> QED
      BY <1>0, <1>2, <2>1, Recursion
  <2>3. f[0] = cl /\ \A i \in 1 .. Len(edges) : f[i] = step[<<i, f[i - 1]>>]
    BY <2>2 DEF Unfolds
  <2>4. ASSUME NEW i \in 0 .. Len(edges), i # 0
        PROVE  f[i] = After(i, f[i - 1])
    <3>1. i \in 1 .. Len(edges) /\ i - 1 \in 0 .. Len(edges)
      BY <2>4
    <3>2. f[i - 1] \in T
      BY <3>1
    <3>3. f[i] = step[<<i, f[i - 1]>>]
      BY <2>3, <3>1
    <3> HIDE DEF After
    <3> QED
      BY <3>1, <3>2, <3>3
  <2>5. f = F(f)
    BY <2>3, <2>4
  <2> QED
    BY <2>5
<1>4. PICK f : f = CHOOSE g : g = F(g)
  OBVIOUS
<1>5. AddChains(edges, cl) = f[Len(edges)]
  BY <1>4 DEF AddChains
<1>6. f[0] = cl /\ \A i \in 1 .. Len(edges) : f[i] = After(i, f[i - 1])
  <2>1. f = F(f)
    BY <1>3, <1>4, Zenon
  <2>2. \A i \in 0 .. Len(edges) : f[i] = IF i = 0 THEN cl ELSE After(i, f[i - 1])
    BY <2>1
  <2>3. 0 \in 0 .. Len(edges) /\ \A i \in 1 .. Len(edges) : i \in 0 .. Len(edges) /\ i # 0
    BY <1>0
  <2> HIDE DEF After
  <2> QED
    BY <2>2, <2>3
<1> DEFINE S == {i \in 0 .. Len(edges) : f[i] \in T}
<1>7. 0 \in S
  BY <1>0, <1>2, <1>6
<1>8. ASSUME NEW i \in 0 .. Len(edges) - 1, i \in S
      PROVE  i + 1 \in S
  <2>1. i + 1 \in 1 .. Len(edges) /\ i + 1 \in 0 .. Len(edges) /\ (i + 1) - 1 = i
    BY <1>0
  <2>2. f[i + 1] = After(i + 1, f[i])
    BY <1>6, <2>1
  <2>3. After(i + 1, f[i]) \in T
    BY <1>1, <1>8
  <2> HIDE DEF After
  <2> QED
    BY <2>1, <2>2, <2>3
<1>9. Len(edges) \in S
  <2> HIDE DEF S
  <2>1. 0 .. Len(edges) \subseteq S
    BY <1>0, <1>7, <1>8, Reaches
  <2> QED
    BY <1>0, <2>1
<1> QED
  BY <1>5, <1>9 DEF T

(* The replica with the fewest clients is a replica of the service.        *)
LEMMA PickedIsReplica ==
    ASSUME Listed, IsConfig(config), IsFiniteSet(DOMAIN clients), NEW n, IsRegistered(n)
    PROVE  PickReplicaLeastClients(n) \in ReplicaSet(n)
<1> DEFINE At(i) == {k \in DOMAIN clients : k[1] = n /\ k[2] = replicas[n][i]}
           Load(i) == Cardinality(At(i))
           D == DOMAIN replicas[n]
           least == {i \in D : \A j \in D : Load(i) <= Load(j)}
           Loads == {Load(i) : i \in D}
<1>1. \A i : Load(i) \in Nat
  <2>1. \A i : IsFiniteSet(At(i))
    BY FS_Subset
  <2> HIDE DEF At
  <2> QED
    BY <2>1, FS_CardinalityType
<1>2. D = 1 .. Len(replicas[n]) /\ Len(replicas[n]) \in Nat /\ 1 \in D
  BY RegisteredHasReplicas
<1> HIDE DEF Load, D
<1>3. PICK l \in Loads : \A j \in Loads : l <= j
  <2>1. Loads \subseteq Nat /\ Loads # {}
    BY <1>1, <1>2
  <2> HIDE DEF Loads
  <2> QED
    BY <2>1, Least
<1>4. PICK i \in D : l = Load(i)
  BY <1>3
<1>5. i \in least
  BY <1>3, <1>4
<1>6. Min(least) \in least
  <2>1. least \subseteq Nat /\ least # {}
    BY <1>2, <1>5
  <2> HIDE DEF least
  <2> QED
    BY <2>1, MinOf
<1>7. PickReplicaLeastClients(n) = replicas[n][Min(least)]
  BY DEF PickReplicaLeastClients, Load, At, D
<1>8. Min(least) \in D
  BY <1>6
<1> QED
  BY <1>7, <1>8 DEF ReplicaSet, ToSet, D

(* A client that is itself a replica is not a proxy client.                *)
LEMMA ServiceClientIsNoProxy ==
    ASSUME NEW n, NEW rid
    PROVE  ~IsProxy(ServiceClient(n, rid))
  BY DEF IsProxy, ServiceClient

(* A replica of a service is a client that may have entries.               *)
LEMMA ServiceClientKnown ==
    ASSUME NEW n \in Names, NEW rid \in AllReplicas
    PROVE  ServiceClient(n, rid) \in AllClients
  BY DEF AllClients

(* build_linear_chain gives one edge per dependency, between a known       *)
(* client and a replica.                                                   *)
LEMMA ChainTyped ==
    ASSUME Listed, IsConfig(config), IsFiniteSet(DOMAIN clients),
           NEW deps \in Seq(Names), NEW name \in Names, NEW rid \in AllReplicas,
           BuildLinearChain(deps, name, rid) # None
    PROVE  LET chain == BuildLinearChain(deps, name, rid)
           IN  /\ IsSequence(chain)
               /\ Len(chain) = Len(deps)
               /\ \A i \in DOMAIN chain :
                     /\ chain[i].client \in AllClients
                     /\ chain[i].server \in Names /\ chain[i].rid \in AllReplicas
<1> DEFINE From(i) == IF i = 1 THEN name ELSE deps[i - 1]
           At(i) == IF i = 0 THEN rid ELSE PickReplicaLeastClients(deps[i])
<1>1. /\ \A i \in DOMAIN deps : IsRegistered(deps[i])
      /\ BuildLinearChain(deps, name, rid) =
            [i \in DOMAIN deps |-> [client |-> ServiceClient(From(i), At(i - 1)),
                                    server |-> deps[i], rid |-> At(i)]]
  BY DEF BuildLinearChain
<1>2. DOMAIN deps = 1 .. Len(deps) /\ Len(deps) \in Nat
  OBVIOUS
<1>3. \A i \in 1 .. Len(deps) : deps[i] \in Names /\ PickReplicaLeastClients(deps[i]) \in AllReplicas
  BY <1>1, <1>2, PickedIsReplica, RegisteredHasReplicas
<1>4. ASSUME NEW i \in 1 .. Len(deps)
      PROVE  From(i) \in Names /\ At(i - 1) \in AllReplicas /\ At(i) \in AllReplicas
  <2>1. i # 0 /\ (i # 1 => i - 1 \in 1 .. Len(deps)) /\ (i - 1 = 0 <=> i = 1)
    BY <1>2
  <2> QED
    BY <1>3, <2>1
<1> HIDE DEF From, At
<1>5. \A i \in 1 .. Len(deps) : ServiceClient(From(i), At(i - 1)) \in AllClients
  BY <1>4, ServiceClientKnown
<1>6. PICK chain : chain = BuildLinearChain(deps, name, rid)
  OBVIOUS
<1>7. /\ chain = [i \in 1 .. Len(deps) |-> chain[i]]
      /\ \A i \in 1 .. Len(deps) :
            /\ chain[i].client = ServiceClient(From(i), At(i - 1))
            /\ chain[i].server = deps[i] /\ chain[i].rid = At(i)
  BY <1>1, <1>2, <1>6
<1>8. IsSequence(chain) /\ Len(chain) = Len(deps) /\ DOMAIN chain = 1 .. Len(deps)
  BY <1>2, <1>7, EachIsSequence
<1>9. \A i \in 1 .. Len(deps) :
         /\ chain[i].client \in AllClients
         /\ chain[i].server \in Names /\ chain[i].rid \in AllReplicas
  BY <1>3, <1>4, <1>5, <1>7
<1> QED
  BY <1>6, <1>8, <1>9

(* Walking the clients of a service in replica order lists only entries    *)
(* that were asked for.                                                    *)
LEMMA InReplicaOrderTyped ==
    ASSUME Listed, NEW n \in Names, NEW keys, IsFiniteSet(keys)
    PROVE  InReplicaOrder(n, keys) \in Seq(keys)
<1> DEFINE s == [i \in DOMAIN replicas[n] |-> SetToSeq({k \in keys : k[2] = replicas[n][i]})]
<1>1. DOMAIN replicas[n] = 1 .. Len(replicas[n]) /\ Len(replicas[n]) \in Nat
  BY DEF Listed
<1>2. \A i : SetToSeq({k \in keys : k[2] = replicas[n][i]}) \in Seq(keys)
  <2> SUFFICES ASSUME NEW i
               PROVE  SetToSeq({k \in keys : k[2] = replicas[n][i]}) \in Seq(keys)
    OBVIOUS
  <2>1. PICK own : own = {k \in keys : k[2] = replicas[n][i]}
    OBVIOUS
  <2>2. IsFiniteSet(own) /\ own \subseteq keys
    BY <2>1, FS_Subset
  <2>3. SetToSeq(own) \in Seq(own)
    BY <2>2, SetToSeqTyped
  <2>4. SetToSeq(own) \in Seq(keys)
    BY <2>2, <2>3
  <2> QED
    BY <2>1, <2>4
<1>3. s \in Seq(Seq(keys))
  <2>1. PICK T : T = Seq(keys)
    OBVIOUS
  <2>2. s \in [1 .. Len(replicas[n]) -> T]
    BY <1>1, <1>2, <2>1
  <2> HIDE DEF s
  <2>3. s \in Seq(T)
    BY <1>1, <2>2
  <2> QED
    BY <2>1, <2>3
<1> HIDE DEF s
<1>4. FlattenSeq(s) \in Seq(keys)
  BY <1>3, FlattenTyped
<1> QED
  BY <1>4 DEF InReplicaOrder, s
------------------------------------------------------------------------------
(* The walks: what they collect are edges from replicas of services.       *)

(* What the walks collect: edges whose client is a replica.                *)
BackendEdges(s) == IsSequence(s) /\ \A i \in DOMAIN s : ~IsProxy(s[i][1])

(* A hop of the dependency walk ends at a replica of some service, or      *)
(* nowhere.                                                                *)
LEMMA HopsAreReplicas ==
    ASSUME Listed, IsConfig(config), NEW pos, NEW dep
    PROVE  Hop(pos, dep) = None \/ Hop(pos, dep) \in UNION {ReplicaSet(n) : n \in Names}
<1>1. PICK c : c = ServiceClient(pos[1], pos[2])
  OBVIOUS
<1>2. CASE ~IsRegistered(dep)
  BY <1>2 DEF Hop
<1>3. CASE IsRegistered(dep) /\ ~Holds(dep, c, clients)
  BY <1>1, <1>3 DEF Hop, ClientReplica
<1>4. CASE IsRegistered(dep) /\ Holds(dep, c, clients)
  <2>1. ClientReplica(dep, c, clients) \in ReplicaSet(dep) /\ dep \in Names
    BY <1>4, FirstHolder, RegisteredHasReplicas
  <2>2. Hop(pos, dep) = ClientReplica(dep, c, clients)
    BY <1>1, <1>4 DEF Hop
  <2> QED
    BY <2>1, <2>2
<1> QED
  BY <1>2, <1>3, <1>4

(* The edges that the walk along a trigger's chain finds are edges from    *)
(* service clients.                                                        *)
LEMMA LinearWalkTyped ==
    ASSUME Listed, IsConfig(config), NEW chain, IsSequence(chain), NEW name, NEW rid
    PROVE  BackendEdges(LinearWalk(chain, name, rid))
<1> DEFINE N == Len(chain)
           To(i, p) == IF p = None \/ Hop(p, chain[i]) = None
                           THEN None ELSE <<chain[i], Hop(p, chain[i])>>
           F(pos) == [i \in 0 .. N |-> IF i = 0 THEN <<name, rid>> ELSE To(i, pos[i - 1])]
           T == {None, <<name, rid>>} \cup (ToSet(chain) \X UNION {ReplicaSet(n) : n \in Names})
<1>0. N \in Nat /\ DOMAIN chain = 1 .. N
  BY SequenceIsFunction
<1>1. ASSUME NEW i \in 1 .. N, NEW p PROVE To(i, p) \in T
  <2>1. chain[i] \in ToSet(chain)
    BY <1>0 DEF ToSet
  <2> QED
    BY <2>1, HopsAreReplicas
<1>2. \E f : f = F(f)
  <2> DEFINE step == [x \in (1 .. N) \X T |-> To(x[1], x[2])]
  <2> HIDE DEF T, To, N
  <2>1. step \in [(1 .. N) \X T -> T]
    BY <1>1
  <2>2. PICK f \in [0 .. N -> T] : Unfolds(f, <<name, rid>>, N, step)
    <3>1. <<name, rid>> \in T
      BY DEF T
    <3> HIDE DEF step
    <3> QED
      BY <1>0, <2>1, <3>1, Recursion
  <2>3. f[0] = <<name, rid>> /\ \A i \in 1 .. N : f[i] = step[<<i, f[i - 1]>>]
    BY <2>2 DEF Unfolds
  <2>4. ASSUME NEW i \in 0 .. N, i # 0
        PROVE  f[i] = To(i, f[i - 1])
    <3>1. i \in 1 .. N /\ i - 1 \in 0 .. N
      BY <1>0, <2>4
    <3>2. f[i - 1] \in T
      BY <3>1
    <3>3. f[i] = step[<<i, f[i - 1]>>]
      BY <2>3, <3>1
    <3> QED
      BY <3>1, <3>2, <3>3
  <2>5. f = F(f)
    BY <2>3, <2>4
  <2> QED
    BY <2>5
<1>3. PICK pos : pos = CHOOSE g : g = F(g)
  OBVIOUS
<1> DEFINE reached == {i \in DOMAIN chain : pos[i - 1] # None}
<1>4. LinearWalk(chain, name, rid) =
         [i \in reached |-> <<ServiceClient(pos[i - 1][1], pos[i - 1][2]), chain[i]>>]
  BY <1>3 DEF LinearWalk
<1>5. \A i \in 1 .. N : pos[i] = To(i, pos[i - 1])
  <2>1. pos = F(pos)
    BY <1>2, <1>3, Zenon
  <2>2. \A i \in 0 .. N : pos[i] = IF i = 0 THEN <<name, rid>> ELSE To(i, pos[i - 1])
    BY <2>1
  <2>3. \A i \in 1 .. N : i \in 0 .. N /\ i # 0
    BY <1>0
  <2> HIDE DEF To, N
  <2> QED
    BY <2>2, <2>3
<1>6. PICK m \in 0 .. N : reached = 1 .. m
  <2>1. reached \subseteq 1 .. N
    BY <1>0
  <2>2. ASSUME NEW i \in 1 .. N, i + 1 \in reached PROVE i \in reached
    <3>1. (i + 1) - 1 = i
      BY <1>0
    <3>2. pos[i] # None
      BY <2>2, <3>1
    <3>3. pos[i - 1] # None
      BY <1>5, <3>2
    <3> QED
      BY <1>0, <3>3
  <2> HIDE DEF reached, N
  <2> QED
    BY <1>0, <2>1, <2>2, InitialSegment
<1>7. PICK w : w = LinearWalk(chain, name, rid)
  OBVIOUS
<1> HIDE DEF reached
<1>8. /\ w = [i \in 1 .. m |-> w[i]]
      /\ \A i \in 1 .. m : w[i][1] = ServiceClient(pos[i - 1][1], pos[i - 1][2])
  BY <1>4, <1>6, <1>7
<1>9. m \in Nat
  BY <1>0
<1>10. IsSequence(w) /\ DOMAIN w = 1 .. m
  BY <1>8, <1>9, EachIsSequence
<1>11. \A i \in 1 .. m : ~IsProxy(w[i][1])
  BY <1>8, ServiceClientIsNoProxy
<1> QED
  BY <1>7, <1>10, <1>11 DEF BackendEdges

(* So are those of several walks together.                                 *)
LEMMA FlattenEdges ==
    ASSUME NEW s, IsSequence(s), \A i \in DOMAIN s : BackendEdges(s[i])
    PROVE  BackendEdges(FlattenSeq(s))
<1> DEFINE T == UNION {ToSet(s[i]) : i \in DOMAIN s}
<1>1. \A i \in DOMAIN s : s[i] \in Seq(T)
  <2> SUFFICES ASSUME NEW i \in DOMAIN s PROVE s[i] \in Seq(T)
    OBVIOUS
  <2>1. IsSequence(s[i]) /\ ToSet(s[i]) \subseteq T
    BY DEF BackendEdges
  <2>2. \A j \in DOMAIN s[i] : s[i][j] \in T
    BY <2>1 DEF ToSet
  <2> HIDE DEF T
  <2> QED
    BY <2>1, <2>2, SequenceIsTyped
<1>2. \A e \in T : ~IsProxy(e[1])
  BY DEF BackendEdges, ToSet
<1> HIDE DEF T
<1>3. PICK U : U = Seq(T)
  OBVIOUS
<1>4. s \in Seq(U)
  BY <1>1, <1>3, SequenceIsTyped
<1>5. FlattenSeq(s) \in Seq(T)
  BY <1>3, <1>4, FlattenTyped
<1>6. IsSequence(FlattenSeq(s)) /\ ToSet(FlattenSeq(s)) \subseteq T
  BY <1>5, TypedIsSequence
<1> QED
  BY <1>2, <1>6 DEF BackendEdges, ToSet

(* collect_backend_chain_edges lists only edges from service clients.      *)
LEMMA BackendWalkTyped ==
    ASSUME Listed, IsConfig(config), NEW name, NEW rid, NEW only
    PROVE  BackendEdges(CollectBackendChainEdges(name, rid, only))
<1> DEFINE ports == {p \in DOMAIN Triggers(name) :
                        only = None \/ only \in ToSet(Triggers(name)[p])}
           chains == SetToSeq(ports)
           s == [i \in DOMAIN chains |-> LinearWalk(Triggers(name)[chains[i]], name, rid)]
<1>1. /\ IsFiniteSet(DOMAIN Triggers(name))
      /\ \A p \in DOMAIN Triggers(name) : IsSequence(Triggers(name)[p])
  <2>1. CASE name \in DOMAIN config
    BY <2>1, TypedIsSequence DEF Triggers, IsConfig
  <2>2. CASE name \notin DOMAIN config
    <3>1. Triggers(name) = <<>> /\ DOMAIN Triggers(name) = {}
      BY <2>2 DEF Triggers
    <3> QED
      BY <3>1, FS_EmptySet
  <2> QED
    BY <2>1, <2>2
<1>2. IsFiniteSet(ports)
  BY <1>1, FS_Subset
<1>3. chains \in Seq(ports)
  <2> HIDE DEF ports
  <2> QED
    BY <1>2, SetToSeqTyped
<1>4. \A i \in DOMAIN chains : IsSequence(Triggers(name)[chains[i]])
  <2>1. \A i \in DOMAIN chains : chains[i] \in ports
    <3> HIDE DEF ports, chains
    <3> QED
      BY <1>3
  <2> HIDE DEF chains
  <2> QED
    BY <1>1, <2>1
<1> HIDE DEF chains
<1>5. \A i \in DOMAIN chains : BackendEdges(LinearWalk(Triggers(name)[chains[i]], name, rid))
  BY <1>4, LinearWalkTyped
<1>6. Len(chains) \in Nat /\ DOMAIN chains = 1 .. Len(chains)
  <2> HIDE DEF ports
  <2> QED
    BY <1>3
<1>7. s = [i \in 1 .. Len(chains) |-> s[i]] /\ \A i \in DOMAIN s : BackendEdges(s[i])
  BY <1>5, <1>6
<1> HIDE DEF s
<1>8. BackendEdges(FlattenSeq(s))
  BY <1>6, <1>7, EachIsSequence, FlattenEdges
<1> QED
  BY <1>8 DEF CollectBackendChainEdges, s, chains

(* The number of hops after which a walk has returned to a place is a      *)
(* number.                                                                 *)
LEMMA WalkBounded ==
    ASSUME Listed
    PROVE  MaxWalk \in Nat
<1> DEFINE f == [n \in Names |-> {n} \X ReplicaSet(n)]
           Sets == {{n} \X ReplicaSet(n) : n \in Names}
<1>1. f \in Surjection(Names, Sets)
  BY DEF Surjection
<1>2. IsFiniteSet(Sets)
  <2> HIDE DEF f, Sets
  <2> QED
    BY <1>1, FS_Surjection, ControllerConstants
<1>3. \A n \in Names : IsFiniteSet({n} \X ReplicaSet(n))
  <2> SUFFICES ASSUME NEW n \in Names PROVE IsFiniteSet({n} \X ReplicaSet(n))
    OBVIOUS
  <2>1. IsFiniteSet(ReplicaSet(n))
    BY TypedIsSequence, SetOfSequence DEF Listed, ReplicaSet
  <2>2. IsFiniteSet({n})
    BY FS_Singleton
  <2> QED
    BY <2>1, <2>2, FS_Product
<1>4. \A S \in Sets : IsFiniteSet(S)
  BY <1>3
<1>5. IsFiniteSet(UNION Sets)
  <2> HIDE DEF Sets
  <2> QED
    BY <1>2, <1>4, FS_UNION
<1>6. Cardinality(Positions) \in Nat
  BY <1>5, FS_CardinalityType DEF Positions
<1> QED
  BY <1>6 DEF MaxWalk

(* collect_dep_chain_edges lists only edges from service clients; so       *)
(* decrementing them never touches a proxy client.                         *)
LEMMA DepWalkTyped ==
    ASSUME Listed, IsConfig(config), NEW name, NEW rid
    PROVE  BackendEdges(CollectDepChainEdges(name, rid))
<1> DEFINE pos == DepChainPositions(name, rid)
           s == [i \in 1 .. MaxWalk |->
                    IF pos[i - 1] = None THEN <<>>
                    ELSE EdgesFrom(pos[i - 1], ProxyDeps(pos[i - 1][1]))]
<1>1. \A n : IsSequence(ProxyDeps(n))
  BY TypedIsSequence DEF ProxyDeps, IsConfig, IsSequence, ToSet
<1>2. ASSUME NEW p, NEW n PROVE BackendEdges(EdgesFrom(p, ProxyDeps(n)))
  <2>1. PICK deps : deps = ProxyDeps(n)
    OBVIOUS
  <2>2. Len(deps) \in Nat /\ DOMAIN deps = 1 .. Len(deps)
    BY <1>1, <2>1, SequenceIsFunction
  <2>3. PICK e : e = EdgesFrom(p, deps)
    OBVIOUS
  <2>4. /\ e = [i \in 1 .. Len(deps) |-> e[i]]
        /\ \A i \in 1 .. Len(deps) : e[i][1] = ServiceClient(p[1], p[2])
    BY <2>2, <2>3 DEF EdgesFrom
  <2>5. IsSequence(e) /\ DOMAIN e = 1 .. Len(deps)
    BY <2>2, <2>4, EachIsSequence
  <2>6. \A i \in 1 .. Len(deps) : ~IsProxy(e[i][1])
    BY <2>4, ServiceClientIsNoProxy
  <2> QED
    BY <2>1, <2>3, <2>5, <2>6 DEF BackendEdges
<1>3. BackendEdges(<<>>)
  BY DEF BackendEdges, IsSequence, ToSet
<1>4. MaxWalk \in Nat
  BY WalkBounded
<1>5. s = [i \in 1 .. MaxWalk |-> s[i]] /\ \A i \in 1 .. MaxWalk : BackendEdges(s[i])
  <2> HIDE DEF pos
  <2> QED
    BY <1>2, <1>3
<1> HIDE DEF s
<1>6. BackendEdges(FlattenSeq(s))
  BY <1>4, <1>5, EachIsSequence, FlattenEdges
<1> QED
  BY <1>6 DEF CollectDepChainEdges, s
------------------------------------------------------------------------------
(* Called: the requests and their tasks. *)

(* A request that starts, or is answered, has no edge tasks.               *)
LEMMA IdleTyped ==
    ASSUME NEW pc \in Pcs, NEW resp \in Responses
    PROVE  [Idle EXCEPT !.pc = pc, !.resp = resp] \in Requests
<1>1. PICK q : q = [Idle EXCEPT !.pc = pc, !.resp = resp]
  OBVIOUS
<1>2. q = [pc |-> pc, rid |-> None, net |-> 0, edges |-> <<>>, resp |-> resp]
  BY <1>1 DEF Idle
<1>3. <<>> \in Seq(EdgeTasks)
  OBVIOUS
<1>4. q \in Requests
  BY <1>2, <1>3 DEF Requests
<1> QED
  BY <1>1, <1>4

(* A step of one request that keeps it typed and in order keeps all of     *)
(* them so.                                                                *)
LEMMA OneCall ==
    ASSUME Called, NEW r \in Reqs, NEW q \in Requests, InOrder(r, q),
           req' = [req EXCEPT ![r] = q]
    PROVE  Called'
<1>1. req' \in [Reqs -> Requests]
  BY DEF Called
<1>2. \A s \in Reqs : req'[s] = IF s = r THEN q ELSE req[s]
  BY DEF Called
<1>3. \A s \in Reqs : InOrder(s, req'[s])
  BY <1>2 DEF Called
<1> QED
  BY <1>1, <1>3 DEF Called, InOrder, AllEnded

(* Answering a request.                                                    *)
LEMMA AnswerCalled ==
    ASSUME Called, NEW r \in Reqs, NEW resp \in Responses, Answer(r, resp)
    PROVE  Called'
<1>1. PICK q : q = [Idle EXCEPT !.pc = "done", !.resp = resp]
  OBVIOUS
<1>2. q \in Requests /\ q.edges = <<>> /\ q.pc = "done"
  <2>1. q \in Requests
    BY <1>1, IdleTyped DEF Pcs
  <2> QED
    BY <1>1, <2>1 DEF Idle
<1>3. InOrder(r, q)
  BY <1>2 DEF InOrder, AllEnded
<1>4. req' = [req EXCEPT ![r] = q]
  BY <1>1 DEF Answer
<1> QED
  BY <1>2, <1>3, <1>4, OneCall

(* A request goes on to its next acquisition of the lock.                  *)
LEMMA WentTo ==
    ASSUME Called, NEW r \in Reqs, NEW pc \in Pcs,
           NEW rid \in AllReplicas \cup {None}, NEW net \in NetIds \cup {0},
           req[r].edges = <<>>, pc # "join",
           pc \in {"build", "build_backend", "reuse"} => rid \in AllReplicas,
           pc \in {"lookup", "sticky", "reuse", "pick", "build"} => CallOf[r][1] = "proxy",
           pc \in {"trigger", "build_backend"} => CallOf[r][1] # "proxy",
           req' = [req EXCEPT ![r] = [req[r] EXCEPT !.pc = pc, !.rid = rid, !.net = net]]
    PROVE  Called'
<1>1. req[r] \in Requests
  BY DEF Called
<1>2. PICK q : q = [req[r] EXCEPT !.pc = pc, !.rid = rid, !.net = net]
  OBVIOUS
<1>3. q \in Requests /\ q.pc = pc /\ q.rid = rid /\ q.edges = req[r].edges
  BY <1>1, <1>2 DEF Requests
<1>4. InOrder(r, q)
  BY <1>3 DEF InOrder, AllEnded
<1> QED
  BY <1>2, <1>3, <1>4, OneCall

(* A step of one edge task.                                                *)
LEMMA OneEdge ==
    ASSUME Called, NEW r \in Reqs, req[r].pc = "join", NEW i \in DOMAIN req[r].edges,
           NEW e \in EdgeTasks,
           NEW new, new = [req[r] EXCEPT !.edges = [req[r].edges EXCEPT ![i] = e]],
           req' = [req EXCEPT ![r] = new]
    PROVE  Called'
<1>1. req[r] \in Requests
  BY DEF Called
<1>2. PICK s : s = [req[r].edges EXCEPT ![i] = e]
  OBVIOUS
<1>3. req[r].edges \in Seq(EdgeTasks)
  BY <1>1 DEF Requests
<1>4. s \in Seq(EdgeTasks)
  BY <1>2, <1>3
<1>5. PICK q : q = [req[r] EXCEPT !.edges = s]
  OBVIOUS
<1>6. q \in Requests /\ q.pc = "join" /\ q.edges = s
  BY <1>1, <1>4, <1>5 DEF Requests
<1>9. s # <<>>
  BY <1>2, <1>3
<1>7. InOrder(r, q)
  BY <1>6, <1>9 DEF InOrder
<1>8. req' = [req EXCEPT ![r] = q]
  BY <1>2, <1>5
<1> QED
  BY <1>6, <1>7, <1>8, OneCall

(* Nothing happens to requests.                                            *)
LEMMA CalledStays ==
    ASSUME Called, UNCHANGED req
    PROVE  Called'
  BY DEF Called, InOrder, AllEnded

(* The answers that handlers give.                                         *)
LEMMA ResponsesGiven ==
    ASSUME NEW net \in NetIds \cup {0}
    PROVE  <<>> \in Responses /\ <<"err">> \in Responses /\ <<"ok", net>> \in Responses
           /\ <<"ok", 0>> \in Responses /\ <<"gone">> \in Responses
  BY DEF Responses

(* A request arrives.                                                      *)
LEMMA StartCalled ==
    ASSUME CtlInv, NEW r \in Reqs, Start(r)
    PROVE  Called'
<1>1. PICK pc : pc = IF CallOf[r][1] = "proxy" THEN "lookup" ELSE "trigger"
  OBVIOUS
<1>2. pc \in Pcs
  BY <1>1 DEF Pcs
<1>3. PICK q : q = [Idle EXCEPT !.pc = pc, !.resp = <<>>]
  OBVIOUS
<1>4. q \in Requests
  BY <1>2, <1>3, IdleTyped DEF Responses
<1>5. q.pc = pc /\ q.edges = <<>> /\ q = [Idle EXCEPT !.pc = pc]
  <2>1. q = [pc |-> pc, rid |-> None, net |-> 0, edges |-> <<>>, resp |-> <<>>]
    BY <1>3 DEF Idle
  <2>2. [Idle EXCEPT !.pc = pc] = [pc |-> pc, rid |-> None, net |-> 0, edges |-> <<>>, resp |-> <<>>]
    BY DEF Idle
  <2> QED
    BY <2>1, <2>2
<1>6. InOrder(r, q)
  BY <1>1, <1>5 DEF InOrder, AllEnded
<1>7. req' = [req EXCEPT ![r] = q]
  BY <1>1, <1>5 DEF Start
<1> QED
  BY <1>4, <1>6, <1>7, OneCall DEF CtlInv

(* An entry's network is an identifier, or none for a placeholder.         *)
LEMMA KeyNet ==
    ASSUME Placed, NEW k \in DOMAIN clients
    PROVE  clients[k].net_id \in NetIds \cup {0}
  BY DEF Placed, Entries

(* The first lookup of proxy (limit, sticky replica, new chain).           *)
LEMMA ProxyLookupCalled ==
    ASSUME CtlInv, NEW r \in Reqs, ProxyLookup(r)
    PROVE  Called'
<1>1. Called /\ Listed /\ IsConfig(config) /\ Placed
  BY DEF CtlInv
<1>2. req[r].pc = "lookup" /\ req[r] \in Requests /\ InOrder(r, req[r])
  BY <1>1 DEF ProxyLookup, Called
<1>3. req[r].edges = <<>> /\ CallOf[r][1] = "proxy"
  BY <1>2 DEF InOrder
<1>4. CASE Answer(r, <<"err">>)
  BY <1>1, <1>4, AnswerCalled DEF Responses
<1>5. CASE /\ IsRegistered(ServiceOf(r)) /\ IsClientSetup(ServiceOf(r), ClientOf(r))
           /\ req' = [req EXCEPT ![r].pc = "sticky",
                        ![r].net = clients[EntryKey(ServiceOf(r), ClientOf(r), clients)].net_id]
  <2>1. PICK net : net = clients[EntryKey(ServiceOf(r), ClientOf(r), clients)].net_id
    OBVIOUS
  <2>2. EntryKey(ServiceOf(r), ClientOf(r), clients) \in DOMAIN clients
    BY <1>1, <1>5, RegisteredHolder DEF IsClientSetup
  <2>3. net \in NetIds \cup {0}
    BY <1>1, <2>1, <2>2, KeyNet
  <2>4. req' = [req EXCEPT ![r] = [req[r] EXCEPT !.pc = "sticky", !.rid = req[r].rid, !.net = net]]
    BY <1>5, <1>2, <2>1 DEF Requests
  <2>5. req[r].rid \in AllReplicas \cup {None} /\ "sticky" \in Pcs
    BY <1>2 DEF Requests, Pcs
  <2> QED
    BY <1>1, <1>3, <2>3, <2>4, <2>5, WentTo
<1>6. CASE \E k \in ReusableOnProxy(ServiceOf(r), HostOf(r)) :
              req' = [req EXCEPT ![r].pc = "reuse", ![r].rid = k[2], ![r].net = clients[k].net_id]
  <2>1. PICK k \in ReusableOnProxy(ServiceOf(r), HostOf(r)) :
              req' = [req EXCEPT ![r].pc = "reuse", ![r].rid = k[2], ![r].net = clients[k].net_id]
    BY <1>6
  <2>2. k \in DOMAIN clients
    BY DEF ReusableOnProxy, KeysOf
  <2>3. PICK net, rid : net = clients[k].net_id /\ rid = k[2]
    OBVIOUS
  <2>4. net \in NetIds \cup {0} /\ rid \in AllReplicas
    BY <1>1, <2>2, <2>3, KeyNet DEF Placed, AllKeys
  <2>5. req' = [req EXCEPT ![r] = [req[r] EXCEPT !.pc = "reuse", !.rid = rid, !.net = net]]
    BY <1>2, <2>1, <2>3 DEF Requests
  <2>6. "reuse" \in Pcs
    BY DEF Pcs
  <2> QED
    BY <1>1, <1>3, <2>4, <2>5, <2>6, WentTo
<1>7. CASE Goto(r, "pick")
  <2>1. req' = [req EXCEPT ![r] = [req[r] EXCEPT !.pc = "pick", !.rid = req[r].rid, !.net = req[r].net]]
    BY <1>2, <1>7 DEF Requests, Goto
  <2>2. req[r].rid \in AllReplicas \cup {None} /\ req[r].net \in NetIds \cup {0} /\ "pick" \in Pcs
    BY <1>2 DEF Requests, Pcs
  <2> QED
    BY <1>1, <1>3, <2>1, <2>2, WentTo
<1> QED
  BY <1>4, <1>5, <1>6, <1>7 DEF ProxyLookup

(* Handlers that end with an answer, or wait for the clean-up.             *)
LEMMA AnsweringCalled ==
    ASSUME CtlInv, NEW r \in Reqs,
           ProxySticky(r) \/ ProxyReuse(r) \/ Join(r)
    PROVE  Called'
<1>1. Called /\ req[r] \in Requests
  BY DEF CtlInv, Called
<1>2. req[r].net \in NetIds \cup {0}
  BY <1>1 DEF Requests
<1>3. CASE \E resp \in Responses : Answer(r, resp)
  BY <1>1, <1>3, AnswerCalled
<1>4. CASE UNCHANGED req
  BY <1>1, <1>4, CalledStays
<1>5. CASE ProxySticky(r)
  BY <1>2, <1>3, <1>5, ResponsesGiven DEF ProxySticky
<1>6. CASE ProxyReuse(r)
  <2>1. CASE Goto(r, "stuck")
    <3>1. req[r].pc = "reuse" /\ req[r].edges = <<>>
      BY <1>1, <1>6 DEF ProxyReuse, Called, InOrder
    <3>2. req' = [req EXCEPT ![r] = [req[r] EXCEPT !.pc = "stuck", !.rid = req[r].rid, !.net = req[r].net]]
      BY <1>1, <2>1 DEF Requests, Goto
    <3>3. req[r].rid \in AllReplicas \cup {None} /\ "stuck" \in Pcs
      BY <1>1 DEF Requests, Pcs
    <3> QED
      BY <1>1, <1>2, <3>1, <3>2, <3>3, WentTo
  <2>2. CASE Answer(r, <<"ok", req[r].net>>)
    BY <1>2, <1>3, <2>2, ResponsesGiven
  <2> QED
    BY <1>6, <2>1, <2>2 DEF ProxyReuse
<1>7. CASE Join(r)
  <2>1. PICK up : up = req[r].edges[Len(req[r].edges)].net
    OBVIOUS
  <2>2. up \in NetIds \cup {0}
    <3>1. InOrder(r, req[r]) /\ req[r].pc = "join"
      BY <1>1, <1>7 DEF Join, Called
    <3>2. req[r].edges \in Seq(EdgeTasks) /\ req[r].edges # <<>>
      BY <1>1, <3>1 DEF Requests, InOrder
    <3>3. Len(req[r].edges) \in DOMAIN req[r].edges
      BY <3>2
    <3>4. req[r].edges[Len(req[r].edges)] \in EdgeTasks
      BY <3>2, <3>3
    <3> QED
      BY <2>1, <3>4 DEF EdgeTasks
  <2> QED
    BY <1>2, <1>3, <1>7, <2>1, <2>2, ResponsesGiven DEF Join
<1> QED
  BY <1>5, <1>6, <1>7

(* The tasks of a chain are spawned, one per edge.                         *)
LEMMA SpawnCalled ==
    ASSUME Called, NEW r \in Reqs, NEW chain, IsSequence(chain), chain # <<>>,
           \A i \in DOMAIN chain :
               /\ chain[i].client \in AllClients
               /\ chain[i].server \in Names /\ chain[i].rid \in AllReplicas,
           Spawn(r, chain)
    PROVE  Called'
<1>1. PICK edges : edges = [i \in DOMAIN chain |->
                           [client |-> chain[i].client, server |-> chain[i].server,
                            rid |-> chain[i].rid, pc |-> "reserve", net |-> 0]]
  OBVIOUS
<1>2. Len(chain) \in Nat /\ DOMAIN chain = 1 .. Len(chain) /\ Len(chain) # 0
  BY SequenceIsFunction
<1>3. edges = [i \in 1 .. Len(chain) |-> edges[i]]
  BY <1>1, <1>2
<1>4. IsSequence(edges) /\ DOMAIN edges = 1 .. Len(chain)
  BY <1>2, <1>3, EachIsSequence
<1>5. \A i \in DOMAIN edges : edges[i] \in EdgeTasks
  BY <1>1 DEF EdgeTasks, Active
<1>6. edges \in Seq(EdgeTasks) /\ edges # <<>>
  BY <1>2, <1>4, <1>5, SequenceIsTyped
<1>7. PICK q : q = [req[r] EXCEPT !.pc = "join", !.edges = edges]
  OBVIOUS
<1>8. req[r] \in Requests
  BY DEF Called
<1>9. q \in Requests /\ q.pc = "join" /\ q.edges = edges
  BY <1>6, <1>7, <1>8 DEF Requests, Pcs
<1>10. InOrder(r, q)
  BY <1>6, <1>9 DEF InOrder
<1>11. req' = [req EXCEPT ![r] = q]
  BY <1>1, <1>7 DEF Spawn
<1> QED
  BY <1>9, <1>10, <1>11, OneCall

(* A replica is picked for a new proxy chain.                              *)
LEMMA NewProxyChainCalled ==
    ASSUME CtlInv, NEW r \in Reqs, NewProxyChain(r)
    PROVE  Called'
<1>1. Called /\ Listed /\ IsConfig(config) /\ Placed
  BY DEF CtlInv
<1>2. req[r].pc = "pick" /\ req[r] \in Requests /\ InOrder(r, req[r])
  BY <1>1 DEF NewProxyChain, Called
<1>3. req[r].edges = <<>> /\ CallOf[r][1] = "proxy"
  BY <1>2 DEF InOrder
<1>4. CASE Answer(r, <<"err">>)
  BY <1>1, <1>4, AnswerCalled DEF Responses
<1>5. CASE /\ IsRegistered(ServiceOf(r))
           /\ req' = [req EXCEPT ![r].pc = "build",
                            ![r].rid = PickReplicaLeastClients(ServiceOf(r))]
  <2>1. PICK rid, net : rid = PickReplicaLeastClients(ServiceOf(r)) /\ net = req[r].net
    OBVIOUS
  <2>2. rid \in AllReplicas
    BY <1>1, <1>5, <2>1, PickedIsReplica, RegisteredHasReplicas DEF Placed
  <2>3. net \in NetIds \cup {0} /\ "build" \in Pcs
    BY <1>2, <2>1 DEF Requests, Pcs
  <2>4. req' = [req EXCEPT ![r] = [req[r] EXCEPT !.pc = "build", !.rid = rid, !.net = net]]
    BY <1>2, <1>5, <2>1 DEF Requests
  <2> QED
    BY <1>1, <1>3, <2>2, <2>3, <2>4, WentTo
<1> QED
  BY <1>4, <1>5 DEF NewProxyChain

(* The chain behind a picked replica is computed and spawned.              *)
LEMMA SetupProxyChainCalled ==
    ASSUME CtlInv, NEW r \in Reqs, SetupProxyChain(r)
    PROVE  Called'
<1>1. Called /\ Listed /\ IsConfig(config) /\ Placed
  BY DEF CtlInv
<1>2. req[r].pc = "build" /\ req[r] \in Requests /\ InOrder(r, req[r])
  BY <1>1 DEF SetupProxyChain, Called
<1>3. req[r].rid \in AllReplicas /\ CallOf[r][1] = "proxy"
  BY <1>2 DEF InOrder
<1>4. CASE Answer(r, <<"err">>)
  BY <1>1, <1>4, AnswerCalled DEF Responses
<1> DEFINE name == ServiceOf(r)
           chain == BuildLinearChain(ProxyDeps(name), name, req[r].rid)
           entry == [client |-> ClientOf(r), server |-> name, rid |-> req[r].rid]
<1>5. CASE /\ IsRegistered(name) /\ chain # None
           /\ Spawn(r, Append(chain, entry))
  <2>1. name \in Names /\ name \in DOMAIN config
    BY <1>1, <1>5, RegisteredHasReplicas DEF IsRegistered
  <2>2. ProxyDeps(name) \in Seq(Names)
    BY <1>1, <2>1 DEF ProxyDeps, IsConfig
  <2>3. /\ IsSequence(chain)
        /\ \A i \in DOMAIN chain :
              /\ chain[i].client \in AllClients
              /\ chain[i].server \in Names /\ chain[i].rid \in AllReplicas
    BY <1>1, <1>3, <1>5, <2>1, <2>2, ChainTyped DEF Placed
  <2>4. /\ entry.client \in AllClients
        /\ entry.server \in Names /\ entry.rid \in AllReplicas
    BY <1>3, <2>1 DEF AllClients
  <2> HIDE DEF chain, entry
  <2>5. PICK a : a = Append(chain, entry)
    OBVIOUS
  <2>6. PICK T : T = ToSet(chain) \cup {entry}
    OBVIOUS
  <2>7. chain \in Seq(T) /\ entry \in T
    BY <2>3, <2>6, SequenceIsTyped DEF ToSet
  <2>8. a \in Seq(T) /\ a # <<>>
    BY <2>5, <2>7
  <2>9. \A e \in T : e.client \in AllClients /\ e.server \in Names /\ e.rid \in AllReplicas
    BY <2>3, <2>4, <2>6 DEF ToSet
  <2>10. IsSequence(a) /\ ToSet(a) \subseteq T
    BY <2>8, TypedIsSequence
  <2>11. \A i \in DOMAIN a :
            /\ a[i].client \in AllClients
            /\ a[i].server \in Names /\ a[i].rid \in AllReplicas
    BY <2>9, <2>10 DEF ToSet
  <2> QED
    BY <1>1, <1>5, <2>5, <2>8, <2>10, <2>11, SpawnCalled
<1> QED
  BY <1>4, <1>5 DEF SetupProxyChain

(* A trigger finds its replica and chain.                                  *)
LEMMA BackendTriggerCalled ==
    ASSUME CtlInv, NEW r \in Reqs, BackendTrigger(r)
    PROVE  Called'
<1>1. Called /\ Listed /\ IsConfig(config) /\ Placed
  BY DEF CtlInv
<1>2. req[r].pc = "trigger" /\ req[r] \in Requests /\ InOrder(r, req[r])
  BY <1>1 DEF BackendTrigger, Called
<1>3. req[r].edges = <<>> /\ CallOf[r][1] # "proxy"
  BY <1>2 DEF InOrder
<1>4. CASE \E resp \in Responses : Answer(r, resp)
  BY <1>1, <1>4, AnswerCalled
<1> DEFINE name == ServiceOf(r)
           I == {j \in 1 .. Len(replicas[name]) : replicas[name][j][1] = HostOf(r)}
           i == SelectInSeq(replicas[name], LAMBDA rid : rid[1] = HostOf(r))
<1>5. i = IF I # {} THEN Min(I) ELSE 0
  BY DEF SelectInSeq
<1>6. CASE /\ IsRegistered(name) /\ i # 0
           /\ req' = [req EXCEPT ![r].pc = "build_backend", ![r].rid = replicas[name][i]]
  <2>1. I \subseteq Nat /\ I # {}
    BY <1>5, <1>6
  <2>2. Min(I) \in I
    <3> HIDE DEF I
    <3> QED
      BY <2>1, MinOf
  <2>3. Min(I) \in DOMAIN replicas[name]
    BY <1>1, <1>6, <2>2, RegisteredHasReplicas
  <2>4. PICK rid, net : rid = replicas[name][Min(I)] /\ net = req[r].net
    OBVIOUS
  <2>5. rid \in AllReplicas
    BY <1>1, <1>6, <2>3, <2>4, RegisteredHasReplicas DEF ReplicaSet, ToSet
  <2>6. rid = replicas[name][i]
    BY <1>5, <1>6, <2>1, <2>4
  <2> HIDE DEF i, I
  <2>7. req' = [req EXCEPT ![r] = [req[r] EXCEPT !.pc = "build_backend", !.rid = rid, !.net = net]]
    BY <1>2, <1>6, <2>4, <2>6 DEF Requests
  <2>8. net \in NetIds \cup {0} /\ "build_backend" \in Pcs
    BY <1>2, <2>4 DEF Requests, Pcs
  <2> QED
    BY <1>1, <1>3, <2>5, <2>7, <2>8, WentTo
<1> QED
  BY <1>4, <1>6, ResponsesGiven DEF BackendTrigger

(* The chain of a trigger is spawned.                                      *)
LEMMA SetupBackendChainCalled ==
    ASSUME CtlInv, NEW r \in Reqs, SetupBackendChain(r)
    PROVE  Called'
<1>1. Called /\ Listed /\ IsConfig(config) /\ Placed
  BY DEF CtlInv
<1>2. req[r].pc = "build_backend" /\ req[r] \in Requests /\ InOrder(r, req[r])
  BY <1>1 DEF SetupBackendChain, Called
<1>3. req[r].rid \in AllReplicas
  BY <1>2 DEF InOrder
<1>4. CASE \E resp \in Responses : Answer(r, resp)
  BY <1>1, <1>4, AnswerCalled
<1> DEFINE name == ServiceOf(r)
           port == CallOf[r][4]
           chain == BuildLinearChain(Triggers(name)[port], name, req[r].rid)
<1>5. CASE /\ IsRegistered(name) /\ port \in DOMAIN Triggers(name)
           /\ chain # None /\ chain # <<>>
           /\ Spawn(r, chain)
  <2>1. name \in Names /\ name \in DOMAIN config
    BY <1>1, <1>5, RegisteredHasReplicas DEF IsRegistered
  <2>2. Triggers(name)[port] \in Seq(Names)
    BY <1>1, <1>5, <2>1 DEF Triggers, IsConfig
  <2>3. /\ IsSequence(chain)
        /\ \A i \in DOMAIN chain :
              /\ chain[i].client \in AllClients
              /\ chain[i].server \in Names /\ chain[i].rid \in AllReplicas
    BY <1>1, <1>3, <1>5, <2>1, <2>2, ChainTyped DEF Placed
  <2> HIDE DEF chain
  <2> QED
    BY <1>1, <1>5, <2>3, SpawnCalled
<1> QED
  BY <1>4, <1>5, ResponsesGiven DEF SetupBackendChain

(* An edge task goes on with another identifier.                           *)
LEMMA EdgeMoved ==
    ASSUME Called, NEW r \in Reqs, NEW i, req[r].pc = "join", i \in DOMAIN req[r].edges,
           NEW pc \in Active \cup Ended, NEW net \in NetIds \cup {0},
           req' = [req EXCEPT ![r].edges[i].pc = pc, ![r].edges[i].net = net]
    PROVE  Called'
<1>1. req[r] \in Requests
  BY DEF Called
<1>2. req[r].edges \in Seq(EdgeTasks)
  BY <1>1 DEF Requests
<1>3. req[r].edges[i] \in EdgeTasks
  BY <1>2
<1>4. PICK e : e = [req[r].edges[i] EXCEPT !.pc = pc, !.net = net]
  OBVIOUS
<1>5. e \in EdgeTasks
  BY <1>3, <1>4 DEF EdgeTasks
<1>6. PICK q : q = [req[r] EXCEPT !.edges = [req[r].edges EXCEPT ![i] = e]]
  OBVIOUS
<1>7. req' = [req EXCEPT ![r] = q]
  BY <1>4, <1>6
<1>8. Called /\ r \in Reqs /\ req[r].pc = "join" /\ i \in DOMAIN req[r].edges
  OBVIOUS
<1> QED
  BY ONLY <1>5, <1>6, <1>7, <1>8, OneEdge

(* An edge task goes on with the identifier it has.                        *)
LEMMA EdgeWentTo ==
    ASSUME Called, NEW r \in Reqs, NEW i, req[r].pc = "join", i \in DOMAIN req[r].edges,
           NEW pc \in Active \cup Ended, EdgeGoto(r, i, pc)
    PROVE  Called'
<1>1. req[r] \in Requests
  BY DEF Called
<1>2. req[r].edges \in Seq(EdgeTasks)
  BY <1>1 DEF Requests
<1>3. req[r].edges[i] \in EdgeTasks
  BY <1>2
<1>4. PICK e : e = [req[r].edges[i] EXCEPT !.pc = pc]
  OBVIOUS
<1>5. e \in EdgeTasks
  BY <1>3, <1>4 DEF EdgeTasks
<1>6. PICK q : q = [req[r] EXCEPT !.edges = [req[r].edges EXCEPT ![i] = e]]
  OBVIOUS
<1>7. req' = [req EXCEPT ![r] = q]
  BY <1>4, <1>6 DEF EdgeGoto
<1> QED
  BY <1>5, <1>6, <1>7, OneEdge

(* Every step of an edge task keeps the requests typed and in order.       *)
LEMMA EdgeStepCalled ==
    ASSUME CtlInv, NEW r \in Reqs, NEW i \in 1 .. MaxEdges, EdgeStep(r, i)
    PROVE  Called'
<1>1. Called /\ req[r] \in Requests
  BY DEF CtlInv, Called
<1>2. req[r].edges \in Seq(EdgeTasks)
  BY <1>1 DEF Requests
<1>3. \A j \in DOMAIN req[r].edges : req[r].edges[j] \in EdgeTasks
  BY <1>2
<1>4. {"reserve", "allocate", "sending", "unsent", "commit", "abort", "drop",
       "ok", "failed", "aborted"} = Active \cup Ended
  BY DEF Active, Ended
<1>5. CASE EdgeReserve(r, i)
  BY <1>1, <1>4, <1>5, EdgeWentTo DEF EdgeReserve, EdgeAt
<1>6. CASE EdgeAllocate(r, i)
  <2>1. CASE EdgeGoto(r, i, "drop")
    BY <1>1, <1>4, <1>6, <2>1, EdgeWentTo DEF EdgeAllocate, EdgeAt
  <2>2. CASE \E id \in NetIds, pc \in {"sending", "unsent"} :
                req' = [req EXCEPT ![r].edges[i].net = id, ![r].edges[i].pc = pc]
    <3>1. PICK id \in NetIds, pc \in {"sending", "unsent"} :
                req' = [req EXCEPT ![r].edges[i].net = id, ![r].edges[i].pc = pc]
      BY <2>2
    <3>2. req' = [req EXCEPT ![r].edges[i].pc = pc, ![r].edges[i].net = id]
      BY <3>1
    <3> QED
      BY <1>1, <1>4, <1>6, <3>2, EdgeMoved DEF EdgeAllocate, EdgeAt
  <2> QED
    BY <1>6, <2>1, <2>2 DEF EdgeAllocate
<1>7. CASE EdgeAcked(r, i)
  BY <1>1, <1>4, <1>7, EdgeWentTo DEF EdgeAcked, EdgeAt
<1>8. CASE EdgeRollback(r, i)
  BY <1>1, <1>4, <1>8, EdgeMoved DEF EdgeRollback, EdgeAt
<1>9. CASE EdgeDrop(r, i)
  BY <1>1, <1>4, <1>9, EdgeWentTo DEF EdgeDrop, EdgeAt
<1>10. CASE EdgeCommit(r, i)
  <2>1. PICK net : net = IF IsProxy(req[r].edges[i].client) THEN req[r].edges[i].net ELSE 0
    OBVIOUS
  <2>2. net \in NetIds \cup {0} /\ i \in DOMAIN req[r].edges /\ req[r].pc = "join"
    BY <1>3, <1>10, <2>1 DEF EdgeCommit, EdgeAt, EdgeTasks
  <2>3. CASE EdgeGoto(r, i, "abort")
    BY <1>1, <1>4, <2>2, <2>3, EdgeWentTo
  <2>4. CASE req' = [req EXCEPT ![r].edges[i].pc = "ok", ![r].edges[i].net = net]
    BY <1>1, <1>4, <2>2, <2>4, EdgeMoved
  <2>5. req[r] \in Requests /\ req[r].edges[i] \in EdgeTasks
    BY <1>1, <1>3, <2>2
  <2> QED
    BY <1>1, <1>10, <2>1, <2>3, <2>4, <2>5 DEF EdgeCommit, Requests, EdgeTasks
<1>11. CASE EdgeAbort(r, i)
  BY <1>1, <1>4, <1>11, EdgeMoved DEF EdgeAbort, EdgeAt
<1>12. CASE EdgeAborted(r, i)
  <2>1. PICK edges : edges = [req[r].edges EXCEPT ![i].pc = "aborted", ![i].net = 0]
    OBVIOUS
  <2>2. i \in DOMAIN req[r].edges
    BY <1>12 DEF EdgeAborted
  <2>3. PICK e : e = [req[r].edges[i] EXCEPT !.pc = "aborted", !.net = 0]
    OBVIOUS
  <2>4. e \in EdgeTasks
    BY <1>3, <2>2, <2>3 DEF EdgeTasks, Ended
  <2>5. edges = [req[r].edges EXCEPT ![i] = e]
    BY <2>1, <2>3
  <2>6. edges \in Seq(EdgeTasks)
    BY <1>2, <2>2, <2>4, <2>5
  <2>7. PICK pc : pc = IF AllEnded(edges) THEN "done" ELSE "gone"
    OBVIOUS
  <2>8. PICK q : q = [req[r] EXCEPT !.edges = edges, !.pc = pc]
    OBVIOUS
  <2>9. q \in Requests /\ q.pc = pc /\ q.edges = edges
    BY <1>1, <2>6, <2>7, <2>8 DEF Requests, Pcs
  <2>10. InOrder(r, q)
    BY <2>7, <2>9 DEF InOrder
  <2>11. req' = [req EXCEPT ![r] = q]
    BY <1>1, <1>12, <2>1, <2>7, <2>8 DEF EdgeAborted, Requests
  <2> QED
    BY <1>1, <2>9, <2>10, <2>11, OneCall
<1> QED
  BY <1>5, <1>6, <1>7, <1>8, <1>9, <1>10, <1>11, <1>12 DEF EdgeStep

(* The caller gives up: its tasks are aborted where they are.              *)
LEMMA CallerGoneCalled ==
    ASSUME CtlInv, NEW r \in Reqs, CallerGone(r)
    PROVE  Called'
<1>1. Called /\ req[r] \in Requests
  BY DEF CtlInv, Called
<1>2. PICK pc : pc = IF AllEnded(req[r].edges) THEN "done" ELSE "gone"
  OBVIOUS
<1>3. PICK q : q = [req[r] EXCEPT !.resp = <<"gone">>, !.pc = pc]
  OBVIOUS
<1>4. q \in Requests /\ q.pc = pc /\ q.edges = req[r].edges
  BY <1>1, <1>2, <1>3 DEF Requests, Pcs, Responses
<1>5. InOrder(r, q)
  BY <1>2, <1>4 DEF InOrder
<1>6. req' = [req EXCEPT ![r] = q]
  BY <1>1, <1>2, <1>3 DEF CallerGone, Requests
<1> QED
  BY <1>1, <1>4, <1>5, <1>6, OneCall

(* Every step keeps the requests typed and in order.                       *)
LEMMA NextCalled ==
    ASSUME CtlInv, [Next]_vars
    PROVE  Called'
<1>1. Called
  BY DEF CtlInv
<1>2. CASE UNCHANGED req
  BY <1>1, <1>2, CalledStays
<1>3. CASE \E r \in Reqs : Start(r)
  BY <1>3, StartCalled
<1>4. CASE \E r \in Reqs : RequestStep(r)
  BY <1>4, ProxyLookupCalled, AnsweringCalled, NewProxyChainCalled, SetupProxyChainCalled,
     BackendTriggerCalled, SetupBackendChainCalled DEF RequestStep
<1>5. CASE \E r \in Reqs : CallerGone(r)
  BY <1>5, CallerGoneCalled
<1>6. CASE \E r \in Reqs, i \in 1 .. MaxEdges : EdgeStep(r, i)
  BY <1>6, EdgeStepCalled
<1>7. CASE UNCHANGED vars
  BY <1>2, <1>7 DEF vars
<1>8. CASE LockHolderStep \/ Event \/ \E host \in Flapping : NodeDisconnect(host)
  BY <1>2, <1>8 DEF LockHolderStep, Event, NodeDisconnect, Sweep, ServicesList, ConfigUpdate,
     TimeoutSweep, ChannelClosed, ChannelOpen
<1> QED
  BY <1>3, <1>4, <1>5, <1>6, <1>7, <1>8 DEF Next
------------------------------------------------------------------------------
(* The configuration, the replicas and the pool. *)

(* Who changes what. *)
LEMMA RequestsLeaveServices ==
    ASSUME NEW r \in Reqs, \/ Start(r) \/ RequestStep(r) \/ CallerGone(r)
                           \/ \E i \in 1 .. MaxEdges : EdgeStep(r, i)
    PROVE  UNCHANGED <<config, replicas>>
<1>1. CASE Start(r) \/ CallerGone(r)
  BY <1>1 DEF Start, CallerGone, changeVars
<1>2. CASE RequestStep(r)
  BY <1>2 DEF RequestStep, ProxyLookup, ProxySticky, ProxyReuse, NewProxyChain, SetupProxyChain,
     BackendTrigger, SetupBackendChain, Join, changeVars, serviceVars
<1>3. CASE \E i \in 1 .. MaxEdges : EdgeStep(r, i)
  BY <1>3 DEF EdgeStep, EdgeReserve, EdgeAllocate, EdgeAcked, EdgeRollback, EdgeDrop, EdgeCommit,
     EdgeAbort, EdgeAborted, changeVars, serviceVars
<1> QED
  BY <1>1, <1>2, <1>3

(* Most steps of a request only read the map.                              *)
LEMMA RequestsLeaveEntries ==
    ASSUME NEW r \in Reqs,
           \/ Start(r) \/ CallerGone(r)
           \/ ProxyLookup(r) \/ ProxySticky(r) \/ NewProxyChain(r) \/ SetupProxyChain(r)
           \/ BackendTrigger(r) \/ SetupBackendChain(r) \/ Join(r)
           \/ \E i \in 1 .. MaxEdges : \/ EdgeAllocate(r, i) \/ EdgeAcked(r, i) \/ EdgeRollback(r, i)
                                       \/ EdgeAbort(r, i) \/ EdgeAborted(r, i)
    PROVE  UNCHANGED clients
  BY DEF Start, CallerGone, ProxyLookup, ProxySticky, NewProxyChain, SetupProxyChain,
     BackendTrigger, SetupBackendChain, Join, changeVars, serviceVars,
     EdgeAllocate, EdgeAcked, EdgeRollback, EdgeAbort, EdgeAborted

(* An event only puts calls on the stack of its handler.                   *)
LEMMA EventsLeave ==
    ASSUME Event \/ \E host \in Flapping : NodeDisconnect(host)
    PROVE  UNCHANGED <<config, replicas, clients, pool, req>>
  BY DEF Event, NodeDisconnect, ServicesList, ConfigUpdate, TimeoutSweep, Sweep, ChannelClosed,
     ChannelOpen, changeVars, serviceVars

(* The configuration stays one that a file can produce.                    *)
LEMMA NextConfig ==
    ASSUME CtlInv, [Next]_vars
    PROVE  IsConfig(config)'
<1>1. CASE UNCHANGED config
  BY <1>1 DEF CtlInv, IsConfig
<1>2. CASE UpdateFromFile
  <2>1. PICK cfg : cfg = work[1][2]
    OBVIOUS
  <2>2. cfg \in Configs
    <3>1. IsSequence(work) /\ work # <<>> /\ work[1][1] = "update_from_file"
      BY <1>2 DEF UpdateFromFile, Due, CtlInv, Stacked
    <3>2. 1 \in DOMAIN work
      BY <3>1, SequenceIsFunction
    <3> QED
      BY <2>1, <3>1, <3>2 DEF CtlInv, Stacked, WellCalled
  <2>3. IsConfig(cfg) /\ IsConfig(config)
    BY <2>2, ControllerConstants DEF CtlInv
  <2>4. config' = [n \in DOMAIN cfg \cup DOMAIN config |->
                     IF n \in DOMAIN cfg THEN cfg[n] ELSE config[n]]
    BY <1>2, <2>1 DEF UpdateFromFile
  <2> QED
    BY <2>3, <2>4 DEF IsConfig
<1>3. CASE RemoveService
  <2>1. DOMAIN config' \subseteq DOMAIN config /\ \A n \in DOMAIN config' : config'[n] = config[n]
    BY <1>3 DEF RemoveService, Without, Restrict
  <2> QED
    BY <2>1 DEF IsConfig, CtlInv
<1>4. CASE LockHolderStep /\ ~UpdateFromFile /\ ~RemoveService
  BY <1>1, <1>4 DEF LockHolderStep, ChangesNext, serviceVars, For, DecrementChain, TeardownDepChain,
     TeardownBackendChain, TeardownAllBackendChainsFor, TeardownChain, RemoveClientEntry,
     TeardownNetworks, TeardownInvalidatedService, Unregister, ReplicasRemoved,
     TeardownPartialReplicas, RemoveReplicas, ProxyDisconnected, AddReplica
<1>5. CASE UNCHANGED vars
  BY <1>1, <1>5 DEF vars
<1> QED
  BY <1>1, <1>2, <1>3, <1>4, <1>5, RequestsLeaveServices, EventsLeave DEF Next

(* The call that is due has the arguments it needs.                        *)
LEMMA HeadCalled ==
    ASSUME Stacked, work # <<>>
    PROVE  1 \in DOMAIN work /\ WellCalled(work[1])
  BY SequenceIsFunction DEF Stacked

(* Replicas change only when services or replicas are removed or added.    *)
LEMMA LeavesReplicas ==
    ASSUME [Next]_vars, ~Unregister, ~RemoveReplicas, ~AddReplica
    PROVE  UNCHANGED replicas
<1>1. CASE LockHolderStep
  BY <1>1 DEF LockHolderStep, ChangesNext, serviceVars, For, DecrementChain, TeardownDepChain,
     TeardownBackendChain, TeardownAllBackendChainsFor, TeardownChain, RemoveClientEntry,
     TeardownNetworks, TeardownInvalidatedService, RemoveService, ReplicasRemoved,
     TeardownPartialReplicas, ProxyDisconnected, UpdateFromFile
<1>2. CASE UNCHANGED vars
  BY <1>2 DEF vars
<1> QED
  BY <1>1, <1>2, RequestsLeaveServices, EventsLeave DEF Next

(* Configurations change only when a file is applied or a service is       *)
(* removed.                                                                *)
LEMMA LeavesConfig ==
    ASSUME [Next]_vars, ~UpdateFromFile, ~RemoveService
    PROVE  UNCHANGED config
<1>1. CASE LockHolderStep
  BY <1>1 DEF LockHolderStep, ChangesNext, serviceVars, For, DecrementChain, TeardownDepChain,
     TeardownBackendChain, TeardownAllBackendChainsFor, TeardownChain, RemoveClientEntry,
     TeardownNetworks, TeardownInvalidatedService, Unregister, ReplicasRemoved,
     TeardownPartialReplicas, RemoveReplicas, ProxyDisconnected, AddReplica
<1>2. CASE UNCHANGED vars
  BY <1>2 DEF vars
<1> QED
  BY <1>1, <1>2, RequestsLeaveServices, EventsLeave DEF Next

(* No replica is listed twice, and a service without configuration has     *)
(* none: services are removed after they have been unregistered, and       *)
(* add_replica looks up the service first.                                 *)
LEMMA NextListed ==
    ASSUME CtlInv, [Next]_vars
    PROVE  Listed'
<1>1. Listed /\ Stacked /\ IsConfig(config)
  BY DEF CtlInv
<1>2. CASE UNCHANGED <<config, replicas>>
  BY <1>1, <1>2 DEF Listed
<1>3. CASE Unregister
  <2>1. UNCHANGED config /\ replicas' = [replicas EXCEPT ![work[1][2]] = <<>>]
    BY <1>3 DEF Unregister
  <2>2. \A n \in Names : replicas'[n] = <<>> \/ replicas'[n] = replicas[n]
    BY <1>1, <2>1 DEF Listed
  <2>3. <<>> \in Seq(AllReplicas) /\ IsInjective(<<>>)
    BY DEF IsInjective
  <2> QED
    BY <1>1, <2>1, <2>2, <2>3 DEF Listed
<1>4. CASE RemoveReplicas
  <2>1. PICK name : name = work[1][2]
    OBVIOUS
  <2>2. PICK set : set = ReplicaSet(name) \ {rid \in ReplicaSet(name) : OnFilter(work[1][3], rid)}
    OBVIOUS
  <2>3. UNCHANGED config /\ replicas' = [replicas EXCEPT ![name] = Among(replicas[name], set)]
    BY <1>4, <2>1, <2>2 DEF RemoveReplicas
  <2>4. PICK left : left = Among(replicas[name], set)
    OBVIOUS
  <2>5. name \in Names => /\ left \in Seq(AllReplicas) /\ IsInjective(left)
                          /\ replicas[name] = <<>> => left = <<>>
    <3>1. ASSUME name \in Names
          PROVE  left \in Seq(AllReplicas) /\ IsInjective(left) /\ ToSet(left) = ToSet(replicas[name]) \cap set
      BY <1>1, <2>4, <3>1, AmongKeeps DEF Listed
    <3>2. ASSUME name \in Names, replicas[name] = <<>>
          PROVE  left = <<>>
      <4>1. ToSet(left) = {} /\ left \in Seq(AllReplicas)
        BY <3>1, <3>2 DEF ToSet
      <4> QED
        BY <4>1 DEF ToSet
    <3> QED
      BY <3>1, <3>2
  <2>6. \A n \in Names : replicas'[n] = IF n = name THEN left ELSE replicas[n]
    BY <1>1, <2>3, <2>4 DEF Listed
  <2> QED
    BY <1>1, <2>3, <2>5, <2>6 DEF Listed
<1>5. CASE AddReplica
  <2>1. PICK name, rid : name = work[1][2] /\ rid = work[1][3]
    OBVIOUS
  <2>2. rid \in AllReplicas /\ UNCHANGED config
    BY <1>1, <1>5, <2>1, HeadCalled DEF AddReplica, Due, WellCalled
  <2>3. CASE name \in DOMAIN config /\ rid \notin ReplicaSet(name)
    <3>1. PICK more : more = Append(replicas[name], rid)
      OBVIOUS
    <3>2. name \in Names /\ replicas[name] \in Seq(AllReplicas) /\ IsInjective(replicas[name])
      BY <1>1, <2>3 DEF IsConfig, Listed
    <3>3. more \in Seq(AllReplicas)
      BY <2>2, <3>1, <3>2
    <3>4. IsInjective(more)
      <4>1. /\ DOMAIN more = 1 .. Len(replicas[name]) + 1 /\ Len(replicas[name]) \in Nat
            /\ DOMAIN replicas[name] = 1 .. Len(replicas[name])
            /\ more[Len(replicas[name]) + 1] = rid
            /\ \A i \in DOMAIN replicas[name] : more[i] = replicas[name][i]
        BY <2>2, <3>1, <3>2
      <4>2. \A i \in DOMAIN replicas[name] : replicas[name][i] # rid
        BY <2>3 DEF ReplicaSet, ToSet
      <4> QED
        BY <3>2, <4>1, <4>2 DEF IsInjective
    <3>5. \A n \in Names : replicas'[n] = IF n = name THEN more ELSE replicas[n]
      BY <1>1, <1>5, <2>1, <2>3, <3>1 DEF AddReplica, Listed
    <3>6. DOMAIN replicas' = Names
      BY <1>1, <1>5, <2>1, <2>3, <3>1 DEF AddReplica, Listed
    <3> QED
      BY <1>1, <2>2, <2>3, <3>2, <3>3, <3>4, <3>5, <3>6 DEF Listed
  <2> QED
    BY <1>2, <1>5, <2>1, <2>2, <2>3 DEF AddReplica
<1>6. CASE UpdateFromFile
  <2>1. UNCHANGED replicas /\ DOMAIN config \subseteq DOMAIN config'
    BY <1>6 DEF UpdateFromFile
  <2> QED
    BY <1>1, <2>1 DEF Listed
<1>7. CASE RemoveService
  <2>1. PICK name : name = work[1][2]
    OBVIOUS
  <2>2. UNCHANGED replicas /\ DOMAIN config \ {name} \subseteq DOMAIN config'
    BY <1>7, <2>1 DEF RemoveService, Without, Restrict
  <2>3. name \in Names => replicas[name] = <<>>
    <3>1. IsSequence(work) /\ 1 \in DOMAIN work /\ work[1][1] = "remove_service"
      BY <1>1, <1>7, HeadCalled DEF Stacked, RemoveService, Due
    <3>2. \A p \in DOMAIN work : ~(p < 1)
      BY <3>1, SequenceIsFunction
    <3> QED
      BY <1>1, <2>1, <3>1, <3>2 DEF Stacked
  <2> QED
    BY <1>1, <2>2, <2>3 DEF Listed
<1> QED
  BY <1>2, <1>3, <1>4, <1>5, <1>6, <1>7, LeavesConfig, LeavesReplicas

(* The pool stays in its range.                                            *)
LEMMA NextPool ==
    ASSUME CtlInv, [Next]_vars
    PROVE  pool' \in Pools
<1>1. pool \in Pools
  BY DEF CtlInv
<1>2. CASE UNCHANGED pool
  BY <1>1, <1>2
<1>3. CASE \E ids : pool' = FreeAll(pool, ids)
  BY <1>1, <1>3 DEF FreeAll, Pools
<1>4. CASE \E id \in NetIds : IsNextId(pool, id) /\ pool' = Allocate(pool, id)
  BY <1>1, <1>4, PoolBounds DEF IsNextId, Allocate, Pools
<1>5. CASE \E r \in Reqs : Start(r) \/ RequestStep(r) \/ CallerGone(r)
  BY <1>2, <1>5 DEF Start, RequestStep, CallerGone, ProxyLookup, ProxySticky, ProxyReuse,
     NewProxyChain, SetupProxyChain, BackendTrigger, SetupBackendChain, Join, changeVars
<1>6. CASE \E r \in Reqs, i \in 1 .. MaxEdges : EdgeStep(r, i)
  <2>1. PICK r \in Reqs, i \in 1 .. MaxEdges : EdgeStep(r, i)
    BY <1>6
  <2>2. CASE EdgeAllocate(r, i)
    BY <1>2, <1>4, <2>2 DEF EdgeAllocate
  <2>3. CASE EdgeRollback(r, i) \/ EdgeAbort(r, i)
    BY <1>3, <2>3 DEF EdgeRollback, EdgeAbort
  <2> QED
    BY <1>2, <2>1, <2>2, <2>3 DEF EdgeStep, EdgeReserve, EdgeAcked, EdgeDrop, EdgeCommit,
       EdgeAborted, changeVars
<1>7. CASE LockHolderStep
  <2>1. CASE DecrementChain
    BY <1>2, <1>3, <2>1 DEF DecrementChain
  <2>2. CASE TeardownNetworks
    BY <1>2, <1>3, <2>2 DEF TeardownNetworks
  <2> QED
    BY <1>2, <1>7, <2>1, <2>2 DEF LockHolderStep, ChangesNext, For, TeardownDepChain,
     TeardownBackendChain, TeardownAllBackendChainsFor, TeardownChain, RemoveClientEntry,
     TeardownInvalidatedService, Unregister, RemoveService, ReplicasRemoved,
     TeardownPartialReplicas, RemoveReplicas, ProxyDisconnected, UpdateFromFile, AddReplica
<1>8. CASE UNCHANGED vars
  BY <1>2, <1>8 DEF vars
<1> QED
  BY <1>2, <1>5, <1>6, <1>7, <1>8, EventsLeave DEF Next
------------------------------------------------------------------------------
(* Placed: the entries. *)

(* Entries that stay keep their place. *)
LEMMA PlacedSubset ==
    ASSUME Placed, UNCHANGED replicas,
           DOMAIN clients' \subseteq DOMAIN clients,
           clients' \in [DOMAIN clients' -> Entries]
    PROVE  Placed'
<1>1. IsFiniteSet(DOMAIN clients')
  BY FS_Subset DEF Placed
<1> QED
  BY <1>1 DEF Placed, ReplicaSet

(* Entries are removed.                                                    *)
LEMMA PlacedWithout ==
    ASSUME Placed, UNCHANGED replicas, NEW keys, clients' = Without(clients, keys)
    PROVE  Placed'
<1>1. DOMAIN clients' \subseteq DOMAIN clients /\ clients' \in [DOMAIN clients' -> Entries]
  BY DEF Placed, Without, Restrict
<1> QED
  BY <1>1, PlacedSubset

(* One entry is written, if its replica is still there.                    *)
LEMMA PlacedMore ==
    ASSUME Placed, UNCHANGED replicas, NEW n \in Names, NEW rid \in AllReplicas,
           NEW c \in AllClients,
           DOMAIN clients' = DOMAIN clients
               \cup (IF rid \in ReplicaSet(n) THEN {<<n, rid, c>>} ELSE {}),
           clients' \in [DOMAIN clients' -> Entries]
    PROVE  Placed'
<1>1. IsFiniteSet(DOMAIN clients')
  <2>1. PICK D, k : D = DOMAIN clients /\ k = <<n, rid, c>>
    OBVIOUS
  <2>2. IsFiniteSet(D) /\ IsFiniteSet(D \cup {k})
    BY <2>1, FS_AddElement DEF Placed
  <2>3. DOMAIN clients' = D \cup {k} \/ DOMAIN clients' = D
    BY <2>1
  <2> QED
    BY <2>2, <2>3
<1>2. <<n, rid, c>> \in AllKeys
  BY DEF AllKeys
<1> QED
  BY <1>1, <1>2 DEF Placed, ReplicaSet, AllKeys

(* One entry written, and perhaps a chain counted on it. *)
LEMMA EntryWritten ==
    ASSUME CtlInv, UNCHANGED replicas, NEW n \in Names, NEW rid \in AllReplicas,
           NEW c \in AllClients, NEW info \in Entries, IsRegistered(n),
           \/ clients' = AddClientToReplica(n, rid, c, info, clients)
           \/ clients' = AddChain(n, c, AddClientToReplica(n, rid, c, info, clients))
    PROVE  Placed'
<1>1. Placed /\ Listed /\ IsConfig(config)
  BY DEF CtlInv
<1>2. PICK D : D = DOMAIN clients
  OBVIOUS
<1>3. clients \in [D -> Entries]
  BY <1>1, <1>2 DEF Placed
<1>4. PICK new : new = AddClientToReplica(n, rid, c, info, clients)
  OBVIOUS
<1>5. /\ new \in [DOMAIN new -> Entries]
      /\ DOMAIN new = D \cup (IF rid \in ReplicaSet(n) THEN {<<n, rid, c>>} ELSE {})
  BY <1>3, <1>4 DEF AddClientToReplica
<1>6. PICK E : E = DOMAIN new
  OBVIOUS
<1>7. PICK m : m = Len(replicas[n])
  OBVIOUS
<1>8. m \in Nat /\ DOMAIN replicas[n] = 1 .. m
  BY <1>1, <1>7, RegisteredHasReplicas
<1>9. AddChain(n, c, new) \in [E -> Entries]
  <2>1. new \in [E -> Entries]
    BY <1>5, <1>6
  <2> QED
    BY <1>8, <2>1, AddChainKeeps
<1>10. DOMAIN clients' = DOMAIN new /\ clients' \in [DOMAIN clients' -> Entries]
  BY <1>4, <1>5, <1>6, <1>9
<1> QED
  BY <1>1, <1>2, <1>5, <1>10, PlacedMore

(* A task of a request.                                                    *)
LEMMA EdgeAtTyped ==
    ASSUME Called, NEW r \in Reqs, NEW i, i \in DOMAIN req[r].edges
    PROVE  req[r].edges[i] \in EdgeTasks
<1>1. req[r] \in Requests
  BY DEF Called
<1>2. req[r].edges \in Seq(EdgeTasks)
  BY <1>1 DEF Requests
<1> QED
  BY <1>2

(* The client of a proxy request.                                          *)
LEMMA ProxyClientKnown ==
    ASSUME NEW r \in Reqs, CallOf[r][1] = "proxy"
    PROVE  ClientOf(r) \in AllClients
  BY DEF AllClients

(* A placeholder is written under a replica that is there.                 *)
LEMMA EdgeReservePlaced ==
    ASSUME CtlInv, NEW r \in Reqs, NEW i, EdgeReserve(r, i)
    PROVE  Placed'
<1>1. Placed /\ Listed /\ IsConfig(config) /\ Called
  BY DEF CtlInv
<1>2. PICK e : e = req[r].edges[i]
  OBVIOUS
<1>3. e \in EdgeTasks
  BY <1>1, <1>2, EdgeAtTyped DEF EdgeReserve, EdgeAt
<1>4. UNCHANGED replicas
  BY DEF EdgeReserve
<1>5. CASE UNCHANGED clients
  BY <1>1, <1>4, <1>5 DEF Placed, ReplicaSet
<1>6. CASE IsRegistered(e.server) /\ clients' = AddChain(e.server, e.client, clients)
  <2>1. PICK D, m : D = DOMAIN clients /\ m = Len(replicas[e.server])
    OBVIOUS
  <2>2. clients \in [D -> Entries] /\ m \in Nat /\ DOMAIN replicas[e.server] = 1 .. m
    BY <1>1, <1>6, <2>1, RegisteredHasReplicas DEF Placed
  <2>3. AddChain(e.server, e.client, clients) \in [D -> Entries]
    BY <2>2, AddChainKeeps
  <2>4. DOMAIN clients' \subseteq DOMAIN clients /\ clients' \in [DOMAIN clients' -> Entries]
    BY <1>6, <2>1, <2>3
  <2> QED
    BY <1>1, <1>4, <2>4, PlacedSubset
<1>7. CASE /\ IsRegistered(e.server)
           /\ clients' = AddClientToReplica(e.server, e.rid, e.client, Placeholder, clients)
  <2>1. Placeholder \in Entries
    BY DEF Placeholder, Entries
  <2>2. e.server \in Names /\ e.rid \in AllReplicas /\ e.client \in AllClients
    BY <1>3 DEF EdgeTasks
  <2>3. PICK n, rid, c, info : n = e.server /\ rid = e.rid /\ c = e.client /\ info = Placeholder
    OBVIOUS
  <2>4. /\ n \in Names /\ rid \in AllReplicas /\ c \in AllClients /\ info \in Entries
        /\ IsRegistered(n) /\ clients' = AddClientToReplica(n, rid, c, info, clients)
    BY <1>7, <2>1, <2>2, <2>3
  <2> QED
    BY <1>4, <2>4, EntryWritten
<1> QED
  BY <1>2, <1>5, <1>6, <1>7 DEF EdgeReserve

(* An edge task that comes back after the exchange writes its entry only   *)
(* under a replica that is still there.                                    *)
LEMMA EdgeCommitPlaced ==
    ASSUME CtlInv, NEW r \in Reqs, NEW i, EdgeCommit(r, i)
    PROVE  Placed'
<1>1. Placed /\ Listed /\ IsConfig(config) /\ Called
  BY DEF CtlInv
<1>2. PICK e : e = req[r].edges[i]
  OBVIOUS
<1>3. e \in EdgeTasks
  BY <1>1, <1>2, EdgeAtTyped DEF EdgeCommit, EdgeAt
<1>4. UNCHANGED replicas
  BY DEF EdgeCommit
<1>5. CASE UNCHANGED clients
  BY <1>1, <1>4, <1>5 DEF Placed, ReplicaSet
<1>6. CASE IsRegistered(e.server) /\ ~UNCHANGED clients
  <2>2. e.server \in Names /\ e.rid \in AllReplicas /\ e.client \in AllClients
        /\ e.net \in NetIds \cup {0}
    BY <1>3 DEF EdgeTasks
  <2>3. PICK n, rid, c, info : n = e.server /\ rid = e.rid /\ c = e.client
                               /\ info = [net_id |-> e.net, active_chains |-> 0]
    OBVIOUS
  <2>4. /\ n \in Names /\ rid \in AllReplicas /\ c \in AllClients /\ info \in Entries
        /\ IsRegistered(n)
    BY <1>6, <2>2, <2>3 DEF Entries
  <2>5. clients' = AddChain(n, c, AddClientToReplica(n, rid, c, info, clients))
    BY <1>2, <1>6, <2>3 DEF EdgeCommit
  <2> QED
    BY <1>4, <2>4, <2>5, EntryWritten
<1> QED
  BY <1>2, <1>5, <1>6 DEF EdgeCommit

(* The edges on which a request that shares a network counts its chain.    *)
LEMMA EndedWalk ==
    ASSUME Listed, IsConfig(config), NEW name, NEW rid
    PROVE  IsSequence(IF DepChainEnds(name, rid) THEN CollectDepChainEdges(name, rid) ELSE <<>>)
<1>1. IsSequence(CollectDepChainEdges(name, rid))
  BY DepWalkTyped DEF BackendEdges
<1>2. IsSequence(<<>>)
  BY DEF IsSequence
<1> QED
  BY <1>1, <1>2

(* So does a request that shares a network.                                *)
LEMMA ProxyReusePlaced ==
    ASSUME CtlInv, NEW r \in Reqs, ProxyReuse(r)
    PROVE  Placed'
<1>1. Placed /\ Listed /\ IsConfig(config) /\ Called
  BY DEF CtlInv
<1>2. req[r] \in Requests /\ InOrder(r, req[r]) /\ req[r].pc = "reuse" /\ UNCHANGED replicas
  BY <1>1 DEF ProxyReuse, Called
<1>3. req[r].rid \in AllReplicas /\ CallOf[r][1] = "proxy" /\ req[r].net \in NetIds \cup {0}
  BY <1>2 DEF InOrder, Requests
<1>4. PICK n, rid, c, info : n = ServiceOf(r) /\ rid = req[r].rid /\ c = ClientOf(r)
                             /\ info = [net_id |-> req[r].net, active_chains |-> 0]
  OBVIOUS
<1>5. rid \in AllReplicas /\ c \in AllClients /\ info \in Entries
  BY <1>3, <1>4, ProxyClientKnown DEF Entries
<1>7. PICK edges : edges = IF DepChainEnds(n, rid) THEN CollectDepChainEdges(n, rid) ELSE <<>>
  OBVIOUS
<1>8. IsSequence(edges)
  BY <1>1, <1>7, EndedWalk
<1>9. CASE IsRegistered(n) /\ clients' = AddChains(edges, AddChain(n, c,
                                AddClientToReplica(n, rid, c, info, clients)))
  <2>1. n \in Names
    BY <1>1, <1>9, RegisteredHasReplicas
  <2>2. PICK D, m, new : D = DOMAIN clients /\ m = Len(replicas[n])
                         /\ new = AddClientToReplica(n, rid, c, info, clients)
    OBVIOUS
  <2>3. clients \in [D -> Entries] /\ m \in Nat /\ DOMAIN replicas[n] = 1 .. m
    BY <1>1, <1>9, <2>2, RegisteredHasReplicas DEF Placed
  <2>4. /\ new \in [DOMAIN new -> Entries]
        /\ DOMAIN new = D \cup (IF rid \in ReplicaSet(n) THEN {<<n, rid, c>>} ELSE {})
    BY <1>5, <2>2, <2>3 DEF AddClientToReplica
  <2>5. PICK E, add : E = DOMAIN new /\ add = AddChain(n, c, new)
    OBVIOUS
  <2>6. add \in [E -> Entries]
    <3>1. new \in [E -> Entries]
      BY <2>4, <2>5
    <3> QED
      BY <2>3, <2>5, <3>1, AddChainKeeps
  <2>7. clients' \in [E -> Entries]
    <3>1. AddChains(edges, add) \in [E -> Entries]
      BY <1>1, <1>8, <2>6, AddChainsKeeps
    <3> QED
      BY <1>9, <2>2, <2>5, <3>1
  <2>8. DOMAIN clients' = E /\ clients' \in [DOMAIN clients' -> Entries]
    BY <2>7
  <2> QED
    BY <1>1, <1>2, <1>5, <2>1, <2>2, <2>4, <2>5, <2>8, PlacedMore
<1>10. CASE ~IsRegistered(n) /\ clients' = AddChains(edges, clients)
  <2>1. PICK D : D = DOMAIN clients
    OBVIOUS
  <2>2. clients \in [D -> Entries]
    BY <1>1, <2>1 DEF Placed
  <2>3. AddChains(edges, clients) \in [D -> Entries]
    BY <1>1, <1>8, <2>2, AddChainsKeeps
  <2>4. DOMAIN clients' \subseteq DOMAIN clients /\ clients' \in [DOMAIN clients' -> Entries]
    BY <1>10, <2>1, <2>3
  <2> QED
    BY <1>1, <1>2, <2>4, PlacedSubset
<1> QED
  BY <1>4, <1>7, <1>9, <1>10 DEF ProxyReuse

(* Adding a replica removes none.                                          *)
LEMMA ReplicasGrow ==
    ASSUME CtlInv, AddReplica
    PROVE  \A n \in Names : ReplicaSet(n) \subseteq ReplicaSet(n)'
<1>1. Listed /\ Stacked
  BY DEF CtlInv
<1>2. PICK name, rid : name = work[1][2] /\ rid = work[1][3]
  OBVIOUS
<1>3. rid \in AllReplicas
  BY <1>1, <1>2, HeadCalled DEF AddReplica, Due, WellCalled
<1>4. SUFFICES ASSUME NEW n \in Names, n = name, replicas'[n] = Append(replicas[n], rid)
               PROVE  ReplicaSet(n) \subseteq ReplicaSet(n)'
  BY <1>1, <1>2 DEF AddReplica, Listed, ReplicaSet
<1>5. PICK more : more = Append(replicas[n], rid)
  OBVIOUS
<1>6. ToSet(more) = ToSet(replicas[n]) \cup {rid}
  BY <1>1, <1>3, <1>5, ToSetAppend DEF Listed
<1>7. ReplicaSet(n)' = ToSet(more)
  BY <1>4, <1>5 DEF ReplicaSet
<1> QED
  BY <1>6, <1>7 DEF ReplicaSet

(* Every entry is under a replica that is listed: removing a replica       *)
(* removes its entries with it, in whatever order teardowns run.           *)
LEMMA NextPlaced ==
    ASSUME CtlInv, [Next]_vars
    PROVE  Placed'
<1>1. Placed /\ Listed /\ IsConfig(config) /\ Called /\ Stacked
  BY DEF CtlInv
<1>2. CASE UNCHANGED <<replicas, clients>>
  BY <1>1, <1>2 DEF Placed, ReplicaSet
<1>3. CASE UNCHANGED replicas /\ \E keys : clients' = Without(clients, keys)
  BY <1>1, <1>3, PlacedWithout
<1>4. CASE \E r \in Reqs, i \in 1 .. MaxEdges : EdgeStep(r, i)
  <2>1. PICK r \in Reqs, i \in 1 .. MaxEdges : EdgeStep(r, i)
    BY <1>4
  <2>2. UNCHANGED replicas
    BY <2>1, RequestsLeaveServices
  <2>3. CASE EdgeDrop(r, i)
    BY <1>2, <1>3, <2>2, <2>3 DEF EdgeDrop, RemoveClient
  <2>4. CASE ~EdgeReserve(r, i) /\ ~EdgeCommit(r, i) /\ ~EdgeDrop(r, i)
    <3>1. UNCHANGED clients
      BY <2>1, <2>4, RequestsLeaveEntries DEF EdgeStep
    <3> QED
      BY <1>2, <2>2, <3>1
  <2> QED
    BY <2>1, <2>3, <2>4, EdgeReservePlaced, EdgeCommitPlaced
<1>5. CASE \E r \in Reqs : Start(r) \/ RequestStep(r) \/ CallerGone(r)
  BY <1>2, <1>5, ProxyReusePlaced, RequestsLeaveEntries, RequestsLeaveServices DEF RequestStep
<1>6. CASE LockHolderStep
  <2>1. CASE DecrementChain
    <3>1. PICK name, c : name = work[1][2] /\ c = work[1][3]
      OBVIOUS
    <3>2. PICK key : key = EntryKey(name, c, clients)
      OBVIOUS
    <3>3. CASE /\ IsRegistered(name) /\ Holds(name, c, clients)
               /\ clients[key].active_chains > 1
               /\ clients' = [clients EXCEPT ![key].active_chains = @ - 1]
      <4>1. key \in DOMAIN clients
        BY <1>1, <3>2, <3>3, RegisteredHolder
      <4>2. clients[key] \in Entries
        BY <1>1, <4>1 DEF Placed
      <4>3. PICK e : e = [clients[key] EXCEPT !.active_chains = @ - 1]
        OBVIOUS
      <4>4. e \in Entries
        BY <3>3, <4>2, <4>3 DEF Entries
      <4>5. clients' = [clients EXCEPT ![key] = e]
        BY <3>3, <4>3
      <4>6. DOMAIN clients' \subseteq DOMAIN clients /\ clients' \in [DOMAIN clients' -> Entries]
        BY <1>1, <4>4, <4>5 DEF Placed
      <4> QED
        BY <1>1, <2>1, <4>6, PlacedSubset DEF DecrementChain
    <3>4. UNCHANGED replicas
      BY <2>1 DEF DecrementChain
    <3> QED
      BY <1>2, <1>3, <2>1, <3>1, <3>2, <3>3, <3>4 DEF DecrementChain
  <2>2. CASE RemoveClientEntry
    BY <1>2, <1>3, <2>2 DEF RemoveClientEntry, RemoveClient
  <2>3. CASE Unregister
    <3>1. PICK name : name = work[1][2]
      OBVIOUS
    <3>2. clients' = Without(clients, KeysOf(name, clients)) /\ replicas' = [replicas EXCEPT ![name] = <<>>]
      BY <2>3, <3>1 DEF Unregister
    <3>3. /\ DOMAIN clients' = {k \in DOMAIN clients : k[1] # name}
          /\ clients' \in [DOMAIN clients' -> Entries]
      BY <1>1, <3>2 DEF Placed, Without, Restrict, KeysOf
    <3>4. IsFiniteSet(DOMAIN clients')
      BY <1>1, <3>3, FS_Subset DEF Placed
    <3>5. \A k \in DOMAIN clients' : k[1] \in Names /\ replicas'[k[1]] = replicas[k[1]]
      BY <1>1, <3>2, <3>3 DEF Placed, AllKeys, Listed
    <3> QED
      BY <1>1, <3>3, <3>4, <3>5 DEF Placed, ReplicaSet
  <2>4. CASE RemoveReplicas
    <3>1. PICK name : name = work[1][2]
      OBVIOUS
    <3>2. PICK out : out = {rid \in ReplicaSet(name) : OnFilter(work[1][3], rid)}
      OBVIOUS
    <3>3. /\ replicas' = [replicas EXCEPT ![name] = Among(replicas[name], ReplicaSet(name) \ out)]
          /\ clients' = Without(clients, {k \in KeysOf(name, clients) : k[2] \in out})
      BY <2>4, <3>1, <3>2 DEF RemoveReplicas
    <3>4. /\ DOMAIN clients' = {k \in DOMAIN clients : k[1] = name => k[2] \notin out}
          /\ clients' \in [DOMAIN clients' -> Entries]
      BY <1>1, <3>3 DEF Placed, Without, Restrict, KeysOf
    <3>5. IsFiniteSet(DOMAIN clients')
      BY <1>1, <3>4, FS_Subset DEF Placed
    <3>6. \A k \in DOMAIN clients' : k[2] \in ReplicaSet(k[1])'
      <4>1. SUFFICES ASSUME NEW k \in DOMAIN clients' PROVE k[2] \in ReplicaSet(k[1])'
        OBVIOUS
      <4>2. k[1] \in Names /\ k[2] \in ReplicaSet(k[1]) /\ (k[1] = name => k[2] \notin out)
        BY <1>1, <3>4 DEF Placed, AllKeys
      <4>3. CASE k[1] # name
        BY <1>1, <3>3, <4>2, <4>3 DEF Listed, ReplicaSet
      <4>4. CASE k[1] = name
        <5>1. PICK set, left : set = ReplicaSet(name) \ out /\ left = Among(replicas[name], set)
          OBVIOUS
        <5>2. ToSet(left) = ToSet(replicas[name]) \cap set
          BY <1>1, <4>2, <4>4, <5>1, AmongKeeps DEF Listed
        <5>3. k[2] \in ToSet(left)
          BY <4>2, <4>4, <5>1, <5>2 DEF ReplicaSet
        <5>4. replicas'[name] = left
          BY <1>1, <3>3, <4>2, <4>4, <5>1 DEF Listed
        <5> QED
          BY <4>4, <5>3, <5>4 DEF ReplicaSet
      <4> QED
        BY <4>3, <4>4
    <3> QED
      BY <1>1, <3>4, <3>5, <3>6 DEF Placed
  <2>5. CASE AddReplica
    <3>1. UNCHANGED clients
      BY <2>5 DEF AddReplica
    <3>2. \A k \in DOMAIN clients : k[1] \in Names
      BY <1>1 DEF Placed, AllKeys
    <3> QED
      BY <1>1, <2>5, <3>1, <3>2, ReplicasGrow DEF Placed
  <2>6. CASE ~DecrementChain /\ ~RemoveClientEntry /\ ~Unregister /\ ~RemoveReplicas /\ ~AddReplica
    <3>1. UNCHANGED <<replicas, clients>>
      BY <1>6, <2>6 DEF LockHolderStep, ChangesNext, serviceVars, For, TeardownDepChain,
         TeardownBackendChain, TeardownAllBackendChainsFor, TeardownChain,
         TeardownNetworks, TeardownInvalidatedService, RemoveService, ReplicasRemoved,
         TeardownPartialReplicas, ProxyDisconnected, UpdateFromFile
    <3> QED
      BY <1>2, <3>1
  <2> QED
    BY <2>1, <2>2, <2>3, <2>4, <2>5, <2>6
<1>7. CASE UNCHANGED vars
  BY <1>2, <1>7 DEF vars
<1> QED
  BY <1>2, <1>4, <1>5, <1>6, <1>7, EventsLeave DEF Next
------------------------------------------------------------------------------
(* Stacked: what may be on the stack, and in what order. *)

(* A place in a concatenation is in one of the two.                        *)
LEMMA ConcatAt ==
    ASSUME NEW a, NEW b, IsSequence(a), IsSequence(b), NEW i \in DOMAIN (a \o b)
    PROVE  \/ i \in DOMAIN a /\ (a \o b)[i] = a[i]
           \/ i - Len(a) \in DOMAIN b /\ i > Len(a) /\ (a \o b)[i] = b[i - Len(a)]
<1>1. Len(a) \in Nat /\ Len(b) \in Nat /\ DOMAIN a = 1 .. Len(a) /\ DOMAIN b = 1 .. Len(b)
  BY SequenceIsFunction
<1>2. IsSequence(a \o b) /\ Len(a \o b) = Len(a) + Len(b)
  BY Concat
<1>3. i \in 1 .. Len(a) + Len(b)
  BY <1>1, <1>2, SequenceIsFunction
<1>4. CASE i <= Len(a)
  BY <1>1, <1>3, <1>4, Concat
<1>5. CASE i > Len(a)
  <2>1. PICK j : j = i - Len(a)
    OBVIOUS
  <2>2. j \in DOMAIN b /\ i = Len(a) + j
    BY <1>1, <1>3, <1>5, <2>1
  <2>3. (a \o b)[i] = b[j]
    <3>1. PICK c : c = a \o b
      OBVIOUS
    <3>2. \A l \in DOMAIN b : c[Len(a) + l] = b[l]
      BY <3>1, Concat
    <3> QED
      BY <2>2, <3>1, <3>2
  <2> QED
    BY <1>5, <2>1, <2>2, <2>3
<1> QED
  BY <1>1, <1>3, <1>4, <1>5

(* A list of one call.                                                     *)
LEMMA One ==
    ASSUME NEW x
    PROVE  IsSequence(<<x>>) /\ Len(<<x>>) = 1 /\ DOMAIN <<x>> = 1 .. 1 /\ <<x>>[1] = x
<1>1. <<x>> \in Seq({x})
  OBVIOUS
<1>2. IsSequence(<<x>>)
  BY <1>1, TypedIsSequence
<1> QED
  BY <1>2

(* The rest of the stack, once the first call is taken off. *)
LEMMA TailStacked ==
    ASSUME Stacked, work # <<>>
    PROVE  /\ IsSequence(Tail(work))
           /\ \A i \in DOMAIN Tail(work) : WellCalled(Tail(work)[i])
           /\ Ordered(Tail(work))
           /\ \A i \in DOMAIN Tail(work) :
                 /\ Tail(work)[i][1] = "teardown_networks" => Inner(work[1])
                 /\ work[1][1] = "add_replica" => Tail(work)[i][1] = "add_replica"
                 /\ Tail(work)[i][1] = "remove_service" =>
                       \/ Tail(work)[i][2] \in Names => replicas[Tail(work)[i][2]] = <<>>
                       \/ Removal(work[1], Tail(work)[i][2])
                       \/ \E p \in DOMAIN Tail(work) : p < i /\ Removal(Tail(work)[p], Tail(work)[i][2])
<1>1. IsSequence(work) /\ 1 \in DOMAIN work
  BY HeadCalled DEF Stacked
<1>2. PICK rest : rest = Tail(work)
  OBVIOUS
<1>3. /\ IsSequence(rest) /\ Len(rest) = Len(work) - 1
      /\ \A i \in DOMAIN rest : i + 1 \in DOMAIN work /\ rest[i] = work[i + 1]
  BY <1>1, <1>2, TailOf
<1>4. /\ DOMAIN rest = 1 .. Len(rest) /\ DOMAIN work = 1 .. Len(work)
      /\ Len(rest) \in Nat /\ Len(work) \in Nat
  BY <1>1, <1>3, SequenceIsFunction
<1>5. \A i \in DOMAIN rest : WellCalled(rest[i])
  BY <1>3 DEF Stacked
<1>6. Ordered(rest)
  <2>1. SUFFICES ASSUME NEW p \in DOMAIN rest, NEW q \in DOMAIN rest, p < q
                 PROVE  /\ rest[q][1] = "teardown_networks" => Inner(rest[p])
                        /\ rest[p][1] = "add_replica" => rest[q][1] = "add_replica"
    BY DEF Ordered
  <2>2. PICK s, t : s = p + 1 /\ t = q + 1
    OBVIOUS
  <2>3. s \in DOMAIN work /\ t \in DOMAIN work /\ s < t /\ rest[p] = work[s] /\ rest[q] = work[t]
    BY <1>3, <1>4, <2>1, <2>2
  <2> QED
    BY <2>3 DEF Stacked, Ordered
<1>7. ASSUME NEW i \in DOMAIN rest
      PROVE  /\ rest[i][1] = "teardown_networks" => Inner(work[1])
             /\ work[1][1] = "add_replica" => rest[i][1] = "add_replica"
             /\ rest[i][1] = "remove_service" =>
                       \/ rest[i][2] \in Names => replicas[rest[i][2]] = <<>>
                       \/ Removal(work[1], rest[i][2])
                       \/ \E p \in DOMAIN rest : p < i /\ Removal(rest[p], rest[i][2])
  <2>1. PICK t : t = i + 1
    OBVIOUS
  <2>2. t \in DOMAIN work /\ rest[i] = work[t] /\ 1 < t
    BY <1>3, <1>4, <2>1
  <2>3. /\ rest[i][1] = "teardown_networks" => Inner(work[1])
        /\ work[1][1] = "add_replica" => rest[i][1] = "add_replica"
    BY <1>1, <2>2 DEF Stacked, Ordered
  <2>4. ASSUME rest[i][1] = "remove_service", ~(rest[i][2] \in Names => replicas[rest[i][2]] = <<>>),
               ~Removal(work[1], rest[i][2])
        PROVE  \E p \in DOMAIN rest : p < i /\ Removal(rest[p], rest[i][2])
    <3>1. PICK s \in DOMAIN work : s < t /\ Removal(work[s], work[t][2])
      BY <2>2, <2>4 DEF Stacked
    <3>2. s # 1
      BY <2>2, <2>4, <3>1
    <3>3. PICK p : p = s - 1
      OBVIOUS
    <3>4. p \in DOMAIN rest /\ p < i /\ p + 1 = s
      BY <1>3, <1>4, <2>1, <2>2, <3>1, <3>2, <3>3
    <3>5. rest[p] = work[s]
      BY <1>3, <3>4
    <3> QED
      BY <2>2, <3>1, <3>4, <3>5
  <2> QED
    BY <2>3, <2>4
<1> QED
  BY <1>2, <1>3, <1>5, <1>6, <1>7

(* What the stack needs of the calls that are put on top of it. *)
LEMMA StackedIs ==
    ASSUME NEW w, IsSequence(w), \A i \in DOMAIN w : WellCalled(w[i]), Ordered(w),
           \A q \in DOMAIN w : w[q][1] = "remove_service" =>
              \/ w[q][2] \in Names => replicas'[w[q][2]] = <<>>
              \/ \E p \in DOMAIN w : p < q /\ Removal(w[p], w[q][2]),
           work' = w
    PROVE  Stacked'
  BY DEF Stacked, WellCalled, Ordered, Inner, Body, Removal, IsSequence, InvalidatedFirst, InLoop

(* An empty stack gets a handler's calls.                                  *)
LEMMA StackedFresh ==
    ASSUME NEW new, IsSequence(new), \A i \in DOMAIN new : WellCalled(new[i]),
           Ordered(new), InvalidatedFirst(new), work' = new
    PROVE  Stacked'
  BY StackedIs DEF InvalidatedFirst

(* The call that is due is done, and calls nothing.                        *)
LEMMA StackedPopped ==
    ASSUME Stacked, work # <<>>, work' = Tail(work), Listed,
           \A n \in Names : replicas[n] = <<>> => replicas'[n] = <<>> \/ work[1][1] = "add_replica",
           \A n \in Names : Removal(work[1], n) => replicas'[n] = <<>>
    PROVE  Stacked'
<1>1. PICK rest : rest = Tail(work)
  OBVIOUS
<1>2. /\ IsSequence(rest)
      /\ \A i \in DOMAIN rest : WellCalled(rest[i])
      /\ Ordered(rest)
      /\ \A i \in DOMAIN rest :
                 /\ work[1][1] = "add_replica" => rest[i][1] = "add_replica"
                 /\ rest[i][1] = "remove_service" =>
                       \/ rest[i][2] \in Names => replicas[rest[i][2]] = <<>>
                       \/ Removal(work[1], rest[i][2])
                       \/ \E p \in DOMAIN rest : p < i /\ Removal(rest[p], rest[i][2])
  BY <1>1, TailStacked
<1>3. \A i \in DOMAIN rest : rest[i][1] = "remove_service" =>
                       \/ rest[i][2] \in Names => replicas'[rest[i][2]] = <<>>
                       \/ \E p \in DOMAIN rest : p < i /\ Removal(rest[p], rest[i][2])
  BY <1>2
<1> QED
  BY <1>1, <1>2, <1>3, StackedIs

(* The call that is due is replaced by the calls in its body.              *)
LEMMA StackedPushed ==
    ASSUME Stacked, work # <<>>, UNCHANGED replicas,
           NEW new, IsSequence(new),
           \A i \in DOMAIN new : WellCalled(new[i]) /\ new[i][1] # "add_replica",
           Ordered(new), InvalidatedFirst(new),
           Inner(work[1]) => \A i \in DOMAIN new : Inner(new[i]),
           \A n : Removal(work[1], n) => \E p \in DOMAIN new : Removal(new[p], n),
           work' = new \o Tail(work)
    PROVE  Stacked'
<1>1. PICK rest : rest = Tail(work)
  OBVIOUS
<1>2. /\ IsSequence(rest)
      /\ \A i \in DOMAIN rest : WellCalled(rest[i])
      /\ Ordered(rest)
      /\ \A i \in DOMAIN rest :
                 /\ rest[i][1] = "teardown_networks" => Inner(work[1])
                 /\ rest[i][1] = "remove_service" =>
                       \/ rest[i][2] \in Names => replicas[rest[i][2]] = <<>>
                       \/ Removal(work[1], rest[i][2])
                       \/ \E p \in DOMAIN rest : p < i /\ Removal(rest[p], rest[i][2])
  BY <1>1, TailStacked
<1>3. PICK m, k : m = Len(new) /\ k = Len(rest)
  OBVIOUS
<1>4. m \in Nat /\ k \in Nat /\ DOMAIN new = 1 .. m /\ DOMAIN rest = 1 .. k
  BY <1>2, <1>3, SequenceIsFunction
<1>5. PICK w : w = new \o rest
  OBVIOUS
<1>6. /\ IsSequence(w) /\ Len(w) = m + k
      /\ \A i \in 1 .. m : w[i] = new[i]
      /\ \A i \in 1 .. k : w[m + i] = rest[i]
  BY <1>2, <1>3, <1>4, <1>5, Concat
<1>7. DOMAIN w = 1 .. m + k
  BY <1>6, SequenceIsFunction
<1>8. \A i \in DOMAIN w : \/ i \in 1 .. m /\ w[i] = new[i]
                          \/ i - m \in 1 .. k /\ i > m /\ w[i] = rest[i - m]
  <2>1. SUFFICES ASSUME NEW i \in DOMAIN w, ~(i \in 1 .. m)
                 PROVE  i - m \in 1 .. k /\ i > m /\ w[i] = rest[i - m]
    BY <1>6
  <2>2. PICK j : j = i - m
    OBVIOUS
  <2>3. j \in 1 .. k /\ i = m + j /\ i > m
    BY <1>4, <1>7, <2>1, <2>2
  <2> QED
    BY <1>6, <2>2, <2>3
<1>9. \A i \in DOMAIN w : WellCalled(w[i])
  BY <1>2, <1>4, <1>8
<1>10. Ordered(w)
  <2>1. SUFFICES ASSUME NEW p \in DOMAIN w, NEW q \in DOMAIN w, p < q
                 PROVE  /\ w[q][1] = "teardown_networks" => Inner(w[p])
                        /\ w[p][1] = "add_replica" => w[q][1] = "add_replica"
    BY DEF Ordered
  <2>2. p \in Nat /\ q \in Nat
    BY <1>4, <1>7
  <2>3. CASE p \in 1 .. m /\ q \in 1 .. m
    BY <1>4, <1>6, <2>1, <2>3 DEF Ordered
  <2>4. CASE p \in 1 .. m /\ ~(q \in 1 .. m)
    <3>1. PICK j : j = q - m
      OBVIOUS
    <3>2. j \in 1 .. k /\ w[q] = rest[j] /\ w[p] = new[p]
      BY <1>4, <1>8, <2>2, <2>4, <3>1
    <3>3. w[q][1] = "teardown_networks" => Inner(new[p])
      BY <1>2, <1>4, <2>4, <3>2
    <3> QED
      BY <1>4, <2>4, <3>2, <3>3
  <2>5. CASE ~(p \in 1 .. m)
    <3>1. PICK i, j : i = p - m /\ j = q - m
      OBVIOUS
    <3>2. ~(q \in 1 .. m)
      BY <1>4, <1>7, <2>1, <2>5
    <3>3. i \in DOMAIN rest /\ j \in DOMAIN rest /\ w[p] = rest[i] /\ w[q] = rest[j] /\ i < j
      BY <1>4, <1>8, <2>1, <2>2, <2>5, <3>1, <3>2
    <3> QED
      BY <1>2, <3>3 DEF Ordered
  <2> QED
    BY <2>3, <2>4, <2>5
<1>11. ASSUME NEW q \in DOMAIN w, w[q][1] = "remove_service",
              ~(w[q][2] \in Names => replicas[w[q][2]] = <<>>)
       PROVE  \E p \in DOMAIN w : p < q /\ Removal(w[p], w[q][2])
  <2>1. CASE q \in 1 .. m
    <3>1. PICK p \in DOMAIN new : p < q /\ Removal(new[p], new[q][2])
      BY <1>4, <1>6, <1>11, <2>1 DEF InvalidatedFirst
    <3>2. p \in DOMAIN w /\ w[p] = new[p] /\ w[q] = new[q]
      BY <1>4, <1>6, <1>7, <2>1
    <3> QED
      BY <3>1, <3>2
  <2>2. CASE ~(q \in 1 .. m)
    <3>1. PICK j : j = q - m
      OBVIOUS
    <3>2. j \in 1 .. k /\ w[q] = rest[j] /\ q = m + j /\ q > m
      BY <1>4, <1>7, <1>8, <2>2, <3>1
    <3>3. CASE Removal(work[1], rest[j][2])
      <4>1. PICK p \in DOMAIN new : Removal(new[p], rest[j][2])
        BY <3>3
      <4>2. p \in DOMAIN w /\ w[p] = new[p] /\ p < q
        BY <1>4, <1>6, <1>7, <3>2
      <4> QED
        BY <3>2, <4>1, <4>2
    <3>4. CASE \E p \in DOMAIN rest : p < j /\ Removal(rest[p], rest[j][2])
      <4>1. PICK p \in DOMAIN rest : p < j /\ Removal(rest[p], rest[j][2])
        BY <3>4
      <4>2. PICK s : s = m + p
        OBVIOUS
      <4>3. s \in DOMAIN w /\ w[s] = rest[p] /\ s < q
        BY <1>4, <1>6, <1>7, <3>2, <4>1, <4>2
      <4> QED
        BY <3>2, <4>1, <4>3
    <3>5. j \in DOMAIN rest
      BY <1>4, <3>2
    <3> QED
      BY <1>2, <1>11, <3>2, <3>3, <3>4, <3>5
  <2> QED
    BY <2>1, <2>2
<1>12. \A q \in DOMAIN w : w[q][1] = "remove_service" =>
          \/ w[q][2] \in Names => replicas'[w[q][2]] = <<>>
          \/ \E p \in DOMAIN w : p < q /\ Removal(w[p], w[q][2])
  BY <1>11
<1>13. work' = w
  BY <1>1, <1>5
<1> QED
  BY <1>6, <1>9, <1>10, <1>12, <1>13, StackedIs

(* Calls whose place on the stack does not matter. *)
Plain(calls) ==
    /\ IsSequence(calls)
    /\ \A i \in DOMAIN calls :
          /\ WellCalled(calls[i])
          /\ calls[i][1] \notin {"teardown_networks", "add_replica", "remove_service"}

(* No calls.                                                               *)
LEMMA PlainEmpty ==
    Plain(<<>>)
<1>1. <<>> \in Seq({})
  OBVIOUS
<1>2. IsSequence(<<>>)
  BY <1>1, TypedIsSequence
<1> QED
  BY <1>2 DEF Plain

(* One call.                                                               *)
LEMMA PlainOne ==
    ASSUME NEW x, WellCalled(x), x[1] \notin {"teardown_networks", "add_replica", "remove_service"}
    PROVE  Plain(<<x>>)
  BY One DEF Plain

(* Calls followed by calls.                                                *)
LEMMA PlainConcat ==
    ASSUME NEW a, NEW b, Plain(a), Plain(b)
    PROVE  Plain(a \o b)
<1>1. PICK c : c = a \o b
  OBVIOUS
<1>2. IsSequence(c)
  BY <1>1, Concat DEF Plain
<1>3. ASSUME NEW i \in DOMAIN c
      PROVE  WellCalled(c[i]) /\ c[i][1] \notin {"teardown_networks", "add_replica", "remove_service"}
  BY <1>1, ConcatAt DEF Plain
<1> QED
  BY <1>1, <1>2, <1>3 DEF Plain

(* There is nothing to order among plain calls.                            *)
LEMMA PlainOrdered ==
    ASSUME NEW calls, Plain(calls)
    PROVE  Ordered(calls) /\ InvalidatedFirst(calls)
  BY DEF Plain, Ordered, InvalidatedFirst

(* Plain calls may replace the one that is due.                            *)
LEMMA PlainPushed ==
    ASSUME Stacked, work # <<>>, UNCHANGED replicas, NEW new, Plain(new),
           Inner(work[1]) => \A i \in DOMAIN new : Inner(new[i]),
           \A n : Removal(work[1], n) => \E p \in DOMAIN new : Removal(new[p], n),
           work' = new \o Tail(work)
    PROVE  Stacked'
<1>1. Ordered(new) /\ InvalidatedFirst(new)
  BY PlainOrdered
<1> QED
  BY <1>1, StackedPushed DEF Plain

(* One loop, whose bodies are well formed. *)
LEMMA ForPlain ==
    ASSUME NEW bodies, \A x \in DOMAIN bodies : Body(bodies[x])
    PROVE  Plain(ForEach(bodies))
<1>1. PICK x : x = <<"for", bodies>>
  OBVIOUS
<1>2. WellCalled(x) /\ x[1] = "for"
  BY <1>1 DEF WellCalled
<1> QED
  BY <1>1, <1>2, PlainOne DEF ForEach

(* The decrements of a walk are plain, and leave proxy clients alone.      *)
LEMMA DecrementsPlain ==
    ASSUME NEW edges, BackendEdges(edges)
    PROVE  /\ Plain(Decrements(edges))
           /\ \A i \in DOMAIN Decrements(edges) : Inner(Decrements(edges)[i])
<1>1. PICK n : n = Len(edges)
  OBVIOUS
<1>2. n \in Nat /\ DOMAIN edges = 1 .. n
  BY <1>1, SequenceIsFunction DEF BackendEdges
<1>3. PICK d : d = Decrements(edges)
  OBVIOUS
<1>4. d = [i \in 1 .. n |-> <<"decrement_chain", edges[i][2], edges[i][1]>>]
  BY <1>2, <1>3 DEF Decrements
<1>5. d = [i \in 1 .. n |-> d[i]]
  BY <1>4
<1>6. IsSequence(d) /\ DOMAIN d = 1 .. n
  BY <1>2, <1>5, EachIsSequence
<1>7. \A i \in 1 .. n : WellCalled(d[i]) /\ Inner(d[i]) /\ d[i][1] = "decrement_chain"
  BY <1>2, <1>4 DEF WellCalled, Inner, BackendEdges
<1> QED
  BY <1>3, <1>6, <1>7 DEF Plain

(* The body of a loop with one call, with two, or without any removal. *)
LEMMA BodyTyped ==
    ASSUME NEW calls, IsSequence(calls),
           \A i \in DOMAIN calls : InLoop(calls[i]) /\ calls[i][1] # "remove_service"
    PROVE  Body(calls)
  BY DEF Body, InvalidatedFirst

(* A loop whose body is one call.                                          *)
LEMMA BodyOfOne ==
    ASSUME NEW x, InLoop(x), x[1] # "remove_service"
    PROVE  Body(<<x>>)
  BY One, BodyTyped

(* A list of two calls.                                                    *)
LEMMA Two ==
    ASSUME NEW x, NEW y
    PROVE  /\ IsSequence(<<x, y>>) /\ Len(<<x, y>>) = 2 /\ DOMAIN <<x, y>> = {1, 2}
           /\ <<x, y>>[1] = x /\ <<x, y>>[2] = y
<1>1. <<x, y>> \in Seq({x, y})
  OBVIOUS
<1>2. IsSequence(<<x, y>>)
  BY <1>1, TypedIsSequence
<1> QED
  BY <1>2

(* A loop whose body is two calls.                                         *)
LEMMA BodyOfTwo ==
    ASSUME NEW x, NEW y, InLoop(x), x[1] # "remove_service", InLoop(y), y[1] # "remove_service"
    PROVE  Body(<<x, y>>)
<1>1. PICK s : s = <<x, y>>
  OBVIOUS
<1>2. IsSequence(s) /\ DOMAIN s = {1, 2} /\ s[1] = x /\ s[2] = y
  BY <1>1, Two
<1> QED
  BY <1>1, <1>2, BodyTyped

(* A body may be followed by another.                                      *)
LEMMA BodyConcat ==
    ASSUME NEW a, NEW b, Body(a), Body(b),
           \A i \in DOMAIN a : a[i][1] # "remove_service",
           \A i \in DOMAIN b : b[i][1] # "remove_service"
    PROVE  Body(a \o b) /\ \A i \in DOMAIN (a \o b) : (a \o b)[i][1] # "remove_service"
<1>1. PICK c : c = a \o b
  OBVIOUS
<1>2. IsSequence(c)
  BY <1>1, Concat DEF Body
<1>3. ASSUME NEW i \in DOMAIN c
      PROVE  InLoop(c[i]) /\ c[i][1] # "remove_service"
  BY <1>1, ConcatAt DEF Body
<1>4. Body(c)
  BY <1>2, <1>3, BodyTyped
<1> QED
  BY <1>1, <1>3, <1>4

(* One call for each element of a sequence. *)
LEMMA EachBody ==
    ASSUME NEW s, IsSequence(s), NEW calls, calls = [i \in DOMAIN s |-> calls[i]],
           \A i \in DOMAIN s : InLoop(calls[i]) /\ calls[i][1] # "remove_service"
    PROVE  Body(calls)
<1>1. PICK n : n = Len(s)
  OBVIOUS
<1>2. n \in Nat /\ DOMAIN s = 1 .. n
  BY <1>1, SequenceIsFunction
<1>3. calls = [i \in 1 .. n |-> calls[i]]
  BY <1>2
<1>4. IsSequence(calls) /\ DOMAIN calls = 1 .. n
  BY <1>2, <1>3, EachIsSequence
<1> QED
  BY <1>2, <1>4, BodyTyped

(* The same outside a loop.                                                *)
LEMMA EachPlain ==
    ASSUME NEW s, IsSequence(s), NEW calls, calls = [i \in DOMAIN s |-> calls[i]],
           \A i \in DOMAIN s : WellCalled(calls[i])
              /\ calls[i][1] \notin {"teardown_networks", "add_replica", "remove_service"}
    PROVE  Plain(calls)
<1>1. PICK n : n = Len(s)
  OBVIOUS
<1>2. n \in Nat /\ DOMAIN s = 1 .. n
  BY <1>1, SequenceIsFunction
<1>3. calls = [i \in 1 .. n |-> calls[i]]
  BY <1>2
<1>4. IsSequence(calls) /\ DOMAIN calls = 1 .. n
  BY <1>2, <1>3, EachIsSequence
<1> QED
  BY <1>2, <1>4 DEF Plain
------------------------------------------------------------------------------
(* Stacked: the functions of changes.rs, and the handlers that call them. *)

(* A call ends.                                                            *)
LEMMA DuePops ==
    ASSUME CtlInv, work # <<>>, work' = Tail(work), UNCHANGED replicas,
           work[1][1] \notin {"unregister", "teardown_invalidated_service"}
    PROVE  Stacked'
<1>1. Listed /\ Stacked
  BY DEF CtlInv
<1>2. \A n : ~Removal(work[1], n)
  BY DEF Removal
<1> QED
  BY <1>1, <1>2, StackedPopped

(* The functions that call no other.                                       *)
LEMMA PopStacked ==
    ASSUME CtlInv,
           DecrementChain \/ RemoveClientEntry \/ Unregister \/ RemoveService \/ RemoveReplicas
           \/ UpdateFromFile \/ AddReplica
    PROVE  Stacked'
<1>1. Listed /\ Stacked
  BY DEF CtlInv
<1>2. CASE DecrementChain \/ RemoveClientEntry \/ RemoveService \/ UpdateFromFile
  BY <1>2, DuePops DEF DecrementChain, RemoveClientEntry, RemoveService, UpdateFromFile, Due, Rest
<1>3. CASE Unregister
  <2>1. PICK name : name = work[1][2]
    OBVIOUS
  <2>2. /\ replicas' = [replicas EXCEPT ![name] = <<>>]
        /\ work # <<>> /\ work' = Tail(work) /\ work[1][1] = "unregister"
    BY <1>3, <2>1 DEF Unregister, Due, Rest
  <2>3. \A n \in Names : replicas'[n] = IF n = name THEN <<>> ELSE replicas[n]
    BY <1>1, <2>2 DEF Listed
  <2>4. \A n : Removal(work[1], n) => n = name
    BY <2>1, <2>2 DEF Removal
  <2>5. /\ \A n \in Names : replicas[n] = <<>> => replicas'[n] = <<>> \/ work[1][1] = "add_replica"
        /\ \A n \in Names : Removal(work[1], n) => replicas'[n] = <<>>
    BY <2>3, <2>4
  <2> QED
    BY <1>1, <2>2, <2>5, StackedPopped
<1>4. CASE RemoveReplicas
  <2>1. PICK name, set : /\ name = work[1][2]
                         /\ set = ReplicaSet(name) \ {rid \in ReplicaSet(name) : OnFilter(work[1][3], rid)}
    OBVIOUS
  <2>2. /\ replicas' = [replicas EXCEPT ![name] = Among(replicas[name], set)]
        /\ work # <<>> /\ work' = Tail(work) /\ work[1][1] = "remove_replicas"
    BY <1>4, <2>1 DEF RemoveReplicas, Due, Rest
  <2>3. ASSUME NEW n \in Names, replicas[n] = <<>>
        PROVE  replicas'[n] = <<>>
    <3>1. PICK left : left = Among(replicas[n], set)
      OBVIOUS
    <3>2. left \in Seq(AllReplicas) /\ ToSet(left) = ToSet(replicas[n]) \cap set
      BY <1>1, <3>1, AmongKeeps DEF Listed
    <3>3. ToSet(left) = {}
      BY <2>3, <3>2 DEF ToSet
    <3>4. left = <<>>
      BY <3>2, <3>3 DEF ToSet
    <3> QED
      BY <1>1, <2>2, <2>3, <3>1, <3>4 DEF Listed
  <2>4. \A n : ~Removal(work[1], n)
    BY <2>2 DEF Removal
  <2> QED
    BY <1>1, <2>2, <2>3, <2>4, StackedPopped
<1>5. CASE AddReplica
  <2>1. work # <<>> /\ work' = Tail(work) /\ work[1][1] = "add_replica"
    BY <1>5 DEF AddReplica, Due, Rest
  <2>2. \A n : ~Removal(work[1], n)
    BY <2>1 DEF Removal
  <2> QED
    BY <1>1, <2>1, <2>2, StackedPopped
<1> QED
  BY <1>2, <1>3, <1>4, <1>5

(* One call replaced by calls whose place does not matter. *)
LEMMA DuePushes ==
    ASSUME CtlInv, work # <<>>, UNCHANGED replicas, NEW new, Plain(new), work' = new \o Tail(work),
           work[1][1] \notin {"unregister", "teardown_invalidated_service", "teardown_dep_chain",
                              "remove_client", "decrement_chain"}
    PROVE  Stacked'
<1>1. Stacked /\ ~Inner(work[1]) /\ \A n : ~Removal(work[1], n)
  BY DEF CtlInv, Inner, Removal
<1> QED
  BY <1>1, PlainPushed

(* One round of a loop over a Rust map, in any order.                      *)
LEMMA ForStacked ==
    ASSUME CtlInv, For
    PROVE  Stacked'
<1>1. Stacked /\ work # <<>> /\ work[1][1] = "for" /\ UNCHANGED replicas
  BY DEF CtlInv, For, Due, Rest, serviceVars
<1>2. PICK bodies : bodies = work[1][2]
  OBVIOUS
<1>3. \A x \in DOMAIN bodies : Body(bodies[x])
  BY <1>1, <1>2, HeadCalled DEF WellCalled
<1>4. CASE work' = Tail(work)
  BY <1>1, <1>4, DuePops
<1>5. ASSUME NEW x \in DOMAIN bodies,
             work' = bodies[x] \o <<<<"for", Without(bodies, {x})>>>> \o Tail(work)
      PROVE  Stacked'
  <2>1. PICK b, f : b = bodies[x] /\ f = <<"for", Without(bodies, {x})>>
    OBVIOUS
  <2>2. Body(b)
    BY <1>3, <2>1
  <2>3. WellCalled(f) /\ f[1] = "for"
    BY <1>3, <2>1 DEF WellCalled, Without, Restrict
  <2>4. PICK new : new = b \o <<f>>
    OBVIOUS
  <2>5. IsSequence(b) /\ IsSequence(<<f>>) /\ DOMAIN <<f>> = {1} /\ <<f>>[1] = f
    BY <2>2, One DEF Body
  <2>6. IsSequence(new) /\ (\A i \in DOMAIN b : i \in DOMAIN new /\ new[i] = b[i])
    <3>1. IsSequence(new) /\ Len(new) = Len(b) + Len(<<f>>) /\ \A i \in DOMAIN b : new[i] = b[i]
      BY <2>4, <2>5, Concat
    <3>2. DOMAIN new = 1 .. Len(new) /\ DOMAIN b = 1 .. Len(b) /\ Len(b) \in Nat /\ Len(<<f>>) = 1
      BY <2>5, <3>1, SequenceIsFunction
    <3> QED
      BY <3>1, <3>2
  <2>7. \A i \in DOMAIN new : (i \in DOMAIN b /\ new[i] = b[i]) \/ new[i] = f
    <3>1. SUFFICES ASSUME NEW i \in DOMAIN new PROVE (i \in DOMAIN b /\ new[i] = b[i]) \/ new[i] = f
      OBVIOUS
    <3>2. \/ i \in DOMAIN b /\ new[i] = b[i]
          \/ i - Len(b) \in DOMAIN <<f>> /\ new[i] = <<f>>[i - Len(b)]
      BY <2>4, <2>5, ConcatAt
    <3> QED
      BY <2>5, <3>2
  <2>8. \A i \in DOMAIN new : WellCalled(new[i]) /\ new[i][1] \notin {"add_replica", "teardown_networks"}
    <3>1. \A i \in DOMAIN b : WellCalled(b[i]) /\ b[i][1] \notin {"add_replica", "teardown_networks"}
      BY <2>2 DEF Body, InLoop, WellCalled
    <3> QED
      BY <2>3, <2>7, <3>1
  <2>9. Ordered(new)
    BY <2>8 DEF Ordered
  <2>10. InvalidatedFirst(new)
    <3>1. SUFFICES ASSUME NEW q \in DOMAIN new, new[q][1] = "remove_service"
                   PROVE  \E p \in DOMAIN new : p < q /\ Removal(new[p], new[q][2])
      BY DEF InvalidatedFirst
    <3>2. q \in DOMAIN b /\ new[q] = b[q]
      BY <2>3, <2>7, <3>1
    <3>3. PICK p \in DOMAIN b : p < q /\ Removal(b[p], b[q][2])
      BY <2>2, <3>1, <3>2 DEF Body, InvalidatedFirst
    <3> QED
      BY <2>6, <3>2, <3>3
  <2>11. ~Inner(work[1]) /\ \A n : ~Removal(work[1], n)
    BY <1>1 DEF Inner, Removal
  <2>12. work' = new \o Tail(work)
    BY <1>5, <2>1, <2>4
  <2> QED
    BY <1>1, <2>6, <2>8, <2>9, <2>10, <2>11, <2>12, StackedPushed
<1> QED
  BY <1>2, <1>4, <1>5 DEF For, Rest

(* The teardowns of chains push decrements only.                           *)
LEMMA WalksStacked ==
    ASSUME CtlInv, TeardownDepChain \/ TeardownBackendChain \/ TeardownAllBackendChainsFor
    PROVE  Stacked'
<1>1. Stacked /\ Listed /\ IsConfig(config) /\ work # <<>> /\ UNCHANGED replicas
  BY DEF CtlInv, TeardownDepChain, TeardownBackendChain, TeardownAllBackendChainsFor, Due, Rest, serviceVars
<1>2. \A n : ~Removal(work[1], n)
  BY DEF Removal, TeardownDepChain, TeardownBackendChain, TeardownAllBackendChainsFor, Due, Rest
<1>3. ASSUME NEW edges, BackendEdges(edges), work' = Decrements(edges) \o Tail(work)
      PROVE  Stacked'
  <2>1. PICK new : new = Decrements(edges)
    OBVIOUS
  <2>2. Plain(new) /\ \A i \in DOMAIN new : Inner(new[i])
    BY <1>3, <2>1, DecrementsPlain
  <2> QED
    BY <1>1, <1>2, <1>3, <2>1, <2>2, PlainPushed
<1>4. CASE TeardownDepChain
  <2>1. CASE work' = work
    BY <1>1, <2>1, StackedIs DEF Stacked
  <2>2. CASE work' = Decrements(CollectDepChainEdges(work[1][2], work[1][3])) \o Tail(work)
    BY <1>1, <1>3, <2>2, DepWalkTyped
  <2> QED
    BY <1>4, <2>1, <2>2 DEF TeardownDepChain, Rest
<1>5. CASE TeardownBackendChain
  BY <1>1, <1>3, <1>5, BackendWalkTyped DEF TeardownBackendChain, Rest
<1>6. CASE TeardownAllBackendChainsFor
  <2>1. PICK name, rids : /\ name = work[1][2]
                          /\ rids = IF IsRegistered(name) THEN replicas[name] ELSE <<>>
    OBVIOUS
  <2>2. IsSequence(rids)
    <3>1. CASE IsRegistered(name)
      BY <1>1, <2>1, <3>1, RegisteredHasReplicas, TypedIsSequence DEF Listed
    <3>2. CASE ~IsRegistered(name)
      BY <2>1, <3>2, PlainEmpty DEF Plain
    <3> QED
      BY <3>1, <3>2
  <2>3. PICK new : new = [i \in DOMAIN rids |-> <<"teardown_backend_chain", name, rids[i], work[1][3]>>]
    OBVIOUS
  <2>4. new = [i \in DOMAIN rids |-> new[i]]
    BY <2>3
  <2>5. \A i \in DOMAIN rids : WellCalled(new[i]) /\ new[i][1] = "teardown_backend_chain"
    BY <2>3 DEF WellCalled
  <2>6. Plain(new)
    BY <2>2, <2>4, <2>5, EachPlain
  <2>7. work' = new \o Tail(work) /\ ~Inner(work[1])
    BY <1>6, <2>1, <2>3 DEF TeardownAllBackendChainsFor, Inner, Due, Rest
  <2> QED
    BY <1>1, <1>2, <2>6, <2>7, PlainPushed
<1> QED
  BY <1>4, <1>5, <1>6

(* teardown_networks, one network at a time.                               *)
LEMMA TeardownNetworksStacked ==
    ASSUME CtlInv, TeardownNetworks
    PROVE  Stacked'
<1>1. work # <<>> /\ work[1][1] = "teardown_networks" /\ UNCHANGED replicas
  BY DEF TeardownNetworks, Due, Rest, serviceVars
<1>2. CASE work' = Tail(work)
  BY <1>1, <1>2, DuePops
<1>3. ASSUME NEW ids, work' = <<<<"teardown_networks", work[1][2], ids>>>> \o Tail(work)
      PROVE  Stacked'
  <2>1. PICK x : x = <<"teardown_networks", work[1][2], ids>>
    OBVIOUS
  <2>2. PICK new : new = <<x>>
    OBVIOUS
  <2>3. IsSequence(new) /\ DOMAIN new = {1} /\ new[1] = x
    BY <2>2, One
  <2>4. \A i \in DOMAIN new : WellCalled(new[i]) /\ new[i][1] # "add_replica"
    BY <2>1, <2>3 DEF WellCalled
  <2>5. Ordered(new) /\ InvalidatedFirst(new)
    BY <2>1, <2>3 DEF Ordered, InvalidatedFirst
  <2>6. Stacked /\ ~Inner(work[1]) /\ \A n : ~Removal(work[1], n)
    BY <1>1 DEF Inner, Removal, CtlInv
  <2>7. work' = new \o Tail(work)
    BY <1>3, <2>1, <2>2
  <2> QED
    BY <1>1, <2>3, <2>4, <2>5, <2>6, <2>7, StackedPushed
<1> QED
  BY <1>2, <1>3 DEF TeardownNetworks, Rest

(* The clients a teardown has chosen, as a list.                           *)
LEMMA GoneTyped ==
    ASSUME Listed, Placed, NEW name \in Names, NEW keys, keys \subseteq DOMAIN clients
    PROVE  InReplicaOrder(name, keys) \in Seq(keys) /\ IsSequence(InReplicaOrder(name, keys))
<1>1. IsFiniteSet(keys)
  BY FS_Subset DEF Placed
<1>2. InReplicaOrder(name, keys) \in Seq(keys)
  BY <1>1, InReplicaOrderTyped
<1> QED
  BY <1>2, TypedIsSequence

(* teardown_chain: between the choice of clients and the end of their      *)
(* networks only entries and chains of those clients are touched.          *)
LEMMA TeardownChainStacked ==
    ASSUME CtlInv, TeardownChain
    PROVE  Stacked'
<1>1. /\ Stacked /\ Listed /\ Placed /\ work # <<>> /\ UNCHANGED replicas
      /\ work[1][1] = "teardown_chain"
  BY DEF CtlInv, TeardownChain, Due, serviceVars
<1>2. PICK name, keys : /\ name = work[1][2]
                        /\ keys = {k \in KeysOf(name, clients) : Matches(work[1][3], k)}
  OBVIOUS
<1>3. name \in Names
  BY <1>1, <1>2, HeadCalled DEF WellCalled
<1>4. PICK gone : gone = InReplicaOrder(name, keys)
  OBVIOUS
<1>5. IsSequence(gone)
  BY <1>1, <1>2, <1>3, <1>4, GoneTyped DEF KeysOf
<1>6. CASE work' = Tail(work)
  BY <1>1, <1>6, DuePops
<1>7. PICK A, B, N : /\ A = [i \in DOMAIN gone |-> <<"teardown_dep_chain", name, gone[i][2]>>]
                     /\ B = [i \in DOMAIN gone |-> <<"remove_client", name, gone[i][3]>>]
                     /\ N = <<"teardown_networks", name, {clients[gone[i]].net_id : i \in DOMAIN gone}>>
  OBVIOUS
<1>8. CASE work' = A \o B \o <<N>> \o Tail(work)
  <2>1. A = [i \in DOMAIN gone |-> A[i]] /\ B = [i \in DOMAIN gone |-> B[i]]
    BY <1>7
  <2>2. /\ \A i \in DOMAIN gone : WellCalled(A[i]) /\ A[i][1] = "teardown_dep_chain"
        /\ \A i \in DOMAIN gone : WellCalled(B[i]) /\ B[i][1] = "remove_client"
    BY <1>7 DEF WellCalled
  <2>3. Plain(A)
    BY <1>5, <2>1, <2>2, EachPlain
  <2>4. Plain(B)
    BY <1>5, <2>1, <2>2, EachPlain
  <2>5. PICK C : C = A \o B
    OBVIOUS
  <2>6. Plain(C)
    BY <2>3, <2>4, <2>5, PlainConcat
  <2>7. \A i \in DOMAIN C : Inner(C[i])
    <3>1. ASSUME NEW i \in DOMAIN C
          PROVE  C[i][1] \in {"teardown_dep_chain", "remove_client"}
      <4>1. \/ i \in DOMAIN A /\ C[i] = A[i]
            \/ i - Len(A) \in DOMAIN B /\ C[i] = B[i - Len(A)]
        BY <2>3, <2>4, <2>5, ConcatAt DEF Plain
      <4>2. DOMAIN A = DOMAIN gone /\ DOMAIN B = DOMAIN gone
        BY <1>7
      <4> QED
        BY <2>2, <4>1, <4>2
    <3> QED
      BY <3>1 DEF Inner
  <2>8. PICK new : new = C \o <<N>>
    OBVIOUS
  <2>9. IsSequence(C) /\ IsSequence(<<N>>) /\ DOMAIN <<N>> = {1} /\ <<N>>[1] = N /\ Len(<<N>>) = 1
    BY <2>6, One DEF Plain
  <2>10. IsSequence(new) /\ Len(new) = Len(C) + 1
    BY <2>8, <2>9, Concat
  <2>11. \A i \in DOMAIN new : (i \in DOMAIN C /\ new[i] = C[i]) \/ (i = Len(C) + 1 /\ new[i] = N)
    <3>1. SUFFICES ASSUME NEW i \in DOMAIN new
                   PROVE  (i \in DOMAIN C /\ new[i] = C[i]) \/ (i = Len(C) + 1 /\ new[i] = N)
      OBVIOUS
    <3>2. \/ i \in DOMAIN C /\ new[i] = C[i]
          \/ i - Len(C) \in DOMAIN <<N>> /\ new[i] = <<N>>[i - Len(C)]
      BY <2>8, <2>9, ConcatAt
    <3>3. i \in Nat /\ Len(C) \in Nat
      BY <2>9, <2>10, SequenceIsFunction
    <3> QED
      BY <2>9, <3>2, <3>3
  <2>12. WellCalled(N) /\ N[1] = "teardown_networks"
    BY <1>7 DEF WellCalled
  <2>13. \A i \in DOMAIN new : /\ WellCalled(new[i])
                               /\ new[i][1] \notin {"add_replica", "remove_service"}
    BY <2>6, <2>11, <2>12 DEF Plain
  <2>14. Ordered(new)
    <3>1. SUFFICES ASSUME NEW p \in DOMAIN new, NEW q \in DOMAIN new, p < q
                   PROVE  Inner(new[p])
      BY <2>13 DEF Ordered
    <3>2. p # Len(C) + 1
      BY <2>10, <3>1, SequenceIsFunction
    <3> QED
      BY <2>7, <2>11, <3>2
  <2>15. InvalidatedFirst(new)
    BY <2>13 DEF InvalidatedFirst
  <2>16. ~Inner(work[1]) /\ \A n : ~Removal(work[1], n)
    BY <1>1 DEF Inner, Removal
  <2>17. work' = new \o Tail(work)
    BY <1>8, <2>5, <2>8
  <2> QED
    BY <1>1, <2>10, <2>13, <2>14, <2>15, <2>16, <2>17, StackedPushed
<1>9. work' = Tail(work) \/ work' = A \o B \o <<N>> \o Tail(work)
  BY <1>2, <1>4, <1>7 DEF TeardownChain, Rest
<1> QED
  BY <1>6, <1>8, <1>9

(* teardown_invalidated_service.                                           *)
LEMMA TeardownInvalidatedServiceStacked ==
    ASSUME CtlInv, TeardownInvalidatedService
    PROVE  Stacked'
<1>1. /\ Stacked /\ IsConfig(config) /\ work # <<>> /\ UNCHANGED replicas
      /\ work[1][1] = "teardown_invalidated_service"
  BY DEF CtlInv, TeardownInvalidatedService, Due, serviceVars
<1> DEFINE name == work[1][2]
           dependents == {n \in DOMAIN config :
                             n = name \/ (IsRegistered(n) /\ DepsContain(n, name))}
           Through(n) == IF n = name THEN None ELSE name
           bodies == [n \in dependents |->
                       << <<"teardown_chain", n, <<"All">>>>,
                          <<"teardown_all_backend_chains_for", n, Through(n)>> >>]
<1>2. \A n \in dependents : Body(bodies[n])
  <2>1. SUFFICES ASSUME NEW n \in dependents PROVE Body(bodies[n])
    OBVIOUS
  <2>2. PICK x, y : /\ x = <<"teardown_chain", n, <<"All">>>>
                    /\ y = <<"teardown_all_backend_chains_for", n, Through(n)>>
    OBVIOUS
  <2>3. n \in Names
    BY <1>1 DEF IsConfig
  <2>4. InLoop(x) /\ InLoop(y) /\ x[1] # "remove_service" /\ y[1] # "remove_service"
    BY <2>2, <2>3 DEF InLoop
  <2>5. Body(<<x, y>>)
    BY <2>4, BodyOfTwo
  <2>6. bodies[n] = <<x, y>>
    BY <2>2
  <2> QED
    BY <2>5, <2>6
<1>3. PICK F, u : F = ForEach(bodies) /\ u = <<"unregister", name>>
  OBVIOUS
<1>4. Plain(F)
  <2>1. PICK b : b = bodies
    OBVIOUS
  <2>2. \A x \in DOMAIN b : Body(b[x])
    BY <1>2, <2>1
  <2> HIDE DEF bodies
  <2> QED
    BY <1>3, <2>1, <2>2, ForPlain
<1>5. Plain(<<u>>)
  <2>1. WellCalled(u) /\ u[1] = "unregister"
    BY <1>3 DEF WellCalled
  <2> QED
    BY <2>1, PlainOne
<1>6. PICK t, v : /\ t = IF work[1][3] THEN <<u>> ELSE <<>>
                  /\ v = IF work[1][3] THEN <<<<"unregister", name>>>> ELSE <<>>
  OBVIOUS
<1>7. t = v /\ Plain(t) /\ (work[1][3] = TRUE => t = <<u>>)
  BY <1>3, <1>5, <1>6, PlainEmpty
<1>8. work' = F \o t \o Tail(work)
  BY <1>3, <1>6, <1>7 DEF TeardownInvalidatedService, Rest
<1>9. PICK new : new = F \o t
  OBVIOUS
<1>10. Plain(new)
  BY <1>4, <1>7, <1>9, PlainConcat
<1>11. ASSUME NEW n, Removal(work[1], n)
       PROVE  \E p \in DOMAIN new : Removal(new[p], n)
  <2>1. n = name /\ t = <<u>>
    BY <1>1, <1>7, <1>11 DEF Removal
  <2>2. PICK m : m = Len(F)
    OBVIOUS
  <2>3. IsSequence(F) /\ IsSequence(t) /\ 1 \in DOMAIN t /\ t[1] = u /\ Len(t) = 1 /\ m \in Nat
    BY <1>4, <1>7, <2>1, <2>2, One, SequenceIsFunction DEF Plain
  <2>4. IsSequence(new) /\ Len(new) = m + 1 /\ \A i \in DOMAIN t : new[Len(F) + i] = t[i]
    <3>1. /\ IsSequence(new) /\ Len(new) = Len(F) + Len(t)
          /\ \A i \in DOMAIN t : new[Len(F) + i] = t[i]
      <4>1. IsSequence(F) /\ IsSequence(t)
        BY <2>3
      <4> QED
        BY <1>9, <4>1, Concat
    <3> QED
      BY <2>2, <2>3, <3>1
  <2>5. new[m + 1] = u /\ m + 1 \in DOMAIN new
    BY <2>2, <2>3, <2>4, SequenceIsFunction
  <2>6. Removal(u, n)
    BY <1>3, <2>1 DEF Removal
  <2> QED
    BY <2>5, <2>6
<1>12. ~Inner(work[1])
  BY <1>1 DEF Inner
<1>13. work' = new \o Tail(work)
  BY <1>8, <1>9
<1> HIDE DEF bodies
<1> QED
  BY <1>1, <1>10, <1>11, <1>12, <1>13, PlainPushed

(* apply_changes for replicas that left.                                   *)
LEMMA ReplicasRemovedStacked ==
    ASSUME CtlInv, ReplicasRemoved
    PROVE  Stacked'
<1>1. /\ Stacked /\ Listed /\ work # <<>> /\ UNCHANGED replicas
      /\ work[1][1] = "replicas_removed"
  BY DEF CtlInv, ReplicasRemoved, Due, serviceVars
<1>2. PICK name, filter : name = work[1][2] /\ filter = work[1][3]
  OBVIOUS
<1>3. name \in Names
  BY <1>1, <1>2, HeadCalled DEF WellCalled
<1>4. PICK one, some : /\ one = <<filter[2]>>
                       /\ some = Among(replicas[name], {rid \in ReplicaSet(name) : OnFilter(filter, rid)})
  OBVIOUS
<1>5. PICK leaving : leaving = IF filter[1] = "OnReplica" THEN one ELSE some
  OBVIOUS
<1>6. IsSequence(leaving)
  <2>1. IsSequence(one)
    BY <1>4, One
  <2>2. some \in Seq(AllReplicas)
    BY <1>1, <1>3, <1>4, AmongKeeps DEF Listed
  <2>3. IsSequence(some)
    BY <2>2, TypedIsSequence
  <2> QED
    BY <1>5, <2>1, <2>3
<1>7. PICK A, x, y, z : /\ A = [i \in DOMAIN leaving |->
                                  <<"teardown_backend_chain", name, leaving[i], None>>]
                        /\ x = <<"teardown_partial_replicas", name, filter>>
                        /\ y = <<"remove_replicas", name, filter>>
                        /\ z = <<"teardown_invalidated_service", name, TRUE>>
  OBVIOUS
<1>8. work' = <<z>> \o Tail(work) \/ work' = A \o <<x, y>> \o Tail(work)
  BY <1>2, <1>4, <1>5, <1>7 DEF ReplicasRemoved, Rest
<1>9. Plain(<<z>>)
  <2>1. WellCalled(z) /\ z[1] = "teardown_invalidated_service"
    BY <1>7 DEF WellCalled
  <2> QED
    BY <2>1, PlainOne
<1>10. Plain(A)
  <2>1. A = [i \in DOMAIN leaving |-> A[i]]
    BY <1>7
  <2>2. \A i \in DOMAIN leaving : WellCalled(A[i]) /\ A[i][1] = "teardown_backend_chain"
    BY <1>7 DEF WellCalled
  <2> QED
    BY <1>6, <2>1, <2>2, EachPlain
<1>11. Plain(<<x, y>>)
  <2>1. /\ WellCalled(x) /\ x[1] = "teardown_partial_replicas"
        /\ WellCalled(y) /\ y[1] = "remove_replicas"
    BY <1>3, <1>7 DEF WellCalled
  <2> QED
    BY <2>1, Two DEF Plain
<1>12. PICK new : new = A \o <<x, y>>
  OBVIOUS
<1>13. Plain(new)
  BY <1>10, <1>11, <1>12, PlainConcat
<1>14. CASE work' = <<z>> \o Tail(work)
  BY <1>1, <1>9, <1>14, DuePushes
<1>15. CASE work' = new \o Tail(work)
  BY <1>1, <1>13, <1>15, DuePushes
<1> QED
  BY <1>8, <1>12, <1>14, <1>15

(* A service client is a replica of a known service.                       *)
LEMMA ServiceOfClient ==
    ASSUME Placed, NEW k \in DOMAIN clients, ~IsProxy(k[3])
    PROVE  k[3].name \in Names
<1>1. k[3] \in AllClients
  BY DEF Placed, AllKeys
<1>2. \A r \in Reqs : CallOf[r][1] = "proxy" => IsProxy(ClientOf(r))
  BY ControllerConstants DEF ClientOf, ProxyClient, IsProxy
<1>3. PICK n \in Names, rid \in AllReplicas : k[3] = ServiceClient(n, rid)
  BY <1>1, <1>2 DEF AllClients
<1> QED
  BY <1>3 DEF ServiceClient

(* teardown_partial_replicas.                                              *)
LEMMA TeardownPartialReplicasStacked ==
    ASSUME CtlInv, TeardownPartialReplicas
    PROVE  Stacked'
<1>1. /\ Stacked /\ Placed /\ work # <<>> /\ UNCHANGED replicas
      /\ work[1][1] = "teardown_partial_replicas"
  BY DEF CtlInv, TeardownPartialReplicas, Due, serviceVars
<1> DEFINE name == work[1][2]
           filter == work[1][3]
           affected == {k \in KeysOf(name, clients) :
                           ~IsProxy(k[3]) /\ OnFilter(filter, k[2])}
           bodies == [k \in affected |->
                            << <<"teardown_chain", k[3].name, <<"OnReplica", k[3].replica>>>>,
                               <<"teardown_backend_chain", k[3].name, k[3].replica, name>> >>]
<1>2. name \in Names
  BY <1>1, HeadCalled DEF WellCalled
<1>3. \A k \in affected : Body(bodies[k])
  <2>1. SUFFICES ASSUME NEW k \in affected PROVE Body(bodies[k])
    OBVIOUS
  <2>2. PICK x, y : /\ x = <<"teardown_chain", k[3].name, <<"OnReplica", k[3].replica>>>>
                    /\ y = <<"teardown_backend_chain", k[3].name, k[3].replica, name>>
    OBVIOUS
  <2>3. k[3].name \in Names
    BY <1>1, ServiceOfClient DEF KeysOf
  <2>4. InLoop(x) /\ InLoop(y) /\ x[1] # "remove_service" /\ y[1] # "remove_service"
    BY <2>2, <2>3 DEF InLoop
  <2>5. Body(<<x, y>>)
    BY <2>4, BodyOfTwo
  <2>6. bodies[k] = <<x, y>>
    BY <2>2
  <2> QED
    BY <2>5, <2>6
<1>4. PICK F, x : F = ForEach(bodies) /\ x = <<"teardown_chain", name, filter>>
  OBVIOUS
<1>5. Plain(F)
  <2>1. PICK b : b = bodies
    OBVIOUS
  <2>2. \A k \in DOMAIN b : Body(b[k])
    BY <1>3, <2>1
  <2> HIDE DEF bodies
  <2> QED
    BY <1>4, <2>1, <2>2, ForPlain
<1>6. Plain(<<x>>)
  <2>1. WellCalled(x) /\ x[1] = "teardown_chain"
    BY <1>2, <1>4 DEF WellCalled
  <2> QED
    BY <2>1, PlainOne
<1>7. work' = Tail(work) \/ work' = F \o <<x>> \o Tail(work)
  BY <1>4 DEF TeardownPartialReplicas, Rest
<1>8. PICK new : new = F \o <<x>>
  OBVIOUS
<1>9. Plain(new)
  BY <1>5, <1>6, <1>8, PlainConcat
<1> HIDE DEF bodies
<1>10. CASE work' = Tail(work)
  BY <1>1, <1>10, DuePops
<1>11. CASE work' = new \o Tail(work)
  BY <1>1, <1>9, <1>11, DuePushes
<1> QED
  BY <1>7, <1>8, <1>10, <1>11

(* apply_changes for a proxy that left.                                    *)
LEMMA ProxyDisconnectedStacked ==
    ASSUME CtlInv, ProxyDisconnected
    PROVE  Stacked'
<1>1. /\ Stacked /\ Placed /\ work # <<>> /\ UNCHANGED replicas
      /\ work[1][1] = "proxy_disconnected"
  BY DEF CtlInv, ProxyDisconnected, Due, serviceVars
<1> DEFINE ip == work[1][2]
           named == {k[1] : k \in {j \in DOMAIN clients : j[3].proxy = ip}}
           bodies == [n \in named |-> <<<<"teardown_chain", n, <<"ByIp", ip>>>>>>]
<1>2. \A n \in named : Body(bodies[n])
  <2>1. SUFFICES ASSUME NEW n \in named PROVE Body(bodies[n])
    OBVIOUS
  <2>2. PICK x : x = <<"teardown_chain", n, <<"ByIp", ip>>>>
    OBVIOUS
  <2>3. n \in Names
    BY <1>1 DEF Placed, AllKeys
  <2>4. InLoop(x) /\ x[1] # "remove_service"
    BY <2>2, <2>3 DEF InLoop
  <2>5. Body(<<x>>)
    BY <2>4, BodyOfOne
  <2> QED
    BY <2>2, <2>5
<1>3. PICK F : F = ForEach(bodies)
  OBVIOUS
<1>4. Plain(F)
  <2>1. PICK b : b = bodies
    OBVIOUS
  <2>2. \A n \in DOMAIN b : Body(b[n])
    BY <1>2, <2>1
  <2> HIDE DEF bodies
  <2> QED
    BY <1>3, <2>1, <2>2, ForPlain
<1>5. work' = F \o Tail(work)
  BY <1>3 DEF ProxyDisconnected, Rest
<1> HIDE DEF bodies
<1> QED
  BY <1>1, <1>4, <1>5, DuePushes

(* An empty stack gets plain calls.                                        *)
LEMMA FreshPlain ==
    ASSUME NEW new, Plain(new), work' = new
    PROVE  Stacked'
<1>1. Ordered(new) /\ InvalidatedFirst(new)
  BY PlainOrdered
<1> QED
  BY <1>1, StackedFresh DEF Plain

(* The clean-up of a chain of which an edge failed.                        *)
LEMMA JoinStacked ==
    ASSUME CtlInv, NEW r \in Reqs, Join(r)
    PROVE  Stacked'
<1>1. Stacked /\ Called /\ UNCHANGED replicas
  BY DEF CtlInv, Join, serviceVars
<1>2. CASE UNCHANGED work
  BY <1>1, <1>2, StackedIs DEF Stacked
<1>3. PICK edges, won : /\ edges = req[r].edges
                        /\ won = Among(edges, {e \in Range(edges) : e.pc = "ok"})
  OBVIOUS
<1>4. CASE work' = Decrements([i \in DOMAIN won |-> <<won[i].client, won[i].server>>])
  <2>1. req[r] \in Requests
    BY <1>1 DEF Called
  <2>2. won \in Seq(EdgeTasks)
    BY <1>3, <2>1, AmongKeeps DEF Requests
  <2>3. PICK n, d : n = Len(won)
                 /\ d = [i \in DOMAIN won |->
                            <<"decrement_chain", <<won[i].client, won[i].server>>[2],
                              <<won[i].client, won[i].server>>[1]>>]
    OBVIOUS
  <2>4. IsSequence(won)
    BY <2>2, TypedIsSequence
  <2>5. d = [i \in DOMAIN won |-> d[i]]
    BY <2>3
  <2>6. \A i \in DOMAIN won : WellCalled(d[i]) /\ d[i][1] = "decrement_chain"
    BY <2>3 DEF WellCalled
  <2>7. Plain(d)
    BY <2>4, <2>5, <2>6, EachPlain
  <2>8. work' = d
    BY <1>4, <2>3 DEF Decrements
  <2> QED
    BY <2>7, <2>8, FreshPlain
<1> QED
  BY <1>2, <1>3, <1>4 DEF Join

(* A request that shares a network calls nothing.                          *)
LEMMA ProxyReuseStacked ==
    ASSUME CtlInv, NEW r \in Reqs, ProxyReuse(r)
    PROVE  Stacked'
<1>1. Stacked /\ UNCHANGED replicas
  BY DEF CtlInv, ProxyReuse
<1>2. CASE UNCHANGED work
  BY <1>1, <1>2, StackedIs DEF Stacked
<1>3. PICK x : x = <<"endless_walk">>
  OBVIOUS
<1>4. CASE work' = <<x>>
  <2>1. WellCalled(x) /\ x[1] = "endless_walk"
    BY <1>3 DEF WellCalled
  <2> QED
    BY <1>4, <2>1, PlainOne, FreshPlain
<1> QED
  BY <1>2, <1>3, <1>4 DEF ProxyReuse

(* A list of services: what left is torn down, then what is listed is      *)
(* added.                                                                  *)
LEMMA ServicesListStacked ==
    ASSUME CtlInv, NEW l \in Lists, work' = ServicesListChanges(l[1], l[2])
    PROVE  Stacked'
<1>1. Listed /\ IsConfig(config)
  BY DEF CtlInv
<1> DEFINE ip == l[1]
           list == l[2]
           Unlisted(n) == Among(replicas[n], {rid \in ReplicaSet(n) :
                           rid[1] = ip /\ <<n, rid[2]>> \notin ToSet(list)})
           Removals(n) == [i \in DOMAIN Unlisted(n) |->
                           <<"replicas_removed", n, <<"OnReplica", Unlisted(n)[i]>>>>]
           bodies == [n \in {m \in DOMAIN config : Unlisted(m) # <<>>} |-> Removals(n)]
<1>2. \A n \in DOMAIN bodies : Body(bodies[n])
  <2>1. SUFFICES ASSUME NEW n \in DOMAIN config PROVE Body(Removals(n))
    OBVIOUS
  <2>2. n \in Names
    BY <1>1 DEF IsConfig
  <2>3. PICK out : out = Unlisted(n)
    OBVIOUS
  <2>4. out \in Seq(AllReplicas)
    BY <1>1, <2>2, <2>3, AmongKeeps DEF Listed
  <2>5. IsSequence(out)
    BY <2>4, TypedIsSequence
  <2>6. PICK calls : calls = [i \in DOMAIN out |-> <<"replicas_removed", n, <<"OnReplica", out[i]>>>>]
    OBVIOUS
  <2>7. calls = [i \in DOMAIN out |-> calls[i]]
    BY <2>6
  <2>8. \A i \in DOMAIN out : InLoop(calls[i]) /\ calls[i][1] # "remove_service"
    BY <2>2, <2>6 DEF InLoop
  <2>9. Body(calls)
    BY <2>5, <2>7, <2>8, EachBody
  <2>10. calls = Removals(n)
    BY <2>3, <2>6
  <2> QED
    BY <2>9, <2>10
<1>3. PICK F : F = ForEach(bodies)
  OBVIOUS
<1>4. Plain(F)
  <2>1. PICK b : b = bodies
    OBVIOUS
  <2>2. \A n \in DOMAIN b : Body(b[n])
    BY <1>2, <2>1
  <2> HIDE DEF bodies
  <2> QED
    BY <1>3, <2>1, <2>2, ForPlain
<1>5. PICK A, m : A = [i \in DOMAIN list |-> <<"add_replica", list[i][1], <<ip, list[i][2]>>>>]
                  /\ m = Len(list)
  OBVIOUS
<1>6. IsSequence(list) /\ m \in Nat /\ DOMAIN list = 1 .. m
  BY <1>5, ControllerConstants, SequenceIsFunction
<1>7. A = [i \in 1 .. m |-> A[i]]
  BY <1>5, <1>6
<1>8. IsSequence(A) /\ DOMAIN A = 1 .. m
  BY <1>6, <1>7, EachIsSequence
<1>9. \A i \in DOMAIN A : WellCalled(A[i]) /\ A[i][1] = "add_replica"
  <2>1. SUFFICES ASSUME NEW i \in DOMAIN A PROVE WellCalled(A[i]) /\ A[i][1] = "add_replica"
    OBVIOUS
  <2>2. A[i] = <<"add_replica", list[i][1], <<ip, list[i][2]>>>> /\ list[i] \in ToSet(list)
    BY <1>5, <1>6, <1>8 DEF ToSet
  <2>3. <<ip, list[i][2]>> \in AllReplicas
    <3>1. PICK s \in ToSet(list) : s = list[i]
      BY <2>2
    <3>2. s \in UNION {ToSet(k[2]) : k \in Lists}
      BY <3>1
    <3>3. <<l[1], s[2]>> \in AllReplicas
      BY <3>2 DEF AllReplicas
    <3> QED
      BY <3>1, <3>3
  <2> QED
    BY <2>2, <2>3 DEF WellCalled
<1>10. PICK new : new = F \o A
  OBVIOUS
<1>11. work' = new
  BY <1>3, <1>5, <1>10 DEF ServicesListChanges
<1> HIDE DEF bodies
<1>12. IsSequence(F) /\ IsSequence(A)
  BY <1>4, <1>8 DEF Plain
<1>13. IsSequence(new)
  BY <1>10, <1>12, Concat
<1>14. \A i \in DOMAIN new : (i \in DOMAIN F /\ new[i] = F[i])
                             \/ (i - Len(F) \in DOMAIN A /\ i > Len(F) /\ new[i] = A[i - Len(F)])
  BY <1>10, <1>12, ConcatAt
<1>15. \A i \in DOMAIN new : /\ WellCalled(new[i])
                             /\ new[i][1] \notin {"teardown_networks", "remove_service"}
  BY <1>4, <1>9, <1>14 DEF Plain
<1>16. Ordered(new)
  <2>1. SUFFICES ASSUME NEW p \in DOMAIN new, NEW q \in DOMAIN new, p < q,
                        new[p][1] = "add_replica"
                 PROVE  new[q][1] = "add_replica"
    BY <1>15 DEF Ordered
  <2>2. ~(p \in DOMAIN F /\ new[p] = F[p])
    BY <1>4, <2>1 DEF Plain
  <2>3. p > Len(F)
    BY <1>14, <2>2
  <2>4. Len(F) \in Nat /\ DOMAIN F = 1 .. Len(F) /\ p \in Nat /\ q \in Nat
    BY <1>12, <1>13, SequenceIsFunction
  <2>5. q \notin DOMAIN F
    BY <2>1, <2>3, <2>4
  <2> QED
    BY <1>9, <1>14, <2>5
<1>17. InvalidatedFirst(new)
  BY <1>15 DEF InvalidatedFirst
<1> QED
  BY <1>11, <1>13, <1>15, <1>16, <1>17, StackedFresh

(* The teardown of clients that timed out.                                 *)
LEMMA TimedOutBody ==
    ASSUME Listed, Placed, NEW n \in Names, NEW expired, expired \subseteq DOMAIN clients
    PROVE  /\ Body(TimedOut(n, expired))
           /\ \A i \in DOMAIN TimedOut(n, expired) : TimedOut(n, expired)[i][1] # "remove_service"
<1>1. PICK keys : keys = {k \in expired : k[1] = n}
  OBVIOUS
<1>2. PICK due : due = InReplicaOrder(n, keys)
  OBVIOUS
<1>3. IsSequence(due)
  BY <1>1, <1>2, GoneTyped
<1>4. PICK calls : calls = TimedOut(n, expired)
  OBVIOUS
<1>5. calls = [i \in DOMAIN due |-> <<"teardown_chain", n, <<"ByClient", due[i][3]>>>>]
  BY <1>1, <1>2, <1>4 DEF TimedOut
<1>6. calls = [i \in DOMAIN due |-> calls[i]]
  BY <1>5
<1>7. \A i \in DOMAIN due : InLoop(calls[i]) /\ calls[i][1] # "remove_service"
  BY <1>5 DEF InLoop
<1>8. Body(calls)
  BY <1>3, <1>6, <1>7, EachBody
<1> QED
  BY <1>4, <1>5, <1>7, <1>8

(* The sweep of the expiry loop.                                           *)
LEMMA TimeoutStacked ==
    ASSUME CtlInv, NEW expired, expired \subseteq DOMAIN clients, work' = TimeoutChanges(expired)
    PROVE  Stacked'
<1>1. Listed /\ Placed
  BY DEF CtlInv
<1>2. PICK bodies : bodies = [n \in {k[1] : k \in expired} |-> TimedOut(n, expired)]
  OBVIOUS
<1>3. \A n \in DOMAIN bodies : Body(bodies[n])
  <2>1. SUFFICES ASSUME NEW k \in expired PROVE Body(TimedOut(k[1], expired))
    BY <1>2
  <2>2. PICK n : n = k[1]
    OBVIOUS
  <2>3. n \in Names
    BY <1>1, <2>2 DEF Placed, AllKeys
  <2> QED
    BY <1>1, <2>2, <2>3, TimedOutBody
<1>4. PICK F : F = ForEach(bodies)
  OBVIOUS
<1>5. Plain(F)
  BY <1>3, <1>4, ForPlain
<1>6. work' = F
  BY <1>2, <1>4 DEF TimeoutChanges
<1> QED
  BY <1>5, <1>6, FreshPlain

(* The clean-up after a disconnect.                                        *)
LEMMA NodeDisconnectStacked ==
    ASSUME CtlInv, NEW ip, work' = NodeDisconnectChanges(ip)
    PROVE  Stacked'
<1>1. IsConfig(config)
  BY DEF CtlInv
<1>2. PICK bodies : bodies = [n \in {m \in DOMAIN config : \E rid \in ReplicaSet(m) : rid[1] = ip} |->
                                <<<<"replicas_removed", n, <<"OnIp", ip>>>>>>]
  OBVIOUS
<1>3. \A n \in DOMAIN bodies : Body(bodies[n])
  <2>1. SUFFICES ASSUME NEW n \in DOMAIN config PROVE Body(<<<<"replicas_removed", n, <<"OnIp", ip>>>>>>)
    BY <1>2
  <2>2. PICK x : x = <<"replicas_removed", n, <<"OnIp", ip>>>>
    OBVIOUS
  <2>3. InLoop(x) /\ x[1] # "remove_service"
    BY <1>1, <2>2 DEF InLoop, IsConfig
  <2> QED
    BY <2>2, <2>3, BodyOfOne
<1>4. PICK F, x : F = ForEach(bodies) /\ x = <<"proxy_disconnected", ip>>
  OBVIOUS
<1>5. Plain(F)
  BY <1>3, <1>4, ForPlain
<1>6. Plain(<<x>>)
  <2>1. WellCalled(x) /\ x[1] = "proxy_disconnected"
    BY <1>4 DEF WellCalled
  <2> QED
    BY <2>1, PlainOne
<1>7. Plain(F \o <<x>>)
  BY <1>5, <1>6, PlainConcat
<1>8. Plain(F \o <<>>)
  BY <1>5, PlainEmpty, PlainConcat
<1>9. work' = F \o <<x>> \/ work' = F \o <<>>
  BY <1>2, <1>4 DEF NodeDisconnectChanges
<1> QED
  BY <1>7, <1>8, <1>9, FreshPlain

(* The calls that the change of one configured service leads to. *)
DepsCalls(n) == {<<>>, <<<<"teardown_invalidated_service", n, FALSE>>>>}
TriggersCalls(n) == {<<>>, <<<<"teardown_all_backend_chains_for", n, None>>>>}
TimeoutCalls(n, expired) ==
    {<<>>, TimedOut(n, expired),
     <<<<"teardown_chain", n, <<"All">>>>>> \o <<<<"teardown_all_backend_chains_for", n, None>>>>}

(* Its calls may be the body of a loop.                                    *)
LEMMA ReconfigureBody ==
    ASSUME Listed, Placed, NEW n \in Names, NEW expired, expired \subseteq DOMAIN clients,
           NEW a \in DepsCalls(n), NEW b \in TriggersCalls(n), NEW c \in TimeoutCalls(n, expired)
    PROVE  Body(a \o b \o c)
<1> DEFINE Safe(s) == Body(s) /\ \A i \in DOMAIN s : s[i][1] # "remove_service"
<1>1. Safe(<<>>)
  <2>1. PICK e : e = <<>>
    OBVIOUS
  <2>2. IsSequence(e) /\ DOMAIN e = {}
    BY <2>1, PlainEmpty DEF Plain
  <2>3. Safe(e)
    BY <2>2, BodyTyped
  <2> QED
    BY <2>1, <2>3
<1>2. PICK x, y, z : /\ x = <<"teardown_invalidated_service", n, FALSE>>
                     /\ y = <<"teardown_all_backend_chains_for", n, None>>
                     /\ z = <<"teardown_chain", n, <<"All">>>>
  OBVIOUS
<1>3. /\ InLoop(x) /\ x[1] # "remove_service" /\ InLoop(y) /\ y[1] # "remove_service"
      /\ InLoop(z) /\ z[1] # "remove_service"
  BY <1>2 DEF InLoop
<1>4. Safe(<<x>>) /\ Safe(<<y>>) /\ Safe(<<z>>)
  BY <1>3, BodyOfOne, One
<1>5. Safe(<<z>> \o <<y>>)
  BY <1>4, BodyConcat
<1>6. Safe(a) /\ Safe(b) /\ Safe(c)
  <2>1. Safe(TimedOut(n, expired))
    BY TimedOutBody
  <2> QED
    BY <1>1, <1>2, <1>4, <1>5, <2>1 DEF DepsCalls, TriggersCalls, TimeoutCalls
<1>7. PICK d : d = a \o b
  OBVIOUS
<1>8. Safe(d)
  BY <1>6, <1>7, BodyConcat
<1>9. Safe(d \o c)
  BY <1>6, <1>8, BodyConcat
<1> QED
  BY <1>7, <1>9

(* A new file: removals come before remove_service, and the update comes   *)
(* last.                                                                   *)
LEMMA ConfigChangesStacked ==
    ASSUME CtlInv, NEW loaded \in Configs, NEW expired, expired \subseteq DOMAIN clients,
           work' = ConfigChanges(loaded, expired)
    PROVE  Stacked'
<1>1. Listed /\ Placed /\ IsConfig(config)
  BY DEF CtlInv
<1> DEFINE both == DOMAIN config \cap DOMAIN loaded
        Old(n) == config[n]
        New(n) == loaded[n]
        Backend(n) == <<<<"teardown_all_backend_chains_for", n, None>>>>
        ProxyDepsChanged(n) ==
            IF New(n).proxy_deps = Old(n).proxy_deps THEN <<>>
            ELSE <<<<"teardown_invalidated_service", n, FALSE>>>>
        TriggersChanged(n) ==
            IF New(n).triggers = Old(n).triggers THEN <<>> ELSE Backend(n)
        TimeoutChanged(n) ==
            IF (New(n).timeout = None) # (Old(n).timeout = None)
                THEN <<<<"teardown_chain", n, <<"All">>>>>> \o Backend(n)
            ELSE IF Tightened(Old(n).timeout, New(n).timeout)
                THEN TimedOut(n, expired)
                ELSE <<>>
        gone == [n \in DOMAIN config \ DOMAIN loaded |->
                    << <<"teardown_invalidated_service", n, TRUE>>,
                       <<"remove_service", n>> >>]
        kept == [n \in both |-> ProxyDepsChanged(n) \o TriggersChanged(n) \o TimeoutChanged(n)]
<1>2. ASSUME NEW n \in DOMAIN gone
      PROVE  Body(gone[n])
  <2>1. PICK x, y : x = <<"teardown_invalidated_service", n, TRUE>> /\ y = <<"remove_service", n>>
    OBVIOUS
  <2>2. PICK s : s = <<x, y>>
    OBVIOUS
  <2>3. IsSequence(s) /\ DOMAIN s = {1, 2} /\ s[1] = x /\ s[2] = y
    BY <2>2, Two
  <2>4. InLoop(x) /\ InLoop(y)
    BY <2>1 DEF InLoop
  <2>5. Removal(x, n) /\ x[1] # "remove_service" /\ y[2] = n
    BY <2>1 DEF Removal
  <2>6. \A i \in DOMAIN s : InLoop(s[i])
    BY <2>3, <2>4
  <2>7. InvalidatedFirst(s)
    BY <2>3, <2>5 DEF InvalidatedFirst
  <2>8. Body(s)
    BY <2>3, <2>6, <2>7 DEF Body
  <2> QED
    BY <2>1, <2>2, <2>8
<1>3. ASSUME NEW n \in DOMAIN kept
      PROVE  Body(kept[n])
  <2>1. n \in Names
    BY <1>1 DEF IsConfig
  <2>2. PICK a, b, c : a = ProxyDepsChanged(n) /\ b = TriggersChanged(n) /\ c = TimeoutChanged(n)
    OBVIOUS
  <2>3. a \in DepsCalls(n) /\ b \in TriggersCalls(n) /\ c \in TimeoutCalls(n, expired)
    BY <2>2 DEF DepsCalls, TriggersCalls, TimeoutCalls
  <2>4. Body(a \o b \o c)
    BY <1>1, <2>1, <2>3, ReconfigureBody
  <2> QED
    BY <2>2, <2>4
<1>4. PICK g, k : g = gone /\ k = kept
  OBVIOUS
<1>5. (\A n \in DOMAIN g : Body(g[n])) /\ (\A n \in DOMAIN k : Body(k[n]))
  BY <1>2, <1>3, <1>4
<1>6. PICK F, G, x : F = ForEach(g) /\ G = ForEach(k) /\ x = <<"update_from_file", loaded>>
  OBVIOUS
<1>7. work' = F \o G \o <<x>>
  BY <1>4, <1>6 DEF ConfigChanges
<1> HIDE DEF gone, kept
<1>8. Plain(F) /\ Plain(G)
  BY <1>5, <1>6, ForPlain
<1>9. Plain(<<x>>)
  <2>1. WellCalled(x) /\ x[1] = "update_from_file"
    BY <1>6 DEF WellCalled
  <2> QED
    BY <2>1, PlainOne
<1>10. PICK H : H = F \o G
  OBVIOUS
<1>11. Plain(H \o <<x>>)
  BY <1>8, <1>9, <1>10, PlainConcat
<1> QED
  BY <1>7, <1>10, <1>11, FreshPlain

(* Every step leaves a well-ordered stack.                                 *)
LEMMA NextStacked ==
    ASSUME CtlInv, [Next]_vars
    PROVE  Stacked'
<1>1. Stacked
  BY DEF CtlInv
<1>2. CASE UNCHANGED <<replicas, work>>
  BY <1>1, <1>2, StackedIs DEF Stacked
<1>3. CASE \E r \in Reqs : Start(r) \/ RequestStep(r) \/ CallerGone(r)
  <2>1. PICK r \in Reqs : Start(r) \/ RequestStep(r) \/ CallerGone(r)
    BY <1>3
  <2>2. UNCHANGED replicas
    BY <2>1, RequestsLeaveServices
  <2>3. CASE ~Join(r) /\ ~ProxyReuse(r)
    BY <1>2, <2>1, <2>2, <2>3 DEF Start, RequestStep, CallerGone, ProxyLookup, ProxySticky,
       NewProxyChain, SetupProxyChain, BackendTrigger, SetupBackendChain, changeVars
  <2> QED
    BY <2>1, <2>3, JoinStacked, ProxyReuseStacked
<1>4. CASE \E r \in Reqs, i \in 1 .. MaxEdges : EdgeStep(r, i)
  <2>1. PICK r \in Reqs, i \in 1 .. MaxEdges : EdgeStep(r, i)
    BY <1>4
  <2>2. UNCHANGED replicas
    BY <2>1, RequestsLeaveServices
  <2>3. UNCHANGED work
    BY <2>1 DEF EdgeStep, EdgeReserve, EdgeAllocate, EdgeAcked, EdgeRollback, EdgeDrop,
       EdgeCommit, EdgeAbort, EdgeAborted, changeVars
  <2> QED
    BY <1>2, <2>2, <2>3
<1>5. CASE LockHolderStep
  BY <1>5, PopStacked, ForStacked, WalksStacked, TeardownNetworksStacked, TeardownChainStacked,
     TeardownInvalidatedServiceStacked, ReplicasRemovedStacked, TeardownPartialReplicasStacked,
     ProxyDisconnectedStacked DEF LockHolderStep, ChangesNext
<1>6. CASE \E host \in Flapping : NodeDisconnect(host)
  BY <1>6, NodeDisconnectStacked DEF NodeDisconnect, Sweep
<1>7. CASE Event
  <2>1. CASE \E l \in Lists : ServicesList(l[1], l[2])
    BY <2>1, ServicesListStacked DEF ServicesList, Sweep
  <2>2. CASE \E cfg \in Configs : ConfigUpdate(cfg)
    <3>1. PICK cfg \in Configs : ConfigUpdate(cfg)
      BY <2>2
    <3>2. PICK expired \in SUBSET {k \in DOMAIN clients : IsProxy(k[3])} :
              work' = ConfigChanges(cfg, expired)
      BY <3>1 DEF ConfigUpdate, Sweep
    <3>3. expired \subseteq DOMAIN clients
      OBVIOUS
    <3> QED
      BY <3>2, <3>3, ConfigChangesStacked
  <2>3. CASE TimeoutSweep
    <3>1. PICK expired \in (SUBSET MayExpire) \ {{}} : work' = TimeoutChanges(expired)
      BY <2>3 DEF TimeoutSweep, Sweep
    <3>2. expired \subseteq DOMAIN clients
      BY DEF MayExpire
    <3> QED
      BY <3>1, <3>2, TimeoutStacked
  <2>4. CASE \E host \in Flapping : ChannelClosed(host) \/ ChannelOpen(host)
    BY <1>2, <2>4 DEF ChannelClosed, ChannelOpen, changeVars
  <2> QED
    BY <1>7, <2>1, <2>2, <2>3, <2>4 DEF Event
<1>8. CASE UNCHANGED vars
  BY <1>2, <1>8 DEF vars
<1> QED
  BY <1>3, <1>4, <1>5, <1>6, <1>7, <1>8 DEF Next
------------------------------------------------------------------------------
(* The theorems. *)

(* The boot state.                                                         *)
LEMMA InitCtl ==
    ASSUME Init
    PROVE  CtlInv
<1>1. IsConfig(config)
  BY ControllerConstants DEF Init
<1>2. Listed
  <2>1. \A n \in Names : BootReplicas[n] \in Seq(AllReplicas)
    <3>1. SUFFICES ASSUME NEW n \in Names PROVE BootReplicas[n] \in Seq(AllReplicas)
      OBVIOUS
    <3>2. IsSequence(BootReplicas[n])
      BY ControllerConstants
    <3>3. \A i \in DOMAIN BootReplicas[n] : BootReplicas[n][i] \in AllReplicas
      BY DEF AllReplicas, ToSet
    <3> QED
      BY <3>2, <3>3, SequenceIsTyped
  <2> QED
    BY <2>1, ControllerConstants DEF Init, Listed
<1>3. Placed
  <2>1. IsFiniteSet({}) /\ DOMAIN <<>> = {}
    BY FS_EmptySet
  <2>2. DOMAIN clients = {}
    BY <2>1 DEF Init
  <2>3. clients \in [DOMAIN clients -> Entries]
    BY <2>2 DEF Init
  <2> QED
    BY <2>1, <2>2, <2>3 DEF Placed
<1>4. pool \in Pools
  BY PoolBounds DEF Init, NewPool, Pools
<1>5. Called
  <2>1. PICK q : q = [Idle EXCEPT !.pc = "idle", !.resp = <<>>]
    OBVIOUS
  <2>2. q \in Requests
    BY <2>1, IdleTyped DEF Pcs, Responses
  <2>3. q = Idle /\ q.pc = "idle" /\ q.edges = <<>>
    BY <2>1 DEF Idle
  <2>4. \A r \in Reqs : InOrder(r, q)
    BY <2>3 DEF InOrder, AllEnded
  <2>5. req = [r \in Reqs |-> q]
    BY <2>3 DEF Init
  <2> QED
    BY <2>2, <2>4, <2>5 DEF Called
<1>6. Stacked
  <2>1. IsSequence(<<>>) /\ DOMAIN <<>> = {}
    BY PlainEmpty DEF Plain
  <2>2. IsSequence(work) /\ DOMAIN work = {}
    BY <2>1 DEF Init
  <2> QED
    BY <2>2 DEF Stacked, Ordered
<1> QED
  BY <1>1, <1>2, <1>3, <1>4, <1>5, <1>6 DEF CtlInv

(* Every step keeps CtlInv.                                                *)
LEMMA NextCtl ==
    ASSUME CtlInv, [Next]_vars
    PROVE  CtlInv'
  BY NextConfig, NextListed, NextPlaced, NextPool, NextCalled, NextStacked DEF CtlInv

(* The invariant holds in every state, however requests, tasks and         *)
(* teardowns interleave.                                                   *)
THEOREM CtlInvariant == Spec => []CtlInv
  BY InitCtl, NextCtl, PTL DEF Spec

(* Controller!TypeOK, the type invariant of the runs: entries lie under    *)
(* listed replicas, replicas are listed once and only for services of the  *)
(* file, whatever requests and changes interleave.                         *)
THEOREM ControllerTyped == Spec => []TypeOK
<1>1. CtlInv => TypeOK
  <2>1. SUFFICES ASSUME CtlInv PROVE TypeOK
    OBVIOUS
  <2>2. \A k \in DOMAIN clients : k[2] \in ReplicaSet(k[1]) /\ clients[k] \in Entries
    BY <2>1 DEF CtlInv, Placed
  <2>3. \A r \in Reqs : req[r].net \in NetIds \cup {0}
    BY <2>1 DEF CtlInv, Called, Requests
  <2> QED
    BY <2>1, <2>2, <2>3 DEF CtlInv, TypeOK, IsConfig, Listed, Entries
<1> QED
  BY <1>1, CtlInvariant, PTL
==============================================================================
