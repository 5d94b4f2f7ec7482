-------------------------- MODULE OrchestratorSteps --------------------------
(***************************************************************************)
(* What every step of Orchestrator does to a task, to a channel and to the *)
(* entry of a host: the types, and the few facts from which the layers of  *)
(* ExchangeInv are proved. It begins with lemmas on the queue of a channel *)
(* and the ends its host holds: what sending a message, and reading one,   *)
(* do to what is carried, kept, lasting and apart, whoever sends.          *)
(***************************************************************************)
EXTENDS OrchestratorInv, NetIdPoolProofs, TLAPS

Messages == Setups \cup Teardowns
EndSets == SUBSET Setups

(* A message is a set-up or a teardown, by its kind.                       *)
LEMMA Kinds ==
    /\ \A m \in Setups : m.kind = "setup"
    /\ \A m \in Teardowns : m.kind = "teardown"
    /\ \A m \in Messages : m \in Setups <=> m.kind = "setup"
  BY DEF Setups, Teardowns, Messages

(* What is at a place of a channel is ends.                                *)
LEMMA AtTyped ==
    ASSUME NEW ends \in EndSets, NEW q \in Seq(Messages), NEW i \in 0 .. Len(q)
    PROVE  At(ends, q, i) \subseteq Setups
  BY Kinds DEF At, EndSets

(* p is q with m put at its end; and p is q once its first message, m, has *)
(* been read.                                                              *)
Added(q, m, p) ==
    /\ Len(p) = Len(q) + 1
    /\ \A i \in 1 .. Len(q) : p[i] = q[i]
    /\ p[Len(q) + 1] = m
ReadOff(q, m, p) ==
    /\ Len(q) = Len(p) + 1
    /\ q[1] = m
    /\ \A i \in 1 .. Len(p) : p[i] = q[i + 1]

(* outbound.send puts a message at the end of the queue.                   *)
LEMMA AppendAdds ==
    ASSUME NEW q \in Seq(Messages), NEW m \in Messages
    PROVE  Append(q, m) \in Seq(Messages) /\ Added(q, m, Append(q, m))
<1>1. /\ Append(q, m) \in Seq(Messages) /\ Len(Append(q, m)) = Len(q) + 1
      /\ \A i \in 1 .. Len(q) : Append(q, m)[i] = q[i]
      /\ Append(q, m)[Len(q) + 1] = m
  OBVIOUS
<1> DEFINE p == Append(q, m)
<1> HIDE DEF p
<1>2. /\ p \in Seq(Messages) /\ Len(p) = Len(q) + 1
      /\ \A i \in 1 .. Len(q) : p[i] = q[i]
      /\ p[Len(q) + 1] = m
  BY <1>1 DEF p
<1>3. p \in Seq(Messages) /\ Added(q, m, p)
  BY <1>2 DEF Added
<1> QED
  BY <1>3, Zenon DEF p

(* outbound.recv takes the first message off the queue.                    *)
LEMMA TailReads ==
    ASSUME NEW q \in Seq(Messages), q # <<>>
    PROVE  Tail(q) \in Seq(Messages) /\ Head(q) \in Messages /\ ReadOff(q, Head(q), Tail(q))
<1> DEFINE p == Tail(q)
           h == Head(q)
<1>1. /\ p \in Seq(Messages) /\ h \in Messages
      /\ Len(q) = Len(p) + 1 /\ h = q[1]
      /\ \A i \in 1 .. Len(p) : p[i] = q[i + 1]
  OBVIOUS
<1> HIDE DEF p, h
<1>2. p \in Seq(Messages) /\ h \in Messages /\ ReadOff(q, h, p)
  BY <1>1 DEF ReadOff
<1> QED
  BY <1>2, Zenon DEF p, h

(* A message at the end leaves the other places as they are.               *)
LEMMA AtAdded ==
    ASSUME NEW ends \in EndSets, NEW q \in Seq(Messages), NEW m \in Messages,
           NEW p \in Seq(Messages), Added(q, m, p)
    PROVE  /\ Len(q) \in Nat /\ Len(p) = Len(q) + 1
           /\ \A i \in 0 .. Len(q) : At(ends, p, i) = At(ends, q, i)
           /\ At(ends, p, Len(q) + 1) = {m} \cap Setups
           /\ \A i \in 0 .. Len(q), e \in Setups :
                 Spared(p, i, e) <=> Spared(q, i, e) /\ ~Names(m, e)
           /\ \A e \in Setups : Spared(p, Len(q) + 1, e)
<1>2. /\ Len(p) = Len(q) + 1 /\ Len(q) \in Nat
      /\ \A i \in 1 .. Len(q) : p[i] = q[i]
      /\ p[Len(q) + 1] = m
  BY DEF Added
<1>3. ASSUME NEW i \in 0 .. Len(q) PROVE At(ends, p, i) = At(ends, q, i)
  <2>1. i # 0 => p[i] = q[i]
    BY <1>2
  <2> QED
    BY <2>1, Zenon DEF At
<1>4. At(ends, p, Len(q) + 1) = {m} \cap Setups
  BY <1>2, Kinds DEF At
<1>5. ASSUME NEW i \in 0 .. Len(q), NEW e \in Setups
      PROVE  Spared(p, i, e) <=> Spared(q, i, e) /\ ~Names(m, e)
  BY <1>2 DEF Spared
<1>6. \A e \in Setups : Spared(p, Len(q) + 1, e)
  BY <1>2 DEF Spared
<1> QED
  BY <1>2, <1>3, <1>4, <1>5, <1>6

(* Once the first message has been read, every place is one earlier.       *)
LEMMA AtReadOff ==
    ASSUME NEW ends \in EndSets, NEW q \in Seq(Messages), NEW m \in Messages,
           NEW p \in Seq(Messages), ReadOff(q, m, p)
    PROVE  /\ Len(p) \in Nat /\ Len(q) = Len(p) + 1
           /\ After(ends, m) \in EndSets
           /\ \A i \in 1 .. Len(p) : At(After(ends, m), p, i) = At(ends, q, i + 1)
           /\ \A e \in Setups : /\ e \in At(After(ends, m), p, 0)
                                      <=> (e \in ends /\ ~Names(m, e)) \/ e = m
                                /\ e \in At(ends, q, 0) <=> e \in ends
                                /\ e \in At(ends, q, 1) <=> e = m
           /\ \A i \in 0 .. Len(p), e \in Setups : Spared(p, i, e) <=> Spared(q, i + 1, e)
           /\ \A e \in Setups : Spared(q, 0, e) <=> Spared(q, 1, e) /\ ~Names(m, e)
<1>1. /\ Len(p) \in Nat /\ Len(q) = Len(p) + 1
      /\ q[1] = m
      /\ \A i \in 1 .. Len(p) : p[i] = q[i + 1]
  BY DEF ReadOff
<1>2. ASSUME NEW i \in 1 .. Len(p) PROVE At(After(ends, m), p, i) = At(ends, q, i + 1)
  <2>1. i # 0 /\ i + 1 # 0 /\ p[i] = q[i + 1]
    BY <1>1
  <2> QED
    BY <2>1, Zenon DEF At
<1>3. ASSUME NEW e \in Setups
      PROVE  /\ e \in At(After(ends, m), p, 0) <=> (e \in ends /\ ~Names(m, e)) \/ e = m
             /\ e \in At(ends, q, 0) <=> e \in ends
             /\ e \in At(ends, q, 1) <=> e = m
  <2>1. e \in At(ends, q, 1) <=> e = m
    BY <1>1, Kinds DEF At
  <2>2. m.kind \in {"setup", "teardown"}
    BY Kinds DEF Messages
  <2>3. e \in After(ends, m) <=> (e \in ends /\ ~Names(m, e)) \/ e = m
    BY <2>2, Kinds DEF After, Names
  <2> QED
    BY <2>1, <2>3 DEF At
<1>4. ASSUME NEW i \in 0 .. Len(p), NEW e \in Setups
      PROVE  Spared(p, i, e) <=> Spared(q, i + 1, e)
  <2>1. \A k \in i + 1 .. Len(p) : p[k] = q[k + 1] /\ k + 1 \in (i + 1) + 1 .. Len(q)
    BY <1>1
  <2>2. \A k \in (i + 1) + 1 .. Len(q) : q[k] = p[k - 1] /\ k - 1 \in i + 1 .. Len(p)
    BY <1>1
  <2> QED
    BY <1>1, <2>1, <2>2 DEF Spared
<1>5. \A e \in Setups : Spared(q, 0, e) <=> Spared(q, 1, e) /\ ~Names(m, e)
  BY <1>1 DEF Spared
<1>6. After(ends, m) \in EndSets
  BY Kinds DEF After, Messages, EndSets
<1> QED
  BY <1>1, <1>2, <1>3, <1>4, <1>5, <1>6

------------------------------------------------------------------------------
(* What a channel carries are ends.                                        *)
LEMMA CarriedTyped ==
    ASSUME NEW ends \in EndSets, NEW q \in Seq(Messages)
    PROVE  Carried(ends, q) \subseteq Setups
  BY AtTyped DEF Carried

(* A message at the end adds at most itself to what is carried.            *)
LEMMA CarriedAdded ==
    ASSUME NEW ends \in EndSets, NEW q \in Seq(Messages), NEW m \in Messages,
           NEW p \in Seq(Messages), Added(q, m, p)
    PROVE  Carried(ends, p) \subseteq Carried(ends, q) \cup ({m} \cap Setups)
<1>2. ASSUME NEW i \in 0 .. Len(p)
      PROVE  At(ends, p, i) \subseteq Carried(ends, q) \cup ({m} \cap Setups)
  <2>1. i \in 0 .. Len(q) \/ i = Len(q) + 1
    BY AtAdded
  <2>2. ASSUME i \in 0 .. Len(q) PROVE At(ends, p, i) \subseteq Carried(ends, q)
    BY <2>2, AtAdded DEF Carried
  <2> QED
    BY <2>1, <2>2, AtAdded
<1> QED
  BY <1>2 DEF Carried

(* Reading a message adds nothing to what is carried.                      *)
LEMMA CarriedReadOff ==
    ASSUME NEW ends \in EndSets, NEW q \in Seq(Messages), NEW m \in Messages,
           NEW p \in Seq(Messages), ReadOff(q, m, p)
    PROVE  /\ Carried(After(ends, m), p) \subseteq Carried(ends, q)
           /\ m.kind = "setup" => m \in Carried(ends, q)
<1>0. 0 \in 0 .. Len(q) /\ 1 \in 0 .. Len(q) /\ After(ends, m) \in EndSets
  BY AtReadOff
<1>1. ASSUME NEW i \in 0 .. Len(p), NEW e \in At(After(ends, m), p, i)
      PROVE  e \in Carried(ends, q)
  <2>0. e \in Setups
    BY <1>0, AtTyped
  <2>1. CASE i = 0
    BY <1>0, <2>0, <2>1, AtReadOff DEF Carried
  <2>2. CASE i # 0
    <3>1. i \in 1 .. Len(p) /\ i + 1 \in 0 .. Len(q)
      BY <2>2, AtReadOff
    <3> QED
      BY <3>1, AtReadOff DEF Carried
  <2> QED
    BY <2>1, <2>2
<1>2. m.kind = "setup" => m \in Carried(ends, q)
  BY <1>0, AtReadOff, Kinds DEF Carried
<1> QED
  BY <1>1, <1>2 DEF Carried

(* What a host keeps is carried.                                           *)
LEMMA KeepsCarried ==
    ASSUME NEW ends, NEW q
    PROVE  Keeps(ends, q) \subseteq Carried(ends, q)
  BY DEF Keeps, Carried

(* An empty channel carries nothing.                                       *)
LEMMA CarriedNothing == Carried({}, <<>>) = {}
  BY DEF Carried, At

------------------------------------------------------------------------------
(* A host with nothing to read keeps what it holds.                        *)
LEMMA KeepsNothing ==
    ASSUME NEW ends
    PROVE  Keeps(ends, <<>>) = ends
  BY DEF Keeps, At, Spared

(* A message that is sent has its effect on what the host keeps: a set-up  *)
(* is kept, and what a teardown names is not.                              *)
LEMMA KeepsAdded ==
    ASSUME NEW ends \in EndSets, NEW q \in Seq(Messages), NEW m \in Messages,
           NEW p \in Seq(Messages), Added(q, m, p), NEW e \in Setups
    PROVE  e \in Keeps(ends, p) <=> (e \in Keeps(ends, q) /\ ~Names(m, e)) \/ e = m
<1>1. e \in Keeps(ends, p) <=>
         \E i \in 0 .. Len(q) + 1 : e \in At(ends, p, i) /\ Spared(p, i, e)
  BY AtAdded DEF Keeps
<1>2. \A i \in 0 .. Len(q) + 1 : i \in 0 .. Len(q) \/ i = Len(q) + 1
  BY AtAdded
<1>3. Len(q) + 1 \in 0 .. Len(q) + 1 /\ \A i \in 0 .. Len(q) : i \in 0 .. Len(q) + 1
  BY AtAdded
<1>4. \A i \in 0 .. Len(q) :
         e \in At(ends, p, i) /\ Spared(p, i, e)
            <=> e \in At(ends, q, i) /\ Spared(q, i, e) /\ ~Names(m, e)
  BY AtAdded
<1>5. (e \in At(ends, p, Len(q) + 1) <=> e = m) /\ Spared(p, Len(q) + 1, e)
  BY AtAdded
<1> QED
  BY <1>1, <1>2, <1>3, <1>4, <1>5 DEF Keeps

(* A host that reads a message keeps what it kept: Keeps is what reading   *)
(* the messages one by one leads to.                                       *)
LEMMA KeepsReadOff ==
    ASSUME NEW ends \in EndSets, NEW q \in Seq(Messages), NEW m \in Messages,
           NEW p \in Seq(Messages), ReadOff(q, m, p)
    PROVE  Keeps(After(ends, m), p) = Keeps(ends, q)
<1> DEFINE new == After(ends, m)
<1>1. new \in EndSets /\ Len(p) \in Nat /\ Len(q) = Len(p) + 1
  BY AtReadOff
<1>2. Keeps(new, p) \subseteq Setups /\ Keeps(ends, q) \subseteq Setups
  BY <1>1, KeepsCarried, CarriedTyped
<1> HIDE DEF new
<1>3. ASSUME NEW e \in Setups PROVE e \in Keeps(new, p) <=> e \in Keeps(ends, q)
  <2>1. /\ e \in At(new, p, 0) <=> (e \in ends /\ ~Names(m, e)) \/ e = m
        /\ e \in At(ends, q, 0) <=> e \in ends
        /\ e \in At(ends, q, 1) <=> e = m
    BY AtReadOff DEF new
  <2>2. /\ Spared(q, 0, e) <=> Spared(q, 1, e) /\ ~Names(m, e)
        /\ Spared(p, 0, e) <=> Spared(q, 1, e)
    <3>1. 0 \in 0 .. Len(p) /\ 0 + 1 = 1
      BY <1>1
    <3> QED
      BY <3>1, AtReadOff
  <2>3. \A i \in 1 .. Len(p) : /\ At(new, p, i) = At(ends, q, i + 1)
                               /\ Spared(p, i, e) <=> Spared(q, i + 1, e)
    BY <1>1, AtReadOff DEF new
  <2>4. e \in Keeps(ends, q) <=> \E i \in 0 .. Len(q) : e \in At(ends, q, i) /\ Spared(q, i, e)
    BY DEF Keeps
  <2>5. e \in Keeps(new, p) <=> \E i \in 0 .. Len(p) : e \in At(new, p, i) /\ Spared(p, i, e)
    BY DEF Keeps
  <2>6. ASSUME NEW i \in 0 .. Len(p), e \in At(new, p, i), Spared(p, i, e)
        PROVE  e \in Keeps(ends, q)
    <3>1. CASE i = 0
      BY <1>1, <2>1, <2>2, <2>4, <2>6, <3>1
    <3>2. CASE i # 0
      BY <1>1, <2>3, <2>4, <2>6, <3>2
    <3> QED
      BY <3>1, <3>2
  <2>7. ASSUME NEW i \in 0 .. Len(q), e \in At(ends, q, i), Spared(q, i, e)
        PROVE  e \in Keeps(new, p)
    <3>1. CASE i = 0 \/ i = 1
      BY <1>1, <2>1, <2>2, <2>5, <2>7, <3>1
    <3>2. CASE i \in 2 .. Len(q)
      <4>1. i - 1 \in 1 .. Len(p) /\ i - 1 \in 0 .. Len(p) /\ (i - 1) + 1 = i
        BY <1>1, <3>2
      <4> QED
        BY <2>3, <2>5, <2>7, <4>1
    <3> QED
      BY <1>1, <3>1, <3>2
  <2> QED
    BY <2>4, <2>5, <2>6, <2>7
<1> QED
  BY <1>2, <1>3 DEF new

------------------------------------------------------------------------------
(* An end that nothing takes away stays so when a message that does not    *)
(* name it is sent.                                                        *)
LEMMA LastingAdded ==
    ASSUME NEW ends \in EndSets, NEW q \in Seq(Messages), NEW m \in Messages,
           NEW p \in Seq(Messages), Added(q, m, p), NEW e \in Setups,
           Lasting(ends, q, e), ~Names(m, e)
    PROVE  Lasting(ends, p, e)
<1>1. \A i \in 0 .. Len(p) : i \in 0 .. Len(q) \/ i = Len(q) + 1
  BY AtAdded
<1>2. \A i \in 0 .. Len(q) : e \in At(ends, p, i) => Spared(p, i, e)
  BY AtAdded DEF Lasting
<1>3. Spared(p, Len(q) + 1, e)
  BY AtAdded
<1> QED
  BY <1>1, <1>2, <1>3 DEF Lasting

(* An end that nothing takes away stays so, and installed, when a message  *)
(* is read; and a set-up that is read is installed.                        *)
LEMMA LastingReadOff ==
    ASSUME NEW ends \in EndSets, NEW q \in Seq(Messages), NEW m \in Messages,
           NEW p \in Seq(Messages), ReadOff(q, m, p), NEW e \in Setups, Lasting(ends, q, e)
    PROVE  /\ Lasting(After(ends, m), p, e)
           /\ e \in ends => e \in After(ends, m)
           /\ m.kind = "setup" => m \in After(ends, m)
<1> DEFINE new == After(ends, m)
<1>1. Len(p) \in Nat /\ Len(q) = Len(p) + 1 /\ new \in EndSets
  BY AtReadOff
<1>2. /\ e \in At(new, p, 0) <=> (e \in ends /\ ~Names(m, e)) \/ e = m
      /\ e \in At(ends, q, 0) <=> e \in ends
      /\ e \in At(ends, q, 1) <=> e = m
  BY AtReadOff
<1>3. /\ Spared(q, 0, e) <=> Spared(q, 1, e) /\ ~Names(m, e)
      /\ Spared(p, 0, e) <=> Spared(q, 1, e)
  <2>1. 0 \in 0 .. Len(p) /\ 0 + 1 = 1
    BY <1>1
  <2> QED
    BY <2>1, AtReadOff
<1>4. \A i \in 1 .. Len(p) : /\ At(new, p, i) = At(ends, q, i + 1)
                             /\ Spared(p, i, e) <=> Spared(q, i + 1, e)
  BY <1>1, AtReadOff
<1> HIDE DEF new
<1>5. \A i \in 0 .. Len(q) : e \in At(ends, q, i) => Spared(q, i, e)
  BY DEF Lasting
<1>6. e \in At(new, p, 0) => Spared(p, 0, e)
  BY <1>1, <1>2, <1>3, <1>5
<1>7. \A i \in 1 .. Len(p) : e \in At(new, p, i) => Spared(p, i, e)
  BY <1>1, <1>4, <1>5
<1>8. Lasting(new, p, e)
  BY <1>1, <1>6, <1>7 DEF Lasting
<1>9. e \in ends => e \in At(new, p, 0)
  BY <1>1, <1>2, <1>3, <1>5
<1>10. At(new, p, 0) = new
  BY DEF At
<1>11. m.kind = "setup" => m \in new
  BY DEF After, new
<1> QED
  BY <1>8, <1>9, <1>10, <1>11 DEF new

(* Nothing takes an end away that is not there.                            *)
LEMMA LastingNothing ==
    ASSUME NEW ends \in EndSets, NEW q \in Seq(Messages), NEW e, e \notin Carried(ends, q)
    PROVE  Lasting(ends, q, e)
  BY DEF Lasting, Carried

------------------------------------------------------------------------------
(* Networks stay apart when what is sent agrees with what the host keeps.  *)
LEMMA ApartAdded ==
    ASSUME NEW ends \in EndSets, NEW q \in Seq(Messages), NEW m \in Messages,
           NEW p \in Seq(Messages), Added(q, m, p), Apart(ends, q),
           m \in Setups => \A e \in Keeps(ends, q) : e.id = m.id => SameNet(e, m)
    PROVE  Apart(ends, p)
<1>1. /\ Len(q) \in Nat /\ Len(p) = Len(q) + 1
      /\ \A i \in 0 .. Len(q) : At(ends, p, i) = At(ends, q, i)
      /\ At(ends, p, Len(q) + 1) = {m} \cap Setups
  BY AtAdded
<1>2. \A k \in 1 .. Len(q) : p[k] = q[k]
  BY DEF Added
<1>3. SUFFICES ASSUME NEW j \in 0 .. Len(p), NEW i \in 0 .. j,
                      NEW e \in At(ends, p, i), NEW f \in At(ends, p, j),
                      e.id = f.id, \A k \in i + 1 .. j : ~Names(p[k], e)
               PROVE  SameNet(e, f)
  BY DEF Apart
<1>4. e \in Setups /\ f \in Setups
  BY <1>1, AtTyped
<1>5. CASE j \in 0 .. Len(q)
  <2>1. e \in At(ends, q, i) /\ f \in At(ends, q, j)
    BY <1>1, <1>5
  <2>2. \A k \in i + 1 .. j : ~Names(q[k], e)
    BY <1>1, <1>2, <1>3, <1>5
  <2> QED
    BY <1>3, <1>5, <2>1, <2>2 DEF Apart
<1>6. CASE j = Len(q) + 1 /\ i \in 0 .. Len(q)
  <2>1. f = m /\ e \in At(ends, q, i)
    BY <1>1, <1>6
  <2>2. Spared(q, i, e)
    BY <1>1, <1>2, <1>3, <1>6 DEF Spared
  <2>3. e \in Keeps(ends, q)
    BY <1>6, <2>1, <2>2 DEF Keeps
  <2> QED
    BY <1>3, <1>4, <2>1, <2>3
<1>7. CASE j = Len(q) + 1 /\ i = Len(q) + 1
  BY <1>1, <1>7 DEF SameNet
<1> QED
  BY <1>1, <1>5, <1>6, <1>7

(* Networks stay apart when a message is read.                             *)
LEMMA ApartReadOff ==
    ASSUME NEW ends \in EndSets, NEW q \in Seq(Messages), NEW m \in Messages,
           NEW p \in Seq(Messages), ReadOff(q, m, p), Apart(ends, q)
    PROVE  Apart(After(ends, m), p)
<1> DEFINE new == After(ends, m)
<1>1. /\ Len(p) \in Nat /\ Len(q) = Len(p) + 1 /\ new \in EndSets
      /\ \A i \in 1 .. Len(p) : At(new, p, i) = At(ends, q, i + 1)
      /\ \A x \in Setups : /\ x \in At(new, p, 0) <=> (x \in ends /\ ~Names(m, x)) \/ x = m
                           /\ x \in At(ends, q, 0) <=> x \in ends
                           /\ x \in At(ends, q, 1) <=> x = m
  BY AtReadOff
<1> HIDE DEF new
<1>2. q[1] = m /\ \A k \in 1 .. Len(p) : p[k] = q[k + 1]
  BY DEF ReadOff
<1>3. SUFFICES ASSUME NEW j \in 0 .. Len(p), NEW i \in 0 .. j,
                      NEW e \in At(new, p, i), NEW f \in At(new, p, j),
                      e.id = f.id, \A k \in i + 1 .. j : ~Names(p[k], e)
               PROVE  SameNet(e, f)
  BY DEF Apart, new
<1>4. e \in Setups /\ f \in Setups
  BY <1>1, AtTyped
<1>5. ASSUME NEW b \in 0 .. Len(q), NEW a \in 0 .. b, e \in At(ends, q, a), f \in At(ends, q, b),
             \A k \in a + 1 .. b : ~Names(q[k], e)
      PROVE  SameNet(e, f)
  BY <1>3, <1>5 DEF Apart
<1>6. ASSUME NEW b \in 0 .. Len(q), NEW a \in 0 .. b, f \in At(ends, q, a), e \in At(ends, q, b),
             \A k \in a + 1 .. b : ~Names(q[k], f)
      PROVE  SameNet(e, f)
  BY <1>3, <1>6 DEF Apart, SameNet
<1>7. \A k \in (i + 1) + 1 .. j + 1 : ~Names(q[k], e)
  <2>1. \A k \in (i + 1) + 1 .. j + 1 : k - 1 \in i + 1 .. j /\ k - 1 \in 1 .. Len(p) /\ (k - 1) + 1 = k
    BY <1>1
  <2> QED
    BY <1>2, <1>3, <2>1
<1>8. CASE i # 0
  <2>1. e \in At(ends, q, i + 1) /\ f \in At(ends, q, j + 1)
    BY <1>1, <1>8
  <2>2. j + 1 \in 0 .. Len(q) /\ i + 1 \in 0 .. j + 1
    BY <1>1
  <2> QED
    BY <1>5, <1>7, <2>1, <2>2
<1>9. CASE i = 0 /\ j # 0
  <2>1. f \in At(ends, q, j + 1) /\ j + 1 \in 0 .. Len(q) /\ 1 \in 0 .. j + 1 /\ 0 \in 0 .. j + 1
    BY <1>1, <1>9
  <2>2. CASE e = m
    BY <1>1, <1>4, <1>5, <1>7, <1>9, <2>1, <2>2
  <2>3. CASE e \in ends /\ ~Names(m, e)
    <3>1. \A k \in 0 + 1 .. j + 1 : k = 1 \/ k \in (i + 1) + 1 .. j + 1
      BY <1>1, <1>9
    <3>2. \A k \in 0 + 1 .. j + 1 : ~Names(q[k], e)
      BY <1>2, <1>7, <2>3, <3>1
    <3> QED
      BY <1>1, <1>4, <1>5, <2>1, <2>3, <3>2
  <2> QED
    BY <1>1, <1>3, <1>4, <1>9, <2>2, <2>3
<1>10. CASE i = 0 /\ j = 0
  <2>0. 0 \in 0 .. Len(q) /\ 1 \in 0 .. Len(q) /\ 0 \in 0 .. 1 /\ 0 \in 0 .. 0
    BY <1>1
  <2>1. CASE e \in ends /\ f \in ends
    BY <1>1, <1>4, <1>5, <2>0, <2>1
  <2>2. CASE e \in ends /\ ~Names(m, e) /\ f = m
    <3>1. \A k \in 0 + 1 .. 1 : ~Names(q[k], e)
      BY <1>2, <2>2
    <3> QED
      BY <1>1, <1>4, <1>5, <2>0, <2>2, <3>1
  <2>3. CASE f \in ends /\ ~Names(m, f) /\ e = m
    <3>1. \A k \in 0 + 1 .. 1 : ~Names(q[k], f)
      BY <1>2, <2>3
    <3> QED
      BY <1>1, <1>4, <1>6, <2>0, <2>3, <3>1
  <2>4. CASE e = m /\ f = m
    BY <2>4 DEF SameNet
  <2> QED
    BY <1>1, <1>3, <1>4, <1>10, <2>1, <2>2, <2>3, <2>4
<1> QED
  BY <1>1, <1>8, <1>9, <1>10

(* Networks that are not there are apart.                                  *)
LEMMA ApartNothing == Apart({}, <<>>)
  BY DEF Apart, At
------------------------------------------------------------------------------

(* A channel is a host and one of the numbers it may open.                 *)
LEMMA ChannelParts ==
    /\ \A h \in Hosts : \A n \in 1 .. MaxOpens[h] : <<h, n>> \in Channels
    /\ \A ch \in Channels : /\ ch[1] \in Hosts /\ ch[2] \in 1 .. MaxOpens[ch[1]]
                            /\ ch = <<ch[1], ch[2]>>
  BY OrchestratorConstants DEF Channels

(* The state Orchestrator::new leaves is typed.                            *)
LEMMA InitTypeOK == Init => TypeOK
<1> SUFFICES ASSUME Init PROVE TypeOK
  OBVIOUS
<1>1. pool \in Pools
  BY PoolBounds DEF Init, NewPool, Pools
<1>2. /\ clients \in [Hosts -> Channels \cup {None}]
      /\ opened \in [Hosts -> Nat]
      /\ inbound \in [Channels -> {"unused", "open", "ended", "removed"}]
  <2>1. \A h \in Hosts : <<h, 1>> \in Channels
    BY ChannelParts, OrchestratorConstants
  <2> QED
    BY <2>1 DEF Init
<1>3. /\ pending \subseteq MsgIds /\ closing \subseteq Hosts
      /\ queue \in [Channels -> Seq(Setups \cup Teardowns)]
      /\ acks \in [Channels -> SUBSET MsgIds]
      /\ held \in [Channels -> SUBSET Setups]
      /\ \A ch \in Channels : Len(queue[ch]) <= Capacity
  BY OrchestratorConstants DEF Init
<1>4. IdleTask \in TaskStates /\ IdleTask.pc = "idle"
  BY DEF IdleTask, TaskStates, Sends, NoSend, Sides
<1>5. task = [t \in Tasks |-> IdleTask] /\ sweep = {}
  BY DEF Init
<1> QED
  BY <1>1, <1>2, <1>3, <1>4, <1>5 DEF TypeOK

(* The bytes of an address are u8 values (net.rs, to_be_bytes and the      *)
(* addition to the last byte).                                             *)
LEMMA AddrTyped ==
    ASSUME NEW id \in Nat, NEW slot \in Nat
    PROVE  Addr(id, slot) \in Addresses
<1>1. \A n \in Nat : Byte(n) \in 0 .. 255
  BY SMT DEF Byte
<1>2. id * Width \in Nat
  BY DEF Width
<1> DEFINE o == id * Width
<1>3. o \div 65536 \in Nat /\ o \div 256 \in Nat
  <2> HIDE DEF o
  <2> QED BY <1>2, SMT DEF o
<1>4. Byte(o) + slot \in Nat
  BY <1>1, <1>2, SMT
<1> QED
  BY <1>1, <1>2, <1>3, <1>4 DEF Addr, Addresses

(* What Net::setup makes of an identifier is a set-up message.             *)
LEMMA SetupTyped ==
    ASSUME NEW msg \in MsgIds, NEW side \in Sides, NEW id \in NetIds, NEW docker
    PROVE  Setup(msg, side, id, docker) \in Setups
<1>1. id \in Nat
  BY PoolBounds DEF NetIds
<1>2. LocalSlots(side) \subseteq Nat /\ ServerSlot(docker) \in Nat
  BY DEF LocalSlots, ServerSlot
<1>3. \A slot \in LocalSlots(side) : Addr(id, slot) \in Addresses
  BY <1>1, <1>2, AddrTyped
<1>4. Addr(id, ServerSlot(docker)) \in Addresses
  BY <1>1, <1>2, AddrTyped
<1> QED
  BY <1>3, <1>4 DEF Setup, Setups

(* What Net::teardown makes of an identifier is a teardown message.        *)
LEMMA TeardownTyped ==
    ASSUME NEW side \in Sides, NEW id \in NetIds
    PROVE  Teardown(side, id) \in Teardowns
  BY DEF Teardown, Teardowns

------------------------------------------------------------------------------
(* What a task is, apart from its two set-up calls. *)
SameControl(t) ==
    /\ task'[t].pc = task[t].pc /\ task'[t].round = task[t].round
    /\ task'[t].net = task[t].net
SameLeg(t) == task'[t].leg = task[t].leg /\ task'[t].ch = task[t].ch
SendSet(t, side, s) == task' = [task EXCEPT ![t].send[side] = s]

(* One of a task's two set-up calls changes, and nothing else about the    *)
(* task.                                                                   *)
LEMMA SendStep ==
    ASSUME TypeOK, NEW t \in Tasks, NEW side \in Sides, NEW s \in Sends, SendSet(t, side, s)
    PROVE  /\ task' \in [Tasks -> TaskStates]
           /\ \A u \in Tasks : SameControl(u) /\ SameLeg(u)
           /\ \A u \in Tasks, x \in Sides :
                 task'[u].send[x] = IF u = t /\ x = side THEN s ELSE task[u].send[x]
<1> DEFINE send == [task[t].send EXCEPT ![side] = s]
           new == [task[t] EXCEPT !.send = send]
<1>1. task[t] \in TaskStates
  BY DEF TypeOK
<1>2. /\ send \in [Sides -> Sends]
      /\ \A x \in Sides : send[x] = IF x = side THEN s ELSE task[t].send[x]
  BY <1>1 DEF TaskStates
<1>3. task' = [task EXCEPT ![t] = new]
  BY DEF SendSet
<1> HIDE DEF send
<1>4. /\ new \in TaskStates /\ new.pc = task[t].pc /\ new.round = task[t].round
      /\ new.net = task[t].net /\ new.leg = task[t].leg /\ new.ch = task[t].ch
      /\ new.send = send
  BY <1>1, <1>2 DEF TaskStates
<1> HIDE DEF new
<1>5. /\ task' \in [Tasks -> TaskStates] /\ task'[t] = new
      /\ \A u \in Tasks \ {t} : task'[u] = task[u]
  BY <1>3, <1>4 DEF TypeOK
<1> QED
  BY <1>2, <1>4, <1>5 DEF SameControl, SameLeg

(* One of a task's two set-up calls goes on, on the channel it has.        *)
LEMMA GotoStep ==
    ASSUME TypeOK, NEW t \in Tasks, NEW side \in Sides,
           NEW pc \in {"send", "wait", "expired", "acked", "none"}, SendGoto(t, side, pc)
    PROVE  /\ task' \in [Tasks -> TaskStates]
           /\ \A u \in Tasks : SameControl(u) /\ SameLeg(u)
           /\ \A u \in Tasks, x \in Sides :
                 /\ task'[u].send[x].ch = task[u].send[x].ch
                 /\ task'[u].send[x].pc = IF u = t /\ x = side THEN pc ELSE task[u].send[x].pc
<1> DEFINE s == [pc |-> pc, ch |-> task[t].send[side].ch]
<1>1. task[t].send[side] \in Sends
  BY DEF TypeOK, TaskStates
<1>2. [task[t].send[side] EXCEPT !.pc = pc] = s /\ s \in Sends
  BY <1>1 DEF Sends
<1>3. SendSet(t, side, s)
  BY <1>2 DEF SendGoto, SendSet, TypeOK
<1>4. s.pc = pc /\ s.ch = task[t].send[side].ch
  OBVIOUS
<1> HIDE DEF s
<1>5. /\ task' \in [Tasks -> TaskStates]
      /\ \A u \in Tasks : SameControl(u) /\ SameLeg(u)
      /\ \A u \in Tasks, x \in Sides :
            task'[u].send[x] = IF u = t /\ x = side THEN s ELSE task[u].send[x]
  BY <1>2, <1>3, SendStep
<1> QED
  BY <1>4, <1>5

(* A task is replaced by another state of it.                              *)
LEMMA ReplaceStep ==
    ASSUME TypeOK, NEW t \in Tasks, NEW new \in TaskStates, task' = [task EXCEPT ![t] = new]
    PROVE  /\ task' \in [Tasks -> TaskStates]
           /\ task'[t] = new
           /\ \A u \in Tasks \ {t} : task'[u] = task[u]
  BY DEF TypeOK

(* A task goes on, and its calls are left alone.                           *)
LEMMA PcStep ==
    ASSUME TypeOK, NEW t \in Tasks, NEW pc \in {"setup", "rollback", "abandoned", "up", "down"},
           task' = [task EXCEPT ![t].pc = pc]
    PROVE  /\ task' \in [Tasks -> TaskStates]
           /\ task'[t].pc = pc /\ task'[t].round = task[t].round /\ task'[t].net = task[t].net
           /\ \A u \in Tasks : SameLeg(u) /\ task'[u].send = task[u].send
           /\ \A u \in Tasks \ {t} : task'[u] = task[u]
<1> DEFINE new == [task[t] EXCEPT !.pc = pc]
<1>1. /\ new \in TaskStates /\ new.pc = pc /\ new.round = task[t].round /\ new.net = task[t].net
      /\ new.leg = task[t].leg /\ new.ch = task[t].ch /\ new.send = task[t].send
  BY DEF TypeOK, TaskStates
<1>2. task' = [task EXCEPT ![t] = new]
  OBVIOUS
<1> HIDE DEF new
<1> QED
  BY <1>1, <1>2, ReplaceStep DEF SameLeg

(* send_net_teardown is done with one end and goes to the next.            *)
LEMMA LegStep ==
    ASSUME TypeOK, NEW t \in Tasks, LegDone(t)
    PROVE  /\ task' \in [Tasks -> TaskStates]
           /\ task'[t].leg = NextLeg(task[t].leg) /\ task'[t].ch = None
           /\ \A u \in Tasks : SameControl(u) /\ task'[u].send = task[u].send
           /\ \A u \in Tasks \ {t} : task'[u] = task[u]
<1> DEFINE new == [[task[t] EXCEPT !.leg = NextLeg(@)] EXCEPT !.ch = None]
<1>1. NextLeg(task[t].leg) \in Sides \cup {"free"}
  BY DEF NextLeg, Sides
<1>2. /\ new \in TaskStates /\ new.pc = task[t].pc /\ new.round = task[t].round
      /\ new.net = task[t].net
      /\ new.leg = NextLeg(task[t].leg) /\ new.ch = None /\ new.send = task[t].send
  BY <1>1 DEF TypeOK, TaskStates
<1>3. task' = [task EXCEPT ![t] = new]
  BY DEF LegDone, TypeOK
<1> HIDE DEF new
<1> QED
  BY <1>2, <1>3, ReplaceStep DEF SameControl

(* send_net_teardown has looked up the channel of an end.                  *)
LEMMA LookupStep ==
    ASSUME TypeOK, NEW t \in Tasks, NEW ch \in Channels, task' = [task EXCEPT ![t].ch = ch]
    PROVE  /\ task' \in [Tasks -> TaskStates]
           /\ task'[t].leg = task[t].leg /\ task'[t].ch = ch
           /\ \A u \in Tasks : SameControl(u) /\ task'[u].send = task[u].send
           /\ \A u \in Tasks \ {t} : task'[u] = task[u]
<1> DEFINE new == [task[t] EXCEPT !.ch = ch]
<1>1. /\ new \in TaskStates /\ new.pc = task[t].pc /\ new.round = task[t].round
      /\ new.net = task[t].net
      /\ new.leg = task[t].leg /\ new.ch = ch /\ new.send = task[t].send
  BY DEF TypeOK, TaskStates
<1>2. task' = [task EXCEPT ![t] = new]
  OBVIOUS
<1> HIDE DEF new
<1> QED
  BY <1>1, <1>2, ReplaceStep DEF SameControl

(* A task is over, and its next round may start.                           *)
LEMMA FreeStep ==
    ASSUME TypeOK, NEW t \in Tasks,
           task' = [task EXCEPT ![t] = [IdleTask EXCEPT !.round = task[t].round]]
    PROVE  /\ task' \in [Tasks -> TaskStates]
           /\ task'[t].pc = "idle" /\ task'[t].round = task[t].round
           /\ task'[t].leg = "client" /\ task'[t].ch = None
           /\ \A x \in Sides : task'[t].send[x] = NoSend
           /\ \A u \in Tasks \ {t} : task'[u] = task[u]
  BY DEF TypeOK, TaskStates, IdleTask, Sends, NoSend, Sides

(* allocate_net_id: a round starts with a new identifier and two calls     *)
(* that have not looked anything up.                                       *)
LEMMA AllocateStep ==
    ASSUME TypeOK, NEW t \in Tasks, AllocateNetId(t)
    PROVE  \E id \in NetIds :
           /\ task[t].pc = "idle"
           /\ IsNextId(pool, id) /\ pool' = Allocate(pool, id)
           /\ task' \in [Tasks -> TaskStates]
           /\ task'[t].pc = "setup" /\ task'[t].round = task[t].round + 1
           /\ task'[t].net = id /\ task'[t].leg = "client" /\ task'[t].ch = None
           /\ \A x \in Sides : task'[t].send[x] = [pc |-> "lookup", ch |-> None]
           /\ \A u \in Tasks \ {t} : task'[u] = task[u]
           /\ UNCHANGED <<clients, pending, hostVars, closing, sweep>>
<1> DEFINE looking == [side \in Sides |-> [NoSend EXCEPT !.pc = "lookup"]]
<1>1. PICK id \in NetIds :
        /\ task[t].pc = "idle"
        /\ IsNextId(pool, id) /\ pool' = Allocate(pool, id)
        /\ task' = [task EXCEPT ![t] = [IdleTask EXCEPT
               !.pc = "setup", !.round = task[t].round + 1, !.net = id, !.send = looking]]
        /\ UNCHANGED <<clients, pending, hostVars, closing, sweep>>
  BY DEF AllocateNetId
<1> DEFINE new == [IdleTask EXCEPT
             !.pc = "setup", !.round = task[t].round + 1, !.net = id, !.send = looking]
<1>2. IdleTask \in TaskStates /\ IdleTask.leg = "client" /\ IdleTask.ch = None
  BY DEF IdleTask, TaskStates, Sends, NoSend, Sides
<1>3. \A x \in Sides : looking[x] = [pc |-> "lookup", ch |-> None]
  BY DEF NoSend
<1>4. looking \in [Sides -> Sends]
  BY DEF NoSend, Sends
<1>5. /\ new \in TaskStates
      /\ new.pc = "setup" /\ new.round = task[t].round + 1 /\ new.net = id
      /\ new.leg = "client" /\ new.ch = None /\ new.send = looking
  <2>1. task[t].round + 1 \in Nat
    BY DEF TypeOK, TaskStates
  <2> HIDE DEF looking
  <2> QED BY <1>2, <1>4, <2>1 DEF TaskStates
<1>6. task' = [task EXCEPT ![t] = new]
  BY <1>1, Zenon
<1>7. /\ task' \in [Tasks -> TaskStates]
      /\ task'[t] = new
      /\ \A u \in Tasks \ {t} : task'[u] = task[u]
  <2> HIDE DEF new
  <2> QED BY <1>5, <1>6 DEF TypeOK
<1>8. /\ task'[t].pc = "setup" /\ task'[t].round = task[t].round + 1
      /\ task'[t].net = id /\ task'[t].leg = "client" /\ task'[t].ch = None
      /\ \A x \in Sides : task'[t].send[x] = [pc |-> "lookup", ch |-> None]
  <2> HIDE DEF looking
  <2> QED BY <1>3, <1>5, <1>7
<1> QED
  BY <1>1, <1>7, <1>8, Zenon

(* An acknowledgement wakes the call that waits for it, and no other (the  *)
(* inbound task of control_channel).                                       *)
LEMMA AckStep ==
    ASSUME TypeOK, NEW ch \in Channels, AckArrives(ch)
    PROVE  \E msg \in acks[ch] :
           /\ inbound[ch] = "open"
           /\ acks' = [acks EXCEPT ![ch] = @ \ {msg}] /\ pending' = pending \ {msg}
           /\ task' \in [Tasks -> TaskStates]
           /\ \A u \in Tasks : SameControl(u) /\ SameLeg(u)
           /\ \A u \in Tasks, x \in Sides :
                 /\ task'[u].send[x].ch = task[u].send[x].ch
                 /\ task'[u].send[x].pc =
                       IF msg \in pending /\ msg = MsgId(u, x) /\ AtSend(u, x, "wait")
                           THEN "acked" ELSE task[u].send[x].pc
           /\ UNCHANGED <<pool, clients, opened, inbound, queue, held, closing, sweep>>
<1> DEFINE Woken(msg, u, x) ==
             msg \in pending /\ msg = MsgId(u, x) /\ AtSend(u, x, "wait")
           Calls(msg, u) == [x \in Sides |->
             IF Woken(msg, u, x) THEN [task[u].send[x] EXCEPT !.pc = "acked"]
                                 ELSE task[u].send[x]]
<1>1. PICK msg \in acks[ch] :
        /\ acks' = [acks EXCEPT ![ch] = @ \ {msg}]
        /\ pending' = pending \ {msg}
        /\ task' = [u \in Tasks |-> [task[u] EXCEPT !.send = Calls(msg, u)]]
  BY DEF AckArrives
<1>2. ASSUME NEW u \in Tasks, NEW x \in Sides
      PROVE  /\ [task[u].send[x] EXCEPT !.pc = "acked"].pc = "acked"
             /\ [task[u].send[x] EXCEPT !.pc = "acked"].ch = task[u].send[x].ch
             /\ Calls(msg, u)[x] \in Sends
  <2>1. task[u].send[x] \in Sends
    BY DEF TypeOK, TaskStates
  <2>2. /\ [task[u].send[x] EXCEPT !.pc = "acked"].pc = "acked"
        /\ [task[u].send[x] EXCEPT !.pc = "acked"].ch = task[u].send[x].ch
        /\ [task[u].send[x] EXCEPT !.pc = "acked"] \in Sends
    BY <2>1 DEF Sends
  <2> HIDE DEF Woken
  <2> QED
    BY <2>1, <2>2
<1>3. ASSUME NEW u \in Tasks PROVE Calls(msg, u) \in [Sides -> Sends]
  BY <1>2
<1>4. ASSUME NEW u \in Tasks
      PROVE  /\ task'[u] \in TaskStates /\ task'[u].send = Calls(msg, u)
             /\ SameControl(u) /\ SameLeg(u)
  <2> HIDE DEF Calls
  <2> QED BY <1>1, <1>3 DEF TypeOK, TaskStates, SameControl, SameLeg
<1>5. task' \in [Tasks -> TaskStates]
  BY <1>1, <1>4
<1>6. ASSUME NEW u \in Tasks, NEW x \in Sides
      PROVE  /\ task'[u].send[x].ch = task[u].send[x].ch
             /\ task'[u].send[x].pc =
                   IF Woken(msg, u, x) THEN "acked" ELSE task[u].send[x].pc
  <2>1. task'[u].send[x] = Calls(msg, u)[x]
    BY <1>4
  <2>2. Calls(msg, u)[x] = IF Woken(msg, u, x)
                               THEN [task[u].send[x] EXCEPT !.pc = "acked"]
                               ELSE task[u].send[x]
    BY Zenon
  <2> HIDE DEF Calls, Woken
  <2>3. CASE Woken(msg, u, x)
    <3>1. task'[u].send[x] = [task[u].send[x] EXCEPT !.pc = "acked"]
      BY <2>1, <2>2, <2>3, Zenon
    <3> QED
      BY <1>2, <2>3, <3>1
  <2>4. CASE ~Woken(msg, u, x)
    <3>1. task'[u].send[x] = task[u].send[x]
      BY <2>1, <2>2, <2>4, Zenon
    <3> QED
      BY <2>4, <3>1
  <2> QED
    BY <2>3, <2>4
<1> QED
  BY <1>1, <1>4, <1>5, <1>6 DEF AckArrives

(* A message that is put on a channel with room keeps the queue typed and  *)
(* within its capacity.                                                    *)
LEMMA PutTyped ==
    ASSUME TypeOK, NEW ch \in Channels, NEW message \in Setups \cup Teardowns,
           Len(queue[ch]) < Capacity, Put(ch, message)
    PROVE  /\ queue' \in [Channels -> Seq(Setups \cup Teardowns)]
           /\ \A c \in Channels : Len(queue'[c]) <= Capacity
           /\ queue'[ch] = Append(queue[ch], message)
           /\ \A c \in Channels \ {ch} : queue'[c] = queue[c]
<1>1. Append(queue[ch], message) \in Seq(Setups \cup Teardowns)
  BY DEF TypeOK
<1>2. Len(Append(queue[ch], message)) = Len(queue[ch]) + 1
  BY DEF TypeOK
<1> QED
  BY <1>1, <1>2, OrchestratorConstants DEF TypeOK, Put

------------------------------------------------------------------------------
(* Every step keeps the types. Lookups is needed because a message goes to *)
(* the channel that was looked up, Routes because a new channel is one of  *)
(* those a host may open, and WellFormed because the pool hands out what   *)
(* is in its range.                                                        *)
LEMMA NextTypeOK == TypeOK /\ Lookups /\ Routes /\ WellFormed(pool) /\ [Next]_vars => TypeOK'
<1> SUFFICES ASSUME TypeOK, Lookups, Routes, WellFormed(pool), [Next]_vars PROVE TypeOK'
  OBVIOUS
<1> USE DEF hostVars
<1>1. ASSUME NEW t \in Tasks, AllocateNetId(t) PROVE TypeOK'
  <2>1. PICK id \in NetIds :
           /\ task[t].pc = "idle"
           /\ IsNextId(pool, id) /\ pool' = Allocate(pool, id)
           /\ task' \in [Tasks -> TaskStates]
           /\ task'[t].net = id
           /\ \A u \in Tasks \ {t} : task'[u] = task[u]
           /\ UNCHANGED <<clients, pending, hostVars, closing, sweep>>
    BY <1>1, AllocateStep
  <2>2. pool' \in Pools
    BY <2>1, AllocateGrants DEF TypeOK
  <2> QED
    BY <2>1, <2>2 DEF TypeOK
<1>2. ASSUME NEW t \in Tasks, NEW side \in Sides, SetupLookup(t, side) PROVE TypeOK'
  <2>0. clients[EndsOf[t][side]] \in Channels \cup {None}
    BY OrchestratorConstants DEF TypeOK
  <2>1. CASE clients[EndsOf[t][side]] = None
    <3>1. SendGoto(t, side, "none") /\ UNCHANGED <<pool, clients, pending, hostVars, closing, sweep>>
      BY <1>2, <2>1 DEF SetupLookup
    <3>2. task' \in [Tasks -> TaskStates] /\ \A u \in Tasks : SameControl(u)
      BY <3>1, GotoStep
    <3> QED
      BY <3>1, <3>2 DEF TypeOK, SameControl
  <2>2. CASE clients[EndsOf[t][side]] # None
    <3> DEFINE s == [pc |-> "send", ch |-> clients[EndsOf[t][side]]]
    <3>1. /\ SendSet(t, side, s)
          /\ pending' = pending \cup {MsgId(t, side)}
          /\ UNCHANGED <<pool, clients, hostVars, closing, sweep>>
      BY <1>2, <2>2 DEF SetupLookup, SendSet
    <3>2. s \in Sends
      BY <2>0, <2>2 DEF Sends
    <3>3. MsgId(t, side) \in MsgIds
      BY DEF MsgId, MsgIds, TypeOK, TaskStates
    <3> HIDE DEF s
    <3>4. task' \in [Tasks -> TaskStates] /\ \A u \in Tasks : SameControl(u)
      BY <3>1, <3>2, SendStep
    <3> QED
      BY <3>1, <3>3, <3>4 DEF TypeOK, SameControl
  <2> QED
    BY <2>1, <2>2
<1>3. ASSUME NEW t \in Tasks, NEW side \in Sides, SetupSend(t, side) PROVE TypeOK'
  <2> DEFINE ch == task[t].send[side].ch
             message == Setup(MsgId(t, side), side, task[t].net, DockerOf[t])
  <2>0. task[t].pc = "setup" /\ task[t].send[side].pc = "send"
    BY <1>3 DEF SetupSend, AtSend
  <2>1. ch \in Channels
    BY <2>0 DEF TypeOK, TaskStates, Sends, Lookups, LookedUp
  <2>2. message \in Setups
    BY <2>0, SetupTyped DEF MsgId, MsgIds, TypeOK, TaskStates
  <2>3. CASE Broken(ch)
    <3>1. /\ SendGoto(t, side, "none")
          /\ pending' = pending \ {MsgId(t, side)} /\ UNCHANGED queue
          /\ UNCHANGED <<pool, clients, opened, inbound, acks, held, closing, sweep>>
      BY <1>3, <2>3 DEF SetupSend
    <3>2. task' \in [Tasks -> TaskStates] /\ \A u \in Tasks : SameControl(u)
      BY <3>1, GotoStep
    <3> QED
      BY <3>1, <3>2 DEF TypeOK, SameControl
  <2>4. CASE ~Broken(ch)
    <3>1. /\ Room(ch) /\ Put(ch, message) /\ SendGoto(t, side, "wait")
          /\ UNCHANGED <<pool, clients, pending, opened, inbound, acks, held, closing, sweep>>
      BY <1>3, <2>4 DEF SetupSend
    <3>2. task' \in [Tasks -> TaskStates] /\ \A u \in Tasks : SameControl(u)
      BY <3>1, GotoStep
    <3> HIDE DEF ch, message
    <3>3. /\ queue' \in [Channels -> Seq(Setups \cup Teardowns)]
          /\ \A c \in Channels : Len(queue'[c]) <= Capacity
      BY <2>1, <2>2, <3>1, PutTyped DEF Room
    <3> QED
      BY <3>1, <3>2, <3>3 DEF TypeOK, SameControl
  <2> QED
    BY <2>3, <2>4
<1>4. ASSUME NEW t \in Tasks, NEW side \in Sides,
             SetupTimeout(t, side) \/ SetupExpired(t, side)
      PROVE  TypeOK'
  <2>1. PICK pc \in {"expired", "none"} : SendGoto(t, side, pc)
    BY <1>4 DEF SetupTimeout, SetupExpired
  <2>2. task' \in [Tasks -> TaskStates] /\ \A u \in Tasks : SameControl(u)
    BY <2>1, GotoStep
  <2>3. pending' \subseteq pending /\ UNCHANGED <<pool, clients, hostVars, closing, sweep>>
    BY <1>4 DEF SetupTimeout, SetupExpired
  <2> QED
    BY <2>2, <2>3 DEF TypeOK, SameControl
<1>5. ASSUME NEW t \in Tasks, Commit(t) \/ Rollback(t) \/ Aborted(t) PROVE TypeOK'
  <2>1. PICK pc \in {"up", "rollback", "abandoned"} : task' = [task EXCEPT ![t].pc = pc]
    BY <1>5 DEF Commit, Rollback, Aborted
  <2>2. /\ task[t].pc \in {"setup", "rollback"}
        /\ UNCHANGED <<pool, clients, pending, hostVars, closing, sweep>>
    BY <1>5 DEF Commit, Rollback, Returned, Aborted
  <2>3. /\ task' \in [Tasks -> TaskStates] /\ task'[t].net = task[t].net
        /\ \A u \in Tasks \ {t} : task'[u] = task[u]
    BY <2>1, PcStep
  <2> QED
    BY <2>2, <2>3 DEF TypeOK
<1>6. ASSUME NEW t \in Tasks, TeardownLookup(t) PROVE TypeOK'
  <2> DEFINE ch == clients[EndsOf[t][Leg(t)]]
  <2>0. /\ task[t].pc \in {"rollback", "down"} /\ Leg(t) \in Sides
        /\ ch \in Channels \cup {None}
        /\ UNCHANGED <<pool, clients, pending, hostVars, closing, sweep>>
    BY <1>6, OrchestratorConstants DEF TeardownLookup, TearingDown, TypeOK
  <2>1. task' \in [Tasks -> TaskStates] /\ \A u \in Tasks : SameControl(u)
    BY <1>6, <2>0, LegStep, LookupStep DEF TeardownLookup
  <2> QED
    BY <2>0, <2>1 DEF TypeOK, SameControl
<1>7. ASSUME NEW t \in Tasks, TeardownSend(t) PROVE TypeOK'
  <2> DEFINE ch == task[t].ch
             message == Teardown(Leg(t), task[t].net)
  <2>0. /\ task[t].pc \in {"rollback", "down"} /\ ch \in Channels /\ LegDone(t)
        /\ UNCHANGED <<pool, clients, pending, opened, inbound, acks, held, closing, sweep>>
    BY <1>7 DEF TeardownSend, TearingDown, TypeOK, TaskStates
  <2>4. Leg(t) \in Sides /\ task[t].net \in NetIds
    BY <2>0, NoneIsNoChannel DEF Lookups, LookedUp, Leg, TypeOK, TaskStates
  <2>1. message \in Teardowns
    BY <2>4, TeardownTyped
  <2>5. task' \in [Tasks -> TaskStates] /\ \A u \in Tasks : SameControl(u)
    BY <2>0, LegStep
  <2>2. CASE Broken(ch)
    <3>1. UNCHANGED queue
      BY <1>7, <2>2 DEF TeardownSend
    <3> QED
      BY <2>0, <2>5, <3>1 DEF TypeOK, SameControl
  <2>3. CASE ~Broken(ch)
    <3>1. Room(ch) /\ Put(ch, message)
      BY <1>7, <2>3 DEF TeardownSend
    <3> HIDE DEF ch, message
    <3>2. /\ queue' \in [Channels -> Seq(Setups \cup Teardowns)]
          /\ \A c \in Channels : Len(queue'[c]) <= Capacity
      BY <2>0, <2>1, <3>1, PutTyped DEF Room
    <3> QED
      BY <2>0, <2>5, <3>2 DEF TypeOK, SameControl
  <2> QED
    BY <2>2, <2>3
<1>8. ASSUME NEW t \in Tasks, TeardownFree(t) PROVE TypeOK'
  <2>1. pool' \in Pools
    BY <1>8 DEF TeardownFree, FreeAll, TypeOK, Pools
  <2> QED
    BY <1>8, <2>1, FreeStep DEF TeardownFree, TypeOK
<1>9. ASSUME NEW t \in Tasks, RemoveEntry(t) PROVE TypeOK'
  BY <1>9, PcStep DEF RemoveEntry, TypeOK
<1>10. ASSUME ApplyChanges PROVE TypeOK'
  BY <1>10 DEF ApplyChanges, TypeOK, Up
<1>11. ASSUME NEW h \in Hosts, AddClient(h) PROVE TypeOK'
  <2>1. <<h, opened[h] + 1>> \in Channels
    <3>1. opened[h] \in Nat /\ MaxOpens[h] \in Nat /\ opened[h] < MaxOpens[h]
      BY <1>11, OrchestratorConstants DEF AddClient, TypeOK
    <3>2. opened[h] + 1 \in 1 .. MaxOpens[h]
      BY <3>1
    <3> QED
      BY <3>2, ChannelParts
  <2> QED
    BY <1>11, <2>1 DEF AddClient, TypeOK
<1>12. ASSUME NEW h \in Hosts, HostReads(h) PROVE TypeOK'
  <2> DEFINE ch == <<h, opened[h]>>
             message == Head(queue[ch])
  <2>1. ch \in Channels
    BY ChannelParts DEF Routes
  <2>2. /\ queue[ch] # <<>> /\ queue' = [queue EXCEPT ![ch] = Tail(@)]
        /\ held' = [held EXCEPT ![ch] = After(@, message)]
        /\ acks' = [acks EXCEPT ![ch] =
                       IF message.kind = "setup" THEN @ \cup {message.msg} ELSE @]
        /\ UNCHANGED <<pool, clients, pending, opened, inbound, closing, sweep, task>>
    BY <1>12 DEF HostReads
  <2>3. message \in Setups \cup Teardowns
    BY <2>1, <2>2 DEF TypeOK
  <2>4. /\ Tail(queue[ch]) \in Seq(Setups \cup Teardowns)
        /\ Len(Tail(queue[ch])) <= Capacity
    <3>1. queue[ch] \in Seq(Setups \cup Teardowns) /\ Len(queue[ch]) <= Capacity
      BY <2>1 DEF TypeOK
    <3>2. queue[ch] # <<>> /\ Capacity \in Nat
      BY <2>2, OrchestratorConstants
    <3> HIDE DEF ch
    <3> QED
      BY <3>1, <3>2
  <2>5. After(held[ch], message) \subseteq Setups
    BY <2>1, <2>3 DEF TypeOK, After, Setups, Teardowns
  <2>6. message.kind = "setup" => message.msg \in MsgIds
    BY <2>3 DEF Setups, Teardowns
  <2> HIDE DEF ch, message
  <2> QED
    BY <2>1, <2>2, <2>4, <2>5, <2>6 DEF TypeOK
<1>13. ASSUME NEW h \in Hosts, HandleNodeDisconnect(h) PROVE TypeOK'
  BY <1>13 DEF HandleNodeDisconnect, TypeOK, Up
<1>14. ASSUME NEW ch \in Channels, AckArrives(ch) PROVE TypeOK'
  <2>1. PICK msg \in acks[ch] :
           /\ acks' = [acks EXCEPT ![ch] = @ \ {msg}] /\ pending' = pending \ {msg}
           /\ task' \in [Tasks -> TaskStates]
           /\ \A u \in Tasks : SameControl(u)
           /\ UNCHANGED <<pool, clients, opened, inbound, queue, held, closing, sweep>>
    BY <1>14, AckStep
  <2> QED
    BY <2>1 DEF TypeOK, SameControl
<1>15. ASSUME NEW ch \in Channels, ChannelEnds(ch) PROVE TypeOK'
  BY <1>15, OrchestratorConstants DEF ChannelEnds, TypeOK
<1>16. ASSUME NEW ch \in Channels, RemoveClient(ch) PROVE TypeOK'
  BY <1>16, ChannelParts DEF RemoveClient, TypeOK
<1>17. CASE UNCHANGED vars
  BY <1>17 DEF vars, TypeOK
<1> QED
  BY <1>1, <1>2, <1>3, <1>4, <1>5, <1>6, <1>7, <1>8, <1>9, <1>10, <1>11, <1>12, <1>13, <1>14,
     <1>15, <1>16, <1>17 DEF Next, TaskStep, SetupStep

------------------------------------------------------------------------------
(* send_net_setup looks its host up: no channel, or the one there is now.  *)
LEMMA SetupLookupStep ==
    ASSUME TypeOK, NEW t \in Tasks, NEW side \in Sides, SetupLookup(t, side)
    PROVE  \E s \in Sends :
           /\ AtSend(t, side, "lookup")
           /\ \/ s.pc = "none" /\ s.ch = task[t].send[side].ch /\ pending' = pending
              \/ /\ s.pc = "send" /\ s.ch = clients[EndsOf[t][side]] /\ s.ch # None
                 /\ pending' = pending \cup {MsgId(t, side)}
           /\ task' \in [Tasks -> TaskStates]
           /\ \A u \in Tasks : SameControl(u) /\ SameLeg(u)
           /\ \A u \in Tasks, x \in Sides :
                 task'[u].send[x] = IF u = t /\ x = side THEN s ELSE task[u].send[x]
           /\ UNCHANGED <<pool, clients, hostVars, closing, sweep>>
<1>0. AtSend(t, side, "lookup") /\ UNCHANGED <<pool, clients, hostVars, closing, sweep>>
  BY DEF SetupLookup
<1>1. CASE clients[EndsOf[t][side]] = None
  <2> DEFINE s == [pc |-> "none", ch |-> task[t].send[side].ch]
  <2>1. SendGoto(t, side, "none") /\ pending' = pending
    BY <1>1 DEF SetupLookup
  <2>2. s \in Sends /\ s.pc = "none" /\ s.ch = task[t].send[side].ch
    BY DEF TypeOK, TaskStates, Sends
  <2>6. task[t].send[side] \in Sends
    BY DEF TypeOK, TaskStates
  <2>5. [task[t].send[side] EXCEPT !.pc = "none"] = s
    BY <2>6 DEF Sends
  <2>3. SendSet(t, side, s)
    BY <2>1, <2>5 DEF SendGoto, SendSet, TypeOK
  <2> HIDE DEF s
  <2>4. /\ task' \in [Tasks -> TaskStates]
        /\ \A u \in Tasks : SameControl(u) /\ SameLeg(u)
        /\ \A u \in Tasks, x \in Sides :
              task'[u].send[x] = IF u = t /\ x = side THEN s ELSE task[u].send[x]
    BY <2>2, <2>3, SendStep
  <2> QED
    BY <1>0, <2>1, <2>2, <2>4
<1>2. CASE clients[EndsOf[t][side]] # None
  <2> DEFINE s == [pc |-> "send", ch |-> clients[EndsOf[t][side]]]
  <2>1. SendSet(t, side, s)
    BY <1>2 DEF SetupLookup, SendSet
  <2>4. pending' = pending \cup {MsgId(t, side)}
    BY <1>2 DEF SetupLookup
  <2>2. s \in Sends /\ s.pc = "send" /\ s.ch = clients[EndsOf[t][side]] /\ s.ch # None
    BY <1>2, OrchestratorConstants DEF TypeOK, Sends
  <2>5. s \in Sends
    BY <2>2
  <2> HIDE DEF s
  <2>3. /\ task' \in [Tasks -> TaskStates]
        /\ \A u \in Tasks : SameControl(u) /\ SameLeg(u)
        /\ \A u \in Tasks, x \in Sides :
              task'[u].send[x] = IF u = t /\ x = side THEN s ELSE task[u].send[x]
    BY <2>1, <2>5, SendStep
  <2> QED
    BY <1>0, <2>4, <2>2, <2>3
<1> QED
  BY <1>1, <1>2

(* send_net_setup sends its message, or learns that the channel is closed. *)
LEMMA SetupSendStep ==
    ASSUME TypeOK, Routes, Lookups, NEW t \in Tasks, NEW side \in Sides, SetupSend(t, side),
           NEW ch, ch = task[t].send[side].ch
    PROVE  \E pc \in {"none", "wait"} :
           /\ AtSend(t, side, "send")
           /\ ch \in Channels /\ ch[1] = EndsOf[t][side] /\ ch[2] <= opened[ch[1]]
           /\ EndOf(t, side) \in Setups
           /\ \/ /\ pc = "none" /\ pending' = pending \ {MsgId(t, side)} /\ UNCHANGED queue
              \/ /\ pc = "wait" /\ pending' = pending
                 /\ inbound[ch] = "open"
                 /\ queue' = [queue EXCEPT ![ch] = Append(@, EndOf(t, side))]
           /\ task' \in [Tasks -> TaskStates]
           /\ \A u \in Tasks : SameControl(u) /\ SameLeg(u)
           /\ \A u \in Tasks, x \in Sides :
                 /\ task'[u].send[x].ch = task[u].send[x].ch
                 /\ task'[u].send[x].pc = IF u = t /\ x = side THEN pc ELSE task[u].send[x].pc
           /\ UNCHANGED <<pool, clients, opened, inbound, acks, held, closing, sweep>>
<1>1. /\ AtSend(t, side, "send")
      /\ UNCHANGED <<pool, clients, opened, inbound, acks, held, closing, sweep>>
  BY DEF SetupSend
<1>2. ch \in Channels /\ ch[1] = EndsOf[t][side] /\ ch[2] <= opened[ch[1]]
  BY <1>1 DEF AtSend, Lookups, LookedUp, TypeOK, TaskStates, Sends
<1>3. EndOf(t, side) \in Setups
  BY <1>1, SetupTyped DEF EndOf, MsgId, MsgIds, TypeOK, TaskStates, AtSend
<1>4. CASE Broken(ch)
  <2>1. SendGoto(t, side, "none") /\ pending' = pending \ {MsgId(t, side)} /\ UNCHANGED queue
    BY <1>4 DEF SetupSend
  <2>2. /\ task' \in [Tasks -> TaskStates]
        /\ \A u \in Tasks : SameControl(u) /\ SameLeg(u)
        /\ \A u \in Tasks, x \in Sides :
              /\ task'[u].send[x].ch = task[u].send[x].ch
              /\ task'[u].send[x].pc = IF u = t /\ x = side THEN "none" ELSE task[u].send[x].pc
    BY <2>1, GotoStep
  <2> QED
    BY <1>1, <1>2, <1>3, <2>1, <2>2
<1>5. CASE ~Broken(ch)
  <2>1. /\ SendGoto(t, side, "wait") /\ pending' = pending
        /\ queue' = [queue EXCEPT ![ch] = Append(@, EndOf(t, side))]
    BY <1>5 DEF SetupSend, Put, EndOf
  <2>2. inbound[ch] = "open"
    <3>1. opened[ch[1]] \in Nat /\ ch[2] \in Nat
      BY <1>2, ChannelParts DEF TypeOK
    <3> QED
      BY <1>2, <1>5, <3>1 DEF Broken, Routes, TypeOK
  <2>3. /\ task' \in [Tasks -> TaskStates]
        /\ \A u \in Tasks : SameControl(u) /\ SameLeg(u)
        /\ \A u \in Tasks, x \in Sides :
              /\ task'[u].send[x].ch = task[u].send[x].ch
              /\ task'[u].send[x].pc = IF u = t /\ x = side THEN "wait" ELSE task[u].send[x].pc
    BY <2>1, GotoStep
  <2> QED
    BY <1>1, <1>2, <1>3, <2>1, <2>2, <2>3
<1> QED
  BY <1>4, <1>5

(* send_net_setup runs into its time-out, and clears pending up.           *)
LEMMA TimeoutStep ==
    ASSUME TypeOK, NEW t \in Tasks, NEW side \in Sides,
           SetupTimeout(t, side) \/ SetupExpired(t, side)
    PROVE  \E pc \in {"expired", "none"} :
           /\ \/ AtSend(t, side, "wait") /\ pc = "expired" /\ pending' = pending
              \/ /\ AtSend(t, side, "expired") /\ pc = "none"
                 /\ pending' = pending \ {MsgId(t, side)}
           /\ task' \in [Tasks -> TaskStates]
           /\ \A u \in Tasks : SameControl(u) /\ SameLeg(u)
           /\ \A u \in Tasks, x \in Sides :
                 /\ task'[u].send[x].ch = task[u].send[x].ch
                 /\ task'[u].send[x].pc = IF u = t /\ x = side THEN pc ELSE task[u].send[x].pc
           /\ UNCHANGED <<pool, clients, hostVars, closing, sweep>>
  BY GotoStep DEF SetupTimeout, SetupExpired

(* Both calls have returned: the network is entered, rolled back, or       *)
(* forgotten.                                                              *)
LEMMA ReturnStep ==
    ASSUME TypeOK, NEW t \in Tasks, Commit(t) \/ Rollback(t)
    PROVE  \E pc \in {"up", "rollback", "abandoned"} :
           /\ task[t].pc = "setup"
           /\ Returned(t) /\ (pc = "up" => BothAcked(t))
           /\ task' \in [Tasks -> TaskStates]
           /\ task'[t].pc = pc /\ task'[t].round = task[t].round /\ task'[t].net = task[t].net
           /\ \A u \in Tasks : SameLeg(u) /\ task'[u].send = task[u].send
           /\ \A u \in Tasks \ {t} : task'[u] = task[u]
           /\ UNCHANGED <<pool, clients, pending, hostVars, closing, sweep>>
<1>1. PICK pc \in {"up", "rollback", "abandoned"} :
        task' = [task EXCEPT ![t].pc = pc] /\ (pc = "up" => BothAcked(t))
  BY DEF Commit, Rollback
<1>2. /\ task[t].pc = "setup" /\ Returned(t)
      /\ UNCHANGED <<pool, clients, pending, hostVars, closing, sweep>>
  BY DEF Commit, Rollback, Returned
<1> QED
  BY <1>1, <1>2, PcStep

(* The caller gives up: the task is over, and nothing else changes.        *)
LEMMA AbortStep ==
    ASSUME TypeOK, NEW t \in Tasks, Aborted(t)
    PROVE  /\ t \in Impatient /\ task[t].pc \in {"setup", "rollback"}
           /\ task' \in [Tasks -> TaskStates]
           /\ task'[t].pc = "abandoned"
           /\ task'[t].round = task[t].round /\ task'[t].net = task[t].net
           /\ \A u \in Tasks : SameLeg(u) /\ task'[u].send = task[u].send
           /\ \A u \in Tasks \ {t} : task'[u] = task[u]
           /\ UNCHANGED <<pool, clients, pending, hostVars, closing, sweep>>
  BY PcStep DEF Aborted

(* send_net_teardown looks an end's host up; without a channel it goes on. *)
LEMMA TeardownLookupStep ==
    ASSUME TypeOK, Lookups, NEW t \in Tasks, TeardownLookup(t),
           NEW ch, ch = clients[EndsOf[t][task[t].leg]]
    PROVE  /\ TearingDown(t) /\ task[t].leg \in Sides /\ task[t].ch = None
           /\ \/ ch = None /\ task'[t].leg = NextLeg(task[t].leg) /\ task'[t].ch = None
              \/ ch # None /\ task'[t].leg = task[t].leg /\ task'[t].ch = ch
           /\ task' \in [Tasks -> TaskStates]
           /\ \A u \in Tasks : SameControl(u) /\ task'[u].send = task[u].send
           /\ \A u \in Tasks \ {t} : task'[u] = task[u]
           /\ UNCHANGED <<pool, clients, pending, hostVars, closing, sweep>>
<1>1. /\ TearingDown(t) /\ task[t].leg \in Sides /\ task[t].ch = None
      /\ IF ch = None THEN LegDone(t) ELSE task' = [task EXCEPT ![t].ch = ch]
      /\ UNCHANGED <<pool, clients, pending, hostVars, closing, sweep>>
  BY DEF TeardownLookup, Leg
<1>2. ch \in Channels \cup {None}
  BY <1>1, OrchestratorConstants DEF TypeOK
<1>3. CASE ch = None
  BY <1>1, <1>3, LegStep
<1>4. CASE ch # None
  BY <1>1, <1>2, <1>4, LookupStep
<1> QED
  BY <1>3, <1>4

(* send_net_teardown sends its message, or ignores that the channel is     *)
(* closed.                                                                 *)
LEMMA TeardownSendStep ==
    ASSUME TypeOK, Routes, Lookups, NEW t \in Tasks, TeardownSend(t), NEW ch, ch = task[t].ch
    PROVE  /\ TearingDown(t) /\ task[t].leg \in Sides
           /\ ch \in Channels /\ ch[1] = EndsOf[t][task[t].leg] /\ ch[2] <= opened[ch[1]]
           /\ Teardown(task[t].leg, task[t].net) \in Teardowns
           /\ \/ Broken(ch) /\ UNCHANGED queue
              \/ /\ inbound[ch] = "open"
                 /\ queue' = [queue EXCEPT ![ch] =
                                 Append(@, Teardown(task[t].leg, task[t].net))]
           /\ task'[t].leg = NextLeg(task[t].leg) /\ task'[t].ch = None
           /\ task' \in [Tasks -> TaskStates]
           /\ \A u \in Tasks : SameControl(u) /\ task'[u].send = task[u].send
           /\ \A u \in Tasks \ {t} : task'[u] = task[u]
           /\ UNCHANGED <<pool, clients, pending, opened, inbound, acks, held, closing, sweep>>
<1>1. /\ TearingDown(t) /\ ch # None /\ LegDone(t)
      /\ UNCHANGED <<pool, clients, pending, opened, inbound, acks, held, closing, sweep>>
  BY DEF TeardownSend
<1>2. ch \in Channels
  BY <1>1 DEF TypeOK, TaskStates
<1>3. /\ task[t].leg \in Sides /\ ch[1] = EndsOf[t][task[t].leg] /\ ch[2] <= opened[ch[1]]
  BY <1>1 DEF Lookups, LookedUp, TypeOK, TaskStates
<1>4. Teardown(task[t].leg, task[t].net) \in Teardowns
  BY <1>1, <1>3, TeardownTyped DEF TypeOK, TearingDown
<1>5. \/ Broken(ch) /\ UNCHANGED queue
      \/ /\ inbound[ch] = "open"
         /\ queue' = [queue EXCEPT ![ch] = Append(@, Teardown(task[t].leg, task[t].net))]
  <2>1. opened[ch[1]] \in Nat /\ ch[2] \in Nat
    BY <1>2, ChannelParts DEF TypeOK
  <2>2. ~Broken(ch) => inbound[ch] = "open"
    BY <1>2, <1>3, <2>1 DEF Broken, Routes, TypeOK
  <2> QED
    BY <2>2 DEF TeardownSend, Put, Leg
<1> QED
  BY <1>1, <1>2, <1>3, <1>4, <1>5, LegStep

------------------------------------------------------------------------------
(* What no step undoes within a round: a task does not become idle or      *)
(* begin again, keeps its network, and a call that has sent its message    *)
(* keeps its channel.                                                      *)
Goes(u) ==
    /\ task[u].round <= task'[u].round
    /\ task'[u].round = task[u].round /\ task'[u].pc # "idle" =>
          /\ task[u].pc # "idle" /\ task'[u].net = task[u].net
          /\ task'[u].pc \in {"setup", "up"} => task[u].pc \in {"setup", "up"}
          /\ \A x \in Sides : task[u].send[x].pc \notin {"lookup", "send"} =>
                /\ task'[u].send[x].ch = task[u].send[x].ch
                /\ task'[u].send[x].pc \notin {"lookup", "send"}
    /\ task'[u].round # task[u].round => AllocateNetId(u)

(* Every step is such a step for every task.                               *)
LEMMA NextGoes ==
    ASSUME TypeOK, Routes, Lookups, [Next]_vars, NEW u \in Tasks
    PROVE  Goes(u)
<1>a. task[u].round \in Nat /\ task[u].round <= task[u].round
  BY DEF TypeOK, TaskStates
<1>0. ASSUME task'[u].pc = task[u].pc, task'[u].round = task[u].round, task'[u].net = task[u].net,
             \A x \in Sides : task[u].send[x].pc \notin {"lookup", "send"} =>
                /\ task'[u].send[x].ch = task[u].send[x].ch
                /\ task'[u].send[x].pc \notin {"lookup", "send"}
      PROVE  Goes(u)
  BY <1>a, <1>0 DEF Goes
<1>b. ASSUME task'[u] = task[u] PROVE Goes(u)
  BY <1>0, <1>b
<1>1. ASSUME NEW t \in Tasks, AllocateNetId(t) PROVE Goes(u)
  <2>1. /\ task'[t].round = task[t].round + 1
        /\ \A v \in Tasks \ {t} : task'[v] = task[v]
    BY <1>1, AllocateStep
  <2>2. CASE u = t
    BY <1>1, <1>a, <2>1, <2>2 DEF Goes
  <2> QED
    BY <1>b, <2>1, <2>2
<1>2. ASSUME NEW t \in Tasks, NEW side \in Sides, SetupLookup(t, side) PROVE Goes(u)
  <2>1. PICK s \in Sends :
           /\ AtSend(t, side, "lookup")
           /\ \A v \in Tasks : SameControl(v)
           /\ \A v \in Tasks, x \in Sides :
                 task'[v].send[x] = IF v = t /\ x = side THEN s ELSE task[v].send[x]
    BY <1>2, SetupLookupStep
  <2> QED
    BY <1>0, <2>1 DEF SameControl, AtSend
<1>3. ASSUME NEW t \in Tasks, NEW side \in Sides,
             SetupSend(t, side) \/ SetupTimeout(t, side) \/ SetupExpired(t, side)
      PROVE  Goes(u)
  <2>1. PICK pc \in {"wait", "expired", "none"} :
           /\ \A v \in Tasks : SameControl(v)
           /\ \A v \in Tasks, x \in Sides :
                 /\ task'[v].send[x].ch = task[v].send[x].ch
                 /\ task'[v].send[x].pc = IF v = t /\ x = side THEN pc ELSE task[v].send[x].pc
    BY <1>3, SetupSendStep, TimeoutStep
  <2> QED
    BY <1>0, <2>1 DEF SameControl
<1>4. ASSUME NEW t \in Tasks, Commit(t) \/ Rollback(t) \/ Aborted(t) \/ RemoveEntry(t)
      PROVE  Goes(u)
  <2>1. PICK pc \in {"up", "rollback", "abandoned", "down"} :
           /\ pc = "up" => task[t].pc = "setup"
           /\ task[t].pc # "idle" /\ task'[t].pc = pc
           /\ task'[t].round = task[t].round /\ task'[t].net = task[t].net
           /\ \A v \in Tasks : task'[v].send = task[v].send
           /\ \A v \in Tasks \ {t} : task'[v] = task[v]
    BY <1>4, ReturnStep, AbortStep, PcStep DEF RemoveEntry
  <2>2. CASE u = t
    BY <1>a, <2>1, <2>2 DEF Goes
  <2> QED
    BY <1>b, <2>1, <2>2
<1>5. ASSUME NEW t \in Tasks, TeardownLookup(t) \/ TeardownSend(t) PROVE Goes(u)
  <2>1. \A v \in Tasks : SameControl(v) /\ task'[v].send = task[v].send
    BY <1>5, TeardownLookupStep, TeardownSendStep
  <2> QED
    BY <1>0, <2>1 DEF SameControl
<1>6. ASSUME NEW t \in Tasks, TeardownFree(t) PROVE Goes(u)
  <2>1. /\ task'[t].pc = "idle" /\ task'[t].round = task[t].round
        /\ \A v \in Tasks \ {t} : task'[v] = task[v]
    BY <1>6, FreeStep DEF TeardownFree
  <2>2. CASE u = t
    BY <1>a, <2>1, <2>2 DEF Goes
  <2> QED
    BY <1>b, <2>1, <2>2
<1>7. ASSUME NEW ch \in Channels, AckArrives(ch) PROVE Goes(u)
  <2>1. PICK msg \in acks[ch] :
           /\ \A v \in Tasks : SameControl(v)
           /\ \A v \in Tasks, x \in Sides :
                 /\ task'[v].send[x].ch = task[v].send[x].ch
                 /\ task'[v].send[x].pc =
                       IF msg \in pending /\ msg = MsgId(v, x) /\ AtSend(v, x, "wait")
                           THEN "acked" ELSE task[v].send[x].pc
    BY <1>7, AckStep
  <2> QED
    BY <1>0, <2>1 DEF SameControl
<1>8. ASSUME \/ ApplyChanges
             \/ \E h \in Hosts : AddClient(h) \/ HostReads(h) \/ HandleNodeDisconnect(h)
             \/ \E ch \in Channels : ChannelEnds(ch) \/ RemoveClient(ch)
             \/ UNCHANGED vars
      PROVE Goes(u)
  BY <1>b, <1>8
     DEF ApplyChanges, AddClient, HostReads, HandleNodeDisconnect, ChannelEnds, RemoveClient, vars
<1> QED
  BY <1>1, <1>2, <1>3, <1>4, <1>5, <1>6, <1>7, <1>8 DEF Next, TaskStep, SetupStep

(* Only a task's own teardown, or its next round, takes it further from    *)
(* the set-up than it was.                                                 *)
Stays(u) ==
    /\ task'[u].round = task[u].round /\ task'[u].leg = task[u].leg
    /\ task[u].pc # "idle" => task'[u].pc # "idle"

(* Every step is such a step for every task, but for the four named.       *)
LEMMA NextStays ==
    ASSUME TypeOK, Routes, Lookups, [Next]_vars, NEW u \in Tasks
    PROVE  \/ Stays(u) \/ AllocateNetId(u)
           \/ TeardownLookup(u) \/ TeardownSend(u) \/ TeardownFree(u)
<1> DEFINE Goal == \/ Stays(u) \/ AllocateNetId(u)
                   \/ TeardownLookup(u) \/ TeardownSend(u) \/ TeardownFree(u)
<1>0. ASSUME task'[u] = task[u] PROVE Goal
  BY <1>0 DEF Stays
<1>1. ASSUME NEW t \in Tasks, AllocateNetId(t) PROVE Goal
  BY <1>0, <1>1, AllocateStep
<1>2. ASSUME NEW t \in Tasks, NEW side \in Sides, SetupStep(t, side) PROVE Goal
  <2>1. SameControl(u) /\ SameLeg(u)
    BY <1>2, SetupLookupStep, SetupSendStep, TimeoutStep DEF SetupStep
  <2> QED
    BY <2>1 DEF SameControl, SameLeg, Stays
<1>3. ASSUME NEW t \in Tasks, Commit(t) \/ Rollback(t) \/ Aborted(t) \/ RemoveEntry(t)
      PROVE  Goal
  <2>1. PICK pc \in {"up", "rollback", "abandoned", "down"} :
           /\ task'[t].pc = pc /\ task'[t].round = task[t].round
           /\ \A v \in Tasks : SameLeg(v)
           /\ \A v \in Tasks \ {t} : task'[v] = task[v]
    BY <1>3, ReturnStep, AbortStep, PcStep DEF RemoveEntry
  <2> QED
    BY <1>0, <2>1 DEF SameLeg, Stays
<1>4. ASSUME NEW t \in Tasks, TeardownLookup(t) \/ TeardownSend(t) PROVE Goal
  <2>1. \A v \in Tasks \ {t} : task'[v] = task[v]
    BY <1>4, TeardownLookupStep, TeardownSendStep
  <2> QED
    BY <1>0, <1>4, <2>1
<1>5. ASSUME NEW t \in Tasks, TeardownFree(t) PROVE Goal
  <2>1. \A v \in Tasks \ {t} : task'[v] = task[v]
    BY <1>5, FreeStep DEF TeardownFree
  <2> QED
    BY <1>0, <1>5, <2>1
<1>6. ASSUME NEW ch \in Channels, AckArrives(ch) PROVE Goal
  <2>1. SameControl(u) /\ SameLeg(u)
    BY <1>6, AckStep
  <2> QED
    BY <2>1 DEF SameControl, SameLeg, Stays
<1>7. ASSUME \/ ApplyChanges
             \/ \E h \in Hosts : AddClient(h) \/ HostReads(h) \/ HandleNodeDisconnect(h)
             \/ \E ch \in Channels : ChannelEnds(ch) \/ RemoveClient(ch)
             \/ UNCHANGED vars
      PROVE Goal
  BY <1>0, <1>7
     DEF ApplyChanges, AddClient, HostReads, HandleNodeDisconnect, ChannelEnds, RemoveClient, vars
<1> QED
  BY <1>1, <1>2, <1>3, <1>4, <1>5, <1>6, <1>7 DEF Next, TaskStep

(* A call is about to send because it was, or because it has looked up the *)
(* channel its host has now; and is acknowledged because it was, or by an  *)
(* acknowledgement that has arrived.                                       *)
Sending(u, x) ==
    \/ /\ AtSend(u, x, "send") /\ task'[u].send[x].ch = task[u].send[x].ch
    \/ /\ AtSend(u, x, "lookup") /\ UNCHANGED <<queue, held>>
       /\ task'[u].send[x].ch = clients[EndsOf[u][x]] /\ clients[EndsOf[u][x]] # None
Acknowledged(u, x) ==
    \/ task[u].send[x].pc = "acked"
    \/ \E ch \in Channels : MsgId(u, x) \in acks[ch] /\ UNCHANGED held

(* Every step within a round is such a step for both calls of every task.  *)
LEMMA NextCalls ==
    ASSUME TypeOK, Routes, Lookups, [Next]_vars, NEW u \in Tasks, NEW x \in Sides,
           task'[u].round = task[u].round
    PROVE  /\ AtSend(u, x, "send")' => Sending(u, x)
           /\ task'[u].send[x].pc = "acked" => Acknowledged(u, x)
<1> DEFINE Goal == /\ AtSend(u, x, "send")' => Sending(u, x)
                   /\ task'[u].send[x].pc = "acked" => Acknowledged(u, x)
<1> USE DEF hostVars
<1>0. ASSUME task'[u].pc = "setup" => task[u].pc = "setup", task'[u].send = task[u].send
      PROVE  Goal
  BY <1>0 DEF AtSend, Sending, Acknowledged
<1>1. ASSUME NEW t \in Tasks, AllocateNetId(t) PROVE Goal
  <2>1. /\ task'[t].round = task[t].round + 1 /\ task[t].round \in Nat
        /\ \A v \in Tasks \ {t} : task'[v] = task[v]
    BY <1>1, AllocateStep DEF TypeOK, TaskStates
  <2> QED
    BY <1>0, <2>1
<1>2. ASSUME NEW t \in Tasks, NEW side \in Sides, SetupLookup(t, side) PROVE Goal
  <2>1. PICK s \in Sends :
           /\ AtSend(t, side, "lookup")
           /\ \/ s.pc = "none"
              \/ s.pc = "send" /\ s.ch = clients[EndsOf[t][side]] /\ s.ch # None
           /\ \A v \in Tasks : SameControl(v)
           /\ \A v \in Tasks, y \in Sides :
                 task'[v].send[y] = IF v = t /\ y = side THEN s ELSE task[v].send[y]
           /\ UNCHANGED <<queue, held>>
    BY <1>2, SetupLookupStep
  <2> QED
    BY <2>1 DEF AtSend, Sending, Acknowledged, SameControl
<1>3. ASSUME NEW t \in Tasks, NEW side \in Sides,
             SetupSend(t, side) \/ SetupTimeout(t, side) \/ SetupExpired(t, side)
      PROVE  Goal
  <2>1. PICK pc \in {"wait", "expired", "none"} :
           /\ \A v \in Tasks : SameControl(v)
           /\ \A v \in Tasks, y \in Sides :
                 /\ task'[v].send[y].ch = task[v].send[y].ch
                 /\ task'[v].send[y].pc = IF v = t /\ y = side THEN pc ELSE task[v].send[y].pc
    BY <1>3, SetupSendStep, TimeoutStep
  <2> QED
    BY <2>1 DEF AtSend, Sending, Acknowledged, SameControl
<1>4. ASSUME NEW t \in Tasks, Commit(t) \/ Rollback(t) \/ Aborted(t) \/ RemoveEntry(t)
      PROVE  Goal
  <2>1. PICK pc \in {"up", "rollback", "abandoned", "down"} :
           /\ task'[t].pc = pc
           /\ \A v \in Tasks : task'[v].send = task[v].send
           /\ \A v \in Tasks \ {t} : task'[v] = task[v]
    BY <1>4, ReturnStep, AbortStep, PcStep DEF RemoveEntry
  <2> QED
    BY <1>0, <2>1
<1>5. ASSUME NEW t \in Tasks, TeardownLookup(t) \/ TeardownSend(t) PROVE Goal
  <2>1. \A v \in Tasks : SameControl(v) /\ task'[v].send = task[v].send
    BY <1>5, TeardownLookupStep, TeardownSendStep
  <2> QED
    BY <1>0, <2>1 DEF SameControl
<1>6. ASSUME NEW t \in Tasks, TeardownFree(t) PROVE Goal
  <2>1. /\ task'[t].pc = "idle" /\ \A y \in Sides : task'[t].send[y] = NoSend
        /\ \A v \in Tasks \ {t} : task'[v] = task[v]
    BY <1>6, FreeStep DEF TeardownFree
  <2>2. CASE u = t
    BY <2>1, <2>2 DEF AtSend, NoSend
  <2> QED
    BY <1>0, <2>1, <2>2
<1>7. ASSUME NEW ch \in Channels, AckArrives(ch) PROVE Goal
  <2>1. PICK msg \in acks[ch] :
           /\ \A v \in Tasks : SameControl(v)
           /\ \A v \in Tasks, y \in Sides :
                 /\ task'[v].send[y].ch = task[v].send[y].ch
                 /\ task'[v].send[y].pc =
                       IF msg \in pending /\ msg = MsgId(v, y) /\ AtSend(v, y, "wait")
                           THEN "acked" ELSE task[v].send[y].pc
           /\ UNCHANGED held
    BY <1>7, AckStep
  <2> QED
    BY <2>1 DEF AtSend, Sending, Acknowledged, SameControl
<1>8. ASSUME \/ ApplyChanges
             \/ \E h \in Hosts : AddClient(h) \/ HostReads(h) \/ HandleNodeDisconnect(h)
             \/ \E ch \in Channels : ChannelEnds(ch) \/ RemoveClient(ch)
             \/ UNCHANGED vars
      PROVE Goal
  BY <1>0, <1>8
     DEF ApplyChanges, AddClient, HostReads, HandleNodeDisconnect, ChannelEnds, RemoveClient, vars
<1> QED
  BY <1>1, <1>2, <1>3, <1>4, <1>5, <1>6, <1>7, <1>8 DEF Next, TaskStep, SetupStep

------------------------------------------------------------------------------
(* What a step may do to the contents of a channel. *)
Same(ch) == queue'[ch] = queue[ch] /\ held'[ch] = held[ch] /\ acks'[ch] \subseteq acks[ch]
Puts(ch, message) ==
    /\ inbound[ch] = "open" /\ Added(queue[ch], message, queue'[ch])
    /\ held'[ch] = held[ch] /\ acks'[ch] = acks[ch]
Reads(ch, message) ==
    /\ ReadOff(queue[ch], message, queue'[ch])
    /\ held'[ch] = After(held[ch], message)
    /\ \A msg \in acks'[ch] :
          msg \in acks[ch] \/ (message.kind = "setup" /\ msg = message.msg)
Clears(ch) == queue'[ch] = <<>> /\ held'[ch] = {} /\ acks'[ch] = {} /\ inbound'[ch] = "ended"
PutsSetup(ch, t, side) ==
    /\ SetupSend(t, side) /\ AtSend(t, side, "send") /\ ch = task[t].send[side].ch
    /\ EndOf(t, side) \in Setups /\ Puts(ch, EndOf(t, side))
PutsTeardown(ch, t) ==
    /\ TeardownSend(t) /\ TearingDown(t) /\ ch = task[t].ch /\ task[t].leg \in Sides
    /\ Teardown(task[t].leg, task[t].net) \in Teardowns
    /\ Puts(ch, Teardown(task[t].leg, task[t].net))

(* The contents of a channel, in the terms of the lemmas on queues.        *)
LEMMA ChannelTyped ==
    ASSUME TypeOK, NEW ch \in Channels
    PROVE  queue[ch] \in Seq(Messages) /\ held[ch] \in EndSets
  BY DEF TypeOK, Messages, EndSets

(* Every step leaves a channel alone, clears it, reads its first message   *)
(* or puts one message at its end; and it is send_net_setup or             *)
(* send_net_teardown that puts one.                                        *)
LEMMA NextChannel ==
    ASSUME TypeOK, Routes, Lookups, WellFormed(pool), [Next]_vars, NEW ch \in Channels
    PROVE  /\ queue[ch] \in Seq(Messages) /\ held[ch] \in EndSets
           /\ queue'[ch] \in Seq(Messages) /\ held'[ch] \in EndSets
           /\ \/ Same(ch) \/ Clears(ch)
              \/ \E message \in Messages : Reads(ch, message)
              \/ \E t \in Tasks, side \in Sides : PutsSetup(ch, t, side)
              \/ \E t \in Tasks : PutsTeardown(ch, t)
<1>a. queue[ch] \in Seq(Messages) /\ held[ch] \in EndSets
  BY ChannelTyped
<1>b. queue'[ch] \in Seq(Messages) /\ held'[ch] \in EndSets
  <2>1. TypeOK'
    BY NextTypeOK
  <2> QED
    BY <2>1 DEF TypeOK, Messages, EndSets
<1> DEFINE Goal == \/ Same(ch) \/ Clears(ch)
                   \/ \E message \in Messages : Reads(ch, message)
                   \/ \E t \in Tasks, side \in Sides : PutsSetup(ch, t, side)
                   \/ \E t \in Tasks : PutsTeardown(ch, t)
<1>0. ASSUME UNCHANGED <<queue, acks, held>> PROVE Goal
  BY <1>0 DEF Same
<1> USE DEF hostVars
<1>1. ASSUME NEW t \in Tasks, AllocateNetId(t) \/ Commit(t) \/ Rollback(t) \/ Aborted(t)
                                \/ TeardownLookup(t) \/ TeardownFree(t) \/ RemoveEntry(t)
      PROVE  Goal
  BY <1>0, <1>1 DEF AllocateNetId, Commit, Rollback, Aborted, TeardownLookup, TeardownFree, RemoveEntry
<1>2. ASSUME NEW t \in Tasks, NEW side \in Sides,
             SetupLookup(t, side) \/ SetupTimeout(t, side) \/ SetupExpired(t, side)
      PROVE  Goal
  BY <1>0, <1>2 DEF SetupLookup, SetupTimeout, SetupExpired
<1>3. ASSUME NEW t \in Tasks, NEW side \in Sides, SetupSend(t, side) PROVE Goal
  <2> DEFINE c == task[t].send[side].ch
  <2>1. /\ AtSend(t, side, "send") /\ c \in Channels /\ EndOf(t, side) \in Setups
        /\ \/ UNCHANGED queue
           \/ inbound[c] = "open" /\ queue' = [queue EXCEPT ![c] = Append(@, EndOf(t, side))]
        /\ UNCHANGED <<acks, held>>
    BY <1>3, SetupSendStep
  <2> HIDE DEF c
  <2>2. CASE UNCHANGED queue
    BY <1>0, <2>1, <2>2
  <2>3. CASE inbound[c] = "open" /\ queue' = [queue EXCEPT ![c] = Append(@, EndOf(t, side))]
    <3>1. CASE ch = c
      <4>1. queue'[ch] = Append(queue[ch], EndOf(t, side))
        BY <2>3, <3>1 DEF TypeOK
      <4>2. Added(queue[ch], EndOf(t, side), queue'[ch])
        BY <1>a, <2>1, <4>1, AppendAdds DEF Messages
      <4>3. PutsSetup(ch, t, side)
        BY <1>3, <2>1, <2>3, <3>1, <4>2 DEF PutsSetup, Puts, c
      <4> QED
        BY <4>3
    <3>2. CASE ch # c
      <4>1. queue'[ch] = queue[ch]
        BY <2>3, <3>2 DEF TypeOK
      <4> QED
        BY <2>1, <4>1 DEF Same
    <3> QED
      BY <3>1, <3>2
  <2> QED
    BY <2>1, <2>2, <2>3
<1>4. ASSUME NEW t \in Tasks, TeardownSend(t) PROVE Goal
  <2> DEFINE c == task[t].ch
             m == Teardown(task[t].leg, task[t].net)
  <2>1. /\ TearingDown(t) /\ task[t].leg \in Sides /\ c \in Channels /\ m \in Teardowns
        /\ \/ UNCHANGED queue
           \/ inbound[c] = "open" /\ queue' = [queue EXCEPT ![c] = Append(@, m)]
        /\ UNCHANGED <<acks, held>>
    BY <1>4, TeardownSendStep
  <2> HIDE DEF c, m
  <2>2. CASE UNCHANGED queue
    BY <1>0, <2>1, <2>2
  <2>3. CASE inbound[c] = "open" /\ queue' = [queue EXCEPT ![c] = Append(@, m)]
    <3>1. CASE ch = c
      <4>1. queue'[ch] = Append(queue[ch], m)
        BY <2>3, <3>1 DEF TypeOK
      <4>2. Added(queue[ch], m, queue'[ch])
        BY <1>a, <2>1, <4>1, AppendAdds DEF Messages
      <4>3. PutsTeardown(ch, t)
        BY <1>4, <2>1, <2>3, <3>1, <4>2 DEF PutsTeardown, Puts, c, m
      <4> QED
        BY <4>3
    <3>2. CASE ch # c
      <4>1. queue'[ch] = queue[ch]
        BY <2>3, <3>2 DEF TypeOK
      <4> QED
        BY <2>1, <4>1 DEF Same
    <3> QED
      BY <3>1, <3>2
  <2> QED
    BY <2>1, <2>2, <2>3
<1>5. ASSUME NEW h \in Hosts, HostReads(h) PROVE Goal
  <2> DEFINE c == <<h, opened[h]>>
             m == Head(queue[c])
  <2>1. /\ inbound[c] = "open" /\ queue[c] # <<>>
        /\ queue' = [queue EXCEPT ![c] = Tail(@)]
        /\ held' = [held EXCEPT ![c] = After(@, m)]
        /\ acks' = [acks EXCEPT ![c] = IF m.kind = "setup" THEN @ \cup {m.msg} ELSE @]
    BY <1>5 DEF HostReads
  <2>2. CASE ch = c
    <3>1. queue'[ch] = Tail(queue[ch]) /\ queue[ch] # <<>>
      BY <2>1, <2>2 DEF TypeOK
    <3>2. m \in Messages /\ ReadOff(queue[ch], m, queue'[ch])
      BY <1>a, <2>2, <3>1, TailReads
    <3> HIDE DEF c, m
    <3>3. /\ held'[ch] = After(held[ch], m)
          /\ acks'[ch] = IF m.kind = "setup" THEN acks[ch] \cup {m.msg} ELSE acks[ch]
      BY <2>1, <2>2 DEF TypeOK
    <3>4. Reads(ch, m)
      BY <3>2, <3>3 DEF Reads
    <3> QED
      BY <3>2, <3>4
  <2>3. CASE ch # c
    <3> HIDE DEF c, m
    <3>1. Same(ch)
      BY <2>1, <2>3 DEF Same, TypeOK
    <3> QED
      BY <3>1
  <2> QED
    BY <2>2, <2>3
<1>6. ASSUME NEW c \in Channels, AckArrives(c) PROVE Goal
  <2>1. Same(ch)
    BY <1>6 DEF AckArrives, Same, TypeOK
  <2> QED
    BY <2>1
<1>7. ASSUME NEW c \in Channels, ChannelEnds(c) PROVE Goal
  <2>1. Same(ch) \/ Clears(ch)
    BY <1>7 DEF ChannelEnds, Same, Clears, TypeOK
  <2> QED
    BY <2>1
<1>8. ASSUME \/ ApplyChanges
             \/ \E h \in Hosts : AddClient(h) \/ HandleNodeDisconnect(h)
             \/ \E c \in Channels : RemoveClient(c)
             \/ UNCHANGED vars
      PROVE Goal
  BY <1>0, <1>8 DEF ApplyChanges, AddClient, HandleNodeDisconnect, RemoveClient, vars
<1>9. Goal
  BY <1>1, <1>2, <1>3, <1>4, <1>5, <1>6, <1>7, <1>8 DEF Next, TaskStep, SetupStep
<1> QED
  BY <1>a, <1>b, <1>9

(* What a host keeps changes only by what is sent to it: an end it keeps   *)
(* after a step it kept before, and the step did not send its teardown; or *)
(* the step has sent its set-up.                                           *)
LEMMA NextKeeps ==
    ASSUME TypeOK, Routes, Lookups, WellFormed(pool), [Next]_vars, NEW ch \in Channels,
           NEW e \in Keeps(held'[ch], queue'[ch])
    PROVE  /\ e \in Setups
           /\ \/ /\ e \in Keeps(held[ch], queue[ch])
                 /\ \A t \in Tasks : PutsTeardown(ch, t) =>
                        ~Names(Teardown(task[t].leg, task[t].net), e)
              \/ \E t \in Tasks, side \in Sides : PutsSetup(ch, t, side) /\ e = EndOf(t, side)
<1>1. /\ queue[ch] \in Seq(Messages) /\ held[ch] \in EndSets
      /\ queue'[ch] \in Seq(Messages) /\ held'[ch] \in EndSets
  BY NextChannel
<1>2. e \in Setups
  BY <1>1, KeepsCarried, CarriedTyped
<1> DEFINE Old == e \in Keeps(held[ch], queue[ch])
<1>3. ASSUME NEW t \in Tasks, PutsTeardown(ch, t)
      PROVE  Old /\ ~Names(Teardown(task[t].leg, task[t].net), e)
  <2>0. PICK m : m = Teardown(task[t].leg, task[t].net)
    OBVIOUS
  <2>1. /\ m \in Teardowns /\ m \in Messages /\ Added(queue[ch], m, queue'[ch])
        /\ held'[ch] = held[ch]
    BY <1>3, <2>0 DEF PutsTeardown, Puts, Messages
  <2>2. e # m
    BY <1>2, <2>1, Kinds
  <2>3. Old /\ ~Names(m, e)
    BY <1>1, <1>2, <2>1, <2>2, KeepsAdded
  <2> QED
    BY <2>0, <2>3, Zenon
<1>4. ASSUME NEW t \in Tasks, NEW side \in Sides, PutsSetup(ch, t, side)
      PROVE  Old \/ e = EndOf(t, side)
  <2>0. PICK m : m = EndOf(t, side)
    OBVIOUS
  <2>1. m \in Messages /\ Added(queue[ch], m, queue'[ch]) /\ held'[ch] = held[ch]
    BY <1>4, <2>0 DEF PutsSetup, Puts, Messages
  <2>2. Old \/ e = m
    BY <1>1, <1>2, <2>1, KeepsAdded
  <2> QED
    BY <2>0, <2>2, Zenon
<1>5. ASSUME NEW m \in Messages, Reads(ch, m) PROVE Old
  BY <1>1, <1>5, KeepsReadOff DEF Reads
<1>6. ~Clears(ch)
  BY KeepsNothing DEF Clears
<1>7. ASSUME Same(ch) PROVE Old
  BY <1>7 DEF Same
<1> HIDE DEF Old
<1>8. Old \/ \E t \in Tasks, side \in Sides : PutsSetup(ch, t, side) /\ e = EndOf(t, side)
  BY <1>3, <1>4, <1>5, <1>6, <1>7, NextChannel
<1> QED
  BY <1>2, <1>3, <1>8 DEF Old

(* Every step leaves a host's entry alone, removes it, or replaces it by a *)
(* channel that nothing has been sent to (add_client).                     *)
LEMMA NextClients ==
    ASSUME TypeOK, Routes, Lookups, [Next]_vars, NEW h \in Hosts, clients'[h] # None
    PROVE  \/ clients'[h] = clients[h]
           \/ queue'[clients'[h]] = <<>> /\ held'[clients'[h]] = {}
<1> USE DEF hostVars
<1>0. ASSUME UNCHANGED clients
      PROVE  clients'[h] = clients[h]
  BY <1>0
<1>1. ASSUME NEW x \in Hosts, AddClient(x)
      PROVE  \/ clients'[h] = clients[h]
             \/ queue'[clients'[h]] = <<>> /\ held'[clients'[h]] = {}
  <2> DEFINE new == <<x, opened[x] + 1>>
  <2>1. opened[x] \in Nat /\ MaxOpens[x] \in Nat /\ opened[x] < MaxOpens[x]
    BY <1>1, OrchestratorConstants DEF AddClient, TypeOK
  <2>2. new \in Channels /\ new[1] = x /\ new[2] > opened[new[1]]
    BY <2>1, ChannelParts
  <2>3. clients' = [clients EXCEPT ![x] = new] /\ UNCHANGED <<queue, held>>
    BY <1>1 DEF AddClient
  <2> HIDE DEF new
  <2>4. queue[new] = <<>> /\ held[new] = {}
    BY <2>2 DEF Routes
  <2> QED
    BY <2>3, <2>4 DEF TypeOK
<1>2. ASSUME NEW ch \in Channels, RemoveClient(ch) PROVE clients'[h] = clients[h]
  BY <1>2, ChannelParts DEF RemoveClient, TypeOK
<1>3. ASSUME NEW t \in Tasks, NEW side \in Sides, SetupStep(t, side) PROVE UNCHANGED clients
  BY <1>3 DEF SetupStep, SetupLookup, SetupSend, SetupTimeout, SetupExpired
<1>4. ASSUME NEW t \in Tasks,
             \/ AllocateNetId(t) \/ Commit(t) \/ Rollback(t) \/ Aborted(t) \/ RemoveEntry(t)
             \/ TeardownLookup(t) \/ TeardownSend(t) \/ TeardownFree(t)
      PROVE UNCHANGED clients
  BY <1>4 DEF AllocateNetId, Commit, Rollback, Aborted, RemoveEntry, TeardownLookup, TeardownSend,
              TeardownFree
<1>5. ASSUME \/ ApplyChanges
             \/ \E x \in Hosts : HostReads(x) \/ HandleNodeDisconnect(x)
             \/ \E ch \in Channels : ChannelEnds(ch) \/ AckArrives(ch)
             \/ UNCHANGED vars
      PROVE UNCHANGED clients
  BY <1>5 DEF ApplyChanges, HostReads, HandleNodeDisconnect, ChannelEnds, AckArrives, vars
<1> QED
  BY <1>0, <1>1, <1>2, <1>3, <1>4, <1>5 DEF Next, TaskStep

(* A channel that has ended stays so.                                      *)
LEMMA NextBroken ==
    ASSUME TypeOK, [Next]_vars, Routes, NEW ch \in Channels, Broken(ch)
    PROVE  inbound'[ch] \in {"ended", "removed"}
<1> USE DEF hostVars
<1>0. ASSUME UNCHANGED inbound PROVE inbound'[ch] \in {"ended", "removed"}
  BY <1>0 DEF Broken
<1>1. ASSUME NEW h \in Hosts, AddClient(h) PROVE inbound'[ch] \in {"ended", "removed"}
  <2>1. opened[h] \in Nat /\ MaxOpens[h] \in Nat /\ opened[h] < MaxOpens[h]
    BY <1>1, OrchestratorConstants DEF AddClient, TypeOK
  <2>2. <<h, opened[h] + 1>> \in Channels
    BY <2>1, ChannelParts
  <2>3. inbound[<<h, opened[h] + 1>>] = "unused"
    BY <2>1, <2>2 DEF Routes
  <2> QED
    BY <1>1, <2>3 DEF AddClient, Broken, TypeOK
<1>2. ASSUME NEW c \in Channels, ChannelEnds(c) \/ RemoveClient(c)
      PROVE  inbound'[ch] \in {"ended", "removed"}
  BY <1>2 DEF ChannelEnds, RemoveClient, Broken, TypeOK
<1>3. ASSUME NEW t \in Tasks, NEW side \in Sides, SetupStep(t, side) PROVE UNCHANGED inbound
  BY <1>3 DEF SetupStep, SetupLookup, SetupSend, SetupTimeout, SetupExpired
<1>4. ASSUME NEW t \in Tasks,
             \/ AllocateNetId(t) \/ Commit(t) \/ Rollback(t) \/ Aborted(t) \/ RemoveEntry(t)
             \/ TeardownLookup(t) \/ TeardownSend(t) \/ TeardownFree(t)
      PROVE UNCHANGED inbound
  BY <1>4 DEF AllocateNetId, Commit, Rollback, Aborted, RemoveEntry, TeardownLookup, TeardownSend,
              TeardownFree
<1>5. ASSUME \/ ApplyChanges
             \/ \E h \in Hosts : HostReads(h) \/ HandleNodeDisconnect(h)
             \/ \E c \in Channels : AckArrives(c)
             \/ UNCHANGED vars
      PROVE UNCHANGED inbound
  BY <1>5 DEF ApplyChanges, HostReads, HandleNodeDisconnect, AckArrives, vars
<1> QED
  BY <1>0, <1>1, <1>2, <1>3, <1>4, <1>5 DEF Next, TaskStep
==============================================================================
