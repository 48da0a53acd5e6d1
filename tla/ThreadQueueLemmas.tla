-------------------------- MODULE ThreadQueueLemmas --------------------------
(* What the operations on thread queues do to the set of queued threads.   *)
EXTENDS ThreadQueues, WellFoundedInduction, TLAPS

\* removeFromRunQueue on a queue that holds an element at most once removes
\* exactly that element.
LEMMA WithoutSet ==
    ASSUME NEW S, NEW s \in Seq(S), NEW x
    PROVE  /\ Without(s, x) \in Seq(S)
           /\ IsInjective(s) => /\ ToSet(Without(s, x)) = ToSet(s) \ {x}
                                /\ IsInjective(Without(s, x))
<1>1. CASE x \notin ToSet(s)
  BY <1>1 DEF Without, ToSet
<1>2. CASE x \in ToSet(s)
  <2> DEFINE k == CHOOSE i \in DOMAIN s : s[i] = x
             w == Without(s, x)
  <2>1. k \in DOMAIN s /\ s[k] = x
    BY <1>2 DEF ToSet
  <2>2. k \in 1..Len(s)
    BY <2>1
  <2>3. w = SubSeq(s, 1, k - 1) \o SubSeq(s, k + 1, Len(s))
    BY <1>2 DEF Without, RemoveAt
  <2> HIDE DEF k, w
  <2>4. /\ w \in Seq(S) /\ Len(w) = Len(s) - 1
        /\ \A i \in 1..Len(w) : w[i] = IF i < k THEN s[i] ELSE s[i + 1]
    <3> DEFINE a == SubSeq(s, 1, k - 1)
               b == SubSeq(s, k + 1, Len(s))
    <3>1. a \in Seq(S) /\ Len(a) = k - 1 /\ \A i \in 1..(k - 1) : a[i] = s[i]
      BY <2>2
    <3>2. b \in Seq(S) /\ Len(b) = Len(s) - k /\ \A i \in 1..(Len(s) - k) : b[i] = s[i + k]
      BY <2>2
    <3> HIDE DEF a, b
    <3>3. w = a \o b
      BY <2>3 DEF a, b
    <3>4. w \in Seq(S) /\ Len(w) = Len(s) - 1
      BY <2>2, <3>1, <3>2, <3>3
    <3>5. ASSUME NEW i \in 1..Len(w) PROVE w[i] = IF i < k THEN s[i] ELSE s[i + 1]
      <4>1. CASE i < k
        BY <4>1, <2>2, <3>1, <3>2, <3>3, <3>4
      <4>2. CASE ~(i < k)
        <5>1. w[i] = b[i - (k - 1)]
          BY <4>2, <2>2, <3>1, <3>2, <3>3, <3>4
        <5>2. i - (k - 1) \in 1..(Len(s) - k) /\ (i - (k - 1)) + k = i + 1
          BY <4>2, <2>2, <3>4
        <5>3. b[i - (k - 1)] = s[(i - (k - 1)) + k]
          BY <3>2, <5>2
        <5> QED BY <5>1, <5>2, <5>3, <4>2
      <4> QED BY <4>1, <4>2
    <3> QED BY <3>4, <3>5
  <2>5. ASSUME IsInjective(s) PROVE ToSet(w) = ToSet(s) \ {x} /\ IsInjective(w)
    <3>1. \A i, j \in 1..Len(s) : s[i] = s[j] => i = j
      BY <2>5 DEF IsInjective
    <3>2. IsInjective(w)
      BY <2>2, <2>4, <3>1 DEF IsInjective
    <3>3. \A i \in 1..Len(w) : w[i] \in ToSet(s) \ {x}
      BY <2>1, <2>2, <2>4, <3>1 DEF ToSet
    <3>4. ASSUME NEW y \in ToSet(s) \ {x} PROVE y \in ToSet(w)
      <4>1. PICK i \in 1..Len(s) : s[i] = y
        BY DEF ToSet
      <4>2. CASE i < k
        BY <4>1, <4>2, <2>2, <2>4 DEF ToSet
      <4>3. CASE ~(i < k)
        <5>1. i - 1 \in 1..Len(w) /\ w[i - 1] = y
          BY <4>1, <4>3, <2>1, <2>2, <2>4
        <5> QED BY <5>1, <2>4 DEF ToSet
      <4> QED BY <4>2, <4>3
    <3>5. ToSet(w) \subseteq ToSet(s) \ {x}
      BY <3>3, <2>4 DEF ToSet
    <3> QED BY <3>2, <3>4, <3>5
  <2> QED BY <2>4, <2>5 DEF w
<1> QED BY <1>1, <1>2

\* A thread appended to a queue that does not hold it yet.
LEMMA AppendSet ==
    ASSUME NEW S, NEW s \in Seq(S), NEW x \in S
    PROVE  /\ Append(s, x) \in Seq(S)
           /\ ToSet(Append(s, x)) = ToSet(s) \cup {x}
           /\ IsInjective(s) /\ x \notin ToSet(s) => IsInjective(Append(s, x))
<1> DEFINE a == Append(s, x)
<1>1. /\ a \in Seq(S) /\ Len(a) = Len(s) + 1 /\ a[Len(s) + 1] = x
      /\ \A i \in 1..Len(s) : a[i] = s[i]
  OBVIOUS
<1> HIDE DEF a
<1>2. ToSet(a) = ToSet(s) \cup {x}
  <2>1. ASSUME NEW y \in ToSet(a) PROVE y \in ToSet(s) \cup {x}
    <3>1. PICK i \in 1..Len(a) : a[i] = y
      BY <1>1 DEF ToSet
    <3> QED BY <1>1, <3>1 DEF ToSet
  <2>2. ToSet(s) \subseteq ToSet(a)
    BY <1>1 DEF ToSet
  <2>3. x \in ToSet(a)
    BY <1>1 DEF ToSet
  <2> QED BY <2>1, <2>2, <2>3
<1>3. ASSUME IsInjective(s), x \notin ToSet(s) PROVE IsInjective(a)
  <2>1. \A i \in 1..Len(s) : s[i] # x
    BY <1>3 DEF ToSet
  <2> QED BY <1>1, <1>3, <2>1 DEF IsInjective
<1> QED BY <1>1, <1>2, <1>3 DEF a

\* A thread put at the front of a queue that does not hold it yet.
LEMMA FrontSet ==
    ASSUME NEW S, NEW s \in Seq(S), NEW x \in S
    PROVE  /\ <<x>> \o s \in Seq(S)
           /\ ToSet(<<x>> \o s) = ToSet(s) \cup {x}
           /\ IsInjective(s) /\ x \notin ToSet(s) => IsInjective(<<x>> \o s)
<1> DEFINE a == <<x>> \o s
<1>1. /\ a \in Seq(S) /\ Len(a) = Len(s) + 1 /\ a[1] = x
      /\ \A i \in 1..Len(s) : a[i + 1] = s[i]
  OBVIOUS
<1>2. \A i \in 1..Len(a) : i = 1 \/ (i - 1 \in 1..Len(s) /\ a[i] = s[i - 1])
  BY <1>1
<1> HIDE DEF a
<1>3. ToSet(a) = ToSet(s) \cup {x}
  <2>1. ASSUME NEW y \in ToSet(a) PROVE y \in ToSet(s) \cup {x}
    <3>1. PICK i \in 1..Len(a) : a[i] = y
      BY <1>1 DEF ToSet
    <3> QED BY <1>1, <1>2, <3>1 DEF ToSet
  <2>2. ASSUME NEW y \in ToSet(s) PROVE y \in ToSet(a)
    <3>1. PICK i \in 1..Len(s) : s[i] = y
      BY DEF ToSet
    <3>2. i + 1 \in 1..Len(a) /\ a[i + 1] = y
      BY <1>1, <3>1
    <3> QED BY <1>1, <3>2 DEF ToSet
  <2>3. x \in ToSet(a)
    BY <1>1 DEF ToSet
  <2> QED BY <2>1, <2>2, <2>3
<1>4. ASSUME IsInjective(s), x \notin ToSet(s) PROVE IsInjective(a)
  <2>1. \A i \in 1..Len(s) : s[i] # x
    BY <1>4 DEF ToSet
  <2>2. \A i, j \in 1..Len(s) : s[i] = s[j] => i = j
    BY <1>4 DEF IsInjective
  <2>3. ASSUME NEW i \in 1..Len(a), NEW j \in 1..Len(a), a[i] = a[j] PROVE i = j
    <3>1. CASE i = 1 \/ j = 1
      BY <1>1, <1>2, <2>1, <2>3, <3>1
    <3>2. CASE i # 1 /\ j # 1
      <4>1. i - 1 \in 1..Len(s) /\ j - 1 \in 1..Len(s) /\ s[i - 1] = s[j - 1]
        BY <1>2, <2>3, <3>2
      <4>2. i - 1 = j - 1
        BY <2>2, <4>1
      <4> QED BY <4>2
    <3> QED BY <3>1, <3>2
  <2> QED BY <1>1, <2>3 DEF IsInjective
<1> QED BY <1>1, <1>3, <1>4 DEF a

\* A queue is empty exactly when nobody is in it, and its head is in it.
LEMMA HeadInQueue ==
    ASSUME NEW S, NEW s \in Seq(S)
    PROVE  /\ s = <<>> <=> ToSet(s) = {}
           /\ s # <<>> => Head(s) \in ToSet(s)
<1>1. CASE s = <<>>
  BY <1>1 DEF ToSet
<1>2. CASE s # <<>>
  <2>1. 1 \in DOMAIN s /\ Head(s) = s[1]
    BY <1>2
  <2> QED BY <1>2, <2>1 DEF ToSet
<1> QED BY <1>1, <1>2

\* A set of natural numbers that is not empty has a least element.
LEMMA SmallestOf ==
    ASSUME NEW T \in SUBSET Nat, T # {}
    PROVE  \E m \in T : \A k \in T : m <= k
<1> DEFINE Less == OpToRel(<, Nat)
<1>1. \A i, j \in Nat : <<i, j>> \in Less <=> i < j
  BY DEF OpToRel
<1> HIDE DEF Less
<1>2. PICK m \in T : \A k \in T : ~(<<k, m>> \in Less)
  <2>1. IsWellFoundedOn(Less, Nat)
    BY NatLessThanWellFounded DEF Less
  <2> QED BY <2>1, WFMin
<1>3. \A k \in T : ~(k < m)
  BY <1>1, <1>2
<1> QED BY <1>3

\* A signal reaches a waiter that is not suspended, and nobody only if all
\* the waiters are suspended (the loop of wakeWaitingThreadsForHandle).
LEMMA FirstAwakeIsAwake ==
    ASSUME NEW S, NEW s \in Seq(S), NEW asleep
    PROVE  /\ FirstAwake(s, asleep) \subseteq ToSet(s) \ asleep
           /\ FirstAwake(s, asleep) = {} => ToSet(s) \subseteq asleep
<1>1. FirstAwake(s, asleep) \subseteq ToSet(s) \ asleep
  BY DEF FirstAwake, ToSet
<1>2. ASSUME NEW x \in ToSet(s), x \notin asleep
      PROVE  FirstAwake(s, asleep) # {}
  <2> DEFINE awake == {j \in DOMAIN s : s[j] \notin asleep}
  <2>1. awake \subseteq Nat /\ awake # {}
    BY <1>2 DEF ToSet
  <2>2. PICK i \in awake : \A m \in awake : i <= m
    BY <2>1, SmallestOf
  <2>3. i \in DOMAIN s /\ s[i] \notin asleep
    OBVIOUS
  <2>4. \A k \in 1..(i - 1) : s[k] \in asleep
    BY <2>1, <2>2, <2>3
  <2> QED BY <2>3, <2>4 DEF FirstAwake
<1> QED BY <1>1, <1>2

=============================================================================
