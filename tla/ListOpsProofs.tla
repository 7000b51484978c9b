---------------------------- MODULE ListOpsProofs ----------------------------
(***************************************************************************)
(* What list_enqueue and list_unlink do to a list, for lists of any length *)
(* over any set of nodes: the members, the absence of duplicates, and the  *)
(* priority order.                                                         *)
(***************************************************************************)
EXTENDS ListOps, TLAPS, FiniteSetTheorems, SequenceTheorems

\* A non-empty set of naturals has a least element.
LEMMA LeastNatural ==
  ASSUME NEW B, B \subseteq Nat, B # {}
  PROVE  \E m \in B : \A k \in B : m <= k
<1> DEFINE F == {1 .. k : k \in B}
<1>1. F \subseteq FiniteSubsetsOf(Nat)
  <2>1. \A k \in B : IsFiniteSet(1 .. k)
    BY FS_Interval
  <2> QED
    BY <2>1 DEF FiniteSubsetsOf
<1>2. F # {}
  OBVIOUS
<1>3. IsWellFoundedOn(StrictSubsetOrdering(Nat), FiniteSubsetsOf(Nat))
  BY FS_StrictSubsetOrderingWellFounded
<1>4. PICK M \in F : \A K \in F : ~ (<<K, M>> \in StrictSubsetOrdering(Nat))
  <2> HIDE DEF F
  <2> QED
    BY <1>1, <1>2, <1>3, WFMin
<1>5. PICK m \in B : M = 1 .. m
  OBVIOUS
<1>6. ASSUME NEW k \in B, k < m
      PROVE  FALSE
  <2>1. 1 .. k \in F
    OBVIOUS
  <2>2. 1 .. k \subseteq 1 .. m /\ m \in 1 .. m /\ m \notin 1 .. k
    BY <1>6
  <2>3. <<1 .. k, 1 .. m>> \in StrictSubsetOrdering(Nat)
    BY <2>2 DEF StrictSubsetOrdering
  <2> QED
    BY <1>4, <1>5, <2>1, <2>3
<1> QED
  BY <1>6

\* InsertAt, position by position.
LEMMA InsertAtElements ==
  ASSUME NEW T, NEW q \in Seq(T), NEW n \in T, NEW i \in 1 .. Len(q) + 1
  PROVE  /\ InsertAt(q, i, n) \in Seq(T)
         /\ Len(InsertAt(q, i, n)) = Len(q) + 1
         /\ \A j \in 1 .. i - 1 : InsertAt(q, i, n)[j] = q[j]
         /\ InsertAt(q, i, n)[i] = n
         /\ \A j \in i + 1 .. Len(q) + 1 : InsertAt(q, i, n)[j] = q[j - 1]
<1> DEFINE l == SubSeq(q, 1, i - 1)
           r == SubSeq(q, i, Len(q))
<1>1. l \in Seq(T) /\ Len(l) = i - 1 /\ \A j \in 1 .. i - 1 : l[j] = q[j]
  BY SubSeqProperties
<1>2. r \in Seq(T) /\ Len(r) = Len(q) - i + 1
        /\ \A j \in 1 .. Len(q) - i + 1 : r[j] = q[i + j - 1]
  BY SubSeqProperties
<1> HIDE DEF l, r
<1>3. l \o <<n>> \in Seq(T) /\ Len(l \o <<n>>) = i
        /\ \A j \in 1 .. i : (l \o <<n>>)[j] = IF j < i THEN q[j] ELSE n
  BY <1>1
<1> DEFINE ln == l \o <<n>>
<1> HIDE DEF ln
<1>4. ln \in Seq(T) /\ Len(ln) = i
        /\ \A j \in 1 .. i : ln[j] = IF j < i THEN q[j] ELSE n
  BY <1>3 DEF ln
<1>5. InsertAt(q, i, n) = ln \o r
  BY DEF InsertAt, ln, l, r
<1>6. ln \o r \in Seq(T) /\ Len(ln \o r) = Len(q) + 1
  <2>1. ln \o r \in Seq(T) /\ Len(ln \o r) = Len(ln) + Len(r)
    BY <1>2, <1>4, ConcatProperties
  <2>2. Len(q) \in Nat
    BY LenProperties
  <2> QED
    BY <1>2, <1>4, <2>1, <2>2
<1>7. Len(q) \in Nat
  BY LenProperties
<1>8. ASSUME NEW j \in 1 .. i - 1
      PROVE  (ln \o r)[j] = q[j]
  BY <1>2, <1>4, <1>7
<1>9. (ln \o r)[i] = n
  BY <1>2, <1>4, <1>7
<1>10. ASSUME NEW j \in i + 1 .. Len(q) + 1
       PROVE  (ln \o r)[j] = q[j - 1]
  <2>1. j - i \in 1 .. Len(q) - i + 1 /\ i + (j - i) - 1 = j - 1
    BY <1>7
  <2>2. r[j - i] = q[j - 1]
    BY <1>2, <2>1
  <2>3. (ln \o r)[j] = r[j - i]
    BY <1>2, <1>4, <1>7
  <2> QED
    BY <2>2, <2>3
<1> DEFINE e == ln \o r
<1> HIDE DEF e
<1> QED
  BY <1>5, <1>6, <1>8, <1>9, <1>10 DEF e

\* RemoveAt, position by position.
LEMMA RemoveAtElements ==
  ASSUME NEW T, NEW q \in Seq(T), NEW i \in 1 .. Len(q)
  PROVE  /\ RemoveAt(q, i) \in Seq(T)
         /\ Len(RemoveAt(q, i)) = Len(q) - 1
         /\ \A j \in 1 .. i - 1 : RemoveAt(q, i)[j] = q[j]
         /\ \A j \in i .. Len(q) - 1 : RemoveAt(q, i)[j] = q[j + 1]
<1> DEFINE l == SubSeq(q, 1, i - 1)
           r == SubSeq(q, i + 1, Len(q))
<1>1. l \in Seq(T) /\ Len(l) = i - 1 /\ \A j \in 1 .. i - 1 : l[j] = q[j]
  BY SubSeqProperties
<1>2. r \in Seq(T) /\ Len(r) = Len(q) - i
        /\ \A j \in 1 .. Len(q) - i : r[j] = q[i + j]
  BY SubSeqProperties
<1> HIDE DEF l, r
<1>3. RemoveAt(q, i) = l \o r
  BY DEF RemoveAt, l, r
<1>4. l \o r \in Seq(T) /\ Len(l \o r) = Len(q) - 1
  BY <1>1, <1>2, ConcatProperties
<1>5. Len(q) \in Nat
  BY LenProperties
<1>6. ASSUME NEW j \in 1 .. i - 1
      PROVE  (l \o r)[j] = q[j]
  BY <1>1, <1>2, <1>5
<1>7. ASSUME NEW j \in i .. Len(q) - 1
      PROVE  (l \o r)[j] = q[j + 1]
  <2>1. j - (i - 1) \in 1 .. Len(q) - i /\ i + (j - (i - 1)) = j + 1
    BY <1>5
  <2>2. r[j - (i - 1)] = q[j + 1]
    BY <1>2, <2>1
  <2>3. (l \o r)[j] = r[j - (i - 1)]
    BY <1>1, <1>2, <1>5
  <2> QED
    BY <2>2, <2>3
<1> QED
  BY <1>3, <1>4, <1>6, <1>7

\* The walk of list_enqueue stops somewhere.
LEMMA EnqueuePosExists ==
  ASSUME NEW T, NEW q \in Seq(T), NEW pr \in [T -> Int], NEW p \in Int
  PROVE  \E i \in 1 .. Len(q) + 1 : IsEnqueuePos(q, pr, p, i)
<1> DEFINE B == {i \in 1 .. Len(q) + 1 :
                   i <= Len(q) => GoesBefore(p, pr[q[i]])}
<1>1. Len(q) \in Nat
  BY LenProperties
<1>2. B \subseteq Nat /\ Len(q) + 1 \in B
  BY <1>1
<1>3. PICK m \in B : \A k \in B : m <= k
  <2> HIDE DEF B
  <2> QED
    BY <1>2, LeastNatural
<1>4. ASSUME NEW j \in 1 .. m - 1
      PROVE  ~ GoesBefore(p, pr[q[j]])
  <2>1. j \in 1 .. Len(q) + 1 /\ ~ (m <= j)
    BY <1>1, <1>3
  <2> QED
    BY <1>3, <2>1
<1> QED
  BY <1>3, <1>4 DEF IsEnqueuePos

\* e is q with n inserted at position i.
InsertedAt(e, q, n, i) ==
  /\ \A j \in 1 .. i - 1 : e[j] = q[j]
  /\ e[i] = n
  /\ \A j \in i + 1 .. Len(q) + 1 : e[j] = q[j - 1]

\* list_enqueue, position by position.
LEMMA EnqueueElements ==
  ASSUME NEW T, NEW q \in Seq(T), NEW pr \in [T -> Int], NEW n \in T
  PROVE  /\ list_enqueue(q, pr, n) \in Seq(T)
         /\ Len(list_enqueue(q, pr, n)) = Len(q) + 1
         /\ \E i \in 1 .. Len(q) + 1 :
              /\ IsEnqueuePos(q, pr, pr[n], i)
              /\ InsertedAt(list_enqueue(q, pr, n), q, n, i)
<1> DEFINE i == CHOOSE k \in 1 .. Len(q) + 1 : IsEnqueuePos(q, pr, pr[n], k)
<1>1. i \in 1 .. Len(q) + 1 /\ IsEnqueuePos(q, pr, pr[n], i)
  <2>1. \E k \in 1 .. Len(q) + 1 : IsEnqueuePos(q, pr, pr[n], k)
    BY EnqueuePosExists
  <2> QED
    BY <2>1
<1>2. list_enqueue(q, pr, n) = InsertAt(q, i, n)
  BY DEF list_enqueue
<1> HIDE DEF i
<1>3. /\ InsertAt(q, i, n) \in Seq(T)
      /\ Len(InsertAt(q, i, n)) = Len(q) + 1
      /\ InsertedAt(InsertAt(q, i, n), q, n, i)
  BY <1>1, InsertAtElements DEF InsertedAt
<1> QED
  BY <1>1, <1>2, <1>3

\* An insertion adds the node and nothing else, and links no node twice.
LEMMA InsertedMembers ==
  ASSUME NEW T, NEW q \in Seq(T), NEW n \in T, NEW e \in Seq(T), Len(e) = Len(q) + 1,
         NEW i \in 1 .. Len(q) + 1, InsertedAt(e, q, n, i)
  PROVE  /\ e # << >>
         /\ \A x : OnList(e, x) <=> x = n \/ OnList(q, x)
         /\ NoDuplicates(q) /\ ~ OnList(q, n) => NoDuplicates(e)
<1>1. e \in Seq(T) /\ Len(e) = Len(q) + 1
  OBVIOUS
<1>2. /\ \A j \in 1 .. i - 1 : e[j] = q[j]
      /\ e[i] = n
      /\ \A j \in i + 1 .. Len(q) + 1 : e[j] = q[j - 1]
  BY DEF InsertedAt
<1>3. Len(q) \in Nat
  BY LenProperties
<1>4. e # << >>
  BY <1>1, <1>3
<1>5. ASSUME NEW x
      PROVE  OnList(e, x) <=> x = n \/ OnList(q, x)
  <2>1. ASSUME OnList(e, x), x # n
        PROVE  OnList(q, x)
    <3>1. PICK j \in 1 .. Len(q) + 1 : e[j] = x
      BY <1>1, <2>1 DEF OnList
    <3>2. j # i
      BY <1>2, <2>1, <3>1
    <3>3. CASE j < i
      <4>1. j \in 1 .. Len(q) /\ q[j] = x
        BY <1>2, <1>3, <3>1, <3>3
      <4> QED
        BY <4>1 DEF OnList
    <3>4. CASE j > i
      <4>1. j \in i + 1 .. Len(q) + 1 /\ j - 1 \in 1 .. Len(q)
        BY <1>3, <3>4
      <4>2. q[j - 1] = x
        BY <1>2, <3>1, <4>1
      <4> QED
        BY <4>1, <4>2 DEF OnList
    <3> QED
      BY <1>3, <3>2, <3>3, <3>4
  <2>2. OnList(e, n)
    BY <1>1, <1>2, <1>3 DEF OnList
  <2>3. ASSUME NEW k \in 1 .. Len(q)
        PROVE  OnList(e, q[k])
    <3>1. CASE k < i
      <4>1. k \in 1 .. Len(q) + 1 /\ e[k] = q[k]
        BY <1>2, <1>3, <3>1
      <4> QED
        BY <1>1, <4>1 DEF OnList
    <3>2. CASE k >= i
      <4>1. k + 1 \in 1 .. Len(q) + 1 /\ e[k + 1] = q[k]
        BY <1>2, <1>3, <3>2
      <4> QED
        BY <1>1, <4>1 DEF OnList
    <3> QED
      BY <1>3, <3>1, <3>2
  <2> QED
    BY <2>1, <2>2, <2>3 DEF OnList
<1>6. ASSUME NoDuplicates(q), ~ OnList(q, n)
      PROVE  NoDuplicates(e)
  <2> SUFFICES ASSUME NEW j \in 1 .. Len(e), NEW k \in 1 .. Len(e),
                      e[j] = e[k], j < k
               PROVE  FALSE
    BY <1>1, <1>3 DEF NoDuplicates
  <2>1. \A a \in 1 .. Len(q) : q[a] # n
    BY <1>6 DEF OnList
  <2>2. \A a, c \in 1 .. Len(q) : a # c => q[a] # q[c]
    BY <1>6 DEF NoDuplicates
  <2>3. CASE k < i
    <3>1. /\ j \in 1 .. i - 1 /\ k \in 1 .. i - 1
          /\ j \in 1 .. Len(q) /\ k \in 1 .. Len(q)
      BY <1>1, <1>3, <2>3, SMTT(30)
    <3> QED
      BY <1>2, <2>2, <3>1
  <2>4. CASE k = i
    <3>1. j \in 1 .. i - 1 /\ j \in 1 .. Len(q)
      BY <1>1, <1>3, <2>4
    <3> QED
      BY <1>2, <2>1, <2>4, <3>1
  <2>5. CASE k > i /\ j < i
    <3>1. /\ j \in 1 .. i - 1 /\ k \in i + 1 .. Len(q) + 1
          /\ j \in 1 .. Len(q) /\ k - 1 \in 1 .. Len(q) /\ j # k - 1
      BY <1>1, <1>3, <2>5
    <3>2. e[j] = q[j] /\ e[k] = q[k - 1]
      BY <1>2, <3>1
    <3> QED
      BY <2>2, <3>1, <3>2
  <2>6. CASE k > i /\ j = i
    <3>1. k \in i + 1 .. Len(q) + 1 /\ k - 1 \in 1 .. Len(q)
      BY <1>1, <1>3, <2>6
    <3> QED
      BY <1>2, <2>1, <2>6, <3>1
  <2>7. CASE k > i /\ j > i
    <3>1. /\ j \in i + 1 .. Len(q) + 1 /\ k \in i + 1 .. Len(q) + 1
          /\ j - 1 \in 1 .. Len(q) /\ k - 1 \in 1 .. Len(q) /\ j - 1 # k - 1
      BY <1>1, <1>3, <2>7
    <3>2. e[j] = q[j - 1] /\ e[k] = q[k - 1]
      BY <1>2, <3>1
    <3> QED
      BY <2>2, <3>1, <3>2
  <2> QED
    BY <1>1, <1>3, <2>3, <2>4, <2>5, <2>6, <2>7
<1> QED
  BY <1>4, <1>5, <1>6

\* list_enqueue adds the node and nothing else, and links no node twice.
LEMMA EnqueueMembers ==
  ASSUME NEW T, NEW q \in Seq(T), NEW pr \in [T -> Int], NEW n \in T
  PROVE  /\ list_enqueue(q, pr, n) \in Seq(T)
         /\ list_enqueue(q, pr, n) # << >>
         /\ \A x : OnList(list_enqueue(q, pr, n), x) <=> x = n \/ OnList(q, x)
         /\ NoDuplicates(q) /\ ~ OnList(q, n)
              => NoDuplicates(list_enqueue(q, pr, n))
<1> DEFINE e == list_enqueue(q, pr, n)
<1>0. /\ e \in Seq(T)
      /\ Len(e) = Len(q) + 1
      /\ \E i \in 1 .. Len(q) + 1 :
           IsEnqueuePos(q, pr, pr[n], i) /\ InsertedAt(e, q, n, i)
  BY EnqueueElements
<1> HIDE DEF e
<1>1. PICK i \in 1 .. Len(q) + 1 : InsertedAt(e, q, n, i)
  BY <1>0
<1>2. /\ e # << >>
      /\ \A x : OnList(e, x) <=> x = n \/ OnList(q, x)
      /\ NoDuplicates(q) /\ ~ OnList(q, n) => NoDuplicates(e)
  BY <1>0, <1>1, InsertedMembers
<1> QED
  BY <1>0, <1>2 DEF e

\* An insertion behind the nodes of the same or a higher priority and before
\* those of the same or a lower one keeps the priority order.
LEMMA InsertedSorted ==
  ASSUME NEW T, NEW q \in Seq(T), NEW n \in T, NEW e \in Seq(T), Len(e) = Len(q) + 1,
         NEW i \in 1 .. Len(q) + 1, InsertedAt(e, q, n, i),
         NEW pr \in [T -> Int], SortedByPrio(q, pr),
         \A j \in 1 .. Len(q) : j < i => pr[q[j]] >= pr[n],
         \A j \in 1 .. Len(q) : j >= i => pr[n] >= pr[q[j]]
  PROVE  SortedByPrio(e, pr)
<1>1. e \in Seq(T) /\ Len(e) = Len(q) + 1
  OBVIOUS
<1>2. /\ \A j \in 1 .. i - 1 : e[j] = q[j]
      /\ e[i] = n
      /\ \A j \in i + 1 .. Len(q) + 1 : e[j] = q[j - 1]
  BY DEF InsertedAt
<1>3. Len(q) \in Nat /\ \A j \in 1 .. Len(q) : q[j] \in T
  BY LenProperties, ElementOfSeq
<1>4. \A j, k \in 1 .. Len(q) : j < k => pr[q[j]] >= pr[q[k]]
  BY DEF SortedByPrio
<1>5. \A j \in 1 .. Len(q) : j < i => pr[q[j]] >= pr[n]
  OBVIOUS
<1>6. \A j \in 1 .. Len(q) : j >= i => pr[n] >= pr[q[j]]
  OBVIOUS
<1> SUFFICES ASSUME NEW j \in 1 .. Len(e), NEW k \in 1 .. Len(e), j < k
             PROVE  pr[e[j]] >= pr[e[k]]
  BY DEF SortedByPrio
<1>7. CASE k < i
  <2>1. /\ j \in 1 .. i - 1 /\ k \in 1 .. i - 1
        /\ j \in 1 .. Len(q) /\ k \in 1 .. Len(q)
    BY <1>1, <1>3, <1>7, SMTT(30)
  <2>2. e[j] = q[j] /\ e[k] = q[k]
    BY <1>2, <2>1
  <2> QED
    BY <1>4, <2>1, <2>2
<1>8. CASE k = i
  <2>1. j \in 1 .. i - 1 /\ j \in 1 .. Len(q) /\ j < i
    BY <1>1, <1>3, <1>8
  <2>2. e[j] = q[j] /\ e[k] = n
    BY <1>2, <1>8, <2>1
  <2> QED
    BY <1>5, <2>1, <2>2
<1>9. CASE k > i /\ j < i
  <2>1. /\ j \in 1 .. i - 1 /\ k \in i + 1 .. Len(q) + 1
        /\ j \in 1 .. Len(q) /\ k - 1 \in 1 .. Len(q) /\ j < k - 1
    BY <1>1, <1>3, <1>9
  <2>2. e[j] = q[j] /\ e[k] = q[k - 1]
    BY <1>2, <2>1
  <2> QED
    BY <1>4, <2>1, <2>2
<1>10. CASE k > i /\ j = i
  <2>1. k \in i + 1 .. Len(q) + 1 /\ k - 1 \in 1 .. Len(q) /\ k - 1 >= i
    BY <1>1, <1>3, <1>10
  <2>2. e[j] = n /\ e[k] = q[k - 1]
    BY <1>2, <1>10, <2>1
  <2> QED
    BY <1>6, <2>1, <2>2
<1>11. CASE k > i /\ j > i
  <2>1. /\ j \in i + 1 .. Len(q) + 1 /\ k \in i + 1 .. Len(q) + 1
        /\ j - 1 \in 1 .. Len(q) /\ k - 1 \in 1 .. Len(q) /\ j - 1 < k - 1
    BY <1>1, <1>3, <1>11
  <2>2. e[j] = q[j - 1] /\ e[k] = q[k - 1]
    BY <1>2, <2>1
  <2> QED
    BY <1>4, <2>1, <2>2
<1> QED
  BY <1>1, <1>3, <1>7, <1>8, <1>9, <1>10, <1>11

\* A list in priority order stays in priority order.
LEMMA EnqueueSorted ==
  ASSUME NEW T, NEW q \in Seq(T), NEW pr \in [T -> Int], NEW n \in T,
         SortedByPrio(q, pr)
  PROVE  SortedByPrio(list_enqueue(q, pr, n), pr)
<1> DEFINE e == list_enqueue(q, pr, n)
<1>0. /\ e \in Seq(T)
      /\ Len(e) = Len(q) + 1
      /\ \E i \in 1 .. Len(q) + 1 :
           IsEnqueuePos(q, pr, pr[n], i) /\ InsertedAt(e, q, n, i)
  BY EnqueueElements
<1> HIDE DEF e
<1>1. e \in Seq(T) /\ Len(e) = Len(q) + 1
  BY <1>0
<1>2. PICK i \in 1 .. Len(q) + 1 : IsEnqueuePos(q, pr, pr[n], i) /\ InsertedAt(e, q, n, i)
  BY <1>0
<1>3. Len(q) \in Nat /\ \A j \in 1 .. Len(q) : q[j] \in T
  BY LenProperties, ElementOfSeq
<1>4. \A j, k \in 1 .. Len(q) : j < k => pr[q[j]] >= pr[q[k]]
  BY DEF SortedByPrio
<1>5. \A j \in 1 .. Len(q) : j < i => pr[q[j]] >= pr[n]
  BY <1>2, <1>3 DEF IsEnqueuePos, GoesBefore
<1>6. \A j \in 1 .. Len(q) : j >= i => pr[n] >= pr[q[j]]
  <2>1. i <= Len(q) => pr[n] >= pr[q[i]]
    BY <1>2, <1>3 DEF IsEnqueuePos, GoesBefore
  <2> QED
    BY <1>3, <1>4, <2>1
<1>7. SortedByPrio(e, pr)
  BY <1>1, <1>2, <1>5, <1>6, InsertedSorted
<1> QED
  BY <1>7 DEF e

\* list_unlink takes the node off the list and leaves the others in order.
LEMMA UnlinkMembers ==
  ASSUME NEW T, NEW q \in Seq(T), NEW n, OnList(q, n), NoDuplicates(q)
  PROVE  /\ list_unlink(q, n) \in Seq(T)
         /\ \A x : OnList(list_unlink(q, n), x) <=> x # n /\ OnList(q, x)
         /\ NoDuplicates(list_unlink(q, n))
<1> DEFINE i == CHOOSE k \in 1 .. Len(q) : q[k] = n
           u == list_unlink(q, n)
<1>1. i \in 1 .. Len(q) /\ q[i] = n
  BY DEF OnList
<1>2. u = RemoveAt(q, i)
  BY DEF list_unlink
<1> HIDE DEF i, u
<1>3. /\ u \in Seq(T)
      /\ Len(u) = Len(q) - 1
      /\ \A j \in 1 .. i - 1 : u[j] = q[j]
      /\ \A j \in i .. Len(q) - 1 : u[j] = q[j + 1]
  BY <1>1, <1>2, RemoveAtElements
<1>4. Len(q) \in Nat
  BY LenProperties
<1>5. \A a, c \in 1 .. Len(q) : a # c => q[a] # q[c]
  BY DEF NoDuplicates
<1>6. ASSUME NEW x
      PROVE  OnList(u, x) <=> x # n /\ OnList(q, x)
  <2>1. ASSUME NEW j \in 1 .. Len(u)
        PROVE  u[j] # n /\ OnList(q, u[j])
    <3>1. CASE j < i
      <4>1. j \in 1 .. Len(q) /\ u[j] = q[j] /\ j # i
        BY <1>1, <1>3, <1>4, <3>1
      <4> QED
        BY <1>1, <1>5, <4>1 DEF OnList
    <3>2. CASE j >= i
      <4>1. j + 1 \in 1 .. Len(q) /\ u[j] = q[j + 1] /\ j + 1 # i
        BY <1>1, <1>3, <1>4, <3>2
      <4> QED
        BY <1>1, <1>5, <4>1 DEF OnList
    <3> QED
      BY <1>1, <1>3, <1>4, <3>1, <3>2
  <2>2. ASSUME NEW k \in 1 .. Len(q), q[k] # n
        PROVE  OnList(u, q[k])
    <3>1. CASE k < i
      <4>1. k \in 1 .. Len(u) /\ u[k] = q[k]
        BY <1>1, <1>3, <1>4, <3>1
      <4> QED
        BY <4>1 DEF OnList
    <3>2. CASE k > i
      <4>1. k - 1 \in 1 .. Len(u) /\ u[k - 1] = q[k]
        BY <1>1, <1>3, <1>4, <3>2
      <4> QED
        BY <4>1 DEF OnList
    <3> QED
      BY <1>1, <1>4, <2>2, <3>1, <3>2
  <2> QED
    BY <2>1, <2>2 DEF OnList
<1>7. NoDuplicates(u)
  <2> SUFFICES ASSUME NEW j \in 1 .. Len(u), NEW k \in 1 .. Len(u),
                      u[j] = u[k], j < k
               PROVE  FALSE
    BY <1>3, <1>4 DEF NoDuplicates
  <2> QED
    BY <1>1, <1>3, <1>4, <1>5
<1> QED
  BY <1>3, <1>6, <1>7 DEF u

\* Append, the list_add_tail of the lists: the node is added once.
LEMMA AddTailMembers ==
  ASSUME NEW T, NEW q \in Seq(T), NEW n \in T
  PROVE  /\ Append(q, n) \in Seq(T)
         /\ \A x : OnList(Append(q, n), x) <=> x = n \/ OnList(q, x)
         /\ NoDuplicates(q) /\ ~ OnList(q, n) => NoDuplicates(Append(q, n))
<1> DEFINE e == Append(q, n)
<1>1. /\ e \in Seq(T)
      /\ Len(e) = Len(q) + 1
      /\ \A j \in 1 .. Len(q) : e[j] = q[j]
      /\ e[Len(q) + 1] = n
  BY AppendProperties
<1>2. Len(q) \in Nat
  BY LenProperties
<1> HIDE DEF e
<1>3. ASSUME NEW x
      PROVE  OnList(e, x) <=> x = n \/ OnList(q, x)
  BY <1>1, <1>2 DEF OnList
<1>4. ASSUME NoDuplicates(q), ~ OnList(q, n)
      PROVE  NoDuplicates(e)
  BY <1>1, <1>2, <1>4 DEF OnList, NoDuplicates
<1> QED
  BY <1>1, <1>3, <1>4 DEF e

\* Head and Tail, list_rem_head of the lists: the first node is gone, and in
\* a list in priority order it is one of highest priority.
LEMMA RemHeadMembers ==
  ASSUME NEW T, NEW q \in Seq(T), q # << >>
  PROVE  /\ Head(q) \in T
         /\ Tail(q) \in Seq(T)
         /\ OnList(q, Head(q))
         /\ NoDuplicates(q)
              => /\ \A x : OnList(Tail(q), x) <=> x # Head(q) /\ OnList(q, x)
                 /\ NoDuplicates(Tail(q))
         /\ \A pr : SortedByPrio(q, pr) => SortedByPrio(Tail(q), pr)
         /\ \A pr \in [T -> Int] : \A x :
              SortedByPrio(q, pr) /\ OnList(q, x) => pr[x] <= pr[Head(q)]
<1> DEFINE r == Tail(q)
<1>1. Len(q) \in Nat \ {0} /\ Head(q) = q[1] /\ Head(q) \in T
  BY EmptySeq, LenProperties, HeadTailProperties
<1>2. r \in Seq(T) /\ Len(r) = Len(q) - 1
        /\ \A j \in 1 .. Len(q) - 1 : r[j] = q[j + 1]
  BY HeadTailProperties, LenProperties
<1> HIDE DEF r
<1>3. OnList(q, q[1])
  BY <1>1 DEF OnList
<1>4. ASSUME NoDuplicates(q)
      PROVE  \A x : OnList(r, x) <=> x # q[1] /\ OnList(q, x)
  <2> TAKE x
  <2>1. ASSUME OnList(r, x)
        PROVE  x # q[1] /\ OnList(q, x)
    <3>1. PICK j \in 1 .. Len(r) : r[j] = x
      BY <2>1 DEF OnList
    <3>2. j + 1 \in 1 .. Len(q) /\ 1 \in 1 .. Len(q) /\ q[j + 1] = x /\ j + 1 # 1
      BY <1>1, <1>2, <3>1
    <3> QED
      BY <1>4, <3>2 DEF OnList, NoDuplicates
  <2>2. ASSUME x # q[1], OnList(q, x)
        PROVE  OnList(r, x)
    <3>1. PICK j \in 1 .. Len(q) : q[j] = x
      BY <2>2 DEF OnList
    <3>2. j - 1 \in 1 .. Len(r) /\ r[j - 1] = x
      BY <1>1, <1>2, <2>2, <3>1
    <3> QED
      BY <3>2 DEF OnList
  <2> QED
    BY <2>1, <2>2
<1>5. ASSUME NoDuplicates(q)
      PROVE  NoDuplicates(r)
  BY <1>1, <1>2, <1>5 DEF NoDuplicates
<1>6. ASSUME NEW pr, SortedByPrio(q, pr)
      PROVE  SortedByPrio(r, pr)
  BY <1>1, <1>2, <1>6, SMTT(30) DEF SortedByPrio
<1>7. ASSUME NEW pr \in [T -> Int], NEW x, SortedByPrio(q, pr), OnList(q, x)
      PROVE  pr[x] <= pr[q[1]]
  <2>1. PICK j \in 1 .. Len(q) : q[j] = x
    BY <1>7 DEF OnList
  <2>2. q[j] \in T /\ q[1] \in T
    BY <1>1, ElementOfSeq
  <2> QED
    BY <1>1, <1>7, <2>1, <2>2 DEF SortedByPrio
<1> QED
  BY <1>1, <1>2, <1>3, <1>4, <1>5, <1>6, <1>7 DEF r

\* list_unlink keeps the priority order.
LEMMA UnlinkSorted ==
  ASSUME NEW T, NEW q \in Seq(T), NEW n, OnList(q, n), NEW pr, SortedByPrio(q, pr)
  PROVE  SortedByPrio(list_unlink(q, n), pr)
<1> DEFINE i == CHOOSE k \in 1 .. Len(q) : q[k] = n
           u == RemoveAt(q, i)
<1>1. i \in 1 .. Len(q)
  BY DEF OnList
<1> HIDE DEF i
<1>2. /\ Len(u) = Len(q) - 1
      /\ \A j \in 1 .. i - 1 : u[j] = q[j]
      /\ \A j \in i .. Len(q) - 1 : u[j] = q[j + 1]
  BY <1>1, RemoveAtElements
<1>3. Len(q) \in Nat
  BY LenProperties
<1> HIDE DEF u
<1> DEFINE from(j) == IF j < i THEN j ELSE j + 1
<1>4. \A j \in 1 .. Len(q) - 1 : from(j) \in 1 .. Len(q) /\ u[j] = q[from(j)]
  BY <1>1, <1>2, <1>3
<1>5. \A j, k \in 1 .. Len(q) - 1 : j < k => from(j) < from(k)
  BY <1>1, <1>3
<1> HIDE DEF from
<1>6. SortedByPrio(u, pr)
  BY <1>2, <1>4, <1>5 DEF SortedByPrio
<1> QED
  BY <1>6 DEF u, i, list_unlink

\* A list whose first k nodes have been removed.
FrontRemoved(q, k) == SubSeq(q, k + 1, Len(q))

\* What is left of such a list.
LEMMA RemoveFront ==
  ASSUME NEW T, NEW q \in Seq(T), NoDuplicates(q), NEW k \in 0 .. Len(q)
  PROVE  /\ FrontRemoved(q, k) \in Seq(T)
         /\ Len(FrontRemoved(q, k)) = Len(q) - k
         /\ \A i \in 1 .. Len(q) - k : FrontRemoved(q, k)[i] = q[k + i]
         /\ NoDuplicates(FrontRemoved(q, k))
         /\ \A x : OnList(FrontRemoved(q, k), x) <=> OnList(q, x) /\ \A i \in 1 .. k : q[i] # x
         /\ \A pr : SortedByPrio(q, pr) => SortedByPrio(FrontRemoved(q, k), pr)
<1> DEFINE r == FrontRemoved(q, k)
<1>1. Len(q) \in Nat
  BY LenProperties
<1>2. /\ r \in Seq(T) /\ Len(r) = Len(q) - k
      /\ \A i \in 1 .. Len(q) - k : r[i] = q[k + i]
  <2>1. CASE k = Len(q)
    <3>1. r = << >>
      BY <1>1, <2>1 DEF FrontRemoved
    <3> QED
      BY <1>1, <2>1, <3>1
  <2>2. CASE k < Len(q)
    <3>1. k + 1 \in 1 .. Len(q) + 1 /\ Len(q) \in k .. Len(q)
      BY <1>1, <2>2
    <3>2. /\ r \in Seq(T) /\ Len(r) = Len(q) - (k + 1) + 1
          /\ \A i \in 1 .. Len(q) - (k + 1) + 1 : r[i] = q[k + 1 + i - 1]
      BY <1>1, <3>1, SubSeqProperties DEF FrontRemoved
    <3> QED
      BY <1>1, <3>2
  <2> QED
    BY <1>1, <2>1, <2>2
<1> HIDE DEF r
<1>3. \A i \in 1 .. Len(r) : k + i \in 1 .. Len(q) /\ r[i] = q[k + i]
  BY <1>1, <1>2
<1>4. NoDuplicates(r)
  <2> SUFFICES ASSUME NEW i \in 1 .. Len(r), NEW j \in 1 .. Len(r), r[i] = r[j]
               PROVE  i = j
    BY DEF NoDuplicates
  <2>1. k + i = k + j
    BY <1>3 DEF NoDuplicates
  <2> QED
    BY <1>1, <1>2, <2>1
<1>5. ASSUME NEW x
      PROVE  OnList(r, x) <=> OnList(q, x) /\ \A i \in 1 .. k : q[i] # x
  <2>1. ASSUME OnList(r, x)
        PROVE  OnList(q, x) /\ \A i \in 1 .. k : q[i] # x
    <3>1. PICK i \in 1 .. Len(r) : r[i] = x
      BY <2>1 DEF OnList
    <3>2. k + i \in 1 .. Len(q) /\ q[k + i] = x
      BY <1>3, <3>1
    <3>3. \A j \in 1 .. k : j \in 1 .. Len(q) /\ j # k + i
      BY <1>1, <1>2
    <3> QED
      BY <3>2, <3>3 DEF OnList, NoDuplicates
  <2>2. ASSUME OnList(q, x), \A i \in 1 .. k : q[i] # x
        PROVE  OnList(r, x)
    <3>1. PICK j \in 1 .. Len(q) : q[j] = x
      BY <2>2 DEF OnList
    <3>2. j > k
      BY <1>1, <2>2, <3>1
    <3>3. j - k \in 1 .. Len(r) /\ k + (j - k) = j
      BY <1>1, <1>2, <3>2
    <3>4. r[j - k] = x
      BY <1>3, <3>1, <3>3
    <3> QED
      BY <3>3, <3>4 DEF OnList
  <2> QED
    BY <2>1, <2>2
<1>6. ASSUME NEW pr, SortedByPrio(q, pr)
      PROVE  SortedByPrio(r, pr)
  <2>1. \A i, j \in 1 .. Len(r) : i < j => k + i < k + j
    BY <1>1, <1>2
  <2> QED
    BY <1>3, <1>6, <2>1 DEF SortedByPrio
<1> QED
  BY <1>2, <1>4, <1>5, <1>6 DEF r
=============================================================================
