------------------------- MODULE GenericListProofs -------------------------
(* Proofs about the generic list, for any lists, elements and callers. *)
EXTENDS GenericList, SequenceTheorems, WellFoundedInduction, TLAPS

\* Every operation keeps the types of the pointers and counters.
LEMMA ListTypeInit == Init => TypeOK
  <1> SUFFICES ASSUME Init PROVE TypeOK
    OBVIOUS
  <1>1. size \in [Lists -> Nat]
    BY DEF Init
  <1> QED BY <1>1 DEF Init, TypeOK

\* What a described, non-empty list says of its ends.
LEMMA Ends ==
  ASSUME TypeOK, NEW l \in Lists, NEW s \in [1 .. size[l] -> Elements],
         Describes(l, s)
  PROVE  /\ size[l] \in Nat
         /\ size[l] # 0 => /\ head[l] = s[1] /\ tail[l] = s[size[l]]
                           /\ head[l] \in Elements /\ tail[l] \in Elements
                           /\ list[head[l]] = l /\ list[tail[l]] = l
                           /\ 1 \in 1 .. size[l] /\ size[l] \in 1 .. size[l]
         /\ size[l] = 0 => head[l] = Null /\ tail[l] = Null
  <1>1. size[l] \in Nat
    BY DEF TypeOK
  <1>2. ASSUME size[l] # 0
        PROVE  /\ head[l] = s[1] /\ tail[l] = s[size[l]]
               /\ head[l] \in Elements /\ tail[l] \in Elements
               /\ list[head[l]] = l /\ list[tail[l]] = l
               /\ 1 \in 1 .. size[l] /\ size[l] \in 1 .. size[l]
    <2>1. 1 \in 1 .. size[l] /\ size[l] \in 1 .. size[l]
      BY <1>1, <1>2
    <2> QED BY <2>1, <1>2 DEF Describes
  <1>3. size[l] = 0 => head[l] = Null /\ tail[l] = Null
    BY DEF Describes
  <1> QED BY <1>1, <1>2, <1>3

-----------------------------------------------------------------------------
(* One sequence for each list *)

\* Numbers have a least: what an argument by induction rests on.
LEMMA LeastNumber ==
  ASSUME NEW T \in SUBSET Nat, T # {}
  PROVE  \E n \in T : \A m \in T : n <= m
  <1>1. PICK n \in T : \A m \in T : ~(<<m, n>> \in OpToRel(<, Nat))
    BY NatLessThanWellFounded, WFMin
  <1>2. \A m \in T : ~(<<m, n>> \in OpToRel(<, Nat)) => n <= m
    BY DEF OpToRel
  <1> QED BY <1>1, <1>2

\* Following next from the head visits one sequence only: at the first place
\* where two walks differ they come from the same element.
LEMMA OneWalk ==
  ASSUME NEW l \in Lists, size[l] \in Nat,
         NEW s \in Walks(l), NEW t \in Walks(l)
  PROVE  s = t
  <1> DEFINE n == size[l]
  <1>0. /\ s \in [1 .. n -> Elements] /\ t \in [1 .. n -> Elements]
        /\ \A i \in 1 .. n :
             /\ s[i] = IF i = 1 THEN head[l] ELSE next[s[i - 1]]
             /\ t[i] = IF i = 1 THEN head[l] ELSE next[t[i - 1]]
    BY DEF Walks
  <1> DEFINE T == {i \in 1 .. n : s[i] # t[i]}
  <1>1. ASSUME T # {} PROVE FALSE
    <2>1. T \in SUBSET Nat
      OBVIOUS
    <2>2. PICK i \in T : \A m \in T : i <= m
      BY <1>1, <2>1, LeastNumber
    <2>3. i \in 1 .. n /\ s[i] # t[i]
      OBVIOUS
    <2>4. i # 1
      BY <1>0, <2>3
    <2>5. i - 1 \in 1 .. n /\ i - 1 \notin T
      BY <2>2, <2>3, <2>4
    <2>6. s[i - 1] = t[i - 1]
      BY <2>5
    <2> QED BY <1>0, <2>3, <2>4, <2>6
  <1>2. \A i \in 1 .. n : s[i] = t[i]
    BY <1>1
  <1> QED BY <1>0, <1>2

\* A described sequence is the walk along next, so it is what the list contains.
LEMMA ContentsAre ==
  \A l \in Lists : \A s \in [1 .. size[l] -> Elements] :
    size[l] \in Nat /\ Describes(l, s) => s \in Walks(l) /\ Contents(l) = s
  <1> SUFFICES ASSUME NEW l \in Lists, NEW s \in [1 .. size[l] -> Elements],
                      size[l] \in Nat, Describes(l, s)
               PROVE  s \in Walks(l) /\ Contents(l) = s
    OBVIOUS
  <1>1. \A i \in 1 .. size[l] :
          s[i] = IF i = 1 THEN head[l] ELSE next[s[i - 1]]
    <2>1. TAKE i \in 1 .. size[l]
    <2>2. CASE i = 1
      BY <2>2, <2>1, size[l] # 0 DEF Describes
    <2>3. CASE i # 1
      <3>1. i - 1 \in 1 .. size[l] /\ i - 1 # size[l] /\ (i - 1) + 1 = i
        BY <2>1, <2>3
      <3> QED BY <3>1, <2>3 DEF Describes
    <2> QED BY <2>2, <2>3
  <1>2. s \in Walks(l)
    BY <1>1 DEF Walks
  <1>3. \A t \in Walks(l) : t = s
    BY <1>2, OneWalk
  <1> QED BY <1>2, <1>3 DEF Contents

\* What a step does to the sequence of a list: it keeps it, puts e at place k,
\* or takes out what is at place k.
With(s, n, k, e) ==
  [i \in 1 .. n + 1 |-> IF i < k THEN s[i] ELSE IF i = k THEN e ELSE s[i - 1]]
Without(s, n, k) == [i \in 1 .. n - 1 |-> IF i < k THEN s[i] ELSE s[i + 1]]

Kept(l) ==
  \E s \in [1 .. size[l] -> Elements] :
    /\ Describes(l, s)
    /\ s \in [1 .. size'[l] -> Elements] /\ Describes(l, s)'
Put(l, k, e) ==
  \E n \in Nat : \E s \in [1 .. n -> Elements], t \in [1 .. n + 1 -> Elements] :
    /\ size[l] = n /\ Describes(l, s) /\ k \in 1 .. n + 1
    /\ size'[l] = n + 1 /\ Describes(l, t)' /\ t = With(s, n, k, e)
Took(l, k) ==
  \E n \in Nat : \E s \in [1 .. n -> Elements], t \in [1 .. n - 1 -> Elements] :
    /\ size[l] = n /\ Describes(l, s) /\ k \in 1 .. n
    /\ size'[l] = n - 1 /\ Describes(l, t)' /\ t = Without(s, n, k)

\* e stands at place k of list l.
PlaceOf(l, e, k) == k \in 1 .. size[l] /\ Contents(l)[k] = e

\* A list whose own fields and elements a step leaves alone stays described.
LEMMA Frame ==
  ASSUME TypeOK, NEW l \in Lists, NEW s \in [1 .. size[l] -> Elements],
         Describes(l, s),
         head'[l] = head[l], tail'[l] = tail[l], size'[l] = size[l],
         \A x \in Elements : list'[x] = l <=> list[x] = l,
         \A x \in Elements :
           list[x] = l => next'[x] = next[x] /\ prev'[x] = prev[x]
  PROVE  Kept(l)
  <1>1. s \in [1 .. size'[l] -> Elements]
    OBVIOUS
  <1>2. \A i \in 1 .. size[l] :
          s[i] \in Elements /\ list[s[i]] = l
          /\ next'[s[i]] = next[s[i]] /\ prev'[s[i]] = prev[s[i]]
          /\ list'[s[i]] = l
    BY DEF Describes
  <1>3. Describes(l, s)'
    BY <1>2 DEF Describes
  <1> QED BY <1>1, <1>3 DEF Kept

\* An element that may be added to a list is in none.
LEMMA Addable ==
  ASSUME TypeOK, WellFormed, NEW l \in Lists, NEW e \in Elements, CanAdd(l, e)
  PROVE  list[e] = Null
  <1>1. PICK s \in [1 .. size[l] -> Elements] : Describes(l, s)
    BY DEF WellFormed
  <1>2. ASSUME list[e] = l PROVE FALSE
    <2>1. PICK k \in 1 .. size[l] : s[k] = e
      BY <1>1, <1>2 DEF Describes
    <2>2. s \in Walks(l)
      BY <1>1, ContentsAre DEF TypeOK
    <2>3. LIST_Scan(l, e)
      BY <2>1, <2>2 DEF LIST_Scan
    <2> QED BY <2>3 DEF CanAdd
  <1> QED BY <1>2 DEF CanAdd

-----------------------------------------------------------------------------
(* Types *)

LEMMA ListTypeNext == TypeOK /\ WellFormed /\ [Next]_vars => TypeOK'
  <1> SUFFICES ASSUME TypeOK, WellFormed, [Next]_vars PROVE TypeOK'
    OBVIOUS
  <1> USE DEF TypeOK
  <1>1. ASSUME NEW l \in Lists, LIST_RemoveHead(l) PROVE TypeOK'
    <2>1. PICK s \in [1 .. size[l] -> Elements] : Describes(l, s)
      BY DEF WellFormed
    <2>2. head[l] \in Elements /\ size[l] - 1 \in Nat
      BY <1>1, <2>1, Ends DEF LIST_RemoveHead
    <2>3. size' \in [Lists -> Nat]
      BY <1>1, <2>2 DEF LIST_RemoveHead
    <2> QED BY <1>1, <2>2, <2>3 DEF LIST_RemoveHead, callVars
  <1>2. ASSUME NEW l \in Lists, NEW e \in Elements, LIST_AddTail(l, e)
        PROVE  TypeOK'
    BY <1>2 DEF LIST_AddTail, Grown, LinkedBack, callVars
  <1>3. ASSUME NEW l \in Lists, NEW e \in Elements, LIST_AddHead(l, e)
        PROVE  TypeOK'
    BY <1>3 DEF LIST_AddHead, Grown, callVars
  <1>4. ASSUME NEW c \in Callers, NEW e \in Elements,
               NEW new \in Elements \cup {Null}, TestList(c, e, new)
        PROVE  TypeOK'
    BY <1>4 DEF TestList, listVars, elementVars
  <1>5. ASSUME NEW c \in Callers, LIST_RemoveElement(c) PROVE TypeOK'
    <2>1. target[c] \in Elements /\ list[target[c]] \in Lists
      BY <1>5 DEF LIST_RemoveElement
    <2>2. PICK s \in [1 .. size[list[target[c]]] -> Elements] :
            Describes(list[target[c]], s)
      BY <2>1 DEF WellFormed
    <2>3. PICK i \in 1 .. size[list[target[c]]] : s[i] = target[c]
      BY <2>1, <2>2 DEF Describes
    <2>4. size[list[target[c]]] - 1 \in Nat
      BY <2>1, <2>3
    <2>5. size' \in [Lists -> Nat]
      BY <1>5, <2>1, <2>4 DEF LIST_RemoveElement
    <2> QED BY <1>5, <2>1, <2>5
            DEF LIST_RemoveElement, NextSkipping, PrevSkipping, Return
  <1>6. ASSUME NEW c \in Callers, LIST_AddPrevElement(c) PROVE TypeOK'
    BY <1>6 DEF LIST_AddPrevElement, Grown, Return
  <1>7. ASSUME NEW c \in Callers, AddPrevRefused(c) PROVE TypeOK'
    BY <1>7 DEF AddPrevRefused, Return, listVars, elementVars
  <1>9. CASE UNCHANGED vars
    BY <1>9 DEF vars, listVars, elementVars, callVars
  <1> QED BY <1>1, <1>2, <1>3, <1>4, <1>5, <1>6, <1>7, <1>9 DEF Next

-----------------------------------------------------------------------------
(* Shape *)

\* Inserting e at place k of a described list.
LEMMA Inserted ==
  ASSUME NEW l \in Lists, NEW e \in Elements, NEW n \in Nat,
         NEW s \in [1 .. n -> Elements], NEW k \in 1 .. n + 1,
         TypeOK, size[l] = n, Describes(l, s), list[e] = Null,
         size'[l] = n + 1, list' = [list EXCEPT ![e] = l],
         head'[l] = IF k = 1 THEN e ELSE head[l],
         tail'[l] = IF k = n + 1 THEN e ELSE tail[l],
         next'[e] = IF k = n + 1 THEN Null ELSE s[k],
         prev'[e] = IF k = 1 THEN Null ELSE s[k - 1],
         \A i \in 1 .. n :
           /\ next'[s[i]] = IF i = k - 1 THEN e ELSE next[s[i]]
           /\ prev'[s[i]] = IF i = k THEN e ELSE prev[s[i]]
  PROVE  Put(l, k, e)
  <1>1. PICK t \in [1 .. n + 1 -> Elements] :
          /\ t = With(s, n, k, e)
          /\ \A i \in 1 .. n + 1 :
               t[i] = IF i < k THEN s[i] ELSE IF i = k THEN e ELSE s[i - 1]
    <2>1. \A i \in 1 .. n + 1 :
            (IF i < k THEN s[i] ELSE IF i = k THEN e ELSE s[i - 1]) \in Elements
      <3>1. TAKE i \in 1 .. n + 1
      <3>2. CASE i < k
        BY <3>2, i \in 1 .. n
      <3>3. CASE i = k
        BY <3>3
      <3>4. CASE i > k
        BY <3>4, i - 1 \in 1 .. n
      <3> QED BY <3>2, <3>3, <3>4
    <2>2. With(s, n, k, e) \in [1 .. n + 1 -> Elements]
      BY <2>1 DEF With
    <2> QED BY <2>2 DEF With
  <1>2. \A i \in 1 .. n : /\ s[i] \in Elements /\ list[s[i]] = l /\ s[i] # e
                          /\ next[s[i]] = IF i = n THEN Null ELSE s[i + 1]
                          /\ prev[s[i]] = IF i = 1 THEN Null ELSE s[i - 1]
                          /\ list'[s[i]] = l
                          /\ \A j \in 1 .. n : s[i] = s[j] => i = j
    <2>1. TAKE i \in 1 .. n
    <2>2. s[i] \in Elements
      OBVIOUS
    <2>3. /\ list[s[i]] = l
          /\ next[s[i]] = IF i = n THEN Null ELSE s[i + 1]
          /\ prev[s[i]] = IF i = 1 THEN Null ELSE s[i - 1]
          /\ \A j \in 1 .. n : s[i] = s[j] => i = j
      BY <2>1 DEF Describes
    <2>4. s[i] # e
      BY <2>3, ListAssumption
    <2>5. list'[s[i]] = l
      BY <2>2, <2>3, <2>4 DEF TypeOK
    <2> QED BY <2>2, <2>3, <2>4, <2>5
  <1>3. /\ t[k] = e /\ list'[e] = l
        /\ \A i \in 1 .. n : i < k => t[i] = s[i]
        /\ \A i \in 1 .. n : i >= k => i + 1 \in 1 .. n + 1 /\ t[i + 1] = s[i]
    BY <1>1 DEF TypeOK
  <1>4. \A i \in 1 .. n + 1 : \/ i = k
                              \/ i < k /\ i \in 1 .. n
                              \/ i > k /\ i - 1 \in 1 .. n /\ t[i] = s[i - 1]
    BY <1>1
  <1>5. head'[l] = t[1] /\ tail'[l] = t[n + 1]
    <2>1. head'[l] = t[1]
      BY <1>3, 1 \in 1 .. n + 1, k # 1 => 1 \in 1 .. n DEF Describes
    <2>2. k # n + 1 => n \in 1 .. n /\ tail[l] = s[n]
      BY DEF Describes
    <2> QED BY <1>3, <2>1, <2>2
  <1>6. \A i \in 1 .. n + 1 :
          next'[t[i]] = IF i = n + 1 THEN Null ELSE t[i + 1]
    <2>1. TAKE i \in 1 .. n + 1
    <2>2. CASE i = k
      BY <2>2, <1>3, k # n + 1 => k \in 1 .. n
    <2>3. CASE i = k - 1
      BY <2>3, <1>2, <1>3, i \in 1 .. n
    <2>4. CASE i < k - 1
      <3>1. i \in 1 .. n /\ i # n /\ i + 1 \in 1 .. n /\ i + 1 < k
        BY <2>4
      <3> QED BY <3>1, <2>4, <1>2, <1>3
    <2>5. CASE i > k
      <3>1. i - 1 \in 1 .. n /\ i - 1 >= k /\ t[i] = s[i - 1]
        BY <2>5, <1>4
      <3>2. CASE i = n + 1
        BY <3>1, <3>2, <1>2
      <3>3. CASE i # n + 1
        BY <3>1, <3>3, <1>2, <1>3, i \in 1 .. n, (i - 1) + 1 = i
      <3> QED BY <3>2, <3>3
    <2> QED BY <2>2, <2>3, <2>4, <2>5
  <1>7. \A i \in 1 .. n + 1 :
          prev'[t[i]] = IF i = 1 THEN Null ELSE t[i - 1]
    <2>1. TAKE i \in 1 .. n + 1
    <2>2. CASE i = k
      BY <2>2, <1>3, k # 1 => k - 1 \in 1 .. n
    <2>3. CASE i = k + 1
      BY <2>3, <1>2, <1>3, <1>4
    <2>4. CASE i < k
      BY <2>4, <1>2, <1>3, i \in 1 .. n, i # 1 => i - 1 \in 1 .. n
    <2>5. CASE i > k + 1
      <3>1. /\ i - 1 \in 1 .. n /\ i - 1 # k /\ i - 1 # 1 /\ t[i] = s[i - 1]
            /\ (i - 1) - 1 \in 1 .. n /\ (i - 1) - 1 >= k
            /\ ((i - 1) - 1) + 1 = i - 1
        BY <2>5, <1>4
      <3> QED BY <3>1, <2>5, <1>2, <1>3
    <2> QED BY <2>2, <2>3, <2>4, <2>5
  <1>8. \A i, j \in 1 .. n + 1 : t[i] = t[j] => i = j
    <2>1. TAKE i, j \in 1 .. n + 1
    <2>2. CASE i = k \/ j = k
      BY <2>2, <1>2, <1>3, <1>4
    <2>3. CASE i # k /\ j # k
      BY <2>3, <1>2, <1>3, <1>4
    <2> QED BY <2>2, <2>3
  <1>9. \A i \in 1 .. n + 1 : list'[t[i]] = l
    BY <1>2, <1>3, <1>4
  <1>10. \A x \in Elements : list'[x] = l => \E i \in 1 .. n + 1 : t[i] = x
    <2>1. TAKE x \in Elements
    <2>2. CASE x = e
      BY <2>2, <1>3
    <2>3. ASSUME x # e, list'[x] = l PROVE \E i \in 1 .. n + 1 : t[i] = x
      <3>1. PICK i \in 1 .. n : s[i] = x
        BY <2>3 DEF Describes, TypeOK
      <3> QED BY <3>1, <1>3, i \in 1 .. n + 1
    <2> QED BY <2>2, <2>3
  <1>11. PICK m \in Nat : m = n + 1 /\ m # 0
    OBVIOUS
  <1>12. t \in [1 .. size'[l] -> Elements] /\ size'[l] = m
    BY <1>11
  <1>13. /\ head'[l] = IF m = 0 THEN Null ELSE t[1]
         /\ tail'[l] = IF m = 0 THEN Null ELSE t[m]
    BY <1>5, <1>11
  <1>14. \A i \in 1 .. m :
           /\ list'[t[i]] = l
           /\ next'[t[i]] = IF i = m THEN Null ELSE t[i + 1]
           /\ prev'[t[i]] = IF i = 1 THEN Null ELSE t[i - 1]
           /\ \A j \in 1 .. m : t[i] = t[j] => i = j
    BY <1>6, <1>7, <1>8, <1>9, <1>11
  <1>15. \A x \in Elements : list'[x] = l => \E i \in 1 .. m : t[i] = x
    BY <1>10, <1>11
  <1>16. Describes(l, t)'
    BY ONLY <1>12, <1>13, <1>14, <1>15 DEF Describes
  <1> QED BY <1>1, <1>12, <1>16 DEF Put

\* Taking out the element at place k of a described list.
LEMMA Removed ==
  ASSUME NEW l \in Lists, NEW n \in Nat, NEW s \in [1 .. n -> Elements],
         NEW k \in 1 .. n,
         TypeOK, size[l] = n, Describes(l, s),
         size'[l] = n - 1, list' = [list EXCEPT ![s[k]] = Null],
         head'[l] = IF k = 1 THEN next[s[k]] ELSE head[l],
         tail'[l] = IF k = n THEN prev[s[k]] ELSE tail[l],
         \A i \in 1 .. n : i # k =>
           /\ next'[s[i]] = IF i = k - 1 THEN next[s[k]] ELSE next[s[i]]
           /\ prev'[s[i]] = IF i = k + 1 THEN prev[s[k]] ELSE prev[s[i]]
  PROVE  Took(l, k)
  <1>1. PICK t \in [1 .. n - 1 -> Elements] :
          /\ t = Without(s, n, k)
          /\ \A i \in 1 .. n - 1 : t[i] = IF i < k THEN s[i] ELSE s[i + 1]
    <2>1. \A i \in 1 .. n - 1 :
            (IF i < k THEN s[i] ELSE s[i + 1]) \in Elements
      OBVIOUS
    <2>2. Without(s, n, k) \in [1 .. n - 1 -> Elements]
      BY <2>1 DEF Without
    <2> QED BY <2>2 DEF Without
  <1>2. \A i \in 1 .. n : /\ s[i] \in Elements /\ list[s[i]] = l
                          /\ next[s[i]] = IF i = n THEN Null ELSE s[i + 1]
                          /\ prev[s[i]] = IF i = 1 THEN Null ELSE s[i - 1]
                          /\ \A j \in 1 .. n : s[i] = s[j] => i = j
    BY DEF Describes
  <1>3. \A i \in 1 .. n : i # k => list'[s[i]] = l
    BY <1>2 DEF TypeOK
  <1>4. \A i \in 1 .. n - 1 :
          \/ i < k /\ i \in 1 .. n /\ t[i] = s[i]
          \/ i >= k /\ i + 1 \in 1 .. n /\ i + 1 # k /\ t[i] = s[i + 1]
    BY <1>1
  <1>5. /\ head'[l] = IF n - 1 = 0 THEN Null ELSE t[1]
        /\ tail'[l] = IF n - 1 = 0 THEN Null ELSE t[n - 1]
    <2>1. CASE n = 1
      BY <2>1, <1>2, k = 1
    <2>2. CASE n # 1
      <3>1. 1 \in 1 .. n /\ 1 \in 1 .. n - 1 /\ n - 1 \in 1 .. n - 1
            /\ n \in 1 .. n
        BY <2>2
      <3>2. head[l] = s[1] /\ tail[l] = s[n]
        BY <3>1 DEF Describes
      <3>3. head'[l] = t[1]
        BY <3>1, <3>2, <1>2, <1>4, <2>2
      <3>4. tail'[l] = t[n - 1]
        <4>1. CASE k = n
          BY <4>1, <3>1, <1>2, <1>1, <2>2
        <4>2. CASE k # n
          BY <4>2, <3>1, <3>2, <1>1, (n - 1) + 1 = n
        <4> QED BY <4>1, <4>2
      <3> QED BY <3>3, <3>4, <2>2
    <2> QED BY <2>1, <2>2
  <1>6. \A i \in 1 .. n - 1 :
          next'[t[i]] = IF i = n - 1 THEN Null ELSE t[i + 1]
    <2>1. TAKE i \in 1 .. n - 1
    <2>2. CASE i = k - 1
      <3>1. i \in 1 .. n /\ i # k /\ t[i] = s[i] /\ i + 1 = k
        BY <2>2, <1>4
      <3>2. next'[t[i]] = next[s[k]]
        BY <3>1, <2>2
      <3>3. CASE i = n - 1
        BY <3>2, <3>3, <2>2, <1>2
      <3>4. CASE i # n - 1
        BY <3>2, <3>4, <2>2, <1>2, <1>1, i + 1 \in 1 .. n - 1
      <3> QED BY <3>3, <3>4
    <2>3. CASE i < k - 1
      <3>1. i \in 1 .. n /\ i # k /\ t[i] = s[i] /\ i # n /\ i # n - 1
            /\ i + 1 \in 1 .. n - 1 /\ i + 1 < k
        BY <2>3, <1>4
      <3> QED BY <3>1, <2>3, <1>2, <1>1
    <2>4. CASE i >= k
      <3>1. i + 1 \in 1 .. n /\ i + 1 # k /\ i + 1 # k - 1 /\ t[i] = s[i + 1]
        BY <2>4, <1>4
      <3>2. CASE i = n - 1
        BY <3>1, <3>2, <1>2
      <3>3. CASE i # n - 1
        <4>1. i + 1 \in 1 .. n - 1 /\ ~(i + 1 < k) /\ i + 1 # n
          BY <3>3, <2>4
        <4> QED BY <3>1, <3>3, <4>1, <1>2, <1>1
      <3> QED BY <3>2, <3>3
    <2> QED BY <2>2, <2>3, <2>4
  <1>7. \A i \in 1 .. n - 1 :
          prev'[t[i]] = IF i = 1 THEN Null ELSE t[i - 1]
    <2>1. TAKE i \in 1 .. n - 1
    <2>2. CASE i < k
      BY <2>2, <1>2, <1>4, <1>1, i # 1 => i - 1 \in 1 .. n - 1
    <2>3. CASE i = k
      BY <2>3, <1>2, <1>4, <1>1, i # 1 => i - 1 \in 1 .. n - 1
    <2>4. CASE i > k
      <3>1. /\ i + 1 \in 1 .. n /\ i + 1 # k /\ i + 1 # k + 1 /\ i # 1
            /\ t[i] = s[i + 1] /\ i - 1 \in 1 .. n - 1 /\ ~(i - 1 < k)
            /\ (i - 1) + 1 = i /\ (i + 1) - 1 = i /\ i + 1 # 1
        BY <2>4, <1>4
      <3>2. prev'[t[i]] = s[i]
        BY <3>1, <1>2
      <3>3. t[i - 1] = s[i]
        BY <3>1, <1>1
      <3> QED BY <3>1, <3>2, <3>3
    <2> QED BY <2>2, <2>3, <2>4
  <1>8. \A i, j \in 1 .. n - 1 : t[i] = t[j] => i = j
    BY <1>2, <1>4
  <1>9. \A i \in 1 .. n - 1 : list'[t[i]] = l
    BY <1>3, <1>4
  <1>10. \A x \in Elements : list'[x] = l => \E i \in 1 .. n - 1 : t[i] = x
    <2>1. SUFFICES ASSUME NEW x \in Elements, list'[x] = l
                   PROVE  \E i \in 1 .. n - 1 : t[i] = x
      OBVIOUS
    <2>2. x # s[k] /\ list[x] = l
      BY <2>1, <1>2, ListAssumption DEF TypeOK
    <2>3. PICK i \in 1 .. n : s[i] = x
      BY <2>2 DEF Describes
    <2>4. CASE i < k
      <3>1. i \in 1 .. n - 1
        BY <2>4
      <3>2. t[i] = x
        BY <3>1, <2>3, <2>4, <1>1
      <3> QED BY <3>1, <3>2
    <2>5. CASE i > k
      <3>1. i - 1 \in 1 .. n - 1 /\ ~(i - 1 < k) /\ (i - 1) + 1 = i
        BY <2>5
      <3>2. t[i - 1] = s[i]
        BY <3>1, <1>1
      <3> QED BY <3>1, <3>2, <2>3
    <2>6. i < k \/ i > k
      BY <2>2, <2>3
    <2> QED BY <2>4, <2>5, <2>6
  <1>11. PICK m \in Nat : m = n - 1
    OBVIOUS
  <1>12. t \in [1 .. size'[l] -> Elements] /\ size'[l] = m
    BY <1>11
  <1>13. /\ head'[l] = IF m = 0 THEN Null ELSE t[1]
         /\ tail'[l] = IF m = 0 THEN Null ELSE t[m]
    BY <1>5, <1>11
  <1>14. \A i \in 1 .. m :
           /\ list'[t[i]] = l
           /\ next'[t[i]] = IF i = m THEN Null ELSE t[i + 1]
           /\ prev'[t[i]] = IF i = 1 THEN Null ELSE t[i - 1]
           /\ \A j \in 1 .. m : t[i] = t[j] => i = j
    BY <1>6, <1>7, <1>8, <1>9, <1>11
  <1>15. \A x \in Elements : list'[x] = l => \E i \in 1 .. m : t[i] = x
    BY <1>10, <1>11
  <1>16. Describes(l, t)'
    BY ONLY <1>12, <1>13, <1>14, <1>15 DEF Describes
  <1> QED BY <1>1, <1>12, <1>16 DEF Took

LEMMA ShapeAddTail ==
  ASSUME TypeOK, TypeOK', WellFormed, NEW l \in Lists, NEW e \in Elements,
         LIST_AddTail(l, e)
  PROVE  Put(l, size[l] + 1, e) /\ \A m \in Lists \ {l} : Kept(m)
  <1> SUFFICES ASSUME NEW m \in Lists
               PROVE  IF m = l THEN Put(l, size[l] + 1, e) ELSE Kept(m)
    OBVIOUS
  <1>1. list[e] = Null
    BY Addable DEF LIST_AddTail
  <1>2. PICK r \in [1 .. size[l] -> Elements] : Describes(l, r)
    BY DEF WellFormed
  <1>3. CASE m # l
    <2>1. size[l] # 0 => list[tail[l]] = l
      BY <1>2, Ends
    <2>2. /\ head'[m] = head[m] /\ tail'[m] = tail[m] /\ size'[m] = size[m]
          /\ \A x \in Elements : list'[x] = m <=> list[x] = m
      BY <1>1, <1>3, ListAssumption DEF LIST_AddTail, Grown, TypeOK
    <2>3. \A x \in Elements :
            list[x] = m => next'[x] = next[x] /\ prev'[x] = prev[x]
      BY <1>1, <1>3, <2>1, ListAssumption
         DEF LIST_AddTail, LinkedBack, TypeOK
    <2> QED BY <1>3, <2>2, <2>3, Frame DEF WellFormed
  <1>4. CASE m = l
    <2>1. PICK n \in Nat : n = size[l]
      BY DEF TypeOK
    <2>2. PICK k \in 1 .. n + 1 : k = n + 1
      OBVIOUS
    <2>3. n # 0 => tail[l] = r[n] /\ n \in 1 .. n
      BY <1>2, <2>1 DEF Describes
    <2>4. n = 0 => tail[l] = Null
      BY <1>2, <2>1 DEF Describes
    <2>5. \A i \in 1 .. n : r[i] # e /\ r[i] \in Elements
                            /\ \A j \in 1 .. n : r[i] = r[j] => i = j
      <3>1. \A i \in 1 .. n : list[r[i]] = l /\ r[i] \in Elements
                        /\ \A j \in 1 .. n : r[i] = r[j] => i = j
        BY <1>2, <2>1 DEF Describes
      <3> QED BY <3>1, <1>1, ListAssumption
    <2>6. \A i \in 1 .. n :
            /\ next'[r[i]] = IF i = k - 1 THEN e ELSE next[r[i]]
            /\ prev'[r[i]] = IF i = k THEN e ELSE prev[r[i]]
      BY <2>1, <2>2, <2>3, <2>5 DEF LIST_AddTail, LinkedBack, TypeOK
    <2>7. /\ size'[l] = n + 1 /\ list' = [list EXCEPT ![e] = l]
          /\ head'[l] = IF k = 1 THEN e ELSE head[l]
          /\ tail'[l] = IF k = n + 1 THEN e ELSE tail[l]
          /\ next'[e] = IF k = n + 1 THEN Null ELSE r[k]
          /\ prev'[e] = IF k = 1 THEN Null ELSE r[k - 1]
      BY <2>1, <2>2, <2>3, <2>4 DEF LIST_AddTail, LinkedBack, Grown, TypeOK
    <2>8. Put(l, k, e)
      BY <1>1, <1>2, <2>1, <2>6, <2>7, Inserted
    <2> QED BY <1>4, <2>1, <2>2, <2>8
  <1> QED BY <1>3, <1>4

LEMMA ShapeAddHead ==
  ASSUME TypeOK, TypeOK', WellFormed, NEW l \in Lists, NEW e \in Elements,
         LIST_AddHead(l, e)
  PROVE  Put(l, 1, e) /\ \A m \in Lists \ {l} : Kept(m)
  <1> SUFFICES ASSUME NEW m \in Lists
               PROVE  IF m = l THEN Put(l, 1, e) ELSE Kept(m)
    OBVIOUS
  <1>1. list[e] = Null
    BY Addable DEF LIST_AddHead
  <1>2. PICK r \in [1 .. size[l] -> Elements] : Describes(l, r)
    BY DEF WellFormed
  <1>3. CASE m # l
    <2>1. size[l] # 0 => list[head[l]] = l
      BY <1>2, Ends
    <2>2. /\ head'[m] = head[m] /\ tail'[m] = tail[m] /\ size'[m] = size[m]
          /\ \A x \in Elements : list'[x] = m <=> list[x] = m
      BY <1>1, <1>3, ListAssumption DEF LIST_AddHead, Grown, TypeOK
    <2>3. \A x \in Elements :
            list[x] = m => next'[x] = next[x] /\ prev'[x] = prev[x]
      BY <1>1, <1>3, <2>1, ListAssumption DEF LIST_AddHead, TypeOK
    <2> QED BY <1>3, <2>2, <2>3, Frame DEF WellFormed
  <1>4. CASE m = l
    <2>1. PICK n \in Nat : n = size[l]
      BY DEF TypeOK
    <2>2. PICK k \in 1 .. n + 1 : k = 1
      OBVIOUS
    <2>3. /\ n # 0 => head[l] = r[1] /\ 1 \in 1 .. n /\ tail[l] = r[n]
          /\ n = 0 => head[l] = Null
      BY <1>2, <2>1 DEF Describes
    <2>4. \A i \in 1 .. n : r[i] # e /\ r[i] \in Elements
                            /\ \A j \in 1 .. n : r[i] = r[j] => i = j
      <3>1. \A i \in 1 .. n : list[r[i]] = l /\ r[i] \in Elements
                        /\ \A j \in 1 .. n : r[i] = r[j] => i = j
        BY <1>2, <2>1 DEF Describes
      <3> QED BY <3>1, <1>1, ListAssumption
    <2>5. \A i \in 1 .. n :
            /\ next'[r[i]] = IF i = k - 1 THEN e ELSE next[r[i]]
            /\ prev'[r[i]] = IF i = k THEN e ELSE prev[r[i]]
      BY <2>1, <2>2, <2>3, <2>4 DEF LIST_AddHead, TypeOK
    <2>6. /\ size'[l] = n + 1 /\ list' = [list EXCEPT ![e] = l]
          /\ head'[l] = IF k = 1 THEN e ELSE head[l]
          /\ tail'[l] = IF k = n + 1 THEN e ELSE tail[l]
          /\ next'[e] = IF k = n + 1 THEN Null ELSE r[k]
          /\ prev'[e] = IF k = 1 THEN Null ELSE r[k - 1]
      BY <2>1, <2>2, <2>3 DEF LIST_AddHead, Grown, TypeOK
    <2>7. Put(l, k, e)
      BY <1>1, <1>2, <2>1, <2>5, <2>6, Inserted
    <2> QED BY <1>4, <2>2, <2>7
  <1> QED BY <1>3, <1>4

LEMMA ShapeRemoveHead ==
  ASSUME TypeOK, TypeOK', WellFormed, NEW l \in Lists, LIST_RemoveHead(l)
  PROVE  Took(l, 1) /\ \A m \in Lists \ {l} : Kept(m)
  <1> SUFFICES ASSUME NEW m \in Lists
               PROVE  IF m = l THEN Took(l, 1) ELSE Kept(m)
    OBVIOUS
  <1>1. PICK r \in [1 .. size[l] -> Elements] : Describes(l, r)
    BY DEF WellFormed
  <1>2. PICK n \in Nat : n = size[l]
    BY DEF TypeOK
  <1>3. n # 0 /\ 1 \in 1 .. n /\ head[l] = r[1] /\ r[1] \in Elements
        /\ list[r[1]] = l
    BY <1>1, <1>2 DEF LIST_RemoveHead, Describes
  <1>4. n # 1 => next[r[1]] = r[2] /\ r[2] \in Elements /\ list[r[2]] = l
    BY <1>1, <1>2, <1>3, n # 1 => 2 \in 1 .. n DEF Describes
  <1>5. CASE m # l
    <2>1. /\ head'[m] = head[m] /\ tail'[m] = tail[m] /\ size'[m] = size[m]
          /\ \A x \in Elements : list'[x] = m <=> list[x] = m
      BY <1>3, <1>5, ListAssumption DEF LIST_RemoveHead, TypeOK
    <2>2. \A x \in Elements :
            list[x] = m => next'[x] = next[x] /\ prev'[x] = prev[x]
      BY <1>2, <1>3, <1>4, <1>5 DEF LIST_RemoveHead, TypeOK
    <2> QED BY <1>5, <2>1, <2>2, Frame DEF WellFormed
  <1>6. CASE m = l
    <2>1. PICK k \in 1 .. n : k = 1
      BY <1>3
    <2>2. \A i \in 1 .. n :
            /\ r[i] \in Elements
            /\ \A j \in 1 .. n : r[i] = r[j] => i = j
      BY <1>1, <1>2, <1>3 DEF Describes
    <2>3. \A i \in 1 .. n : i # k =>
            /\ next'[r[i]] = IF i = k - 1 THEN next[r[k]] ELSE next[r[i]]
            /\ prev'[r[i]] = IF i = k + 1 THEN prev[r[k]] ELSE prev[r[i]]
      <3>1. TAKE i \in 1 .. n
      <3>2. HAVE i # k
      <3>3. n # 1 /\ 2 \in 1 .. n /\ prev[r[k]] = Null
        BY <3>2, <2>1, <1>1, <1>2, <1>3 DEF Describes
      <3>4. i # 2 => r[i] # r[2]
        BY <3>3, <2>2
      <3> QED BY <3>2, <3>3, <3>4, <1>2, <1>3, <1>4, <2>1, <2>2
              DEF LIST_RemoveHead, TypeOK
    <2>4. prev[r[1]] = Null
      BY <1>1, <1>2, <1>3 DEF Describes
    <2>5. /\ size'[l] = n - 1 /\ list' = [list EXCEPT ![r[k]] = Null]
          /\ head'[l] = IF k = 1 THEN next[r[k]] ELSE head[l]
          /\ tail'[l] = IF k = n THEN prev[r[k]] ELSE tail[l]
      BY <1>2, <1>3, <2>1, <2>4 DEF LIST_RemoveHead, TypeOK
    <2>6. Took(l, k)
      BY <1>1, <1>2, <2>3, <2>5, Removed
    <2> QED BY <1>6, <2>1, <2>6
  <1> QED BY <1>5, <1>6

LEMMA ShapeRemoveElement ==
  ASSUME TypeOK, TypeOK', WellFormed, NEW c \in Callers, LIST_RemoveElement(c)
  PROVE  \E l \in Lists, k \in Nat :
           /\ l = list[target[c]] /\ PlaceOf(l, target[c], k)
           /\ Took(l, k) /\ \A m \in Lists \ {l} : Kept(m)
  <1>1. PICK e \in Elements, l \in Lists : e = target[c] /\ l = list[e]
    BY DEF LIST_RemoveElement, TypeOK
  <1>2. PICK r \in [1 .. size[l] -> Elements] : Describes(l, r)
    BY DEF WellFormed
  <1>3. PICK n \in Nat : n = size[l]
    BY DEF TypeOK
  <1>4. PICK k \in 1 .. n : r[k] = e
    BY <1>1, <1>2, <1>3 DEF Describes
  <1>5. \A i \in 1 .. n : /\ r[i] \in Elements /\ list[r[i]] = l
                          /\ next[r[i]] = IF i = n THEN Null ELSE r[i + 1]
                          /\ prev[r[i]] = IF i = 1 THEN Null ELSE r[i - 1]
                          /\ \A j \in 1 .. n : r[i] = r[j] => i = j
    BY <1>2, <1>3 DEF Describes
  <1>6. /\ k # n => k + 1 \in 1 .. n /\ next[e] = r[k + 1]
                      /\ r[k + 1] \in Elements
        /\ k # 1 => k - 1 \in 1 .. n /\ prev[e] = r[k - 1]
                      /\ r[k - 1] \in Elements
    BY <1>4, <1>5
  <1>7. ((next[e] = Null) <=> (k = n)) /\ ((prev[e] = Null) <=> (k = 1))
    BY <1>4, <1>5, <1>6, ListAssumption
  <1>8. /\ head' = [head EXCEPT ![l] = IF prev[e] = Null THEN next[e] ELSE @]
        /\ tail' = [tail EXCEPT ![l] = IF next[e] = Null THEN prev[e] ELSE @]
        /\ next' = NextSkipping(e) /\ prev' = PrevSkipping(e)
        /\ size' = [size EXCEPT ![l] = @ - 1]
        /\ list' = [list EXCEPT ![e] = Null]
    BY <1>1 DEF LIST_RemoveElement
  <1>9. ASSUME NEW m \in Lists \ {l} PROVE Kept(m)
    <2>1. /\ head'[m] = head[m] /\ tail'[m] = tail[m] /\ size'[m] = size[m]
          /\ \A x \in Elements : list'[x] = m <=> list[x] = m
      BY <1>1, <1>8, <1>9, ListAssumption DEF TypeOK
    <2>2. ASSUME NEW x \in Elements, list[x] = m
          PROVE  next'[x] = next[x] /\ prev'[x] = prev[x]
      <3>1. prev[e] = Null \/ list[prev[e]] = l
        BY <1>5, <1>6, <1>7
      <3>2. next[e] = Null \/ list[next[e]] = l
        BY <1>5, <1>6, <1>7
      <3>3. x # prev[e] /\ x # next[e]
        BY <2>2, <3>1, <3>2, <1>9, ListAssumption
      <3> QED BY <3>3, <1>8 DEF NextSkipping, PrevSkipping
    <2> QED BY <2>1, <2>2, Frame DEF WellFormed
  <1>10. Took(l, k)
    <2>1. \A i \in 1 .. n : i # k =>
            /\ next'[r[i]] = IF i = k - 1 THEN next[r[k]] ELSE next[r[i]]
            /\ prev'[r[i]] = IF i = k + 1 THEN prev[r[k]] ELSE prev[r[i]]
      <3>1. TAKE i \in 1 .. n
      <3>2. next'[r[i]] = IF i = k - 1 THEN next[r[k]] ELSE next[r[i]]
        <4>1. (r[i] = prev[e]) <=> (i = k - 1)
          BY <3>1, <1>4, <1>5, <1>6, <1>7, ListAssumption
        <4> QED BY <3>1, <4>1, <1>4, <1>5, <1>8 DEF NextSkipping
      <3>3. prev'[r[i]] = IF i = k + 1 THEN prev[r[k]] ELSE prev[r[i]]
        <4>1. (r[i] = next[e]) <=> (i = k + 1)
          BY <3>1, <1>4, <1>5, <1>6, <1>7, ListAssumption
        <4> QED BY <3>1, <4>1, <1>4, <1>5, <1>8 DEF PrevSkipping
      <3> QED BY <3>2, <3>3
    <2>2. /\ size'[l] = n - 1 /\ list' = [list EXCEPT ![r[k]] = Null]
          /\ head'[l] = IF k = 1 THEN next[r[k]] ELSE head[l]
          /\ tail'[l] = IF k = n THEN prev[r[k]] ELSE tail[l]
      BY <1>3, <1>4, <1>8, <1>7 DEF TypeOK
    <2> QED BY <1>2, <1>3, <2>1, <2>2, Removed
  <1>11. PlaceOf(l, e, k)
    BY <1>2, <1>3, <1>4, ContentsAre DEF PlaceOf
  <1> QED BY <1>1, <1>9, <1>10, <1>11

LEMMA ShapeAddPrevElement ==
  ASSUME TypeOK, TypeOK', WellFormed, NEW c \in Callers, LIST_AddPrevElement(c)
  PROVE  \E l \in Lists, k \in Nat :
           /\ l = list[target[c]] /\ PlaceOf(l, target[c], k)
           /\ Put(l, k, newElement[c]) /\ \A m \in Lists \ {l} : Kept(m)
  <1>1. PICK e \in Elements, new \in Elements, l \in Lists :
          e = target[c] /\ new = newElement[c] /\ l = list[e]
    BY DEF LIST_AddPrevElement, TypeOK
  <1>2. PICK r \in [1 .. size[l] -> Elements] : Describes(l, r)
    BY DEF WellFormed
  <1>3. PICK n \in Nat : n = size[l]
    BY DEF TypeOK
  <1>4. PICK k \in 1 .. n : r[k] = e
    BY <1>1, <1>2, <1>3 DEF Describes
  <1>5. \A i \in 1 .. n : /\ r[i] \in Elements /\ list[r[i]] = l
                          /\ prev[r[i]] = IF i = 1 THEN Null ELSE r[i - 1]
                          /\ \A j \in 1 .. n : r[i] = r[j] => i = j
    BY <1>2, <1>3 DEF Describes
  <1>6. CanAdd(l, new) /\ list[new] = Null
    BY <1>1, Addable DEF LIST_AddPrevElement
  <1>7. /\ head' = [head EXCEPT ![l] = IF prev[e] = Null THEN new ELSE @]
        /\ tail' = tail /\ size' = Grown(l)
        /\ next' = [x \in Elements |->
                      IF x = new THEN e
                      ELSE IF x = prev[e] THEN new ELSE next[x]]
        /\ prev' = [prev EXCEPT ![new] = prev[e], ![e] = new]
        /\ list' = [list EXCEPT ![new] = l]
    BY <1>1 DEF LIST_AddPrevElement
  <1>8. \A i \in 1 .. n : r[i] # new
    BY <1>5, <1>6, ListAssumption
  <1>9. k # 1 => k - 1 \in 1 .. n /\ prev[e] = r[k - 1]
                    /\ r[k - 1] \in Elements
    BY <1>4, <1>5
  <1>10. k = 1 => prev[e] = Null
    BY <1>4, <1>5
  <1>11. /\ (prev[e] = Null) <=> (k = 1)
        /\ e # new /\ prev[e] # new
    BY <1>1, <1>4, <1>8, <1>9, <1>10, ListAssumption
  <1>12. ASSUME NEW m \in Lists \ {l} PROVE Kept(m)
    <2>1. /\ head'[m] = head[m] /\ tail'[m] = tail[m] /\ size'[m] = size[m]
          /\ \A x \in Elements : list'[x] = m <=> list[x] = m
      BY <1>6, <1>7, <1>12, ListAssumption DEF Grown, TypeOK
    <2>2. \A x \in Elements :
            list[x] = m => next'[x] = next[x] /\ prev'[x] = prev[x]
      BY <1>1, <1>4, <1>5, <1>6, <1>7, <1>11, <1>12, <1>9, ListAssumption
         DEF TypeOK
    <2> QED BY <2>1, <2>2, Frame DEF WellFormed
  <1>13. Put(l, k, new)
    <2>1. k \in 1 .. n + 1 /\ k # n + 1
      OBVIOUS
    <2>2. \A i \in 1 .. n :
            /\ next'[r[i]] = IF i = k - 1 THEN new ELSE next[r[i]]
            /\ prev'[r[i]] = IF i = k THEN new ELSE prev[r[i]]
      <3>1. TAKE i \in 1 .. n
      <3>2. next'[r[i]] = IF i = k - 1 THEN new ELSE next[r[i]]
        <4>1. (r[i] = prev[e]) <=> (i = k - 1)
          <5>1. CASE k = 1
            BY <5>1, <3>1, <1>5, <1>10, ListAssumption
          <5>2. CASE k # 1
            BY <5>2, <3>1, <1>5, <1>9
          <5> QED BY <5>1, <5>2
        <4> QED BY <3>1, <4>1, <1>4, <1>5, <1>7, <1>8
      <3>3. prev'[r[i]] = IF i = k THEN new ELSE prev[r[i]]
        BY <3>1, <1>4, <1>5, <1>7, <1>8 DEF TypeOK
      <3> QED BY <3>2, <3>3
    <2>3. /\ size'[l] = n + 1
          /\ head'[l] = IF k = 1 THEN new ELSE head[l]
          /\ tail'[l] = IF k = n + 1 THEN new ELSE tail[l]
          /\ next'[new] = IF k = n + 1 THEN Null ELSE r[k]
          /\ prev'[new] = IF k = 1 THEN Null ELSE r[k - 1]
      BY <1>3, <1>4, <1>7, <1>11, <1>9, <1>10, <2>1 DEF Grown, TypeOK
    <2>4. list' = [list EXCEPT ![new] = l]
      BY <1>7
    <2> QED BY <1>2, <1>3, <1>6, <2>1, <2>2, <2>3, <2>4, Inserted
  <1>14. PlaceOf(l, e, k)
    BY <1>2, <1>3, <1>4, ContentsAre DEF PlaceOf
  <1> QED BY <1>1, <1>12, <1>13, <1>14

\* A list that is kept, or gains or loses a place, is described again.
LEMMA StillDescribed ==
  ASSUME NEW l \in Lists,
         Kept(l) \/ (\E k, e : Put(l, k, e)) \/ (\E k : Took(l, k))
  PROVE  \E t \in [1 .. size'[l] -> Elements] : Describes(l, t)'
  <1>1. CASE Kept(l)
    BY <1>1 DEF Kept
  <1>2. CASE \E k, e : Put(l, k, e)
    <2>1. PICK n \in Nat : \E t \in [1 .. n + 1 -> Elements] :
            size'[l] = n + 1 /\ Describes(l, t)'
      BY <1>2 DEF Put
    <2> QED BY <2>1
  <1>3. CASE \E k : Took(l, k)
    <2>1. PICK n \in Nat : \E t \in [1 .. n - 1 -> Elements] :
            size'[l] = n - 1 /\ Describes(l, t)'
      BY <1>3 DEF Took
    <2> QED BY <2>1
  <1> QED BY <1>1, <1>2, <1>3

\* What each step does to every list.
Shape(l) ==
  \/ Kept(l)
  \/ \E e \in Elements : \/ LIST_AddTail(l, e) /\ Put(l, size[l] + 1, e)
                         \/ LIST_AddHead(l, e) /\ Put(l, 1, e)
  \/ LIST_RemoveHead(l) /\ Took(l, 1)
  \/ \E c \in Callers, k \in Nat :
       /\ l = list[target[c]] /\ PlaceOf(l, target[c], k)
       /\ \/ LIST_RemoveElement(c) /\ Took(l, k)
          \/ LIST_AddPrevElement(c) /\ Put(l, k, newElement[c])

LEMMA ShapeStep ==
  ASSUME TypeOK, TypeOK', WellFormed, [Next]_vars, NEW l \in Lists
  PROVE  Shape(l)
  <1>1. ASSUME UNCHANGED <<listVars, elementVars>> PROVE Shape(l)
    BY <1>1, Frame DEF WellFormed, listVars, elementVars, Shape
  <1>2. ASSUME NEW c \in Callers, AddPrevRefused(c)
               \/ \E e \in Elements, new \in Elements \cup {Null} :
                    TestList(c, e, new)
        PROVE  Shape(l)
    BY <1>1, <1>2 DEF AddPrevRefused, TestList
  <1>3. CASE UNCHANGED vars
    BY <1>1, <1>3 DEF vars
  <1>4. ASSUME NEW m \in Lists, NEW e \in Elements,
               LIST_AddTail(m, e) \/ LIST_AddHead(m, e)
        PROVE  Shape(l)
    BY <1>4, ShapeAddTail, ShapeAddHead DEF Shape
  <1>5. ASSUME NEW m \in Lists, LIST_RemoveHead(m) PROVE Shape(l)
    BY <1>5, ShapeRemoveHead DEF Shape
  <1>6. ASSUME NEW c \in Callers, LIST_RemoveElement(c) PROVE Shape(l)
    BY <1>6, ShapeRemoveElement DEF Shape
  <1>7. ASSUME NEW c \in Callers, LIST_AddPrevElement(c) PROVE Shape(l)
    BY <1>7, ShapeAddPrevElement DEF Shape
  <1> QED BY <1>2, <1>3, <1>4, <1>5, <1>6, <1>7 DEF Next

LEMMA ShapeNext == TypeOK /\ TypeOK' /\ WellFormed /\ [Next]_vars => WellFormed'
  <1> SUFFICES ASSUME TypeOK, TypeOK', WellFormed, [Next]_vars, NEW l \in Lists
               PROVE  \E t \in [1 .. size'[l] -> Elements] : Describes(l, t)'
    BY DEF WellFormed
  <1>1. Shape(l)
    BY ShapeStep
  <1> QED BY <1>1, StillDescribed DEF Shape

LEMMA ShapeInit == Init => WellFormed
  <1> SUFFICES ASSUME Init, NEW l \in Lists
               PROVE  \E t \in [1 .. size[l] -> Elements] : Describes(l, t)
    BY DEF WellFormed
  <1>1. size[l] = 0 /\ [i \in 1 .. 0 |-> 0] \in [1 .. size[l] -> Elements]
    BY DEF Init
  <1>2. Describes(l, [i \in 1 .. 0 |-> 0])
    BY <1>1, ListAssumption DEF Init, Describes
  <1> QED BY <1>1, <1>2

\* In every reachable state the pointers of each list describe one sequence.
THEOREM ListsWellFormed == Spec => [](TypeOK /\ WellFormed)
  <1>1. Init => TypeOK /\ WellFormed
    BY ListTypeInit, ShapeInit
  <1>2. TypeOK /\ WellFormed /\ [Next]_vars => (TypeOK /\ WellFormed)'
    BY ListTypeNext, ShapeNext
  <1> QED BY <1>1, <1>2, PTL DEF Spec

-----------------------------------------------------------------------------
(* Capacity *)

LEMMA GrownWithin ==
  ASSUME TypeOK, WithinCapacity, NEW l \in Lists, ~Full(l), size' = Grown(l)
  PROVE  WithinCapacity'
  <1> SUFFICES ASSUME NEW m \in Lists, Max[m] # 0 PROVE size'[m] <= Max[m]
    BY DEF WithinCapacity
  <1>1. /\ size[m] \in Nat /\ Max[m] \in Nat /\ size[m] <= Max[m]
        /\ size'[m] = IF m = l THEN size[m] + 1 ELSE size[m]
        /\ m = l => Max[m] # size[m]
    BY ListAssumption DEF TypeOK, WithinCapacity, Full, Grown
  <1> QED BY ONLY <1>1

\* No list ever holds more elements than its capacity.
THEOREM ListsWithinCapacity == Spec => []WithinCapacity
  <1>1. Init => WithinCapacity
    BY ListAssumption DEF Init, WithinCapacity
  <1>2. ASSUME TypeOK, WellFormed, WithinCapacity, [Next]_vars
        PROVE  WithinCapacity'
    <2> USE <1>2, ListAssumption DEF WithinCapacity, TypeOK
    <2>1. ASSUME NEW l \in Lists, LIST_RemoveHead(l) PROVE WithinCapacity'
      BY <2>1 DEF LIST_RemoveHead
    <2>2. ASSUME NEW l \in Lists, NEW e \in Elements,
                 LIST_AddTail(l, e) \/ LIST_AddHead(l, e)
          PROVE  WithinCapacity'
      BY <2>2, GrownWithin DEF LIST_AddTail, LIST_AddHead, CanAdd
    <2>3. ASSUME NEW c \in Callers, LIST_RemoveElement(c) PROVE WithinCapacity'
      <3>1. PICK l \in Lists : size' = [size EXCEPT ![l] = @ - 1]
        BY <2>3 DEF LIST_RemoveElement
      <3>2. ASSUME NEW m \in Lists, Max[m] # 0 PROVE size'[m] <= Max[m]
        <4>1. /\ size[m] \in Nat /\ Max[m] \in Nat /\ size[m] <= Max[m]
              /\ size'[m] = IF m = l THEN size[m] - 1 ELSE size[m]
          BY <3>1, <3>2
        <4> QED BY ONLY <4>1
      <3> QED BY <3>2
    <2>4. ASSUME NEW c \in Callers, LIST_AddPrevElement(c)
          PROVE  WithinCapacity'
      BY <2>4, GrownWithin DEF LIST_AddPrevElement, CanAdd
    <2>5. ASSUME NEW c \in Callers, AddPrevRefused(c)
                 \/ \E e \in Elements, new \in Elements \cup {Null} :
                      TestList(c, e, new)
          PROVE  WithinCapacity'
      BY <2>5 DEF AddPrevRefused, TestList, listVars
    <2>6. CASE UNCHANGED vars
      BY <2>6 DEF vars, listVars
    <2> QED BY <2>1, <2>2, <2>3, <2>4, <2>5, <2>6 DEF Next
  <1> QED BY <1>1, <1>2, ListsWellFormed, PTL DEF Spec

-----------------------------------------------------------------------------
(* Each operation in its place *)

LEMMA AsSequence ==
  ASSUME NEW n \in Nat, NEW s \in [1 .. n -> Elements]
  PROVE  s \in Seq(Elements) /\ Len(s) = n
  OBVIOUS

\* The parts of a sequence before and from a place.
LEMMA Parts ==
  ASSUME NEW n \in Nat, NEW s \in [1 .. n -> Elements],
         NEW i \in 1 .. n + 1, NEW j \in 1 .. n + 1
  PROVE  /\ SubSeq(s, 1, i - 1) \in Seq(Elements)
         /\ Len(SubSeq(s, 1, i - 1)) = i - 1
         /\ \A m \in 1 .. i - 1 : SubSeq(s, 1, i - 1)[m] = s[m]
         /\ SubSeq(s, j, n) \in Seq(Elements)
         /\ Len(SubSeq(s, j, n)) = n - j + 1
         /\ \A m \in 1 .. n - j + 1 : SubSeq(s, j, n)[m] = s[j + m - 1]
  <1>1. /\ 1 \in Int /\ i - 1 \in Int /\ j \in Int /\ n \in Int
        /\ \A m \in 1 .. i - 1 : s[m] \in Elements
        /\ \A m \in j .. n : s[m] \in Elements
    OBVIOUS
  <1>2. /\ SubSeq(s, 1, i - 1) \in Seq(Elements)
        /\ Len(SubSeq(s, 1, i - 1)) = i - 1
        /\ \A m \in 1 .. i - 1 : SubSeq(s, 1, i - 1)[m] = s[m]
    <2>1. /\ SubSeq(s, 1, i - 1) \in Seq(Elements)
          /\ Len(SubSeq(s, 1, i - 1)) =
               IF 1 <= i - 1 THEN (i - 1) - 1 + 1 ELSE 0
          /\ \A m \in 1 .. (i - 1) - 1 + 1 :
               SubSeq(s, 1, i - 1)[m] = s[1 + m - 1]
      BY <1>1, SubSeqProperties
    <2> QED BY <2>1
  <1>3. /\ SubSeq(s, j, n) \in Seq(Elements)
        /\ Len(SubSeq(s, j, n)) = IF j <= n THEN n - j + 1 ELSE 0
        /\ \A m \in 1 .. n - j + 1 : SubSeq(s, j, n)[m] = s[j + m - 1]
    BY <1>1, SubSeqProperties
  <1> QED BY <1>2, <1>3

\* One sequence after another, by its places.
Joins(c, a, b, p, q) ==
  /\ c \in Seq(Elements) /\ Len(c) = p + q
  /\ \A i \in 1 .. p : c[i] = a[i]
  /\ \A i \in 1 .. q : c[p + i] = b[i]

LEMMA Joined ==
  ASSUME NEW a \in Seq(Elements), NEW b \in Seq(Elements),
         NEW p \in Nat, NEW q \in Nat, Len(a) = p, Len(b) = q
  PROVE  Joins(a \o b, a, b, p, q)
  <1>0. PICK c : c = a \o b
    OBVIOUS
  <1>1. /\ c \in Seq(Elements) /\ Len(c) = p + q
        /\ \A i \in 1 .. p + q : c[i] = IF i <= p THEN a[i] ELSE b[i - p]
    BY <1>0, ConcatProperties
  <1>2. ASSUME NEW i \in 1 .. p PROVE c[i] = a[i]
    <2>1. i \in 1 .. p + q /\ i <= p
      OBVIOUS
    <2> QED BY ONLY <1>1, <2>1
  <1>3. ASSUME NEW i \in 1 .. q PROVE c[p + i] = b[i]
    <2>1. p + i \in 1 .. p + q /\ ~(p + i <= p) /\ (p + i) - p = i
      OBVIOUS
    <2>2. c[p + i] = b[(p + i) - p]
      BY ONLY <1>1, <2>1
    <2> QED BY ONLY <2>1, <2>2
  <1>4. Joins(c, a, b, p, q)
    BY ONLY <1>1, <1>2, <1>3 DEF Joins
  <1> QED BY <1>0, <1>4, Zenon

LEMMA WithIs ==
  ASSUME NEW n \in Nat, NEW s \in [1 .. n -> Elements], NEW e \in Elements
  PROVE  /\ With(s, n, n + 1, e) = Append(s, e)
         /\ With(s, n, 1, e) = <<e>> \o s
         /\ \A k \in 1 .. n : With(s, n, k, e) =
              SubSeq(s, 1, k - 1) \o <<e>> \o SubSeq(s, k, Len(s))
  <1>1. s \in Seq(Elements) /\ Len(s) = n
    BY AsSequence
  <1>2. <<e>> \in Seq(Elements) /\ Len(<<e>>) = 1 /\ <<e>>[1] = e
    OBVIOUS
  <1>3. ASSUME NEW k \in 1 .. n + 1
        PROVE  /\ With(s, n, k, e) \in Seq(Elements)
               /\ Len(With(s, n, k, e)) = n + 1
               /\ \A i \in 1 .. n + 1 : With(s, n, k, e)[i] =
                    IF i < k THEN s[i] ELSE IF i = k THEN e ELSE s[i - 1]
    <2>1. \A i \in 1 .. n + 1 :
            (IF i < k THEN s[i] ELSE IF i = k THEN e ELSE s[i - 1]) \in Elements
      <3>1. TAKE i \in 1 .. n + 1
      <3> QED BY i < k => i \in 1 .. n, i > k => i - 1 \in 1 .. n
    <2>2. With(s, n, k, e) \in [1 .. n + 1 -> Elements]
      BY <2>1 DEF With
    <2>3. \A i \in 1 .. n + 1 : With(s, n, k, e)[i] =
            IF i < k THEN s[i] ELSE IF i = k THEN e ELSE s[i - 1]
      BY DEF With
    <2> QED BY ONLY <2>2, <2>3, n + 1 \in Nat, AsSequence
  <1>4. With(s, n, n + 1, e) = Append(s, e)
    <2>1. /\ Append(s, e) \in Seq(Elements) /\ Len(Append(s, e)) = n + 1
          /\ \A i \in 1 .. n + 1 :
               Append(s, e)[i] = IF i < n + 1 THEN s[i] ELSE e
      BY <1>1, AppendProperties
    <2>2. n + 1 \in 1 .. n + 1
      OBVIOUS
    <2>3. \A i \in 1 .. n + 1 : With(s, n, n + 1, e)[i] = Append(s, e)[i]
      BY <1>3, <2>1, <2>2
    <2> QED BY <1>3, <2>1, <2>2, <2>3, SeqEqual
  <1>5. With(s, n, 1, e) = <<e>> \o s
    <2>1. /\ <<e>> \o s \in Seq(Elements) /\ Len(<<e>> \o s) = 1 + n
          /\ \A i \in 1 .. 1 + n :
               (<<e>> \o s)[i] = IF i <= 1 THEN <<e>>[i] ELSE s[i - 1]
      BY <1>1, <1>2, ConcatProperties
    <2>2. 1 \in 1 .. n + 1
      OBVIOUS
    <2>3. \A i \in 1 .. n + 1 : With(s, n, 1, e)[i] = (<<e>> \o s)[i]
      BY <1>2, <1>3, <2>1, <2>2
    <2> QED BY <1>3, <2>1, <2>2, <2>3, SeqEqual
  <1>6. ASSUME NEW k \in 1 .. n
        PROVE  With(s, n, k, e) =
                 SubSeq(s, 1, k - 1) \o <<e>> \o SubSeq(s, k, n)
    <2> DEFINE a == SubSeq(s, 1, k - 1)
               b == SubSeq(s, k, n)
    <2>1. /\ a \in Seq(Elements) /\ Len(a) = k - 1
          /\ \A m \in 1 .. k - 1 : a[m] = s[m]
          /\ b \in Seq(Elements) /\ Len(b) = n - k + 1
          /\ \A m \in 1 .. n - k + 1 : b[m] = s[k + m - 1]
      BY Parts
    <2> HIDE DEF a, b
    <2>2. PICK p \in Nat, q \in Nat : p = k - 1 /\ q = n - k + 1
      OBVIOUS
    <2>3. Len(a) = p /\ Len(b) = q
      BY <2>1, <2>2
    <2>4. PICK c : c = a \o <<e>>
      OBVIOUS
    <2>5. /\ c \in Seq(Elements) /\ Len(c) = p + 1
          /\ \A i \in 1 .. p : c[i] = a[i]
          /\ \A i \in 1 .. 1 : c[p + i] = <<e>>[i]
      <3>1. Joins(a \o <<e>>, a, <<e>>, p, 1)
        BY <1>2, <2>1, <2>3, Joined
      <3>2. Joins(c, a, <<e>>, p, 1)
        BY <2>4, <3>1, Zenon
      <3> QED BY <3>2 DEF Joins
    <2>6. PICK d : d = c \o b
      OBVIOUS
    <2>7. /\ d \in Seq(Elements) /\ Len(d) = (p + 1) + q
          /\ \A i \in 1 .. p + 1 : d[i] = c[i]
          /\ \A i \in 1 .. q : d[(p + 1) + i] = b[i]
      <3>1. Joins(c \o b, c, b, p + 1, q)
        BY <2>1, <2>3, <2>5, Joined
      <3>2. Joins(d, c, b, p + 1, q)
        BY <2>6, <3>1, Zenon
      <3> QED BY <3>2 DEF Joins
    <2>8. ASSUME NEW i \in 1 .. n + 1
          PROVE  With(s, n, k, e)[i] = d[i]
      <3>1. With(s, n, k, e)[i] =
              IF i < k THEN s[i] ELSE IF i = k THEN e ELSE s[i - 1]
        BY <1>3
      <3>2. CASE i < k
        <4>1. i \in 1 .. p /\ i \in 1 .. p + 1 /\ i \in 1 .. k - 1
          BY <2>2, <3>2
        <4> QED BY ONLY <2>1, <2>5, <2>7, <3>1, <3>2, <4>1
      <3>3. CASE i = k
        <4>1. i = p + 1 /\ i \in 1 .. p + 1 /\ 1 \in 1 .. 1
          BY <2>2, <3>3
        <4>2. c[i] = e
          BY ONLY <1>2, <2>5, <4>1
        <4> QED BY ONLY <2>7, <3>1, <3>3, <4>1, <4>2, k \in 1 .. n
      <3>4. CASE i > k
        <4>1. PICK m \in 1 .. q : i = (p + 1) + m /\ m \in 1 .. n - k + 1
                                  /\ k + m - 1 = i - 1
          <5>1. i - k \in 1 .. q /\ i = (p + 1) + (i - k)
                /\ i - k \in 1 .. n - k + 1 /\ k + (i - k) - 1 = i - 1
            BY <2>2, <3>4
          <5> QED BY <5>1
        <4>2. d[i] = b[m] /\ b[m] = s[k + m - 1]
          BY ONLY <2>1, <2>7, <4>1
        <4> QED BY <3>1, <3>4, <4>1, <4>2
      <3> QED BY <3>2, <3>3, <3>4
    <2>9. Len(With(s, n, k, e)) = Len(d) /\ Len(With(s, n, k, e)) = n + 1
      BY <1>3, <2>2, <2>7
    <2>10. With(s, n, k, e) = d
      <3>1. With(s, n, k, e) \in Seq(Elements)
        BY <1>3
      <3> QED BY ONLY <2>7, <2>8, <2>9, <3>1, SeqEqual
    <2> QED BY <2>4, <2>10, <2>6 DEF a, b
  <1> QED BY <1>1, <1>4, <1>5, <1>6

LEMMA WithoutIs ==
  ASSUME NEW n \in Nat, NEW s \in [1 .. n -> Elements], NEW k \in 1 .. n
  PROVE  /\ k = 1 => Without(s, n, k) = Tail(s)
         /\ Without(s, n, k) =
              SubSeq(s, 1, k - 1) \o SubSeq(s, k + 1, Len(s))
  <1>1. s \in Seq(Elements) /\ Len(s) = n
    BY AsSequence
  <1>2. /\ Without(s, n, k) \in Seq(Elements) /\ Len(Without(s, n, k)) = n - 1
        /\ \A i \in 1 .. n - 1 :
             Without(s, n, k)[i] = IF i < k THEN s[i] ELSE s[i + 1]
    <2>1. Without(s, n, k) \in [1 .. n - 1 -> Elements]
      BY DEF Without
    <2>2. \A i \in 1 .. n - 1 :
            Without(s, n, k)[i] = IF i < k THEN s[i] ELSE s[i + 1]
      BY DEF Without
    <2> QED BY ONLY <2>1, <2>2, n - 1 \in Nat, AsSequence
  <1>3. ASSUME k = 1 PROVE Without(s, n, k) = Tail(s)
    <2>1. s # <<>>
      BY <1>1
    <2>2. /\ Tail(s) \in Seq(Elements) /\ Len(Tail(s)) = n - 1
          /\ \A i \in 1 .. n - 1 : Tail(s)[i] = s[i + 1]
      BY <1>1, <2>1, HeadTailProperties
    <2>3. \A i \in 1 .. n - 1 : Without(s, n, k)[i] = Tail(s)[i]
      BY <1>2, <1>3, <2>2
    <2> QED BY <1>2, <2>2, <2>3, SeqEqual
  <1>4. Without(s, n, k) = SubSeq(s, 1, k - 1) \o SubSeq(s, k + 1, n)
    <2> DEFINE a == SubSeq(s, 1, k - 1)
               b == SubSeq(s, k + 1, n)
    <2>1. /\ a \in Seq(Elements) /\ Len(a) = k - 1
          /\ \A m \in 1 .. k - 1 : a[m] = s[m]
          /\ b \in Seq(Elements) /\ Len(b) = n - (k + 1) + 1
          /\ \A m \in 1 .. n - (k + 1) + 1 : b[m] = s[(k + 1) + m - 1]
      BY Parts, k + 1 \in 1 .. n + 1
    <2> HIDE DEF a, b
    <2>2. PICK p \in Nat, q \in Nat : p = k - 1 /\ q = n - (k + 1) + 1
      OBVIOUS
    <2>3. Len(a) = p /\ Len(b) = q
      BY <2>1, <2>2
    <2>4. PICK d : d = a \o b
      OBVIOUS
    <2>5. /\ d \in Seq(Elements) /\ Len(d) = p + q
          /\ \A i \in 1 .. p : d[i] = a[i]
          /\ \A i \in 1 .. q : d[p + i] = b[i]
      <3>1. Joins(a \o b, a, b, p, q)
        BY <2>1, <2>3, Joined
      <3>2. Joins(d, a, b, p, q)
        BY <2>4, <3>1, Zenon
      <3> QED BY <3>2 DEF Joins
    <2>6. ASSUME NEW i \in 1 .. n - 1
          PROVE  Without(s, n, k)[i] = d[i]
      <3>1. Without(s, n, k)[i] = IF i < k THEN s[i] ELSE s[i + 1]
        BY <1>2
      <3>2. CASE i < k
        <4>1. i \in 1 .. p /\ i \in 1 .. k - 1
          BY <2>2, <3>2
        <4> QED BY ONLY <2>1, <2>5, <3>1, <3>2, <4>1
      <3>3. CASE i >= k
        <4>1. PICK m \in 1 .. q : i = p + m /\ m \in 1 .. n - (k + 1) + 1
                                  /\ (k + 1) + m - 1 = i + 1
          <5>1. i - p \in 1 .. q /\ i = p + (i - p)
                /\ i - p \in 1 .. n - (k + 1) + 1
                /\ (k + 1) + (i - p) - 1 = i + 1
            BY <2>2, <3>3
          <5> QED BY <5>1
        <4>2. d[i] = b[m] /\ b[m] = s[(k + 1) + m - 1]
          BY ONLY <2>1, <2>5, <4>1
        <4> QED BY <3>1, <3>3, <4>1, <4>2
      <3> QED BY <3>2, <3>3
    <2>7. Len(Without(s, n, k)) = Len(d)
          /\ Len(Without(s, n, k)) = n - 1
      BY <1>2, <2>2, <2>5
    <2>8. Without(s, n, k) = d
      BY ONLY <1>2, <2>5, <2>6, <2>7, SeqEqual
    <2> QED BY <2>8, <2>4 DEF a, b
  <1> QED BY <1>1, <1>3, <1>4

\* The contents before and after a step.
LEMMA ContentsBefore ==
  ASSUME TypeOK, NEW l \in Lists, NEW n \in Nat, NEW s \in [1 .. n -> Elements],
         size[l] = n, Describes(l, s)
  PROVE  Contents(l) = s
  BY ContentsAre

ContentsDescribed ==
  \A l \in Lists : \A s \in [1 .. size[l] -> Elements] :
    size[l] \in Nat /\ Describes(l, s) => Contents(l) = s
LEMMA ContentsKnown == ContentsDescribed
  BY ContentsAre DEF ContentsDescribed

LEMMA ContentsAfter ==
  ASSUME TypeOK', NEW l \in Lists, NEW n \in Nat,
         NEW s \in [1 .. n -> Elements], size'[l] = n, Describes(l, s)'
  PROVE  Contents(l)' = s
  <1>1. ContentsDescribed'
    BY ContentsKnown, PTL
  <1> QED BY <1>1 DEF ContentsDescribed

LEMMA WhereIs ==
  ASSUME NEW l \in Lists, NEW n \in Nat, NEW s \in [1 .. n -> Elements],
         size[l] = n, Describes(l, s), NEW k \in 1 .. n
  PROVE  Where(s[k], s) = k
  <1>1. DOMAIN s = 1 .. n /\ \A i \in 1 .. n : s[i] = s[k] => i = k
    BY DEF Describes
  <1> QED BY <1>1 DEF Where

LEMMA ShapeInPlace ==
  ASSUME TypeOK, TypeOK', NEW l \in Lists, Shape(l)
  PROVE  InPlace(l)
  <1>1. CASE Kept(l)
    <2>1. PICK s \in [1 .. size[l] -> Elements] :
            /\ Describes(l, s)
            /\ s \in [1 .. size'[l] -> Elements] /\ Describes(l, s)'
      BY <1>1 DEF Kept
    <2>2. size[l] \in Nat /\ size'[l] \in Nat
      BY DEF TypeOK
    <2>3. Contents(l) = s /\ Contents(l)' = s
      BY <2>1, <2>2, ContentsBefore, ContentsAfter
    <2> QED BY <2>3 DEF InPlace
  <1>2. ASSUME NEW e \in Elements, NEW k, Put(l, k, e)
        PROVE  \E n \in Nat : \E s \in [1 .. n -> Elements] :
                 /\ size[l] = n /\ k \in 1 .. n + 1 /\ Describes(l, s)
                 /\ Contents(l) = s /\ Contents(l)' = With(s, n, k, e)
    <2>1. PICK n \in Nat : size[l] = n
      BY DEF TypeOK
    <2>2. PICK s \in [1 .. n -> Elements], t \in [1 .. n + 1 -> Elements] :
            /\ size[l] = n /\ Describes(l, s) /\ k \in 1 .. n + 1
            /\ size'[l] = n + 1 /\ Describes(l, t)' /\ t = With(s, n, k, e)
      BY <1>2, <2>1 DEF Put
    <2>3. Contents(l) = s /\ Contents(l)' = t
      BY <2>2, n + 1 \in Nat, ContentsBefore, ContentsAfter
    <2> QED BY <2>2, <2>3
  <1>3. ASSUME NEW k, Took(l, k)
        PROVE  \E n \in Nat : \E s \in [1 .. n -> Elements] :
                 /\ size[l] = n /\ k \in 1 .. n /\ Describes(l, s)
                 /\ Contents(l) = s /\ Contents(l)' = Without(s, n, k)
    <2>1. PICK n \in Nat : size[l] = n
      BY DEF TypeOK
    <2>2. PICK s \in [1 .. n -> Elements], t \in [1 .. n - 1 -> Elements] :
            /\ size[l] = n /\ Describes(l, s) /\ k \in 1 .. n
            /\ size'[l] = n - 1 /\ Describes(l, t)' /\ t = Without(s, n, k)
      BY <1>3, <2>1 DEF Took
    <2>3. n - 1 \in Nat
      BY <2>2
    <2>4. Contents(l) = s /\ Contents(l)' = t
      BY <2>2, <2>3, ContentsBefore, ContentsAfter
    <2> QED BY <2>2, <2>4
  <1>4. ASSUME NEW e \in Elements, LIST_AddTail(l, e), Put(l, size[l] + 1, e)
        PROVE  InPlace(l)
    <2>1. PICK n \in Nat : size[l] = n
      BY DEF TypeOK
    <2>2. PICK s \in [1 .. n -> Elements] :
            Contents(l) = s /\ Contents(l)' = With(s, n, n + 1, e)
      BY <1>2, <1>4, <2>1
    <2>3. Contents(l)' = Append(Contents(l), e)
      BY <2>2, WithIs
    <2> QED BY <1>4, <2>3 DEF InPlace
  <1>5. ASSUME NEW e \in Elements, LIST_AddHead(l, e), Put(l, 1, e)
        PROVE  InPlace(l)
    <2>1. PICK n \in Nat : size[l] = n
      BY DEF TypeOK
    <2>2. PICK s \in [1 .. n -> Elements] :
            Contents(l) = s /\ Contents(l)' = With(s, n, 1, e)
      BY <1>2, <1>5, <2>1
    <2>3. Contents(l)' = <<e>> \o Contents(l)
      BY <2>2, WithIs
    <2> QED BY <1>5, <2>3 DEF InPlace
  <1>6. CASE LIST_RemoveHead(l) /\ Took(l, 1)
    <2>1. PICK n \in Nat : size[l] = n
      BY DEF TypeOK
    <2>2. PICK s \in [1 .. n -> Elements] :
            1 \in 1 .. n /\ Contents(l) = s /\ Contents(l)' = Without(s, n, 1)
      BY <1>3, <1>6, <2>1
    <2>3. Contents(l)' = Tail(Contents(l))
      BY <2>2, WithoutIs
    <2> QED BY <1>6, <2>3 DEF InPlace
  <1>7. ASSUME NEW c \in Callers, NEW k \in Nat, l = list[target[c]],
               PlaceOf(l, target[c], k), LIST_RemoveElement(c), Took(l, k)
        PROVE  InPlace(l)
    <2>1. PICK n \in Nat : size[l] = n
      BY DEF TypeOK
    <2>2. PICK s \in [1 .. n -> Elements] :
            /\ size[l] = n /\ k \in 1 .. n /\ Describes(l, s)
            /\ Contents(l) = s /\ Contents(l)' = Without(s, n, k)
      BY <1>3, <1>7, <2>1
    <2>3. s[k] = target[c] /\ target[c] # Null
      BY <1>7, <2>2 DEF PlaceOf, LIST_RemoveElement
    <2>4. Where(target[c], s) = k
      BY <2>2, <2>3, WhereIs
    <2>5. Contents(l)' = SubSeq(s, 1, k - 1) \o SubSeq(s, k + 1, Len(s))
      BY <2>2, WithoutIs
    <2> QED BY <1>7, <2>2, <2>3, <2>4, <2>5 DEF InPlace
  <1>8. ASSUME NEW c \in Callers, NEW k \in Nat, l = list[target[c]],
               PlaceOf(l, target[c], k), LIST_AddPrevElement(c),
               Put(l, k, newElement[c])
        PROVE  InPlace(l)
    <2>1. newElement[c] \in Elements
      BY <1>8 DEF LIST_AddPrevElement, TypeOK
    <2>2. PICK n \in Nat : size[l] = n
      BY DEF TypeOK
    <2>3. PICK s \in [1 .. n -> Elements] :
            /\ size[l] = n /\ k \in 1 .. n + 1 /\ Describes(l, s)
            /\ Contents(l) = s /\ Contents(l)' = With(s, n, k, newElement[c])
      BY <1>2, <1>8, <2>2, <2>1
    <2>4. s[k] = target[c] /\ target[c] # Null /\ k \in 1 .. n
      BY <1>8, <2>3 DEF PlaceOf, LIST_AddPrevElement
    <2>5. Where(target[c], s) = k
      BY <2>3, <2>4, WhereIs
    <2>6. Contents(l)' = SubSeq(s, 1, k - 1) \o <<newElement[c]>>
                           \o SubSeq(s, k, Len(s))
      BY <2>1, <2>3, <2>4, WithIs
    <2> QED BY <1>8, <2>3, <2>4, <2>5, <2>6 DEF InPlace
  <1> QED BY <1>1, <1>4, <1>5, <1>6, <1>7, <1>8 DEF Shape

\* Every step leaves the order of every list as it was, except for the one
\* element that the operation puts in or takes out at the place its name says:
\* whatever other calls did to the neighbours since the orphan test.
THEOREM OrderKept == Spec => OperationsInPlace
  <1>1. ASSUME TypeOK, TypeOK', WellFormed, [Next]_vars
        PROVE  [\A l \in Lists : InPlace(l)]_vars
    BY <1>1, ShapeStep, ShapeInPlace
  <1> QED BY <1>1, ListsWellFormed, PTL DEF Spec, OperationsInPlace
=============================================================================
