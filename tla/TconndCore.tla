----------------------------- MODULE TconndCore ------------------------------
(***************************************************************************)
(* The sockets, their pools and the lists that link them: what holds of    *)
(* them at every point of module Tconnd, and how each change of a socket   *)
(* keeps it.  First what the proofs need to know of intrusive lists: how   *)
(* the elements that a list links, and their order, change with it.        *)
(***************************************************************************)
EXTENDS TconndInv, FiniteSetTheorems, SequenceTheorems, TLAPS

(* The entries of a list are members of T.                                 *)
LEMMA Entry ==
  ASSUME NEW T, NEW list \in Seq(T), NEW Q, Links(list, Q)
  PROVE  /\ DOMAIN list = 1 .. Len(list) /\ Len(list) \in Nat
         /\ \A i \in 1 .. Len(list) : list[i] \in T /\ list[i] \in Q
         /\ \A x \in Q : \E i \in 1 .. Len(list) : list[i] = x
         /\ Q \subseteq T
         /\ (list = <<>> <=> Q = {})
<1>1. DOMAIN list = 1 .. Len(list) /\ Len(list) \in Nat
  OBVIOUS
<1>2. \A i \in 1 .. Len(list) : list[i] \in T
  OBVIOUS
<1>3. Q = {list[i] : i \in 1 .. Len(list)}
  BY <1>1 DEF Links, ToSet
<1>4. list # <<>> => Len(list) > 0
  OBVIOUS
<1>5. list = <<>> => Len(list) = 0
  OBVIOUS
<1>6. \A i \in 1 .. Len(list) : list[i] \in T /\ list[i] \in Q
  BY <1>2, <1>3
<1>7. \A x \in Q : \E i \in 1 .. Len(list) : list[i] = x
  BY <1>3
<1>8. Q \subseteq T
  BY <1>2, <1>3
<1>9. list = <<>> => Q = {}
  BY <1>1, <1>5, <1>3
<1>10. list # <<>> => list[1] \in Q
  BY <1>1, <1>4, <1>6
<1> QED
  BY <1>1, <1>6, <1>7, <1>8, <1>9, <1>10

(* Unlink takes one entry out and leaves the others in their order.        *)
LEMMA UnlinkKeepsOrder ==
  ASSUME NEW T, NEW list \in Seq(T), NEW Q, Links(list, Q), NEW x \in Q
  PROVE  /\ Unlink(list, x) \in Seq(T)
         /\ Len(Unlink(list, x)) = Len(list) - 1
         /\ \E i \in 1 .. Len(list) :
              /\ list[i] = x
              /\ \A k \in 1 .. Len(list) - 1 :
                   Unlink(list, x)[k] = list[IF k < i THEN k ELSE k + 1]
<1>1. PICK i \in 1 .. Len(list) : list[i] = x
  BY Entry
<1>2. DOMAIN list = 1 .. Len(list) /\ Len(list) \in Nat
  BY Entry
<1>3. (CHOOSE j \in DOMAIN list : list[j] = x) = i
  <2>1. \A j \in DOMAIN list : list[j] = x => j = i
    BY <1>1, <1>2 DEF Links, IsInjective
  <2> QED
    BY <1>1, <1>2, <2>1
<1>4. Unlink(list, x) = SubSeq(list, 1, i - 1) \o SubSeq(list, i + 1, Len(list))
  BY <1>1, <1>2, <1>3 DEF Unlink, RemoveAt
<1> DEFINE a == SubSeq(list, 1, i - 1)
           b == SubSeq(list, i + 1, Len(list))
<1>5. /\ a \in Seq(T) /\ Len(a) = i - 1
      /\ \A k \in 1 .. i - 1 : a[k] = list[k]
  BY <1>1, <1>2
<1>6. /\ b \in Seq(T) /\ Len(b) = Len(list) - i
      /\ \A k \in 1 .. Len(list) - i : b[k] = list[i + k]
  <2>1. /\ i + 1 \in Int /\ Len(list) \in Int
        /\ \A k \in i + 1 .. Len(list) : list[k] \in T
    BY <1>1, <1>2
  <2>2. /\ b \in Seq(T)
        /\ Len(b) = IF i + 1 <= Len(list) THEN Len(list) - (i + 1) + 1 ELSE 0
        /\ \A k \in 1 .. Len(list) - (i + 1) + 1 : b[k] = list[(i + 1) + k - 1]
    BY <2>1, SubSeqProperties
  <2>3. i \in Nat /\ Len(list) \in Nat /\ i <= Len(list)
    BY <1>1, <1>2
  <2>4. /\ Len(list) - (i + 1) + 1 = Len(list) - i
        /\ i + 1 <= Len(list) \/ Len(list) - i = 0
    BY <2>3
  <2>5. \A k \in 1 .. Len(list) - i : (i + 1) + k - 1 = i + k
    BY <1>1, <1>2
  <2> HIDE DEF b
  <2>6. Len(b) = Len(list) - i
    BY <2>2, <2>4, <1>1, <1>2
  <2>7. \A k \in 1 .. Len(list) - i : b[k] = list[(i + 1) + k - 1]
    BY <2>2, <2>4
  <2> QED
    BY <2>2, <2>5, <2>6, <2>7
<1>7. /\ a \o b \in Seq(T) /\ Len(a \o b) = Len(list) - 1
      /\ \A k \in 1 .. Len(list) - 1 :
           (a \o b)[k] = IF k < i THEN a[k] ELSE b[k - (i - 1)]
  <2>1. Len(a) + Len(b) = Len(list) - 1
    BY <1>1, <1>2, <1>5, <1>6
  <2> HIDE DEF a, b
  <2>2. /\ a \o b \in Seq(T) /\ Len(a \o b) = Len(a) + Len(b)
        /\ \A k \in 1 .. Len(a) + Len(b) :
             (a \o b)[k] = IF k <= Len(a) THEN a[k] ELSE b[k - Len(a)]
    BY <1>5, <1>6, ConcatProperties
  <2> QED
    BY <2>1, <2>2, <1>1, <1>2, <1>5, <1>6
<1>8. \A k \in 1 .. Len(list) - 1 :
        (a \o b)[k] = list[IF k < i THEN k ELSE k + 1]
  <2> TAKE k \in 1 .. Len(list) - 1
  <2>1. CASE k < i
    <3>1. (a \o b)[k] = a[k]
      BY <2>1, <1>7
    <3>2. k \in 1 .. i - 1
      BY <2>1, <1>2
    <3> QED
      BY <2>1, <3>1, <3>2, <1>5
  <2>2. CASE ~(k < i)
    <3>1. k - (i - 1) \in 1 .. Len(list) - i /\ i + (k - (i - 1)) = k + 1
      BY <2>2, <1>2
    <3>2. b[k - (i - 1)] = list[k + 1]
      BY <3>1, <1>6
    <3>3. (a \o b)[k] = b[k - (i - 1)]
      BY <2>2, <1>7
    <3> QED
      BY <2>2, <3>2, <3>3
  <2> QED
    BY <2>1, <2>2
<1> HIDE DEF a, b
<1>9. Unlink(list, x) = a \o b
  BY <1>4 DEF a, b
<1> QED
  BY <1>1, <1>7, <1>8, <1>9

(* The list without x links what it has linked but x.                      *)
LEMMA UnlinkLinks ==
  ASSUME NEW T, NEW list \in Seq(T), NEW Q, Links(list, Q), NEW x \in Q
  PROVE  Links(Unlink(list, x), Q \ {x})
<1> DEFINE new == Unlink(list, x)
           n   == Len(list)
<1>1. new \in Seq(T) /\ Len(new) = n - 1 /\ n \in Nat
  BY UnlinkKeepsOrder
<1>2. PICK i \in 1 .. n :
        /\ list[i] = x
        /\ \A k \in 1 .. n - 1 : new[k] = list[IF k < i THEN k ELSE k + 1]
  BY UnlinkKeepsOrder
<1>3. DOMAIN new = 1 .. n - 1
  BY <1>1
<1> HIDE DEF new
<1>4. \A j, k \in 1 .. n : list[j] = list[k] => j = k
  BY DEF Links, IsInjective
<1>5. IsInjective(new)
  <2> SUFFICES ASSUME NEW j \in 1 .. n - 1, NEW k \in 1 .. n - 1,
                      new[j] = new[k]
               PROVE  j = k
    BY <1>3 DEF IsInjective
  <2>1. /\ (IF j < i THEN j ELSE j + 1) \in 1 .. n
        /\ (IF k < i THEN k ELSE k + 1) \in 1 .. n
    BY <1>1
  <2>2. (IF j < i THEN j ELSE j + 1) = (IF k < i THEN k ELSE k + 1)
    BY <2>1, <1>2, <1>4
  <2> QED
    BY <2>2, <1>1
<1>6. ToSet(new) = {new[k] : k \in 1 .. n - 1}
  BY <1>3 DEF ToSet
<1>7. Q = {list[k] : k \in 1 .. n}
  BY DEF Links, ToSet
<1>8. \A k \in 1 .. n - 1 : new[k] \in Q /\ new[k] # x
  <2> TAKE k \in 1 .. n - 1
  <2>1. (IF k < i THEN k ELSE k + 1) \in 1 .. n /\ (IF k < i THEN k ELSE k + 1) # i
    BY <1>1
  <2> QED
    BY <2>1, <1>2, <1>4, <1>7
<1>9. \A y \in Q \ {x} : \E k \in 1 .. n - 1 : new[k] = y
  <2> TAKE y \in Q \ {x}
  <2>1. PICK j \in 1 .. n : list[j] = y
    BY <1>7
  <2>2. j # i
    BY <2>1, <1>2
  <2>3. CASE j < i
    <3>1. j \in 1 .. n - 1
      BY <2>3, <1>1
    <3> QED
      BY <3>1, <2>1, <2>3, <1>2
  <2>4. CASE j > i
    <3>1. j - 1 \in 1 .. n - 1 /\ ~(j - 1 < i) /\ (j - 1) + 1 = j
      BY <2>4, <1>1
    <3>2. new[j - 1] = list[j]
      BY <3>1, <1>2
    <3> QED
      BY <3>1, <3>2, <2>1
  <2> QED
    BY <2>2, <2>3, <2>4, <1>1
<1>10. ToSet(new) = Q \ {x}
  BY <1>6, <1>8, <1>9
<1> QED
  BY <1>5, <1>10 DEF Links, new

(* An entry that is not on the list is appended.                           *)
LEMMA AppendLinks ==
  ASSUME NEW T, NEW list \in Seq(T), NEW Q, Links(list, Q), NEW x \in T \ Q
  PROVE  /\ Append(list, x) \in Seq(T)
         /\ Len(Append(list, x)) = Len(list) + 1
         /\ Links(Append(list, x), Q \union {x})
<1> DEFINE new == Append(list, x)
           n   == Len(list)
<1>1. /\ new \in Seq(T) /\ Len(new) = n + 1 /\ n \in Nat
      /\ \A k \in 1 .. n : new[k] = list[k]
      /\ new[n + 1] = x
  OBVIOUS
<1>2. DOMAIN new = 1 .. n + 1 /\ DOMAIN list = 1 .. n
  BY <1>1
<1> HIDE DEF new
<1>3. Q = {list[k] : k \in 1 .. n}
  BY <1>2 DEF Links, ToSet
<1>4. IsInjective(new)
  <2> SUFFICES ASSUME NEW j \in 1 .. n + 1, NEW k \in 1 .. n + 1,
                      new[j] = new[k]
               PROVE  j = k
    BY <1>2 DEF IsInjective
  <2>1. \A m \in 1 .. n : new[m] # x
    BY <1>1, <1>3
  <2>2. (j = n + 1 \/ j \in 1 .. n) /\ (k = n + 1 \/ k \in 1 .. n)
    BY <1>1
  <2> QED
    BY <2>1, <2>2, <1>1, <1>2 DEF Links, IsInjective
<1>5. ToSet(new) = {new[k] : k \in 1 .. n + 1}
  BY <1>2 DEF ToSet
<1>6. 1 .. n + 1 = (1 .. n) \union {n + 1}
  BY <1>1
<1>7. ToSet(new) = Q \union {x}
  BY <1>1, <1>3, <1>5, <1>6
<1> QED
  BY <1>1, <1>4, <1>7 DEF Links, new

(* An entry that is not on the list is put at its front.                   *)
LEMMA PrependLinks ==
  ASSUME NEW T, NEW list \in Seq(T), NEW Q, Links(list, Q), NEW x \in T \ Q
  PROVE  /\ <<x>> \o list \in Seq(T)
         /\ Len(<<x>> \o list) = Len(list) + 1
         /\ Links(<<x>> \o list, Q \union {x})
<1> DEFINE new == <<x>> \o list
           n   == Len(list)
<1>1. /\ new \in Seq(T) /\ Len(new) = n + 1 /\ n \in Nat
      /\ \A k \in 1 .. n + 1 : new[k] = IF k = 1 THEN x ELSE list[k - 1]
  OBVIOUS
<1>2. DOMAIN new = 1 .. n + 1 /\ DOMAIN list = 1 .. n
  BY <1>1
<1> HIDE DEF new
<1>3. Q = {list[k] : k \in 1 .. n}
  BY <1>2 DEF Links, ToSet
<1>4. IsInjective(new)
  <2> SUFFICES ASSUME NEW j \in 1 .. n + 1, NEW k \in 1 .. n + 1,
                      new[j] = new[k]
               PROVE  j = k
    BY <1>2 DEF IsInjective
  <2>1. \A m \in 2 .. n + 1 : m - 1 \in 1 .. n /\ new[m] = list[m - 1] /\ new[m] # x
    BY <1>1, <1>3
  <2>2. (j = 1 \/ j \in 2 .. n + 1) /\ (k = 1 \/ k \in 2 .. n + 1)
    BY <1>1
  <2>3. CASE j = 1 \/ k = 1
    BY <2>1, <2>2, <2>3, <1>1
  <2>4. CASE j \in 2 .. n + 1 /\ k \in 2 .. n + 1
    <3>1. j - 1 = k - 1
      BY <2>1, <2>4, <1>2 DEF Links, IsInjective
    <3> QED
      BY <3>1, <2>4
  <2> QED
    BY <2>2, <2>3, <2>4
<1>5. ToSet(new) = {new[k] : k \in 1 .. n + 1}
  BY <1>2 DEF ToSet
<1>6. \A y \in Q \union {x} : \E k \in 1 .. n + 1 : new[k] = y
  <2>1. new[1] = x /\ 1 \in 1 .. n + 1
    BY <1>1
  <2>2. \A k \in 1 .. n : k + 1 \in 1 .. n + 1 /\ new[k + 1] = list[k]
    BY <1>1
  <2> QED
    BY <2>1, <2>2, <1>3
<1>7. \A k \in 1 .. n + 1 : new[k] \in Q \union {x}
  <2>1. \A m \in 2 .. n + 1 : m - 1 \in 1 .. n /\ new[m] = list[m - 1]
    BY <1>1
  <2>2. \A k \in 1 .. n + 1 : k = 1 \/ k \in 2 .. n + 1
    BY <1>1
  <2> QED
    BY <2>1, <2>2, <1>1, <1>3
<1>8. ToSet(new) = Q \union {x}
  BY <1>5, <1>6, <1>7
<1> QED
  BY <1>1, <1>4, <1>8 DEF Links, new

(* The first entry is taken off.                                           *)
LEMMA TailLinks ==
  ASSUME NEW T, NEW list \in Seq(T), NEW Q, Links(list, Q), list # <<>>
  PROVE  /\ Head(list) \in Q /\ Head(list) \in T /\ Tail(list) \in Seq(T)
         /\ Len(Tail(list)) = Len(list) - 1
         /\ Links(Tail(list), Q \ {Head(list)})
<1> DEFINE new == Tail(list)
           n   == Len(list)
           x   == Head(list)
<1>1. /\ new \in Seq(T) /\ Len(new) = n - 1 /\ n \in Nat \ {0}
      /\ \A k \in 1 .. n - 1 : new[k] = list[k + 1]
      /\ x = list[1] /\ x \in T
  OBVIOUS
<1>2. DOMAIN new = 1 .. n - 1 /\ DOMAIN list = 1 .. n
  BY <1>1
<1> HIDE DEF new, x
<1>3. Q = {list[k] : k \in 1 .. n}
  BY <1>2 DEF Links, ToSet
<1>4. \A j, k \in 1 .. n : list[j] = list[k] => j = k
  BY <1>2 DEF Links, IsInjective
<1>5. \A k \in 1 .. n - 1 : k + 1 \in 1 .. n /\ k + 1 # 1
  BY <1>1
<1>6. IsInjective(new)
  <2> SUFFICES ASSUME NEW j \in 1 .. n - 1, NEW k \in 1 .. n - 1,
                      new[j] = new[k]
               PROVE  j = k
    BY <1>2 DEF IsInjective
  <2>1. j + 1 = k + 1
    BY <1>1, <1>4, <1>5
  <2> QED
    BY <2>1
<1>7. ToSet(new) = {new[k] : k \in 1 .. n - 1}
  BY <1>2 DEF ToSet
<1>8. \A k \in 1 .. n - 1 : new[k] \in Q \ {x}
  BY <1>1, <1>3, <1>4, <1>5
<1>9. \A y \in Q \ {x} : \E k \in 1 .. n - 1 : new[k] = y
  <2> TAKE y \in Q \ {x}
  <2>1. PICK j \in 1 .. n : list[j] = y
    BY <1>3
  <2>2. j - 1 \in 1 .. n - 1 /\ (j - 1) + 1 = j
    BY <2>1, <1>1
  <2> QED
    BY <2>1, <2>2, <1>1
<1>10. ToSet(new) = Q \ {x}
  BY <1>7, <1>8, <1>9
<1>11. x \in Q
  BY <1>1, <1>3
<1> QED
  BY <1>1, <1>6, <1>10, <1>11 DEF Links, new, x

(* The length of a list is the number of what it links.                    *)
LEMMA LinksCount ==
  ASSUME NEW T, NEW list \in Seq(T), NEW Q, Links(list, Q)
  PROVE  IsFiniteSet(Q) /\ Cardinality(Q) = Len(list)
<1>1. DOMAIN list = 1 .. Len(list) /\ Len(list) \in Nat
  BY Entry
<1>2. list \in Bijection(1 .. Len(list), Q)
  BY <1>1 DEF Links, ToSet, Bijection, Injection, Surjection, IsInjective
<1>3. ExistsBijection(1 .. Len(list), Q)
  BY <1>2 DEF ExistsBijection
<1>4. IsFiniteSet(1 .. Len(list)) /\ Cardinality(1 .. Len(list)) = Len(list)
  BY <1>1, FS_Interval
<1> QED
  BY <1>3, <1>4, FS_Bijection

(* An order of a finite set, as epoll_wait reports it, is a list of it.    *)
LEMMA OrderLinks ==
  ASSUME NEW Q, IsFiniteSet(Q), NEW list \in OrdersOf(Q)
  PROVE  list \in Seq(Q) /\ Links(list, Q)
<1> DEFINE n == Cardinality(Q)
<1>1. n \in Nat
  BY FS_CardinalityType
<1>2. list \in [1 .. n -> Q] /\ ToSet(list) = Q
  BY DEF OrdersOf
<1>3. list \in Seq(Q)
  BY <1>1, <1>2
<1>4. IsFiniteSet(1 .. n) /\ Cardinality(1 .. n) = n
  BY <1>1, FS_Interval
<1>5. list \in Surjection(1 .. n, Q)
  BY <1>2 DEF ToSet, Surjection
<1>6. list \in Injection(1 .. n, Q)
  BY <1>4, <1>5, FS_SurjSameCardinalityImpliesInj
<1> QED
  BY <1>2, <1>3, <1>6 DEF Links, Injection

-----------------------------------------------------------------------------
(* The entries of list are in the order of their values in f.              *)
Sorted(list, f) ==
  \A i, j \in 1 .. Len(list) : i < j => f[list[i]] <= f[list[j]]

(* A list stays sorted when an entry leaves it,                            *)
LEMMA SortedUnlink ==
  ASSUME NEW T, NEW list \in Seq(T), NEW Q, Links(list, Q), NEW x \in Q,
         NEW f, Sorted(list, f)
  PROVE  Sorted(Unlink(list, x), f)
<1> DEFINE new == Unlink(list, x)
           n   == Len(list)
<1>1. Len(new) = n - 1 /\ n \in Nat
  BY UnlinkKeepsOrder
<1>2. PICK i \in 1 .. n :
        \A k \in 1 .. n - 1 : new[k] = list[IF k < i THEN k ELSE k + 1]
  BY UnlinkKeepsOrder
<1> HIDE DEF new
<1>3. ASSUME NEW j \in 1 .. n - 1, NEW k \in 1 .. n - 1, j < k
      PROVE  f[new[j]] <= f[new[k]]
  <2> DEFINE a == IF j < i THEN j ELSE j + 1
             b == IF k < i THEN k ELSE k + 1
  <2>1. a \in 1 .. n /\ b \in 1 .. n /\ a < b
    BY <1>1, <1>3
  <2>2. new[j] = list[a] /\ new[k] = list[b]
    BY <1>2
  <2> HIDE DEF a, b
  <2> QED
    BY <2>1, <2>2 DEF Sorted
<1>4. Sorted(new, f)
  BY <1>1, <1>3 DEF Sorted
<1> QED
  BY <1>4 DEF new

(* when one with the latest deadline is added,                             *)
LEMMA SortedAppend ==
  ASSUME NEW T, NEW list \in Seq(T), NEW Q, Links(list, Q), NEW x \in T \ Q,
         NEW f, Sorted(list, f), \A y \in Q : f[y] <= f[x]
  PROVE  Sorted(Append(list, x), f)
<1> DEFINE new == Append(list, x)
           n   == Len(list)
<1>1. /\ Len(new) = n + 1 /\ n \in Nat
      /\ \A k \in 1 .. n : new[k] = list[k]
      /\ new[n + 1] = x
  OBVIOUS
<1>2. \A k \in 1 .. n : list[k] \in Q
  BY Entry
<1> HIDE DEF new
<1>3. ASSUME NEW j \in 1 .. n + 1, NEW k \in 1 .. n + 1, j < k
      PROVE  f[new[j]] <= f[new[k]]
  <2>1. j \in 1 .. n /\ new[j] = list[j]
    BY <1>1, <1>3
  <2>2. CASE k = n + 1
    BY <2>1, <2>2, <1>1, <1>2
  <2>3. CASE k \in 1 .. n
    <3>1. new[k] = list[k]
      BY <2>3, <1>1
    <3> QED
      BY <2>1, <2>3, <3>1, <1>3 DEF Sorted
  <2> QED
    BY <2>2, <2>3, <1>1
<1>4. Sorted(new, f)
  BY <1>1, <1>3 DEF Sorted
<1> QED
  BY <1>4 DEF new

(* and when no deadline of it changes.                                     *)
LEMMA SortedSame ==
  ASSUME NEW T, NEW list \in Seq(T), NEW Q, Links(list, Q),
         NEW f, NEW g, Sorted(list, f), \A y \in Q : g[y] = f[y]
  PROVE  Sorted(list, g)
<1>1. \A k \in 1 .. Len(list) : list[k] \in Q
  BY Entry
<1> QED
  BY <1>1 DEF Sorted

-----------------------------------------------------------------------------
Free        == {s \in Slots : ~Live(s)}
Pending     == {s \in Slots : sock[s].status = "syn_sent"}
Established == {s \in Slots : sock[s].status = "established"}
Buffered    == {s \in Slots : sock[s].package > 0}
Readable    == {s \in Slots : sock[s].readable}
                 \union (IF listen_readable THEN {Listen} ELSE {})

CoreTypes ==
  /\ pool \in [sn : Nat, unused : Seq(Slots), used : Int, packages : Nat]
  /\ sock \in [Slots -> SocketType] /\ listen_readable \in BOOLEAN
  /\ readable_list \in Seq(Slots \union {Listen})
  /\ g_pending_socket_list \in Seq(Slots)
  /\ g_package_socket_list \in Seq(Slots)
  /\ g_cur_ticks \in Nat /\ accepted \in 0 .. MaxClients

(* A socket is as it was constructed, or has a client of its own and a     *)
(* serial number that has been given out.                                  *)
SocketOK(s) ==
  /\ ~Live(s) => sock[s] = Unused
  /\ Live(s) => /\ sock[s].status # "closed"
                /\ sock[s].who \in 1 .. accepted /\ sock[s].sn < pool.sn
  /\ sock[s].readable \/ sock[s].package > 0 => sock[s].status = "established"

SocketsOK ==
  /\ \A s \in Slots : SocketOK(s)
  /\ \A s, t \in Slots :
       Live(s) /\ Live(t) /\ sock[s].who = sock[t].who => s = t

Lists ==
  /\ Links(g_pending_socket_list, Pending)
  /\ Links(g_package_socket_list, Buffered)
  /\ Links(readable_list, Readable)
  /\ Links(pool.unused, Free)

Buffers == pool.packages + Len(g_package_socket_list) = PackageConnections

PendingTicks == [s \in Slots |-> sock[s].pending_ticks]
PackageTicks == [s \in Slots |-> sock[s].package_ticks]

Ticking ==
  /\ Sorted(g_pending_socket_list, PendingTicks)
  /\ Sorted(g_package_socket_list, PackageTicks)
  /\ \A s \in Pending : sock[s].pending_ticks <= g_cur_ticks + AcceptTicksLimit
  /\ \A s \in Buffered : sock[s].package_ticks <= g_cur_ticks + PackageTicksLimit

(* An event belongs to an accepted connection; an open connection has a    *)
(* socket.                                                                 *)
Owned ==
  /\ edges \subseteq {sock[s].who : s \in Established}
  /\ open = {sock[s].who : s \in {t \in Slots : Live(t)}}

Core == CoreTypes /\ SocketsOK /\ Lists /\ Buffers /\ Ticking /\ Owned

(* What the assumption says of the constants.                              *)
LEMMA Constants ==
  /\ Connections \in Nat \ {0} /\ PackageConnections \in Nat \ {0}
  /\ AcceptTicksLimit \in Nat /\ PackageTicksLimit \in Nat
  /\ OpListMax \in Nat \ {0} /\ OutputLimit \in Nat \ {0}
  /\ MaxClients \in Nat /\ MaxHalves \in Nat
  /\ Listen \in Nat /\ End \in Nat /\ Listen \notin Slots /\ End \notin Slots
  /\ Slots \subseteq Nat /\ Clients \subseteq Nat
BY TconndAssumption DEF Listen, End, Slots, Clients

(* What is known of the fields of a socket.                                *)
LEMMA Fields ==
  ASSUME CoreTypes, SocketsOK
  PROVE  \A s \in Slots :
           /\ sock[s] \in SocketType
           /\ (Live(s) => sock[s].sn \in Nat /\ sock[s].who \in Clients)
           /\ (Live(s) <=> sock[s].status # "closed")
           /\ (sock[s].package > 0 <=> sock[s].package = 1)
           /\ (~Live(s) => /\ sock[s].sn = Invalid /\ sock[s].package = 0
                           /\ ~sock[s].readable /\ ~sock[s].writable
                           /\ sock[s].iov_num = 0 /\ sock[s].who = 0)
<1> TAKE s \in Slots
<1>1. sock[s] \in SocketType /\ SocketOK(s)
  BY DEF CoreTypes, SocketsOK
<1>2. Live(s) => sock[s].sn \in Nat /\ sock[s].who \in Clients
  BY <1>1, Constants DEF SocketOK, SocketType, Live, CoreTypes, Clients
<1>3. /\ Unused.sn = Invalid /\ Unused.status = "closed" /\ Unused.package = 0
      /\ ~Unused.readable /\ ~Unused.writable /\ Unused.iov_num = 0
      /\ Unused.who = 0
  BY DEF Unused, Constructed
<1>4. Live(s) <=> sock[s].status # "closed"
  BY <1>1, <1>3 DEF SocketOK
<1>5. sock[s].package > 0 <=> sock[s].package = 1
  BY <1>1 DEF SocketType
<1> QED
  BY <1>1, <1>2, <1>3, <1>4, <1>5 DEF SocketOK

(* The server has just been started.                                       *)
Fresh ==
  /\ pool = [sn |-> 0, unused |-> [i \in 1 .. Connections |-> i - 1],
             used |-> 0, packages |-> PackageConnections]
  /\ sock = [s \in Slots |-> Unused] /\ listen_readable = FALSE
  /\ readable_list = <<>> /\ g_pending_socket_list = <<>>
  /\ g_package_socket_list = <<>>
  /\ g_cur_ticks = 0 /\ accepted \in 0 .. MaxClients
  /\ edges = {} /\ open = {}

(* A server that has just started satisfies Core.                          *)
LEMMA CoreFresh == Fresh => Core
<1> SUFFICES ASSUME Fresh PROVE Core
  OBVIOUS
<1> DEFINE u == [i \in 1 .. Connections |-> i - 1]
<1>1. \A s \in Slots : sock[s] = Unused
  BY DEF Fresh
<1>2. Unused \in SocketType
  BY Constants DEF Unused, Constructed, SocketType, Invalid
<1>3. /\ Unused.sn = Invalid /\ Unused.status = "closed" /\ Unused.package = 0
      /\ ~Unused.readable
  BY DEF Unused, Constructed
<1>4. u \in Seq(Slots)
  BY Constants DEF Slots
<1>5. /\ pool = [sn |-> 0, unused |-> u, used |-> 0,
                 packages |-> PackageConnections]
      /\ sock \in [Slots -> SocketType]
  BY <1>2 DEF Fresh
<1>6. CoreTypes
  <2>1. pool \in [sn : Nat, unused : Seq(Slots), used : Int, packages : Nat]
    <3> HIDE DEF u
    <3> QED
      BY <1>4, <1>5, Constants
  <2>2. 0 \in Nat /\ 0 \in 0 .. MaxClients /\ FALSE \in BOOLEAN
    BY Constants
  <2>3. \A T : <<>> \in Seq(T)
    OBVIOUS
  <2> QED
    BY <2>1, <2>2, <2>3, <1>5 DEF CoreTypes, Fresh
<1>7. SocketsOK
  BY <1>1, <1>3 DEF SocketsOK, SocketOK, Live
<1>8. /\ Free = Slots /\ Pending = {} /\ Established = {} /\ Buffered = {}
      /\ Readable = {}
  BY <1>1, <1>3 DEF Free, Pending, Established, Buffered, Readable, Live, Fresh
<1>9. Links(<<>>, {})
  BY DEF Links, IsInjective, ToSet
<1>10. Links(u, Slots)
  <2>1. DOMAIN u = 1 .. Connections
    OBVIOUS
  <2>2. IsInjective(u)
    BY <2>1, Constants DEF IsInjective
  <2>3. ToSet(u) = {i - 1 : i \in 1 .. Connections}
    BY <2>1 DEF ToSet
  <2>4. \A s \in Slots : s + 1 \in 1 .. Connections /\ (s + 1) - 1 = s
    BY Constants DEF Slots
  <2>5. \A i \in 1 .. Connections : i - 1 \in Slots
    BY Constants DEF Slots
  <2>6. ToSet(u) = Slots
    BY <2>3, <2>4, <2>5
  <2> QED
    BY <2>2, <2>6 DEF Links
<1>11. pool.unused = u
  BY <1>5
<1>12. Lists
  BY <1>8, <1>9, <1>10, <1>11 DEF Lists, Fresh
<1>13. Buffers
  BY <1>5, Constants DEF Buffers, Fresh
<1>14. Ticking
  BY <1>8 DEF Ticking, Sorted, Fresh
<1>15. Owned
  BY <1>1, <1>3 DEF Owned, Live, Fresh
<1> QED
  BY <1>6, <1>7, <1>12, <1>13, <1>14, <1>15 DEF Core

-----------------------------------------------------------------------------
(* tconnd_socket_delete.                                                   *)
LEMMA DeleteKeeps ==
  ASSUME Core, NEW s \in Slots, Live(s), Delete(s),
         UNCHANGED <<listen_readable, g_cur_ticks, accepted>>
  PROVE  /\ Core'
         /\ sock'[s] = Unused /\ \A t \in Slots \ {s} : sock'[t] = sock[t]
         /\ pool'.sn = pool.sn
         /\ pool'.used + Len(pool'.unused) = pool.used + Len(pool.unused)
<1> DEFINE u == pool.unused
<1>0. CoreTypes /\ SocketsOK /\ Lists /\ Buffers /\ Ticking /\ Owned
  BY DEF Core
<1>1. /\ sock' = [sock EXCEPT ![s] = Unused]
      /\ sock'[s] = Unused /\ \A t \in Slots \ {s} : sock'[t] = sock[t]
  BY <1>0 DEF Delete, CoreTypes
<1>2. /\ Unused \in SocketType
      /\ Unused.sn = Invalid /\ Unused.status = "closed" /\ Unused.package = 0
      /\ ~Unused.readable
  BY Constants DEF Unused, Constructed, SocketType, Invalid
<1>3. \A t \in Slots : /\ Live(t) => sock[t].sn \in Nat /\ sock[t].who \in Clients
                       /\ Live(t) <=> sock[t].status # "closed"
                       /\ sock[t] \in SocketType
  BY <1>0, Fields
<1>4. /\ sock[s].status \in {"syn_sent", "established"}
      /\ sock[s].readable => sock[s].status = "established"
      /\ sock[s].package > 0 => sock[s].status = "established"
      /\ sock[s].readable \in BOOLEAN
  BY <1>0, <1>3 DEF SocketsOK, SocketOK, SocketType
<1>5. \A t \in Slots : Live(t)' <=> Live(t) /\ t # s
  BY <1>1, <1>2 DEF Live
<1>6. /\ Free' = Free \union {s} /\ s \notin Free
      /\ Pending' = Pending \ {s} /\ Established' = Established \ {s}
      /\ Buffered' = Buffered \ {s} /\ Readable' = Readable \ {s}
  <2>1. Free' = Free \union {s} /\ s \notin Free
    BY <1>5 DEF Free
  <2>2. Pending' = Pending \ {s}
    BY <1>1, <1>2 DEF Pending
  <2>3. Established' = Established \ {s}
    BY <1>1, <1>2 DEF Established
  <2>4. Buffered' = Buffered \ {s}
    BY <1>1, <1>2 DEF Buffered
  <2>5. Readable' = Readable \ {s}
    <3>1. s # Listen
      BY Constants
    <3> QED
      BY <1>1, <1>2, <3>1 DEF Readable
  <2> QED
    BY <2>1, <2>2, <2>3, <2>4, <2>5
<1>7. /\ g_pending_socket_list' =
           IF s \in Pending THEN Unlink(g_pending_socket_list, s)
                            ELSE g_pending_socket_list
      /\ g_package_socket_list' =
           IF s \in Buffered THEN Unlink(g_package_socket_list, s)
                             ELSE g_package_socket_list
      /\ readable_list' =
           IF s \in Readable THEN Unlink(readable_list, s) ELSE readable_list
  <2>1. s # Listen
    BY Constants
  <2> QED
    BY <1>4, <2>1 DEF Delete, Pending, Buffered, Readable
<1>8. /\ g_pending_socket_list \in Seq(Slots)
      /\ g_package_socket_list \in Seq(Slots)
      /\ readable_list \in Seq(Slots \union {Listen})
      /\ Links(g_pending_socket_list, Pending)
      /\ Links(g_package_socket_list, Buffered)
      /\ Links(readable_list, Readable)
  BY <1>0 DEF CoreTypes, Lists
<1>9. /\ g_pending_socket_list' \in Seq(Slots)
      /\ Links(g_pending_socket_list', Pending')
      /\ Sorted(g_pending_socket_list', PendingTicks)
  <2>1. Sorted(g_pending_socket_list, PendingTicks)
    BY <1>0 DEF Ticking
  <2>2. CASE s \in Pending
    BY <2>1, <2>2, <1>6, <1>7, <1>8, UnlinkLinks, UnlinkKeepsOrder, SortedUnlink
  <2>3. CASE s \notin Pending
    <3>1. Pending' = Pending
      BY <2>3, <1>6
    <3> QED
      BY <2>1, <2>3, <3>1, <1>7, <1>8
  <2> QED
    BY <2>2, <2>3
<1>10. /\ g_package_socket_list' \in Seq(Slots)
       /\ Links(g_package_socket_list', Buffered')
       /\ Sorted(g_package_socket_list', PackageTicks)
       /\ Len(g_package_socket_list') =
            IF s \in Buffered THEN Len(g_package_socket_list) - 1
                              ELSE Len(g_package_socket_list)
  <2>1. Sorted(g_package_socket_list, PackageTicks)
    BY <1>0 DEF Ticking
  <2>2. CASE s \in Buffered
    BY <2>1, <2>2, <1>6, <1>7, <1>8, UnlinkLinks, UnlinkKeepsOrder, SortedUnlink
  <2>3. CASE s \notin Buffered
    <3>1. Buffered' = Buffered
      BY <2>3, <1>6
    <3> QED
      BY <2>1, <2>3, <3>1, <1>7, <1>8
  <2> QED
    BY <2>2, <2>3
<1>11. /\ readable_list' \in Seq(Slots \union {Listen})
       /\ Links(readable_list', Readable')
  <2>1. CASE s \in Readable
    BY <2>1, <1>6, <1>7, <1>8, UnlinkLinks, UnlinkKeepsOrder
  <2>2. CASE s \notin Readable
    <3>1. Readable' = Readable
      BY <2>2, <1>6
    <3> QED
      BY <2>2, <3>1, <1>7, <1>8
  <2> QED
    BY <2>1, <2>2
<1>12. /\ pool'.sn = pool.sn /\ pool'.unused = <<s>> \o u
       /\ pool'.used = pool.used - 1
       /\ pool'.packages = pool.packages + (IF s \in Buffered THEN 1 ELSE 0)
       /\ pool' \in [sn : Nat, unused : Seq(Slots), used : Int, packages : Nat]
       /\ Links(pool'.unused, Free')
  <2>1. /\ pool.sn \in Nat /\ u \in Seq(Slots) /\ pool.used \in Int
        /\ pool.packages \in Nat
    BY <1>0 DEF CoreTypes
  <2>2. <<s>> \o u \in Seq(Slots) /\ Links(<<s>> \o u, Free')
    BY <2>1, <1>0, <1>6, PrependLinks DEF Lists
  <2>3. (sock[s].status = "established" /\ sock[s].package > 0) <=> s \in Buffered
    BY <1>4 DEF Buffered
  <2>4. pool' = [pool EXCEPT !.unused = <<s>> \o @, !.used = @ - 1,
                             !.packages = @ + (IF s \in Buffered THEN 1 ELSE 0)]
    BY <2>3 DEF Delete
  <2>5. /\ pool'.sn = pool.sn /\ pool'.unused = <<s>> \o u
        /\ pool'.used = pool.used - 1
        /\ pool'.packages = pool.packages + (IF s \in Buffered THEN 1 ELSE 0)
        /\ pool' = [sn |-> pool'.sn, unused |-> pool'.unused,
                    used |-> pool'.used, packages |-> pool'.packages]
    BY <2>4, <1>0 DEF CoreTypes
  <2>6. /\ pool'.sn \in Nat /\ pool'.unused \in Seq(Slots) /\ pool'.used \in Int
        /\ pool'.packages \in Nat
    BY <2>1, <2>2, <2>5
  <2>7. pool' \in [sn : Nat, unused : Seq(Slots), used : Int, packages : Nat]
    BY <2>5, <2>6
  <2> QED
    BY <2>2, <2>5, <2>7
<1>13. CoreTypes'
  <2>1. sock' \in [Slots -> SocketType]
    BY <1>0, <1>1, <1>2 DEF CoreTypes
  <2> QED
    BY <2>1, <1>0, <1>9, <1>10, <1>11, <1>12 DEF CoreTypes
<1>14. SocketsOK'
  <2>1. \A t \in Slots : SocketOK(t)'
    <3> TAKE t \in Slots
    <3>1. CASE t = s
      BY <3>1, <1>1, <1>2 DEF SocketOK, Live
    <3>2. CASE t # s
      BY <3>2, <1>0, <1>1, <1>12 DEF SocketsOK, SocketOK, Live
    <3> QED
      BY <3>1, <3>2
  <2>2. \A t, v \in Slots :
          Live(t)' /\ Live(v)' /\ sock'[t].who = sock'[v].who => t = v
    BY <1>0, <1>1, <1>5 DEF SocketsOK
  <2> QED
    BY <2>1, <2>2 DEF SocketsOK
<1>15. Lists'
  BY <1>9, <1>10, <1>11, <1>12 DEF Lists
<1>16. Buffers'
  <2>1. Len(g_package_socket_list) \in Nat /\ pool.packages \in Nat
    BY <1>0 DEF CoreTypes
  <2> QED
    BY <2>1, <1>0, <1>10, <1>12 DEF Buffers
<1>17. Ticking'
  <2>1. \A t \in Pending' : PendingTicks'[t] = PendingTicks[t]
    BY <1>1, <1>6 DEF PendingTicks, Pending
  <2>2. \A t \in Buffered' : PackageTicks'[t] = PackageTicks[t]
    BY <1>1, <1>6 DEF PackageTicks, Buffered
  <2>3. Sorted(g_pending_socket_list', PendingTicks')
    BY <2>1, <1>9, SortedSame
  <2>4. Sorted(g_package_socket_list', PackageTicks')
    BY <2>2, <1>10, SortedSame
  <2>5. \A t \in Pending' : /\ t \in Pending /\ t \in Slots \ {s}
    BY <1>6 DEF Pending
  <2>6. \A t \in Buffered' : /\ t \in Buffered /\ t \in Slots \ {s}
    BY <1>6 DEF Buffered
  <2> QED
    BY <2>3, <2>4, <2>5, <2>6, <1>0, <1>1 DEF Ticking
<1>18. Owned'
  <2>1. edges' = edges \ {sock[s].who} /\ open' = open \ {sock[s].who}
    BY DEF Delete
  <2>2. edges' \subseteq {sock'[t].who : t \in Established'}
    <3> SUFFICES ASSUME NEW c \in edges, c # sock[s].who
                 PROVE  \E t \in Established' : c = sock'[t].who
      BY <2>1
    <3>1. PICK t \in Established : c = sock[t].who
      BY <1>0 DEF Owned
    <3>2. t # s /\ t \in Slots
      BY <3>1 DEF Established
    <3> QED
      BY <3>1, <3>2, <1>1, <1>6
  <2>3. \A t \in Slots \ {s} : Live(t) => sock[t].who # sock[s].who
    BY <1>0 DEF SocketsOK
  <2>4. {t \in Slots : Live(t)'} = {t \in Slots : Live(t)} \ {s}
    BY <1>5
  <2>5. open' = {sock'[t].who : t \in {v \in Slots : Live(v)'}}
    BY <2>1, <2>3, <2>4, <1>0, <1>1 DEF Owned
  <2> QED
    BY <2>2, <2>5 DEF Owned
<1>19. pool'.used + Len(pool'.unused) = pool.used + Len(pool.unused)
  <2>1. u \in Seq(Slots) /\ pool.used \in Int
    BY <1>0 DEF CoreTypes
  <2>2. Len(pool'.unused) = Len(pool.unused) + 1 /\ Len(pool.unused) \in Nat
    BY <2>1, <1>0, <1>6, <1>12, PrependLinks DEF Lists
  <2>3. pool'.used = pool.used - 1
    BY <1>12
  <2> QED
    BY <2>1, <2>2, <2>3
<1> QED
  BY <1>1, <1>12, <1>13, <1>14, <1>15, <1>16, <1>17, <1>18, <1>19 DEF Core

-----------------------------------------------------------------------------
(* tconnd_socket_new.                                                      *)
LEMMA NewSocketKeeps ==
  ASSUME Core, pool.unused # <<>>, NEW s, s = Head(pool.unused),
         accepted + 1 \in Clients, NewSocket(s, accepted + 1),
         accepted' = accepted + 1, UNCHANGED <<listen_readable, g_cur_ticks>>
  PROVE  /\ Core'
         /\ s \in Slots /\ ~Live(s)
         /\ sock'[s] = [Constructed(pool.sn, accepted + 1) EXCEPT
                          !.status = "syn_sent",
                          !.pending_ticks = g_cur_ticks + AcceptTicksLimit]
         /\ \A t \in Slots \ {s} : sock'[t] = sock[t]
         /\ pool'.sn = pool.sn + 1
         /\ pool'.used + Len(pool'.unused) = pool.used + Len(pool.unused)
<1> DEFINE c   == accepted + 1
           new == [Constructed(pool.sn, c) EXCEPT
                     !.status = "syn_sent",
                     !.pending_ticks = g_cur_ticks + AcceptTicksLimit]
<1>0. CoreTypes /\ SocketsOK /\ Lists /\ Buffers /\ Ticking /\ Owned
  BY DEF Core
<1>1. /\ s \in Slots /\ s \in Free /\ Tail(pool.unused) \in Seq(Slots)
      /\ Links(Tail(pool.unused), Free \ {s})
  BY <1>0, TailLinks DEF Lists, CoreTypes
<1>2. /\ sock'[s] = new /\ \A t \in Slots \ {s} : sock'[t] = sock[t]
      /\ sock' = [sock EXCEPT ![s] = new]
  BY <1>0, <1>1 DEF NewSocket, CoreTypes
<1>3. /\ new.sn = pool.sn /\ new.status = "syn_sent" /\ new.package = 0
      /\ ~new.readable /\ new.who = c
      /\ new.pending_ticks = g_cur_ticks + AcceptTicksLimit
      /\ pool.sn \in Nat /\ new \in SocketType
  <2>1. pool.sn \in Nat /\ g_cur_ticks + AcceptTicksLimit \in Nat /\ c \in Clients
    BY <1>0, Constants DEF CoreTypes
  <2> DEFINE old   == Constructed(pool.sn, c)
             limit == g_cur_ticks + AcceptTicksLimit
  <2>2. old \in SocketType
    BY <2>1, Constants DEF Constructed, SocketType
  <2>3. /\ old.sn = pool.sn /\ old.package = 0 /\ ~old.readable /\ old.who = c
    BY DEF Constructed
  <2>4. new = [old EXCEPT !.status = "syn_sent", !.pending_ticks = limit]
    OBVIOUS
  <2>5. limit \in Nat
    BY <2>1
  <2> HIDE DEF old, limit, new
  <2>6. new \in SocketType
    BY <2>2, <2>4, <2>5 DEF SocketType
  <2>7. /\ new.sn = old.sn /\ new.status = "syn_sent"
        /\ new.package = old.package /\ new.readable = old.readable
        /\ new.who = old.who /\ new.pending_ticks = limit
    BY <2>2, <2>4 DEF SocketType
  <2> QED
    BY <2>1, <2>3, <2>6, <2>7 DEF limit
<1> HIDE DEF new
<1>4. \A t \in Slots : /\ Live(t) => sock[t].sn \in Nat /\ sock[t].who \in Clients
                       /\ Live(t) <=> sock[t].status # "closed"
                       /\ ~Live(t) => sock[t].package = 0 /\ ~sock[t].readable
  BY <1>0, Fields
<1>5. \A t \in Slots : Live(t)' <=> Live(t) \/ t = s
  BY <1>2, <1>3 DEF Live, Invalid
<1>6. ~Live(s)
  BY <1>1 DEF Free
<1>7. /\ Free' = Free \ {s}
      /\ Pending' = Pending \union {s} /\ s \notin Pending
      /\ Established' = Established
      /\ Buffered' = Buffered /\ Readable' = Readable
  <2>1. Free' = Free \ {s}
    BY <1>5, <1>6 DEF Free
  <2>2. Pending' = Pending \union {s} /\ s \notin Pending
    BY <1>1, <1>2, <1>3, <1>4, <1>6 DEF Pending
  <2>3. Established' = Established
    BY <1>1, <1>2, <1>3, <1>4, <1>6 DEF Established
  <2>4. Buffered' = Buffered
    BY <1>1, <1>2, <1>3, <1>4, <1>6 DEF Buffered
  <2>5. Readable' = Readable
    BY <1>1, <1>2, <1>3, <1>4, <1>6 DEF Readable
  <2> QED
    BY <2>1, <2>2, <2>3, <2>4, <2>5
<1>8. /\ pool'.sn = pool.sn + 1 /\ pool'.unused = Tail(pool.unused)
      /\ pool'.packages = pool.packages
      /\ pool' \in [sn : Nat, unused : Seq(Slots), used : Int, packages : Nat]
  <2>1. /\ pool' = [pool EXCEPT !.sn = @ + 1, !.unused = Tail(@), !.used = @ + 1]
        /\ pool.sn \in Nat /\ pool.used \in Int /\ pool.packages \in Nat
    BY <1>0 DEF NewSocket, CoreTypes
  <2>2. /\ pool'.sn = pool.sn + 1 /\ pool'.unused = Tail(pool.unused)
        /\ pool'.used = pool.used + 1 /\ pool'.packages = pool.packages
        /\ pool' = [sn |-> pool'.sn, unused |-> pool'.unused,
                    used |-> pool'.used, packages |-> pool'.packages]
    BY <2>1, <1>0 DEF CoreTypes
  <2>3. /\ pool'.sn \in Nat /\ pool'.unused \in Seq(Slots)
        /\ pool'.used \in Int /\ pool'.packages \in Nat
    BY <2>1, <2>2, <1>1
  <2> QED
    BY <2>2, <2>3
<1>9. /\ g_pending_socket_list' = Append(g_pending_socket_list, s)
      /\ UNCHANGED <<readable_list, g_package_socket_list, edges>>
  BY DEF NewSocket
<1>10. /\ g_pending_socket_list' \in Seq(Slots)
       /\ Links(g_pending_socket_list', Pending')
  BY <1>0, <1>1, <1>7, <1>9, AppendLinks DEF Lists, CoreTypes
<1>11. CoreTypes'
  <2>1. sock' \in [Slots -> SocketType]
    BY <1>0, <1>2, <1>3 DEF CoreTypes
  <2>2. accepted' \in 0 .. MaxClients
    BY <1>0, Constants DEF CoreTypes, Clients
  <2> QED
    BY <2>1, <2>2, <1>0, <1>8, <1>9, <1>10 DEF CoreTypes
<1>12. SocketsOK'
  <2>1. accepted \in Nat /\ c \in 1 .. accepted' /\ pool.sn \in Nat
    BY <1>0, Constants DEF CoreTypes
  <2>2. \A t \in Slots : SocketOK(t)'
    <3> TAKE t \in Slots
    <3>1. CASE t = s
      BY <3>1, <2>1, <1>2, <1>3, <1>8 DEF SocketOK, Live, Invalid
    <3>2. CASE t # s
      <4>1. SocketOK(t) /\ sock'[t] = sock[t]
        BY <3>2, <1>0, <1>2 DEF SocketsOK
      <4>2. Live(t) => sock[t].who \in 1 .. accepted' /\ sock[t].sn < pool'.sn
        BY <4>1, <2>1, <1>4, <1>8 DEF SocketOK
      <4> QED
        BY <4>1, <4>2 DEF SocketOK, Live
    <3> QED
      BY <3>1, <3>2
  <2>3. \A t \in Slots \ {s} : Live(t) => sock[t].who # c
    BY <2>1, <1>0, <1>4 DEF SocketsOK, SocketOK
  <2>4. \A t, v \in Slots :
          Live(t)' /\ Live(v)' /\ sock'[t].who = sock'[v].who => t = v
    BY <2>3, <1>0, <1>2, <1>3, <1>5 DEF SocketsOK
  <2> QED
    BY <2>2, <2>4 DEF SocketsOK
<1>13. Lists'
  BY <1>0, <1>1, <1>7, <1>8, <1>9, <1>10 DEF Lists
<1>14. Buffers'
  BY <1>0, <1>8, <1>9 DEF Buffers
<1>15. Ticking'
  <2> DEFINE f == [PendingTicks EXCEPT ![s] = g_cur_ticks + AcceptTicksLimit]
  <2>1. /\ Sorted(g_pending_socket_list, PendingTicks)
        /\ Links(g_pending_socket_list, Pending)
        /\ g_pending_socket_list \in Seq(Slots)
    BY <1>0 DEF Ticking, Lists, CoreTypes
  <2>2. \A t \in Pending : f[t] = PendingTicks[t]
    BY <1>7 DEF PendingTicks, Pending
  <2>3. Sorted(g_pending_socket_list, f)
    <3> HIDE DEF f
    <3> QED
      BY <2>1, <2>2, SortedSame
  <2>4. f[s] = g_cur_ticks + AcceptTicksLimit
    BY <1>1 DEF PendingTicks
  <2>5. \A t \in Pending : PendingTicks[t] <= g_cur_ticks + AcceptTicksLimit
    BY <1>0 DEF Ticking, PendingTicks, Pending
  <2>6. Sorted(g_pending_socket_list', f)
    <3> HIDE DEF f
    <3> QED
      BY <2>1, <2>2, <2>3, <2>4, <2>5, <1>1, <1>7, <1>9, SortedAppend
  <2>7. \A t \in Pending' : PendingTicks'[t] = f[t]
    BY <1>1, <1>2, <1>3 DEF PendingTicks, Pending
  <2>8. Sorted(g_pending_socket_list', PendingTicks')
    <3> HIDE DEF f
    <3> QED
      BY <2>6, <2>7, <1>10, SortedSame
  <2>9. \A t \in Buffered : t \in Slots \ {s}
    BY <1>4, <1>6 DEF Buffered
  <2>10. \A t \in Buffered' : PackageTicks'[t] = PackageTicks[t]
    BY <2>9, <1>2, <1>7 DEF PackageTicks
  <2>11. Sorted(g_package_socket_list', PackageTicks')
    <3>1. /\ g_package_socket_list \in Seq(Slots)
          /\ Links(g_package_socket_list, Buffered')
          /\ Sorted(g_package_socket_list, PackageTicks)
      BY <1>0, <1>7 DEF CoreTypes, Lists, Ticking
    <3>2. Sorted(g_package_socket_list, PackageTicks')
      BY <3>1, <2>10, SortedSame
    <3> QED
      BY <3>2, <1>9
  <2>12. \A t \in Pending' :
           sock'[t].pending_ticks <= (g_cur_ticks + AcceptTicksLimit)'
    <3> TAKE t \in Pending'
    <3>1. g_cur_ticks + AcceptTicksLimit \in Nat
      BY <1>0, Constants DEF CoreTypes
    <3>2. CASE t = s
      BY <3>1, <3>2, <1>2, <1>3
    <3>3. CASE t # s
      <4>1. t \in Pending /\ t \in Slots \ {s}
        BY <3>3, <1>7 DEF Pending
      <4> QED
        BY <4>1, <1>0, <1>2 DEF Ticking
    <3> QED
      BY <3>2, <3>3
  <2>13. \A t \in Buffered' :
           sock'[t].package_ticks <= (g_cur_ticks + PackageTicksLimit)'
    BY <2>9, <1>0, <1>2, <1>7 DEF Ticking
  <2> QED
    BY <2>8, <2>11, <2>12, <2>13 DEF Ticking
<1>16. Owned'
  <2>1. edges' = edges /\ open' = open \union {c}
    BY DEF NewSocket
  <2>2. \A t \in Established : t \in Slots \ {s}
    BY <1>4, <1>6 DEF Established
  <2>3. edges' \subseteq {sock'[t].who : t \in Established'}
    BY <2>1, <2>2, <1>0, <1>2, <1>7 DEF Owned
  <2>4. {t \in Slots : Live(t)'} = {t \in Slots : Live(t)} \union {s}
    BY <1>1, <1>5
  <2>5. open' = {sock'[t].who : t \in {v \in Slots : Live(v)'}}
    BY <2>1, <2>4, <1>0, <1>2, <1>3, <1>6 DEF Owned
  <2> QED
    BY <2>3, <2>5 DEF Owned
<1>17. pool'.used + Len(pool'.unused) = pool.used + Len(pool.unused)
  <2>1. pool.unused \in Seq(Slots) /\ pool.used \in Int
    BY <1>0 DEF CoreTypes
  <2>2. Len(pool'.unused) = Len(pool.unused) - 1 /\ Len(pool.unused) \in Nat
    BY <2>1, <1>0, <1>8, TailLinks DEF Lists
  <2>3. pool'.used = pool.used + 1
    BY <2>1, <1>0 DEF NewSocket, CoreTypes
  <2> QED
    BY <2>1, <2>2, <2>3
<1> QED
  BY <1>1, <1>2, <1>6, <1>8, <1>11, <1>12, <1>13, <1>14, <1>15, <1>16, <1>17
     DEF Core, new

-----------------------------------------------------------------------------
(* Fields that no list depends on.                                         *)
LEMMA WritesKeep ==
  ASSUME Core, sock' \in [Slots -> SocketType],
         \A s \in Slots :
           /\ sock'[s].sn = sock[s].sn /\ sock'[s].who = sock[s].who
           /\ sock'[s].status = sock[s].status
           /\ sock'[s].readable = sock[s].readable
           /\ sock'[s].package = sock[s].package
           /\ sock'[s].pending_ticks = sock[s].pending_ticks
           /\ sock'[s].package_ticks = sock[s].package_ticks
           /\ ~Live(s) => sock'[s] = Unused,
         UNCHANGED <<pool, g_pending_socket_list, g_package_socket_list,
                     readable_list, edges, open, listen_readable,
                     g_cur_ticks, accepted>>
  PROVE  Core'
<1>0. CoreTypes /\ SocketsOK /\ Lists /\ Buffers /\ Ticking /\ Owned
  BY DEF Core
<1>1. \A s \in Slots : Live(s)' <=> Live(s)
  BY DEF Live
<1>2. /\ Free' = Free /\ Pending' = Pending /\ Established' = Established
      /\ Buffered' = Buffered /\ Readable' = Readable
      /\ PendingTicks' = PendingTicks /\ PackageTicks' = PackageTicks
      /\ {s \in Slots : Live(s)'} = {s \in Slots : Live(s)}
  BY <1>1 DEF Free, Pending, Established, Buffered, Readable, PendingTicks,
              PackageTicks
<1>3. CoreTypes'
  BY <1>0 DEF CoreTypes
<1>4. SocketsOK'
  BY <1>0, <1>1 DEF SocketsOK, SocketOK
<1>5. Lists' /\ Buffers'
  BY <1>0, <1>2 DEF Lists, Buffers
<1>6. Ticking'
  <2>1. Pending \subseteq Slots /\ Buffered \subseteq Slots
    BY DEF Pending, Buffered
  <2> QED
    BY <2>1, <1>0, <1>2 DEF Ticking
<1>7. Owned'
  <2>1. Established \subseteq Slots
    BY DEF Established
  <2> QED
    BY <2>1, <1>0, <1>2 DEF Owned
<1> QED
  BY <1>3, <1>4, <1>5, <1>6, <1>7 DEF Core

(* A connection is accepted: it leaves the list of those that wait.        *)
LEMMA AcceptKeeps ==
  ASSUME Core, NEW s \in Slots, sock[s].status = "syn_sent",
         sock' = [sock EXCEPT ![s].status = "established",
                              ![s].writable = TRUE],
         g_pending_socket_list' = Unlink(g_pending_socket_list, s),
         edges \subseteq edges', edges' \subseteq edges \union {sock[s].who},
         UNCHANGED <<pool, g_package_socket_list, readable_list, open,
                     listen_readable, g_cur_ticks, accepted>>
  PROVE  Core'
<1> DEFINE new == [sock[s] EXCEPT !.status = "established", !.writable = TRUE]
<1>0. CoreTypes /\ SocketsOK /\ Lists /\ Buffers /\ Ticking /\ Owned
  BY DEF Core
<1>1. /\ sock'[s] = new /\ \A t \in Slots \ {s} : sock'[t] = sock[t]
      /\ sock' = [sock EXCEPT ![s] = new]
  BY <1>0 DEF CoreTypes
<1>2. /\ new.sn = sock[s].sn /\ new.status = "established"
      /\ new.package = sock[s].package /\ new.who = sock[s].who
      /\ new.readable = sock[s].readable
      /\ new.pending_ticks = sock[s].pending_ticks
      /\ new.package_ticks = sock[s].package_ticks
      /\ new \in SocketType
  <2>1. sock[s] \in SocketType
    BY <1>0 DEF CoreTypes
  <2>2. new \in SocketType
    BY <2>1 DEF SocketType
  <2> QED
    BY <2>1, <2>2 DEF SocketType
<1> HIDE DEF new
<1>3. Live(s) /\ SocketOK(s)
  BY <1>0, Fields DEF SocketsOK
<1>4. \A t \in Slots : Live(t)' <=> Live(t)
  BY <1>1, <1>2 DEF Live
<1>5. /\ Free' = Free /\ Pending' = Pending \ {s} /\ s \in Pending
      /\ Established' = Established \union {s}
      /\ Buffered' = Buffered /\ Readable' = Readable
      /\ {t \in Slots : Live(t)'} = {t \in Slots : Live(t)}
  <2>1. Free' = Free /\ {t \in Slots : Live(t)'} = {t \in Slots : Live(t)}
    BY <1>4 DEF Free
  <2>2. ASSUME NEW t \in Slots
        PROVE  /\ IF t = s THEN sock'[t].status = "established"
                           ELSE sock'[t].status = sock[t].status
               /\ sock'[t].package = sock[t].package
               /\ sock'[t].readable = sock[t].readable
    <3>1. CASE t = s
      <4>1. sock'[t] = new /\ sock[t] = sock[s]
        BY <1>1, <3>1
      <4> QED
        BY <1>2, <3>1, <4>1
    <3>2. CASE t # s
      <4>1. sock'[t] = sock[t]
        BY <1>1, <3>2
      <4> QED
        BY <3>2, <4>1
    <3> QED
      BY <3>1, <3>2
  <2>3. Pending' = Pending \ {s} /\ s \in Pending
    <3>1. ASSUME NEW t \in Slots
          PROVE  sock'[t].status = "syn_sent"
                   <=> t # s /\ sock[t].status = "syn_sent"
      BY <2>2
    <3> QED
      BY <3>1 DEF Pending
  <2>4. Established' = Established \union {s}
    BY <2>2 DEF Established
  <2>5. Buffered' = Buffered
    BY <2>2 DEF Buffered
  <2>6. Readable' = Readable
    BY <2>2 DEF Readable
  <2> QED
    BY <2>1, <2>3, <2>4, <2>5, <2>6
<1>6. /\ g_pending_socket_list \in Seq(Slots)
      /\ Links(g_pending_socket_list, Pending)
      /\ Sorted(g_pending_socket_list, PendingTicks)
  BY <1>0 DEF CoreTypes, Lists, Ticking
<1>7. /\ g_pending_socket_list' \in Seq(Slots)
      /\ Links(g_pending_socket_list', Pending')
      /\ Sorted(g_pending_socket_list', PendingTicks)
  BY <1>5, <1>6, UnlinkLinks, UnlinkKeepsOrder, SortedUnlink
<1>8. PendingTicks' = PendingTicks /\ PackageTicks' = PackageTicks
  <2>1. \A t \in Slots : /\ sock'[t].pending_ticks = sock[t].pending_ticks
                         /\ sock'[t].package_ticks = sock[t].package_ticks
    BY <1>1, <1>2
  <2> QED
    BY <2>1 DEF PendingTicks, PackageTicks
<1>9. CoreTypes'
  <2>1. sock' \in [Slots -> SocketType]
    BY <1>0, <1>1, <1>2 DEF CoreTypes
  <2> QED
    BY <2>1, <1>0, <1>7 DEF CoreTypes
<1>10. SocketsOK'
  <2>1. \A t \in Slots : sock'[t].who = sock[t].who
    BY <1>1, <1>2
  <2>2. \A t \in Slots : SocketOK(t)'
    <3> TAKE t \in Slots
    <3>1. CASE t = s
      BY <3>1, <1>1, <1>2, <1>3, <1>4 DEF SocketOK
    <3>2. CASE t # s
      BY <3>2, <1>0, <1>1, <1>4 DEF SocketsOK, SocketOK
    <3> QED
      BY <3>1, <3>2
  <2> QED
    BY <2>1, <2>2, <1>0, <1>4 DEF SocketsOK
<1>11. Lists' /\ Buffers'
  BY <1>0, <1>5, <1>7 DEF Lists, Buffers
<1>12. Ticking'
  <2>1. Pending' \subseteq Pending /\ Pending \subseteq Slots /\ Buffered \subseteq Slots
    BY <1>5 DEF Pending, Buffered
  <2>2. \A t \in Slots : /\ sock'[t].pending_ticks = sock[t].pending_ticks
                         /\ sock'[t].package_ticks = sock[t].package_ticks
    BY <1>1, <1>2
  <2> QED
    BY <2>1, <2>2, <1>0, <1>5, <1>7, <1>8 DEF Ticking
<1>13. Owned'
  <2>1. Established \subseteq Slots
    BY DEF Established
  <2>2. \A t \in Slots : sock'[t].who = sock[t].who
    BY <1>1, <1>2
  <2>3. edges' \subseteq {sock'[t].who : t \in Established'}
    <3>1. edges \subseteq {sock[t].who : t \in Established}
      BY <1>0 DEF Owned
    <3>2. {sock[t].who : t \in Established} \union {sock[s].who}
            \subseteq {sock'[t].who : t \in Established'}
      BY <2>1, <2>2, <1>5
    <3> QED
      BY <3>1, <3>2
  <2>4. open' = {sock'[t].who : t \in {v \in Slots : Live(v)'}}
    BY <2>2, <1>0, <1>5 DEF Owned
  <2> QED
    BY <2>3, <2>4 DEF Owned
<1> QED
  BY <1>9, <1>10, <1>11, <1>12, <1>13 DEF Core

(* recv() has returned EAGAIN: the socket is taken off readable_list.      *)
LEMMA AgainKeeps ==
  ASSUME Core, NEW s \in Slots, sock[s].readable, Live(s),
         sock' = [sock EXCEPT ![s].readable = FALSE],
         readable_list' = Unlink(readable_list, s),
         UNCHANGED <<pool, g_pending_socket_list, g_package_socket_list, edges,
                     open, listen_readable, g_cur_ticks, accepted>>
  PROVE  Core'
<1> DEFINE new == [sock[s] EXCEPT !.readable = FALSE]
<1>0. CoreTypes /\ SocketsOK /\ Lists /\ Buffers /\ Ticking /\ Owned
  BY DEF Core
<1>1. /\ sock'[s] = new /\ \A t \in Slots \ {s} : sock'[t] = sock[t]
      /\ sock' = [sock EXCEPT ![s] = new]
  BY <1>0 DEF CoreTypes
<1>2. /\ new.sn = sock[s].sn /\ new.status = sock[s].status
      /\ new.package = sock[s].package /\ new.who = sock[s].who
      /\ ~new.readable
      /\ new.pending_ticks = sock[s].pending_ticks
      /\ new.package_ticks = sock[s].package_ticks
      /\ new \in SocketType
  BY <1>0 DEF CoreTypes, SocketType
<1> HIDE DEF new
<1>3. \A t \in Slots : Live(t)' <=> Live(t)
  BY <1>1, <1>2 DEF Live
<1>4. /\ Free' = Free /\ Pending' = Pending /\ Established' = Established
      /\ Buffered' = Buffered /\ Readable' = Readable \ {s} /\ s \in Readable
      /\ {t \in Slots : Live(t)'} = {t \in Slots : Live(t)}
  <2>1. Free' = Free /\ {t \in Slots : Live(t)'} = {t \in Slots : Live(t)}
    BY <1>3 DEF Free
  <2>2. Pending' = Pending
    BY <1>1, <1>2 DEF Pending
  <2>3. Established' = Established
    BY <1>1, <1>2 DEF Established
  <2>4. Buffered' = Buffered
    BY <1>1, <1>2 DEF Buffered
  <2>5. Readable' = Readable \ {s} /\ s \in Readable
    <3>1. s # Listen
      BY Constants
    <3> QED
      BY <1>1, <1>2, <3>1 DEF Readable
  <2> QED
    BY <2>1, <2>2, <2>3, <2>4, <2>5
<1>5. PendingTicks' = PendingTicks /\ PackageTicks' = PackageTicks
  BY <1>1, <1>2 DEF PendingTicks, PackageTicks
<1>6. /\ readable_list' \in Seq(Slots \union {Listen})
      /\ Links(readable_list', Readable')
  BY <1>0, <1>4, UnlinkLinks, UnlinkKeepsOrder DEF CoreTypes, Lists
<1>7. CoreTypes'
  <2>1. sock' \in [Slots -> SocketType]
    BY <1>0, <1>1, <1>2 DEF CoreTypes
  <2> QED
    BY <2>1, <1>0, <1>6 DEF CoreTypes
<1>8. \A t \in Slots : /\ sock'[t].who = sock[t].who
                       /\ sock'[t].pending_ticks = sock[t].pending_ticks
                       /\ sock'[t].package_ticks = sock[t].package_ticks
  BY <1>1, <1>2
<1>9. SocketsOK'
  <2>1. \A t \in Slots : SocketOK(t)'
    <3> TAKE t \in Slots
    <3>1. CASE t = s
      BY <3>1, <1>0, <1>1, <1>2, <1>3 DEF SocketsOK, SocketOK
    <3>2. CASE t # s
      BY <3>2, <1>0, <1>1, <1>3 DEF SocketsOK, SocketOK
    <3> QED
      BY <3>1, <3>2
  <2> QED
    BY <2>1, <1>0, <1>3, <1>8 DEF SocketsOK
<1>10. Lists' /\ Buffers'
  BY <1>0, <1>4, <1>6 DEF Lists, Buffers
<1>11. Ticking'
  <2>1. Pending \subseteq Slots /\ Buffered \subseteq Slots
    BY DEF Pending, Buffered
  <2> QED
    BY <2>1, <1>0, <1>4, <1>5, <1>8 DEF Ticking
<1>12. Owned'
  <2>1. Established \subseteq Slots
    BY DEF Established
  <2> QED
    BY <2>1, <1>0, <1>4, <1>8 DEF Owned
<1> QED
  BY <1>7, <1>9, <1>10, <1>11, <1>12 DEF Core

(* accept() has returned EAGAIN: so is g_listen.                           *)
LEMMA ListenAgainKeeps ==
  ASSUME Core, listen_readable, listen_readable' = FALSE,
         readable_list' = Unlink(readable_list, Listen),
         UNCHANGED <<pool, sock, g_pending_socket_list, g_package_socket_list,
                     edges, open, g_cur_ticks, accepted>>
  PROVE  Core'
<1>0. CoreTypes /\ SocketsOK /\ Lists /\ Buffers /\ Ticking /\ Owned
  BY DEF Core
<1>1. \A t \in Slots : Live(t)' <=> Live(t)
  BY DEF Live
<1>2. /\ Free' = Free /\ Pending' = Pending /\ Established' = Established
      /\ Buffered' = Buffered
      /\ {t \in Slots : Live(t)'} = {t \in Slots : Live(t)}
  BY <1>1 DEF Free, Pending, Established, Buffered
<1>3. Readable' = Readable \ {Listen} /\ Listen \in Readable
  BY Constants DEF Readable
<1>4. /\ readable_list' \in Seq(Slots \union {Listen})
      /\ Links(readable_list', Readable')
  BY <1>0, <1>3, UnlinkLinks, UnlinkKeepsOrder DEF CoreTypes, Lists
<1>5. CoreTypes' /\ SocketsOK'
  BY <1>0, <1>1, <1>4 DEF CoreTypes, SocketsOK, SocketOK
<1>6. Lists' /\ Buffers'
  BY <1>0, <1>2, <1>4 DEF Lists, Buffers
<1>7. Ticking' /\ Owned'
  BY <1>0, <1>2 DEF Ticking, Owned, PendingTicks, PackageTicks
<1> QED
  BY <1>5, <1>6, <1>7 DEF Core

(* recv() has returned something: a half package at the end goes to a      *)
(* buffer, with a deadline of its own.                                     *)
LEMMA PackageKeeps ==
  ASSUME Core, NEW s \in Slots, sock[s].status = "established",
         pool.packages > 0, NEW half \in 0 .. 1,
         sock' = [sock EXCEPT ![s].package = half,
                              ![s].package_ticks =
                                IF half > 0 THEN g_cur_ticks + PackageTicksLimit
                                            ELSE 0],
         pool' = [pool EXCEPT !.packages =
                    @ + (IF sock[s].package > 0 THEN 1 ELSE 0) - half],
         NEW list,
         list = IF sock[s].package > 0 THEN Unlink(g_package_socket_list, s)
                                       ELSE g_package_socket_list,
         g_package_socket_list' = IF half > 0 THEN Append(list, s) ELSE list,
         UNCHANGED <<g_pending_socket_list, readable_list, edges, open,
                     listen_readable, g_cur_ticks, accepted>>
  PROVE  /\ Core'
         /\ sock'[s].package = half /\ sock'[s].iov_num = sock[s].iov_num
         /\ \A t \in Slots : /\ sock'[t].sn = sock[t].sn
                             /\ sock'[t].who = sock[t].who
                             /\ sock'[t].status = sock[t].status
                             /\ sock'[t].readable = sock[t].readable
                             /\ sock'[t].writable = sock[t].writable
                             /\ sock'[t].iov_num = sock[t].iov_num
                             /\ t # s => sock'[t] = sock[t]
         /\ pool'.sn = pool.sn /\ pool'.unused = pool.unused
         /\ pool'.used = pool.used
<1> DEFINE limit == g_cur_ticks + PackageTicksLimit
           ticks == IF half > 0 THEN limit ELSE 0
           new   == [sock[s] EXCEPT !.package = half, !.package_ticks = ticks]
<1>0. CoreTypes /\ SocketsOK /\ Lists /\ Buffers /\ Ticking /\ Owned
  BY DEF Core
<1>1. /\ sock'[s] = new /\ \A t \in Slots \ {s} : sock'[t] = sock[t]
      /\ sock' = [sock EXCEPT ![s] = new]
  BY <1>0 DEF CoreTypes
<1>2. limit \in Nat /\ ticks \in Nat
  <2>1. limit \in Nat
    <3>1. g_cur_ticks \in Nat /\ PackageTicksLimit \in Nat
      BY <1>0, Constants DEF CoreTypes
    <3> QED
      BY <3>1
  <2>2. ticks = limit \/ ticks = 0
    OBVIOUS
  <2> QED
    BY <2>1, <2>2
<1> HIDE DEF limit, ticks
<1>3. /\ new.sn = sock[s].sn /\ new.status = "established"
      /\ new.package = half /\ new.who = sock[s].who
      /\ new.readable = sock[s].readable
      /\ new.pending_ticks = sock[s].pending_ticks
      /\ new.package_ticks = ticks
      /\ new.writable = sock[s].writable /\ new.iov_num = sock[s].iov_num
      /\ new \in SocketType
  <2>1. sock[s] \in SocketType
    BY <1>0 DEF CoreTypes
  <2>2. new \in SocketType
    BY <1>2, <2>1 DEF SocketType
  <2> QED
    BY <2>1, <2>2 DEF SocketType
<1> HIDE DEF new
<1>4. Live(s) /\ SocketOK(s)
  BY <1>0, Fields DEF SocketsOK
<1>5. \A t \in Slots : Live(t)' <=> Live(t)
  BY <1>1, <1>3 DEF Live
<1>6. /\ Free' = Free /\ Pending' = Pending /\ Established' = Established
      /\ Readable' = Readable
      /\ Buffered' = IF half > 0 THEN (Buffered \ {s}) \union {s}
                                 ELSE Buffered \ {s}
      /\ {t \in Slots : Live(t)'} = {t \in Slots : Live(t)}
  <2>1. Free' = Free /\ {t \in Slots : Live(t)'} = {t \in Slots : Live(t)}
    BY <1>5 DEF Free
  <2>2. Pending' = Pending
    BY <1>1, <1>3 DEF Pending
  <2>3. Established' = Established
    BY <1>1, <1>3 DEF Established
  <2>4. Readable' = Readable
    BY <1>1, <1>3 DEF Readable
  <2>5. Buffered' = IF half > 0 THEN (Buffered \ {s}) \union {s}
                                ELSE Buffered \ {s}
    BY <1>1, <1>3 DEF Buffered
  <2> QED
    BY <2>1, <2>2, <2>3, <2>4, <2>5
<1>7. /\ list \in Seq(Slots) /\ Links(list, Buffered \ {s})
      /\ Sorted(list, PackageTicks)
      /\ Len(list) = Len(g_package_socket_list)
                       - (IF sock[s].package > 0 THEN 1 ELSE 0)
  <2>1. /\ g_package_socket_list \in Seq(Slots)
        /\ Links(g_package_socket_list, Buffered)
        /\ Sorted(g_package_socket_list, PackageTicks)
    BY <1>0 DEF CoreTypes, Lists, Ticking
  <2>2. CASE sock[s].package > 0
    <3>1. s \in Buffered
      BY <2>2 DEF Buffered
    <3> QED
      BY <2>1, <2>2, <3>1, UnlinkLinks, UnlinkKeepsOrder, SortedUnlink
  <2>3. CASE ~(sock[s].package > 0)
    <3>1. Buffered \ {s} = Buffered
      BY <2>3 DEF Buffered
    <3>2. Len(g_package_socket_list) - 0 = Len(g_package_socket_list)
      BY <2>1
    <3> QED
      BY <2>1, <2>3, <3>1, <3>2
  <2> QED
    BY <2>2, <2>3
<1>8. /\ \A t \in Slots : /\ PackageTicks[t] = sock[t].package_ticks
                          /\ PackageTicks'[t] = sock'[t].package_ticks
      /\ \A t \in Buffered \ {s} : PackageTicks'[t] = PackageTicks[t]
  <2>1. \A t \in Slots : /\ PackageTicks[t] = sock[t].package_ticks
                         /\ PackageTicks'[t] = sock'[t].package_ticks
    BY DEF PackageTicks
  <2>2. Buffered \ {s} \subseteq Slots \ {s}
    BY DEF Buffered
  <2>3. ASSUME NEW t \in Buffered \ {s}
        PROVE  PackageTicks'[t] = PackageTicks[t]
    <3>1. t \in Slots /\ sock'[t] = sock[t]
      BY <2>2, <1>1
    <3>2. sock'[t].package_ticks = sock[t].package_ticks
      BY <3>1
    <3> QED
      BY <2>1, <3>1, <3>2, Zenon
  <2> QED
    BY <2>1, <2>3
<1>9. Sorted(list, PackageTicks')
  BY <1>7, <1>8, SortedSame
<1>10. \A t \in Buffered \ {s} : sock'[t].package_ticks <= limit
  <2>1. Buffered \subseteq Slots
    BY DEF Buffered
  <2> QED
    BY <2>1, <1>0, <1>1 DEF Ticking, limit
<1> DEFINE Done == /\ g_package_socket_list' \in Seq(Slots)
                   /\ Links(g_package_socket_list', Buffered')
                   /\ Sorted(g_package_socket_list', PackageTicks')
                   /\ Len(g_package_socket_list') = Len(list) + half
                   /\ \A t \in Buffered' : sock'[t].package_ticks <= limit
<1>11. ASSUME half > 0 PROVE Done
  <2>1. /\ g_package_socket_list' = Append(list, s)
        /\ PackageTicks'[s] = limit /\ sock'[s].package_ticks = limit
        /\ Buffered' = (Buffered \ {s}) \union {s}
    BY <1>1, <1>3, <1>6, <1>11 DEF PackageTicks, ticks
  <2>2. \A t \in Buffered \ {s} : PackageTicks'[t] <= PackageTicks'[s]
    <3>1. Buffered \ {s} \subseteq Slots
      BY DEF Buffered
    <3> QED
      BY <2>1, <3>1, <1>8, <1>10
  <2>3. /\ g_package_socket_list' \in Seq(Slots)
        /\ Len(g_package_socket_list') = Len(list) + half
        /\ Links(g_package_socket_list', Buffered')
    <3>1. half = 1 /\ s \in Slots \ (Buffered \ {s})
      BY <1>11
    <3> QED
      BY <2>1, <3>1, <1>7, AppendLinks
  <2>4. Sorted(g_package_socket_list', PackageTicks')
    BY <2>1, <2>2, <1>7, <1>9, SortedAppend
  <2>5. \A t \in Buffered' : sock'[t].package_ticks <= limit
    <3>1. limit <= limit
      BY <1>2
    <3> QED
      BY <2>1, <3>1, <1>10
  <2> QED
    BY <2>3, <2>4, <2>5
<1>12. ASSUME half = 0 PROVE Done
  <2>1. g_package_socket_list' = list /\ Buffered' = Buffered \ {s}
    BY <1>6, <1>12
  <2>2. Len(list) = Len(list) + half
    BY <1>7, <1>12
  <2> QED
    BY <2>1, <2>2, <1>7, <1>9, <1>10
<1>13. Done
  <2>1. half = 0 \/ half > 0
    OBVIOUS
  <2> HIDE DEF Done
  <2> QED
    BY <2>1, <1>11, <1>12
<1>14. /\ pool'.sn = pool.sn /\ pool'.unused = pool.unused
       /\ pool'.packages =
            pool.packages + (IF sock[s].package > 0 THEN 1 ELSE 0) - half
       /\ pool' \in [sn : Nat, unused : Seq(Slots), used : Int, packages : Nat]
  <2>1. /\ pool.packages \in Nat
        /\ pool.packages + (IF sock[s].package > 0 THEN 1 ELSE 0) - half \in Nat
    BY <1>0 DEF CoreTypes
  <2> QED
    BY <2>1, <1>0 DEF CoreTypes
<1>15. CoreTypes'
  <2>1. sock' \in [Slots -> SocketType]
    BY <1>0, <1>1, <1>3 DEF CoreTypes
  <2> QED
    BY <2>1, <1>0, <1>13, <1>14 DEF CoreTypes
<1>16. \A t \in Slots : /\ sock'[t].who = sock[t].who
                        /\ sock'[t].pending_ticks = sock[t].pending_ticks
  BY <1>1, <1>3
<1>17. SocketsOK'
  <2>1. \A t \in Slots : SocketOK(t)'
    <3> TAKE t \in Slots
    <3>1. CASE t = s
      BY <3>1, <1>1, <1>3, <1>4, <1>5, <1>14 DEF SocketOK
    <3>2. CASE t # s
      BY <3>2, <1>0, <1>1, <1>5, <1>14 DEF SocketsOK, SocketOK
    <3> QED
      BY <3>1, <3>2
  <2> QED
    BY <2>1, <1>0, <1>5, <1>16 DEF SocketsOK
<1>18. Lists'
  BY <1>0, <1>6, <1>13, <1>14 DEF Lists
<1>19. Buffers'
  <2>1. /\ pool.packages \in Nat /\ Len(g_package_socket_list) \in Nat
        /\ half \in Nat
    BY <1>0 DEF CoreTypes
  <2>2. pool.packages + Len(g_package_socket_list) = PackageConnections
    BY <1>0 DEF Buffers
  <2>3. PICK f \in 0 .. 1 :
          /\ Len(list) = Len(g_package_socket_list) - f
          /\ pool'.packages = pool.packages + f - half
    BY <1>7, <1>14
  <2>4. Len(g_package_socket_list') = Len(list) + half
    BY <1>13
  <2> QED
    BY <2>1, <2>2, <2>3, <2>4 DEF Buffers
<1>20. Ticking'
  <2>1. PendingTicks' = PendingTicks
    BY <1>16 DEF PendingTicks
  <2>2. Pending \subseteq Slots
    BY DEF Pending
  <2>3. limit' = limit
    BY DEF limit
  <2> QED
    BY <2>1, <2>2, <2>3, <1>0, <1>6, <1>13, <1>16 DEF Ticking, limit
<1>21. Owned'
  <2>1. Established \subseteq Slots
    BY DEF Established
  <2>2. {sock'[t].who : t \in Established'} = {sock[t].who : t \in Established}
    BY <2>1, <1>6, <1>16
  <2>3. {sock'[t].who : t \in {v \in Slots : Live(v)'}}
          = {sock[t].who : t \in {v \in Slots : Live(v)}}
    BY <1>6, <1>16
  <2> QED
    BY <2>2, <2>3, <1>0 DEF Owned
<1>22. \A t \in Slots : /\ sock'[t].sn = sock[t].sn
                        /\ sock'[t].who = sock[t].who
                        /\ sock'[t].status = sock[t].status
                        /\ sock'[t].readable = sock[t].readable
                        /\ sock'[t].writable = sock[t].writable
                        /\ sock'[t].iov_num = sock[t].iov_num
                        /\ t # s => sock'[t] = sock[t]
  BY <1>1, <1>3
<1>23. pool'.used = pool.used
  BY <1>0 DEF CoreTypes
<1> QED
  BY <1>1, <1>3, <1>14, <1>15, <1>17, <1>18, <1>19, <1>20, <1>21, <1>22, <1>23
     DEF Core

(* epoll_wait has reported the sockets with an event, and the timer fd has *)
(* been read.                                                              *)
LEMMA PollKeeps ==
  ASSUME Core, readable_list = <<>>, NEW ready, listen_edge \in BOOLEAN,
         ready = {SlotOf(c) : c \in edges}
                   \union (IF listen_edge THEN {Listen} ELSE {}),
         readable_list' \in OrdersOf(ready),
         sock' = [s \in Slots |->
                    IF s \in ready THEN [sock[s] EXCEPT !.readable = TRUE]
                                   ELSE sock[s]],
         listen_readable' = (listen_readable \/ listen_edge),
         edges' = {}, expired \in Nat, g_cur_ticks' = g_cur_ticks + expired,
         UNCHANGED <<pool, g_pending_socket_list, g_package_socket_list, open,
                     accepted>>
  PROVE  /\ Core'
         /\ \A s \in Slots : s \in Established /\ sock[s].who \in edges
                               => sock'[s].readable
         /\ listen_edge => listen_readable'
         /\ \A s \in Slots : /\ sock'[s].sn = sock[s].sn
                             /\ sock'[s].who = sock[s].who
                             /\ sock'[s].status = sock[s].status
                             /\ sock'[s].writable = sock[s].writable
                             /\ sock'[s].iov_num = sock[s].iov_num
                             /\ sock'[s].package = sock[s].package
<1>0. CoreTypes /\ SocketsOK /\ Lists /\ Buffers /\ Ticking /\ Owned
  BY DEF Core
<1>1. Readable = {} /\ ~listen_readable /\ \A s \in Slots : ~sock[s].readable
  <2>1. Readable = {}
    <3>1. /\ readable_list \in Seq(Slots \union {Listen})
          /\ Links(readable_list, Readable)
      BY <1>0 DEF CoreTypes, Lists
    <3> QED
      BY <3>1, Entry
  <2> QED
    BY <2>1 DEF Readable
<1>2. \A c \in edges : SlotOf(c) \in Established /\ sock[SlotOf(c)].who = c
  <2> TAKE c \in edges
  <2>1. PICK s \in Established : sock[s].who = c
    BY <1>0 DEF Owned
  <2>2. s \in Slots /\ sock[s].status = "established"
    BY <2>1 DEF Established
  <2>3. Live(s) /\ c # 0
    BY <2>1, <2>2, <1>0, Fields, Constants DEF Clients
  <2>4. SlotOf(c) \in Slots /\ sock[SlotOf(c)].who = c
    BY <2>1, <2>2 DEF SlotOf
  <2>5. Live(SlotOf(c))
    BY <2>3, <2>4, <1>0, Fields
  <2>6. SlotOf(c) = s
    BY <2>1, <2>2, <2>3, <2>4, <2>5, <1>0 DEF SocketsOK
  <2> QED
    BY <2>1, <2>6
<1>3. \A s \in Slots : s \in Established /\ sock[s].who \in edges => s \in ready
  <2> TAKE s \in Slots
  <2> SUFFICES ASSUME s \in Established, sock[s].who \in edges PROVE s \in ready
    OBVIOUS
  <2> DEFINE c == sock[s].who
             t == SlotOf(c)
  <2>1. t \in Established /\ sock[t].who = c
    BY <1>2
  <2>2. t \in Slots /\ Live(t) /\ Live(s)
    BY <2>1, <1>0, Fields DEF Established
  <2>3. t = s
    BY <2>1, <2>2, <1>0 DEF SocketsOK
  <2> QED
    BY <2>3
<1>4. ready \subseteq Established \union {Listen} /\ (Listen \in ready <=> listen_edge)
  <2>1. Listen \notin Established
    BY Constants DEF Established
  <2> QED
    BY <1>2, <2>1
<1>5. /\ IsFiniteSet(ready) /\ ready \subseteq Slots \union {Listen}
  <2>1. ready \subseteq 0 .. Connections
    BY <1>4, Constants DEF Established, Slots, Listen
  <2>2. IsFiniteSet(0 .. Connections)
    <3>1. 0 \in Int /\ Connections \in Int
      BY Constants
    <3> QED
      BY <3>1, FS_Interval
  <2>3. ready \subseteq Slots \union {Listen}
    BY <1>4 DEF Established
  <2> QED
    BY <2>1, <2>2, <2>3, FS_Subset
<1>6. /\ readable_list' \in Seq(Slots \union {Listen})
      /\ Links(readable_list', ready)
  BY <1>5, OrderLinks
<1>7. \A s \in Slots : /\ sock[s] \in SocketType
                       /\ sock'[s] = IF s \in ready
                                     THEN [sock[s] EXCEPT !.readable = TRUE]
                                     ELSE sock[s]
  BY <1>0 DEF CoreTypes
<1>8. \A s \in Slots : /\ sock'[s].sn = sock[s].sn
                       /\ sock'[s].who = sock[s].who
                       /\ sock'[s].status = sock[s].status
                       /\ sock'[s].writable = sock[s].writable
                       /\ sock'[s].iov_num = sock[s].iov_num
                       /\ sock'[s].package = sock[s].package
                       /\ sock'[s].pending_ticks = sock[s].pending_ticks
                       /\ sock'[s].package_ticks = sock[s].package_ticks
                       /\ sock'[s].readable <=> s \in ready
                       /\ s \notin ready => sock'[s] = sock[s]
                       /\ sock'[s] \in SocketType
  <2> TAKE s \in Slots
  <2>1. CASE s \in ready
    <3>1. sock'[s] = [sock[s] EXCEPT !.readable = TRUE]
      BY <2>1, <1>7
    <3>2. sock[s] \in SocketType
      BY <1>7
    <3> QED
      BY <2>1, <3>1, <3>2 DEF SocketType
  <2>2. CASE s \notin ready
    BY <2>2, <1>1, <1>7
  <2> QED
    BY <2>1, <2>2
<1>9. \A s \in Slots : Live(s)' <=> Live(s)
  BY <1>8 DEF Live
<1>10. /\ Free' = Free /\ Pending' = Pending /\ Established' = Established
       /\ Buffered' = Buffered
       /\ {t \in Slots : Live(t)'} = {t \in Slots : Live(t)}
  BY <1>8, <1>9 DEF Free, Pending, Established, Buffered
<1>11. Readable' = ready
  <2>1. (listen_readable' <=> Listen \in ready)
    BY <1>1, <1>4
  <2>2. {s \in Slots : sock'[s].readable} = {s \in Slots : s \in ready}
    BY <1>8
  <2> QED
    BY <2>1, <2>2, <1>5 DEF Readable
<1>12. CoreTypes'
  <2>1. sock' \in [Slots -> SocketType]
    BY <1>8
  <2>2. g_cur_ticks' \in Nat /\ listen_readable' \in BOOLEAN
    BY <1>0 DEF CoreTypes
  <2> QED
    BY <2>1, <2>2, <1>0, <1>6 DEF CoreTypes
<1>13. SocketsOK'
  <2>1. \A s \in Slots : SocketOK(s)'
    <3> TAKE s \in Slots
    <3>1. SocketOK(s)
      BY <1>0 DEF SocketsOK
    <3>2. s \in ready => sock[s].status = "established"
      BY <1>4, Constants DEF Established
    <3>3. ~Live(s) => sock'[s] = Unused
      BY <3>1, <3>2, <1>0, <1>8, Fields DEF SocketOK
    <3> QED
      BY <3>1, <3>2, <3>3, <1>8, <1>9 DEF SocketOK
  <2> QED
    BY <2>1, <1>0, <1>8, <1>9 DEF SocketsOK
<1>14. Lists' /\ Buffers'
  BY <1>0, <1>6, <1>10, <1>11 DEF Lists, Buffers
<1>15. Ticking'
  <2>1. PendingTicks' = PendingTicks /\ PackageTicks' = PackageTicks
    BY <1>8 DEF PendingTicks, PackageTicks
  <2>2. \A s \in Pending' : /\ sock'[s].pending_ticks = sock[s].pending_ticks
                            /\ s \in Pending /\ sock[s].pending_ticks \in Nat
    BY <1>7, <1>8, <1>10 DEF Pending, SocketType
  <2>3. \A s \in Buffered' : /\ sock'[s].package_ticks = sock[s].package_ticks
                             /\ s \in Buffered /\ sock[s].package_ticks \in Nat
    BY <1>7, <1>8, <1>10 DEF Buffered, SocketType
  <2>4. /\ g_cur_ticks \in Nat
        /\ AcceptTicksLimit \in Nat /\ PackageTicksLimit \in Nat
    BY <1>0, Constants DEF CoreTypes
  <2>5. \A s \in Pending' :
          sock'[s].pending_ticks <= (g_cur_ticks + AcceptTicksLimit)'
    <3>1. \A s \in Pending : sock[s].pending_ticks <= g_cur_ticks + AcceptTicksLimit
      BY <1>0 DEF Ticking
    <3> QED
      BY <2>2, <2>4, <3>1
  <2>6. \A s \in Buffered' :
          sock'[s].package_ticks <= (g_cur_ticks + PackageTicksLimit)'
    <3>1. \A s \in Buffered : sock[s].package_ticks <= g_cur_ticks + PackageTicksLimit
      BY <1>0 DEF Ticking
    <3> QED
      BY <2>3, <2>4, <3>1
  <2> QED
    BY <2>1, <2>5, <2>6, <1>0 DEF Ticking
<1>16. Owned'
  <2>1. {sock'[t].who : t \in {v \in Slots : Live(v)'}}
          = {sock[t].who : t \in {v \in Slots : Live(v)}}
    BY <1>8, <1>10
  <2> QED
    BY <2>1, <1>0 DEF Owned
<1>17. /\ \A s \in Slots : s \in Established /\ sock[s].who \in edges
                             => sock'[s].readable
       /\ listen_edge => listen_readable'
  BY <1>3, <1>8
<1> QED
  BY <1>8, <1>12, <1>13, <1>14, <1>15, <1>16, <1>17 DEF Core
=============================================================================
