--------------------------- MODULE TlibcTimerProofs --------------------------
(***************************************************************************)
(* Every timer fires in its tick, on a wheel of any size.                  *)
(***************************************************************************)
EXTENDS TlibcTimer, TLAPS

(* The tick that is being carried out, or else the next one.               *)
Now == IF phase = "out" THEN jiffies ELSE jiffies - 1

(* The ticks for which a timer may be in the first vector.  One more than  *)
(* it has slots, if a callback may push into the slot that is drained.     *)
Reach == IF phase = "out" \/ TVR_SIZE - 1 \notin CallbackDelays
         THEN TVR_SIZE ELSE TVR_SIZE + 1

(* A slot of the first vector holds the timers of one tick.                *)
Near(s, d, from, n) == d \in from .. from + n - 1 /\ s = <<0, d % TVR_SIZE>>

(* A slot of another vector stands for a range of Unit(k) ticks that has   *)
(* not begun at tick j: q counts these ranges from 0.                      *)
Far(s, d, j) ==
  \E k \in 1 .. 4 : \E q \in 0 .. d :
    /\ s = <<k, q % TVN_SIZE>>
    /\ Unit(k) * q <= d
    /\ j <= Unit(k) * q
    /\ Unit(k) * q < j + Unit(k) * TVN_SIZE

Placed(t) == \/ slot[t] = Idle /\ due[t] = -1
             \/ Near(slot[t], due[t], Now, Reach)
             \/ Far(slot[t], due[t], jiffies) /\ due[t] = expires[t]

TypeOK == /\ jiffies \in Nat
          /\ phase \in {"out", "drain", "callback"}
          /\ expires \in [Timers -> Nat]
          /\ due \in [Timers -> Int]
          /\ slot \in [Timers -> Slots \cup {Idle}]

IInv == /\ TypeOK
        /\ phase # "out" => jiffies > 0
        /\ \A t \in Timers : Placed(t)

-----------------------------------------------------------------------------
LEMMA DivMod ==
  ASSUME NEW a \in Int, NEW b \in Nat \ {0}
  PROVE  /\ a \div b \in Int
         /\ a % b \in 0 .. b - 1
         /\ a = b * (a \div b) + (a % b)
OBVIOUS

LEMMA TimesMonotone ==
  ASSUME NEW a \in Int, NEW b \in Int, NEW c \in Nat, a <= b
  PROVE  c * a <= c * b
OBVIOUS

LEMMA TimesSum ==
  ASSUME NEW a \in Int, NEW b \in Int, NEW c \in Nat
  PROVE  /\ c * a \in Int /\ c * b \in Int
         /\ c * (a + b) = c * a + c * b
OBVIOUS

(* Numbers less than m apart are told apart by their residue.              *)
LEMMA SameResidue ==
  ASSUME NEW m \in Nat \ {0}, NEW p \in Int, NEW q \in Int,
         p <= q, q < p + m, q % m = p % m
  PROVE  q = p
<1> DEFINE e == (q \div m) - (p \div m)
<1>1. e \in Int /\ q - p = m * e
  BY DivMod
<1>2. ~(e >= 1)
  <2> HIDE DEF e
  <2> QED BY <1>1, TimesMonotone
<1>3. ~(e <= -1)
  BY <1>1
<1>4. e = 0
  <2> HIDE DEF e
  <2> QED BY <1>1, <1>2, <1>3
<1> QED BY <1>1, <1>4

LEMMA NextRound ==
  ASSUME NEW m \in Nat \ {0}, NEW a \in Int
  PROVE  (a + m) % m = a % m
<1> DEFINE e == ((a + m) \div m) - (a \div m) - 1
           r == (a % m) - ((a + m) % m)
<1>1. /\ a \div m \in Int /\ a % m \in 0 .. m - 1
      /\ a = m * (a \div m) + (a % m)
  OBVIOUS
<1>2. /\ (a + m) \div m \in Int /\ (a + m) % m \in 0 .. m - 1
      /\ a + m = m * ((a + m) \div m) + ((a + m) % m)
  <2> DEFINE b == a + m
  <2>1. b \in Int
    OBVIOUS
  <2> HIDE DEF b
  <2>2. b \div m \in Int /\ b % m \in 0 .. m - 1 /\ b = m * (b \div m) + (b % m)
    BY <2>1
  <2> QED BY <2>2 DEF b
<1>3. e \in Int /\ r \in Int /\ m * e = r /\ r < m /\ -m < r
  BY <1>1, <1>2
<1> HIDE DEF e
<1>4. ~(e >= 1)
  <2>1. e >= 1 => m * 1 <= m * e
    BY <1>3, TimesMonotone
  <2> HIDE DEF r
  <2> QED BY <1>3, <2>1
<1>5. ~(e <= -1)
  <2>1. e <= -1 => m * e <= m * (-1)
    BY <1>3, TimesMonotone
  <2> HIDE DEF r
  <2> QED BY <1>3, <2>1
<1>6. r = 0
  BY <1>3, <1>4, <1>5
<1> QED
  BY <1>1, <1>2, <1>6

LEMMA UnitStep ==
  /\ \A k \in Vectors : Unit(k) \in Nat \ {0} /\ Size(k) \in Nat \ {0, 1}
  /\ Unit(0) = 1
  /\ \A k \in 0 .. 3 : Unit(k + 1) = Unit(k) * Size(k)
<1>1. Unit(0) = 1 /\ Unit(1) = TVR_SIZE /\ Unit(2) = TVR_SIZE * TVN_SIZE
      /\ Unit(3) = TVR_SIZE * TVN_SIZE * TVN_SIZE
      /\ Unit(4) = TVR_SIZE * TVN_SIZE * TVN_SIZE * TVN_SIZE
  BY DEF Unit
<1>2. \A a, b \in Nat \ {0} : a * b \in Nat \ {0}
  OBVIOUS
<1>3. Unit(0) \in Nat \ {0} /\ Unit(1) \in Nat \ {0}
  BY <1>1, TlibcTimerAssumption
<1>4. Unit(2) = Unit(1) * TVN_SIZE /\ Unit(3) = Unit(2) * TVN_SIZE
      /\ Unit(4) = Unit(3) * TVN_SIZE
  BY <1>1
<1>5. Unit(2) \in Nat \ {0}
  BY <1>2, <1>3, <1>4, TlibcTimerAssumption
<1>6. Unit(3) \in Nat \ {0}
  BY <1>2, <1>4, <1>5, TlibcTimerAssumption
<1>7. Unit(4) \in Nat \ {0}
  BY <1>2, <1>4, <1>6, TlibcTimerAssumption
<1>8. Size(0) = TVR_SIZE /\ \A k \in 1 .. 4 : Size(k) = TVN_SIZE
  BY DEF Size
<1>9. Unit(1) = Unit(0) * Size(0)
  BY <1>1, <1>8, TlibcTimerAssumption
<1> QED
  BY <1>1, <1>3, <1>4, <1>5, <1>6, <1>7, <1>8, <1>9, TlibcTimerAssumption
     DEF Vectors

(* The vector chosen for a distance reaches that far, and is the first.    *)
LEMMA VectorReaches ==
  ASSUME NEW distance \in Nat
  PROVE  /\ Vector(distance) \in Vectors
         /\ Vector(distance) = 4 \/ distance < Unit(Vector(distance) + 1)
         /\ Vector(distance) = 0 \/ distance >= Unit(Vector(distance))
<1> DEFINE Fits(k) == k = 4 \/ distance < Unit(k + 1)
           First(k) == Fits(k) /\ \A l \in Vectors : l < k => distance >= Unit(l + 1)
<1>1. \E k \in Vectors : First(k)
  <2>1. \A k \in 0 .. 3 : Fits(k) \/ distance >= Unit(k + 1)
    BY UnitStep DEF Vectors
  <2>2. Fits(4)
    OBVIOUS
  <2> HIDE DEF Fits
  <2>3. CASE Fits(0)
    BY <2>3 DEF Vectors
  <2>4. CASE ~Fits(0) /\ Fits(1)
    BY <2>1, <2>4 DEF Vectors
  <2>5. CASE ~Fits(0) /\ ~Fits(1) /\ Fits(2)
    BY <2>1, <2>5 DEF Vectors
  <2>6. CASE ~Fits(0) /\ ~Fits(1) /\ ~Fits(2) /\ Fits(3)
    BY <2>1, <2>6 DEF Vectors
  <2>7. CASE ~Fits(0) /\ ~Fits(1) /\ ~Fits(2) /\ ~Fits(3)
    BY <2>1, <2>2, <2>7 DEF Vectors
  <2> QED
    BY <2>3, <2>4, <2>5, <2>6, <2>7
<1>2. Vector(distance) = CHOOSE k \in Vectors : First(k)
  BY DEF Vector
<1>3. Vector(distance) \in Vectors /\ First(Vector(distance))
  <2> HIDE DEF First
  <2> QED BY <1>1, <1>2
<1>4. Vector(distance) # 0 =>
        /\ Vector(distance) - 1 \in Vectors
        /\ Vector(distance) - 1 < Vector(distance)
        /\ (Vector(distance) - 1) + 1 = Vector(distance)
  BY <1>3 DEF Vectors
<1> QED
  BY <1>3, <1>4

(* Where tlibc_timer_push puts a timer that is to fire at tick d: in the    *)
(* slot of that tick, or in one whose ticks have not begun, not even at    *)
(* the next tick.                                                          *)
LEMMA PushPlaces ==
  ASSUME NEW exp \in Nat, jiffies \in Nat
  PROVE  LET d == IF exp > jiffies THEN exp ELSE jiffies
         IN  \/ /\ Near(PushSlot(exp), d, jiffies, TVR_SIZE)
                /\ d - jiffies = TVR_SIZE - 1 => exp - jiffies = TVR_SIZE - 1
             \/ /\ exp = d
                /\ Far(PushSlot(exp), d, jiffies)
                /\ Far(PushSlot(exp), d, jiffies + 1)
<1>1. CASE exp <= jiffies
  <2>1. PushSlot(exp) = <<0, jiffies % TVR_SIZE>>
    <3>1. jiffies \div 1 = jiffies
      OBVIOUS
    <3> QED BY <1>1, <3>1, UnitStep DEF PushSlot, Index, Size
  <2> QED
    BY <1>1, <2>1, TlibcTimerAssumption DEF Near
<1>2. CASE exp > jiffies
  <2> DEFINE k == Vector(exp - jiffies)
             e == IF exp - jiffies > MaxTval THEN jiffies + MaxTval ELSE exp
             q == e \div Unit(k)
  <2>1. PushSlot(exp) = <<k, q % Size(k)>>
    BY <1>2 DEF PushSlot, Index
  <2>2. /\ k \in Vectors
        /\ k = 4 \/ exp - jiffies < Unit(k + 1)
        /\ k = 0 \/ exp - jiffies >= Unit(k)
    BY <1>2, VectorReaches
  <2>3. Unit(4) \in Nat \ {0} /\ Unit(k) \in Nat \ {0} /\ Size(k) \in Nat \ {0, 1}
    BY <2>2, UnitStep DEF Vectors
  <2>4. \A l \in 0 .. 3 : Unit(l + 1) <= Unit(4)
    <3>1. \A l \in 0 .. 3 : Unit(l) <= Unit(l + 1)
      <4> TAKE l \in 0 .. 3
      <4>1. Unit(l) \in Nat /\ Size(l) \in Nat /\ 1 <= Size(l)
            /\ Unit(l + 1) = Unit(l) * Size(l)
        BY UnitStep DEF Vectors
      <4>2. Unit(l) * 1 <= Unit(l) * Size(l)
        BY <4>1, TimesMonotone
      <4> QED BY <4>1, <4>2
    <3>2. Unit(1) <= Unit(2) /\ Unit(2) <= Unit(3) /\ Unit(3) <= Unit(4)
      BY <3>1
    <3>3. Unit(1) \in Nat /\ Unit(2) \in Nat /\ Unit(3) \in Nat
      BY UnitStep DEF Vectors
    <3> QED BY <2>3, <3>2, <3>3
  <2>5. MaxTval \in Nat /\ MaxTval = Unit(4) * TVN_SIZE - 1 /\ Unit(4) <= MaxTval
    <3>1. MaxTval = Unit(4) * TVN_SIZE - 1
      BY DEF MaxTval, Size
    <3>2. Unit(4) * 2 <= Unit(4) * TVN_SIZE
      BY <2>3, TlibcTimerAssumption, TimesMonotone
    <3>3. Unit(4) * TVN_SIZE \in Nat
      BY <2>3, TlibcTimerAssumption
    <3> QED BY <2>3, <3>1, <3>2, <3>3
  <2>6. e \in Nat /\ jiffies < e /\ e <= exp
    BY <1>2, <2>3, <2>5
  (* The distance that is used fits the vector, in the last one too.       *)
  <2>7. e - jiffies < Unit(k) * Size(k)
    <3>1. CASE k = 4
      BY <1>2, <2>3, <2>5, <3>1 DEF Size
    <3>2. CASE k # 4
      <4>1. exp - jiffies < Unit(k + 1) /\ Unit(k + 1) = Unit(k) * Size(k)
        BY <2>2, <3>2, UnitStep DEF Vectors
      <4>2. Unit(k) * Size(k) \in Int
        BY <2>3
      <4> QED BY <2>6, <4>1, <4>2
    <3> QED BY <3>1, <3>2
  <2>8. /\ q \in Int
        /\ Unit(k) * q <= e
        /\ e < Unit(k) * q + Unit(k)
    <3>1. /\ q \in Int
          /\ e % Unit(k) \in 0 .. Unit(k) - 1
          /\ e = Unit(k) * q + (e % Unit(k))
      <4>1. e \in Int /\ Unit(k) \in Nat \ {0}
        BY <2>3, <2>6
      <4> HIDE DEF e, k
      <4> QED BY <4>1
    <3>2. Unit(k) * q \in Int
      BY <2>3, <3>1
    <3> HIDE DEF q, e
    <3> QED BY <2>3, <2>6, <3>1, <3>2
  <2>9. CASE k = 0
    <3>1. Unit(k) = 1 /\ Size(k) = TVR_SIZE
      BY <2>9, UnitStep DEF Size
    <3>2. exp - jiffies < TVR_SIZE
      BY <2>2, <2>9, <3>1, UnitStep, TlibcTimerAssumption DEF Vectors
    <3>3. e = exp
      <4>1. exp - jiffies < Unit(1)
        BY <2>2, <2>9
      <4>2. Unit(1) <= Unit(4)
        BY <2>4
      <4>3. Unit(1) \in Nat
        BY UnitStep DEF Vectors
      <4> QED BY <2>3, <2>5, <4>1, <4>2, <4>3
    <3>4. q = exp
      BY <2>8, <3>1, <3>3
    <3>5. PushSlot(exp) = <<0, exp % TVR_SIZE>>
      BY <2>1, <2>9, <3>1, <3>4
    <3> QED
      BY <1>2, <3>2, <3>5, TlibcTimerAssumption DEF Near
  <2>10. CASE k # 0
    <3>1. k \in 1 .. 4 /\ Size(k) = TVN_SIZE
      BY <2>2, <2>10 DEF Vectors, Size
    <3>2. Unit(k) <= e - jiffies
      <4>1. CASE exp - jiffies > MaxTval
        <5>1. e - jiffies = MaxTval
          BY <2>5, <4>1
        <5>2. Unit(k) <= Unit(4)
          <6>1. k = 4 \/ k \in {1, 2, 3}
            BY <3>1
          <6>2. (0 + 1 = 1) /\ (1 + 1 = 2) /\ (2 + 1 = 3)
            OBVIOUS
          <6> QED BY <2>3, <2>4, <6>1, <6>2
        <5> QED BY <2>3, <2>5, <5>1, <5>2
      <4>2. CASE ~(exp - jiffies > MaxTval)
        BY <2>2, <2>10, <4>2
      <4> QED BY <4>1, <4>2
    <3>3. jiffies + 1 <= Unit(k) * q
      <4>1. Unit(k) * q \in Int
        BY <2>3, <2>8
      <4> HIDE DEF q, e
      <4> QED BY <2>3, <2>6, <2>8, <3>2, <4>1
    <3>4. q \in 0 .. exp
      <4>1. q >= 1
        <5>1. ~(q <= 0)
          <6>1. q <= 0 => Unit(k) * q <= Unit(k) * 0
            BY <2>3, <2>8, TimesMonotone
          <6>2. Unit(k) * q \in Int /\ Unit(k) * 0 = 0
            BY <2>3, <2>8
          <6> HIDE DEF q
          <6> QED BY <3>3, <6>1, <6>2
        <5> HIDE DEF q
        <5> QED BY <2>8, <5>1
      <4>2. 1 * q <= Unit(k) * q
        <5>1. q * 1 <= q * Unit(k)
          <6> HIDE DEF q
          <6> QED BY <2>3, <2>8, <4>1, TimesMonotone
        <5>2. q * 1 = 1 * q /\ q * Unit(k) = Unit(k) * q
          BY <2>3, <2>8
        <5> QED BY <5>1, <5>2
      <4>3. Unit(k) * q \in Int
        BY <2>3, <2>8
      <4> HIDE DEF q, e
      <4> QED BY <2>6, <2>8, <4>1, <4>2, <4>3
    <3>5. /\ Unit(k) * q <= exp
          /\ Unit(k) * q < jiffies + Unit(k) * TVN_SIZE
          /\ Unit(k) * q < (jiffies + 1) + Unit(k) * TVN_SIZE
      <4>1. Unit(k) * q \in Int /\ Unit(k) * TVN_SIZE \in Int
        BY <2>3, <2>8, TlibcTimerAssumption
      <4> HIDE DEF q, e
      <4> QED BY <2>6, <2>7, <2>8, <3>1, <4>1
    <3>6. jiffies <= Unit(k) * q
      <4>1. Unit(k) * q \in Int
        BY <2>3, <2>8
      <4> HIDE DEF q
      <4> QED BY <3>3, <4>1
    <3>7. PushSlot(exp) = <<k, q % TVN_SIZE>>
      BY <2>1, <3>1
    <3> HIDE DEF q, k
    <3>8. Far(PushSlot(exp), exp, jiffies)
      BY <3>1, <3>4, <3>5, <3>6, <3>7 DEF Far
    <3>9. Far(PushSlot(exp), exp, jiffies + 1)
      BY <3>1, <3>3, <3>4, <3>5, <3>7 DEF Far
    <3> QED
      BY <1>2, <3>8, <3>9
  <2> QED
    BY <2>9, <2>10
<1> QED
  BY <1>1, <1>2

LEMMA PushSlotType ==
  ASSUME NEW exp \in Nat, jiffies \in Nat
  PROVE  PushSlot(exp) \in Slots
<1> DEFINE IsSlot(s) == \E k \in Vectors : \E i \in 0 .. Size(k) - 1 : s = <<k, i>>
<1>1. PICK d \in Nat : Near(PushSlot(exp), d, jiffies, TVR_SIZE) \/ Far(PushSlot(exp), d, jiffies)
  BY PushPlaces
<1>2. CASE Near(PushSlot(exp), d, jiffies, TVR_SIZE)
  <2>1. d % TVR_SIZE \in 0 .. Size(0) - 1
    BY DivMod, TlibcTimerAssumption DEF Size
  <2> QED BY <1>2, <2>1 DEF Near, Slots, Vectors
<1>3. CASE Far(PushSlot(exp), d, jiffies)
  <2>1. PICK k \in 1 .. 4, q \in 0 .. d : PushSlot(exp) = <<k, q % TVN_SIZE>>
    BY <1>3 DEF Far
  <2>2. q % TVN_SIZE \in 0 .. TVN_SIZE - 1 /\ Size(k) = TVN_SIZE
    BY TlibcTimerAssumption DEF Size
  <2> QED BY <2>1, <2>2 DEF Slots, Vectors
<1> QED BY <1>1, <1>2, <1>3

-----------------------------------------------------------------------------
(* In a tick, the slot that is drained holds whatever is due, and what a   *)
(* callback has pushed a whole round too far.                              *)
LEMMA DrainedIsDue ==
  ASSUME IInv, phase # "out", NEW t \in Timers
  PROVE  slot[t] = Drained <=>
           \/ due[t] = jiffies - 1
           \/ /\ Near(slot[t], due[t], Now, TVR_SIZE + 1)
              /\ due[t] = jiffies - 1 + TVR_SIZE
              /\ TVR_SIZE - 1 \in CallbackDelays
<1> DEFINE j == jiffies - 1
<1>1. jiffies \in Nat /\ jiffies > 0 /\ j \in Nat /\ Now = j /\ due[t] \in Int
  BY DEF IInv, TypeOK, Now
<1>2. Drained = <<0, j % TVR_SIZE>>
  <2>1. j \div 1 = j
    BY <1>1
  <2> QED BY <2>1, UnitStep DEF Drained, Index, Size
<1>3. Placed(t)
  BY DEF IInv
<1>4. CASE slot[t] = Idle /\ due[t] = -1
  BY <1>1, <1>2, <1>4 DEF Idle, Near
<1>5. CASE Near(slot[t], due[t], Now, Reach)
  <2>1. /\ due[t] \in j .. j + TVR_SIZE
        /\ due[t] = j + TVR_SIZE => TVR_SIZE - 1 \in CallbackDelays
        /\ slot[t] = <<0, due[t] % TVR_SIZE>>
    BY <1>1, <1>5, TlibcTimerAssumption DEF Near, Reach
  <2>2. due[t] % TVR_SIZE = j % TVR_SIZE => due[t] = j \/ due[t] = j + TVR_SIZE
    <3>1. TVR_SIZE \in Nat \ {0} /\ j \in Int /\ j <= due[t]
          /\ (due[t] # j + TVR_SIZE => due[t] < j + TVR_SIZE)
      BY <1>1, <2>1, TlibcTimerAssumption
    <3> HIDE DEF j
    <3> QED BY <1>1, <3>1, SameResidue
  <2>3. (j + TVR_SIZE) % TVR_SIZE = j % TVR_SIZE
    <3>1. TVR_SIZE \in Nat \ {0} /\ j \in Int
      BY <1>1, TlibcTimerAssumption
    <3> HIDE DEF j
    <3> QED BY ONLY <3>1, NextRound
  <2>4. Near(slot[t], due[t], Now, TVR_SIZE + 1)
    BY <1>1, <2>1, TlibcTimerAssumption DEF Near
  <2> QED
    BY <1>2, <2>1, <2>2, <2>3, <2>4
<1>6. CASE Far(slot[t], due[t], jiffies)
  <2>1. PICK k \in 1 .. 4, q \in 0 .. due[t] :
          /\ slot[t] = <<k, q % TVN_SIZE>>
          /\ Unit(k) * q <= due[t]
          /\ jiffies <= Unit(k) * q
    BY <1>6 DEF Far
  <2>2. Unit(k) * q \in Int
    BY UnitStep, <1>1 DEF Vectors
  <2>3. slot[t] # Drained
    BY <1>2, <2>1
  <2>4. due[t] # j
    BY <1>1, <2>1, <2>2
  <2>5. ~Near(slot[t], due[t], Now, TVR_SIZE + 1)
    BY <2>1 DEF Near
  <2> QED BY <2>3, <2>4, <2>5
<1> QED
  BY <1>3, <1>4, <1>5, <1>6 DEF Placed

(* A slot of vector k whose ticks have not begun is cascaded exactly when  *)
(* they do.                                                                *)
LEMMA CascadeIsTimely ==
  ASSUME NEW k \in 1 .. 4, NEW q \in Nat, jiffies \in Nat,
         jiffies <= Unit(k) * q, Unit(k) * q < jiffies + Unit(k) * TVN_SIZE
  PROVE  (Cascades(k) /\ q % TVN_SIZE = Index(k, jiffies)) <=> Unit(k) * q = jiffies
<1> DEFINE u == Unit(k)
           p == jiffies \div u
<1>1. u \in Nat \ {0} /\ TVN_SIZE \in Nat \ {0}
  BY UnitStep, TlibcTimerAssumption DEF Vectors
<1>2. /\ p \in Int /\ jiffies % u \in 0 .. u - 1
      /\ jiffies = u * p + (jiffies % u)
  <2> HIDE DEF u
  <2> QED BY <1>1
<1>3. Cascades(k) <=> jiffies % u = 0
  BY DEF Cascades
<1>4. Index(k, jiffies) = p % TVN_SIZE
  BY DEF Index, Size
<1>5. ASSUME jiffies % u = 0, q % TVN_SIZE = p % TVN_SIZE
      PROVE  u * q = jiffies
  <2>1. jiffies = u * p
    <3>1. u * p \in Int
      BY <1>1, <1>2
    <3> HIDE DEF u, p
    <3> QED BY <1>2, <1>5, <3>1
  <2>2. u * p <= u * q /\ u * q < u * p + u * TVN_SIZE
    BY <2>1
  <2>3. p <= q
    <3>1. q + 1 <= p => u * (q + 1) <= u * p
      <4> HIDE DEF u, p
      <4> QED BY <1>1, <1>2, TimesMonotone
    <3>2. u * (q + 1) = u * q + u /\ u * q \in Int /\ u * p \in Int
      <4> HIDE DEF u, p
      <4> QED BY <1>1, <1>2, TimesSum
    <3> HIDE DEF u, p
    <3> QED BY <1>1, <1>2, <2>2, <3>1, <3>2
  <2>4. q < p + TVN_SIZE
    <3>1. p + TVN_SIZE <= q => u * (p + TVN_SIZE) <= u * q
      <4> HIDE DEF u, p
      <4> QED BY <1>1, <1>2, TimesMonotone
    <3>2. u * (p + TVN_SIZE) = u * p + u * TVN_SIZE
          /\ u * q \in Int /\ u * p \in Int /\ u * TVN_SIZE \in Int
      <4> HIDE DEF u, p
      <4> QED BY <1>1, <1>2, TimesSum
    <3> HIDE DEF u, p
    <3> QED BY <1>1, <1>2, <2>2, <3>1, <3>2
  <2>5. q = p
    <3>1. p \in Int /\ p <= q /\ q < p + TVN_SIZE /\ q % TVN_SIZE = p % TVN_SIZE
      BY <1>2, <1>5, <2>3, <2>4
    <3>2. TVN_SIZE \in Nat \ {0} /\ q \in Int
      BY <1>1
    <3> HIDE DEF u, p
    <3> QED BY ONLY <3>1, <3>2, SameResidue
  <2> QED BY <2>1, <2>5
<1>6. ASSUME u * q = jiffies
      PROVE  jiffies % u = 0 /\ q = p
  <2>1. u * q = u * p + (jiffies % u)
    BY <1>2, <1>6
  <2>2. ~(q >= p + 1)
    <3>1. q >= p + 1 => u * (p + 1) <= u * q
      <4> HIDE DEF u, p
      <4> QED BY <1>1, <1>2, TimesMonotone
    <3>2. u * (p + 1) = u * p + u /\ u * q \in Int /\ u * p \in Int
      <4> HIDE DEF u, p
      <4> QED BY <1>1, <1>2, TimesSum
    <3> HIDE DEF u, p
    <3> QED BY <1>1, <1>2, <2>1, <3>1, <3>2
  <2>3. ~(q + 1 <= p)
    <3>1. q + 1 <= p => u * (q + 1) <= u * p
      <4> HIDE DEF u, p
      <4> QED BY <1>1, <1>2, TimesMonotone
    <3>2. u * (q + 1) = u * q + u /\ u * q \in Int /\ u * p \in Int
      <4> HIDE DEF u, p
      <4> QED BY <1>1, <1>2, TimesSum
    <3> HIDE DEF u, p
    <3> QED BY <1>1, <1>2, <2>1, <3>1, <3>2
  <2>4. q = p
    <3> HIDE DEF u, p
    <3> QED BY <1>2, <2>2, <2>3
  <2>5. u * q \in Int
    BY <1>1
  <2> HIDE DEF u, p
  <2> QED BY <1>1, <1>2, <2>1, <2>4, <2>5
<1> QED
  BY <1>3, <1>4, <1>5, <1>6

-----------------------------------------------------------------------------
LEMMA InitIInv == Init => IInv
BY DEF Init, IInv, TypeOK, Placed, Idle

(* A slot whose ticks have not begun at tick j + 1 has none at j either;   *)
(* the first vector is one tick further.                                   *)
LEMMA PushKeeps ==
  ASSUME IInv, NEW t \in Timers, Push(t)
  PROVE  IInv'
<1>1. PICK d \in IF phase = "out" THEN Delays ELSE CallbackDelays :
        /\ jiffies + d \in 0 .. MaxJiffies
        /\ slot' = [slot EXCEPT ![t] = PushSlot(jiffies + d)]
        /\ expires' = [expires EXCEPT ![t] = jiffies + d]
        /\ due' = [due EXCEPT ![t] = IF d > 0 THEN jiffies + d ELSE jiffies]
  BY DEF Push
<1> DEFINE exp == jiffies + d
           w   == IF d > 0 THEN exp ELSE jiffies
<1>2. /\ jiffies \in Nat /\ phase \in {"out", "drain", "callback"}
      /\ jiffies' = jiffies /\ phase' = phase
      /\ phase # "out" => jiffies > 0
  BY DEF Push, IInv, TypeOK
<1>3. d \in Int /\ exp \in Nat /\ w \in Nat
      /\ w = (IF exp > jiffies THEN exp ELSE jiffies)
      /\ (phase # "out" /\ exp - jiffies = TVR_SIZE - 1
           => TVR_SIZE - 1 \in CallbackDelays)
  BY <1>1, <1>2, TlibcTimerAssumption
<1>4. \/ /\ Near(PushSlot(exp), w, jiffies, TVR_SIZE)
         /\ w - jiffies = TVR_SIZE - 1 => exp - jiffies = TVR_SIZE - 1
      \/ exp = w /\ Far(PushSlot(exp), w, jiffies)
  <2> HIDE DEF exp, w
  <2> QED BY <1>2, <1>3, PushPlaces
<1>5. /\ Now' = Now /\ Now \in Int /\ Reach' = Reach
      /\ phase = "out" => Now = jiffies /\ Reach = TVR_SIZE
      /\ phase # "out" => Now = jiffies - 1
      /\ phase # "out" /\ TVR_SIZE - 1 \notin CallbackDelays => Reach = TVR_SIZE
      /\ phase # "out" /\ TVR_SIZE - 1 \in CallbackDelays => Reach = TVR_SIZE + 1
  BY <1>2 DEF Now, Reach
<1>6. slot'[t] = PushSlot(exp) /\ expires'[t] = exp /\ due'[t] = w
  BY <1>1 DEF IInv, TypeOK
<1>7. TypeOK'
  <2>1. PushSlot(exp) \in Slots
    <3> HIDE DEF exp
    <3> QED BY <1>2, <1>3, PushSlotType
  <2> HIDE DEF exp, w
  <2>2. /\ slot' = [slot EXCEPT ![t] = PushSlot(exp)]
        /\ expires' = [expires EXCEPT ![t] = exp]
        /\ due' = [due EXCEPT ![t] = w]
    BY <1>1 DEF exp, w
  <2> QED BY <1>2, <1>3, <2>1, <2>2 DEF IInv, TypeOK
<1>8. Placed(t)'
  <2>1. CASE Far(PushSlot(exp), w, jiffies) /\ exp = w
    <3>1. Far(slot'[t], due'[t], jiffies')
      <4> HIDE DEF exp, w
      <4> QED BY <1>2, <1>6, <2>1
    <3> QED BY <1>6, <2>1, <3>1 DEF Placed, Far
  <2>2. CASE /\ Near(PushSlot(exp), w, jiffies, TVR_SIZE)
             /\ w - jiffies = TVR_SIZE - 1 => exp - jiffies = TVR_SIZE - 1
    <3>1. w \in Now .. Now + Reach - 1
      <4> HIDE DEF exp, w
      <4> QED BY <1>2, <1>3, <1>5, <2>2, TlibcTimerAssumption DEF Near
    <3>2. PushSlot(exp) = <<0, w % TVR_SIZE>>
      <4> HIDE DEF exp, w
      <4> QED BY <2>2 DEF Near
    <3> HIDE DEF exp, w
    <3> QED BY <1>5, <1>6, <3>1, <3>2 DEF Placed, Near
  <2> QED BY <1>4, <2>1, <2>2
<1>9. ASSUME NEW s \in Timers, s # t
      PROVE  Placed(s)'
  <2>1. slot'[s] = slot[s] /\ due'[s] = due[s] /\ expires'[s] = expires[s]
    BY <1>1, <1>9 DEF IInv, TypeOK
  <2>2. Placed(s)
    BY DEF IInv
  <2> QED BY <1>2, <1>5, <2>1, <2>2 DEF Placed, Near, Far
<1> QED
  BY <1>2, <1>7, <1>8, <1>9 DEF IInv

LEMMA RemoveKeeps ==
  ASSUME IInv, NEW t \in Timers, Remove(t),
         phase' \in {"out", "drain", "callback"},
         phase' = "out" <=> phase = "out"
  PROVE  IInv'
<1>1. /\ slot' = [slot EXCEPT ![t] = Idle]
      /\ expires' = [expires EXCEPT ![t] = 0]
      /\ due' = [due EXCEPT ![t] = -1]
      /\ jiffies' = jiffies
  BY DEF Remove
<1>2. TypeOK'
  BY <1>1 DEF IInv, TypeOK
<1>3. Now' = Now /\ Reach' = Reach
  BY <1>1 DEF Now, Reach
<1>4. ASSUME NEW s \in Timers
      PROVE  Placed(s)'
  <2>1. CASE s = t
    BY <1>1, <2>1 DEF IInv, TypeOK, Placed
  <2>2. CASE s # t
    <3>1. slot'[s] = slot[s] /\ due'[s] = due[s] /\ expires'[s] = expires[s]
      BY <1>1, <2>2 DEF IInv, TypeOK
    <3>2. Placed(s)
      BY DEF IInv
    <3> QED BY <1>1, <1>3, <3>1, <3>2 DEF Placed, Near, Far
  <2> QED BY <2>1, <2>2
<1> QED
  BY <1>1, <1>2, <1>4 DEF IInv

LEMMA TickEndKeeps ==
  ASSUME IInv, TickEnd
  PROVE  IInv'
<1>1. /\ phase # "out" /\ phase' = "out"
      /\ jiffies' = jiffies /\ slot' = slot /\ expires' = expires /\ due' = due
      /\ \A t \in Timers : slot[t] # Drained
      /\ jiffies \in Nat /\ jiffies > 0
  BY DEF TickEnd, IInv, TypeOK
<1>2. /\ Now = jiffies - 1 /\ Now' = jiffies /\ Reach' = TVR_SIZE
      /\ TVR_SIZE - 1 \notin CallbackDelays => Reach = TVR_SIZE
      /\ TVR_SIZE - 1 \in CallbackDelays => Reach = TVR_SIZE + 1
  BY <1>1 DEF Now, Reach
<1>3. ASSUME NEW t \in Timers
      PROVE  Placed(t)'
  <2>1. Placed(t) /\ due[t] \in Int /\ due[t] # jiffies - 1
    BY <1>1, DrainedIsDue DEF IInv, TypeOK
  <2>4. ~(/\ Near(slot[t], due[t], Now, TVR_SIZE + 1)
          /\ due[t] = jiffies - 1 + TVR_SIZE
          /\ TVR_SIZE - 1 \in CallbackDelays)
    BY <1>1, DrainedIsDue
  <2>2. CASE Near(slot[t], due[t], Now, Reach)
    <3>1. Near(slot[t], due[t], jiffies, TVR_SIZE)
      BY <1>1, <1>2, <2>1, <2>2, <2>4, TlibcTimerAssumption DEF Near
    <3> QED BY <1>1, <1>2, <3>1 DEF Placed, Near
  <2>3. CASE ~Near(slot[t], due[t], Now, Reach)
    BY <1>1, <2>1, <2>3 DEF Placed, Far
  <2> QED BY <2>2, <2>3
<1> QED
  BY <1>1, <1>3 DEF IInv, TypeOK

(* The cascades take every timer whose ticks begin now, and put it where   *)
(* a push would.                                                           *)
LEMMA TickBeginKeeps ==
  ASSUME IInv, TickBegin
  PROVE  IInv'
<1> DEFINE Cascaded(t) == Queued(t) /\ \E k \in Vectors :
             Cascades(k) /\ slot[t] = <<k, Index(k, jiffies)>>
<1>1. /\ phase = "out" /\ phase' = "drain" /\ jiffies' = jiffies + 1
      /\ expires' = expires /\ due' = due /\ jiffies \in Nat
      /\ slot' = [t \in Timers |->
            IF Cascaded(t) THEN PushSlot(expires[t]) ELSE slot[t]]
  BY DEF TickBegin, IInv, TypeOK
<1>2. Now = jiffies /\ Now' = jiffies /\ Reach = TVR_SIZE /\ Reach' \in Nat
      /\ TVR_SIZE <= Reach' /\ TVR_SIZE \in Nat
  BY <1>1, TlibcTimerAssumption DEF Now, Reach
<1>3. TypeOK'
  <2>1. \A t \in Timers : PushSlot(expires[t]) \in Slots
    BY <1>1, PushSlotType DEF IInv, TypeOK
  <2> HIDE DEF Cascaded
  <2> QED BY <1>1, <2>1 DEF IInv, TypeOK
<1>4. ASSUME NEW t \in Timers
      PROVE  Placed(t)'
  <2>1. /\ Placed(t) /\ due[t] \in Int /\ expires[t] \in Nat
        /\ due'[t] = due[t] /\ expires'[t] = expires[t]
        /\ slot'[t] = IF Cascaded(t) THEN PushSlot(expires[t]) ELSE slot[t]
    BY <1>1 DEF IInv, TypeOK
  <2>2. CASE slot[t] = Idle /\ due[t] = -1
    BY <2>1, <2>2 DEF Placed, Queued
  <2>3. CASE Near(slot[t], due[t], Now, Reach)
    <3>1. ~Cascaded(t)
      BY <2>3 DEF Near, Cascades
    <3>2. Near(slot'[t], due'[t], Now', Reach')
      <4>1. slot'[t] = <<0, due[t] % TVR_SIZE>> /\ due'[t] = due[t]
        <5> HIDE DEF Cascaded
        <5> QED BY <2>1, <2>3, <3>1 DEF Near
      <4>2. due[t] \in jiffies .. jiffies + Reach' - 1
        <5>1. due[t] \in jiffies .. jiffies + TVR_SIZE - 1
          BY <1>2, <2>3 DEF Near
        <5> HIDE DEF Cascaded
        <5> QED BY <1>1, <1>2, <2>1, <5>1
      <4> HIDE DEF Cascaded
      <4> QED BY <1>2, <4>1, <4>2 DEF Near
    <3> QED BY <3>2 DEF Placed, Near
  <2>4. CASE Far(slot[t], due[t], jiffies) /\ due[t] = expires[t]
    <3>1. PICK k \in 1 .. 4, q \in 0 .. due[t] :
            /\ slot[t] = <<k, q % TVN_SIZE>>
            /\ Unit(k) * q <= due[t]
            /\ jiffies <= Unit(k) * q
            /\ Unit(k) * q < jiffies + Unit(k) * TVN_SIZE
      BY <2>4 DEF Far
    <3>2. /\ q \in Nat /\ Unit(k) * q \in Int /\ Unit(k) * TVN_SIZE \in Int
      <4>1. Unit(k) \in Nat /\ q \in Nat
        BY UnitStep, <2>1 DEF Vectors
      <4> QED BY <4>1, TlibcTimerAssumption
    <3>3. Cascaded(t) <=> Unit(k) * q = jiffies
      <4>1. (Cascades(k) /\ q % TVN_SIZE = Index(k, jiffies)) <=> Unit(k) * q = jiffies
        BY <1>1, <3>1, <3>2, CascadeIsTimely
      <4>2. Cascaded(t) <=> Cascades(k) /\ q % TVN_SIZE = Index(k, jiffies)
        BY <3>1 DEF Queued, Idle, Vectors
      <4> QED BY <4>1, <4>2
    <3> HIDE DEF Cascaded
    <3>4. CASE Cascaded(t)
      <4>1. jiffies <= due[t]
        BY <1>1, <2>1, <3>1, <3>2
      <4>2. \/ Near(PushSlot(due[t]), due[t], jiffies, TVR_SIZE)
            \/ Far(PushSlot(due[t]), due[t], jiffies + 1)
        <5>1. due[t] = IF due[t] > jiffies THEN due[t] ELSE jiffies
          BY <1>1, <2>1, <4>1
        <5> QED BY <1>1, <2>1, <2>4, <5>1, PushPlaces
      <4>3. slot'[t] = PushSlot(due[t])
        BY <2>1, <2>4, <3>4
      <4> QED BY <1>1, <1>2, <2>1, <2>4, <4>2, <4>3 DEF Placed, Near, Far
    <3>5. CASE ~Cascaded(t)
      <4>1. jiffies + 1 <= Unit(k) * q
            /\ Unit(k) * q < (jiffies + 1) + Unit(k) * TVN_SIZE
        BY <1>1, <3>1, <3>2, <3>3, <3>5
      <4>2. Far(slot[t], due[t], jiffies + 1)
        BY <3>1, <4>1 DEF Far
      <4>3. slot'[t] = slot[t]
        BY <2>1, <3>5
      <4> QED BY <1>1, <2>1, <2>4, <4>2, <4>3 DEF Placed, Far
    <3> QED BY <3>4, <3>5
  <2> QED
    BY <2>1, <2>2, <2>3, <2>4 DEF Placed
<1> QED
  BY <1>1, <1>3, <1>4 DEF IInv

LEMMA StepKeeps ==
  ASSUME IInv, [Next]_vars
  PROVE  IInv'
<1>1. CASE TickBegin
  BY <1>1, TickBeginKeeps
<1>2. CASE TickEnd
  BY <1>2, TickEndKeeps
<1>3. ASSUME NEW t \in Timers, Push(t)
      PROVE  IInv'
  BY <1>3, PushKeeps
<1>4. ASSUME NEW t \in Timers, Pop(t)
      PROVE  IInv'
  BY <1>4, RemoveKeeps DEF Pop, IInv, TypeOK
<1>5. ASSUME NEW t \in Timers, Fire(t)
      PROVE  IInv'
  BY <1>5, RemoveKeeps DEF Fire
<1>6. CASE UNCHANGED vars
  BY <1>6 DEF vars, IInv, TypeOK, Placed, Now, Reach, Near, Far
<1> QED
  BY <1>1, <1>2, <1>3, <1>4, <1>5, <1>6 DEF Next

-----------------------------------------------------------------------------
(* The inductive invariant, for any sizes and any delays: where            *)
(* tlibc_timer_push and the cascades put a timer fits the tick it is for.  *)
THEOREM Invariance == Spec => []IInv
<1>1. IInv /\ [Next]_vars => IInv'
  BY StepKeeps
<1> QED
  BY InitIInv, <1>1, PTL DEF Spec

(* No timer fires late, whatever its callbacks push: between two ticks     *)
(* nothing is queued for a tick that has gone, and when a tick ends what   *)
(* was due at it has been fired or popped.                                 *)
NeverLate == \A t \in Timers : slot[t] # Idle =>
  due[t] >= (IF phase = "out" THEN jiffies ELSE jiffies - 1)

THEOREM NothingIsLate == Spec => []NeverLate
<1>1. IInv => NeverLate
  <2> SUFFICES ASSUME IInv, NEW t \in Timers, slot[t] # Idle
               PROVE  due[t] >= Now
    BY DEF NeverLate, Now
  <2>1. jiffies \in Nat /\ due[t] \in Int /\ Now \in Int /\ Now <= jiffies /\ Reach \in Nat
    BY TlibcTimerAssumption DEF IInv, TypeOK, Now, Reach
  <2>2. CASE Near(slot[t], due[t], Now, Reach)
    BY <2>1, <2>2 DEF Near
  <2>3. CASE Far(slot[t], due[t], jiffies)
    <3>1. PICK k \in 1 .. 4, q \in 0 .. due[t] :
            Unit(k) * q <= due[t] /\ jiffies <= Unit(k) * q
      BY <2>3 DEF Far
    <3>2. Unit(k) * q \in Int
      BY <2>1, UnitStep DEF Vectors
    <3> QED BY <2>1, <3>1, <3>2
  <2> QED
    BY <2>2, <2>3 DEF IInv, Placed
<1> QED
  BY <1>1, Invariance, PTL

(* No timer fires early either: what a tick drains is what is due at it,   *)
(* provided that no callback pushes a timer TVR_SIZE - 1 ticks ahead, into *)
(* the very slot that is being drained.                                    *)
THEOREM DrainedInTime ==
  ASSUME TVR_SIZE - 1 \notin CallbackDelays
  PROVE  Spec => []DrainsWhatIsDue
<1>1. IInv => DrainsWhatIsDue
  BY DrainedIsDue DEF DrainsWhatIsDue
<1> QED
  BY <1>1, Invariance, PTL

(* Under the same condition the five vectors are a queue of timers: each   *)
(* step of the wheel is a step of the queue, or changes nothing there.     *)
THEOREM Refinement ==
  ASSUME TVR_SIZE - 1 \notin CallbackDelays
  PROVE  Spec => IsTimerQueue
<1>1. Init => Queue!Init
  BY DEF Init, Queue!Init, Queue!None
<1>2. IInv /\ [Next]_vars => [Queue!Next]_(Queue!vars)
  <2> SUFFICES ASSUME IInv, [Next]_vars
               PROVE  Queue!Next \/ UNCHANGED Queue!vars
    OBVIOUS
  <2>1. /\ jiffies \in Nat /\ due \in [Timers -> Int]
        /\ \A t \in Timers : Queued(t) \/ due[t] = -1
        /\ phase # "out" => \A t \in Timers : slot[t] = Drained <=> due[t] = jiffies - 1
    <3>1. \A t \in Timers : ~Queued(t) => due[t] = -1
      <4> TAKE t \in Timers
      <4>1. slot[t] = Idle => ~Near(slot[t], due[t], Now, Reach)
        BY DEF Near, Idle
      <4>2. slot[t] = Idle => ~Far(slot[t], due[t], jiffies)
        BY DEF Far, Idle
      <4> QED BY <4>1, <4>2 DEF IInv, Placed, Queued
    <3> QED BY <3>1, DrainedIsDue DEF IInv, TypeOK
  <2>2. CASE TickBegin
    BY <2>2 DEF TickBegin, Queue!Next, Queue!Begin
  <2>3. CASE TickEnd
    BY <2>1, <2>3 DEF TickEnd, Queue!Next, Queue!Finish
  <2>4. ASSUME NEW t \in Timers, Push(t)
        PROVE  Queue!Next
    <3>1. due[t] = -1
      BY <2>1, <2>4 DEF Push
    <3>2. PICK d \in IF phase = "out" THEN Delays ELSE CallbackDelays :
            due' = [due EXCEPT ![t] = IF d > 0 THEN jiffies + d ELSE jiffies]
      BY <2>4 DEF Push
    <3>3. d \in Int
      BY TlibcTimerAssumption
    <3>4. due'[t] >= jiffies /\ due' = [due EXCEPT ![t] = due'[t]]
      BY <2>1, <3>2, <3>3
    <3> QED
      BY <2>4, <3>1, <3>4 DEF Push, Queue!Next, Queue!Push, Queue!None
  <2>5. ASSUME NEW t \in Timers, Pop(t)
        PROVE  Queue!Next
    BY <2>5 DEF Pop, Remove, Queue!Next, Queue!Pop, Queue!None
  <2>6. ASSUME NEW t \in Timers, Fire(t)
        PROVE  Queue!Next
    BY <2>1, <2>6 DEF Fire, Remove, Queue!Next, Queue!Fire, Queue!None
  <2>7. CASE UNCHANGED vars
    BY <2>7 DEF vars, Queue!vars
  <2> QED
    BY <2>2, <2>3, <2>4, <2>5, <2>6, <2>7 DEF Next
<1> QED
  BY <1>1, <1>2, Invariance, PTL DEF Spec, IsTimerQueue, Queue!Spec
==============================================================================
