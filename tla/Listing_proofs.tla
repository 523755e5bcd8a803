---------------------------- MODULE Listing_proofs --------------------------
(***************************************************************************)
(* Proofs about the pages of a walk, for any number of payments, any page  *)
(* size and any interleaving with creations and outcomes.                  *)
(*                                                                         *)
(* The argument counts rows on either side of the offset.  A row that      *)
(* enters the filter pushes at most one row over the offset, a row that    *)
(* leaves it pulls at most one back; so the rows a walk will return again, *)
(* and those it has passed by, are never more than the rows that moved.    *)
(***************************************************************************)
EXTENDS Listing, FiniteSetTheorems, WellFoundedInduction, TLAPS

(* The place of i among the rows S, and the rows before and after an       *)
(* offset.                                                                 *)
Place(S, i) == Cardinality({j \in S : j <= i})
Behind(S, offset) == {i \in S : Place(S, i) <= offset}
Ahead(S, offset) == {i \in S : Place(S, i) > offset}

-----------------------------------------------------------------------------
(* A place is a number, and so are the sizes of the sets below.            *)
LEMMA PlaceNat ==
  ASSUME NEW S, IsFiniteSet(S), NEW i
  PROVE  /\ IsFiniteSet({j \in S : j <= i})
         /\ Place(S, i) \in Nat
<1>1. {j \in S : j <= i} \in SUBSET S
  OBVIOUS
<1>2. IsFiniteSet({j \in S : j <= i})
  BY <1>1, FS_Subset
<1> QED BY <1>2, FS_CardinalityType DEF Place

(* Places follow the order of the ids.                                     *)
LEMMA PlaceGrows ==
  ASSUME NEW S \in SUBSET Nat, IsFiniteSet(S), NEW i \in S, NEW j \in S, i < j
  PROVE  Place(S, i) < Place(S, j)
<1> DEFINE A == {k \in S : k <= i}
           B == {k \in S : k <= j}
<1>1. IsFiniteSet(A) /\ IsFiniteSet(B)
  BY PlaceNat
<1>2. Cardinality(A) \in Nat /\ Cardinality(B) \in Nat
  BY <1>1, FS_CardinalityType
<1>3. A \in SUBSET B /\ A # B
  <2>1. A \in SUBSET B
    <3> SUFFICES ASSUME NEW k \in A PROVE k <= j
      OBVIOUS
    <3>1. k \in Nat /\ i \in Nat /\ j \in Nat /\ k <= i
      OBVIOUS
    <3> QED BY <3>1
  <2>2. j \in B /\ j \notin A
    <3>1. i \in Nat /\ j \in Nat
      OBVIOUS
    <3> QED BY <3>1
  <2> QED BY <2>1, <2>2
<1>4. Cardinality(A) <= Cardinality(B) /\ Cardinality(A) # Cardinality(B)
  BY <1>1, <1>3, FS_Subset
<1>5. Place(S, i) = Cardinality(A) /\ Place(S, j) = Cardinality(B)
  BY DEF Place
<1> QED BY <1>2, <1>4, <1>5

(* No two rows have the same place.                                        *)
LEMMA PlaceDiffers ==
  ASSUME NEW S \in SUBSET Nat, IsFiniteSet(S), NEW i \in S, NEW j \in S,
         Place(S, i) = Place(S, j)
  PROVE  i = j
<1>1. Place(S, i) \in Nat /\ Place(S, j) \in Nat /\ i \in Nat /\ j \in Nat
  BY PlaceNat
<1>2. ~ i < j
  BY <1>1, PlaceGrows
<1>3. ~ j < i
  BY <1>1, PlaceGrows
<1> QED BY <1>1, <1>2, <1>3

(* A row is its own predecessor: places begin at 1.                        *)
LEMMA PlacePositive ==
  ASSUME NEW S \in SUBSET Nat, IsFiniteSet(S), NEW i \in S
  PROVE  Place(S, i) >= 1
<1> DEFINE A == {k \in S : k <= i}
<1>1. IsFiniteSet(A) /\ i \in A
  BY PlaceNat
<1>2. Cardinality(A) # 0
  BY <1>1, FS_EmptySet
<1>3. Place(S, i) = Cardinality(A) /\ Place(S, i) \in Nat
  BY PlaceNat DEF Place
<1> QED BY <1>2, <1>3

(* A set of rows whose places lie in 1..n has at most n of them.           *)
LEMMA FewBehind ==
  ASSUME NEW S \in SUBSET Nat, IsFiniteSet(S), NEW n \in Nat
  PROVE  /\ IsFiniteSet(Behind(S, n))
         /\ Cardinality(Behind(S, n)) \in Nat
         /\ Cardinality(Behind(S, n)) <= n
<1> DEFINE f == [i \in Behind(S, n) |-> Place(S, i)]
<1>1. \A i \in Behind(S, n) : Place(S, i) \in 1..n
  <2> TAKE i \in Behind(S, n)
  <2>1. i \in S /\ Place(S, i) <= n
    BY DEF Behind
  <2>2. Place(S, i) \in Nat /\ Place(S, i) >= 1
    BY <2>1, PlaceNat, PlacePositive
  <2> QED BY <2>1, <2>2
<1>2. f \in [Behind(S, n) -> 1..n]
  BY <1>1
<1>3. \A i, j \in Behind(S, n) : f[i] = f[j] => i = j
  <2> TAKE i, j \in Behind(S, n)
  <2> HAVE f[i] = f[j]
  <2>1. i \in S /\ j \in S /\ Place(S, i) = Place(S, j)
    BY DEF Behind
  <2> QED BY <2>1, PlaceDiffers
<1> HIDE DEF f
<1>4. f \in Injection(Behind(S, n), 1..n)
  BY <1>2, <1>3 DEF Injection, IsInjective
<1>5. IsFiniteSet(1..n) /\ Cardinality(1..n) = n
  <2>1. IsFiniteSet(1..n) /\ Cardinality(1..n) = IF 1 > n THEN 0 ELSE n - 1 + 1
    BY FS_Interval
  <2> QED BY <2>1
<1>6. IsFiniteSet(Behind(S, n)) /\ Cardinality(Behind(S, n)) <= Cardinality(1..n)
  BY <1>4, <1>5, FS_Injection
<1> QED BY <1>5, <1>6, FS_CardinalityType

(* A nonempty set of numbers has a least one.                              *)
LEMMA Least ==
  ASSUME NEW S \in SUBSET Nat, S # {}
  PROVE  \E x \in S : \A y \in S : x <= y
<1>1. PICK x \in S : \A y \in S : ~ (<<y, x>> \in OpToRel(<, Nat))
  BY NatLessThanWellFounded, WFMin
<1>2. \A y \in S : ~ (y < x)
  BY <1>1 DEF OpToRel
<1>3. \A y \in S : y \in Nat /\ x \in Nat
  OBVIOUS
<1>4. \A y \in S : x <= y
  BY <1>2, <1>3
<1> QED BY <1>4

(* A page that is not full is the last one: no row lies behind it.         *)
LEMMA LastPage ==
  ASSUME NEW S \in SUBSET Nat, IsFiniteSet(S), NEW offset \in Nat, NEW limit \in Nat \ {0},
         Cardinality({i \in S : Place(S, i) \in offset + 1..offset + limit}) < limit
  PROVE  Behind(S, offset + limit) = S
<1> DEFINE page == {i \in S : Place(S, i) \in offset + 1..offset + limit}
           end == offset + limit
<1> SUFFICES ASSUME Behind(S, end) # S PROVE FALSE
  OBVIOUS
<1>n. offset \in Nat /\ limit \in Nat /\ end \in Nat /\ \A i \in S : Place(S, i) \in Nat
  <2>1. \A i \in S : Place(S, i) \in Nat
    BY PlaceNat
  <2>2. end \in Nat
    OBVIOUS
  <2> QED BY <2>1, <2>2
<1>1. Ahead(S, end) # {}
  <2>1. PICK i \in S : i \notin Behind(S, end)
    BY DEF Behind
  <2>2. ~ Place(S, i) <= end
    BY <2>1 DEF Behind
  <2>3. Place(S, i) > end
    BY <2>2, <1>n
  <2> QED BY <2>3 DEF Ahead
<1>2. Ahead(S, end) \in SUBSET Nat
  BY DEF Ahead
<1>3. PICK x \in Ahead(S, end) : \A y \in Ahead(S, end) : x <= y
  BY <1>1, <1>2, Least
<1>4. x \in S /\ x \in Nat /\ Place(S, x) > end
  BY <1>3, <1>2 DEF Ahead
<1>5. {j \in S : j <= x} \subseteq (Behind(S, offset) \cup page) \cup {x}
  <2> SUFFICES ASSUME NEW j \in S, j <= x, j # x
               PROVE  j \in Behind(S, offset) \cup page
    OBVIOUS
  <2>1. j \in Nat /\ ~ x <= j
    BY <1>4
  <2>2. j \notin Ahead(S, end)
    BY <2>1, <1>3
  <2>3. Place(S, j) \in Nat /\ Place(S, j) <= end
    BY <2>2, <1>n DEF Ahead
  <2>4. Place(S, j) <= offset \/ Place(S, j) \in offset + 1..offset + limit
    BY <2>3, <1>n
  <2> QED BY <2>4 DEF Behind
<1> HIDE DEF page
<1>6. /\ IsFiniteSet(Behind(S, offset)) /\ Cardinality(Behind(S, offset)) \in Nat
      /\ Cardinality(Behind(S, offset)) <= offset
  BY FewBehind
<1>7. IsFiniteSet(page) /\ Cardinality(page) \in Nat /\ Cardinality(page) < limit
  <2>1. page \in SUBSET S
    BY DEF page
  <2>2. IsFiniteSet(page)
    BY <2>1, FS_Subset
  <2> QED BY <2>2, FS_CardinalityType DEF page
<1> DEFINE low == Behind(S, offset) \cup page
           upto == {j \in S : j <= x}
<1>8. /\ IsFiniteSet(low) /\ Cardinality(low) \in Nat
      /\ Cardinality(low) <= Cardinality(Behind(S, offset)) + Cardinality(page)
  <2>1. IsFiniteSet(Behind(S, offset) \cap page)
    BY <1>6, FS_Intersection
  <2>2. Cardinality(Behind(S, offset) \cap page) \in Nat
    BY <2>1, FS_CardinalityType
  <2>3. /\ IsFiniteSet(low)
        /\ Cardinality(low) = Cardinality(Behind(S, offset)) + Cardinality(page)
                                - Cardinality(Behind(S, offset) \cap page)
    BY <1>6, <1>7, FS_Union
  <2>4. Cardinality(low) \in Nat
    BY <2>3, FS_CardinalityType
  <2> HIDE DEF low
  <2> QED BY <1>6, <1>7, <2>2, <2>3, <2>4
<1>9. upto \in SUBSET (low \cup {x})
  BY <1>5
<1> HIDE DEF low, upto
<1>10. /\ IsFiniteSet(low \cup {x})
       /\ Cardinality(low \cup {x}) = IF x \in low THEN Cardinality(low) ELSE Cardinality(low) + 1
  BY <1>8, FS_AddElement
<1>11. Cardinality(upto) <= Cardinality(low \cup {x})
  BY <1>9, <1>10, FS_Subset
<1>12. Place(S, x) = Cardinality(upto) /\ Place(S, x) \in Nat
  BY <1>n, <1>4 DEF Place, upto
<1> QED BY <1>n, <1>4, <1>6, <1>7, <1>8, <1>10, <1>11, <1>12

-----------------------------------------------------------------------------
(* A row x enters: rows before it keep their place, the others move by one.*)
LEMMA PlaceAfterEntry ==
  ASSUME NEW S \in SUBSET Nat, IsFiniteSet(S), NEW x \in Nat, x \notin S, NEW i \in S
  PROVE  Place(S \cup {x}, i) = IF x < i THEN Place(S, i) + 1 ELSE Place(S, i)
<1> DEFINE A == {j \in S : j <= i}
           B == {j \in S \cup {x} : j <= i}
<1>1. IsFiniteSet(A) /\ x \notin A /\ i \in Nat /\ x # i
  BY PlaceNat
<1>2. CASE x < i
  <2>1. B = A \cup {x}
    BY <1>1, <1>2
  <2>2. Cardinality(A \cup {x}) = IF x \in A THEN Cardinality(A) ELSE Cardinality(A) + 1
    BY <1>1, FS_AddElement
  <2>3. Cardinality(B) = Cardinality(A) + 1
    BY <1>1, <2>1, <2>2
  <2> QED BY <1>2, <2>3 DEF Place
<1>3. CASE ~ x < i
  <2>1. ~ x <= i
    BY <1>1, <1>3
  <2>2. B = A
    BY <2>1
  <2> QED BY <1>3, <2>2 DEF Place
<1> QED BY <1>2, <1>3

(* A set in which any two elements are equal has at most one.              *)
LEMMA AtMostOne ==
  ASSUME NEW S, \A i, j \in S : i = j
  PROVE  IsFiniteSet(S) /\ Cardinality(S) \in Nat /\ Cardinality(S) <= 1
<1>1. CASE S = {}
  BY <1>1, FS_EmptySet
<1>2. CASE S # {}
  <2>1. PICK x \in S : TRUE
    BY <1>2
  <2>2. S = {x}
    BY <2>1
  <2>3. IsFiniteSet({x}) /\ Cardinality({x}) = 1
    BY FS_Singleton
  <2> QED BY <2>2, <2>3
<1> QED BY <1>1, <1>2

(* The rows that cross the offset when x enters.                           *)
Crossing(S, x, offset) == Ahead(S \cup {x}, offset) \ Ahead(S, offset)

(* There is at most one: the row at the offset, or x itself.               *)
LEMMA OneCrosses ==
  ASSUME NEW S \in SUBSET Nat, IsFiniteSet(S), NEW x \in Nat, x \notin S, NEW offset \in Nat
  PROVE  \A i, j \in Crossing(S, x, offset) : i = j
<1> DEFINE T == S \cup {x}
<1>1. T \in SUBSET Nat /\ IsFiniteSet(T)
  BY FS_AddElement
<1>2. \A i \in T : Place(T, i) \in Nat
  BY <1>1, PlaceNat
<1>3. \A i \in S : Place(S, i) \in Nat
  BY PlaceNat
(* A row of S that crosses was at the offset and is behind x.             *)
<1>4. \A i \in Crossing(S, x, offset) \cap S : x < i /\ Place(T, i) = offset + 1
  <2> TAKE i \in Crossing(S, x, offset) \cap S
  <2>1. i \in T /\ Place(T, i) > offset /\ ~ Place(S, i) > offset
    BY DEF Crossing, Ahead
  <2>2. Place(T, i) = IF x < i THEN Place(S, i) + 1 ELSE Place(S, i)
    BY PlaceAfterEntry
  <2>3. Place(T, i) \in Nat /\ Place(S, i) \in Nat
    BY <2>1, <1>2, <1>3
  <2> HIDE DEF T
  <2> QED BY <2>1, <2>2, <2>3
(* If x is ahead, nothing behind it is only just ahead.                   *)
<1>5. ASSUME NEW i \in Crossing(S, x, offset) \cap S, x \in Crossing(S, x, offset)
      PROVE  FALSE
  <2>1. x < i /\ Place(T, i) = offset + 1 /\ i \in T /\ x \in T
    BY <1>4
  <2>2. Place(T, x) < Place(T, i)
    BY <1>1, <2>1, PlaceGrows
  <2>3. Place(T, x) > offset
    BY <1>5 DEF Crossing, Ahead
  <2> HIDE DEF T
  <2> QED BY <1>2, <2>1, <2>2, <2>3
<1>6. \A i \in Crossing(S, x, offset) : i \in S \/ i = x
  BY DEF Crossing, Ahead
<1>7. ASSUME NEW i \in Crossing(S, x, offset) \cap S, NEW j \in Crossing(S, x, offset) \cap S
      PROVE  i = j
  <2>1. Place(T, i) = Place(T, j) /\ i \in T /\ j \in T
    BY <1>4
  <2> QED BY <1>1, <2>1, PlaceDiffers
<1> QED BY <1>5, <1>6, <1>7

(* What one row more can add to a finite set.                              *)
LEMMA OneMore ==
  ASSUME NEW B, IsFiniteSet(B), NEW C, \A i, j \in C : i = j, NEW A \in SUBSET (B \cup C)
  PROVE  /\ IsFiniteSet(A)
         /\ Cardinality(A) \in Nat /\ Cardinality(B) \in Nat
         /\ Cardinality(A) <= Cardinality(B) + 1
<1>1. IsFiniteSet(C) /\ Cardinality(C) \in Nat /\ Cardinality(C) <= 1
  BY AtMostOne
<1>2. IsFiniteSet(B \cap C)
  BY FS_Intersection
<1>3. Cardinality(B) \in Nat /\ Cardinality(B \cap C) \in Nat
  BY <1>2, FS_CardinalityType
<1>4. /\ IsFiniteSet(B \cup C)
      /\ Cardinality(B \cup C) = Cardinality(B) + Cardinality(C) - Cardinality(B \cap C)
  BY <1>1, FS_Union
<1>5. IsFiniteSet(A) /\ Cardinality(A) <= Cardinality(B \cup C)
  BY <1>4, FS_Subset
<1>6. Cardinality(A) \in Nat
  BY <1>5, FS_CardinalityType
<1>7. Cardinality(A) <= Cardinality(B) + 1
  <2>1. Cardinality(B \cup C) \in Nat
    BY <1>4, FS_CardinalityType
  <2> QED BY <1>1, <1>3, <1>4, <1>5, <1>6, <2>1
<1> QED BY <1>3, <1>5, <1>6, <1>7

(* A larger set has at least as many elements.                             *)
LEMMA Larger ==
  ASSUME NEW B, IsFiniteSet(B), NEW A \in SUBSET B
  PROVE  /\ IsFiniteSet(A)
         /\ Cardinality(A) \in Nat /\ Cardinality(B) \in Nat
         /\ Cardinality(A) <= Cardinality(B)
<1>1. IsFiniteSet(A) /\ Cardinality(A) <= Cardinality(B)
  BY FS_Subset
<1> QED BY <1>1, FS_CardinalityType

(* A row that enters pushes at most one row over the offset and none back. *)
LEMMA Entry ==
  ASSUME NEW S \in SUBSET Nat, IsFiniteSet(S), NEW x \in Nat, x \notin S, NEW offset \in Nat
  PROVE  /\ Behind(S \cup {x}, offset) \subseteq Behind(S, offset) \cup {x}
         /\ Ahead(S \cup {x}, offset) \subseteq Ahead(S, offset) \cup Crossing(S, x, offset)
<1>1. ASSUME NEW i \in Behind(S \cup {x}, offset), i # x
      PROVE  i \in Behind(S, offset)
  <2>1. i \in S /\ Place(S \cup {x}, i) <= offset
    BY <1>1 DEF Behind
  <2>2. Place(S \cup {x}, i) = IF x < i THEN Place(S, i) + 1 ELSE Place(S, i)
    BY <2>1, PlaceAfterEntry
  <2>3. Place(S, i) \in Nat
    BY PlaceNat
  <2>4. Place(S, i) <= offset
    BY <2>1, <2>2, <2>3
  <2> QED BY <2>1, <2>4 DEF Behind
<1>2. Ahead(S \cup {x}, offset) \subseteq Ahead(S, offset) \cup Crossing(S, x, offset)
  BY DEF Crossing
<1> QED BY <1>1, <1>2

(* A row that leaves pulls at most one row back over the offset and none   *)
(* forward.                                                                *)
LEMMA Leaving ==
  ASSUME NEW S \in SUBSET Nat, IsFiniteSet(S), NEW x \in S, NEW offset \in Nat
  PROVE  /\ Behind(S \ {x}, offset)
              \subseteq Behind(S, offset) \cup Crossing(S \ {x}, x, offset)
         /\ Ahead(S \ {x}, offset) \subseteq Ahead(S, offset)
<1> DEFINE R == S \ {x}
<1>1. R \in SUBSET Nat /\ IsFiniteSet(R) /\ x \in Nat /\ x \notin R /\ S = R \cup {x}
  BY FS_RemoveElement
<1>2. \A i \in R : Place(R, i) \in Nat /\ Place(S, i) \in Nat
  BY <1>1, PlaceNat
<1>3. ASSUME NEW i \in Behind(R, offset), i \notin Behind(S, offset)
      PROVE  i \in Crossing(R, x, offset)
  <2>1. i \in R /\ i \in S /\ Place(R, i) <= offset /\ ~ Place(S, i) <= offset
    BY <1>3 DEF Behind
  <2>2. Place(S, i) > offset /\ ~ Place(R, i) > offset
    BY <2>1, <1>2
  <2>3. i \in Ahead(S, offset) /\ i \notin Ahead(R, offset)
    BY <2>1, <2>2 DEF Ahead
  <2> HIDE DEF R
  <2> QED BY <2>3, <1>1 DEF Crossing
<1>4. ASSUME NEW i \in Ahead(R, offset)
      PROVE  i \in Ahead(S, offset)
  <2>1. i \in R /\ i \in S /\ Place(R, i) > offset
    BY DEF Ahead
  <2>2. Place(R \cup {x}, i) = IF x < i THEN Place(R, i) + 1 ELSE Place(R, i)
    BY <1>1, <2>1, PlaceAfterEntry
  <2>3. Place(S, i) = IF x < i THEN Place(R, i) + 1 ELSE Place(R, i)
    BY <1>1, <2>2
  <2>4. Place(S, i) > offset
    BY <1>2, <2>1, <2>3
  <2> QED BY <2>1, <2>4 DEF Ahead
<1> QED BY <1>3, <1>4

-----------------------------------------------------------------------------
(* The rows the walk is about, and what no longer changes.                 *)
Chosen == Selected(walk.filter)
Final(i) == payments[i].status \in {"succeeded", "failed"}

(* A walk that has not begun has seen nothing; during one, what it started *)
(* with is still there unless it left, and what moved will not move again. *)
Tracked ==
  /\ walk.pc = "idle" => /\ seen = {} /\ returned = 0 /\ start = {}
                         /\ moved = [in |-> {}, out |-> {}]
  /\ walk.pc = "walking" => /\ start \ moved.out \subseteq Chosen
                            /\ \A i \in moved.in : i \in Chosen \/ Final(i)
                            /\ \A i \in moved.out : i \notin Chosen /\ Final(i)

(* The rows a walk has passed by are no more than those that left.         *)
Passed ==
  walk.pc = "walking" =>
    Cardinality(((start \ moved.out) \ seen) \cap Behind(Chosen, walk.offset))
      <= Cardinality(moved.out)

(* The rows returned, and those that will be returned again, exceed those  *)
(* seen by no more than entered.                                           *)
Counted ==
  walk.pc = "walking" =>
    returned + Cardinality(Ahead(Chosen, walk.offset) \cap seen)
      <= Cardinality(seen) + Cardinality(moved.in)

(* The inductive invariant.                                                *)
WalkInv ==
  TypeOK /\ Tracked /\ Passed /\ Counted /\ SkipsNeedLeavers /\ RepeatsNeedEntries

(* Creating a payment and recording its outcome are the two changes of a   *)
(* row.                                                                    *)
Changes(i, payment) ==
  \/ payments[i] = NoPayment /\ payment.status = "pending"
  \/ payments[i].status = "pending" /\ payment.status \in {"succeeded", "failed"}

(* Create and Process are such changes.                                    *)
LEMMA RowSteps ==
  ASSUME TypeOK, NEW i \in Ids, Create(i) \/ Process(i)
  PROVE  \E payment \in Payment : Changes(i, payment) /\ Update(i, payment)
<1>1. payments[i] \in Payment
  BY DEF TypeOK
<1>2. CASE Create(i)
  <2>1. PICK c \in Currencies : Update(i, [status |-> "pending", currency |-> c])
    BY <1>2 DEF Create
  <2>2. [status |-> "pending", currency |-> c] \in Payment
    BY DEF Payment, Statuses
  <2>3. Changes(i, [status |-> "pending", currency |-> c])
    BY <1>2 DEF Create, Changes
  <2> QED BY <2>1, <2>2, <2>3
<1>3. CASE Process(i)
  <2>1. PICK s \in {"succeeded", "failed"} : Update(i, [payments[i] EXCEPT !.status = s])
    BY <1>3 DEF Process
  <2>2. [payments[i] EXCEPT !.status = s] = [status |-> s, currency |-> payments[i].currency]
    BY <1>1 DEF Payment
  <2>3. [payments[i] EXCEPT !.status = s] \in Payment
    BY <1>1, <2>2 DEF Payment, Statuses
  <2>4. Changes(i, [payments[i] EXCEPT !.status = s])
    BY <1>3, <2>2 DEF Process, Changes
  <2> QED BY <2>1, <2>3, <2>4
<1> QED BY <1>2, <1>3

(* The typed constants and rows of the proofs below.                       *)
LEMMA ChosenFinite ==
  ASSUME TypeOK
  PROVE  /\ Chosen \in SUBSET Nat /\ Chosen \subseteq Ids /\ IsFiniteSet(Chosen)
         /\ IsFiniteSet(seen) /\ IsFiniteSet(start)
         /\ IsFiniteSet(moved.in) /\ IsFiniteSet(moved.out)
<1>1. IsFiniteSet(Ids) /\ Ids \subseteq Nat
  BY ListingConstants
<1>2. Chosen \in SUBSET Ids
  BY DEF Chosen, Selected
<1>3. seen \in SUBSET Ids /\ start \in SUBSET Ids
      /\ moved.in \in SUBSET Ids /\ moved.out \in SUBSET Ids
  BY DEF TypeOK
<1>4. \A S \in SUBSET Ids : IsFiniteSet(S)
  BY <1>1, FS_Subset
<1> QED BY <1>1, <1>2, <1>3, <1>4

(* A change of row i leaves the chosen rows alone, or i enters for the     *)
(* first time, or it leaves for good.                                      *)
Stays == Chosen' = Chosen /\ moved' = moved

Enters(i) ==
  /\ i \notin Chosen /\ i \notin moved.in /\ i \notin start \ moved.out
  /\ Chosen' = Chosen \cup {i}
  /\ moved' = [in |-> moved.in \cup {i}, out |-> moved.out]

Leaves(i) ==
  /\ i \in Chosen /\ i \notin moved.out
  /\ Chosen' = Chosen \ {i}
  /\ moved' = [in |-> moved.in, out |-> moved.out \cup {i}]

(* What a change does to a walk.                                           *)
LEMMA WalkingChange ==
  ASSUME TypeOK, Tracked, walk.pc = "walking", NEW i \in Ids, NEW payment \in Payment,
         Changes(i, payment), Update(i, payment)
  PROVE  /\ Stays \/ Enters(i) \/ Leaves(i)
         /\ ~ Final(i)
         /\ i \in Chosen => Final(i)'
         /\ \A j \in Ids : Final(j) => Final(j)'
<1>1. /\ payments \in [Ids -> Payment] /\ payments[i] \in Payment
      /\ moved = [in |-> moved.in, out |-> moved.out]
      /\ moved.in \subseteq Ids /\ moved.out \subseteq Ids
  BY DEF TypeOK
<1>2. payments' = [payments EXCEPT ![i] = payment] /\ walk' = walk
  BY DEF Update
<1>3. ~ Final(i)
  BY DEF Final, Changes, NoPayment
<1>4. i \notin moved.out /\ (i \in moved.in => i \in Chosen)
  BY <1>3 DEF Tracked
<1>5. i \in Chosen <=> Matches(payments[i], walk.filter)
  BY DEF Chosen, Selected
<1>6. Chosen' = {j \in Ids : Matches(payments'[j], walk.filter)}
  BY <1>2 DEF Chosen, Selected
<1>7. /\ \A j \in Ids \ {i} : payments'[j] = payments[j]
      /\ payments'[i] = payment
  BY <1>1, <1>2
<1>8. moved' = [in  |-> IF Matches(payment, walk.filter) /\ i \notin Chosen
                         THEN moved.in \cup {i} ELSE moved.in,
                out |-> IF i \in Chosen /\ ~ Matches(payment, walk.filter)
                         THEN moved.out \cup {i} ELSE moved.out]
  BY <1>5 DEF Update
<1>9. \A j \in Ids : Final(j) => Final(j)'
  BY <1>3, <1>7 DEF Final
<1>10. i \in Chosen => Final(i)'
  <2>1. payments[i] = NoPayment => i \notin Chosen
    BY <1>5 DEF Matches
  <2> QED BY <1>7, <2>1 DEF Changes, Final
<1>11. CASE i \in Chosen <=> Matches(payment, walk.filter)
  <2>1. Chosen' = Chosen
    BY <1>5, <1>6, <1>7, <1>11 DEF Chosen, Selected
  <2>2. moved' = moved
    BY <1>1, <1>8, <1>11
  <2> QED BY <1>3, <1>9, <1>10, <2>1, <2>2 DEF Stays
<1>12. CASE i \notin Chosen /\ Matches(payment, walk.filter)
  <2>1. Chosen' = Chosen \cup {i}
    BY <1>6, <1>7, <1>12 DEF Chosen, Selected
  <2>2. i \notin start \ moved.out
    BY <1>12 DEF Tracked
  <2>3. moved' = [in |-> moved.in \cup {i}, out |-> moved.out]
    BY <1>8, <1>12
  <2> QED BY <1>3, <1>4, <1>9, <1>12, <2>1, <2>2, <2>3 DEF Enters
<1>13. CASE i \in Chosen /\ ~ Matches(payment, walk.filter)
  <2>1. Chosen' = Chosen \ {i}
    BY <1>6, <1>7, <1>13 DEF Chosen, Selected
  <2>2. moved' = [in |-> moved.in, out |-> moved.out \cup {i}]
    BY <1>8, <1>13
  <2> QED BY <1>3, <1>4, <1>9, <1>10, <1>13, <2>1, <2>2 DEF Leaves
<1> QED BY <1>11, <1>12, <1>13

(* A change keeps the types, whether a client walks or not.                *)
LEMMA ChangeTyped ==
  ASSUME TypeOK, NEW i \in Ids, NEW payment \in Payment, Update(i, payment)
  PROVE  TypeOK'
<1>1. payments' \in [Ids -> Payment]
  BY DEF Update, TypeOK
<1>2. moved' \in [in : SUBSET Ids, out : SUBSET Ids]
  BY DEF Update, TypeOK
<1> QED BY <1>1, <1>2 DEF Update, TypeOK

(* A change keeps what is tracked.                                         *)
LEMMA ChangeTracked ==
  ASSUME TypeOK, Tracked, NEW i \in Ids, NEW payment \in Payment,
         Changes(i, payment), Update(i, payment)
  PROVE  Tracked'
<1>1. UNCHANGED <<walk, seen, returned, start>>
  BY DEF Update
<1>2. CASE walk.pc # "walking"
  <2>1. moved' = moved
    <3>1. moved = [in |-> moved.in, out |-> moved.out]
      BY DEF TypeOK
    <3> QED BY <1>2, <3>1 DEF Update
  <2> QED BY <1>1, <1>2, <2>1 DEF Tracked
<1>3. CASE walk.pc = "walking"
  <2>1. /\ Stays \/ Enters(i) \/ Leaves(i)
        /\ ~ Final(i)
        /\ i \in Chosen => Final(i)'
        /\ \A j \in Ids : Final(j) => Final(j)'
    BY <1>3, WalkingChange
  <2>2. moved.in \subseteq Ids /\ moved.out \subseteq Ids
    BY DEF TypeOK
  <2>3. CASE Stays
    BY <1>1, <1>3, <2>1, <2>2, <2>3 DEF Tracked, Stays
  <2>4. CASE Enters(i)
    <3>1. start' \ moved'.out \subseteq Chosen'
      BY <1>1, <1>3, <2>4 DEF Enters, Tracked
    <3>2. \A j \in moved'.in : j \in Chosen' \/ Final(j)'
      BY <1>3, <2>1, <2>2, <2>4 DEF Enters, Tracked
    <3>3. \A j \in moved'.out : j \notin Chosen' /\ Final(j)'
      BY <1>3, <2>1, <2>2, <2>4 DEF Enters, Tracked
    <3> QED BY <1>1, <1>3, <3>1, <3>2, <3>3 DEF Tracked
  <2>5. CASE Leaves(i)
    <3>1. start' \ moved'.out \subseteq Chosen'
      BY <1>1, <1>3, <2>5 DEF Leaves, Tracked
    <3>2. \A j \in moved'.in : j \in Chosen' \/ Final(j)'
      BY <1>3, <2>1, <2>2, <2>5 DEF Leaves, Tracked
    <3>3. \A j \in moved'.out : j \notin Chosen' /\ Final(j)'
      BY <1>3, <2>1, <2>2, <2>5 DEF Leaves, Tracked
    <3> QED BY <1>1, <1>3, <3>1, <3>2, <3>3 DEF Tracked
  <2> QED BY <2>1, <2>3, <2>4, <2>5
<1> QED BY <1>2, <1>3

(* A change keeps the rows passed by within those that left: a row that    *)
(* leaves may pull one back over the offset, and is one more that left.    *)
LEMMA ChangePassed ==
  ASSUME TypeOK, Tracked, Passed, walk.pc = "walking", NEW i \in Ids,
         UNCHANGED <<walk, seen, start>>, Stays \/ Enters(i) \/ Leaves(i)
  PROVE  Passed'
<1> DEFINE o == walk.offset
           V == (start \ moved.out) \ seen
           A == V \cap Behind(Chosen, o)
<1>1. /\ Chosen \in SUBSET Nat /\ IsFiniteSet(Chosen) /\ i \in Nat
      /\ IsFiniteSet(start) /\ IsFiniteSet(moved.out) /\ o \in Nat
  BY ChosenFinite, ListingConstants DEF TypeOK, Walk
<1>2. IsFiniteSet(A) /\ Cardinality(A) <= Cardinality(moved.out)
  <2>1. A \in SUBSET start
    OBVIOUS
  <2>2. IsFiniteSet(A)
    BY <1>1, <2>1, FS_Subset
  <2> QED BY <2>2 DEF Passed
<1>3. Cardinality(moved.out) \in Nat
  BY <1>1, FS_CardinalityType
<1>4. CASE Stays
  BY <1>4 DEF Stays, Passed
<1>5. CASE Enters(i)
  <2> DEFINE B == V \cap Behind(Chosen \cup {i}, o)
  <2>1. i \notin V
    BY <1>5 DEF Enters
  <2>2. Behind(Chosen \cup {i}, o) \subseteq Behind(Chosen, o) \cup {i}
    BY <1>1, <1>5, Entry DEF Enters
  <2>3. B \in SUBSET A
    BY <2>1, <2>2
  <2> HIDE DEF A
  <2>4. Cardinality(B) \in Nat /\ Cardinality(A) \in Nat /\ Cardinality(B) <= Cardinality(A)
    BY <1>2, <2>3, Larger
  <2>5. Cardinality(B) <= Cardinality(moved.out)
    BY <1>2, <1>3, <2>4
  <2>6. /\ ((start \ moved.out) \ seen)' = V /\ Chosen' = Chosen \cup {i}
        /\ walk' = walk /\ moved'.out = moved.out
    BY <1>5 DEF Enters
  <2> QED BY <2>5, <2>6 DEF Passed
<1>6. CASE Leaves(i)
  <2> DEFINE W == (start \ (moved.out \cup {i})) \ seen
             B == W \cap Behind(Chosen \ {i}, o)
             C == Crossing(Chosen \ {i}, i, o)
  <2>1. i \in Chosen /\ i \notin moved.out
    BY <1>6 DEF Leaves
  <2>2. Behind(Chosen \ {i}, o) \subseteq Behind(Chosen, o) \cup C
    BY <1>1, <2>1, Leaving
  <2>3. B \in SUBSET (A \cup C)
    BY <2>2
  <2>4. \A j, k \in C : j = k
    <3>1. Chosen \ {i} \in SUBSET Nat /\ IsFiniteSet(Chosen \ {i}) /\ i \notin Chosen \ {i}
      BY <1>1, FS_RemoveElement
    <3> QED BY <1>1, <3>1, OneCrosses
  <2> HIDE DEF A, C
  <2>5. Cardinality(B) \in Nat /\ Cardinality(A) \in Nat /\ Cardinality(B) <= Cardinality(A) + 1
    BY <1>2, <2>3, <2>4, OneMore
  <2>6. Cardinality(moved.out \cup {i}) = Cardinality(moved.out) + 1
    BY <1>1, <2>1, FS_AddElement
  <2>7. Cardinality(B) <= Cardinality(moved.out \cup {i})
    BY <1>2, <1>3, <2>5, <2>6
  <2>8. /\ ((start \ moved.out) \ seen)' = W /\ Chosen' = Chosen \ {i}
        /\ walk' = walk /\ moved'.out = moved.out \cup {i}
    BY <1>6 DEF Leaves
  <2> QED BY <2>7, <2>8 DEF Passed
<1> QED BY <1>4, <1>5, <1>6

(* A change keeps the rows returned within those seen and those that       *)
(* entered: a row that enters may push one over the offset.                *)
LEMMA ChangeCounted ==
  ASSUME TypeOK, Tracked, Counted, walk.pc = "walking", NEW i \in Ids,
         UNCHANGED <<walk, seen, returned>>, Stays \/ Enters(i) \/ Leaves(i)
  PROVE  Counted'
<1> DEFINE o == walk.offset
           A == Ahead(Chosen, o) \cap seen
<1>1. /\ Chosen \in SUBSET Nat /\ IsFiniteSet(Chosen) /\ i \in Nat
      /\ IsFiniteSet(seen) /\ IsFiniteSet(moved.in) /\ o \in Nat /\ returned \in Nat
  BY ChosenFinite, ListingConstants DEF TypeOK, Walk
<1>2. /\ IsFiniteSet(A)
      /\ returned + Cardinality(A) <= Cardinality(seen) + Cardinality(moved.in)
  <2>1. A \in SUBSET seen
    OBVIOUS
  <2>2. IsFiniteSet(A)
    BY <1>1, <2>1, FS_Subset
  <2> QED BY <2>2 DEF Counted
<1>3. Cardinality(moved.in) \in Nat /\ Cardinality(seen) \in Nat
  BY <1>1, FS_CardinalityType
<1>4. CASE Stays
  BY <1>4 DEF Stays, Counted
<1>5. CASE Enters(i)
  <2> DEFINE B == Ahead(Chosen \cup {i}, o) \cap seen
             C == Crossing(Chosen, i, o)
  <2>1. i \notin Chosen /\ i \notin moved.in
    BY <1>5 DEF Enters
  <2>2. Ahead(Chosen \cup {i}, o) \subseteq Ahead(Chosen, o) \cup C
    BY <1>1, <2>1, Entry
  <2>3. B \in SUBSET (A \cup C)
    BY <2>2
  <2>4. \A j, k \in C : j = k
    BY <1>1, <2>1, OneCrosses
  <2> HIDE DEF A, C
  <2>5. Cardinality(B) \in Nat /\ Cardinality(A) \in Nat /\ Cardinality(B) <= Cardinality(A) + 1
    BY <1>2, <2>3, <2>4, OneMore
  <2>6. Cardinality(moved.in \cup {i}) = Cardinality(moved.in) + 1
    BY <1>1, <2>1, FS_AddElement
  <2>7. returned + Cardinality(B) <= Cardinality(seen) + Cardinality(moved.in \cup {i})
    BY <1>1, <1>2, <1>3, <2>5, <2>6
  <2>8. /\ walk' = walk /\ seen' = seen /\ returned' = returned
        /\ Chosen' = Chosen \cup {i} /\ moved'.in = moved.in \cup {i}
    BY <1>5 DEF Enters
  <2> QED BY <2>7, <2>8 DEF Counted
<1>6. CASE Leaves(i)
  <2> DEFINE B == Ahead(Chosen \ {i}, o) \cap seen
  <2>1. Ahead(Chosen \ {i}, o) \subseteq Ahead(Chosen, o)
    BY <1>1, <1>6, Leaving DEF Leaves
  <2>2. B \in SUBSET A
    BY <2>1
  <2> HIDE DEF A
  <2>3. Cardinality(B) \in Nat /\ Cardinality(A) \in Nat /\ Cardinality(B) <= Cardinality(A)
    BY <1>2, <2>2, Larger
  <2>4. returned + Cardinality(B) <= Cardinality(seen) + Cardinality(moved.in)
    BY <1>1, <1>2, <1>3, <2>3
  <2>5. /\ walk' = walk /\ seen' = seen /\ returned' = returned
        /\ Chosen' = Chosen \ {i} /\ moved'.in = moved.in
    BY <1>6 DEF Leaves
  <2> QED BY <2>4, <2>5 DEF Counted
<1> QED BY <1>4, <1>5, <1>6

(* A change keeps the invariant.                                           *)
LEMMA ChangeStep ==
  ASSUME WalkInv, NEW i \in Ids, NEW payment \in Payment,
         Changes(i, payment), Update(i, payment)
  PROVE  WalkInv'
<1>1. TypeOK /\ Tracked /\ Passed /\ Counted /\ SkipsNeedLeavers /\ RepeatsNeedEntries
  BY DEF WalkInv
<1>2. TypeOK' /\ Tracked'
  BY <1>1, ChangeTyped, ChangeTracked
<1>3. UNCHANGED <<walk, seen, returned, start>>
  BY DEF Update
<1>4. CASE walk.pc = "walking"
  <2>1. Stays \/ Enters(i) \/ Leaves(i)
    BY <1>1, <1>4, WalkingChange
  <2>2. Passed' /\ Counted'
    BY <1>1, <1>3, <1>4, <2>1, ChangePassed, ChangeCounted
  <2>3. SkipsNeedLeavers'
    BY <1>3, <1>4 DEF SkipsNeedLeavers
  <2>4. RepeatsNeedEntries'
    <3>1. CASE Enters(i)
      <4>1. moved'.in = moved.in \cup {i} /\ i \notin moved.in
        BY <3>1 DEF Enters
      <4>2. IsFiniteSet(moved.in) /\ IsFiniteSet(seen)
        BY <1>1, ChosenFinite
      <4>3. Cardinality(moved.in \cup {i}) = Cardinality(moved.in) + 1
        BY <4>1, <4>2, FS_AddElement
      <4>4. Cardinality(moved.in) \in Nat /\ Cardinality(seen) \in Nat /\ returned \in Nat
        BY <1>1, <4>2, FS_CardinalityType DEF TypeOK
      <4>5. returned <= Cardinality(seen) + Cardinality(moved.in)
        BY <1>1 DEF RepeatsNeedEntries
      <4> QED BY <1>3, <4>1, <4>3, <4>4, <4>5 DEF RepeatsNeedEntries
    <3>2. CASE ~ Enters(i)
      <4>1. moved'.in = moved.in
        BY <2>1, <3>2 DEF Stays, Leaves
      <4> QED BY <1>1, <1>3, <4>1 DEF RepeatsNeedEntries
    <3> QED BY <3>1, <3>2
  <2> QED BY <1>2, <2>2, <2>3, <2>4 DEF WalkInv
<1>5. CASE walk.pc # "walking"
  <2>1. moved' = moved
    <3>1. moved = [in |-> moved.in, out |-> moved.out]
      BY <1>1 DEF TypeOK
    <3> QED BY <1>5, <3>1 DEF Update
  <2> QED BY <1>1, <1>2, <1>3, <1>5, <2>1 DEF WalkInv, Passed, Counted, SkipsNeedLeavers,
                                               RepeatsNeedEntries
<1> QED BY <1>4, <1>5

-----------------------------------------------------------------------------
(* When a walk begins, nothing is behind it and nothing is seen.           *)
LEMMA BeginStep ==
  ASSUME WalkInv, NEW filter \in Filters, NEW limit \in 1..MaxLimit, Begin(filter, limit)
  PROVE  WalkInv'
<1>1. TypeOK /\ walk.pc = "idle" /\ walk'.pc = "walking" /\ walk'.offset = 0
  BY DEF WalkInv, Begin
<1>2. /\ seen' = {} /\ returned' = 0 /\ moved' = [in |-> {}, out |-> {}]
      /\ start' = Chosen'
  BY <1>1 DEF WalkInv, Tracked, Begin, Chosen, Selected
<1>3. TypeOK'
  <2>1. walk' \in Walk
    BY DEF Begin, Walk
  <2>2. Selected(filter) \subseteq Ids
    BY DEF Selected
  <2> QED BY <1>1, <2>1, <2>2 DEF Begin, TypeOK
<1>4. Tracked'
  BY <1>1, <1>2 DEF Tracked
<1>5. Passed'
  <2>1. Chosen' \in SUBSET Nat /\ IsFiniteSet(Chosen')
    <3>1. Chosen' \in SUBSET Ids
      BY DEF Chosen, Selected
    <3> QED BY <3>1, ListingConstants, FS_Subset
  <2>2. IsFiniteSet(Behind(Chosen', 0)) /\ Cardinality(Behind(Chosen', 0)) = 0
    <3>1. /\ IsFiniteSet(Behind(Chosen', 0)) /\ Cardinality(Behind(Chosen', 0)) \in Nat
          /\ Cardinality(Behind(Chosen', 0)) <= 0
      BY <2>1, FewBehind
    <3> QED BY <3>1
  <2>3. Behind(Chosen', 0) = {}
    BY <2>2, FS_EmptySet
  <2>4. ((start' \ moved'.out) \ seen') \cap Behind(Chosen', walk'.offset) = {}
    BY <1>1, <2>3
  <2>5. Cardinality({}) = 0
    BY FS_EmptySet
  <2>6. moved'.out = {}
    BY <1>2
  <2>7. 0 <= 0
    OBVIOUS
  <2> QED BY <2>4, <2>5, <2>6, <2>7 DEF Passed
<1>6. Counted' /\ RepeatsNeedEntries'
  <2>1. Ahead(Chosen', walk'.offset) \cap seen' = {}
    BY <1>2
  <2>2. Cardinality({}) = 0
    BY FS_EmptySet
  <2>3. moved'.in = {}
    BY <1>2
  <2>4. 0 + 0 <= 0 + 0 /\ 0 <= 0 + 0
    OBVIOUS
  <2> QED BY <1>2, <2>1, <2>2, <2>3, <2>4 DEF Counted, RepeatsNeedEntries
<1>7. SkipsNeedLeavers'
  BY <1>1 DEF SkipsNeedLeavers
<1> QED BY <1>3, <1>4, <1>5, <1>6, <1>7 DEF WalkInv

(* The rows of the next page.                                              *)
Page == search(walk.filter, walk.limit, walk.offset)

(* What a page does to a walk.                                             *)
LEMMA PageRows ==
  ASSUME TypeOK, NextPage
  PROVE  /\ walk.pc = "walking" /\ walk.limit \in Nat \ {0} /\ walk.offset \in Nat
         /\ Page = {i \in Chosen : Place(Chosen, i)
                                     \in walk.offset + 1..walk.offset + walk.limit}
         /\ walk' \in Walk /\ walk'.offset = walk.offset + walk.limit
         /\ walk'.pc = IF Cardinality(Page) < walk.limit THEN "done" ELSE "walking"
         /\ Chosen' = Chosen /\ seen' = seen \cup Page /\ start' = start /\ moved' = moved
         /\ returned' = returned + Cardinality(Page)
         /\ payments' = payments
         /\ IsFiniteSet(Page) /\ Cardinality(Page) \in Nat /\ Page \subseteq Ids
<1>1. walk \in Walk /\ walk.pc = "walking"
  BY DEF TypeOK, NextPage
<1>2. walk.limit \in Nat \ {0} /\ walk.offset \in Nat
  BY <1>1, ListingConstants DEF Walk
<1>3. walk' = [pc |-> IF Cardinality(Page) < walk.limit THEN "done" ELSE "walking",
               filter |-> walk.filter, limit |-> walk.limit,
               offset |-> walk.offset + walk.limit]
  <2> DEFINE pc == IF Cardinality(Page) < walk.limit THEN "done" ELSE walk.pc
             end == walk.offset + walk.limit
             y == [walk EXCEPT !.offset = end, !.pc = pc]
  <2>1. walk' = y
    BY DEF NextPage, Page
  <2>2. pc = IF Cardinality(Page) < walk.limit THEN "done" ELSE "walking"
    BY <1>1
  <2> HIDE DEF pc, end
  <2>3. y = [pc |-> pc, filter |-> walk.filter, limit |-> walk.limit, offset |-> end]
    <3>1. y = [walk EXCEPT !.offset = end, !.pc = pc]
      OBVIOUS
    <3>2. DOMAIN walk = {"pc", "filter", "limit", "offset"}
      BY <1>1 DEF Walk
    <3> HIDE DEF y
    <3>3. DOMAIN y = {"pc", "filter", "limit", "offset"} /\ y = [f \in DOMAIN y |-> y[f]]
      BY <3>1, <3>2
    <3>4. /\ y.pc = pc /\ y.filter = walk.filter /\ y.limit = walk.limit /\ y.offset = end
      BY <3>1, <3>2
    <3> QED BY <3>3, <3>4
  <2> HIDE DEF y
  <2> QED BY <2>1, <2>2, <2>3 DEF end
<1>4. walk' \in Walk
  BY <1>1, <1>2, <1>3 DEF Walk
<1>5. Page = {i \in Chosen : Place(Chosen, i) \in walk.offset + 1..walk.offset + walk.limit}
  BY DEF Page, search, Chosen, Rank, Place
<1>6. Chosen' = Chosen
  BY <1>3 DEF NextPage, Chosen, Selected
<1>7. IsFiniteSet(Page) /\ Cardinality(Page) \in Nat /\ Page \subseteq Ids
  <2>1. Page \in SUBSET Chosen /\ IsFiniteSet(Chosen) /\ Chosen \subseteq Ids
    BY <1>5, ChosenFinite
  <2>2. IsFiniteSet(Page)
    BY <2>1, FS_Subset
  <2> QED BY <2>1, <2>2, FS_CardinalityType
<1> QED BY <1>1, <1>2, <1>3, <1>4, <1>5, <1>6, <1>7 DEF NextPage, Page

(* What is behind the next offset has been passed already or is on the     *)
(* page.                                                                   *)
LEMMA PagePassed ==
  ASSUME TypeOK, Tracked, Passed, NextPage
  PROVE  Passed' /\ SkipsNeedLeavers'
<1> DEFINE o == walk.offset
           l == walk.limit
           V == (start \ moved.out) \ seen
           A == V \cap Behind(Chosen, o)
           B == (V \ Page) \cap Behind(Chosen, o + l)
<1>1. /\ walk.pc = "walking" /\ l \in Nat \ {0} /\ o \in Nat
      /\ Page = {i \in Chosen : Place(Chosen, i) \in o + 1..o + l}
      /\ walk'.offset = o + l
      /\ walk'.pc = IF Cardinality(Page) < l THEN "done" ELSE "walking"
      /\ Chosen' = Chosen /\ seen' = seen \cup Page /\ start' = start /\ moved' = moved
  BY PageRows
<1>2. /\ Chosen \in SUBSET Nat /\ IsFiniteSet(Chosen)
      /\ IsFiniteSet(start) /\ IsFiniteSet(moved.out)
  BY ChosenFinite
<1>3. \A i \in Chosen : Place(Chosen, i) \in Nat
  BY <1>2, PlaceNat
<1>4. B \in SUBSET A
  <2> SUFFICES ASSUME NEW i \in B PROVE i \in Behind(Chosen, o)
    OBVIOUS
  <2>1. i \in Chosen /\ Place(Chosen, i) <= o + l /\ i \notin Page
    BY DEF Behind
  <2>2. ~ Place(Chosen, i) \in o + 1..o + l
    BY <1>1, <2>1
  <2>3. Place(Chosen, i) <= o
    BY <1>1, <1>3, <2>1, <2>2
  <2> QED BY <2>1, <2>3 DEF Behind
<1>5. Cardinality(A) <= Cardinality(moved.out) /\ IsFiniteSet(A)
  <2>1. A \in SUBSET start
    OBVIOUS
  <2>2. IsFiniteSet(A)
    BY <1>2, <2>1, FS_Subset
  <2> QED BY <1>1, <2>2 DEF Passed
<1> HIDE DEF A
<1>6. Cardinality(B) <= Cardinality(moved.out)
  <2> HIDE DEF B
  <2>1. Cardinality(B) \in Nat /\ Cardinality(A) \in Nat /\ Cardinality(B) <= Cardinality(A)
    BY <1>4, <1>5, Larger
  <2>2. Cardinality(moved.out) \in Nat
    BY <1>2, FS_CardinalityType
  <2> QED BY <1>5, <2>1, <2>2
<1>7. ((start \ moved.out) \ seen)' = V \ Page
  BY <1>1
<1>8. Passed'
  <2>1. (((start \ moved.out) \ seen) \cap Behind(Chosen, walk.offset))' = B
    BY <1>1, <1>7
  <2>2. moved'.out = moved.out
    BY <1>1
  <2> HIDE DEF B
  <2> QED BY <1>6, <2>1, <2>2 DEF Passed
<1>9. SkipsNeedLeavers'
  <2>1. CASE walk'.pc = "done"
    <3>1. Cardinality(Page) < l
      BY <1>1, <2>1
    <3>2. Behind(Chosen, o + l) = Chosen
      BY <1>1, <1>2, <3>1, LastPage
    <3>3. start \ moved.out \subseteq Chosen
      BY <1>1 DEF Tracked
    <3>4. V \ Page = B
      BY <3>2, <3>3
    <3>5. moved'.out = moved.out
      BY <1>1
    <3> HIDE DEF B
    <3> QED BY <1>6, <1>7, <3>4, <3>5 DEF SkipsNeedLeavers
  <2>2. CASE walk'.pc # "done"
    BY <2>2 DEF SkipsNeedLeavers
  <2> QED BY <2>1, <2>2
<1> QED BY <1>8, <1>9

(* A row on the page is returned, and either it is newly seen or it was    *)
(* ahead and seen.                                                         *)
LEMMA PageCounted ==
  ASSUME TypeOK, Tracked, Counted, NextPage
  PROVE  Counted' /\ RepeatsNeedEntries'
<1> DEFINE o == walk.offset
           l == walk.limit
           A == Ahead(Chosen, o) \cap seen
           B == Ahead(Chosen, o + l) \cap seen
           D == Page \cap seen
<1>1. /\ walk.pc = "walking" /\ l \in Nat \ {0} /\ o \in Nat
      /\ Page = {i \in Chosen : Place(Chosen, i) \in o + 1..o + l}
      /\ walk'.offset = o + l
      /\ Chosen' = Chosen /\ seen' = seen \cup Page /\ moved' = moved
      /\ returned' = returned + Cardinality(Page)
      /\ IsFiniteSet(Page) /\ Cardinality(Page) \in Nat
  BY PageRows
<1>2. /\ Chosen \in SUBSET Nat /\ IsFiniteSet(Chosen)
      /\ IsFiniteSet(seen) /\ IsFiniteSet(moved.in)
  BY ChosenFinite
<1>3. \A i \in Chosen : Place(Chosen, i) \in Nat
  BY <1>2, PlaceNat
<1>4. \A i \in Ahead(Chosen, o + l) : i \notin Page /\ i \in Ahead(Chosen, o)
  <2> TAKE i \in Ahead(Chosen, o + l)
  <2>1. i \in Chosen /\ Place(Chosen, i) > o + l
    BY DEF Ahead
  <2>2. Place(Chosen, i) > o /\ ~ Place(Chosen, i) \in o + 1..o + l
    BY <1>1, <1>3, <2>1
  <2> QED BY <1>1, <2>1, <2>2 DEF Ahead
<1>5. \A i \in Page : i \in Ahead(Chosen, o)
  <2> TAKE i \in Page
  <2>1. i \in Chosen /\ Place(Chosen, i) \in o + 1..o + l
    BY <1>1
  <2>2. Place(Chosen, i) > o
    BY <1>1, <2>1
  <2> QED BY <2>1, <2>2 DEF Ahead
<1>6. Ahead(Chosen, o + l) \cap (seen \cup Page) = B
  BY <1>4
<1>7. B \cap D = {} /\ B \cup D \in SUBSET A
  BY <1>4, <1>5
<1>8. IsFiniteSet(A) /\ IsFiniteSet(B) /\ IsFiniteSet(D)
  BY <1>2, FS_Intersection
<1>9. returned + Cardinality(A) <= Cardinality(seen) + Cardinality(moved.in)
  BY <1>1 DEF Counted
<1>10. Cardinality(seen \cup Page) = Cardinality(seen) + Cardinality(Page) - Cardinality(D)
  <2>1. seen \cap Page = D
    OBVIOUS
  <2> QED BY <1>1, <1>2, <2>1, FS_Union
<1> HIDE DEF A, B, D
<1>11. Cardinality(B) + Cardinality(D) <= Cardinality(A)
  <2>1. Cardinality(B \cup D) = Cardinality(B) + Cardinality(D) - Cardinality(B \cap D)
    BY <1>8, FS_Union
  <2>2. Cardinality(B \cap D) = 0
    BY <1>7, FS_EmptySet
  <2>3. Cardinality(B \cup D) <= Cardinality(A)
    BY <1>7, <1>8, FS_Subset
  <2>4. Cardinality(B) \in Nat /\ Cardinality(D) \in Nat
    BY <1>8, FS_CardinalityType
  <2> QED BY <2>1, <2>2, <2>3, <2>4
<1>12. /\ Cardinality(A) \in Nat /\ Cardinality(B) \in Nat /\ Cardinality(D) \in Nat
       /\ Cardinality(seen) \in Nat /\ Cardinality(moved.in) \in Nat
  BY <1>2, <1>8, FS_CardinalityType
<1>13. returned \in Nat
  BY DEF TypeOK
<1>14. /\ returned + Cardinality(Page) + Cardinality(B)
            <= Cardinality(seen \cup Page) + Cardinality(moved.in)
       /\ returned + Cardinality(Page) <= Cardinality(seen \cup Page) + Cardinality(moved.in)
  BY <1>1, <1>9, <1>10, <1>11, <1>12, <1>13
<1>15. moved'.in = moved.in /\ (Ahead(Chosen, walk.offset) \cap seen)' = B
  BY <1>1, <1>6
<1> QED BY <1>1, <1>14, <1>15 DEF Counted, RepeatsNeedEntries

(* A page keeps the invariant.                                             *)
LEMMA PageStep ==
  ASSUME WalkInv, NextPage
  PROVE  WalkInv'
<1>1. TypeOK /\ Tracked /\ Passed /\ Counted
  BY DEF WalkInv
<1>2. TypeOK'
  <2>1. returned \in Nat /\ seen \subseteq Ids
    BY <1>1 DEF TypeOK
  <2>2. returned' \in Nat /\ seen' \subseteq Ids /\ walk' \in Walk
    BY <1>1, <2>1, PageRows
  <2> QED BY <1>1, <2>2 DEF NextPage, TypeOK
<1>3. Tracked'
  <2>1. /\ walk.pc = "walking" /\ walk'.pc \in {"done", "walking"}
        /\ Chosen' = Chosen /\ start' = start /\ moved' = moved /\ payments' = payments
    BY <1>1, PageRows
  <2> QED BY <1>1, <2>1 DEF Tracked, Final
<1>4. Passed' /\ SkipsNeedLeavers' /\ Counted' /\ RepeatsNeedEntries'
  BY <1>1, PagePassed, PageCounted
<1> QED BY <1>2, <1>3, <1>4 DEF WalkInv

-----------------------------------------------------------------------------
(* Nothing is there and nobody walks.                                      *)
LEMMA InitInv == Init => WalkInv
<1> SUFFICES ASSUME Init PROVE WalkInv
  OBVIOUS
<1>1. TypeOK
  <2>1. NoPayment \in Payment
    BY DEF NoPayment, Payment
  <2>2. walk \in Walk
    BY ListingConstants DEF Init, Walk, Filters
  <2> QED BY <2>1, <2>2 DEF Init, TypeOK
<1>2. Tracked /\ Passed /\ Counted /\ SkipsNeedLeavers
  BY DEF Init, Tracked, Passed, Counted, SkipsNeedLeavers
<1>3. RepeatsNeedEntries
  <2>1. Cardinality({}) = 0
    BY FS_EmptySet
  <2>2. returned = 0 /\ seen = {} /\ moved.in = {}
    BY DEF Init
  <2>3. 0 <= 0 + 0
    OBVIOUS
  <2> QED BY <2>1, <2>2, <2>3 DEF RepeatsNeedEntries
<1> QED BY <1>1, <1>2, <1>3 DEF WalkInv

(* The invariant is inductive.                                             *)
LEMMA NextInv == WalkInv /\ [Next]_vars => WalkInv'
<1> SUFFICES ASSUME WalkInv, [Next]_vars PROVE WalkInv'
  OBVIOUS
<1>1. ASSUME NEW i \in Ids, Create(i) \/ Process(i) PROVE WalkInv'
  <2>1. PICK payment \in Payment : Changes(i, payment) /\ Update(i, payment)
    BY <1>1, RowSteps DEF WalkInv
  <2> QED BY <2>1, ChangeStep
<1>2. ASSUME NEW filter \in Filters, NEW limit \in 1..MaxLimit, Begin(filter, limit)
      PROVE  WalkInv'
  BY <1>2, BeginStep
<1>3. CASE NextPage
  BY <1>3, PageStep
<1>4. CASE UNCHANGED vars
  BY <1>4 DEF vars, WalkInv, TypeOK, Tracked, Passed, Counted, SkipsNeedLeavers,
              RepeatsNeedEntries, Chosen, Selected, Final
<1> QED BY <1>1, <1>2, <1>3, <1>4 DEF Next

(* A walk over the pages of GET /payments (EntityRepo.search) misses no    *)
(* more payments than left its filter while it went on, and in particular  *)
(* none when nothing can leave.                                            *)
THEOREM SkipsBounded == Spec => []SkipsNeedLeavers
<1>1. WalkInv => SkipsNeedLeavers
  BY DEF WalkInv
<1> QED BY InitInv, NextInv, <1>1, PTL DEF Spec

(* It returns no more rows twice than entered its filter.                  *)
THEOREM RepeatsBounded == Spec => []RepeatsNeedEntries
<1>1. WalkInv => RepeatsNeedEntries
  BY DEF WalkInv
<1> QED BY InitInv, NextInv, <1>1, PTL DEF Spec
=============================================================================
