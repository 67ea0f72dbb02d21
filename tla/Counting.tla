------------------------------- MODULE Counting -------------------------------
(***************************************************************************)
(* How often members of a set occur in a sequence, and how that changes    *)
(* when the sequence is used as a pipe: appended to, and taken from; what  *)
(* holds of a sequence with an element put in front; least elements, and   *)
(* the elements of a finite set of numbers by how many are below.          *)
(***************************************************************************)
EXTENDS SequenceTheorems, FiniteSetTheorems, WellFoundedInduction, TLAPS

Places(s, T) == {i \in DOMAIN s : s[i] \in T}

(* There are finitely many, so that they can be counted.                   *)
LEMMA PlacesFinite ==
  ASSUME NEW S, NEW s \in Seq(S), NEW T
  PROVE  /\ Places(s, T) \subseteq 1 .. Len(s)
         /\ IsFiniteSet(Places(s, T))
         /\ Cardinality(Places(s, T)) \in Nat
<1>1. Len(s) \in Nat /\ DOMAIN s = 1 .. Len(s)
  BY LenProperties
<1>2. Places(s, T) \subseteq 1 .. Len(s)
  BY <1>1 DEF Places
<1>3. IsFiniteSet(1 .. Len(s))
  BY <1>1, FS_Interval
<1>4. IsFiniteSet(Places(s, T))
  BY <1>2, <1>3, FS_Subset
<1> QED
  BY <1>2, <1>4, FS_CardinalityType

LEMMA PlacesNone ==
  ASSUME NEW T
  PROVE  Cardinality(Places(<<>>, T)) = 0
<1>1. Places(<<>>, T) = {}
  BY DEF Places
<1> QED
  BY <1>1, FS_EmptySet

(* An element put at the end counts for itself and nothing else.           *)
LEMMA PlacesAppend ==
  ASSUME NEW S, NEW s \in Seq(S), NEW e \in S, NEW T
  PROVE  /\ e \in T =>
              Cardinality(Places(Append(s, e), T)) = Cardinality(Places(s, T)) + 1
         /\ e \notin T => Cardinality(Places(Append(s, e), T)) = Cardinality(Places(s, T))
<1>1. Len(s) \in Nat /\ DOMAIN s = 1 .. Len(s)
  BY LenProperties
<1>2. /\ Append(s, e) \in Seq(S)
      /\ Len(Append(s, e)) = Len(s) + 1
      /\ \A i \in 1 .. Len(s) : Append(s, e)[i] = s[i]
      /\ Append(s, e)[Len(s) + 1] = e
  BY AppendProperties
<1>3. DOMAIN Append(s, e) = 1 .. Len(s) + 1
  BY <1>2, LenProperties
<1>4. Places(Append(s, e), T) = Places(s, T) \cup (IF e \in T THEN {Len(s) + 1} ELSE {})
  BY <1>1, <1>2, <1>3 DEF Places
<1>5. Len(s) + 1 \notin Places(s, T)
  BY <1>1, PlacesFinite
<1>6. CASE e \in T
  <2>1. IsFiniteSet(Places(s, T))
    BY PlacesFinite
  <2> QED
    BY <1>4, <1>5, <1>6, <2>1, FS_AddElement
<1>7. CASE e \notin T
  <2>1. Places(Append(s, e), T) = Places(s, T)
    BY <1>4, <1>7
  <2> QED
    BY <2>1, <1>7
<1> QED
  BY <1>6, <1>7

(* Taking the first element takes its place, and moves the others.         *)
LEMMA PlacesTail ==
  ASSUME NEW S, NEW s \in Seq(S), s # <<>>, NEW T
  PROVE  /\ \A i \in Nat : i \in Places(Tail(s), T) <=> i # 0 /\ i + 1 \in Places(s, T)
         /\ Head(s) \in T =>
              Cardinality(Places(s, T)) = Cardinality(Places(Tail(s), T)) + 1
         /\ Head(s) \notin T => Cardinality(Places(s, T)) = Cardinality(Places(Tail(s), T))
<1> DEFINE rest  == Places(s, T) \ {1}
           shift == [i \in Places(Tail(s), T) |-> i + 1]
<1>1. Len(s) \in Nat \ {0} /\ DOMAIN s = 1 .. Len(s) /\ Head(s) = s[1]
  BY EmptySeq, LenProperties
<1>2. /\ Tail(s) \in Seq(S) /\ Len(Tail(s)) = Len(s) - 1
      /\ \A i \in 1 .. Len(Tail(s)) : Tail(s)[i] = s[i + 1]
  BY HeadTailProperties
<1>3. DOMAIN Tail(s) = 1 .. Len(s) - 1
  BY <1>2, LenProperties
<1>4. \A i \in Nat : i \in Places(Tail(s), T) <=> i # 0 /\ i + 1 \in Places(s, T)
  BY <1>1, <1>2, <1>3 DEF Places
<1>5. /\ Places(Tail(s), T) \subseteq Nat \ {0} /\ Places(s, T) \subseteq Nat \ {0}
      /\ IsFiniteSet(Places(Tail(s), T)) /\ IsFiniteSet(Places(s, T))
  <2>1. Places(Tail(s), T) \subseteq 1 .. Len(Tail(s)) /\ Places(s, T) \subseteq 1 .. Len(s)
    BY <1>2, PlacesFinite
  <2>2. IsFiniteSet(Places(Tail(s), T)) /\ IsFiniteSet(Places(s, T))
    BY <1>2, PlacesFinite
  <2> QED
    BY <1>1, <1>2, <2>1, <2>2
<1>6. shift \in Bijection(Places(Tail(s), T), rest)
  <2>1. shift \in [Places(Tail(s), T) -> rest]
    BY <1>4, <1>5
  <2>2. \A a, b \in Places(Tail(s), T) : shift[a] = shift[b] => a = b
    BY <1>5
  <2>3. \A r \in rest : \E i \in Places(Tail(s), T) : shift[i] = r
    <3> SUFFICES ASSUME NEW r \in rest
                 PROVE  \E i \in Places(Tail(s), T) : shift[i] = r
      OBVIOUS
    <3>1. r - 1 \in Nat /\ r - 1 # 0 /\ (r - 1) + 1 = r
      BY <1>5
    <3>2. r - 1 \in Places(Tail(s), T)
      BY <1>4, <3>1
    <3> QED
      BY <3>1, <3>2
  <2> QED
    BY <2>1, <2>2, <2>3 DEF Bijection, Injection, Surjection, IsInjective
<1>7. Cardinality(Places(Tail(s), T)) = Cardinality(rest) /\ IsFiniteSet(rest)
  <2>1. ExistsBijection(Places(Tail(s), T), rest)
    BY <1>6 DEF ExistsBijection
  <2> QED
    BY <1>5, <2>1, FS_Bijection
<1>8. CASE Head(s) \in T
  <2>1. 1 \in Places(s, T)
    BY <1>1, <1>8 DEF Places
  <2>2. Cardinality(rest) = Cardinality(Places(s, T)) - 1
    BY <1>5, <2>1, FS_RemoveElement
  <2>3. Cardinality(Places(s, T)) \in Nat
    BY <1>5, FS_CardinalityType
  <2> QED
    BY <1>4, <1>7, <1>8, <2>2, <2>3
<1>9. CASE Head(s) \notin T
  <2>1. rest = Places(s, T)
    BY <1>1, <1>9 DEF Places
  <2> HIDE DEF rest
  <2> QED
    BY <1>4, <1>7, <1>9, <2>1
<1> QED
  BY <1>8, <1>9

(* What the elements of a set are after a step of a pipe are elements that *)
(* were there, at the same place or one further, or the appended one.      *)
LEMMA PlacesKept ==
  ASSUME NEW S, NEW s \in Seq(S), NEW T, NEW t
  PROVE  \/ t = s
         \/ \E e \in S : t = Append(s, e) /\ e \notin T
         \/ s # <<>> /\ t = Tail(s)
         => \E d \in {0, 1} : \A j \in DOMAIN t : t[j] \in T =>
              j \in Nat /\ j + d \in DOMAIN s /\ s[j + d] = t[j]
<1>1. DOMAIN s = 1 .. Len(s) /\ Len(s) \in Nat
  BY LenProperties
<1>2. CASE t = s
  BY <1>1, <1>2
<1>3. ASSUME NEW e \in S, t = Append(s, e), e \notin T
      PROVE  \A j \in DOMAIN t : t[j] \in T =>
               j \in Nat /\ j + 0 \in DOMAIN s /\ s[j + 0] = t[j]
  <2>1. /\ Append(s, e) \in Seq(S)
        /\ Len(Append(s, e)) = Len(s) + 1
        /\ \A i \in 1 .. Len(s) : Append(s, e)[i] = s[i]
        /\ Append(s, e)[Len(s) + 1] = e
    BY AppendProperties
  <2>2. DOMAIN Append(s, e) = 1 .. Len(s) + 1
    BY <2>1, LenProperties
  <2>3. ASSUME NEW j \in 1 .. Len(s) + 1, t[j] \in T PROVE j \in 1 .. Len(s)
    BY <1>1, <1>3, <2>1, <2>3
  <2> QED
    BY <1>1, <1>3, <2>1, <2>2, <2>3
<1>4. ASSUME s # <<>>, t = Tail(s)
      PROVE  \A j \in DOMAIN t : j \in Nat /\ j + 1 \in DOMAIN s /\ s[j + 1] = t[j]
  <2>1. /\ Tail(s) \in Seq(S)
        /\ Len(Tail(s)) = Len(s) - 1
        /\ \A i \in 1 .. Len(s) - 1 : Tail(s)[i] = s[i + 1]
    BY <1>1, <1>4, HeadTailProperties
  <2>2. DOMAIN Tail(s) = 1 .. Len(s) - 1
    BY <2>1, LenProperties
  <2> QED
    BY <1>1, <1>4, <2>1, <2>2
<1> QED
  BY <1>2, <1>3, <1>4

LEMMA TailPlaces ==
  ASSUME NEW S, NEW s \in Seq(S), s # <<>>
  PROVE  /\ Head(s) = s[1] /\ 1 \in DOMAIN s
         /\ \A k \in DOMAIN Tail(s) :
              Tail(s)[k] = s[k + 1] /\ k + 1 \in DOMAIN s /\ k + 1 # 1
<1>1. Len(s) \in Nat \ {0} /\ DOMAIN s = 1 .. Len(s) /\ Head(s) = s[1]
  BY EmptySeq, LenProperties
<1>2. /\ Tail(s) \in Seq(S) /\ Len(Tail(s)) = Len(s) - 1
      /\ \A i \in 1 .. Len(Tail(s)) : Tail(s)[i] = s[i + 1]
  BY HeadTailProperties
<1>3. DOMAIN Tail(s) = 1 .. Len(s) - 1
  BY <1>2, LenProperties
<1> QED
  BY <1>1, <1>2, <1>3

(* One element put in front of the others, and its undoing.                *)
LEMMA ConsProperties ==
  ASSUME NEW S, NEW s \in Seq(S), NEW e \in S
  PROVE  /\ <<e>> \o s \in Seq(S) /\ <<e>> \o s # <<>>
         /\ DOMAIN (<<e>> \o s) = 1 .. Len(s) + 1
         /\ (<<e>> \o s)[1] = e
         /\ \A i \in 2 .. Len(s) + 1 : (<<e>> \o s)[i] = s[i - 1]
         /\ Head(<<e>> \o s) = e
         /\ Tail(<<e>> \o s) = s
<1> DEFINE one == <<e>>
           all == one \o s
<1>1. one \in Seq(S) /\ Len(one) = 1 /\ one[1] = e /\ Len(s) \in Nat
  BY LenProperties
<1> HIDE DEF one
<1>2. /\ all \in Seq(S) /\ Len(all) = Len(s) + 1
      /\ \A i \in 1 .. Len(s) + 1 : all[i] = IF i <= 1 THEN one[i] ELSE s[i - 1]
  <2>1. /\ all \in Seq(S) /\ Len(all) = Len(one) + Len(s)
        /\ \A i \in 1 .. Len(one) + Len(s) :
             all[i] = IF i <= Len(one) THEN one[i] ELSE s[i - Len(one)]
    BY <1>1, ConcatProperties
  <2>2. Len(one) + Len(s) = Len(s) + 1
    BY <1>1
  <2> QED
    BY <1>1, <2>1, <2>2
<1> HIDE DEF all
<1>3. all[1] = e /\ \A i \in 2 .. Len(s) + 1 : all[i] = s[i - 1]
  BY <1>1, <1>2
<1>4. all # <<>> /\ DOMAIN all = 1 .. Len(s) + 1
  BY <1>1, <1>2, LenProperties, EmptySeq
<1>5. Head(all) = e
  BY <1>2, <1>3, <1>4
<1>6. Tail(all) = s
  <2>1. /\ Tail(all) \in Seq(S) /\ Len(Tail(all)) = Len(all) - 1
        /\ \A i \in 1 .. Len(Tail(all)) : Tail(all)[i] = all[i + 1]
    BY <1>2, <1>4, HeadTailProperties
  <2>2. Len(Tail(all)) = Len(s) /\ \A i \in 1 .. Len(s) : Tail(all)[i] = s[i]
    BY <1>1, <1>2, <1>3, <2>1
  <2> QED
    BY <2>1, <2>2, SeqEqual
<1> QED
  BY <1>2, <1>3, <1>4, <1>5, <1>6 DEF all, one

LEMMA ConsHeadTail ==
  ASSUME NEW S, NEW s \in Seq(S), s # <<>>
  PROVE  <<Head(s)>> \o Tail(s) = s
<1> DEFINE all == <<Head(s)>> \o Tail(s)
<1>1. /\ Head(s) \in S /\ Tail(s) \in Seq(S) /\ Len(Tail(s)) = Len(s) - 1
      /\ \A i \in 1 .. Len(Tail(s)) : Tail(s)[i] = s[i + 1]
      /\ Head(s) = s[1] /\ Len(s) \in Nat \ {0}
  BY HeadTailProperties, EmptySeq, LenProperties
<1>2. /\ all \in Seq(S) /\ DOMAIN all = 1 .. Len(s)
      /\ all[1] = s[1] /\ \A i \in 2 .. Len(s) : all[i] = Tail(s)[i - 1]
  BY <1>1, ConsProperties
<1> HIDE DEF all
<1>3. Len(all) = Len(s)
  BY <1>1, <1>2, LenProperties
<1>4. \A i \in 1 .. Len(s) : all[i] = s[i]
  BY <1>1, <1>2
<1>5. all = s
  BY <1>2, <1>3, <1>4, SeqEqual
<1> QED
  BY <1>5 DEF all

(* A set of numbers that is not empty has a least one.                     *)
LEMMA LeastElement ==
  ASSUME NEW T \in SUBSET Nat, T # {}
  PROVE  \E x \in T : \A y \in T : x <= y
<1> DEFINE Below == {ss \in Nat \X Nat : ss[1] < ss[2]}
<1>1. IsWellFoundedOn(Below, Nat)
  BY NatLessThanWellFounded, Zenon DEF OpToRel
<1>2. PICK x \in T : \A y \in T : ~(<<y, x>> \in Below)
  BY <1>1, WFMin
<1>3. ASSUME NEW y \in T PROVE x <= y
  <2>1. ~(y < x)
    BY <1>2
  <2> QED
    BY <2>1
<1> QED
  BY <1>2, <1>3

(* The elements of a finite set of numbers can be counted off: there is    *)
(* one with any number of others below it, up to the last.                 *)
Below(T, x) == {y \in T : y < x}

LEMMA RankExists ==
  ASSUME NEW T \in SUBSET Nat, IsFiniteSet(T), NEW n \in Nat, 1 <= n, n <= Cardinality(T)
  PROVE  \E x \in T : Cardinality(Below(T, x)) = n - 1
<1> DEFINE Ranked(k) == \E x \in T : Cardinality(Below(T, x)) = k - 1
           Missing == {k \in Nat : 1 <= k /\ k <= Cardinality(T) /\ ~Ranked(k)}
<1>0. Cardinality(T) \in Nat
  BY FS_CardinalityType
<1> SUFFICES ASSUME Missing # {} PROVE FALSE
  OBVIOUS
<1>1. PICK k \in Missing : \A j \in Missing : k <= j
  BY LeastElement
<1>2. k \in Nat /\ 1 <= k /\ k <= Cardinality(T) /\ ~Ranked(k)
  BY <1>1
<1>3. CASE k = 1
  <2>1. T # {}
    BY <1>2, <1>3, FS_EmptySet
  <2>2. PICK x \in T : \A y \in T : x <= y
    BY <2>1, LeastElement
  <2>3. \A y \in T : ~(y < x)
    BY <2>2
  <2>4. Below(T, x) = {}
    BY <2>3 DEF Below
  <2> QED
    BY <1>2, <1>3, <2>4, FS_EmptySet
<1>4. CASE k # 1
  <2>1. k - 1 \in Nat /\ 1 <= k - 1 /\ k - 1 <= Cardinality(T) /\ k - 1 < k
    BY <1>0, <1>2, <1>4
  <2>2. Ranked(k - 1)
    <3>1. k - 1 \notin Missing
      BY <1>1, <1>2, <2>1
    <3> QED
      BY <2>1, <3>1
  <2>3. PICK x \in T : Cardinality(Below(T, x)) = k - 2
    BY <1>2, <2>2
  <2> DEFINE B == Below(T, x)
             U == {y \in T : y > x}
             BX == B \cup {x}
  <2>4. IsFiniteSet(B) /\ x \notin B
    <3>1. B \subseteq T /\ ~(x < x)
      BY DEF Below
    <3> QED
      BY <3>1, FS_Subset DEF Below
  <2>5. Cardinality(BX) = k - 1
    <3>1. Cardinality(BX) = Cardinality(B) + 1
      BY <2>4, FS_AddElement
    <3> QED
      BY <1>2, <2>3, <3>1
  <2>6. \A y \in T : y \in BX <=> y <= x
    <3>1. \A y \in T : y \in B <=> y < x
      BY DEF Below
    <3>2. \A y \in T : y <= x <=> y < x \/ y = x
      OBVIOUS
    <3> QED
      BY <3>1, <3>2
  <2>7. BX \subseteq T
    BY DEF Below
  <2> HIDE DEF B, BX
  <2>8. U # {}
    <3>1. SUFFICES ASSUME U = {} PROVE FALSE
      OBVIOUS
    <3>2. \A y \in T : y <= x
      BY <3>1
    <3>3. T = BX
      BY <2>6, <2>7, <3>2
    <3> QED
      BY <1>0, <1>2, <2>5, <3>3
  <2>9. PICK z \in U : \A y \in U : z <= y
    BY <2>8, LeastElement
  <2>10. \A y \in T : y < z <=> y <= x
    <3>1. z \in T /\ z > x
      BY <2>9
    <3>2. \A y \in T : y > x => z <= y
      BY <2>9
    <3> QED
      BY <3>1, <3>2
  <2>11. Below(T, z) = BX
    BY <2>6, <2>7, <2>10 DEF Below
  <2> QED
    BY <1>2, <2>5, <2>9, <2>11
<1> QED
  BY <1>3, <1>4
===============================================================================
