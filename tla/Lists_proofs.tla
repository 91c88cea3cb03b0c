------------------------------ MODULE Lists_proofs ------------------------------
(***************************************************************************)
(* Facts about lists, for lists of any length.                             *)
(*                                                                         *)
(* An induction over the length is an argument about a set of places: a    *)
(* set that holds 0 and, with n - 1, also n holds every place (UpTo),      *)
(* because the places it lacks would have a least one.  That a loop has a  *)
(* value after every place (RecursionExists) is such an argument too, with *)
(* the body of the loop a function from values to values.                  *)
(***************************************************************************)
EXTENDS Lists, WellFoundedInduction, TLAPS

LEMMA LeastElement ==
  ASSUME NEW S \in SUBSET Nat, S # {}
  PROVE  \E x \in S : \A y \in S : x <= y
<1>1. PICK x \in S : \A y \in S : <<y, x>> \notin OpToRel(<, Nat)
  BY WFMin, NatLessThanWellFounded
<1>2. ASSUME NEW a \in Nat, NEW b \in Nat, a < b
      PROVE  <<a, b>> \in OpToRel(<, Nat)
  <2>1. <<a, b>> \in Nat \X Nat /\ <<a, b>>[1] = a /\ <<a, b>>[2] = b
    OBVIOUS
  <2> QED BY <2>1, <1>2, Zenon DEF OpToRel
<1>3. \A y \in S : ~(y < x)
  BY <1>1, <1>2
<1> QED BY <1>3

LEMMA UpTo ==
  ASSUME NEW N \in Nat, NEW G,
         0 \in G,
         \A n \in 1 .. N : n - 1 \in G => n \in G
  PROVE  \A n \in 0 .. N : n \in G
<1> DEFINE Bad == {n \in 0 .. N : n \notin G}
<1> SUFFICES ASSUME Bad # {} PROVE FALSE
  OBVIOUS
<1>1. PICK n \in Bad : \A m \in Bad : n <= m
  <2>1. Bad \in SUBSET Nat
    OBVIOUS
  <2> HIDE DEF Bad
  <2> QED BY <2>1, LeastElement
<1>2. n \in 1 .. N
  BY <1>1
<1>3. n - 1 \in 0 .. N /\ n - 1 \notin Bad
  BY <1>1, <1>2
<1> QED BY <1>1, <1>2, <1>3

-----------------------------------------------------------------------------
(* The values of a loop over N places: before the first one, and from each *)
(* to the next.                                                            *)
Values(N, T) == [0 .. N -> T]
Bodies(N, T) == [1 .. N -> [T -> T]]
Loops(f, N, first, body) ==
    f[0] = first /\ \A n \in 1 .. N : f[n] = body[n][f[n - 1]]

LEMMA RecursionExists ==
  ASSUME NEW N \in Nat, NEW T, NEW first \in T, NEW body \in Bodies(N, T)
  PROVE  \E f \in Values(N, T) : Loops(f, N, first, body)
<1> DEFINE Is(f, m) == f \in Values(m, T) /\ Loops(f, m, first, body)
           G == {m \in 0 .. N : \E f : Is(f, m)}
<1> USE DEF Values, Bodies, Loops
<1>1. 0 \in G
  <2> DEFINE f == [n \in 0 .. 0 |-> first]
  <2>1. Is(f, 0)
    OBVIOUS
  <2> HIDE DEF Is, f
  <2> QED BY <2>1
<1>2. ASSUME NEW m \in 1 .. N, m - 1 \in G
      PROVE  m \in G
  <2>1. PICK f : Is(f, m - 1)
    BY <1>2
  <2>2. m - 1 \in 0 .. (m - 1) /\ f[m - 1] \in T
    BY <2>1
  <2> DEFINE g == [n \in 0 .. m |-> IF n = m THEN body[m][f[m - 1]] ELSE f[n]]
  <2>3. body[m][f[m - 1]] \in T
    BY <2>2
  <2>4. \A n \in 0 .. m : n # m => n \in 0 .. (m - 1)
    OBVIOUS
  <2>5. g \in [0 .. m -> T]
    BY <2>1, <2>3, <2>4
  <2>6. g[0] = first
    BY <2>1
  <2>7. ASSUME NEW n \in 1 .. m
        PROVE  g[n] = body[n][g[n - 1]]
    <3>1. CASE n = m
      BY <3>1
    <3>2. CASE n # m
      <4>1. n \in 1 .. (m - 1) /\ n - 1 \in 0 .. m /\ n - 1 # m /\ n \in 0 .. m
        BY <3>2
      <4> QED BY <4>1, <2>1
    <3> QED BY <3>1, <3>2
  <2>8. Is(g, m)
    <3> HIDE DEF g
    <3> QED BY <2>5, <2>6, <2>7
  <2> HIDE DEF Is, g
  <2> QED BY <2>8
<1>3. N \in G
  <2> HIDE DEF G
  <2>1. \A m \in 0 .. N : m \in G
    BY <1>1, <1>2, UpTo
  <2> QED BY <2>1
<1>4. PICK f : Is(f, N)
  BY <1>3
<1> QED BY <1>4

(* A loop that appends the elements it keeps.                              *)
LEMMA GatherExists ==
  ASSUME NEW U, NEW s \in Seq(U), NEW keep \in [1 .. Len(s) -> [Seq(U) -> BOOLEAN]]
  PROVE  \E f \in [0 .. Len(s) -> Seq(U)] :
            /\ f[0] = <<>>
            /\ \A n \in 1 .. Len(s) :
                  f[n] = IF keep[n][f[n - 1]] THEN Append(f[n - 1], s[n])
                         ELSE f[n - 1]
<1> DEFINE N == Len(s)
           T == Seq(U)
           body == [n \in 1 .. N |-> [out \in T |->
                      IF keep[n][out] THEN Append(out, s[n]) ELSE out]]
<1>1. N \in Nat /\ <<>> \in T /\ \A n \in 1 .. N : s[n] \in U
  OBVIOUS
<1>2. body \in Bodies(N, T)
  <2>1. \A n \in 1 .. N : \A out \in T : Append(out, s[n]) \in T
    BY <1>1
  <2> HIDE DEF T
  <2> QED BY <2>1 DEF Bodies
<1>3. PICK f \in Values(N, T) : Loops(f, N, <<>>, body)
  <2> HIDE DEF N, T, body
  <2> QED BY <1>1, <1>2, RecursionExists
<1>4. f \in [0 .. N -> T] /\ f[0] = <<>>
  BY <1>3 DEF Values, Loops
<1>5. ASSUME NEW n \in 1 .. N
      PROVE  f[n] = IF keep[n][f[n - 1]] THEN Append(f[n - 1], s[n])
                    ELSE f[n - 1]
  <2>1. n - 1 \in 0 .. N
    BY <1>1
  <2>2. f[n - 1] \in T
    BY <2>1, <1>4
  <2>3. f[n] = body[n][f[n - 1]]
    BY <1>3 DEF Loops
  <2> HIDE DEF T
  <2> QED BY <2>2, <2>3
<1> QED BY <1>4, <1>5

LEMMA GatherTyped ==
  ASSUME NEW U, NEW s \in Seq(U), NEW g, g[0] = <<>>,
         \A n \in 1 .. Len(s) : g[n] \in {g[n - 1], Append(g[n - 1], s[n])}
  PROVE  \A n \in 0 .. Len(s) : g[n] \in Seq(U)
<1> DEFINE G == {n \in 0 .. Len(s) : g[n] \in Seq(U)}
<1>1. Len(s) \in Nat
  OBVIOUS
<1>2. 0 \in G
  <2>1. 0 \in 0 .. Len(s) /\ <<>> \in Seq(U)
    BY <1>1
  <2> QED BY <2>1
<1>3. ASSUME NEW n \in 1 .. Len(s), n - 1 \in G
      PROVE  n \in G
  <2>1. g[n - 1] \in Seq(U) /\ s[n] \in U /\ n \in 0 .. Len(s)
    BY <1>1, <1>3
  <2>2. Append(g[n - 1], s[n]) \in Seq(U)
    BY <2>1
  <2>3. g[n] \in Seq(U)
    BY <2>1, <2>2
  <2> QED BY <2>1, <2>3
<1>4. \A n \in 0 .. Len(s) : n \in G
  <2> HIDE DEF G
  <2> QED BY <1>1, <1>2, <1>3, UpTo
<1> QED BY <1>4

-----------------------------------------------------------------------------
(* Only.                                                                   *)

OnlyValues(kept, s, S) ==
    /\ kept[0] = <<>>
    /\ \A n \in 1 .. Len(s) :
          kept[n] = IF s[n] \in S THEN Append(kept[n - 1], s[n])
                    ELSE kept[n - 1]
    /\ Only(s, S) = kept[Len(s)]

LEMMA OnlyLoop ==
  ASSUME NEW U, NEW s \in Seq(U), NEW S
  PROVE  \E kept \in Values(Len(s), Seq(U)) : OnlyValues(kept, s, S)
<1> DEFINE N == Len(s)
           T == Seq(U)
           Loop(f) == [n \in 0 .. N |->
                         IF n = 0 THEN <<>>
                         ELSE IF s[n] \in S THEN Append(f[n - 1], s[n])
                         ELSE f[n - 1]]
           keep == [n \in 1 .. N |-> [out \in T |-> s[n] \in S]]
           kept == CHOOSE g : g = Loop(g)
<1>1. N \in Nat
  OBVIOUS
<1>2. PICK f \in [0 .. N -> T] :
         /\ f[0] = <<>>
         /\ \A n \in 1 .. N :
               f[n] = IF keep[n][f[n - 1]] THEN Append(f[n - 1], s[n])
                      ELSE f[n - 1]
  <2>1. keep \in [1 .. N -> [T -> BOOLEAN]]
    OBVIOUS
  <2> HIDE DEF keep
  <2> QED BY <2>1, GatherExists
<1>3. f = Loop(f)
  <2>1. ASSUME NEW n \in 1 .. N
        PROVE  f[n] = IF s[n] \in S THEN Append(f[n - 1], s[n]) ELSE f[n - 1]
    <3>1. n - 1 \in 0 .. N
      BY <1>1
    <3>2. f[n - 1] \in T
      BY <1>2, <3>1
    <3>3. keep[n][f[n - 1]] = (s[n] \in S)
      <4> HIDE DEF T
      <4> QED BY <3>2
    <3> HIDE DEF keep
    <3> QED BY <1>2, <3>3
  <2>2. \A n \in 0 .. N : n = 0 \/ n \in 1 .. N
    BY <1>1
  <2> HIDE DEF T, keep, N
  <2> QED BY <1>2, <2>1, <2>2
<1>4. kept = Loop(kept)
  <2> HIDE DEF Loop
  <2> QED BY <1>3
<1>5. Only(s, S) = kept[N]
  BY DEF Only
<1> HIDE DEF kept
<1>6. /\ kept[0] = <<>>
      /\ \A n \in 1 .. N :
            kept[n] = IF s[n] \in S THEN Append(kept[n - 1], s[n])
                      ELSE kept[n - 1]
  <2>1. 0 \in 0 .. N /\ \A n \in 1 .. N : n \in 0 .. N /\ n # 0
    BY <1>1
  <2> QED BY <1>4, <2>1
<1>7. kept \in [0 .. N -> T]
  <2>3. \A n \in 0 .. N : kept[n] \in T
    BY <1>6, GatherTyped
  <2>4. kept = [n \in 0 .. N |-> kept[n]]
    BY <1>4
  <2> QED BY <2>3, <2>4
<1> QED BY <1>5, <1>6, <1>7 DEF Values, OnlyValues

(* What Only returns are elements of the list, and of the set.             *)
LEMMA OnlyType ==
  ASSUME NEW U, NEW s \in Seq(U), NEW S
  PROVE  /\ Only(s, S) \in Seq(U)
         /\ \A i \in DOMAIN Only(s, S) : Only(s, S)[i] \in S \cap ToSet(s)
<1>0. PICK kept \in Values(Len(s), Seq(U)) : OnlyValues(kept, s, S)
  BY OnlyLoop
<1>1. /\ kept \in [0 .. Len(s) -> Seq(U)]
      /\ kept[0] = <<>>
      /\ \A n \in 1 .. Len(s) :
            kept[n] = IF s[n] \in S THEN Append(kept[n - 1], s[n])
                      ELSE kept[n - 1]
      /\ Only(s, S) = kept[Len(s)]
  BY <1>0 DEF Values, OnlyValues
<1> DEFINE V == S \cap ToSet(s)
           G == {n \in 0 .. Len(s) : \A i \in DOMAIN kept[n] : kept[n][i] \in V}
<1>2. Len(s) \in Nat
  OBVIOUS
<1>3. 0 \in G
  <2>1. 0 \in 0 .. Len(s) /\ DOMAIN kept[0] = {}
    BY <1>1, <1>2
  <2> QED BY <2>1
<1>4. ASSUME NEW n \in 1 .. Len(s), n - 1 \in G
      PROVE  n \in G
  <2>1. n \in 0 .. Len(s) /\ kept[n - 1] \in Seq(U) /\ s[n] \in U
    BY <1>1, <1>2, <1>4
  <2>2. CASE s[n] \notin S
    BY <1>1, <1>4, <2>1, <2>2
  <2>3. CASE s[n] \in S
    <3>1. kept[n] = Append(kept[n - 1], s[n]) /\ s[n] \in V
      <4>1. s[n] \in ToSet(s)
        BY <1>2, <2>1 DEF ToSet
      <4> QED BY <1>1, <2>3, <4>1
    <3> HIDE DEF V
    <3>2. \A i \in DOMAIN kept[n] : kept[n][i] \in V
      BY <2>1, <3>1, <1>4
    <3> QED BY <2>1, <3>2
  <2> QED BY <2>2, <2>3
<1>5. Len(s) \in G
  <2> HIDE DEF G
  <2>1. \A n \in 0 .. Len(s) : n \in G
    BY <1>2, <1>3, <1>4, UpTo
  <2> QED BY <1>2, <2>1
<1>6. kept[Len(s)] \in Seq(U)
  BY <1>1, <1>2
<1> QED BY <1>1, <1>5, <1>6

(* The elements of t come from places of their own of the first n of s.     *)
PlacesOf(p, t, s, n) ==
    /\ p \in [DOMAIN t -> 1 .. n]
    /\ \A i \in DOMAIN t : t[i] = s[p[i]]
    /\ \A i \in DOMAIN t : \A j \in DOMAIN t : p[i] = p[j] => i = j

LEMMA PlacesAppend ==
  ASSUME NEW U, NEW s \in Seq(U), NEW n \in 1 .. Len(s), NEW t \in Seq(U),
         NEW p, PlacesOf(p, t, s, n - 1)
  PROVE  /\ \E q : PlacesOf(q, t, s, n)
         /\ \E q : PlacesOf(q, Append(t, s[n]), s, n)
<1> DEFINE u == Append(t, s[n])
           q == [i \in DOMAIN u |-> IF i \in DOMAIN t THEN p[i] ELSE n]
<1>1. /\ p \in [DOMAIN t -> 1 .. n - 1]
      /\ \A i \in DOMAIN t : t[i] = s[p[i]]
      /\ \A i \in DOMAIN t : \A j \in DOMAIN t : p[i] = p[j] => i = j
  BY DEF PlacesOf
<1>2. n \in Nat /\ 1 .. n - 1 \subseteq 1 .. n /\ n \in 1 .. n
      /\ n \notin 1 .. n - 1
  OBVIOUS
<1>3. p \in [DOMAIN t -> 1 .. n]
  BY <1>1, <1>2
<1>4. PlacesOf(p, t, s, n)
  BY <1>1, <1>3 DEF PlacesOf
<1>5. /\ DOMAIN u = 1 .. Len(t) + 1 /\ DOMAIN t = 1 .. Len(t)
      /\ Len(t) \in Nat /\ u[Len(t) + 1] = s[n]
      /\ \A i \in DOMAIN t : u[i] = t[i]
  BY <1>2
<1>6. \A i \in DOMAIN u : i \in DOMAIN t \/ i = Len(t) + 1
  BY <1>5
<1>7. Len(t) + 1 \notin DOMAIN t
  BY <1>5
<1> HIDE DEF u
<1>8. q \in [DOMAIN u -> 1 .. n]
  BY <1>2, <1>3
<1>9. \A i \in DOMAIN u : q[i] = IF i \in DOMAIN t THEN p[i] ELSE n
  OBVIOUS
<1> HIDE DEF q
<1>10. \A i \in DOMAIN u : u[i] = s[q[i]]
  <2> SUFFICES ASSUME NEW i \in DOMAIN u PROVE u[i] = s[q[i]]
    OBVIOUS
  <2>1. CASE i \in DOMAIN t
    BY <1>1, <1>5, <1>9, <2>1
  <2>2. CASE i \notin DOMAIN t
    BY <1>5, <1>6, <1>9, <2>2
  <2> QED BY <2>1, <2>2
<1>11. ASSUME NEW i \in DOMAIN u, NEW j \in DOMAIN u, q[i] = q[j]
       PROVE  i = j
  <2>1. \A k \in DOMAIN t : p[k] \in 1 .. n - 1
    BY <1>1
  <2>2. CASE i \in DOMAIN t /\ j \in DOMAIN t
    BY <1>1, <1>9, <1>11, <2>2
  <2>3. CASE i \notin DOMAIN t /\ j \notin DOMAIN t
    BY <1>6, <2>3
  <2>4. CASE i \in DOMAIN t /\ j \notin DOMAIN t
    BY <1>2, <1>9, <1>11, <2>1, <2>4
  <2>5. CASE i \notin DOMAIN t /\ j \in DOMAIN t
    BY <1>2, <1>9, <1>11, <2>1, <2>5
  <2> QED BY <2>2, <2>3, <2>4, <2>5
<1>12. PlacesOf(q, u, s, n)
  BY <1>8, <1>10, <1>11 DEF PlacesOf
<1> QED BY <1>4, <1>12 DEF u

(* What Only returns has places of its own in the list.                    *)
LEMMA OnlyPlaces ==
  ASSUME NEW U, NEW s \in Seq(U), NEW S
  PROVE  \E p : PlacesOf(p, Only(s, S), s, Len(s))
<1>0. PICK kept \in Values(Len(s), Seq(U)) : OnlyValues(kept, s, S)
  BY OnlyLoop
<1>1. /\ kept \in [0 .. Len(s) -> Seq(U)]
      /\ kept[0] = <<>>
      /\ \A n \in 1 .. Len(s) :
            kept[n] = IF s[n] \in S THEN Append(kept[n - 1], s[n])
                      ELSE kept[n - 1]
      /\ Only(s, S) = kept[Len(s)]
  BY <1>0 DEF Values, OnlyValues
<1>2. Len(s) \in Nat
  OBVIOUS
<1> DEFINE G == {n \in 0 .. Len(s) : \E p : PlacesOf(p, kept[n], s, n)}
<1>3. 0 \in G
  <2> DEFINE p == [i \in {} |-> 0]
  <2>1. 0 \in 0 .. Len(s) /\ DOMAIN kept[0] = {}
    BY <1>1, <1>2
  <2>2. p \in [{} -> 1 .. 0]
    OBVIOUS
  <2>3. PlacesOf(p, kept[0], s, 0)
    BY <2>1, <2>2 DEF PlacesOf
  <2> QED BY <2>1, <2>3
<1>4. ASSUME NEW n \in 1 .. Len(s), n - 1 \in G
      PROVE  n \in G
  <2>1. n \in 0 .. Len(s) /\ kept[n - 1] \in Seq(U)
    BY <1>1, <1>2, <1>4
  <2> DEFINE t == kept[n - 1]
  <2>2. PICK p : PlacesOf(p, t, s, n - 1)
    BY <1>4
  <2>3. kept[n] = IF s[n] \in S THEN Append(t, s[n]) ELSE t
    BY <1>1
  <2>4. t \in Seq(U)
    BY <2>1
  <2> HIDE DEF t
  <2>5. /\ \E q : PlacesOf(q, t, s, n)
        /\ \E q : PlacesOf(q, Append(t, s[n]), s, n)
    BY <2>2, <2>4, PlacesAppend
  <2>6. \E q : PlacesOf(q, kept[n], s, n)
    BY <2>3, <2>5
  <2> QED BY <2>1, <2>6
<1>5. Len(s) \in G
  <2> HIDE DEF G
  <2>1. \A n \in 0 .. Len(s) : n \in G
    BY <1>2, <1>3, <1>4, UpTo
  <2> QED BY <1>2, <2>1
<1> QED BY <1>1, <1>5

-----------------------------------------------------------------------------
(* Distinct.                                                               *)

DistinctValues(out, s) ==
    /\ out[0] = <<>>
    /\ \A n \in 1 .. Len(s) :
          out[n] = IF s[n] \in ToSet(out[n - 1]) THEN out[n - 1]
                   ELSE Append(out[n - 1], s[n])
    /\ Distinct(s) = out[Len(s)]

LEMMA DistinctLoop ==
  ASSUME NEW U, NEW s \in Seq(U)
  PROVE  \E out \in Values(Len(s), Seq(U)) : DistinctValues(out, s)
<1> DEFINE N == Len(s)
           T == Seq(U)
           Loop(f) == [n \in 0 .. N |->
                         IF n = 0 THEN <<>>
                         ELSE IF s[n] \in ToSet(f[n - 1]) THEN f[n - 1]
                         ELSE Append(f[n - 1], s[n])]
           keep == [n \in 1 .. N |-> [o \in T |-> s[n] \notin ToSet(o)]]
           out == CHOOSE g : g = Loop(g)
<1>1. N \in Nat
  OBVIOUS
<1>2. PICK f \in [0 .. N -> T] :
         /\ f[0] = <<>>
         /\ \A n \in 1 .. N :
               f[n] = IF keep[n][f[n - 1]] THEN Append(f[n - 1], s[n])
                      ELSE f[n - 1]
  <2>1. keep \in [1 .. N -> [T -> BOOLEAN]]
    OBVIOUS
  <2> HIDE DEF keep
  <2> QED BY <2>1, GatherExists
<1>3. f = Loop(f)
  <2>1. ASSUME NEW n \in 1 .. N
        PROVE  f[n] = IF s[n] \in ToSet(f[n - 1]) THEN f[n - 1]
                      ELSE Append(f[n - 1], s[n])
    <3>1. n - 1 \in 0 .. N
      BY <1>1
    <3>2. f[n - 1] \in T
      BY <1>2, <3>1
    <3>3. keep[n][f[n - 1]] = (s[n] \notin ToSet(f[n - 1]))
      <4> HIDE DEF T
      <4> QED BY <3>2
    <3> HIDE DEF keep
    <3> QED BY <1>2, <3>3
  <2>2. \A n \in 0 .. N : n = 0 \/ n \in 1 .. N
    BY <1>1
  <2> HIDE DEF T, keep, N
  <2> QED BY <1>2, <2>1, <2>2
<1>4. out = Loop(out)
  <2> HIDE DEF Loop
  <2> QED BY <1>3
<1>5. Distinct(s) = out[N]
  BY DEF Distinct
<1> HIDE DEF out
<1>6. /\ out[0] = <<>>
      /\ \A n \in 1 .. N :
            out[n] = IF s[n] \in ToSet(out[n - 1]) THEN out[n - 1]
                     ELSE Append(out[n - 1], s[n])
  <2>1. 0 \in 0 .. N /\ \A n \in 1 .. N : n \in 0 .. N /\ n # 0
    BY <1>1
  <2> QED BY <1>4, <2>1
<1>7. out \in [0 .. N -> T]
  <2>1. \A n \in 0 .. N : out[n] \in T
    BY <1>6, GatherTyped
  <2>2. out = [n \in 0 .. N |-> out[n]]
    BY <1>4
  <2> QED BY <2>1, <2>2
<1> QED BY <1>5, <1>6, <1>7 DEF Values, DistinctValues

(* Two sequences that loop in the same way for a while.                    *)
LEMMA DistinctAgree ==
  ASSUME NEW U, NEW s \in Seq(U), NEW t \in Seq(U), NEW N \in Nat,
         N <= Len(s), N <= Len(t), \A n \in 1 .. N : s[n] = t[n],
         NEW f, DistinctValues(f, s), NEW g, DistinctValues(g, t)
  PROVE  f[N] = g[N]
<1> DEFINE G == {n \in 0 .. N : f[n] = g[n]}
<1>1. f[0] = g[0] /\ 0 \in 0 .. N
  BY DEF DistinctValues
<1>2. ASSUME NEW n \in 1 .. N, n - 1 \in G
      PROVE  n \in G
  <2>1. n \in 1 .. Len(s) /\ n \in 1 .. Len(t) /\ n \in 0 .. N /\ s[n] = t[n]
    BY <1>2
  <2>2. f[n - 1] = g[n - 1]
    BY <1>2
  <2>3. f[n] = IF s[n] \in ToSet(f[n - 1]) THEN f[n - 1]
               ELSE Append(f[n - 1], s[n])
    BY <2>1 DEF DistinctValues
  <2>4. g[n] = IF t[n] \in ToSet(g[n - 1]) THEN g[n - 1]
               ELSE Append(g[n - 1], t[n])
    BY <2>1 DEF DistinctValues
  <2> QED BY <2>1, <2>2, <2>3, <2>4
<1>3. \A n \in 0 .. N : n \in G
  <2>1. 0 \in G
    BY <1>1
  <2> HIDE DEF G
  <2> QED BY <2>1, <1>2, UpTo
<1> QED BY <1>3

(* An element more is left out when it is there already.                   *)
LEMMA DistinctAppend ==
  ASSUME NEW U, NEW s \in Seq(U), NEW x \in U
  PROVE  Distinct(Append(s, x)) = IF x \in ToSet(Distinct(s)) THEN Distinct(s)
                                  ELSE Append(Distinct(s), x)
<1> DEFINE t == Append(s, x)
<1>1. /\ t \in Seq(U) /\ Len(t) = Len(s) + 1 /\ Len(s) \in Nat
      /\ \A n \in 1 .. Len(s) : s[n] = t[n]
      /\ t[Len(s) + 1] = x
  OBVIOUS
<1> HIDE DEF t
<1>2. PICK f \in Values(Len(s), Seq(U)) : DistinctValues(f, s)
  BY DistinctLoop
<1>3. PICK g \in Values(Len(t), Seq(U)) : DistinctValues(g, t)
  BY <1>1, DistinctLoop
<1>4. f[Len(s)] = g[Len(s)]
  BY <1>1, <1>2, <1>3, DistinctAgree
<1>5. Distinct(s) = f[Len(s)] /\ Distinct(t) = g[Len(s) + 1]
  BY <1>1, <1>2, <1>3 DEF DistinctValues
<1>6. g[Len(s) + 1] = IF x \in ToSet(g[Len(s)]) THEN g[Len(s)]
                      ELSE Append(g[Len(s)], x)
  <2>1. Len(s) + 1 \in 1 .. Len(t) /\ (Len(s) + 1) - 1 = Len(s)
    BY <1>1
  <2> QED BY <1>1, <1>3, <2>1 DEF DistinctValues
<1> QED BY <1>4, <1>5, <1>6 DEF t

\* a sequence names nothing twice
OnceEach(s) == \A i, j \in DOMAIN s : s[i] = s[j] => i = j

LEMMA AppendOnce ==
  ASSUME NEW U, NEW s \in Seq(U), NEW x \in U, OnceEach(s), x \notin ToSet(s)
  PROVE  OnceEach(Append(s, x))
<1>1. /\ DOMAIN Append(s, x) = 1 .. Len(s) + 1 /\ DOMAIN s = 1 .. Len(s)
      /\ Len(s) \in Nat /\ Append(s, x)[Len(s) + 1] = x
      /\ \A i \in 1 .. Len(s) : Append(s, x)[i] = s[i] /\ s[i] # x
  BY DEF ToSet
<1>2. \A i \in 1 .. Len(s) + 1 : i \in 1 .. Len(s) \/ i = Len(s) + 1
  BY <1>1
<1> QED BY <1>1, <1>2 DEF OnceEach

LEMMA ToSetAppend ==
  ASSUME NEW U, NEW s \in Seq(U), NEW x \in U
  PROVE  ToSet(Append(s, x)) = ToSet(s) \cup {x}
<1>1. /\ DOMAIN Append(s, x) = 1 .. Len(s) + 1 /\ DOMAIN s = 1 .. Len(s)
      /\ Len(s) \in Nat /\ Append(s, x)[Len(s) + 1] = x
      /\ \A i \in 1 .. Len(s) : Append(s, x)[i] = s[i]
  OBVIOUS
<1>2. \A i \in 1 .. Len(s) + 1 : i \in 1 .. Len(s) \/ i = Len(s) + 1
  BY <1>1
<1>3. 1 .. Len(s) \subseteq 1 .. Len(s) + 1 /\ Len(s) + 1 \in 1 .. Len(s) + 1
  BY <1>1
<1> QED BY <1>1, <1>2, <1>3 DEF ToSet

(* Distinct has the elements of the list, each of them once.               *)
LEMMA DistinctType ==
  ASSUME NEW U, NEW s \in Seq(U)
  PROVE  /\ Distinct(s) \in Seq(U)
         /\ OnceEach(Distinct(s))
         /\ ToSet(Distinct(s)) = ToSet(s)
<1>0. PICK out \in Values(Len(s), Seq(U)) : DistinctValues(out, s)
  BY DistinctLoop
<1>1. /\ out \in [0 .. Len(s) -> Seq(U)]
      /\ out[0] = <<>>
      /\ \A n \in 1 .. Len(s) :
            out[n] = IF s[n] \in ToSet(out[n - 1]) THEN out[n - 1]
                     ELSE Append(out[n - 1], s[n])
      /\ Distinct(s) = out[Len(s)]
  BY <1>0 DEF Values, DistinctValues
<1> DEFINE Before(n) == {s[i] : i \in 1 .. n}
           G == {n \in 0 .. Len(s) : OnceEach(out[n]) /\ ToSet(out[n]) = Before(n)}
<1>2. Len(s) \in Nat
  OBVIOUS
<1>3. 0 \in G
  <2>1. 0 \in 0 .. Len(s) /\ DOMAIN out[0] = {} /\ Before(0) = {}
    BY <1>1, <1>2
  <2> QED BY <2>1 DEF OnceEach, ToSet
<1>4. ASSUME NEW n \in 1 .. Len(s), n - 1 \in G
      PROVE  n \in G
  <2>1. n \in 0 .. Len(s) /\ out[n - 1] \in Seq(U) /\ s[n] \in U
    BY <1>1, <1>2
  <2>2. Before(n) = Before(n - 1) \cup {s[n]}
    <3>1. \A i \in 1 .. n : i \in 1 .. (n - 1) \/ i = n
      BY <1>2
    <3>2. 1 .. (n - 1) \subseteq 1 .. n /\ n \in 1 .. n
      BY <1>2
    <3> QED BY <3>1, <3>2
  <2>3. OnceEach(out[n - 1]) /\ ToSet(out[n - 1]) = Before(n - 1)
    BY <1>4
  <2> HIDE DEF Before
  <2>4. CASE s[n] \in ToSet(out[n - 1])
    BY <1>1, <2>1, <2>2, <2>3, <2>4
  <2>5. CASE s[n] \notin ToSet(out[n - 1])
    <3>1. out[n] = Append(out[n - 1], s[n])
      BY <1>1, <2>5
    <3>2. OnceEach(out[n])
      BY <2>1, <2>3, <2>5, <3>1, AppendOnce
    <3>3. ToSet(out[n]) = ToSet(out[n - 1]) \cup {s[n]}
      BY <2>1, <3>1, ToSetAppend
    <3> QED BY <2>1, <2>2, <2>3, <3>2, <3>3
  <2> QED BY <2>4, <2>5
<1>5. Len(s) \in G
  <2> HIDE DEF G
  <2>1. \A n \in 0 .. Len(s) : n \in G
    BY <1>2, <1>3, <1>4, UpTo
  <2> QED BY <1>2, <2>1
<1>6. out[Len(s)] \in Seq(U)
  BY <1>1, <1>2
<1>7. Before(Len(s)) = ToSet(s)
  BY DEF ToSet
<1> QED BY <1>1, <1>5, <1>6, <1>7

-----------------------------------------------------------------------------
(* Prefix and FlattenSeq.                                                  *)

LEMMA PrefixType ==
  ASSUME NEW U, NEW s \in Seq(U), NEW n \in Nat
  PROVE  /\ Prefix(s, n) \in Seq(U)
         /\ Len(Prefix(s, n)) \in 0 .. n
         /\ DOMAIN Prefix(s, n) \subseteq DOMAIN s
         /\ \A i \in DOMAIN Prefix(s, n) : Prefix(s, n)[i] = s[i]
<1> DEFINE k == IF Len(s) < n THEN Len(s) ELSE n
<1>1. k \in 0 .. Len(s) /\ k <= n
  OBVIOUS
<1> HIDE DEF k
<1>2. /\ SubSeq(s, 1, k) \in Seq(U) /\ Len(SubSeq(s, 1, k)) = k
      /\ DOMAIN SubSeq(s, 1, k) = 1 .. k
      /\ \A i \in 1 .. k : SubSeq(s, 1, k)[i] = s[i]
  BY <1>1
<1>3. Prefix(s, n) = SubSeq(s, 1, k)
  BY DEF Prefix, k
<1> QED BY <1>1, <1>2, <1>3

(* The lists of a list put together are a list of their elements.          *)
LEMMA FlattenType ==
  ASSUME NEW U, NEW ss \in Seq(Seq(U))
  PROVE  FlattenSeq(ss) \in Seq(U)
<1> DEFINE N == Len(ss)
           T == Seq(U)
           Loop(f) == [i \in 1 .. N |-> IF i = 1 THEN ss[i] ELSE f[i - 1] \o ss[i]]
           body == [n \in 1 .. N |-> [out \in T |->
                      IF n = 1 THEN ss[n] ELSE out \o ss[n]]]
           flatten == CHOOSE g : g = Loop(g)
<1>1. N \in Nat /\ <<>> \in T /\ \A n \in 1 .. N : ss[n] \in T
  OBVIOUS
<1>2. \A n \in 1 .. N : \A out \in T : out \o ss[n] \in T
  BY <1>1
<1>3. CASE N = 0
  <2>1. FlattenSeq(ss) = ss /\ ss = <<>>
    BY <1>3 DEF FlattenSeq
  <2> QED BY <1>1, <2>1
<1>4. CASE N # 0
  <2>1. body \in Bodies(N, T)
    <3> HIDE DEF T, N
    <3> QED BY <1>1, <1>2 DEF Bodies
  <2>2. PICK f \in Values(N, T) : Loops(f, N, <<>>, body)
    <3> HIDE DEF N, T, body
    <3> QED BY <1>1, <2>1, RecursionExists
  <2> DEFINE f1 == [i \in 1 .. N |-> f[i]]
  <2>3. ASSUME NEW n \in 1 .. N
        PROVE  f[n] = IF n = 1 THEN ss[n] ELSE f[n - 1] \o ss[n]
    <3>1. n - 1 \in 0 .. N
      BY <1>1
    <3>2. f[n - 1] \in T
      <4> HIDE DEF N, T
      <4> QED BY <2>2, <3>1 DEF Values
    <3>3. f[n] = body[n][f[n - 1]]
      BY <2>2 DEF Loops
    <3> HIDE DEF T, N
    <3> QED BY <3>2, <3>3
  <2>4. f1 = Loop(f1)
    <3>1. ASSUME NEW n \in 1 .. N
          PROVE  f1[n] = IF n = 1 THEN ss[n] ELSE f1[n - 1] \o ss[n]
      <4>1. n # 1 => n - 1 \in 1 .. N
        BY <1>1
      <4> HIDE DEF N
      <4> QED BY <2>3, <4>1
    <3> HIDE DEF N
    <3> QED BY <3>1
  <2>5. flatten = Loop(flatten)
    <3> HIDE DEF Loop, f1
    <3> QED BY <2>4
  <2>6. FlattenSeq(ss) = flatten[N]
    BY <1>4 DEF FlattenSeq
  <2> HIDE DEF flatten
  <2> DEFINE G == {n \in 0 .. N : n = 0 \/ flatten[n] \in T}
  <2>7. ASSUME NEW n \in 1 .. N, n - 1 \in G
        PROVE  n \in G
    <3>1. flatten[n] = IF n = 1 THEN ss[n] ELSE flatten[n - 1] \o ss[n]
      <4> HIDE DEF N
      <4> QED BY <2>5
    <3>2. n \in 0 .. N /\ (n = 1 \/ n - 1 # 0)
      BY <1>1
    <3>3. n = 1 \/ flatten[n - 1] \in T
      BY <2>7, <3>2
    <3>4. flatten[n] \in T
      <4>1. n # 1 => flatten[n - 1] \o ss[n] \in T
        <5> HIDE DEF T, N
        <5> QED BY <1>2, <3>3
      <4> HIDE DEF T, N
      <4> QED BY <1>1, <3>1, <4>1
    <3> QED BY <3>2, <3>4
  <2>8. N \in G
    <3>1. 0 \in G
      BY <1>1
    <3> HIDE DEF G
    <3>2. \A n \in 0 .. N : n \in G
      BY <1>1, <3>1, <2>7, UpTo
    <3> QED BY <1>1, <3>2
  <2> QED BY <1>4, <2>6, <2>8
<1> QED BY <1>3, <1>4
-----------------------------------------------------------------------------
(* Min and Max of places, and sorting.                                     *)

LEMMA MinIs ==
  ASSUME NEW S \in SUBSET Nat, S # {}
  PROVE  Min(S) \in S /\ \A x \in S : Min(S) <= x
BY LeastElement DEF Min

LEMMA MaxIs ==
  ASSUME NEW N \in Nat, NEW S \in SUBSET (0 .. N), S # {}
  PROVE  Max(S) \in S /\ \A x \in S : x <= Max(S)
<1> DEFINE T == {N - x : x \in S}
<1>1. T \in SUBSET Nat /\ T # {}
  <2>1. \A x \in S : x \in 0 .. N /\ N - x \in Nat
    OBVIOUS
  <2>2. PICK x : x \in S
    OBVIOUS
  <2>3. N - x \in T
    BY <2>2
  <2> QED BY <2>1, <2>3
<1>2. PICK y \in T : \A z \in T : y <= z
  <2> HIDE DEF T
  <2> QED BY <1>1, LeastElement
<1>3. PICK x \in S : y = N - x
  OBVIOUS
<1>4. \A z \in S : z <= x
  BY <1>2, <1>3
<1> QED BY <1>4 DEF Max

LEMMA InsertAtType ==
  ASSUME NEW U, NEW s \in Seq(U), NEW x \in U, NEW k \in DOMAIN s
  PROVE  /\ InsertAt(s, k, x) \in Seq(U)
         /\ Len(InsertAt(s, k, x)) = Len(s) + 1
         /\ \A i \in 1 .. Len(s) + 1 :
               InsertAt(s, k, x)[i] = IF i < k THEN s[i]
                                      ELSE IF i = k THEN x ELSE s[i - 1]
<1> DEFINE a == SubSeq(s, 1, k - 1)
           b == SubSeq(s, k, Len(s))
<1>1. Len(s) \in Nat /\ k \in 1 .. Len(s)
  OBVIOUS
<1>2. /\ a \in Seq(U) /\ Len(a) = k - 1
      /\ \A i \in 1 .. k - 1 : a[i] = s[i]
  BY <1>1
<1>3. /\ b \in Seq(U) /\ Len(b) = Len(s) - k + 1
      /\ \A i \in 1 .. Len(s) - k + 1 : b[i] = s[k + i - 1]
  BY <1>1
<1> HIDE DEF a, b
<1>4. InsertAt(s, k, x) = (a \o <<x>>) \o b
  BY DEF InsertAt, a, b
<1> DEFINE c == a \o <<x>>
<1>5. /\ c \in Seq(U) /\ Len(c) = k
      /\ \A i \in 1 .. k : c[i] = IF i < k THEN s[i] ELSE x
  BY <1>1, <1>2
<1> HIDE DEF c
<1>6. /\ c \o b \in Seq(U) /\ Len(c \o b) = Len(s) + 1
      /\ \A i \in 1 .. Len(s) + 1 :
            (c \o b)[i] = IF i <= k THEN c[i] ELSE b[i - k]
  <2>1. /\ c \o b \in Seq(U) /\ Len(c \o b) = Len(c) + Len(b)
        /\ \A i \in 1 .. Len(c) + Len(b) :
              (c \o b)[i] = IF i <= Len(c) THEN c[i] ELSE b[i - Len(c)]
    <3>1. c \in Seq(U) /\ b \in Seq(U)
      BY <1>3, <1>5
    <3> QED BY <3>1
  <2>2. Len(c) + Len(b) = Len(s) + 1
    BY <1>1, <1>3, <1>5
  <2> QED BY <1>5, <2>1, <2>2
<1>7. \A i \in 1 .. Len(s) + 1 :
         (c \o b)[i] = IF i < k THEN s[i] ELSE IF i = k THEN x ELSE s[i - 1]
  <2> SUFFICES ASSUME NEW i \in 1 .. Len(s) + 1
               PROVE  (c \o b)[i] = IF i < k THEN s[i]
                                    ELSE IF i = k THEN x ELSE s[i - 1]
    OBVIOUS
  <2>1. CASE i <= k
    BY <1>1, <1>5, <1>6, <2>1
  <2>2. CASE i > k
    <3>1. i - k \in 1 .. Len(s) - k + 1 /\ k + (i - k) - 1 = i - 1
      BY <1>1, <2>2
    <3>2. (c \o b)[i] = b[i - k]
      BY <1>1, <1>6, <2>2
    <3>3. b[i - k] = s[i - 1]
      BY <1>3, <3>1
    <3>4. ~(i < k) /\ i # k
      BY <1>1, <2>2
    <3> QED BY <3>2, <3>3, <3>4
  <2>3. i <= k \/ i > k
    BY <1>1
  <2> QED BY <2>1, <2>2, <2>3
<1> QED BY <1>4, <1>6, <1>7 DEF c

(* Sorting moves the elements to other places, each to one of its own.     *)
Permutes(p, s, t) ==
    /\ p \in [DOMAIN s -> DOMAIN s]
    /\ \A i \in DOMAIN s : \A j \in DOMAIN s : p[i] = p[j] => i = j
    /\ t = [i \in DOMAIN s |-> s[p[i]]]

\* the place of s[n] among the places of the elements before it
Place(keys, before, n) ==
    LET lower == {i \in DOMAIN before : Outranks(keys[n], keys[before[i]])}
    IN  IF lower = {} THEN Append(before, n)
        ELSE InsertAt(before, Min(lower), n)

LEMMA PlaceType ==
  ASSUME NEW N \in Nat, NEW keys, NEW before \in Seq(1 .. N), NEW n \in 1 .. N
  PROVE  /\ Place(keys, before, n) \in Seq(1 .. N)
         /\ Len(Place(keys, before, n)) = Len(before) + 1
         /\ OnceEach(before) /\ n \notin ToSet(before) =>
              OnceEach(Place(keys, before, n))
         /\ ToSet(Place(keys, before, n)) \subseteq ToSet(before) \cup {n}
<1> DEFINE U == 1 .. N
           lower == {i \in DOMAIN before : Outranks(keys[n], keys[before[i]])}
           out == Place(keys, before, n)
<1>1. Len(before) \in Nat /\ DOMAIN before = 1 .. Len(before)
  OBVIOUS
<1>2. CASE lower = {}
  <2>1. out = Append(before, n)
    BY <1>2 DEF Place
  <2> HIDE DEF out, lower, U
  <2>2. n \in U /\ before \in Seq(U)
    BY DEF U
  <2>3. Append(before, n) \in Seq(U) /\ Len(Append(before, n)) = Len(before) + 1
    BY <2>2
  <2>4. ToSet(Append(before, n)) = ToSet(before) \cup {n}
    BY <2>2, ToSetAppend
  <2>5. OnceEach(before) /\ n \notin ToSet(before) => OnceEach(Append(before, n))
    BY <2>2, AppendOnce
  <2> QED BY <2>1, <2>3, <2>4, <2>5 DEF out, U
<1>3. CASE lower # {}
  <2> DEFINE k == Min(lower)
  <2>1. lower \in SUBSET Nat /\ lower \subseteq DOMAIN before
    BY <1>1
  <2>2. out = InsertAt(before, k, n)
    BY <1>3 DEF Place
  <2> HIDE DEF lower
  <2>3. k \in DOMAIN before
    BY <1>3, <2>1, MinIs
  <2> HIDE DEF k, out, U
  <2>4. n \in U /\ before \in Seq(U)
    BY DEF U
  <2>5. /\ out \in Seq(U)
        /\ Len(out) = Len(before) + 1
        /\ \A i \in 1 .. Len(before) + 1 :
              out[i] = IF i < k THEN before[i]
                       ELSE IF i = k THEN n ELSE before[i - 1]
    <3>1. /\ InsertAt(before, k, n) \in Seq(U)
          /\ Len(InsertAt(before, k, n)) = Len(before) + 1
          /\ \A i \in 1 .. Len(before) + 1 :
                InsertAt(before, k, n)[i] =
                  IF i < k THEN before[i]
                  ELSE IF i = k THEN n ELSE before[i - 1]
      BY <2>3, <2>4, InsertAtType
    <3> QED BY <2>2, <3>1
  <2>6. DOMAIN out = 1 .. Len(before) + 1 /\ k \in 1 .. Len(before)
    BY <1>1, <2>3, <2>5
  <2>7. ToSet(out) \subseteq ToSet(before) \cup {n}
    <3>1. ASSUME NEW i \in DOMAIN out
          PROVE  out[i] \in ToSet(before) \cup {n}
      <4>1. i < k => i \in DOMAIN before
        BY <1>1, <2>6
      <4>2. ~(i < k) /\ i # k => i - 1 \in DOMAIN before
        BY <1>1, <2>6
      <4> QED BY <2>5, <2>6, <4>1, <4>2 DEF ToSet
    <3> QED BY <3>1 DEF ToSet
  <2>8. ASSUME OnceEach(before), n \notin ToSet(before)
        PROVE  OnceEach(out)
    <3> DEFINE place(i) == IF i < k THEN i ELSE i - 1
    <3>1. ASSUME NEW i \in DOMAIN out, i # k
          PROVE  place(i) \in DOMAIN before /\ out[i] = before[place(i)]
      BY <1>1, <2>5, <2>6, <3>1
    <3>2. \A i \in DOMAIN before : before[i] # n
      BY <2>8 DEF ToSet
    <3>3. ASSUME NEW i \in DOMAIN out, NEW j \in DOMAIN out, out[i] = out[j]
          PROVE  i = j
      <4>1. k \in DOMAIN out /\ out[k] = n
        BY <1>1, <2>5, <2>6
      <4>2. CASE i = k \/ j = k
        <5> HIDE DEF place
        <5> QED BY <3>1, <3>2, <3>3, <4>1, <4>2
      <4>3. CASE i # k /\ j # k
        <5>1. place(i) \in DOMAIN before /\ place(j) \in DOMAIN before
              /\ before[place(i)] = before[place(j)]
          <6> HIDE DEF place
          <6> QED BY <3>1, <3>3, <4>3
        <5>2. place(i) = place(j)
          <6> HIDE DEF place
          <6> QED BY <5>1, <2>8 DEF OnceEach
        <5> QED BY <5>2, <4>3, <2>6, <1>1
      <4> QED BY <4>2, <4>3
    <3> QED BY <3>3 DEF OnceEach
  <2> QED BY <2>5, <2>7, <2>8 DEF out, U
<1> QED BY <1>2, <1>3

LEMMA RankedPermutes ==
  ASSUME NEW U, NEW s \in Seq(U), NEW keys
  PROVE  \E p : Permutes(p, s, Ranked(s, keys))
<1> DEFINE N == Len(s)
           T == Seq(1 .. N)
           Loop(f) == [n \in 0 .. N |->
                         IF n = 0 THEN <<>> ELSE Place(keys, f[n - 1], n)]
           body == [n \in 1 .. N |-> [out \in T |-> Place(keys, out, n)]]
           order == CHOOSE g : g = Loop(g)
<1>1. N \in Nat /\ DOMAIN s = 1 .. N /\ <<>> \in T
  OBVIOUS
<1>2. \A n \in 1 .. N : \A out \in T : Place(keys, out, n) \in T
  BY <1>1, PlaceType
<1>3. order = Loop(order)
  <2>1. body \in Bodies(N, T)
    <3> HIDE DEF T, N
    <3> QED BY <1>2 DEF Bodies
  <2>2. PICK f \in Values(N, T) : Loops(f, N, <<>>, body)
    <3> HIDE DEF N, T, body
    <3> QED BY <1>1, <2>1, RecursionExists
  <2>3. ASSUME NEW n \in 1 .. N
        PROVE  f[n] = Place(keys, f[n - 1], n)
    <3>1. n - 1 \in 0 .. N
      BY <1>1
    <3>2. f[n - 1] \in T
      <4> HIDE DEF N, T
      <4> QED BY <2>2, <3>1 DEF Values
    <3>3. f[n] = body[n][f[n - 1]]
      BY <2>2 DEF Loops
    <3> HIDE DEF T, N
    <3> QED BY <3>2, <3>3
  <2>4. f = Loop(f)
    <3>1. f[0] = <<>> /\ f \in [0 .. N -> T]
      BY <2>2 DEF Loops, Values
    <3>2. \A n \in 0 .. N : n = 0 \/ n \in 1 .. N
      BY <1>1
    <3> HIDE DEF T, N, body
    <3> QED BY <2>3, <3>1, <3>2
  <2> HIDE DEF Loop
  <2> QED BY <2>4
<1>4. Ranked(s, keys) = [i \in DOMAIN s |-> s[order[N][i]]]
  BY DEF Ranked, Place
<1> HIDE DEF order
<1> DEFINE G == {n \in 0 .. N :
                   /\ order[n] \in T /\ Len(order[n]) = n
                   /\ OnceEach(order[n]) /\ ToSet(order[n]) \subseteq 1 .. n}
<1>5. 0 \in G
  <2>1. 0 \in 0 .. N /\ order[0] = <<>>
    BY <1>1, <1>3
  <2>2. OnceEach(<<>>) /\ ToSet(<<>>) = {}
    BY DEF OnceEach, ToSet
  <2> QED BY <1>1, <2>1, <2>2
<1>6. ASSUME NEW n \in 1 .. N, n - 1 \in G
      PROVE  n \in G
  <2> DEFINE b == order[n - 1]
  <2>1. order[n] = Place(keys, b, n) /\ n \in 0 .. N
    BY <1>1, <1>3
  <2>2. /\ b \in Seq(1 .. N) /\ Len(b) = n - 1
        /\ OnceEach(b) /\ ToSet(b) \subseteq 1 .. n - 1
    BY <1>6
  <2>3. n \notin ToSet(b)
    BY <2>2
  <2> HIDE DEF b
  <2>4. /\ Place(keys, b, n) \in Seq(1 .. N)
        /\ Len(Place(keys, b, n)) = Len(b) + 1
        /\ OnceEach(b) /\ n \notin ToSet(b) => OnceEach(Place(keys, b, n))
        /\ ToSet(Place(keys, b, n)) \subseteq ToSet(b) \cup {n}
    BY <1>1, <2>2, PlaceType
  <2>5. 1 .. n - 1 \subseteq 1 .. n /\ n \in 1 .. n /\ (n - 1) + 1 = n
    OBVIOUS
  <2>6. /\ order[n] \in T /\ Len(order[n]) = n
        /\ OnceEach(order[n]) /\ ToSet(order[n]) \subseteq 1 .. n
    <3>1. ToSet(order[n]) \subseteq 1 .. n
      <4>1. ToSet(order[n]) \subseteq ToSet(b) \cup {n}
        BY <2>1, <2>4
      <4> QED BY <4>1, <2>2, <2>5
    <3>2. Len(order[n]) = n
      BY <2>1, <2>2, <2>4, <2>5
    <3> QED BY <2>1, <2>2, <2>3, <2>4, <3>1, <3>2
  <2> QED BY <2>1, <2>6
<1>7. N \in G
  <2> HIDE DEF G
  <2>1. \A n \in 0 .. N : n \in G
    BY <1>1, <1>5, <1>6, UpTo
  <2> QED BY <1>1, <2>1
<1> DEFINE p == order[N]
<1>8. /\ p \in [1 .. N -> 1 .. N]
      /\ \A i \in DOMAIN p : \A j \in DOMAIN p : p[i] = p[j] => i = j
  <2>1. p \in T /\ Len(p) = N /\ OnceEach(p)
    BY <1>7
  <2> HIDE DEF p
  <2>2. p \in [1 .. N -> 1 .. N]
    <3> HIDE DEF N
    <3> QED BY <1>1, <2>1
  <2> QED BY <2>1, <2>2 DEF OnceEach
<1> HIDE DEF p
<1>9. Permutes(p, s, Ranked(s, keys))
  BY <1>1, <1>4, <1>8 DEF Permutes, p
<1> QED BY <1>9

LEMMA RankedType ==
  ASSUME NEW U, NEW s \in Seq(U), NEW keys
  PROVE  /\ Ranked(s, keys) \in Seq(U)
         /\ Len(Ranked(s, keys)) = Len(s)
<1>1. PICK p : Permutes(p, s, Ranked(s, keys))
  BY RankedPermutes
<1> DEFINE t == Ranked(s, keys)
<1>2. p \in [DOMAIN s -> DOMAIN s] /\ t = [i \in DOMAIN s |-> s[p[i]]]
  BY <1>1 DEF Permutes
<1>3. /\ DOMAIN s = 1 .. Len(s) /\ Len(s) \in Nat
      /\ \A i \in DOMAIN s : s[i] \in U
  OBVIOUS
<1> HIDE DEF t
<1>4. t \in [1 .. Len(s) -> U]
  BY <1>2, <1>3
<1> QED BY <1>3, <1>4 DEF t

=============================================================================
