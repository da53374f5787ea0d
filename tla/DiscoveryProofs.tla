-------------------------- MODULE DiscoveryProofs --------------------------
(***************************************************************************)
(* Proofs about Discovery: what discovery makes of any openHAB model, and  *)
(* what the catalog holds whatever the user adds, edits and deletes.       *)
(*                                                                         *)
(* The loops of the model are recursive functions.  A lemma for each says  *)
(* that the function exists, others, by the least prefix where they would  *)
(* fail, what it computes.                                                 *)
(***************************************************************************)
EXTENDS Discovery, FiniteSetTheorems, SequenceTheorems, WellFoundedInduction, TLAPS

-----------------------------------------------------------------------------
(* Numbers and sequences.                                                  *)

LEMMA LeastExists ==
  ASSUME NEW T \in SUBSET Nat, T # {}
  PROVE  \E n \in T : \A m \in T : n <= m
<1>1. PICK n \in T : \A m \in T : ~ (<<m, n>> \in OpToRel(<, Nat))
  BY NatLessThanWellFounded, WFMin
<1>2. \A m \in T : ~ (m < n)
  BY <1>1 DEF OpToRel
<1>3. QED
  BY <1>2

IsSeq(s) == \E S : s \in Seq(S)

LEMMA SeqFacts ==
  ASSUME NEW s, IsSeq(s)
  PROVE  /\ Len(s) \in Nat
         /\ DOMAIN s = 1 .. Len(s)
         /\ s \in Seq(ToSet(s))
         /\ ToSet(s) = {s[i] : i \in 1 .. Len(s)}
         /\ s = [i \in 1 .. Len(s) |-> s[i]]
<1>1. PICK S : s \in Seq(S)
  BY DEF IsSeq
<1>2. Len(s) \in Nat /\ DOMAIN s = 1 .. Len(s)
  BY <1>1, LenProperties
<1>3. ToSet(s) = Range(s)
  BY DEF ToSet, Range
<1>4. s \in Seq(ToSet(s))
  BY <1>1, <1>3, SeqOfRange
<1>5. s = [i \in 1 .. Len(s) |-> s[i]]
  BY <1>1, <1>2, LenProperties
<1>6. QED
  BY <1>2, <1>4, <1>5 DEF ToSet

LEMMA Members ==
  ASSUME NEW s, IsSeq(s)
  PROVE  \A x : x \in ToSet(s) <=> \E i \in 1 .. Len(s) : x = s[i]
<1>1. ToSet(s) = {s[i] : i \in 1 .. Len(s)}
  BY SeqFacts
<1>2. QED
  BY <1>1

\* A list written as a function of its positions is a sequence.
LEMMA MapIsSeq ==
  ASSUME NEW n \in Nat, NEW f, f = [i \in 1 .. n |-> f[i]]
  PROVE  IsSeq(f) /\ Len(f) = n /\ DOMAIN f = 1 .. n
<1>1. f \in [1 .. n -> {f[i] : i \in 1 .. n}]
  OBVIOUS
<1>2. f \in Seq({f[i] : i \in 1 .. n})
  BY <1>1, SeqDef
<1>3. Len(f) = n
  BY <1>1, <1>2, LenProperties
<1>4. QED
  BY <1>2, <1>3, LenProperties DEF IsSeq

-----------------------------------------------------------------------------
(* FlattenSeq.                                                             *)

\* "f" has the concatenations of the first lists.
Flattens(f, seqs, n) ==
    f = [i \in 1 .. n |-> IF i = 1 THEN seqs[i] ELSE f[i - 1] \o seqs[i]]

LEMMA FlattenExists ==
  ASSUME NEW seqs, NEW N \in Nat
  PROVE  \E f : Flattens(f, seqs, N)
<1> DEFINE Bad == {n \in Nat : ~ \E f : Flattens(f, seqs, n)}
<1>1. SUFFICES ASSUME Bad # {} PROVE FALSE
  OBVIOUS
<1>2. PICK n \in Bad : \A m \in Bad : n <= m
  <2>1. Bad \in SUBSET Nat
    OBVIOUS
  <2> HIDE DEF Bad
  <2>2. QED
    BY <1>1, <2>1, LeastExists
<1>3. CASE n = 0
  <2>1. Flattens([i \in 1 .. 0 |-> 0], seqs, 0)
    BY DEF Flattens
  <2>2. QED
    BY <1>3, <2>1
<1>4. CASE n # 0
  <2>1. n - 1 \in Nat /\ n - 1 \notin Bad
    BY <1>2, <1>4
  <2>2. PICK g : Flattens(g, seqs, n - 1)
    BY <2>1
  <2> DEFINE h == [i \in 1 .. n |-> IF i # n THEN g[i]
                                    ELSE IF n = 1 THEN seqs[n] ELSE g[n - 1] \o seqs[n]]
  <2>3. ASSUME NEW i \in 1 .. n
        PROVE  h[i] = IF i = 1 THEN seqs[i] ELSE h[i - 1] \o seqs[i]
    <3>1. CASE i = n
      BY <2>1, <3>1
    <3>2. CASE i # n
      <4>1. i \in 1 .. n - 1 /\ h[i] = g[i] /\ (i # 1 => h[i - 1] = g[i - 1])
        BY <2>1, <3>2
      <4>2. g[i] = IF i = 1 THEN seqs[i] ELSE g[i - 1] \o seqs[i]
        BY <2>2, <4>1 DEF Flattens
      <4> HIDE DEF h
      <4>3. QED
        BY <4>1, <4>2
    <3>3. QED
      BY <3>1, <3>2
  <2>4. Flattens(h, seqs, n)
    BY <2>3 DEF Flattens
  <2>5. QED
    BY <2>4
<1>5. QED
  BY <1>3, <1>4

LEMMA FlattenUnfold ==
  ASSUME NEW seqs, Len(seqs) \in Nat
  PROVE  \E f : /\ Flattens(f, seqs, Len(seqs))
                /\ FlattenSeq(seqs) = IF Len(seqs) = 0 THEN seqs ELSE f[Len(seqs)]
<1> DEFINE f == CHOOSE f : f = [i \in 1 .. Len(seqs) |-> IF i = 1 THEN seqs[i] ELSE f[i - 1] \o seqs[i]]
<1>1. \E g : g = [i \in 1 .. Len(seqs) |-> IF i = 1 THEN seqs[i] ELSE g[i - 1] \o seqs[i]]
  BY FlattenExists DEF Flattens
<1>2. f = [i \in 1 .. Len(seqs) |-> IF i = 1 THEN seqs[i] ELSE f[i - 1] \o seqs[i]]
  BY <1>1
<1>3. FlattenSeq(seqs) = IF Len(seqs) = 0 THEN seqs ELSE f[Len(seqs)]
  BY DEF FlattenSeq
<1>4. QED
  BY <1>2, <1>3 DEF Flattens


\* Element p of F is element j[p] of list o[p], list by list.
Origins(F, seqs, m, o, j) ==
    /\ o \in [1 .. Len(F) -> 1 .. m]
    /\ j \in [1 .. Len(F) -> Nat]
    /\ \A p \in 1 .. Len(F) : j[p] \in 1 .. Len(seqs[o[p]]) /\ F[p] = seqs[o[p]][j[p]]
    /\ \A p, q \in 1 .. Len(F) : p < q => o[p] < o[q] \/ (o[p] = o[q] /\ j[p] < j[q])
    /\ \A k \in 1 .. m : \A i \in 1 .. Len(seqs[k]) :
          \E p \in 1 .. Len(F) : o[p] = k /\ j[p] = i

LEMMA NoOrigins ==
  ASSUME NEW seqs
  PROVE  \E o, j : Origins(<<>>, seqs, 0, o, j)
<1> DEFINE e == [p \in 1 .. 0 |-> 0]
<1>1. Origins(<<>>, seqs, 0, e, e)
  BY DEF Origins
<1>2. QED
  BY <1>1

LEMMA OneMoreOrigin ==
  ASSUME NEW S, NEW F \in Seq(S), NEW t \in Seq(S), NEW m \in Nat, NEW seqs, seqs[m + 1] = t,
         NEW o, NEW j, Origins(F, seqs, m, o, j)
  PROVE  \E a, b : Origins(F \o t, seqs, m + 1, a, b)
<1> DEFINE L == Len(F)
           G == F \o t
           a == [p \in 1 .. Len(G) |-> IF p <= L THEN o[p] ELSE m + 1]
           b == [p \in 1 .. Len(G) |-> IF p <= L THEN j[p] ELSE p - L]
<1>1. L \in Nat /\ Len(t) \in Nat /\ Len(G) = L + Len(t)
  BY LenProperties, ConcatProperties
<1>2. \A p \in 1 .. Len(G) : G[p] = IF p <= L THEN F[p] ELSE t[p - L]
  BY ConcatProperties
<1>3. /\ \A p \in 1 .. L : o[p] \in 1 .. m /\ j[p] \in Nat
      /\ \A p \in 1 .. L : j[p] \in 1 .. Len(seqs[o[p]]) /\ F[p] = seqs[o[p]][j[p]]
      /\ \A p, q \in 1 .. L : p < q => o[p] < o[q] \/ (o[p] = o[q] /\ j[p] < j[q])
      /\ \A k \in 1 .. m : \A i \in 1 .. Len(seqs[k]) : \E p \in 1 .. L : o[p] = k /\ j[p] = i
  BY DEF Origins
<1> HIDE DEF L, G
<1>4. /\ \A p \in 1 .. Len(G) : a[p] = IF p <= L THEN o[p] ELSE m + 1
      /\ \A p \in 1 .. Len(G) : b[p] = IF p <= L THEN j[p] ELSE p - L
      /\ a = [p \in 1 .. Len(G) |-> a[p]]
      /\ b = [p \in 1 .. Len(G) |-> b[p]]
  OBVIOUS
<1> HIDE DEF a, b
<1>5. \A p \in 1 .. Len(G) : p <= L => p \in 1 .. L
  BY <1>1
<1>6. \A p \in 1 .. Len(G) : ~(p <= L) => p - L \in 1 .. Len(t)
  BY <1>1
<1>7. a \in [1 .. Len(G) -> 1 .. m + 1]
  <2>1. \A p \in 1 .. Len(G) : a[p] \in 1 .. m + 1
    BY <1>3, <1>4, <1>5
  <2>2. QED
    BY <1>4, <2>1
<1>8. b \in [1 .. Len(G) -> Nat]
  <2>1. \A p \in 1 .. Len(G) : b[p] \in Nat
    BY <1>3, <1>4, <1>5, <1>6
  <2>2. QED
    BY <1>4, <2>1
<1>9. ASSUME NEW p \in 1 .. Len(G)
      PROVE  b[p] \in 1 .. Len(seqs[a[p]]) /\ G[p] = seqs[a[p]][b[p]]
  <2>1. CASE p <= L
    <3>1. p \in 1 .. L /\ a[p] = o[p] /\ b[p] = j[p] /\ G[p] = F[p]
      BY <1>2, <1>4, <1>5, <2>1
    <3>2. QED
      BY <1>3, <3>1
  <2>2. CASE ~(p <= L)
    <3>1. p - L \in 1 .. Len(t) /\ a[p] = m + 1 /\ b[p] = p - L /\ G[p] = t[p - L]
      BY <1>2, <1>4, <1>6, <2>2
    <3>2. QED
      BY <3>1
  <2>3. QED
    BY <2>1, <2>2
<1>10. ASSUME NEW p \in 1 .. Len(G), NEW q \in 1 .. Len(G), p < q
       PROVE  a[p] < a[q] \/ (a[p] = a[q] /\ b[p] < b[q])
  <2>1. CASE q <= L
    <3>1. p \in 1 .. L /\ q \in 1 .. L
      BY <1>1, <1>10, <2>1
    <3>2. a[p] = o[p] /\ b[p] = j[p] /\ a[q] = o[q] /\ b[q] = j[q]
      BY <1>4, <3>1, <1>1
    <3>3. QED
      BY <1>3, <1>10, <3>1, <3>2
  <2>2. CASE p <= L /\ ~(q <= L)
    <3>1. a[p] = o[p] /\ a[q] = m + 1 /\ o[p] \in 1 .. m
      BY <1>3, <1>4, <1>5, <2>2
    <3>2. QED
      BY <3>1
  <2>3. CASE ~(p <= L)
    <3>1. ~(q <= L)
      BY <1>1, <1>10, <2>3
    <3>2. a[p] = m + 1 /\ a[q] = m + 1 /\ b[p] = p - L /\ b[q] = q - L
      BY <1>4, <2>3, <3>1
    <3>3. QED
      BY <1>1, <1>10, <3>2
  <2>4. QED
    BY <2>1, <2>2, <2>3
<1>11. ASSUME NEW k \in 1 .. m + 1, NEW i \in 1 .. Len(seqs[k])
       PROVE  \E p \in 1 .. Len(G) : a[p] = k /\ b[p] = i
  <2>1. CASE k = m + 1
    <3>1. L + i \in 1 .. Len(G) /\ ~(L + i <= L) /\ (L + i) - L = i
      BY <1>1, <2>1
    <3>2. QED
      BY <1>4, <2>1, <3>1
  <2>2. CASE k # m + 1
    <3>1. PICK p \in 1 .. L : o[p] = k /\ j[p] = i
      BY <1>3, <2>2
    <3>2. p \in 1 .. Len(G) /\ p <= L
      BY <1>1
    <3>3. QED
      BY <1>4, <3>1, <3>2
  <2>3. QED
    BY <2>1, <2>2
<1>12. Origins(G, seqs, m + 1, a, b)
  BY <1>7, <1>8, <1>9, <1>10, <1>11 DEF Origins
<1>13. QED
  BY <1>12 DEF G

\* FlattenSeq puts the lists one after the other, whole and in order.
LEMMA FlattenOrigins ==
  ASSUME NEW seqs, IsSeq(seqs), \A k \in 1 .. Len(seqs) : IsSeq(seqs[k])
  PROVE  /\ IsSeq(FlattenSeq(seqs))
         /\ \E o, j : Origins(FlattenSeq(seqs), seqs, Len(seqs), o, j)
<1> DEFINE n == Len(seqs)
           S == UNION {ToSet(seqs[k]) : k \in 1 .. n}
<1>1. n \in Nat
  BY SeqFacts
<1>2. \A k \in 1 .. n : seqs[k] \in Seq(S)
  <2>1. ASSUME NEW k \in 1 .. n PROVE seqs[k] \in Seq(S)
    <3>1. seqs[k] \in Seq(ToSet(seqs[k]))
      BY SeqFacts
    <3>2. ToSet(seqs[k]) \subseteq S
      OBVIOUS
    <3>3. QED
      BY <3>1, <3>2, SeqMonotonic
  <2>2. QED
    BY <2>1
<1> HIDE DEF S
<1>3. PICK f : /\ Flattens(f, seqs, n)
               /\ FlattenSeq(seqs) = IF n = 0 THEN seqs ELSE f[n]
  BY <1>1, FlattenUnfold
<1> DEFINE Good(m) == f[m] \in Seq(S) /\ \E o, j : Origins(f[m], seqs, m, o, j)
           Bad == {m \in Nat : m \in 1 .. n /\ ~Good(m)}
<1>4. Bad = {}
  <2>1. SUFFICES ASSUME Bad # {} PROVE FALSE
    OBVIOUS
  <2>2. PICK m \in Bad : \A k \in Bad : m <= k
    <3>1. Bad \in SUBSET Nat
      OBVIOUS
    <3> HIDE DEF Bad
    <3>2. QED
      BY <2>1, <3>1, LeastExists
  <2>3. m \in 1 .. n /\ ~Good(m)
    OBVIOUS
  <2>4. CASE m = 1
    <3>1. f[m] = seqs[m]
      BY <1>3, <2>3, <2>4 DEF Flattens
    <3>2. f[m] = <<>> \o seqs[m] /\ f[m] \in Seq(S) /\ <<>> \in Seq(S)
      BY <1>2, <2>3, <3>1, ConcatEmptySeq, EmptySeq
    <3>3. PICK o, j : Origins(<<>>, seqs, 0, o, j)
      BY NoOrigins
    <3> DEFINE t == seqs[m]
    <3>4. \E a, b : Origins(<<>> \o t, seqs, 0 + 1, a, b)
      <4>1. t \in Seq(S) /\ seqs[0 + 1] = t /\ 0 \in Nat
        BY <1>2, <2>3, <2>4
      <4> HIDE DEF t
      <4>2. QED
        BY <3>2, <3>3, <4>1, OneMoreOrigin
    <3>5. QED
      BY <2>3, <2>4, <3>2, <3>4
  <2>5. CASE m # 1
    <3>1. m - 1 \in 1 .. n /\ m - 1 \notin Bad /\ (m - 1) + 1 = m /\ m - 1 \in Nat
      BY <2>2, <2>3, <2>5
    <3>2. Good(m - 1)
      BY <3>1
    <3>3. f[m] = f[m - 1] \o seqs[m]
      BY <1>3, <2>3, <2>5 DEF Flattens
    <3>4. PICK o, j : Origins(f[m - 1], seqs, m - 1, o, j)
      BY <3>2
    <3>5. \E a, b : Origins(f[m - 1] \o seqs[m], seqs, (m - 1) + 1, a, b)
      BY <1>2, <2>3, <3>1, <3>2, <3>4, OneMoreOrigin
    <3>6. f[m - 1] \o seqs[m] \in Seq(S)
      BY <1>2, <2>3, <3>2, ConcatProperties
    <3>7. QED
      BY <2>3, <3>1, <3>3, <3>5, <3>6
  <2>6. QED
    BY <2>4, <2>5
<1>5. CASE n = 0
  <2>1. seqs = <<>>
    BY <1>5, EmptySeq DEF IsSeq
  <2>2. FlattenSeq(seqs) = <<>>
    BY <1>3, <1>5, <2>1
  <2>3. IsSeq(<<>>)
    BY EmptySeq DEF IsSeq
  <2>4. QED
    BY <1>5, <2>2, <2>3, NoOrigins
<1>6. CASE n # 0
  <2>1. Good(n) /\ FlattenSeq(seqs) = f[n]
    BY <1>1, <1>3, <1>4, <1>6
  <2>2. QED
    BY <2>1 DEF IsSeq
<1>7. QED
  BY <1>5, <1>6


LEMMA FlattenElements ==
  ASSUME NEW seqs, IsSeq(seqs), \A k \in 1 .. Len(seqs) : IsSeq(seqs[k])
  PROVE  ToSet(FlattenSeq(seqs)) = UNION {ToSet(seqs[k]) : k \in 1 .. Len(seqs)}
<1> DEFINE F == FlattenSeq(seqs)
<1>1. IsSeq(F)
  BY FlattenOrigins
<1>2. PICK o, j : Origins(F, seqs, Len(seqs), o, j)
  BY FlattenOrigins
<1>3. /\ \A p \in 1 .. Len(F) : o[p] \in 1 .. Len(seqs)
      /\ \A p \in 1 .. Len(F) : j[p] \in 1 .. Len(seqs[o[p]]) /\ F[p] = seqs[o[p]][j[p]]
      /\ \A k \in 1 .. Len(seqs) : \A i \in 1 .. Len(seqs[k]) :
            \E p \in 1 .. Len(F) : o[p] = k /\ j[p] = i
  BY <1>2 DEF Origins
<1>4. \A x : x \in ToSet(F) <=> \E p \in 1 .. Len(F) : x = F[p]
  BY <1>1, Members
<1>5. \A k \in 1 .. Len(seqs) : \A x : x \in ToSet(seqs[k]) <=>
          \E i \in 1 .. Len(seqs[k]) : x = seqs[k][i]
  BY Members
<1> HIDE DEF F
<1>6. ASSUME NEW x \in ToSet(F)
      PROVE  \E k \in 1 .. Len(seqs) : x \in ToSet(seqs[k])
  <2>1. PICK p \in 1 .. Len(F) : x = F[p]
    BY <1>4
  <2>2. o[p] \in 1 .. Len(seqs) /\ j[p] \in 1 .. Len(seqs[o[p]]) /\ x = seqs[o[p]][j[p]]
    BY <1>3, <2>1
  <2>3. QED
    BY <1>5, <2>2
<1>7. ASSUME NEW k \in 1 .. Len(seqs), NEW x \in ToSet(seqs[k])
      PROVE  x \in ToSet(F)
  <2>1. PICK i \in 1 .. Len(seqs[k]) : x = seqs[k][i]
    BY <1>5
  <2>2. PICK p \in 1 .. Len(F) : o[p] = k /\ j[p] = i
    BY <1>3
  <2>3. x = F[p]
    BY <1>3, <2>1, <2>2
  <2>4. QED
    BY <1>4, <2>3
<1>8. QED
  BY <1>6, <1>7 DEF F

LEMMA EmptyIsSeq ==
  IsSeq(<<>>) /\ Len(<<>>) = 0 /\ ToSet(<<>>) = {}
<1>1. IsSeq(<<>>) /\ Len(<<>>) = 0
  BY EmptySeq DEF IsSeq
<1>2. QED
  BY <1>1, SeqFacts

LEMMA OneIsSeq ==
  ASSUME NEW x
  PROVE  IsSeq(<<x>>) /\ Len(<<x>>) = 1 /\ <<x>>[1] = x /\ ToSet(<<x>>) = {x}
<1>1. <<x>> \in Seq({x}) /\ Len(<<x>>) = 1 /\ <<x>>[1] = x
  OBVIOUS
<1>2. IsSeq(<<x>>)
  BY <1>1 DEF IsSeq
<1>3. ToSet(<<x>>) = {<<x>>[i] : i \in 1 .. Len(<<x>>)}
  BY <1>2, SeqFacts
<1>4. QED
  BY <1>1, <1>2, <1>3

LEMMA TwoIsSeq ==
  ASSUME NEW x, NEW y
  PROVE  /\ IsSeq(<<x, y>>) /\ Len(<<x, y>>) = 2
         /\ <<x, y>>[1] = x /\ <<x, y>>[2] = y
<1>1. <<x, y>> \in Seq({x, y})
  OBVIOUS
<1>2. QED
  BY <1>1 DEF IsSeq

LEMMA ThreeIsSeq ==
  ASSUME NEW x, NEW y, NEW z
  PROVE  /\ IsSeq(<<x, y, z>>) /\ Len(<<x, y, z>>) = 3
         /\ <<x, y, z>>[1] = x /\ <<x, y, z>>[2] = y /\ <<x, y, z>>[3] = z
<1>1. <<x, y, z>> \in Seq({x, y, z})
  OBVIOUS
<1>2. QED
  BY <1>1 DEF IsSeq

\* Only keeps the positions in K, in their order.
LEMMA OnlyPositions ==
  ASSUME NEW s, IsSeq(s), NEW K
  PROVE  /\ IsSeq(Only(s, K))
         /\ ToSet(Only(s, K)) = {s[k] : k \in {i \in 1 .. Len(s) : i \in K}}
         /\ \E o \in [1 .. Len(Only(s, K)) -> 1 .. Len(s)] :
              /\ \A p \in 1 .. Len(Only(s, K)) : o[p] \in K /\ Only(s, K)[p] = s[o[p]]
              /\ \A p, q \in 1 .. Len(Only(s, K)) : p < q => o[p] < o[q]
<1> DEFINE R == [k \in DOMAIN s |-> IF k \in K THEN <<s[k]>> ELSE <<>>]
           F == Only(s, K)
<1>1. Len(s) \in Nat /\ DOMAIN s = 1 .. Len(s)
  BY SeqFacts
<1>2. R = [k \in 1 .. Len(s) |-> R[k]]
  BY <1>1
<1>3. IsSeq(R) /\ Len(R) = Len(s)
  BY <1>1, <1>2, MapIsSeq
<1>4. \A k \in 1 .. Len(s) : /\ k \in K => R[k] = <<s[k]>>
                             /\ k \notin K => R[k] = <<>>
  BY <1>1
<1>5. F = FlattenSeq(R)
  BY DEF Only
<1> HIDE DEF R, F
<1>6. ASSUME NEW k \in 1 .. Len(s)
      PROVE  /\ IsSeq(R[k])
             /\ k \in K => Len(R[k]) = 1 /\ R[k][1] = s[k] /\ ToSet(R[k]) = {s[k]}
             /\ k \notin K => Len(R[k]) = 0 /\ ToSet(R[k]) = {}
  BY <1>4, EmptyIsSeq, OneIsSeq
<1>7. IsSeq(F)
  BY <1>3, <1>5, <1>6, FlattenOrigins
<1>8. ToSet(F) = {s[k] : k \in {i \in 1 .. Len(s) : i \in K}}
  <2>1. ToSet(F) = UNION {ToSet(R[k]) : k \in 1 .. Len(s)}
    BY <1>3, <1>5, <1>6, FlattenElements
  <2>2. \A x : x \in ToSet(F) <=> \E k \in 1 .. Len(s) : x \in ToSet(R[k])
    BY <2>1
  <2>3. \A k \in 1 .. Len(s) : \A x : x \in ToSet(R[k]) <=> k \in K /\ x = s[k]
    <3>1. ASSUME NEW k \in 1 .. Len(s), NEW x PROVE x \in ToSet(R[k]) <=> k \in K /\ x = s[k]
      BY <1>6
    <3>2. QED
      BY <3>1
  <2>4. QED
    BY <2>2, <2>3
<1>9. PICK o, j : Origins(F, R, Len(s), o, j)
  BY <1>3, <1>5, <1>6, FlattenOrigins
<1>10. o \in [1 .. Len(F) -> 1 .. Len(s)]
  BY <1>9 DEF Origins
<1>11. ASSUME NEW p \in 1 .. Len(F)
       PROVE  o[p] \in K /\ F[p] = s[o[p]] /\ j[p] = 1
  <2>1. o[p] \in 1 .. Len(s) /\ j[p] \in 1 .. Len(R[o[p]]) /\ F[p] = R[o[p]][j[p]]
    BY <1>9, <1>10 DEF Origins
  <2>2. PICK k \in 1 .. Len(s) : k = o[p]
    BY <2>1
  <2>3. k \in K /\ Len(R[k]) = 1
    BY <1>6, <2>1, <2>2
  <2>4. j[p] = 1
    BY <2>1, <2>2, <2>3
  <2>5. QED
    BY <1>6, <2>1, <2>2, <2>3, <2>4
<1>12. ASSUME NEW p \in 1 .. Len(F), NEW q \in 1 .. Len(F), p < q
       PROVE  o[p] < o[q]
  <2>1. o[p] < o[q] \/ (o[p] = o[q] /\ j[p] < j[q])
    BY <1>9, <1>12 DEF Origins
  <2>2. QED
    BY <1>11, <2>1
<1>13. QED
  BY <1>7, <1>8, <1>10, <1>11, <1>12 DEF F

\* Lists of one element each are put one after the other.
LEMMA FlattenSingles ==
  ASSUME NEW seqs, IsSeq(seqs), \A k \in 1 .. Len(seqs) : seqs[k] = <<seqs[k][1]>>
  PROVE  FlattenSeq(seqs) = [k \in 1 .. Len(seqs) |-> seqs[k][1]]
<1> DEFINE n == Len(seqs)
           S == {seqs[k][1] : k \in 1 .. n}
<1>1. n \in Nat
  BY SeqFacts
<1>2. PICK f : /\ Flattens(f, seqs, n)
               /\ FlattenSeq(seqs) = IF n = 0 THEN seqs ELSE f[n]
  BY <1>1, FlattenUnfold
<1>3. \A k \in 1 .. n : seqs[k] \in Seq(S) /\ Len(seqs[k]) = 1
  <2>1. ASSUME NEW k \in 1 .. n PROVE seqs[k] \in Seq(S) /\ Len(seqs[k]) = 1
    <3>1. PICK x \in S : seqs[k] = <<x>>
      OBVIOUS
    <3> HIDE DEF S
    <3>2. QED
      BY <3>1
  <2>2. QED
    BY <2>1
<1> DEFINE Good(m) == /\ f[m] \in Seq(S)
                      /\ Len(f[m]) = m
                      /\ \A i \in 1 .. m : f[m][i] = seqs[i][1]
           Bad == {m \in Nat : m \in 1 .. n /\ ~Good(m)}
<1> HIDE DEF S
<1>4. Bad = {}
  <2>1. SUFFICES ASSUME Bad # {} PROVE FALSE
    OBVIOUS
  <2>2. PICK m \in Bad : \A k \in Bad : m <= k
    <3>1. Bad \in SUBSET Nat
      OBVIOUS
    <3> HIDE DEF Bad
    <3>2. QED
      BY <2>1, <3>1, LeastExists
  <2>3. m \in 1 .. n /\ ~Good(m)
    OBVIOUS
  <2>4. CASE m = 1
    <3>1. f[m] = seqs[m]
      BY <1>2, <2>3, <2>4 DEF Flattens
    <3>2. QED
      BY <1>3, <2>3, <2>4, <3>1
  <2>5. CASE m # 1
    <3>1. m - 1 \in 1 .. n /\ m - 1 \notin Bad /\ m - 1 \in Nat
      BY <2>2, <2>3, <2>5
    <3>2. Good(m - 1)
      BY <3>1
    <3>3. f[m] = f[m - 1] \o seqs[m]
      BY <1>2, <2>3, <2>5 DEF Flattens
    <3>4. /\ f[m] \in Seq(S)
          /\ Len(f[m]) = (m - 1) + 1
          /\ \A i \in 1 .. m : f[m][i] = IF i <= m - 1 THEN f[m - 1][i] ELSE seqs[m][i - (m - 1)]
      <4> DEFINE a == f[m - 1]
                 b == seqs[m]
      <4>1. a \in Seq(S) /\ b \in Seq(S) /\ Len(a) = m - 1 /\ Len(b) = 1 /\ f[m] = a \o b
        BY <1>3, <2>3, <3>2, <3>3
      <4>2. (m - 1) + 1 = m
        BY <2>3
      <4> HIDE DEF a, b
      <4>3. /\ f[m] \in Seq(S) /\ Len(f[m]) = (m - 1) + 1
            /\ \A i \in 1 .. (m - 1) + 1 : f[m][i] = IF i <= m - 1 THEN a[i] ELSE b[i - (m - 1)]
        <5>1. /\ a \o b \in Seq(S) /\ Len(a \o b) = Len(a) + Len(b)
              /\ \A i \in 1 .. Len(a) + Len(b) : (a \o b)[i] = IF i <= Len(a) THEN a[i] ELSE b[i - Len(a)]
          BY <4>1, ConcatProperties
        <5>2. QED
          BY <4>1, <5>1
      <4>4. QED
        BY <4>2, <4>3 DEF a, b
    <3>5. \A i \in 1 .. m : f[m][i] = seqs[i][1]
      <4>1. ASSUME NEW i \in 1 .. m PROVE f[m][i] = seqs[i][1]
        <5>1. CASE i <= m - 1
          <6>1. i \in 1 .. m - 1
            BY <2>3, <5>1
          <6>2. QED
            BY <3>2, <3>4, <5>1, <6>1
        <5>2. CASE ~(i <= m - 1)
          <6>1. i = m /\ i - (m - 1) = 1
            BY <2>3, <5>2
          <6>2. QED
            BY <3>4, <5>2, <6>1
        <5>3. QED
          BY <5>1, <5>2
      <4>2. QED
        BY <4>1
    <3>6. Len(f[m]) = m
      BY <2>3, <3>4
    <3>7. QED
      BY <2>3, <3>4, <3>5, <3>6
  <2>6. QED
    BY <2>4, <2>5
<1>5. CASE n = 0
  <2>1. FlattenSeq(seqs) = seqs
    BY <1>2, <1>5
  <2>2. seqs = [k \in 1 .. 0 |-> seqs[k]]
    BY <1>5, SeqFacts
  <2>3. [k \in 1 .. 0 |-> seqs[k]] = [k \in 1 .. 0 |-> seqs[k][1]]
    OBVIOUS
  <2>4. QED
    BY <1>5, <2>1, <2>2, <2>3
<1>6. CASE n # 0
  <2>1. Good(n) /\ FlattenSeq(seqs) = f[n]
    BY <1>1, <1>2, <1>4, <1>6
  <2>2. f[n] = [k \in 1 .. n |-> f[n][k]]
    BY <2>1, LenProperties
  <2>3. QED
    BY <2>1, <2>2
<1>7. QED
  BY <1>5, <1>6


\* a and b have the same n elements first.
Alike(a, b, n) == \A k \in 1 .. n : a[k] = b[k]

LEMMA AppendFacts ==
  ASSUME NEW s, IsSeq(s), NEW e
  PROVE  /\ IsSeq(Append(s, e))
         /\ Len(Append(s, e)) = Len(s) + 1
         /\ \A k \in 1 .. Len(s) : Append(s, e)[k] = s[k]
         /\ Append(s, e)[Len(s) + 1] = e
         /\ Append(s, e) = s \o <<e>>
<1>1. PICK S : s \in Seq(S)
  BY DEF IsSeq
<1>2. s \in Seq(S \cup {e}) /\ e \in S \cup {e}
  BY <1>1, SeqMonotonic
<1>3. /\ Append(s, e) \in Seq(S \cup {e})
      /\ Len(Append(s, e)) = Len(s) + 1
      /\ \A k \in 1 .. Len(s) : Append(s, e)[k] = s[k]
      /\ Append(s, e)[Len(s) + 1] = e
  BY <1>2, AppendProperties
<1>4. Append(s, e) = s \o <<e>>
  BY <1>2, AppendIsConcat
<1>5. QED
  BY <1>3, <1>4 DEF IsSeq

LEMMA ConcatFacts ==
  ASSUME NEW s, IsSeq(s), NEW t, IsSeq(t)
  PROVE  /\ IsSeq(s \o t)
         /\ Len(s \o t) = Len(s) + Len(t)
         /\ \A k \in 1 .. Len(s) + Len(t) : (s \o t)[k] = IF k <= Len(s) THEN s[k] ELSE t[k - Len(s)]
         /\ s \o <<>> = s
         /\ \A x : x \in ToSet(s \o t) <=> x \in ToSet(s) \/ x \in ToSet(t)
<1>1. PICK S, T : s \in Seq(S) /\ t \in Seq(T)
  BY DEF IsSeq
<1> DEFINE U == S \cup T
<1>2. s \in Seq(U) /\ t \in Seq(U)
  BY <1>1, SeqMonotonic
<1> HIDE DEF U
<1>3. /\ s \o t \in Seq(U)
      /\ Len(s \o t) = Len(s) + Len(t)
      /\ \A k \in 1 .. Len(s) + Len(t) : (s \o t)[k] = IF k <= Len(s) THEN s[k] ELSE t[k - Len(s)]
      /\ s \o <<>> = s
  BY <1>2, ConcatProperties, ConcatEmptySeq
<1>4. Range(s \o t) = Range(s) \cup Range(t)
  BY <1>2, RangeConcatenation
<1>5. ToSet(s \o t) = ToSet(s) \cup ToSet(t)
  BY <1>4 DEF ToSet, Range
<1>6. QED
  BY <1>3, <1>5 DEF IsSeq

LEMMA SeqSame ==
  ASSUME NEW s, IsSeq(s), NEW t, IsSeq(t), Len(s) = Len(t), Alike(s, t, Len(s))
  PROVE  s = t
<1>1. s = [i \in 1 .. Len(s) |-> s[i]] /\ t = [i \in 1 .. Len(t) |-> t[i]]
  BY SeqFacts
<1>2. [i \in 1 .. Len(s) |-> s[i]] = [i \in 1 .. Len(s) |-> t[i]]
  BY DEF Alike
<1>3. QED
  BY <1>1, <1>2

LEMMA TwoAppended ==
  ASSUME NEW x, NEW y
  PROVE  Append(<<x>>, y) = <<x, y>>
<1> DEFINE a == Append(<<x>>, y)
           b == <<x, y>>
<1>1. IsSeq(a) /\ Len(a) = 2 /\ a[1] = x /\ a[2] = y
  <2> DEFINE s == <<x>>
  <2>1. IsSeq(s) /\ Len(s) = 1 /\ s[1] = x
    BY OneIsSeq
  <2> HIDE DEF s
  <2>2. /\ IsSeq(Append(s, y)) /\ Len(Append(s, y)) = Len(s) + 1
        /\ \A k \in 1 .. Len(s) : Append(s, y)[k] = s[k]
        /\ Append(s, y)[Len(s) + 1] = y
    BY <2>1, AppendFacts
  <2>3. QED
    BY <2>1, <2>2 DEF s
<1>2. IsSeq(b) /\ Len(b) = 2 /\ b[1] = x /\ b[2] = y
  BY TwoIsSeq
<1> HIDE DEF a, b
<1>3. Alike(a, b, Len(a))
  BY <1>1, <1>2 DEF Alike
<1>4. a = b
  BY <1>1, <1>2, <1>3, SeqSame
<1>5. QED
  BY <1>4 DEF a, b

LEMMA HeadFacts ==
  ASSUME NEW s, IsSeq(s), s # <<>>
  PROVE  Head(s) = s[1] /\ 1 \in 1 .. Len(s) /\ Head(s) \in ToSet(s)
<1>1. PICK S : s \in Seq(S)
  BY DEF IsSeq
<1>2. Len(s) \in Nat \ {0} /\ DOMAIN s = 1 .. Len(s)
  BY <1>1, EmptySeq, LenProperties
<1>3. Head(s) = s[1]
  BY <1>1
<1>4. QED
  BY <1>2, <1>3 DEF ToSet

-----------------------------------------------------------------------------
(* Merged.                                                                 *)

\* "f" has the capabilities after the first n of the list.
Merges(f, list, n) ==
    f = [k \in 0 .. n |-> IF k = 0 THEN <<>> ELSE AddCapability(f[k - 1], list[k])]

LEMMA MergesExists ==
  ASSUME NEW list, NEW N \in Nat
  PROVE  \E f : Merges(f, list, N)
<1> DEFINE Bad == {n \in Nat : ~ \E f : Merges(f, list, n)}
<1>1. SUFFICES ASSUME Bad # {} PROVE FALSE
  OBVIOUS
<1>2. PICK n \in Bad : \A m \in Bad : n <= m
  <2>1. Bad \in SUBSET Nat
    OBVIOUS
  <2> HIDE DEF Bad
  <2>2. QED
    BY <1>1, <2>1, LeastExists
<1>3. CASE n = 0
  <2>1. Merges([k \in 0 .. 0 |-> <<>>], list, 0)
    BY DEF Merges
  <2>2. QED
    BY <1>3, <2>1
<1>4. CASE n # 0
  <2>1. n - 1 \in Nat /\ n - 1 \notin Bad
    BY <1>2, <1>4
  <2>2. PICK g : Merges(g, list, n - 1)
    BY <2>1
  <2> DEFINE h == [k \in 0 .. n |-> IF k = n THEN AddCapability(g[n - 1], list[n]) ELSE g[k]]
  <2>3. ASSUME NEW k \in 0 .. n
        PROVE  h[k] = IF k = 0 THEN <<>> ELSE AddCapability(h[k - 1], list[k])
    BY <2>1, <2>2, <1>4 DEF Merges
  <2>4. Merges(h, list, n)
    BY <2>3 DEF Merges
  <2>5. QED
    BY <2>4
<1>5. QED
  BY <1>3, <1>4

LEMMA MergedUnfold ==
  ASSUME NEW list, Len(list) \in Nat
  PROVE  \E f : Merges(f, list, Len(list)) /\ Merged(list) = f[Len(list)]
<1> DEFINE f == CHOOSE f : f = [k \in 0 .. Len(list) |->
                               IF k = 0 THEN <<>> ELSE AddCapability(f[k - 1], list[k])]
<1>1. \E g : g = [k \in 0 .. Len(list) |-> IF k = 0 THEN <<>> ELSE AddCapability(g[k - 1], list[k])]
  BY MergesExists DEF Merges
<1>2. f = [k \in 0 .. Len(list) |-> IF k = 0 THEN <<>> ELSE AddCapability(f[k - 1], list[k])]
  BY <1>1
<1>3. Merged(list) = f[Len(list)]
  BY DEF Merged
<1>4. QED
  BY <1>2, <1>3 DEF Merges

\* Lists that begin alike are merged alike as far as they do.
LEMMA MergesAgree ==
  ASSUME NEW a, NEW b, NEW n \in Nat, NEW m \in Nat, n <= m,
         Alike(a, b, n),
         NEW f, Merges(f, a, n), NEW g, Merges(g, b, m)
  PROVE  f[n] = g[n]
<1> DEFINE Bad == {k \in Nat : k \in 0 .. n /\ f[k] # g[k]}
<1>1. SUFFICES ASSUME Bad # {} PROVE FALSE
  OBVIOUS
<1>2. PICK k \in Bad : \A i \in Bad : k <= i
  <2>1. Bad \in SUBSET Nat
    OBVIOUS
  <2> HIDE DEF Bad
  <2>2. QED
    BY <1>1, <2>1, LeastExists
<1>3. f[k] = IF k = 0 THEN <<>> ELSE AddCapability(f[k - 1], a[k])
  BY DEF Merges
<1>4. g[k] = IF k = 0 THEN <<>> ELSE AddCapability(g[k - 1], b[k])
  BY DEF Merges
<1>5. k # 0 /\ f[k - 1] = g[k - 1] /\ a[k] = b[k]
  <2>1. k # 0
    BY <1>3, <1>4
  <2>2. k - 1 \in 0 .. n /\ k - 1 \notin Bad /\ k \in 1 .. n
    BY <1>2, <2>1
  <2>3. QED
    BY <2>1, <2>2 DEF Alike
<1>6. QED
  BY <1>3, <1>4, <1>5

LEMMA MergedEmpty ==
  Merged(<<>>) = <<>>
<1>1. Len(<<>>) = 0
  BY EmptyIsSeq
<1>2. PICK f : Merges(f, <<>>, 0) /\ Merged(<<>>) = f[0]
  BY <1>1, MergedUnfold
<1>3. QED
  BY <1>2 DEF Merges

LEMMA MergedAppend ==
  ASSUME NEW list, IsSeq(list), NEW c
  PROVE  Merged(Append(list, c)) = AddCapability(Merged(list), c)
<1> DEFINE n == Len(list)
           t == Append(list, c)
<1>1. n \in Nat /\ Len(t) = n + 1 /\ (\A k \in 1 .. n : t[k] = list[k]) /\ t[n + 1] = c
  BY AppendFacts, SeqFacts
<1>2. PICK f : Merges(f, list, n) /\ Merged(list) = f[n]
  BY <1>1, MergedUnfold
<1> HIDE DEF n, t
<1>3. PICK g : Merges(g, t, n + 1) /\ Merged(t) = g[n + 1]
  <2>1. Len(t) \in Nat
    BY <1>1
  <2>2. PICK g : Merges(g, t, Len(t)) /\ Merged(t) = g[Len(t)]
    BY <2>1, MergedUnfold
  <2>3. QED
    BY <1>1, <2>2
<1>4. n + 1 \in Nat /\ n <= n + 1
  BY <1>1
<1>5. Alike(list, t, n)
  BY <1>1 DEF Alike
<1>6. f[n] = g[n]
  BY <1>1, <1>2, <1>3, <1>4, <1>5, MergesAgree
<1>7. g[n + 1] = AddCapability(g[n], t[n + 1])
  <2>1. n + 1 \in 0 .. n + 1 /\ n + 1 # 0 /\ (n + 1) - 1 = n
    BY <1>1
  <2>2. QED
    BY <1>3, <2>1 DEF Merges
<1>8. QED
  BY <1>1, <1>2, <1>3, <1>6, <1>7 DEF t


-----------------------------------------------------------------------------
(* Capabilities: a piece is the capability of one row of the form, a whole *)
(* one is what the pieces are merged into.                                 *)

Plain == {"on", "backlight", "brightness", "volume", "temperature", "open", "fan_speed",
          "work_speed", "cleanup_mode", "thermostat", "get_stream"}
Colours == {"hsv", "rgb"}

\* Colour models exclude each other.
Key(inst) == IF inst = "rgb" THEN "hsv" ELSE inst

ModelParams(m) == [color_model |-> m]
WhiteParams    == [temperature_k |-> <<2700, 6500>>]
BothParams(m)  == [color_model |-> m, temperature_k |-> <<2700, 6500>>]

IsCap(c) == /\ c = [act |-> c.act, params |-> c.params, invert |-> c.invert]
            /\ c.invert \in BOOLEAN
            /\ c.act \notin {"float", "event"}

Colour(c) == c.act = "color_setting"

ColourPiece(c, inst) ==
    /\ c.invert = FALSE
    /\ \/ inst \in Colours /\ c.params = ModelParams(inst)
       \/ inst = "temperature_k" /\ c.params = WhiteParams

PlainCap(c) == capInstance(c) \in Plain

Piece(c, inst) ==
    /\ IsCap(c)
    /\ Colour(c) => ColourPiece(c, inst)
    /\ ~Colour(c) => inst \in Plain /\ capInstance(c) = inst

ColourWhole(c) ==
    /\ c.invert = FALSE
    /\ \/ c.params = WhiteParams
       \/ \E m \in Colours : c.params = ModelParams(m)
       \/ \E m \in Colours : c.params = BothParams(m)

Whole(c) ==
    /\ IsCap(c)
    /\ Colour(c) => ColourWhole(c)
    /\ ~Colour(c) => PlainCap(c)

\* The instances of the rows of a whole capability.
Instances(c) ==
    IF ~Colour(c) THEN {capInstance(c)}
    ELSE {m \in Colours : c.params = ModelParams(m) \/ c.params = BothParams(m)}
         \cup {i \in {"temperature_k"} :
                  c.params = WhiteParams \/ \E m \in Colours : c.params = BothParams(m)}

CapKey(c) == IF Colour(c) THEN "hsv" ELSE capInstance(c)

CapsOK(caps) ==
    /\ IsSeq(caps)
    /\ \A k \in 1 .. Len(caps) : Whole(caps[k])
    /\ \A j, k \in 1 .. Len(caps) : CapKey(caps[j]) = CapKey(caps[k]) => j = k

\* The rows of the capabilities, by act and instance.
Carries(caps, act, inst) ==
    \E k \in 1 .. Len(caps) : caps[k].act = act /\ inst \in Instances(caps[k])

LEMMA ParamFacts ==
  ASSUME NEW m, NEW n
  PROVE  /\ DOMAIN ModelParams(m) = {"color_model"}
         /\ DOMAIN WhiteParams = {"temperature_k"}
         /\ DOMAIN BothParams(m) = {"color_model", "temperature_k"}
         /\ ModelParams(m).color_model = m
         /\ BothParams(m).color_model = m
         /\ ModelParams(m) # WhiteParams
         /\ ModelParams(m) # BothParams(n)
         /\ WhiteParams # BothParams(m)
         /\ ModelParams(m) = ModelParams(n) => m = n
         /\ BothParams(m) = BothParams(n) => m = n
         /\ Over(WhiteParams, ModelParams(m)) = BothParams(m)
         /\ Over(ModelParams(m), WhiteParams) = BothParams(m)
<1>1. /\ DOMAIN ModelParams(m) = {"color_model"}
      /\ DOMAIN WhiteParams = {"temperature_k"}
      /\ DOMAIN BothParams(m) = {"color_model", "temperature_k"}
      /\ DOMAIN BothParams(n) = {"color_model", "temperature_k"}
      /\ ModelParams(m).color_model = m
      /\ BothParams(m).color_model = m
      /\ ModelParams(n).color_model = n
      /\ BothParams(n).color_model = n
  BY DEF ModelParams, WhiteParams, BothParams
<1>2. /\ Over(WhiteParams, ModelParams(m)) = BothParams(m)
      /\ Over(ModelParams(m), WhiteParams) = BothParams(m)
  BY DEF Over, ModelParams, WhiteParams, BothParams
<1>3. "color_model" # "temperature_k"
  OBVIOUS
<1>4. ModelParams(m) # WhiteParams /\ ModelParams(m) # BothParams(n) /\ WhiteParams # BothParams(m)
  BY <1>1, <1>3
<1>5. /\ ModelParams(m) = ModelParams(n) => m = n
      /\ BothParams(m) = BothParams(n) => m = n
  BY <1>1
<1>6. QED
  BY <1>1, <1>2, <1>4, <1>5

LEMMA PieceIsWhole ==
  ASSUME NEW c, NEW inst, Piece(c, inst)
  PROVE  /\ Whole(c)
         /\ Instances(c) = {inst}
         /\ CapKey(c) = IF Colour(c) THEN "hsv" ELSE inst
         /\ inst \in Plain \cup Colours \cup {"temperature_k"}
<1>1. CASE ~Colour(c)
  BY <1>1 DEF Piece, Whole, Instances, CapKey, PlainCap
<1>2. CASE Colour(c) /\ inst \in Colours /\ c.params = ModelParams(inst)
  <2>1. Whole(c)
    BY <1>2 DEF Piece, Whole, ColourWhole, ColourPiece
  <2>2. \A m \in Colours : c.params = ModelParams(m) \/ c.params = BothParams(m) => m = inst
    BY <1>2, ParamFacts
  <2>3. ~(c.params = WhiteParams \/ \E m \in Colours : c.params = BothParams(m))
    BY <1>2, ParamFacts
  <2>4. Instances(c) = {inst}
    BY <1>2, <2>2, <2>3 DEF Instances
  <2>5. QED
    BY <1>2, <2>1, <2>4 DEF CapKey
<1>3. CASE Colour(c) /\ inst = "temperature_k" /\ c.params = WhiteParams
  <2>1. Whole(c)
    BY <1>3 DEF Piece, Whole, ColourWhole, ColourPiece
  <2>2. \A m \in Colours : ~(c.params = ModelParams(m) \/ c.params = BothParams(m))
    BY <1>3, ParamFacts
  <2>3. Instances(c) = {inst}
    BY <1>3, <2>2 DEF Instances
  <2>4. QED
    BY <1>3, <2>1, <2>3 DEF CapKey
<1>4. QED
  BY <1>1, <1>2, <1>3 DEF Piece, ColourPiece

LEMMA AppendCap ==
  ASSUME NEW caps, CapsOK(caps), NEW c, Whole(c),
         \A k \in 1 .. Len(caps) : CapKey(caps[k]) # CapKey(c)
  PROVE  /\ CapsOK(Append(caps, c))
         /\ \A act, inst : Carries(Append(caps, c), act, inst) <=>
                             Carries(caps, act, inst) \/ (act = c.act /\ inst \in Instances(c))
<1> DEFINE n == Len(caps)
           t == Append(caps, c)
<1>1. IsSeq(caps) /\ n \in Nat
  BY SeqFacts DEF CapsOK
<1>2. /\ IsSeq(t) /\ Len(t) = n + 1
      /\ \A k \in 1 .. n : t[k] = caps[k]
      /\ t[n + 1] = c
  BY <1>1, AppendFacts
<1> HIDE DEF n, t
<1>3. \A k \in 1 .. n + 1 : k \in 1 .. n \/ k = n + 1
  BY <1>1
<1>4. n + 1 \in 1 .. n + 1 /\ \A k \in 1 .. n : k \in 1 .. n + 1
  BY <1>1
<1>5. \A k \in 1 .. n + 1 : Whole(t[k])
  BY <1>2, <1>3 DEF CapsOK, n
<1>6. ASSUME NEW j \in 1 .. n + 1, NEW k \in 1 .. n + 1, CapKey(t[j]) = CapKey(t[k])
      PROVE  j = k
  <2>1. CASE j \in 1 .. n /\ k \in 1 .. n
    BY <1>2, <1>6, <2>1 DEF CapsOK, n
  <2>2. CASE j \in 1 .. n /\ k = n + 1
    BY <1>2, <1>6, <2>2 DEF n
  <2>3. CASE j = n + 1 /\ k \in 1 .. n
    BY <1>2, <1>6, <2>3 DEF n
  <2>4. QED
    BY <1>3, <2>1, <2>2, <2>3
<1>7. CapsOK(t)
  BY <1>2, <1>5, <1>6 DEF CapsOK
<1>8. ASSUME NEW act, NEW inst
      PROVE  Carries(t, act, inst) <=>
               Carries(caps, act, inst) \/ (act = c.act /\ inst \in Instances(c))
  BY <1>2, <1>3, <1>4 DEF Carries, n
<1>9. QED
  BY <1>7, <1>8 DEF t


LEMMA ColourKeys ==
  /\ \A m \in Colours : Key(m) = "hsv"
  /\ Key("temperature_k") = "temperature_k"
  /\ \A i \in Plain : Key(i) = i /\ i \notin Colours /\ i # "temperature_k"
  BY DEF Key, Colours, Plain

\* Merging a piece into a colour capability that has not its instance.
LEMMA OverWhole ==
  ASSUME NEW w, Whole(w), Colour(w), NEW c, NEW inst, Piece(c, inst), Colour(c),
         \A i \in Instances(w) : Key(i) # Key(inst)
  PROVE  \E m \in Colours : /\ Over(c.params, w.params) = BothParams(m)
                            /\ Instances(w) \cup {inst} = {m, "temperature_k"}
<1>1. CASE inst \in Colours /\ c.params = ModelParams(inst)
  <2>1. \A m \in Colours : m \notin Instances(w)
    BY <1>1, ColourKeys
  <2>2. \A m \in Colours : w.params # ModelParams(m) /\ w.params # BothParams(m)
    BY <2>1 DEF Instances
  <2>3. w.params = WhiteParams
    BY <2>2 DEF Whole, ColourWhole
  <2>4. Instances(w) = {"temperature_k"}
    BY <2>2, <2>3 DEF Instances
  <2>5. Over(c.params, w.params) = BothParams(inst)
    BY <1>1, <2>3, ParamFacts
  <2>6. QED
    BY <1>1, <2>4, <2>5
<1>2. CASE inst = "temperature_k" /\ c.params = WhiteParams
  <2>1. "temperature_k" \notin Instances(w)
    BY <1>2
  <2>2. ~(w.params = WhiteParams \/ \E m \in Colours : w.params = BothParams(m))
    BY <2>1 DEF Instances
  <2>3. PICK m \in Colours : w.params = ModelParams(m)
    BY <2>2 DEF Whole, ColourWhole
  <2>4. \A n \in Colours : w.params = ModelParams(n) \/ w.params = BothParams(n) <=> n = m
    BY <2>2, <2>3, ParamFacts
  <2>5. Instances(w) = {m}
    BY <2>2, <2>4 DEF Instances
  <2>6. Over(c.params, w.params) = BothParams(m)
    BY <1>2, <2>3, ParamFacts
  <2>7. QED
    BY <1>2, <2>5, <2>6
<1>3. QED
  BY <1>1, <1>2 DEF Piece, ColourPiece

LEMMA BothInstances ==
  ASSUME NEW w, Colour(w), NEW m \in Colours, w.params = BothParams(m)
  PROVE  Instances(w) = {m, "temperature_k"}
<1>1. \A n \in Colours : w.params = ModelParams(n) \/ w.params = BothParams(n) <=> n = m
  BY ParamFacts
<1>2. QED
  BY <1>1 DEF Instances

Recolours(t, caps, x, c) == t = [caps EXCEPT ![x].params = Over(c.params, @)]

LEMMA MergeColour ==
  ASSUME NEW caps, CapsOK(caps), NEW x \in 1 .. Len(caps), Colour(caps[x]),
         NEW c, NEW inst, Piece(c, inst), Colour(c),
         \A i \in Instances(caps[x]) : Key(i) # Key(inst),
         NEW t, Recolours(t, caps, x, c)
  PROVE  /\ CapsOK(t)
         /\ \A act, i : Carries(t, act, i) <=> Carries(caps, act, i) \/ (act = c.act /\ i = inst)
<1> DEFINE n == Len(caps)
           w == caps[x]
<1>1. /\ IsSeq(caps) /\ n \in Nat /\ DOMAIN caps = 1 .. n
      /\ caps = [k \in 1 .. n |-> caps[k]]
  BY SeqFacts DEF CapsOK
<1>2. /\ t = [k \in 1 .. n |-> t[k]]
      /\ \A k \in 1 .. n : k # x => t[k] = caps[k]
      /\ t[x] = [w EXCEPT !.params = Over(c.params, w.params)]
  BY <1>1 DEF Recolours
<1>3. Whole(w) /\ Colour(w)
  BY DEF CapsOK
<1>4. PICK m \in Colours : /\ Over(c.params, w.params) = BothParams(m)
                           /\ Instances(w) \cup {inst} = {m, "temperature_k"}
  BY <1>3, OverWhole
<1> HIDE DEF n, w
<1>5. t[x] = [act |-> w.act, params |-> BothParams(m), invert |-> w.invert]
  <2>1. w = [act |-> w.act, params |-> w.params, invert |-> w.invert]
    BY <1>3 DEF Whole, IsCap
  <2>2. t[x] = [w EXCEPT !.params = BothParams(m)]
    BY <1>2, <1>4
  <2>3. QED
    BY <2>1, <2>2
<1>6. t[x].act = w.act /\ t[x].params = BothParams(m) /\ t[x].invert = w.invert
  BY <1>5
<1>7. Whole(t[x]) /\ Colour(t[x])
  <2>1. IsCap(t[x]) /\ Colour(t[x])
    BY <1>3, <1>5, <1>6 DEF Whole, IsCap, Colour
  <2>2. ColourWhole(t[x])
    BY <1>3, <1>6 DEF Whole, ColourWhole
  <2>3. QED
    BY <2>1, <2>2 DEF Whole
<1>8. Instances(t[x]) = Instances(w) \cup {inst}
  BY <1>4, <1>6, <1>7, BothInstances
<1>9. IsSeq(t) /\ Len(t) = n
  BY <1>1, <1>2, MapIsSeq
<1>10. \A k \in 1 .. n : Whole(t[k]) /\ CapKey(t[k]) = CapKey(caps[k])
  <2>1. ASSUME NEW k \in 1 .. n PROVE Whole(t[k]) /\ CapKey(t[k]) = CapKey(caps[k])
    <3>1. CASE k = x
      BY <1>3, <1>7, <3>1 DEF CapKey, w
    <3>2. CASE k # x
      BY <1>2, <3>2 DEF CapsOK, n
    <3>3. QED
      BY <3>1, <3>2
  <2>2. QED
    BY <2>1
<1>11. CapsOK(t)
  BY <1>9, <1>10 DEF CapsOK, n
<1>12. c.act = w.act /\ t[x].act = c.act
  BY <1>3, <1>6 DEF Colour
<1>13. ASSUME NEW act, NEW i
       PROVE  Carries(t, act, i) <=> Carries(caps, act, i) \/ (act = c.act /\ i = inst)
  <2>1. ASSUME NEW k \in 1 .. n
        PROVE  t[k].act = act /\ i \in Instances(t[k]) <=>
                 (caps[k].act = act /\ i \in Instances(caps[k]))
                   \/ (k = x /\ act = c.act /\ i = inst)
    <3>1. CASE k = x
      BY <1>8, <1>12, <3>1 DEF w
    <3>2. CASE k # x
      BY <1>2, <3>2
    <3>3. QED
      BY <3>1, <3>2
  <2>2. Carries(t, act, i) <=> \E k \in 1 .. n : t[k].act = act /\ i \in Instances(t[k])
    BY <1>9 DEF Carries
  <2>3. Carries(caps, act, i) <=> \E k \in 1 .. n : caps[k].act = act /\ i \in Instances(caps[k])
    BY DEF Carries, n
  <2>4. x \in 1 .. n
    BY DEF n
  <2>5. QED
    BY <2>1, <2>2, <2>3, <2>4
<1>14. QED
  BY <1>11, <1>13

\* A piece whose instance is new is added to whole capabilities.
LEMMA AddPiece ==
  ASSUME NEW caps, CapsOK(caps), NEW c, NEW inst, Piece(c, inst),
         \A act, i : Carries(caps, act, i) => Key(i) # Key(inst)
  PROVE  /\ CapsOK(AddCapability(caps, c))
         /\ \A act, i : Carries(AddCapability(caps, c), act, i) <=>
                          Carries(caps, act, i) \/ (act = c.act /\ i = inst)
<1> DEFINE colour == {k \in DOMAIN caps : caps[k].act = "color_setting"}
<1>1. IsSeq(caps) /\ Len(caps) \in Nat /\ DOMAIN caps = 1 .. Len(caps)
  BY SeqFacts DEF CapsOK
<1>2. \A k \in 1 .. Len(caps) : \A i \in Instances(caps[k]) : Key(i) # Key(inst)
  BY DEF Carries
<1>3. CASE Colour(c) /\ colour # {}
  <2> DEFINE x == CHOOSE k \in colour : TRUE
  <2>1. x \in colour
    BY <1>3
  <2>2. Recolours(AddCapability(caps, c), caps, x, c)
    BY <1>3 DEF AddCapability, Colour, Recolours
  <2>3. x \in 1 .. Len(caps) /\ Colour(caps[x])
    BY <1>1, <2>1 DEF Colour
  <2> HIDE DEF x
  <2>4. QED
    BY <1>2, <1>3, <2>2, <2>3, MergeColour
<1>4. CASE ~(Colour(c) /\ colour # {})
  <2>1. AddCapability(caps, c) = Append(caps, c)
    BY <1>4 DEF AddCapability, Colour
  <2>2. Whole(c) /\ Instances(c) = {inst} /\ CapKey(c) = IF Colour(c) THEN "hsv" ELSE inst
    BY PieceIsWhole
  <2>3. ASSUME NEW k \in 1 .. Len(caps)
        PROVE  CapKey(caps[k]) # CapKey(c)
    <3>1. CASE Colour(c)
      <4>1. ~Colour(caps[k])
        BY <1>1, <1>4, <3>1 DEF Colour
      <4>2. Whole(caps[k])
        BY DEF CapsOK
      <4>3. CapKey(caps[k]) \in Plain /\ CapKey(c) \in Colours
        BY <2>2, <3>1, <4>1, <4>2 DEF CapKey, Whole, PlainCap, Colours
      <4>4. QED
        BY <4>3, ColourKeys
    <3>2. CASE ~Colour(c)
      <4>1. inst \in Plain /\ CapKey(c) = inst /\ Key(inst) = inst
        BY <2>2, <3>2, ColourKeys DEF Piece
      <4>2. CASE Colour(caps[k])
        BY <4>1, <4>2, ColourKeys DEF CapKey, Colours
      <4>3. CASE ~Colour(caps[k])
        <5>1. CapKey(caps[k]) \in Instances(caps[k]) /\ CapKey(caps[k]) \in Plain
          BY <4>3 DEF CapKey, Instances, CapsOK, Whole, PlainCap
        <5>2. QED
          BY <1>2, <4>1, <5>1, ColourKeys
      <4>4. QED
        BY <4>2, <4>3
    <3>3. QED
      BY <3>1, <3>2
  <2>4. QED
    BY <2>1, <2>2, <2>3, AppendCap
<1>5. QED
  BY <1>3, <1>4

\* Pieces of different instances are merged into whole capabilities, which
\* carry what the pieces did.
LEMMA MergedPieces ==
  ASSUME NEW list, IsSeq(list), NEW inst,
         \A k \in 1 .. Len(list) : Piece(list[k], inst[k]),
         \A j, k \in 1 .. Len(list) : Key(inst[j]) = Key(inst[k]) => j = k
  PROVE  /\ CapsOK(Merged(list))
         /\ \A act, i : Carries(Merged(list), act, i) <=>
                          \E k \in 1 .. Len(list) : act = list[k].act /\ i = inst[k]
<1> DEFINE N == Len(list)
<1>1. N \in Nat
  BY SeqFacts
<1>2. PICK f : Merges(f, list, N) /\ Merged(list) = f[N]
  BY <1>1, MergedUnfold
<1> DEFINE Good(n) ==
             /\ CapsOK(f[n])
             /\ \A act, i : Carries(f[n], act, i) <=>
                              \E k \in 1 .. n : act = list[k].act /\ i = inst[k]
           Bad == {n \in Nat : n \in 0 .. N /\ ~Good(n)}
<1>3. Bad = {}
  <2>1. SUFFICES ASSUME Bad # {} PROVE FALSE
    OBVIOUS
  <2>2. PICK n \in Bad : \A k \in Bad : n <= k
    <3>1. Bad \in SUBSET Nat
      OBVIOUS
    <3> HIDE DEF Bad
    <3>2. QED
      BY <2>1, <3>1, LeastExists
  <2>3. n \in 0 .. N /\ ~Good(n)
    OBVIOUS
  <2>4. CASE n = 0
    <3>1. f[n] = <<>>
      BY <1>2, <2>3, <2>4 DEF Merges
    <3>2. IsSeq(<<>>) /\ Len(<<>>) = 0
      BY EmptyIsSeq
    <3>3. CapsOK(f[n])
      BY <3>1, <3>2 DEF CapsOK
    <3>4. \A act, i : ~Carries(f[n], act, i)
      BY <3>1, <3>2 DEF Carries
    <3>5. QED
      BY <2>3, <2>4, <3>3, <3>4
  <2>5. CASE n # 0
    <3>1. n - 1 \in 0 .. N /\ n - 1 \notin Bad /\ n - 1 \in Nat /\ n \in 1 .. N
      <4> HIDE DEF Good
      <4>1. n - 1 \in 0 .. N /\ n - 1 \in Nat /\ n \in 1 .. N /\ ~(n <= n - 1)
        BY <1>1, <2>3, <2>5
      <4> HIDE DEF Bad
      <4>2. QED
        BY <2>2, <4>1
    <3>2. Good(n - 1)
      BY <3>1
    <3>3. f[n] = AddCapability(f[n - 1], list[n])
      BY <1>2, <2>3, <2>5 DEF Merges
    <3>4. \A act, i : Carries(f[n - 1], act, i) => Key(i) # Key(inst[n])
      <4>1. ASSUME NEW act, NEW i, Carries(f[n - 1], act, i), Key(i) = Key(inst[n])
            PROVE  FALSE
        <5>1. PICK k \in 1 .. n - 1 : i = inst[k]
          BY <3>2, <4>1
        <5>2. k \in 1 .. N /\ k # n
          BY <2>3, <5>1
        <5>3. QED
          BY <3>1, <4>1, <5>1, <5>2
      <4>2. QED
        BY <4>1
    <3>5. Piece(list[n], inst[n])
      BY <3>1
    <3> DEFINE caps == f[n - 1]
    <3>6. CapsOK(caps)
      BY <3>2
    <3>7. /\ CapsOK(f[n])
          /\ \A act, i : Carries(f[n], act, i) <=>
                           Carries(caps, act, i) \/ (act = list[n].act /\ i = inst[n])
      <4> HIDE DEF Good, Bad
      <4>1. \A act, i : Carries(caps, act, i) => Key(i) # Key(inst[n])
        BY <3>4
      <4> HIDE DEF caps
      <4>2. QED
        BY <3>3, <3>5, <3>6, <4>1, AddPiece DEF caps
    <3>8. \A k : k \in 1 .. n <=> k \in 1 .. n - 1 \/ k = n
      BY <2>3, <3>1
    <3>9. QED
      BY <2>3, <3>2, <3>7, <3>8
  <2>6. QED
    BY <2>4, <2>5
<1>4. Good(N)
  <2> HIDE DEF Good
  <2>1. QED
    BY <1>1, <1>3
<1>5. QED
  BY <1>2, <1>4


-----------------------------------------------------------------------------
(* Rows: a device is split into rows and put together again.               *)

LEMMA SubInstances ==
  ASSUME NEW m \in Colours
  PROVE  /\ colorSubInstances(ModelParams(m)) = <<m>>
         /\ colorSubInstances(WhiteParams) = <<"temperature_k">>
         /\ colorSubInstances(BothParams(m)) = <<m, "temperature_k">>
<1>1. /\ Has(ModelParams(m), {"color_model"}) /\ ~Has(ModelParams(m), {"temperature_k"})
      /\ ~Has(ModelParams(m), {"scene"})
  BY ParamFacts DEF Has
<1>2. /\ ~Has(WhiteParams, {"color_model"}) /\ Has(WhiteParams, {"temperature_k"})
      /\ ~Has(WhiteParams, {"scene"})
  BY ParamFacts DEF Has
<1>3. /\ Has(BothParams(m), {"color_model"}) /\ Has(BothParams(m), {"temperature_k"})
      /\ ~Has(BothParams(m), {"scene"})
  BY ParamFacts DEF Has
<1>4. ModelParams(m).color_model = m /\ BothParams(m).color_model = m
  BY ParamFacts
<1>5. colorSubInstances(ModelParams(m)) = IF <<m>> \o <<>> \o <<>> = <<>> THEN <<"hsv">>
                                          ELSE <<m>> \o <<>> \o <<>>
  BY <1>1, <1>4 DEF colorSubInstances
<1>6. colorSubInstances(WhiteParams) = IF <<>> \o <<"temperature_k">> \o <<>> = <<>> THEN <<"hsv">>
                                       ELSE <<>> \o <<"temperature_k">> \o <<>>
  BY <1>2 DEF colorSubInstances
<1>7. colorSubInstances(BothParams(m)) = IF <<m>> \o <<"temperature_k">> \o <<>> = <<>> THEN <<"hsv">>
                                         ELSE <<m>> \o <<"temperature_k">> \o <<>>
  BY <1>3, <1>4 DEF colorSubInstances
<1>8. <<m>> \o <<>> \o <<>> = <<m>>
  BY ConcatFacts, OneIsSeq
<1>9. <<>> \o <<"temperature_k">> \o <<>> = <<"temperature_k">>
  <2>1. <<>> \o <<"temperature_k">> = <<"temperature_k">>
    BY ConcatEmptySeq
  <2>2. QED
    BY <2>1, ConcatFacts, OneIsSeq
<1>10. <<m>> \o <<"temperature_k">> \o <<>> = <<m, "temperature_k">>
  <2>1. <<m>> \o <<"temperature_k">> = Append(<<m>>, "temperature_k")
    BY AppendFacts, OneIsSeq
  <2>2. Append(<<m>>, "temperature_k") = <<m, "temperature_k">>
    BY TwoAppended
  <2>3. QED
    BY <2>1, <2>2, ConcatFacts, TwoIsSeq
<1>11. <<m>> # <<>> /\ <<"temperature_k">> # <<>> /\ <<m, "temperature_k">> # <<>>
  OBVIOUS
<1>12. QED
  BY <1>5, <1>6, <1>7, <1>8, <1>9, <1>10, <1>11

OneRow(inst, params) == [inst |-> inst, params |-> params]

LEMMA CapRows ==
  ASSUME NEW c
  PROVE  /\ ~Colour(c) => capRows(c) = <<OneRow(capInstance(c), c.params)>>
         /\ \A m \in Colours :
              Colour(c) /\ c.params = ModelParams(m) => capRows(c) = <<OneRow(m, ModelParams(m))>>
         /\ Colour(c) /\ c.params = WhiteParams =>
              capRows(c) = <<OneRow("temperature_k", WhiteParams)>>
         /\ \A m \in Colours :
              Colour(c) /\ c.params = BothParams(m) =>
                capRows(c) = <<OneRow(m, ModelParams(m)), OneRow("temperature_k", WhiteParams)>>
<1>1. ~Colour(c) => capRows(c) = <<OneRow(capInstance(c), c.params)>>
  BY DEF capRows, Colour, OneRow
<1> DEFINE subs == colorSubInstances(c.params)
<1>2. Colour(c) => capRows(c) = [k \in DOMAIN subs |-> OneRow(subs[k], colorSubParams(c.params, subs[k]))]
  BY DEF capRows, Colour, OneRow
<1>3. \A p : \A m \in Colours : colorSubParams(p, m) = ModelParams(m)
  BY DEF colorSubParams, Colours, ModelParams
<1>4. /\ colorSubParams(WhiteParams, "temperature_k") = WhiteParams
      /\ \A m \in Colours : colorSubParams(BothParams(m), "temperature_k") = WhiteParams
  BY DEF colorSubParams, WhiteParams, BothParams
<1>5. ASSUME NEW m \in Colours, Colour(c), c.params = ModelParams(m)
      PROVE  capRows(c) = <<OneRow(m, ModelParams(m))>>
  <2>1. subs = <<m>>
    BY <1>5, SubInstances
  <2> HIDE DEF subs
  <2>2. capRows(c) = [k \in 1 .. 1 |-> OneRow(m, ModelParams(m))]
    BY <1>2, <1>3, <1>5, <2>1
  <2> DEFINE r == OneRow(m, ModelParams(m))
  <2> HIDE DEF r
  <2>3. [k \in 1 .. 1 |-> r] = <<r>>
    OBVIOUS
  <2>4. QED
    BY <2>2, <2>3 DEF r
<1>6. ASSUME Colour(c), c.params = WhiteParams
      PROVE  capRows(c) = <<OneRow("temperature_k", WhiteParams)>>
  <2>1. subs = <<"temperature_k">>
    BY <1>6, SubInstances DEF Colours
  <2> HIDE DEF subs
  <2>2. capRows(c) = [k \in 1 .. 1 |-> OneRow("temperature_k", WhiteParams)]
    BY <1>2, <1>4, <1>6, <2>1
  <2> DEFINE r == OneRow("temperature_k", WhiteParams)
  <2> HIDE DEF r
  <2>3. [k \in 1 .. 1 |-> r] = <<r>>
    OBVIOUS
  <2>4. QED
    BY <2>2, <2>3 DEF r
<1>7. ASSUME NEW m \in Colours, Colour(c), c.params = BothParams(m)
      PROVE  capRows(c) = <<OneRow(m, ModelParams(m)), OneRow("temperature_k", WhiteParams)>>
  <2>1. subs = <<m, "temperature_k">>
    BY <1>7, SubInstances
  <2> HIDE DEF subs
  <2> DEFINE r == OneRow(m, ModelParams(m))
             s == OneRow("temperature_k", WhiteParams)
  <2>2. capRows(c) = [k \in 1 .. 2 |-> IF k = 1 THEN r ELSE s]
    BY <1>2, <1>3, <1>4, <1>7, <2>1
  <2> HIDE DEF r, s
  <2>3. [k \in 1 .. 2 |-> IF k = 1 THEN r ELSE s] = <<r, s>>
    OBVIOUS
  <2>4. QED
    BY <2>2, <2>3 DEF r, s
<1>8. QED
  BY <1>1, <1>5, <1>6, <1>7


\* The capabilities of rows, and the first n elements of a list.
CapList(rows) == [k \in DOMAIN rows |-> CapabilityOf(rows[k])]
Prefix(s, n) == [k \in 1 .. n |-> s[k]]

LEMMA CapListFacts ==
  ASSUME NEW rows, IsSeq(rows)
  PROVE  /\ IsSeq(CapList(rows)) /\ Len(CapList(rows)) = Len(rows)
         /\ \A k \in 1 .. Len(rows) : CapList(rows)[k] = CapabilityOf(rows[k])
<1>1. Len(rows) \in Nat /\ DOMAIN rows = 1 .. Len(rows)
  BY SeqFacts
<1>2. CapList(rows) = [k \in 1 .. Len(rows) |-> CapabilityOf(rows[k])]
  BY <1>1 DEF CapList
<1> DEFINE t == CapList(rows)
<1>3. t = [k \in 1 .. Len(rows) |-> t[k]]
  BY <1>2
<1>4. \A k \in 1 .. Len(rows) : t[k] = CapabilityOf(rows[k])
  BY <1>2
<1> HIDE DEF t
<1>5. IsSeq(t) /\ Len(t) = Len(rows)
  BY <1>1, <1>3, MapIsSeq
<1>6. QED
  BY <1>4, <1>5 DEF t

LEMMA CapListAppend ==
  ASSUME NEW rows, IsSeq(rows), NEW r
  PROVE  CapList(Append(rows, r)) = Append(CapList(rows), CapabilityOf(r))
<1> DEFINE n == Len(rows)
           s == Append(rows, r)
           a == CapList(s)
           l == CapList(rows)
           b == Append(l, CapabilityOf(r))
<1>1. n \in Nat
  BY SeqFacts
<1>2. IsSeq(s) /\ Len(s) = n + 1 /\ (\A k \in 1 .. n : s[k] = rows[k]) /\ s[n + 1] = r
  BY AppendFacts
<1>3. IsSeq(l) /\ Len(l) = n /\ \A k \in 1 .. n : l[k] = CapabilityOf(rows[k])
  BY CapListFacts
<1> HIDE DEF s, l
<1>4. IsSeq(a) /\ Len(a) = Len(s) /\ \A k \in 1 .. Len(s) : a[k] = CapabilityOf(s[k])
  BY <1>2, CapListFacts
<1>5. IsSeq(b) /\ Len(b) = Len(l) + 1 /\ (\A k \in 1 .. Len(l) : b[k] = l[k])
      /\ b[Len(l) + 1] = CapabilityOf(r)
  BY <1>3, AppendFacts
<1> HIDE DEF n, a, b
<1>6. ASSUME NEW k \in 1 .. n + 1 PROVE a[k] = b[k]
  <2>1. CASE k = n + 1
    BY <1>1, <1>2, <1>3, <1>4, <1>5, <2>1
  <2>2. CASE k # n + 1
    <3>1. k \in 1 .. n
      BY <1>1, <2>2
    <3>2. QED
      BY <1>1, <1>2, <1>3, <1>4, <1>5, <3>1
  <2>3. QED
    BY <2>1, <2>2
<1>7. Alike(a, b, Len(a))
  BY <1>2, <1>4, <1>6 DEF Alike
<1>8. a = b
  BY <1>2, <1>3, <1>4, <1>5, <1>7, SeqSame
<1>9. QED
  BY <1>8 DEF a, b, l, s

LEMMA PrefixFacts ==
  ASSUME NEW s, IsSeq(s)
  PROVE  /\ Prefix(s, 0) = <<>>
         /\ Prefix(s, Len(s)) = s
         /\ \A n \in 1 .. Len(s) : Prefix(s, n) = Append(Prefix(s, n - 1), s[n])
         /\ \A n \in 0 .. Len(s) : /\ IsSeq(Prefix(s, n)) /\ Len(Prefix(s, n)) = n
                                   /\ \A k \in 1 .. n : Prefix(s, n)[k] = s[k]
<1>1. Len(s) \in Nat /\ s = [k \in 1 .. Len(s) |-> s[k]]
  BY SeqFacts
<1>2. ASSUME NEW n \in Nat
      PROVE  /\ IsSeq(Prefix(s, n)) /\ Len(Prefix(s, n)) = n
             /\ \A k \in 1 .. n : Prefix(s, n)[k] = s[k]
  <2> DEFINE t == Prefix(s, n)
  <2>1. t = [k \in 1 .. n |-> t[k]] /\ \A k \in 1 .. n : t[k] = s[k]
    BY DEF Prefix
  <2> HIDE DEF t
  <2>2. IsSeq(t) /\ Len(t) = n
    BY <2>1, MapIsSeq
  <2>3. QED
    BY <2>1, <2>2 DEF t
<1>3. ASSUME NEW n \in 1 .. Len(s)
      PROVE  Prefix(s, n) = Append(Prefix(s, n - 1), s[n])
  <2> DEFINE p == Prefix(s, n - 1)
             a == Prefix(s, n)
             b == Append(p, s[n])
  <2>1. n \in Nat /\ n - 1 \in Nat
    BY <1>1
  <2>2. IsSeq(p) /\ Len(p) = n - 1 /\ \A k \in 1 .. n - 1 : p[k] = s[k]
    BY <1>2, <2>1
  <2>3. IsSeq(a) /\ Len(a) = n /\ \A k \in 1 .. n : a[k] = s[k]
    BY <1>2, <2>1
  <2> HIDE DEF p, a
  <2>4. IsSeq(b) /\ Len(b) = Len(p) + 1 /\ (\A k \in 1 .. Len(p) : b[k] = p[k]) /\ b[Len(p) + 1] = s[n]
    BY <2>2, AppendFacts
  <2> HIDE DEF b
  <2>5. (n - 1) + 1 = n /\ \A k \in 1 .. n : k \in 1 .. n - 1 \/ k = n
    BY <2>1
  <2>6. Alike(a, b, Len(a))
    BY <2>2, <2>3, <2>4, <2>5 DEF Alike
  <2>7. a = b
    BY <2>2, <2>3, <2>4, <2>5, <2>6, SeqSame
  <2>8. QED
    BY <2>7 DEF a, b, p
<1>4. Prefix(s, 0) = <<>>
  <2>1. IsSeq(Prefix(s, 0)) /\ Len(Prefix(s, 0)) = 0
    BY <1>2
  <2>2. QED
    BY <2>1, EmptySeq DEF IsSeq
<1>5. Prefix(s, Len(s)) = s
  BY <1>1 DEF Prefix
<1>6. QED
  BY <1>1, <1>2, <1>3, <1>4, <1>5

\* The capability of a row.
RowCap(act, params, invert) == [act |-> act, params |-> params, invert |-> invert]
ColourCap(params) == [act |-> "color_setting", params |-> params, invert |-> FALSE]

LEMMA CapShape ==
  ASSUME NEW c, IsCap(c)
  PROVE  c = RowCap(c.act, c.params, c.invert)
BY DEF IsCap, RowCap

LEMMA RowCapability ==
  ASSUME NEW c, IsCap(c), NEW d, NEW kind, NEW r
  PROVE  /\ ~Colour(c) => CapabilityOf(Row(d, kind, c, r)) = RowCap(c.act, r.params, c.invert)
         /\ Colour(c) => CapabilityOf(Row(d, kind, c, r)) = ColourCap(r.params)
<1> DEFINE b == c.invert /\ c.act # "color_setting"
<1>1. CapabilityOf(Row(d, kind, c, r)) = [act |-> c.act, params |-> r.params, invert |-> b]
  BY DEF CapabilityOf, Row
<1>2. c.invert \in BOOLEAN
  BY DEF IsCap
<1>3. ~Colour(c) => b = c.invert
  BY <1>2, Zenon DEF Colour
<1>4. Colour(c) => b = FALSE
  BY Zenon DEF Colour
<1> HIDE DEF b
<1>5. QED
  BY <1>1, <1>3, <1>4 DEF Colour, RowCap, ColourCap

\* A whole capability is the only one of its key: no colour comes before one.
LEMMA AddToPrefix ==
  ASSUME NEW caps, CapsOK(caps), NEW m \in 1 .. Len(caps), NEW c,
         Colour(c) => Colour(caps[m])
  PROVE  AddCapability(Prefix(caps, m - 1), c) = Append(Prefix(caps, m - 1), c)
<1> DEFINE p == Prefix(caps, m - 1)
<1>1. IsSeq(caps) /\ Len(caps) \in Nat
  BY SeqFacts DEF CapsOK
<1>2. m - 1 \in 0 .. Len(caps)
  BY <1>1
<1>3. IsSeq(p) /\ Len(p) = m - 1 /\ \A k \in 1 .. m - 1 : p[k] = caps[k]
  BY <1>1, <1>2, PrefixFacts
<1> HIDE DEF p
<1>4. DOMAIN p = 1 .. m - 1
  BY <1>3, SeqFacts
<1>5. ASSUME Colour(c), NEW k \in DOMAIN p PROVE ~Colour(p[k])
  <2>1. k \in 1 .. m - 1 /\ k \in 1 .. Len(caps) /\ k # m
    BY <1>1, <1>4, <1>5
  <2>2. CapKey(caps[k]) # CapKey(caps[m])
    BY <2>1 DEF CapsOK
  <2>3. Colour(caps[m])
    BY <1>5
  <2>4. QED
    BY <1>3, <2>1, <2>2, <2>3 DEF CapKey
<1>6. QED
  BY <1>5 DEF AddCapability, Colour, p

LEMMA AddOneRow ==
  ASSUME NEW caps, CapsOK(caps), NEW m \in 1 .. Len(caps)
  PROVE  AddCapability(Prefix(caps, m - 1), caps[m]) = Prefix(caps, m)
<1>1. Prefix(caps, m) = Append(Prefix(caps, m - 1), caps[m])
  BY PrefixFacts DEF CapsOK
<1>2. QED
  BY <1>1, AddToPrefix

\* The two rows of a colour light are merged into one capability.
LEMMA AddTwoRows ==
  ASSUME NEW caps, CapsOK(caps), NEW m \in 1 .. Len(caps), Colour(caps[m]),
         NEW n \in Colours, caps[m].params = BothParams(n)
  PROVE  AddCapability(AddCapability(Prefix(caps, m - 1),
                                     ColourCap(ModelParams(n))),
                       ColourCap(WhiteParams)) = Prefix(caps, m)
<1> DEFINE p == Prefix(caps, m - 1)
           a == ColourCap(ModelParams(n))
           w == ColourCap(WhiteParams)
           q == Append(p, a)
           t == AddCapability(q, w)
           e == Prefix(caps, m)
<1>1. IsSeq(caps) /\ Len(caps) \in Nat
  BY SeqFacts DEF CapsOK
<1>2. m - 1 \in 0 .. Len(caps) /\ m - 1 \in Nat /\ (m - 1) + 1 = m /\ m \in 1 .. m
      /\ m \in 0 .. Len(caps)
  BY <1>1
<1>3. IsSeq(p) /\ Len(p) = m - 1 /\ \A k \in 1 .. m - 1 : p[k] = caps[k]
  BY <1>1, <1>2, PrefixFacts
<1>4. IsSeq(e) /\ Len(e) = m /\ \A k \in 1 .. m : e[k] = caps[k]
  BY <1>1, <1>2, PrefixFacts
<1>5. /\ Colour(a) /\ a.params = ModelParams(n)
      /\ Colour(w) /\ w.act = "color_setting" /\ w.params = WhiteParams
  BY DEF ColourCap, Colour
<1>6. AddCapability(p, a) = q
  BY AddToPrefix
<1>7. \A k \in 1 .. m - 1 : ~Colour(p[k])
  <2>1. ASSUME NEW k \in 1 .. m - 1 PROVE ~Colour(p[k])
    <3>1. k \in 1 .. Len(caps) /\ k # m
      BY <1>1
    <3>2. CapKey(caps[k]) # CapKey(caps[m])
      BY <3>1 DEF CapsOK
    <3>3. QED
      BY <1>3, <3>2 DEF CapKey
  <2>2. QED
    BY <2>1
<1>8. caps[m] = ColourCap(BothParams(n))
  <2>1. IsCap(caps[m]) /\ caps[m].invert = FALSE
    BY DEF CapsOK, Whole, ColourWhole
  <2>2. QED
    BY <2>1 DEF IsCap, ColourCap, Colour
<1> HIDE DEF p, a, w
<1>9. IsSeq(q) /\ Len(q) = m /\ (\A k \in 1 .. m - 1 : q[k] = p[k]) /\ q[m] = a
  <2>1. /\ IsSeq(q) /\ Len(q) = Len(p) + 1 /\ (\A k \in 1 .. Len(p) : q[k] = p[k])
        /\ q[Len(p) + 1] = a
    <3>1. IsSeq(p)
      BY <1>3
    <3>2. QED
      BY <3>1, AppendFacts
  <2> HIDE DEF q
  <2>2. QED
    BY <1>2, <1>3, <2>1
<1>10. q = [k \in 1 .. m |-> q[k]] /\ DOMAIN q = 1 .. m
  BY <1>9, SeqFacts
<1> HIDE DEF q
<1>11. {k \in DOMAIN q : q[k].act = "color_setting"} = {m}
  <2>1. \A k \in 1 .. m : k \in 1 .. m - 1 \/ k = m
    BY <1>2
  <2>2. \A k \in 1 .. m : q[k].act = "color_setting" <=> k = m
    BY <1>2, <1>5, <1>7, <1>9, <2>1 DEF Colour
  <2>3. QED
    BY <1>2, <1>10, <2>2
<1>12. t = [q EXCEPT ![m].params = Over(WhiteParams, @)]
  <2> DEFINE S == {k \in DOMAIN q : q[k].act = "color_setting"}
  <2>1. S # {} /\ (CHOOSE k \in S : TRUE) = m
    <3> HIDE DEF S
    <3>1. S = {m}
      BY <1>11 DEF S
    <3>2. QED
      BY <3>1
  <2>2. t = [q EXCEPT ![CHOOSE k \in S : TRUE].params = Over(w.params, @)]
    BY <1>5, <2>1 DEF AddCapability
  <2>3. QED
    BY <1>5, <2>1, <2>2
<1> HIDE DEF t
<1>13. t = [q EXCEPT ![m] = ColourCap(BothParams(n))]
  <2>1. [a EXCEPT !.params = Over(WhiteParams, a.params)] = ColourCap(BothParams(n))
    <3>1. Over(WhiteParams, a.params) = BothParams(n)
      BY <1>5, ParamFacts
    <3>2. /\ a = [act |-> a.act, params |-> a.params, invert |-> a.invert]
          /\ a.act = "color_setting" /\ a.invert = FALSE
      BY DEF ColourCap, a
    <3> DEFINE b == BothParams(n)
    <3> HIDE DEF b
    <3>3. [a EXCEPT !.params = b] = [act |-> a.act, params |-> b, invert |-> a.invert]
      BY <3>2
    <3>4. QED
      BY <3>1, <3>2, <3>3 DEF ColourCap, b
  <2>2. t = [q EXCEPT ![m] = [q[m] EXCEPT !.params = Over(WhiteParams, q[m].params)]]
    BY <1>12
  <2>3. QED
    BY <1>9, <2>1, <2>2
<1>14. t = [k \in 1 .. m |-> t[k]] /\ (\A k \in 1 .. m : k # m => t[k] = q[k]) /\ t[m] = caps[m]
  BY <1>2, <1>8, <1>10, <1>13
<1>15. IsSeq(t) /\ Len(t) = m
  BY <1>2, <1>14, MapIsSeq
<1> HIDE DEF e
<1>16. Alike(t, e, Len(t))
  <2>1. \A k \in 1 .. m : k # m => k \in 1 .. m - 1
    BY <1>2
  <2>2. QED
    BY <1>3, <1>4, <1>9, <1>14, <1>15, <2>1 DEF Alike
<1>17. t = e
  BY <1>4, <1>15, <1>16, SeqSame
<1>18. QED
  BY <1>6, <1>17 DEF t, e, p, a, w, q


RowsFor(d, kind, c) == [j \in DOMAIN capRows(c) |-> Row(d, kind, c, capRows(c)[j])]

LEMMA RowsForCap ==
  ASSUME NEW d, NEW kind, NEW c
  PROVE  /\ ~Colour(c) => RowsFor(d, kind, c) = <<Row(d, kind, c, OneRow(capInstance(c), c.params))>>
         /\ \A m \in Colours : Colour(c) /\ c.params = ModelParams(m) =>
              RowsFor(d, kind, c) = <<Row(d, kind, c, OneRow(m, ModelParams(m)))>>
         /\ Colour(c) /\ c.params = WhiteParams =>
              RowsFor(d, kind, c) = <<Row(d, kind, c, OneRow("temperature_k", WhiteParams))>>
         /\ \A m \in Colours : Colour(c) /\ c.params = BothParams(m) =>
              RowsFor(d, kind, c) = <<Row(d, kind, c, OneRow(m, ModelParams(m))),
                                      Row(d, kind, c, OneRow("temperature_k", WhiteParams))>>
<1> DEFINE rows == capRows(c)
           G(r) == Row(d, kind, c, r)
<1>1. RowsFor(d, kind, c) = [j \in DOMAIN rows |-> G(rows[j])]
  BY DEF RowsFor
<1> HIDE DEF rows, G
<1>2. ASSUME NEW r, rows = <<r>> PROVE RowsFor(d, kind, c) = <<G(r)>>
  <2>1. DOMAIN rows = 1 .. 1 /\ rows[1] = r
    BY <1>2
  <2>2. RowsFor(d, kind, c) = [j \in 1 .. 1 |-> G(r)]
    <3>1. \A j \in 1 .. 1 : rows[j] = r
      BY <2>1
    <3>2. QED
      BY <1>1, <2>1, <3>1
  <2> DEFINE x == G(r)
  <2> HIDE DEF x
  <2>3. [j \in 1 .. 1 |-> x] = <<x>>
    OBVIOUS
  <2>4. QED
    BY <2>2, <2>3 DEF x
<1>3. ASSUME NEW r, NEW s, rows = <<r, s>> PROVE RowsFor(d, kind, c) = <<G(r), G(s)>>
  <2>1. DOMAIN rows = 1 .. 2 /\ rows[1] = r /\ rows[2] = s
    BY <1>3
  <2> DEFINE x == G(r)
             y == G(s)
  <2>2. RowsFor(d, kind, c) = [j \in 1 .. 2 |-> IF j = 1 THEN x ELSE y]
    <3>1. \A j \in 1 .. 2 : rows[j] = IF j = 1 THEN r ELSE s
      BY <2>1
    <3>2. \A j \in 1 .. 2 : G(rows[j]) = IF j = 1 THEN x ELSE y
      BY <3>1
    <3>3. QED
      BY <1>1, <2>1, <3>2
  <2> HIDE DEF x, y
  <2>3. [j \in 1 .. 2 |-> IF j = 1 THEN x ELSE y] = <<x, y>>
    OBVIOUS
  <2>4. QED
    BY <2>2, <2>3 DEF x, y
<1>4. QED
  BY <1>2, <1>3, CapRows DEF rows, G

\* Each capability's rows, whichever they are.
LEMMA RowsForWhole ==
  ASSUME NEW d, NEW kind, NEW c, Whole(c)
  PROVE  \/ \E r : RowsFor(d, kind, c) = <<r>> /\ CapabilityOf(r) = c
         \/ \E r, s : \E m \in Colours :
              /\ Colour(c) /\ c.params = BothParams(m)
              /\ RowsFor(d, kind, c) = <<r, s>>
              /\ CapabilityOf(r) = ColourCap(ModelParams(m))
              /\ CapabilityOf(s) = ColourCap(WhiteParams)
<1> DEFINE R(inst, p) == Row(d, kind, c, OneRow(inst, p))
<1>1. IsCap(c)
  BY DEF Whole
<1>2. ASSUME NEW inst, NEW p
      PROVE  /\ ~Colour(c) => CapabilityOf(R(inst, p)) = RowCap(c.act, p, c.invert)
             /\ Colour(c) => CapabilityOf(R(inst, p)) = ColourCap(p)
  <2> DEFINE r == OneRow(inst, p)
  <2>1. r.params = p
    BY DEF OneRow
  <2> HIDE DEF r
  <2>2. /\ ~Colour(c) => CapabilityOf(Row(d, kind, c, r)) = RowCap(c.act, r.params, c.invert)
        /\ Colour(c) => CapabilityOf(Row(d, kind, c, r)) = ColourCap(r.params)
    BY <1>1, RowCapability
  <2>3. QED
    BY <2>1, <2>2 DEF r
<1>3. c = RowCap(c.act, c.params, c.invert)
  BY <1>1, CapShape
<1> HIDE DEF R
<1>4. CASE ~Colour(c)
  <2>1. RowsFor(d, kind, c) = <<R(capInstance(c), c.params)>>
    BY <1>4, RowsForCap DEF R
  <2>2. CapabilityOf(R(capInstance(c), c.params)) = c
    BY <1>2, <1>3, <1>4
  <2>3. QED
    BY <2>1, <2>2
<1>5. CASE Colour(c)
  <2>1. c = ColourCap(c.params) /\ ColourWhole(c)
    BY <1>5 DEF Whole, ColourWhole, Colour, IsCap, ColourCap
  <2>2. CASE c.params = WhiteParams
    <3>1. RowsFor(d, kind, c) = <<R("temperature_k", WhiteParams)>>
      BY <1>5, <2>2, RowsForCap DEF R
    <3>2. CapabilityOf(R("temperature_k", WhiteParams)) = c
      BY <1>2, <1>3, <1>5, <2>1, <2>2
    <3>3. QED
      BY <3>1, <3>2
  <2>3. ASSUME NEW m \in Colours, c.params = ModelParams(m)
        PROVE  \E r : RowsFor(d, kind, c) = <<r>> /\ CapabilityOf(r) = c
    <3>1. RowsFor(d, kind, c) = <<R(m, ModelParams(m))>>
      BY <1>5, <2>3, RowsForCap DEF R
    <3>2. CapabilityOf(R(m, ModelParams(m))) = c
      BY <1>2, <1>3, <1>5, <2>1, <2>3
    <3>3. QED
      BY <3>1, <3>2
  <2>4. ASSUME NEW m \in Colours, c.params = BothParams(m)
        PROVE  \E r, s : \E k \in Colours :
              /\ Colour(c) /\ c.params = BothParams(k)
              /\ RowsFor(d, kind, c) = <<r, s>>
              /\ CapabilityOf(r) = ColourCap(ModelParams(k))
              /\ CapabilityOf(s) = ColourCap(WhiteParams)
    <3>1. RowsFor(d, kind, c) = <<R(m, ModelParams(m)), R("temperature_k", WhiteParams)>>
      BY <1>5, <2>4, RowsForCap DEF R
    <3>2. /\ CapabilityOf(R(m, ModelParams(m))) = ColourCap(ModelParams(m))
          /\ CapabilityOf(R("temperature_k", WhiteParams)) = ColourCap(WhiteParams)
      BY <1>2, <1>5
    <3>3. QED
      BY <1>5, <2>4, <3>1, <3>2
  <2>5. QED
    BY <2>1, <2>2, <2>3, <2>4 DEF ColourWhole
<1>6. QED
  BY <1>4, <1>5

LEMMA RowsOfSeqs ==
  ASSUME NEW d, NEW kind, NEW caps, IsSeq(caps)
  PROVE  \E R : /\ IsSeq(R) /\ Len(R) = Len(caps)
                /\ \A k \in 1 .. Len(caps) : R[k] = RowsFor(d, kind, caps[k])
                /\ RowsOf(d, kind, caps) = FlattenSeq(R)
<1> DEFINE R == [k \in DOMAIN caps |-> RowsFor(d, kind, caps[k])]
<1>1. RowsOf(d, kind, caps) = FlattenSeq(R)
  BY DEF RowsOf, RowsFor
<1>2. Len(caps) \in Nat /\ DOMAIN caps = 1 .. Len(caps)
  BY SeqFacts
<1>3. R = [k \in 1 .. Len(caps) |-> R[k]] /\ \A k \in 1 .. Len(caps) : R[k] = RowsFor(d, kind, caps[k])
  BY <1>2
<1> HIDE DEF R
<1>4. IsSeq(R) /\ Len(R) = Len(caps)
  BY <1>2, <1>3, MapIsSeq
<1>5. QED
  BY <1>1, <1>3, <1>4


LEMMA ConcatOneTwo ==
  ASSUME NEW s, IsSeq(s), NEW x, NEW y
  PROVE  /\ s \o <<x>> = Append(s, x)
         /\ s \o <<x, y>> = Append(Append(s, x), y)
         /\ IsSeq(Append(Append(s, x), y))
<1> DEFINE a == Append(s, x)
<1>1. IsSeq(a) /\ a = s \o <<x>>
  BY AppendFacts
<1> DEFINE b == <<x>>
           c == <<y>>
<1>2. IsSeq(b) /\ IsSeq(c)
  BY OneIsSeq
<1>3. b \o c = <<x, y>>
  <2>1. Append(b, y) = b \o c
    <3>1. IsSeq(b)
      BY <1>2
    <3> HIDE DEF b
    <3>2. QED
      BY <3>1, AppendFacts
  <2>2. QED
    BY <2>1, TwoAppended
<1>4. Append(a, y) = a \o c /\ IsSeq(Append(a, y))
  <2>1. IsSeq(a)
    BY <1>1
  <2> HIDE DEF a
  <2>2. QED
    BY <2>1, AppendFacts
<1> HIDE DEF a, b, c
<1>5. (s \o b) \o c = s \o (b \o c)
  <2>1. PICK S, B, C : s \in Seq(S) /\ b \in Seq(B) /\ c \in Seq(C)
    BY <1>2 DEF IsSeq
  <2> DEFINE U == S \cup B \cup C
  <2>2. s \in Seq(U) /\ b \in Seq(U) /\ c \in Seq(U)
    BY <2>1, SeqMonotonic
  <2> HIDE DEF U
  <2>3. QED
    BY <2>2, ConcatAssociative
<1>6. a = s \o b
  BY <1>1 DEF b
<1>7. QED
  BY <1>1, <1>3, <1>4, <1>5, <1>6 DEF a

LEMMA WholeRows ==
  ASSUME NEW d, NEW kind, NEW c, Whole(c)
  PROVE  IsSeq(RowsFor(d, kind, c))
<1>1. (\E r : RowsFor(d, kind, c) = <<r>>) \/ \E r, s : RowsFor(d, kind, c) = <<r, s>>
  BY RowsForWhole
<1>2. QED
  BY <1>1, OneIsSeq, TwoIsSeq

\* What the rows of the first m capabilities are merged into.
LEMMA CapsBack ==
  ASSUME NEW d, NEW kind, NEW caps, CapsOK(caps)
  PROVE  Merged(CapList(RowsOf(d, kind, caps))) = caps
<1> DEFINE N == Len(caps)
<1>1. IsSeq(caps) /\ N \in Nat
  BY SeqFacts DEF CapsOK
<1>2. PICK R : /\ IsSeq(R) /\ Len(R) = N
               /\ \A k \in 1 .. N : R[k] = RowsFor(d, kind, caps[k])
               /\ RowsOf(d, kind, caps) = FlattenSeq(R)
  BY <1>1, RowsOfSeqs
<1>3. PICK f : /\ Flattens(f, R, N)
               /\ FlattenSeq(R) = IF N = 0 THEN R ELSE f[N]
  BY <1>1, <1>2, FlattenUnfold
<1> DEFINE Good(m) == IsSeq(f[m]) /\ Merged(CapList(f[m])) = Prefix(caps, m)
           Bad == {m \in Nat : m \in 1 .. N /\ ~Good(m)}
<1>4. ASSUME NEW m \in 1 .. N, NEW F, IsSeq(F), Merged(CapList(F)) = Prefix(caps, m - 1)
      PROVE  IsSeq(F \o R[m]) /\ Merged(CapList(F \o R[m])) = Prefix(caps, m)
  <2> HIDE DEF N, Good, Bad
  <2>1. Whole(caps[m]) /\ R[m] = RowsFor(d, kind, caps[m])
    BY <1>2 DEF CapsOK, N
  <2>2. ASSUME NEW r, R[m] = <<r>>, CapabilityOf(r) = caps[m]
        PROVE  IsSeq(F \o R[m]) /\ Merged(CapList(F \o R[m])) = Prefix(caps, m)
    <3>1. F \o R[m] = Append(F, r) /\ IsSeq(Append(F, r))
      BY <1>4, <2>2, AppendFacts
    <3>2. CapList(Append(F, r)) = Append(CapList(F), caps[m])
      BY <1>4, <2>2, CapListAppend
    <3>3. Merged(Append(CapList(F), caps[m])) = AddCapability(Merged(CapList(F)), caps[m])
      BY <1>4, CapListFacts, MergedAppend
    <3>4. AddCapability(Prefix(caps, m - 1), caps[m]) = Prefix(caps, m)
      BY AddOneRow DEF N
    <3>5. QED
      BY <1>4, <3>1, <3>2, <3>3, <3>4
  <2>3. ASSUME NEW r, NEW s, NEW n \in Colours, Colour(caps[m]), caps[m].params = BothParams(n),
               R[m] = <<r, s>>, CapabilityOf(r) = ColourCap(ModelParams(n)),
               CapabilityOf(s) = ColourCap(WhiteParams)
        PROVE  IsSeq(F \o R[m]) /\ Merged(CapList(F \o R[m])) = Prefix(caps, m)
    <3> DEFINE G == Append(F, r)
    <3>1. F \o R[m] = Append(G, s) /\ IsSeq(Append(G, s)) /\ IsSeq(G)
      <4>1. IsSeq(F) /\ R[m] = <<r, s>>
        BY <1>4, <2>3
      <4>2. IsSeq(Append(F, r))
        BY <4>1, AppendFacts
      <4>3. F \o <<r, s>> = Append(Append(F, r), s) /\ IsSeq(Append(Append(F, r), s))
        BY <4>1, ConcatOneTwo
      <4>4. QED
        BY <4>1, <4>2, <4>3
    <3>2. CapList(G) = Append(CapList(F), CapabilityOf(r))
      BY <1>4, CapListAppend
    <3> HIDE DEF G
    <3>3. CapList(Append(G, s)) = Append(CapList(G), CapabilityOf(s))
      BY <3>1, CapListAppend
    <3>4. Merged(Append(CapList(F), CapabilityOf(r))) = AddCapability(Merged(CapList(F)), CapabilityOf(r))
      BY <1>4, CapListFacts, MergedAppend
    <3>5. Merged(Append(CapList(G), CapabilityOf(s))) = AddCapability(Merged(CapList(G)), CapabilityOf(s))
      BY <3>1, CapListFacts, MergedAppend
    <3>6. AddCapability(AddCapability(Prefix(caps, m - 1), CapabilityOf(r)), CapabilityOf(s)) = Prefix(caps, m)
      BY <2>3, AddTwoRows DEF N
    <3>7. QED
      BY <1>4, <3>1, <3>2, <3>3, <3>4, <3>5, <3>6
  <2>4. QED
    BY <2>1, <2>2, <2>3, RowsForWhole
<1>5. Merged(CapList(<<>>)) = Prefix(caps, 0) /\ IsSeq(<<>>)
  <2>1. IsSeq(<<>>) /\ Len(<<>>) = 0
    BY EmptyIsSeq
  <2>2. IsSeq(CapList(<<>>)) /\ Len(CapList(<<>>)) = 0
    BY <2>1, CapListFacts
  <2>3. CapList(<<>>) = <<>>
    BY <2>2, EmptySeq DEF IsSeq
  <2>4. QED
    BY <1>1, <2>1, <2>3, MergedEmpty, PrefixFacts
<1>6. Bad = {}
  <2>1. SUFFICES ASSUME Bad # {} PROVE FALSE
    OBVIOUS
  <2>2. PICK m \in Bad : \A k \in Bad : m <= k
    <3>1. Bad \in SUBSET Nat
      OBVIOUS
    <3> HIDE DEF Bad
    <3>2. QED
      BY <2>1, <3>1, LeastExists
  <2>3. m \in 1 .. N /\ ~Good(m)
    OBVIOUS
  <2>4. CASE m = 1
    <3>1. f[m] = R[m]
      BY <1>3, <2>3, <2>4 DEF Flattens
    <3>2. IsSeq(R[m])
      BY <1>2, <2>3, WholeRows DEF CapsOK
    <3>3. R[m] = <<>> \o R[m]
      BY <3>2, ConcatEmptySeq DEF IsSeq
    <3>4. m - 1 = 0
      BY <2>4
    <3>5. Good(m)
      <4> HIDE DEF N
      <4>1. IsSeq(<<>> \o R[m]) /\ Merged(CapList(<<>> \o R[m])) = Prefix(caps, m)
        BY <1>4, <1>5, <2>3, <3>4
      <4>2. QED
        BY <3>1, <3>3, <4>1
    <3>6. QED
      BY <2>3, <3>5
  <2>5. CASE m # 1
    <3>1. m - 1 \in 1 .. N /\ m - 1 \in Nat /\ ~(m <= m - 1)
      <4> HIDE DEF Good
      <4>1. QED
        BY <1>1, <2>3, <2>5
    <3>2. Good(m - 1)
      <4> HIDE DEF Good
      <4>1. QED
        BY <2>2, <3>1
    <3>3. f[m] = f[m - 1] \o R[m]
      BY <1>3, <2>3, <2>5 DEF Flattens
    <3>4. Good(m)
      <4> HIDE DEF N
      <4>1. QED
        BY <1>4, <2>3, <3>2, <3>3
    <3>5. QED
      BY <2>3, <3>4
  <2>6. QED
    BY <2>4, <2>5
<1>7. CASE N = 0
  <2>1. R = <<>>
    BY <1>2, <1>7, EmptySeq DEF IsSeq
  <2>2. RowsOf(d, kind, caps) = <<>>
    BY <1>2, <1>3, <1>7, <2>1
  <2>3. Prefix(caps, 0) = caps
    BY <1>1, <1>7, PrefixFacts
  <2>4. QED
    BY <1>5, <2>2, <2>3
<1>8. CASE N # 0
  <2>1. Good(N)
    <3> HIDE DEF Good
    <3>1. QED
      BY <1>1, <1>6, <1>8
  <2>2. QED
    BY <1>1, <1>2, <1>3, <1>8, <2>1, PrefixFacts
<1>9. QED
  BY <1>7, <1>8


RowShape(r) ==
    r = [act |-> r.act, inst |-> r.inst, params |-> r.params, invert |-> r.invert,
         item |-> r.item, pairs |-> r.pairs]

\* A row of capability c, with the item and the mapping of d.
RowOK(r, d, kind, c) ==
    /\ RowShape(r)
    /\ r.act = c.act
    /\ r.inst \in Instances(c)
    /\ Piece(CapabilityOf(r), r.inst)
    /\ r.item = Bound(d, kind, r.inst)
    /\ r.pairs = Pairs(d, c.act, r.inst)

ParamsOf(c, inst, p) ==
    \/ ~Colour(c) /\ inst = capInstance(c) /\ p = c.params
    \/ Colour(c) /\ inst \in Colours /\ p = ModelParams(inst)
    \/ Colour(c) /\ inst = "temperature_k" /\ p = WhiteParams

LEMMA OneRowOK ==
  ASSUME NEW d, NEW kind, NEW c, Whole(c), NEW inst \in Instances(c), NEW p, ParamsOf(c, inst, p)
  PROVE  /\ RowOK(Row(d, kind, c, OneRow(inst, p)), d, kind, c)
         /\ Row(d, kind, c, OneRow(inst, p)).inst = inst
<1> DEFINE o == OneRow(inst, p)
           r == Row(d, kind, c, o)
<1>1. o.inst = inst /\ o.params = p
  BY DEF OneRow
<1> HIDE DEF o
<1>2. /\ r.act = c.act /\ r.inst = inst /\ r.item = Bound(d, kind, r.inst)
      /\ r.pairs = Pairs(d, c.act, r.inst) /\ RowShape(r)
  BY <1>1 DEF Row, RowShape
<1>3. IsCap(c)
  BY DEF Whole
<1>4. /\ ~Colour(c) => CapabilityOf(r) = RowCap(c.act, p, c.invert)
      /\ Colour(c) => CapabilityOf(r) = ColourCap(p)
  BY <1>1, <1>3, RowCapability
<1> HIDE DEF r
<1>5. Piece(CapabilityOf(r), inst)
  <2>1. CASE ~Colour(c)
    <3>1. CapabilityOf(r) = c /\ inst = capInstance(c)
      BY <1>3, <1>4, <2>1, CapShape DEF ParamsOf
    <3>2. QED
      BY <2>1, <3>1 DEF Piece, Whole, PlainCap
  <2>2. CASE Colour(c)
    <3>1. CapabilityOf(r) = ColourCap(p)
      BY <1>4, <2>2
    <3> DEFINE x == ColourCap(p)
    <3>2. IsCap(x) /\ Colour(x) /\ x.params = p /\ x.invert = FALSE
      BY DEF IsCap, Colour, ColourCap
    <3> HIDE DEF x
    <3>3. Piece(x, inst)
      BY <2>2, <3>2 DEF Piece, ColourPiece, ParamsOf
    <3>4. QED
      BY <3>1, <3>3 DEF x
  <2>3. QED
    BY <2>1, <2>2
<1>6. QED
  BY <1>1, <1>2, <1>5 DEF RowOK, r, o

\* The rows of one capability: one for each of its instances.
RowsOK(rows, d, kind, c) ==
    /\ IsSeq(rows)
    /\ \A j \in 1 .. Len(rows) : RowOK(rows[j], d, kind, c)
    /\ \A i \in Instances(c) : \E j \in 1 .. Len(rows) : rows[j].inst = i
    /\ \A j, k \in 1 .. Len(rows) : Key(rows[j].inst) = Key(rows[k].inst) => j = k

LEMMA SingleRowsOK ==
  ASSUME NEW d, NEW kind, NEW c, NEW r, RowOK(r, d, kind, c), Instances(c) = {r.inst}
  PROVE  RowsOK(<<r>>, d, kind, c)
<1> DEFINE t == <<r>>
<1>1. IsSeq(t) /\ Len(t) = 1 /\ t[1] = r
  BY OneIsSeq
<1> HIDE DEF t
<1>2. QED
  BY <1>1 DEF RowsOK, t

LEMMA DoubleRowsOK ==
  ASSUME NEW d, NEW kind, NEW c, NEW r, NEW s, RowOK(r, d, kind, c), RowOK(s, d, kind, c),
         Instances(c) = {r.inst, s.inst}, Key(r.inst) # Key(s.inst)
  PROVE  RowsOK(<<r, s>>, d, kind, c)
<1> DEFINE t == <<r, s>>
<1>1. IsSeq(t) /\ Len(t) = 2 /\ t[1] = r /\ t[2] = s
  BY TwoIsSeq
<1> HIDE DEF t
<1>2. \A j \in 1 .. Len(t) : j = 1 \/ j = 2
  BY <1>1
<1>3. 1 \in 1 .. Len(t) /\ 2 \in 1 .. Len(t)
  BY <1>1
<1>4. QED
  BY <1>1, <1>2, <1>3 DEF RowsOK, t

LEMMA WholeRowsOK ==
  ASSUME NEW d, NEW kind, NEW c, Whole(c)
  PROVE  RowsOK(RowsFor(d, kind, c), d, kind, c)
<1> DEFINE R(inst, p) == Row(d, kind, c, OneRow(inst, p))
<1>1. ASSUME NEW inst \in Instances(c), NEW p, ParamsOf(c, inst, p)
      PROVE  RowOK(R(inst, p), d, kind, c) /\ R(inst, p).inst = inst
  BY <1>1, OneRowOK
<1> HIDE DEF R
<1>2. CASE ~Colour(c)
  <2>1. RowsFor(d, kind, c) = <<R(capInstance(c), c.params)>>
    BY <1>2, RowsForCap DEF R
  <2>2. Instances(c) = {capInstance(c)} /\ ParamsOf(c, capInstance(c), c.params)
    BY <1>2 DEF Instances, ParamsOf
  <2>3. RowOK(R(capInstance(c), c.params), d, kind, c) /\ R(capInstance(c), c.params).inst = capInstance(c)
    BY <1>1, <2>2
  <2>4. QED
    BY <2>1, <2>2, <2>3, SingleRowsOK
<1>3. CASE Colour(c) /\ c.params = WhiteParams
  <2> DEFINE r == R("temperature_k", WhiteParams)
  <2>1. RowsFor(d, kind, c) = <<r>>
    BY <1>3, RowsForCap DEF R
  <2>2. \A m \in Colours : ~(c.params = ModelParams(m) \/ c.params = BothParams(m))
    BY <1>3, ParamFacts
  <2>3. Instances(c) = {"temperature_k"}
    BY <1>3, <2>2 DEF Instances
  <2>4. ParamsOf(c, "temperature_k", WhiteParams)
    BY <1>3 DEF ParamsOf
  <2>5. RowOK(r, d, kind, c) /\ r.inst = "temperature_k"
    BY <1>1, <2>3, <2>4
  <2> HIDE DEF r
  <2>6. QED
    BY <2>1, <2>3, <2>5, SingleRowsOK
<1>4. ASSUME NEW m \in Colours, Colour(c), c.params = ModelParams(m)
      PROVE  RowsOK(RowsFor(d, kind, c), d, kind, c)
  <2> DEFINE r == R(m, ModelParams(m))
  <2>1. RowsFor(d, kind, c) = <<r>>
    BY <1>4, RowsForCap DEF R
  <2>2. \A n \in Colours : c.params = ModelParams(n) \/ c.params = BothParams(n) <=> n = m
    BY <1>4, ParamFacts
  <2>3. ~(c.params = WhiteParams \/ \E n \in Colours : c.params = BothParams(n))
    BY <1>4, ParamFacts
  <2>4. Instances(c) = {m}
    BY <1>4, <2>2, <2>3 DEF Instances
  <2>5. ParamsOf(c, m, ModelParams(m))
    BY <1>4 DEF ParamsOf
  <2>6. RowOK(r, d, kind, c) /\ r.inst = m
    BY <1>1, <2>4, <2>5
  <2> HIDE DEF r
  <2>7. QED
    BY <2>1, <2>4, <2>6, SingleRowsOK
<1>5. ASSUME NEW m \in Colours, Colour(c), c.params = BothParams(m)
      PROVE  RowsOK(RowsFor(d, kind, c), d, kind, c)
  <2> DEFINE r == R(m, ModelParams(m))
             s == R("temperature_k", WhiteParams)
  <2>1. RowsFor(d, kind, c) = <<r, s>>
    BY <1>5, RowsForCap DEF R
  <2>2. Instances(c) = {m, "temperature_k"}
    BY <1>5, BothInstances
  <2>3. ParamsOf(c, m, ModelParams(m)) /\ ParamsOf(c, "temperature_k", WhiteParams)
    BY <1>5 DEF ParamsOf
  <2>4. RowOK(r, d, kind, c) /\ r.inst = m
    BY <1>1, <2>2, <2>3
  <2>5. RowOK(s, d, kind, c) /\ s.inst = "temperature_k"
    BY <1>1, <2>2, <2>3
  <2>6. Key(m) # Key("temperature_k")
    BY ColourKeys
  <2> HIDE DEF r, s
  <2>7. QED
    BY <2>1, <2>2, <2>4, <2>5, <2>6, DoubleRowsOK
<1>6. QED
  BY <1>2, <1>3, <1>4, <1>5 DEF Whole, ColourWhole

LEMMA KeysApart ==
  ASSUME NEW a, Whole(a), NEW b, Whole(b), CapKey(a) # CapKey(b),
         NEW i \in Instances(a), NEW j \in Instances(b)
  PROVE  Key(i) # Key(j)
<1>1. ASSUME NEW c, Whole(c), NEW k \in Instances(c)
      PROVE  /\ Colour(c) => Key(k) \in {"hsv", "temperature_k"} /\ CapKey(c) = "hsv"
             /\ ~Colour(c) => Key(k) = CapKey(c) /\ CapKey(c) \in Plain
  <2>1. CASE Colour(c)
    <3>1. k \in Colours \/ k = "temperature_k"
      BY <2>1 DEF Instances
    <3>2. QED
      BY <2>1, <3>1, ColourKeys DEF CapKey
  <2>2. CASE ~Colour(c)
    <3>1. k = capInstance(c) /\ k \in Plain
      BY <1>1, <2>2 DEF Instances, Whole, PlainCap
    <3>2. QED
      BY <2>2, <3>1, ColourKeys DEF CapKey
  <2>3. QED
    BY <2>1, <2>2
<1>2. "hsv" \notin Plain /\ "temperature_k" \notin Plain
  BY DEF Plain
<1>3. QED
  BY <1>1, <1>2

\* The rows of all capabilities.
AllRowsOK(rows, d, kind, caps) ==
    /\ IsSeq(rows)
    /\ \A p \in 1 .. Len(rows) : \E k \in 1 .. Len(caps) : RowOK(rows[p], d, kind, caps[k])
    /\ \A k \in 1 .. Len(caps) : \A i \in Instances(caps[k]) :
          \E p \in 1 .. Len(rows) : rows[p].inst = i /\ RowOK(rows[p], d, kind, caps[k])
    /\ \A p, q \in 1 .. Len(rows) : Key(rows[p].inst) = Key(rows[q].inst) => p = q

LEMMA RowsOfOK ==
  ASSUME NEW d, NEW kind, NEW caps, CapsOK(caps)
  PROVE  AllRowsOK(RowsOf(d, kind, caps), d, kind, caps)
<1> DEFINE N == Len(caps)
<1>1. IsSeq(caps) /\ N \in Nat
  BY SeqFacts DEF CapsOK
<1>2. PICK R : /\ IsSeq(R) /\ Len(R) = N
               /\ \A k \in 1 .. N : R[k] = RowsFor(d, kind, caps[k])
               /\ RowsOf(d, kind, caps) = FlattenSeq(R)
  BY <1>1, RowsOfSeqs
<1>3. \A k \in 1 .. N : RowsOK(R[k], d, kind, caps[k]) /\ Whole(caps[k])
  BY <1>2, WholeRowsOK DEF CapsOK
<1> DEFINE F == FlattenSeq(R)
<1>4. IsSeq(F) /\ \E o, j : Origins(F, R, N, o, j)
  BY <1>2, <1>3, FlattenOrigins DEF RowsOK
<1>5. PICK o, j : Origins(F, R, N, o, j)
  BY <1>4
<1> HIDE DEF F
<1>6. ASSUME NEW p \in 1 .. Len(F)
      PROVE  /\ o[p] \in 1 .. N /\ j[p] \in 1 .. Len(R[o[p]]) /\ F[p] = R[o[p]][j[p]]
             /\ RowOK(F[p], d, kind, caps[o[p]])
  <2>1. o[p] \in 1 .. N /\ j[p] \in 1 .. Len(R[o[p]]) /\ F[p] = R[o[p]][j[p]]
    BY <1>5 DEF Origins
  <2>2. RowsOK(R[o[p]], d, kind, caps[o[p]])
    BY <1>3, <2>1
  <2>3. QED
    BY <2>1, <2>2 DEF RowsOK
<1>7. ASSUME NEW k \in 1 .. N, NEW i \in Instances(caps[k])
      PROVE  \E p \in 1 .. Len(F) : F[p].inst = i /\ RowOK(F[p], d, kind, caps[k])
  <2>1. PICK l \in 1 .. Len(R[k]) : R[k][l].inst = i
    BY <1>3 DEF RowsOK
  <2>2. PICK p \in 1 .. Len(F) : o[p] = k /\ j[p] = l
    BY <1>5 DEF Origins
  <2>3. QED
    BY <1>6, <2>1, <2>2
<1>8. ASSUME NEW p \in 1 .. Len(F), NEW q \in 1 .. Len(F), Key(F[p].inst) = Key(F[q].inst)
      PROVE  p = q
  <2>1. F[p].inst \in Instances(caps[o[p]]) /\ F[q].inst \in Instances(caps[o[q]])
    BY <1>6 DEF RowOK
  <2>2. CapKey(caps[o[p]]) = CapKey(caps[o[q]])
    BY <1>3, <1>6, <1>8, <2>1, KeysApart
  <2>3. o[p] = o[q]
    BY <1>6, <2>2 DEF CapsOK
  <2>4. PICK k \in 1 .. N : k = o[p]
    BY <1>6
  <2>5. j[p] \in 1 .. Len(R[k]) /\ j[q] \in 1 .. Len(R[k]) /\ F[p] = R[k][j[p]] /\ F[q] = R[k][j[q]]
    BY <1>6, <2>3, <2>4
  <2>6. j[p] = j[q]
    BY <1>3, <1>8, <2>5 DEF RowsOK
  <2>7. \A a, b \in 1 .. Len(F) : a < b => o[a] < o[b] \/ (o[a] = o[b] /\ j[a] < j[b])
    BY <1>5 DEF Origins
  <2>8. Len(F) \in Nat /\ o[p] \in Nat /\ j[p] \in Nat
    <3>1. \A k1 \in 1 .. N : Len(R[k1]) \in Nat
      BY <1>3, SeqFacts DEF RowsOK
    <3>2. QED
      BY <1>4, <1>6, <3>1, SeqFacts DEF F
  <2>9. ~(p < q) /\ ~(q < p)
    BY <2>3, <2>6, <2>7, <2>8
  <2>10. QED
    BY <2>8, <2>9
<1>9. AllRowsOK(F, d, kind, caps)
  <2>1. IsSeq(F)
    BY <1>4 DEF F
  <2>2. QED
    BY <1>6, <1>7, <1>8, <2>1 DEF AllRowsOK
<1>10. QED
  BY <1>2, <1>9 DEF F


-----------------------------------------------------------------------------
(* Devices and the form.                                                   *)

PropCap(c) == /\ c = [act |-> c.act, params |-> c.params, invert |-> c.invert]
              /\ c.act \in {"float", "event"}
              /\ c.invert \in BOOLEAN

PropsOK(props) ==
    /\ IsSeq(props)
    /\ \A k \in 1 .. Len(props) : PropCap(props[k])
    /\ \A j, k \in 1 .. Len(props) : capInstance(props[j]) = capInstance(props[k]) => j = k

\* No instance is bound twice, and no empty item.
BindOK(bind) ==
    /\ \A b \in bind : /\ b = [kind |-> b.kind, inst |-> b.inst, item |-> b.item]
                       /\ b.item # Nothing
    /\ \A a, b \in bind : a.kind = b.kind /\ a.inst = b.inst => a = b

MapsOK(maps) ==
    /\ \A m \in maps : /\ m = [act |-> m.act, inst |-> m.inst, pairs |-> m.pairs]
                       /\ m.pairs # <<>>
    /\ \A l, m \in maps : l.act = m.act /\ l.inst = m.inst => l = m

\* A binding belongs to a row of the device, "mode" apart.
Belongs(d, b) ==
    \/ b.kind = "cap" /\ b.inst = "mode"
    \/ b.kind = "cap" /\ \E k \in 1 .. Len(d.caps) : b.inst \in Instances(d.caps[k])
    \/ b.kind = "prop" /\ \E k \in 1 .. Len(d.props) : b.inst = capInstance(d.props[k])

DeviceOK(d) ==
    /\ d = [type |-> d.type, caps |-> d.caps, props |-> d.props, bind |-> d.bind,
            maps |-> d.maps, equipment |-> d.equipment]
    /\ CapsOK(d.caps)
    /\ PropsOK(d.props)
    /\ BindOK(d.bind)
    /\ \A b \in d.bind : Belongs(d, b)
    /\ MapsOK(d.maps)
    /\ \A m \in d.maps : Carries(d.caps, m.act, m.inst)

CapRowsOK(rows) ==
    /\ IsSeq(rows)
    /\ \A p \in 1 .. Len(rows) : RowShape(rows[p]) /\ Piece(CapabilityOf(rows[p]), rows[p].inst)
    /\ \A p, q \in 1 .. Len(rows) : Key(rows[p].inst) = Key(rows[q].inst) => p = q

PropRowsOK(rows) ==
    /\ IsSeq(rows)
    /\ \A p \in 1 .. Len(rows) : /\ PropCap(CapabilityOf(rows[p]))
                                 /\ rows[p].inst = capInstance(CapabilityOf(rows[p]))
                                 /\ rows[p].pairs = <<>>
    /\ \A p, q \in 1 .. Len(rows) : rows[p].inst = rows[q].inst => p = q

InputOK(in) ==
    /\ in = [type |-> in.type, capabilities |-> in.capabilities, properties |-> in.properties]
    /\ CapRowsOK(in.capabilities)
    /\ PropRowsOK(in.properties)

LEMMA BoundFacts ==
  ASSUME NEW d, BindOK(d.bind)
  PROVE  /\ \A b \in d.bind : Bound(d, b.kind, b.inst) = b.item
         /\ \A kind, inst : Bound(d, kind, inst) # Nothing =>
              \E b \in d.bind : b.kind = kind /\ b.inst = inst /\ b.item = Bound(d, kind, inst)
<1> DEFINE items(kind, inst) == {b.item : b \in {x \in d.bind : x.kind = kind /\ x.inst = inst}}
<1>1. \A kind, inst : Bound(d, kind, inst) =
        IF items(kind, inst) = {} THEN Nothing ELSE CHOOSE i \in items(kind, inst) : TRUE
  BY DEF Bound
<1>2. \A kind, inst, i : i \in items(kind, inst) <=>
        \E b \in d.bind : b.kind = kind /\ b.inst = inst /\ i = b.item
  OBVIOUS
<1> HIDE DEF items
<1>3. ASSUME NEW kind, NEW inst, items(kind, inst) # {}
      PROVE  Bound(d, kind, inst) \in items(kind, inst)
  BY <1>1, <1>3
<1>4. ASSUME NEW b \in d.bind PROVE Bound(d, b.kind, b.inst) = b.item
  <2>1. b.item \in items(b.kind, b.inst)
    BY <1>2
  <2>2. Bound(d, b.kind, b.inst) \in items(b.kind, b.inst)
    BY <1>3, <2>1
  <2>3. PICK a \in d.bind : a.kind = b.kind /\ a.inst = b.inst /\ Bound(d, b.kind, b.inst) = a.item
    BY <1>2, <2>2
  <2>4. QED
    BY <2>3 DEF BindOK
<1>5. ASSUME NEW kind, NEW inst, Bound(d, kind, inst) # Nothing
      PROVE  \E b \in d.bind : b.kind = kind /\ b.inst = inst /\ b.item = Bound(d, kind, inst)
  BY <1>1, <1>2, <1>3, <1>5
<1>6. QED
  BY <1>4, <1>5

LEMMA PairsFacts ==
  ASSUME NEW d, MapsOK(d.maps)
  PROVE  /\ \A m \in d.maps : Pairs(d, m.act, m.inst) = m.pairs
         /\ \A act, inst : Pairs(d, act, inst) # <<>> =>
              \E m \in d.maps : m.act = act /\ m.inst = inst /\ m.pairs = Pairs(d, act, inst)
<1> DEFINE tables(act, inst) == {m.pairs : m \in {x \in d.maps : x.act = act /\ x.inst = inst}}
<1>1. \A act, inst : Pairs(d, act, inst) =
        IF tables(act, inst) = {} THEN <<>> ELSE CHOOSE t \in tables(act, inst) : TRUE
  BY DEF Pairs
<1>2. \A act, inst, t : t \in tables(act, inst) <=>
        \E m \in d.maps : m.act = act /\ m.inst = inst /\ t = m.pairs
  OBVIOUS
<1> HIDE DEF tables
<1>3. ASSUME NEW act, NEW inst, tables(act, inst) # {}
      PROVE  Pairs(d, act, inst) \in tables(act, inst)
  BY <1>1, <1>3
<1>4. ASSUME NEW m \in d.maps PROVE Pairs(d, m.act, m.inst) = m.pairs
  <2>1. m.pairs \in tables(m.act, m.inst)
    BY <1>2
  <2>2. Pairs(d, m.act, m.inst) \in tables(m.act, m.inst)
    BY <1>3, <2>1
  <2>3. PICK l \in d.maps : l.act = m.act /\ l.inst = m.inst /\ Pairs(d, m.act, m.inst) = l.pairs
    BY <1>2, <2>2
  <2>4. QED
    BY <2>3 DEF MapsOK
<1>5. ASSUME NEW act, NEW inst, Pairs(d, act, inst) # <<>>
      PROVE  \E m \in d.maps : m.act = act /\ m.inst = inst /\ m.pairs = Pairs(d, act, inst)
  BY <1>1, <1>2, <1>3, <1>5
<1>6. QED
  BY <1>4, <1>5

\* The rows of the properties.
PropRow(d, c) == Row(d, "prop", c, OneRow(capInstance(c), c.params))

LEMMA PropRowFacts ==
  ASSUME NEW d, NEW c, PropCap(c)
  PROVE  /\ RowsFor(d, "prop", c) = <<PropRow(d, c)>>
         /\ CapabilityOf(PropRow(d, c)) = c
         /\ PropRow(d, c).inst = capInstance(c)
         /\ PropRow(d, c).act = c.act
         /\ PropRow(d, c).item = Bound(d, "prop", capInstance(c))
         /\ PropRow(d, c).pairs = Pairs(d, c.act, capInstance(c))
<1>1. ~Colour(c)
  BY DEF PropCap, Colour
<1>2. RowsFor(d, "prop", c) = <<PropRow(d, c)>>
  BY <1>1, RowsForCap DEF PropRow
<1> DEFINE b == c.invert /\ c.act # "color_setting"
<1>3. CapabilityOf(PropRow(d, c)) = [act |-> c.act, params |-> c.params, invert |-> b]
  BY DEF CapabilityOf, Row, PropRow, OneRow
<1>4. c.invert \in BOOLEAN
  BY DEF PropCap
<1>5. b = c.invert
  BY <1>1, <1>4, Zenon DEF Colour
<1> HIDE DEF b
<1>6. CapabilityOf(PropRow(d, c)) = c
  BY <1>3, <1>5 DEF PropCap
<1>7. QED
  BY <1>2, <1>6 DEF Row, PropRow, OneRow

LEMMA PropRowsOf ==
  ASSUME NEW d, NEW props, PropsOK(props)
  PROVE  /\ IsSeq(RowsOf(d, "prop", props))
         /\ Len(RowsOf(d, "prop", props)) = Len(props)
         /\ \A k \in 1 .. Len(props) : RowsOf(d, "prop", props)[k] = PropRow(d, props[k])
<1> DEFINE N == Len(props)
           F == RowsOf(d, "prop", props)
<1>1. IsSeq(props) /\ N \in Nat
  BY SeqFacts DEF PropsOK
<1>2. PICK R : /\ IsSeq(R) /\ Len(R) = N
               /\ \A k \in 1 .. N : R[k] = RowsFor(d, "prop", props[k])
               /\ F = FlattenSeq(R)
  BY <1>1, RowsOfSeqs
<1>3. ASSUME NEW k \in 1 .. N PROVE R[k] = <<R[k][1]>> /\ R[k][1] = PropRow(d, props[k])
  <2> DEFINE r == PropRow(d, props[k])
  <2>1. R[k] = <<r>>
    BY <1>2, PropRowFacts DEF PropsOK
  <2> HIDE DEF r
  <2>2. R[k] = <<R[k][1]>> /\ R[k][1] = r
    BY <2>1
  <2>3. QED
    BY <2>2 DEF r
<1>4. F = [k \in 1 .. N |-> R[k][1]]
  BY <1>2, <1>3, FlattenSingles
<1> HIDE DEF F
<1>5. F = [k \in 1 .. N |-> F[k]]
  BY <1>4
<1>6. IsSeq(F) /\ Len(F) = N
  BY <1>1, <1>5, MapIsSeq
<1>7. QED
  BY <1>3, <1>4, <1>6 DEF F


RowItems(in) == {r.item : r \in ToSet(in.capabilities) \cup ToSet(in.properties)}

LEMMA BuiltParts ==
  ASSUME NEW in
  PROVE  LET d == buildDevice(in)
         IN /\ d = [type |-> in.type, caps |-> Merged(CapList(in.capabilities)),
                    props |-> CapList(in.properties),
                    bind |-> Bindings("cap", in.capabilities) \cup Bindings("prop", in.properties),
                    maps |-> Mappings(in.capabilities) \cup Mappings(in.properties),
                    equipment |-> Nothing]
            /\ d.type = in.type /\ d.equipment = Nothing
            /\ d.caps = Merged(CapList(in.capabilities))
            /\ d.props = CapList(in.properties)
            /\ d.bind = Bindings("cap", in.capabilities) \cup Bindings("prop", in.properties)
            /\ d.maps = Mappings(in.capabilities) \cup Mappings(in.properties)
BY DEF buildDevice, CapList

LEMMA BindingFacts ==
  ASSUME NEW kind, NEW rows, IsSeq(rows)
  PROVE  \A b : b \in Bindings(kind, rows) <=>
           \E p \in 1 .. Len(rows) : /\ rows[p].item # Nothing
                                     /\ b = [kind |-> kind, inst |-> rows[p].inst, item |-> rows[p].item]
<1>1. \A x : x \in ToSet(rows) <=> \E p \in 1 .. Len(rows) : x = rows[p]
  BY Members
<1>2. QED
  BY <1>1 DEF Bindings

LEMMA MappingFacts ==
  ASSUME NEW rows, IsSeq(rows)
  PROVE  \A m : m \in Mappings(rows) <=>
           \E p \in 1 .. Len(rows) : /\ rows[p].pairs # <<>>
                                     /\ m = [act |-> rows[p].act, inst |-> rows[p].inst,
                                             pairs |-> rows[p].pairs]
<1>1. \A x : x \in ToSet(rows) <=> \E p \in 1 .. Len(rows) : x = rows[p]
  BY Members
<1>2. QED
  BY <1>1 DEF Mappings

\* The capabilities of the rows, merged, carry every row and nothing else.
LEMMA MergedRows ==
  ASSUME NEW C, CapRowsOK(C)
  PROVE  /\ CapsOK(Merged(CapList(C)))
         /\ \A act, i : Carries(Merged(CapList(C)), act, i) <=>
                          \E k \in 1 .. Len(C) : act = C[k].act /\ i = C[k].inst
<1> DEFINE L == CapList(C)
<1>1. /\ IsSeq(C)
      /\ \A p \in 1 .. Len(C) : Piece(CapabilityOf(C[p]), C[p].inst)
      /\ \A p, q \in 1 .. Len(C) : Key(C[p].inst) = Key(C[q].inst) => p = q
  BY DEF CapRowsOK
<1>2. IsSeq(L) /\ Len(L) = Len(C) /\ \A k \in 1 .. Len(C) : L[k] = CapabilityOf(C[k]) /\ L[k].act = C[k].act
  <2>1. IsSeq(L) /\ Len(L) = Len(C) /\ \A k \in 1 .. Len(C) : L[k] = CapabilityOf(C[k])
    BY <1>1, CapListFacts
  <2>2. \A r : CapabilityOf(r).act = r.act
    BY DEF CapabilityOf
  <2>3. QED
    BY <2>1, <2>2
<1> HIDE DEF L
<1>3. /\ CapsOK(Merged(L))
      /\ \A act, i : Carries(Merged(L), act, i) <=>
                       \E k \in 1 .. Len(C) : act = C[k].act /\ i = C[k].inst
  <2> DEFINE inst == [k \in 1 .. Len(C) |-> C[k].inst]
  <2>1. /\ \A k \in 1 .. Len(L) : Piece(L[k], inst[k])
        /\ \A j, k \in 1 .. Len(L) : Key(inst[j]) = Key(inst[k]) => j = k
        /\ \A k \in 1 .. Len(C) : inst[k] = C[k].inst
    BY <1>1, <1>2
  <2> HIDE DEF inst
  <2>2. /\ CapsOK(Merged(L))
        /\ \A act, i : Carries(Merged(L), act, i) <=>
                         \E k \in 1 .. Len(L) : act = L[k].act /\ i = inst[k]
    BY <1>2, <2>1, MergedPieces
  <2>3. QED
    BY <1>2, <2>1, <2>2
<1>4. QED
  BY <1>3 DEF L

\* The form makes a device Yandex accepts.
LEMMA BuildOK ==
  ASSUME NEW in, InputOK(in)
  PROVE  /\ DeviceOK(buildDevice(in))
         /\ buildDevice(in).equipment = Nothing
         /\ Items(buildDevice(in)) \subseteq RowItems(in) \ {Nothing}
<1> DEFINE d == buildDevice(in)
           C == in.capabilities
           P == in.properties
           L == CapList(C)
<1>1. /\ d = [type |-> in.type, caps |-> Merged(L), props |-> CapList(P),
              bind |-> Bindings("cap", C) \cup Bindings("prop", P),
              maps |-> Mappings(C) \cup Mappings(P), equipment |-> Nothing]
      /\ d.type = in.type /\ d.equipment = Nothing /\ d.caps = Merged(L) /\ d.props = CapList(P)
      /\ d.bind = Bindings("cap", C) \cup Bindings("prop", P)
      /\ d.maps = Mappings(C) \cup Mappings(P)
  BY BuiltParts
<1>2. CapRowsOK(C) /\ PropRowsOK(P)
  BY DEF InputOK
<1> HIDE DEF d, C, P
<1>3. /\ IsSeq(C) /\ IsSeq(P)
      /\ \A p \in 1 .. Len(C) : Piece(CapabilityOf(C[p]), C[p].inst)
      /\ \A p, q \in 1 .. Len(C) : Key(C[p].inst) = Key(C[q].inst) => p = q
      /\ \A p \in 1 .. Len(P) : /\ PropCap(CapabilityOf(P[p]))
                                /\ P[p].inst = capInstance(CapabilityOf(P[p]))
                                /\ P[p].pairs = <<>>
      /\ \A p, q \in 1 .. Len(P) : P[p].inst = P[q].inst => p = q
  BY <1>2 DEF CapRowsOK, PropRowsOK
<1>5. /\ CapsOK(Merged(L))
      /\ \A act, i : Carries(Merged(L), act, i) <=>
                       \E k \in 1 .. Len(C) : act = C[k].act /\ i = C[k].inst
  BY <1>2, MergedRows
<1> HIDE DEF L
<1>6. PropsOK(d.props) /\ Len(d.props) = Len(P) /\ \A k \in 1 .. Len(P) : d.props[k] = CapabilityOf(P[k])
  <2>1. IsSeq(d.props) /\ Len(d.props) = Len(P) /\ \A k \in 1 .. Len(P) : d.props[k] = CapabilityOf(P[k])
    BY <1>1, <1>3, CapListFacts
  <2>2. QED
    BY <1>3, <2>1 DEF PropsOK
<1>7. ASSUME NEW b \in d.bind
      PROVE  \/ \E p \in 1 .. Len(C) : /\ C[p].item # Nothing
                                       /\ b = [kind |-> "cap", inst |-> C[p].inst, item |-> C[p].item]
             \/ \E p \in 1 .. Len(P) : /\ P[p].item # Nothing
                                       /\ b = [kind |-> "prop", inst |-> P[p].inst, item |-> P[p].item]
  BY <1>1, <1>3, BindingFacts
<1>8. BindOK(d.bind)
  <2>1. ASSUME NEW b \in d.bind
        PROVE  b = [kind |-> b.kind, inst |-> b.inst, item |-> b.item] /\ b.item # Nothing
    BY <1>7
  <2>2. ASSUME NEW a \in d.bind, NEW b \in d.bind, a.kind = b.kind, a.inst = b.inst
        PROVE  a = b
    <3>1. CASE a.kind = "cap"
      <4>1. PICK p \in 1 .. Len(C) : a = [kind |-> "cap", inst |-> C[p].inst, item |-> C[p].item]
        BY <1>7, <3>1
      <4>0. b.kind = "cap"
        BY <2>2, <3>1
      <4>2. PICK q \in 1 .. Len(C) : b = [kind |-> "cap", inst |-> C[q].inst, item |-> C[q].item]
        BY <1>7, <4>0
      <4>3. C[p].inst = C[q].inst
        BY <2>2, <4>1, <4>2
      <4>4. p = q
        BY <1>3, <4>3
      <4>5. QED
        BY <4>1, <4>2, <4>4
    <3>2. CASE a.kind # "cap"
      <4>1. PICK p \in 1 .. Len(P) : a = [kind |-> "prop", inst |-> P[p].inst, item |-> P[p].item]
        BY <1>7, <3>2
      <4>2. PICK q \in 1 .. Len(P) : b = [kind |-> "prop", inst |-> P[q].inst, item |-> P[q].item]
        BY <1>7, <2>2, <3>2
      <4>3. P[p].inst = P[q].inst
        BY <2>2, <4>1, <4>2
      <4>4. p = q
        BY <1>3, <4>3
      <4>5. QED
        BY <4>1, <4>2, <4>4
    <3>3. QED
      BY <3>1, <3>2
  <2>3. QED
    BY <2>1, <2>2 DEF BindOK
<1>9. ASSUME NEW b \in d.bind PROVE Belongs(d, b)
  <2>1. CASE b.kind = "cap"
    <3>1. PICK p \in 1 .. Len(C) : b = [kind |-> "cap", inst |-> C[p].inst, item |-> C[p].item]
      BY <1>7, <2>1
    <3>2. Carries(d.caps, C[p].act, b.inst)
      BY <1>1, <1>5, <3>1
    <3>3. QED
      BY <2>1, <3>2 DEF Belongs, Carries
  <2>2. CASE b.kind # "cap"
    <3>1. PICK p \in 1 .. Len(P) : b = [kind |-> "prop", inst |-> P[p].inst, item |-> P[p].item]
      BY <1>7, <2>2
    <3>2. b.kind = "prop" /\ b.inst = capInstance(d.props[p]) /\ p \in 1 .. Len(d.props)
      BY <1>3, <1>6, <3>1
    <3>3. QED
      BY <3>2 DEF Belongs
  <2>3. QED
    BY <2>1, <2>2
<1>10. ASSUME NEW m \in d.maps
       PROVE  \E p \in 1 .. Len(C) : /\ C[p].pairs # <<>>
                                     /\ m = [act |-> C[p].act, inst |-> C[p].inst, pairs |-> C[p].pairs]
  <2>1. m \in Mappings(C) \/ m \in Mappings(P)
    BY <1>1
  <2>2. m \notin Mappings(P)
    BY <1>3, MappingFacts
  <2>3. QED
    BY <1>3, <2>1, <2>2, MappingFacts
<1>11. MapsOK(d.maps)
  <2>1. ASSUME NEW l \in d.maps, NEW m \in d.maps, l.act = m.act, l.inst = m.inst
        PROVE  l = m
    <3>1. PICK p \in 1 .. Len(C) : l = [act |-> C[p].act, inst |-> C[p].inst, pairs |-> C[p].pairs]
      BY <1>10
    <3>2. PICK q \in 1 .. Len(C) : m = [act |-> C[q].act, inst |-> C[q].inst, pairs |-> C[q].pairs]
      BY <1>10
    <3>3. C[p].inst = C[q].inst
      BY <2>1, <3>1, <3>2
    <3>4. p = q
      BY <1>3, <3>3
    <3>5. QED
      BY <3>1, <3>2, <3>4
  <2>2. ASSUME NEW m \in d.maps
        PROVE  m = [act |-> m.act, inst |-> m.inst, pairs |-> m.pairs] /\ m.pairs # <<>>
    BY <1>10
  <2>3. QED
    BY <2>1, <2>2 DEF MapsOK
<1>12. ASSUME NEW m \in d.maps PROVE Carries(d.caps, m.act, m.inst)
  <2>1. PICK p \in 1 .. Len(C) : m = [act |-> C[p].act, inst |-> C[p].inst, pairs |-> C[p].pairs]
    BY <1>10
  <2>2. QED
    BY <1>1, <1>5, <2>1
<1>13. DeviceOK(d)
  <2>1. d = [type |-> d.type, caps |-> d.caps, props |-> d.props, bind |-> d.bind,
             maps |-> d.maps, equipment |-> d.equipment]
    BY <1>1
  <2>2. CapsOK(d.caps)
    BY <1>1, <1>5
  <2>3. QED
    BY <1>6, <1>8, <1>9, <1>11, <1>12, <2>1, <2>2 DEF DeviceOK
<1>14. Items(d) \subseteq RowItems(in) \ {Nothing}
  <2>1. ASSUME NEW b \in d.bind PROVE b.item \in RowItems(in) \ {Nothing}
    <3>1. /\ \A p \in 1 .. Len(C) : C[p] \in ToSet(C)
          /\ \A p \in 1 .. Len(P) : P[p] \in ToSet(P)
      BY <1>3, Members
    <3>2. b.item # Nothing /\ \E r \in ToSet(C) \cup ToSet(P) : b.item = r.item
      BY <1>7, <3>1
    <3>3. QED
      BY <3>2 DEF RowItems, C, P
  <2>2. QED
    BY <2>1 DEF Items
<1>15. QED
  BY <1>1, <1>13, <1>14 DEF d


LEMMA CarriesRow ==
  ASSUME NEW caps, NEW act, NEW inst, Carries(caps, act, inst)
  PROVE  \E k \in 1 .. Len(caps) : caps[k].act = act /\ inst \in Instances(caps[k])
BY DEF Carries

LEMMA InputParts ==
  ASSUME NEW d
  PROVE  LET in == toInput(d)
         IN /\ in = [type |-> in.type, capabilities |-> in.capabilities, properties |-> in.properties]
            /\ in.type = d.type
            /\ in.capabilities = RowsOf(d, "cap", d.caps)
            /\ in.properties = RowsOf(d, "prop", d.props)
BY DEF toInput

LEMMA PropRowsFrom ==
  ASSUME NEW d, DeviceOK(d)
  PROVE  PropRowsOK(RowsOf(d, "prop", d.props))
<1> DEFINE P == RowsOf(d, "prop", d.props)
           N == Len(d.props)
<1>1. PropsOK(d.props)
  BY DEF DeviceOK
<1>2. IsSeq(P) /\ Len(P) = N /\ \A k \in 1 .. N : P[k] = PropRow(d, d.props[k])
  BY <1>1, PropRowsOf
<1> HIDE DEF P
<1>3. ASSUME NEW k \in 1 .. N
      PROVE  /\ CapabilityOf(P[k]) = d.props[k]
             /\ P[k].inst = capInstance(d.props[k])
             /\ P[k].pairs = Pairs(d, d.props[k].act, P[k].inst)
             /\ PropCap(d.props[k])
  BY <1>1, <1>2, PropRowFacts DEF PropsOK
<1>4. ASSUME NEW k \in 1 .. N PROVE P[k].pairs = <<>>
  <2>1. SUFFICES ASSUME P[k].pairs # <<>> PROVE FALSE
    OBVIOUS
  <2>2. PICK m \in d.maps : m.act = d.props[k].act
    BY <1>3, <2>1, PairsFacts DEF DeviceOK
  <2>3. PICK i \in 1 .. Len(d.caps) : d.caps[i].act = m.act
    BY CarriesRow DEF DeviceOK
  <2>4. IsCap(d.caps[i])
    BY DEF DeviceOK, CapsOK, Whole
  <2>5. QED
    BY <1>3, <2>2, <2>3, <2>4 DEF IsCap, PropCap
<1>5. QED
  BY <1>1, <1>2, <1>3, <1>4 DEF PropRowsOK, PropsOK, P

\* The form shows a device as rows it could be built from, with its items.
LEMMA ToInputOK ==
  ASSUME NEW d, DeviceOK(d)
  PROVE  /\ InputOK(toInput(d))
         /\ RowItems(toInput(d)) \subseteq Items(d) \cup {Nothing}
<1> DEFINE in == toInput(d)
           C == RowsOf(d, "cap", d.caps)
           P == RowsOf(d, "prop", d.props)
<1>1. /\ in = [type |-> in.type, capabilities |-> in.capabilities, properties |-> in.properties]
      /\ in.capabilities = C /\ in.properties = P
  BY InputParts
<1>2. CapsOK(d.caps) /\ PropsOK(d.props) /\ BindOK(d.bind)
  BY DEF DeviceOK
<1>3. AllRowsOK(C, d, "cap", d.caps)
  BY <1>2, RowsOfOK
<1>4. PropRowsOK(P)
  BY PropRowsFrom
<1>5. IsSeq(P) /\ Len(P) = Len(d.props) /\ \A k \in 1 .. Len(d.props) : P[k] = PropRow(d, d.props[k])
  BY <1>2, PropRowsOf
<1> HIDE DEF in, C, P
<1>6. CapRowsOK(C)
  BY <1>3 DEF AllRowsOK, CapRowsOK, RowOK
<1>7. InputOK(in)
  BY <1>1, <1>4, <1>6 DEF InputOK
<1>8. ASSUME NEW r \in ToSet(C) \cup ToSet(P)
      PROVE  r.item \in Items(d) \cup {Nothing}
  <2>1. \E kind, inst : r.item = Bound(d, kind, inst)
    <3>1. CASE r \in ToSet(C)
      <4>1. PICK p \in 1 .. Len(C) : r = C[p]
        BY <1>3, <3>1, Members DEF AllRowsOK
      <4>2. QED
        BY <1>3, <4>1 DEF AllRowsOK, RowOK
    <3>2. CASE r \in ToSet(P)
      <4>1. PICK p \in 1 .. Len(P) : r = P[p]
        BY <1>5, <3>2, Members
      <4>2. r.item = Bound(d, "prop", capInstance(d.props[p]))
        BY <1>2, <1>5, <4>1, PropRowFacts DEF PropsOK
      <4>3. QED
        BY <4>2
    <3>3. QED
      BY <3>1, <3>2
  <2>2. PICK kind, inst : r.item = Bound(d, kind, inst)
    BY <2>1
  <2>3. CASE r.item # Nothing
    BY <1>2, <2>2, <2>3, BoundFacts DEF Items
  <2>4. QED
    BY <2>3
<1>9. QED
  BY <1>1, <1>7, <1>8 DEF RowItems, in

\* Opening a device in the builder and saving it.
LEMMA EditKeeps ==
  ASSUME NEW d, DeviceOK(d), d.equipment = Nothing, ~BoundAsMode(d)
  PROVE  buildDevice(toInput(d)) = d
<1> DEFINE in == toInput(d)
           e == buildDevice(in)
           C == RowsOf(d, "cap", d.caps)
           P == RowsOf(d, "prop", d.props)
<1>1. in.type = d.type /\ in.capabilities = C /\ in.properties = P
  BY InputParts
<1>2. /\ e = [type |-> d.type, caps |-> Merged(CapList(C)), props |-> CapList(P),
              bind |-> Bindings("cap", C) \cup Bindings("prop", P),
              maps |-> Mappings(C) \cup Mappings(P), equipment |-> Nothing]
  <2> HIDE DEF in, e, C, P
  <2>1. e = [type |-> in.type, caps |-> Merged(CapList(in.capabilities)),
             props |-> CapList(in.properties),
             bind |-> Bindings("cap", in.capabilities) \cup Bindings("prop", in.properties),
             maps |-> Mappings(in.capabilities) \cup Mappings(in.properties),
             equipment |-> Nothing]
    BY BuiltParts DEF e
  <2>2. QED
    BY <1>1, <2>1
<1>3. CapsOK(d.caps) /\ PropsOK(d.props) /\ BindOK(d.bind) /\ MapsOK(d.maps)
  BY DEF DeviceOK
<1>4. Merged(CapList(C)) = d.caps
  BY <1>3, CapsBack
<1>5. AllRowsOK(C, d, "cap", d.caps)
  BY <1>3, RowsOfOK
<1>6. IsSeq(P) /\ Len(P) = Len(d.props) /\ \A k \in 1 .. Len(d.props) : P[k] = PropRow(d, d.props[k])
  BY <1>3, PropRowsOf
<1>7. PropRowsOK(P)
  BY PropRowsFrom
<1> HIDE DEF in, e, C, P
<1>8. /\ \A k \in 1 .. Len(P) : CapabilityOf(P[k]) = d.props[k]
      /\ \A k \in 1 .. Len(P) : P[k].inst = capInstance(d.props[k])
      /\ \A k \in 1 .. Len(P) : P[k].item = Bound(d, "prop", P[k].inst)
  BY <1>3, <1>6, PropRowFacts DEF PropsOK
<1>9. CapList(P) = d.props
  <2>1. IsSeq(CapList(P)) /\ Len(CapList(P)) = Len(P) /\ \A k \in 1 .. Len(P) : CapList(P)[k] = CapabilityOf(P[k])
    BY <1>6, CapListFacts
  <2>2. Alike(CapList(P), d.props, Len(CapList(P)))
    BY <1>8, <2>1 DEF Alike
  <2>3. QED
    BY <1>3, <1>6, <2>1, <2>2, SeqSame DEF PropsOK
<1>10. IsSeq(C)
  BY <1>5 DEF AllRowsOK
<1>11. ASSUME NEW p \in 1 .. Len(C)
       PROVE  C[p].item = Bound(d, "cap", C[p].inst) /\ C[p].pairs = Pairs(d, C[p].act, C[p].inst)
  BY <1>5 DEF AllRowsOK, RowOK
<1>12. ASSUME NEW k \in 1 .. Len(d.caps), NEW i \in Instances(d.caps[k])
       PROVE  \E p \in 1 .. Len(C) : C[p].inst = i /\ C[p].act = d.caps[k].act
  <2>1. PICK p \in 1 .. Len(C) : C[p].inst = i /\ RowOK(C[p], d, "cap", d.caps[k])
    BY <1>5 DEF AllRowsOK
  <2>2. QED
    BY <2>1 DEF RowOK
<1>13. Bindings("cap", C) \cup Bindings("prop", P) = d.bind
  <2>1. ASSUME NEW b \in Bindings("cap", C) PROVE b \in d.bind
    <3>1. PICK p \in 1 .. Len(C) : /\ C[p].item # Nothing
                                   /\ b = [kind |-> "cap", inst |-> C[p].inst, item |-> C[p].item]
      BY <1>10, BindingFacts
    <3>2. PICK a \in d.bind : a.kind = "cap" /\ a.inst = C[p].inst /\ a.item = C[p].item
      BY <1>3, <1>11, <3>1, BoundFacts
    <3>3. a = [kind |-> a.kind, inst |-> a.inst, item |-> a.item]
      BY <1>3 DEF BindOK
    <3>4. a = b
      BY <3>1, <3>2, <3>3
    <3>5. QED
      BY <3>4
  <2>2. ASSUME NEW b \in Bindings("prop", P) PROVE b \in d.bind
    <3>1. PICK p \in 1 .. Len(P) : /\ P[p].item # Nothing
                                   /\ b = [kind |-> "prop", inst |-> P[p].inst, item |-> P[p].item]
      BY <1>6, BindingFacts
    <3>2. PICK a \in d.bind : a.kind = "prop" /\ a.inst = P[p].inst /\ a.item = P[p].item
      BY <1>3, <1>8, <3>1, BoundFacts
    <3>3. a = [kind |-> a.kind, inst |-> a.inst, item |-> a.item]
      BY <1>3 DEF BindOK
    <3>4. a = b
      BY <3>1, <3>2, <3>3
    <3>5. QED
      BY <3>4
  <2>3. ASSUME NEW b \in d.bind PROVE b \in Bindings("cap", C) \cup Bindings("prop", P)
    <3>1. /\ Belongs(d, b) /\ b = [kind |-> b.kind, inst |-> b.inst, item |-> b.item]
          /\ b.item # Nothing
      BY <1>3 DEF DeviceOK, BindOK
    <3>2. Bound(d, b.kind, b.inst) = b.item
      BY <1>3, BoundFacts
    <3>3. ~(b.kind = "cap" /\ b.inst = "mode")
      BY <3>1, <3>2 DEF BoundAsMode
    <3>4. CASE b.kind = "cap"
      <4>1. PICK k \in 1 .. Len(d.caps) : b.inst \in Instances(d.caps[k])
        BY <3>1, <3>3, <3>4 DEF Belongs
      <4>2. PICK p \in 1 .. Len(C) : C[p].inst = b.inst
        BY <1>12, <4>1
      <4>3. C[p].item = b.item
        BY <1>11, <3>2, <3>4, <4>2
      <4>4. b = [kind |-> "cap", inst |-> C[p].inst, item |-> C[p].item] /\ C[p].item # Nothing
        BY <3>1, <3>4, <4>2, <4>3
      <4>5. b \in Bindings("cap", C)
        BY <1>10, <4>4, BindingFacts
      <4>6. QED
        BY <4>5
    <3>5. CASE b.kind = "prop"
      <4>1. PICK p \in 1 .. Len(P) : b.inst = capInstance(d.props[p])
        BY <1>6, <3>1, <3>5 DEF Belongs
      <4>2. P[p].inst = b.inst /\ P[p].item = b.item
        BY <1>8, <3>2, <3>5, <4>1
      <4>3. b = [kind |-> "prop", inst |-> P[p].inst, item |-> P[p].item] /\ P[p].item # Nothing
        BY <3>1, <3>5, <4>2
      <4>4. b \in Bindings("prop", P)
        BY <1>6, <4>3, BindingFacts
      <4>5. QED
        BY <4>4
    <3>6. QED
      BY <3>1, <3>4, <3>5 DEF Belongs
  <2>4. QED
    BY <2>1, <2>2, <2>3
<1>14. Mappings(C) \cup Mappings(P) = d.maps
  <2>1. ASSUME NEW m \in Mappings(C) PROVE m \in d.maps
    <3>1. PICK p \in 1 .. Len(C) : /\ C[p].pairs # <<>>
                                   /\ m = [act |-> C[p].act, inst |-> C[p].inst, pairs |-> C[p].pairs]
      BY <1>10, MappingFacts
    <3>2. PICK l \in d.maps : l.act = C[p].act /\ l.inst = C[p].inst /\ l.pairs = C[p].pairs
      BY <1>3, <1>11, <3>1, PairsFacts
    <3>3. l = [act |-> l.act, inst |-> l.inst, pairs |-> l.pairs]
      BY <1>3 DEF MapsOK
    <3>4. l = m
      BY <3>1, <3>2, <3>3
    <3>5. QED
      BY <3>4
  <2>2. ASSUME NEW m \in d.maps PROVE m \in Mappings(C)
    <3>1. PICK k \in 1 .. Len(d.caps) : d.caps[k].act = m.act /\ m.inst \in Instances(d.caps[k])
      BY CarriesRow DEF DeviceOK
    <3>2. PICK p \in 1 .. Len(C) : C[p].inst = m.inst /\ C[p].act = m.act
      <4>1. \E p \in 1 .. Len(C) : C[p].inst = m.inst /\ C[p].act = d.caps[k].act
        BY <1>12, <3>1
      <4>2. QED
        BY <3>1, <4>1
    <3>3. C[p].pairs = m.pairs
      BY <1>3, <1>11, <3>2, PairsFacts
    <3>4. m = [act |-> C[p].act, inst |-> C[p].inst, pairs |-> C[p].pairs] /\ C[p].pairs # <<>>
      BY <1>3, <3>2, <3>3 DEF MapsOK
    <3>5. QED
      BY <1>10, <3>4, MappingFacts
  <2>3. Mappings(P) = {}
    BY <1>6, <1>7, MappingFacts DEF PropRowsOK
  <2>4. QED
    BY <2>1, <2>2, <2>3
<1>15. e = d
  BY <1>2, <1>4, <1>9, <1>13, <1>14 DEF DeviceOK
<1>16. QED
  BY <1>15 DEF e, in


-----------------------------------------------------------------------------
(* The page between toInput and buildDevice.                               *)

LEMMA CollectedRow ==
  ASSUME NEW r
  PROVE  LET c == collectRow(r)
         IN /\ RowShape(c)
            /\ c.act = r.act /\ c.inst = r.inst /\ c.item = r.item
            /\ c.params = collectParams(r) /\ c.pairs = collectPairs(r)
            /\ c.invert = (r.invert /\ r.act = "range")
BY DEF collectRow, RowShape

LEMMA RowCapabilityParts ==
  ASSUME NEW r
  PROVE  LET c == CapabilityOf(r)
         IN /\ c = [act |-> c.act, params |-> c.params, invert |-> c.invert]
            /\ c.act = r.act /\ c.params = r.params
            /\ c.invert \in BOOLEAN
            /\ r.act = "color_setting" => c.invert = FALSE
<1> DEFINE b == r.invert /\ r.act # "color_setting"
<1>1. CapabilityOf(r) = [act |-> r.act, params |-> r.params, invert |-> b]
  BY DEF CapabilityOf
<1>2. b \in BOOLEAN
  BY Zenon
<1>3. r.act = "color_setting" => b = FALSE
  BY Zenon
<1> HIDE DEF b
<1>4. QED
  BY <1>1, <1>2, <1>3

LEMMA InstanceSame ==
  ASSUME NEW c, NEW e, c.act = e.act, c.params = e.params
  PROVE  capInstance(c) = capInstance(e)
BY DEF capInstance

LEMMA CollectedPiece ==
  ASSUME NEW r, Piece(CapabilityOf(r), r.inst)
  PROVE  Piece(CapabilityOf(collectRow(r)), r.inst)
<1> DEFINE x == collectRow(r)
           c == CapabilityOf(r)
           e == CapabilityOf(x)
<1>1. x.act = r.act /\ x.params = collectParams(r)
  BY CollectedRow
<1>2. c.act = r.act /\ c.params = r.params
  BY RowCapabilityParts
<1>3. /\ e = [act |-> e.act, params |-> e.params, invert |-> e.invert]
      /\ e.act = r.act /\ e.params = collectParams(r)
      /\ e.invert \in BOOLEAN
      /\ r.act = "color_setting" => e.invert = FALSE
  BY <1>1, RowCapabilityParts
<1> HIDE DEF c, e, x
<1>4. IsCap(e)
  BY <1>2, <1>3 DEF Piece, IsCap, c
<1>5. CASE r.act = "color_setting"
  <2>1. ColourPiece(c, r.inst)
    BY <1>2, <1>5 DEF Piece, Colour, c
  <2>2. r.inst # "scene"
    BY <2>1 DEF ColourPiece, Colours
  <2>3. collectParams(r) = r.params
    BY <1>5, <2>2 DEF collectParams
  <2>4. ColourPiece(e, r.inst)
    BY <1>2, <1>3, <1>5, <2>1, <2>3 DEF ColourPiece
  <2>5. QED
    BY <1>3, <1>4, <1>5, <2>4 DEF Piece, Colour, e, x
<1>6. CASE r.act = "mode"
  <2>1. r.inst \in Plain
    BY <1>2, <1>6 DEF Piece, Colour, c
  <2> DEFINE m == Checked(r)
  <2>2. collectParams(r) = [instance |-> r.inst, modes |-> m]
    BY <1>6 DEF collectParams
  <2> HIDE DEF m
  <2>3. "instance" \in DOMAIN e.params /\ e.params.instance = r.inst
    BY <1>3, <2>2
  <2>4. capInstance(e) = r.inst
    <3>1. e.act = "mode"
      BY <1>3, <1>6
    <3>2. QED
      BY <2>3, <3>1 DEF capInstance
  <2>5. QED
    BY <1>3, <1>4, <1>6, <2>1, <2>4 DEF Piece, Colour, e, x
<1>7. CASE r.act # "color_setting" /\ r.act # "mode"
  <2>1. collectParams(r) = r.params
    BY <1>7 DEF collectParams
  <2>2. capInstance(e) = capInstance(c)
    BY <1>2, <1>3, <2>1, InstanceSame
  <2>3. capInstance(c) = r.inst /\ r.inst \in Plain
    BY <1>2, <1>7 DEF Piece, Colour, c
  <2>4. QED
    BY <1>3, <1>4, <1>7, <2>2, <2>3 DEF Piece, Colour, e, x
<1>8. QED
  BY <1>5, <1>6, <1>7

\* A property has no table: no cell is collected for it.
LEMMA NoPairs ==
  ASSUME NEW r, r.act \in {"float", "event"}
  PROVE  collectPairs(r) = <<>>
<1> DEFINE cell(y) == SelectSeq(r.pairs, LAMBDA p : p[1] = y)
           s == [k \in DOMAIN <<>> |-> [j \in DOMAIN cell(<<>>[k]) |->
                    <<<<>>[k], parseVal(cell(<<>>[k])[j][2])>>]]
<1>1. TableValues(r) = <<>>
  BY DEF TableValues
<1>2. collectPairs(r) = FlattenSeq(s)
  BY <1>1 DEF collectPairs
<1>3. s = <<>>
  BY EmptyIsSeq
<1> HIDE DEF s
<1>4. Len(<<>>) = 0
  OBVIOUS
<1>5. FlattenSeq(<<>>) = <<>>
  BY <1>4, FlattenUnfold
<1>6. QED
  BY <1>2, <1>3, <1>5

LEMMA CollectedProp ==
  ASSUME NEW r, PropCap(CapabilityOf(r)), r.inst = capInstance(CapabilityOf(r))
  PROVE  /\ PropCap(CapabilityOf(collectRow(r)))
         /\ r.inst = capInstance(CapabilityOf(collectRow(r)))
         /\ collectRow(r).pairs = <<>>
<1> DEFINE x == collectRow(r)
           c == CapabilityOf(r)
           e == CapabilityOf(x)
<1>1. x.act = r.act /\ x.params = collectParams(r) /\ x.pairs = collectPairs(r)
  BY CollectedRow
<1>2. c.act = r.act /\ c.params = r.params
  BY RowCapabilityParts
<1>3. /\ e = [act |-> e.act, params |-> e.params, invert |-> e.invert]
      /\ e.act = r.act /\ e.params = collectParams(r)
      /\ e.invert \in BOOLEAN
  BY <1>1, RowCapabilityParts
<1>4. r.act \in {"float", "event"}
  BY <1>2 DEF PropCap
<1>5. collectParams(r) = r.params
  BY <1>4 DEF collectParams
<1> HIDE DEF c, e, x
<1>6. capInstance(e) = capInstance(c)
  BY <1>2, <1>3, <1>5, InstanceSame
<1>7. PropCap(e)
  BY <1>3, <1>4 DEF PropCap
<1>8. x.pairs = <<>>
  BY <1>1, <1>4, NoPairs
<1>9. QED
  BY <1>6, <1>7, <1>8 DEF c, e, x

\* The rows that are collected show the same instances and items.
LEMMA CollectedRows ==
  ASSUME NEW rows, IsSeq(rows)
  PROVE  /\ IsSeq(collect(rows)) /\ Len(collect(rows)) = Len(rows)
         /\ \A k \in 1 .. Len(rows) : collect(rows)[k] = collectRow(rows[k])
<1>1. Len(rows) \in Nat /\ DOMAIN rows = 1 .. Len(rows)
  BY SeqFacts
<1> DEFINE t == collect(rows)
<1>2. t = [k \in 1 .. Len(rows) |-> collectRow(rows[k])]
  BY <1>1 DEF collect
<1>3. t = [k \in 1 .. Len(rows) |-> t[k]]
  BY <1>2
<1>4. \A k \in 1 .. Len(rows) : t[k] = collectRow(rows[k])
  BY <1>2
<1> HIDE DEF t
<1>5. IsSeq(t) /\ Len(t) = Len(rows)
  BY <1>1, <1>3, MapIsSeq
<1>6. QED
  BY <1>4, <1>5 DEF t

\* What the page sends is input a device can be built from, with the same
\* rows, instances and items.
LEMMA SaveInputOK ==
  ASSUME NEW in, InputOK(in)
  PROVE  /\ InputOK(save(in))
         /\ RowItems(save(in)) \subseteq RowItems(in)
<1> DEFINE C == in.capabilities
           P == in.properties
           CC == collect(C)
           PP == collect(P)
           out == save(in)
<1>1. /\ out = [type |-> out.type, capabilities |-> out.capabilities, properties |-> out.properties]
      /\ out.capabilities = CC /\ out.properties = PP
  BY DEF save
<1>2. CapRowsOK(C) /\ PropRowsOK(P) /\ IsSeq(C) /\ IsSeq(P)
  BY DEF InputOK, CapRowsOK, PropRowsOK
<1>3. /\ IsSeq(CC) /\ Len(CC) = Len(C) /\ \A k \in 1 .. Len(C) : CC[k] = collectRow(C[k])
      /\ IsSeq(PP) /\ Len(PP) = Len(P) /\ \A k \in 1 .. Len(P) : PP[k] = collectRow(P[k])
  BY <1>2, CollectedRows
<1> HIDE DEF CC, PP, C, P, out
<1>4. /\ \A k \in 1 .. Len(C) : CC[k].inst = C[k].inst /\ CC[k].item = C[k].item /\ RowShape(CC[k])
      /\ \A k \in 1 .. Len(P) : PP[k].inst = P[k].inst /\ PP[k].item = P[k].item
  BY <1>3, CollectedRow
<1>5. CapRowsOK(CC)
  <2>1. \A k \in 1 .. Len(CC) : Piece(CapabilityOf(CC[k]), CC[k].inst)
    BY <1>2, <1>3, <1>4, CollectedPiece DEF CapRowsOK
  <2>2. QED
    BY <1>2, <1>3, <1>4, <2>1 DEF CapRowsOK
<1>6. PropRowsOK(PP)
  <2>1. \A k \in 1 .. Len(PP) : /\ PropCap(CapabilityOf(PP[k]))
                                /\ PP[k].inst = capInstance(CapabilityOf(PP[k]))
                                /\ PP[k].pairs = <<>>
    BY <1>2, <1>3, <1>4, CollectedProp DEF PropRowsOK
  <2>2. QED
    BY <1>2, <1>3, <1>4, <2>1 DEF PropRowsOK
<1>7. ASSUME NEW x \in ToSet(CC) \cup ToSet(PP)
      PROVE  \E r \in ToSet(C) \cup ToSet(P) : x.item = r.item
  <2>1. /\ \A k \in 1 .. Len(C) : C[k] \in ToSet(C)
        /\ \A k \in 1 .. Len(P) : P[k] \in ToSet(P)
    BY <1>2, Members
  <2>2. \/ \E k \in 1 .. Len(C) : x = CC[k]
        \/ \E k \in 1 .. Len(P) : x = PP[k]
    BY <1>3, Members
  <2>3. QED
    BY <1>4, <2>1, <2>2
<1>8. RowItems(out) \subseteq RowItems(in)
  BY <1>1, <1>7 DEF RowItems, C, P
<1>9. InputOK(out)
  BY <1>1, <1>5, <1>6 DEF InputOK
<1>10. QED
  BY <1>8, <1>9 DEF out


\* RemoveAt closes the gap.
After(i, p) == IF p < i THEN p ELSE p + 1

LEMMA AfterFacts ==
  ASSUME NEW n \in Nat, NEW i \in 1 .. n
  PROVE  /\ \A p \in 1 .. n - 1 : After(i, p) \in 1 .. n
         /\ \A p, q \in 1 .. n - 1 : After(i, p) = After(i, q) => p = q
         /\ \A p, q \in 1 .. n - 1 : p < q => After(i, p) < After(i, q)
BY DEF After

LEMMA RemoveAtFacts ==
  ASSUME NEW s, IsSeq(s), NEW i \in 1 .. Len(s)
  PROVE  /\ IsSeq(RemoveAt(s, i))
         /\ Len(RemoveAt(s, i)) = Len(s) - 1
         /\ \A p \in 1 .. Len(s) - 1 : RemoveAt(s, i)[p] = s[After(i, p)]
<1> DEFINE n == Len(s)
           S == ToSet(s)
           a == SubSeq(s, 1, i - 1)
           b == SubSeq(s, i + 1, n)
<1>1. n \in Nat /\ \A p \in 1 .. n : s[p] \in S
  BY SeqFacts, Members
<1>2. i \in Int /\ i >= 1 /\ i <= n
  BY <1>1
<1> HIDE DEF n, S
<1>3. /\ a \in Seq(S) /\ Len(a) = i - 1
      /\ \A p \in 1 .. i - 1 : a[p] = s[p]
  <2>1. \A p \in 1 .. i - 1 : s[p] \in S
    BY <1>1, <1>2
  <2>2. 1 \in Int /\ i - 1 \in Int
    BY <1>2
  <2>3. /\ a \in Seq(S)
        /\ Len(a) = IF 1 <= i - 1 THEN (i - 1) - 1 + 1 ELSE 0
        /\ \A p \in 1 .. (i - 1) - 1 + 1 : a[p] = s[1 + p - 1]
    BY <2>1, <2>2, SubSeqProperties
  <2> HIDE DEF a
  <2>4. \A p \in 1 .. i - 1 : p \in 1 .. (i - 1) - 1 + 1 /\ 1 + p - 1 = p
    BY <1>2
  <2>5. \A p \in 1 .. i - 1 : a[p] = s[p]
    BY <2>3, <2>4
  <2>6. QED
    BY <1>2, <2>3, <2>5
<1>4. /\ b \in Seq(S) /\ Len(b) = n - i
      /\ \A p \in 1 .. n - i : b[p] = s[p + i]
  <2>1. \A p \in i + 1 .. n : s[p] \in S
    BY <1>1, <1>2
  <2>2. n \in Int /\ i + 1 \in Int
    BY <1>1, <1>2
  <2>3. /\ b \in Seq(S)
        /\ Len(b) = IF i + 1 <= n THEN n - (i + 1) + 1 ELSE 0
        /\ \A p \in 1 .. n - (i + 1) + 1 : b[p] = s[(i + 1) + p - 1]
    BY <2>1, <2>2, SubSeqProperties
  <2> HIDE DEF b
  <2>4. \A p \in 1 .. n - i : p \in 1 .. n - (i + 1) + 1 /\ (i + 1) + p - 1 = p + i
    BY <1>1, <1>2
  <2>5. \A p \in 1 .. n - i : b[p] = s[p + i]
    BY <2>3, <2>4
  <2>6. QED
    BY <1>1, <1>2, <2>3, <2>5
<1>5. RemoveAt(s, i) = a \o b
  BY DEF RemoveAt, n
<1> HIDE DEF a, b
<1>6. IsSeq(a) /\ IsSeq(b)
  BY <1>3, <1>4 DEF IsSeq
<1>7. /\ IsSeq(a \o b) /\ Len(a \o b) = (i - 1) + (n - i)
      /\ \A p \in 1 .. (i - 1) + (n - i) : (a \o b)[p] = IF p <= i - 1 THEN a[p] ELSE b[p - (i - 1)]
  <2>1. /\ IsSeq(a \o b) /\ Len(a \o b) = Len(a) + Len(b)
        /\ \A p \in 1 .. Len(a) + Len(b) : (a \o b)[p] = IF p <= Len(a) THEN a[p] ELSE b[p - Len(a)]
    BY <1>6, ConcatFacts
  <2>2. QED
    BY <1>3, <1>4, <2>1
<1>8. ASSUME NEW p \in 1 .. n - 1 PROVE (a \o b)[p] = s[After(i, p)]
  <2>1. p \in 1 .. (i - 1) + (n - i)
    BY <1>1, <1>2
  <2>2. CASE p <= i - 1
    <3>1. p \in 1 .. i - 1 /\ After(i, p) = p
      BY <1>2, <2>2 DEF After
    <3>2. QED
      BY <1>3, <1>7, <2>1, <2>2, <3>1
  <2>3. CASE ~(p <= i - 1)
    <3>1. p - (i - 1) \in 1 .. n - i /\ After(i, p) = p + 1 /\ (p - (i - 1)) + i = p + 1
      BY <1>1, <1>2, <2>3 DEF After
    <3>2. QED
      BY <1>4, <1>7, <2>1, <2>3, <3>1
  <2>4. QED
    BY <2>2, <2>3
<1>9. (i - 1) + (n - i) = n - 1
  BY <1>1, <1>2
<1>10. QED
  BY <1>5, <1>7, <1>8, <1>9 DEF n

\* Both edits of the form.
LEMMA DeletedRow ==
  ASSUME NEW rows, CapRowsOK(rows), NEW k \in 1 .. Len(rows)
  PROVE  /\ CapRowsOK(RemoveAt(rows, k))
         /\ ToSet(RemoveAt(rows, k)) \subseteq ToSet(rows)
<1> DEFINE n == Len(rows)
           t == RemoveAt(rows, k)
<1>1. IsSeq(rows) /\ n \in Nat
  BY SeqFacts DEF CapRowsOK
<1>2. IsSeq(t) /\ Len(t) = n - 1 /\ \A p \in 1 .. n - 1 : t[p] = rows[After(k, p)]
  BY <1>1, RemoveAtFacts
<1>3. /\ \A p \in 1 .. n - 1 : After(k, p) \in 1 .. n
      /\ \A p, q \in 1 .. n - 1 : After(k, p) = After(k, q) => p = q
  BY <1>1, AfterFacts
<1> HIDE DEF n, t
<1>4. CapRowsOK(t)
  <2>1. /\ \A p \in 1 .. n : RowShape(rows[p]) /\ Piece(CapabilityOf(rows[p]), rows[p].inst)
        /\ \A p, q \in 1 .. n : Key(rows[p].inst) = Key(rows[q].inst) => p = q
    BY DEF CapRowsOK, n
  <2>2. \A p \in 1 .. n - 1 : RowShape(t[p]) /\ Piece(CapabilityOf(t[p]), t[p].inst)
    BY <1>2, <1>3, <2>1
  <2>3. ASSUME NEW p \in 1 .. n - 1, NEW q \in 1 .. n - 1, Key(t[p].inst) = Key(t[q].inst)
        PROVE  p = q
    BY <1>2, <1>3, <2>1, <2>3
  <2>4. QED
    BY <1>2, <2>2, <2>3 DEF CapRowsOK
<1>5. ToSet(t) \subseteq ToSet(rows)
  <2>1. \A x : x \in ToSet(t) <=> \E p \in 1 .. n - 1 : x = t[p]
    BY <1>2, Members
  <2>2. \A x : x \in ToSet(rows) <=> \E p \in 1 .. n : x = rows[p]
    BY <1>1, Members DEF n
  <2>3. QED
    BY <1>2, <1>3, <2>1, <2>2
<1>6. QED
  BY <1>4, <1>5 DEF t

RgbRowOf(r) == [act |-> r.act, inst |-> "rgb", params |-> ModelParams("rgb"),
                invert |-> r.invert, item |-> r.item, pairs |-> r.pairs]

LEMMA RgbRow ==
  ASSUME NEW rows, CapRowsOK(rows), NEW k \in 1 .. Len(rows), rows[k].inst = "hsv"
  PROVE  CapRowsOK([rows EXCEPT ![k] = RgbRowOf(rows[k])])
<1> DEFINE n == Len(rows)
           r == rows[k]
           x == RgbRowOf(r)
           t == [rows EXCEPT ![k] = x]
<1>1. IsSeq(rows) /\ n \in Nat /\ DOMAIN rows = 1 .. n /\ rows = [p \in 1 .. n |-> rows[p]]
  BY SeqFacts DEF CapRowsOK
<1>2. /\ \A p \in 1 .. n : RowShape(rows[p]) /\ Piece(CapabilityOf(rows[p]), rows[p].inst)
      /\ \A p, q \in 1 .. n : Key(rows[p].inst) = Key(rows[q].inst) => p = q
  BY DEF CapRowsOK
<1>3. r.act = "color_setting"
  <2>1. Colour(CapabilityOf(r))
    BY <1>2 DEF Piece, Plain
  <2>2. QED
    BY <2>1 DEF CapabilityOf, Colour
<1>4. x.inst = "rgb" /\ RowShape(x)
  BY DEF RgbRowOf, RowShape
<1>5. Piece(CapabilityOf(x), "rgb")
  <2>1. x.act = "color_setting" /\ x.params = ModelParams("rgb")
    BY <1>3 DEF RgbRowOf
  <2> DEFINE b == x.invert /\ x.act # "color_setting"
  <2>2. b = FALSE
    BY <2>1, Zenon
  <2>3. CapabilityOf(x) = [act |-> x.act, params |-> x.params, invert |-> b]
    BY DEF CapabilityOf
  <2> HIDE DEF b, x
  <2>4. CapabilityOf(x) = ColourCap(ModelParams("rgb"))
    BY <2>1, <2>2, <2>3 DEF ColourCap
  <2> DEFINE c == ColourCap(ModelParams("rgb"))
  <2>5. IsCap(c) /\ Colour(c) /\ c.params = ModelParams("rgb") /\ c.invert = FALSE
    BY DEF IsCap, Colour, ColourCap
  <2> HIDE DEF c
  <2>6. Piece(c, "rgb")
    BY <2>5 DEF Piece, ColourPiece, Colours
  <2>7. QED
    BY <2>4, <2>6 DEF c
<1> HIDE DEF n, x
<1>6. t = [p \in 1 .. n |-> t[p]] /\ t[k] = x /\ \A p \in 1 .. n : p # k => t[p] = rows[p]
  BY <1>1 DEF n
<1> HIDE DEF t
<1>7. IsSeq(t) /\ Len(t) = n
  BY <1>1, <1>6, MapIsSeq
<1>8. \A p \in 1 .. n : Key(t[p].inst) = Key(rows[p].inst)
  <2>1. Key("rgb") = "hsv" /\ Key("hsv") = "hsv"
    BY DEF Key
  <2>2. QED
    BY <1>4, <1>6, <2>1
<1>9. \A p \in 1 .. n : RowShape(t[p]) /\ Piece(CapabilityOf(t[p]), t[p].inst)
  <2>1. ASSUME NEW p \in 1 .. n PROVE RowShape(t[p]) /\ Piece(CapabilityOf(t[p]), t[p].inst)
    <3>1. CASE p = k
      BY <1>4, <1>5, <1>6, <3>1
    <3>2. CASE p # k
      BY <1>2, <1>6, <3>2
    <3>3. QED
      BY <3>1, <3>2
  <2>2. QED
    BY <2>1
<1>10. CapRowsOK(t)
  BY <1>2, <1>7, <1>8, <1>9 DEF CapRowsOK
<1>11. QED
  BY <1>10 DEF t, x


WithRows(in, rows) == [type |-> in.type, capabilities |-> rows, properties |-> in.properties]

LEMMA EditShapes ==
  ASSUME NEW in, InputOK(in), NEW k \in 1 .. Len(in.capabilities)
  PROVE  /\ WithoutRow(in, k) = WithRows(in, RemoveAt(in.capabilities, k))
         /\ AsRgb(in, k) = WithRows(in, [in.capabilities EXCEPT ![k] = RgbRowOf(in.capabilities[k])])
<1> DEFINE C == in.capabilities
           r == C[k]
<1>1. in = [type |-> in.type, capabilities |-> C, properties |-> in.properties]
  BY DEF InputOK
<1>2. IsSeq(C) /\ RowShape(r)
  BY DEF InputOK, CapRowsOK
<1>3. DOMAIN C = 1 .. Len(C) /\ k \in DOMAIN C
  BY <1>2, SeqFacts
<1>4. WithoutRow(in, k) = WithRows(in, RemoveAt(C, k))
  <2> DEFINE x == RemoveAt(C, k)
  <2>1. WithoutRow(in, k) = [in EXCEPT !.capabilities = x]
    BY DEF WithoutRow
  <2> HIDE DEF x, C
  <2>2. [in EXCEPT !.capabilities = x] = WithRows(in, x)
    BY <1>1 DEF WithRows
  <2>3. QED
    BY <2>1, <2>2 DEF x
<1>5. AsRgb(in, k) = WithRows(in, [C EXCEPT ![k] = RgbRowOf(r)])
  <2>1. AsRgbRow(r) = RgbRowOf(r)
    <3> HIDE DEF r
    <3> DEFINE a == [r EXCEPT !.inst = "rgb"]
               m == ModelParams("rgb")
    <3>1. a = [act |-> r.act, inst |-> "rgb", params |-> r.params, invert |-> r.invert,
               item |-> r.item, pairs |-> r.pairs]
      BY <1>2 DEF RowShape
    <3>2. AsRgbRow(r) = [a EXCEPT !.params = m]
      BY DEF AsRgbRow, ModelParams
    <3> HIDE DEF m, a
    <3>3. [a EXCEPT !.params = m] = [act |-> r.act, inst |-> "rgb", params |-> m,
               invert |-> r.invert, item |-> r.item, pairs |-> r.pairs]
      BY <3>1
    <3>4. QED
      BY <3>2, <3>3 DEF m, RgbRowOf
  <2> DEFINE x == [C EXCEPT ![k] = AsRgbRow(C[k])]
  <2>2. AsRgb(in, k) = [in EXCEPT !.capabilities = x]
    BY DEF AsRgb
  <2>3. x = [C EXCEPT ![k] = RgbRowOf(r)]
    BY <2>1
  <2> HIDE DEF x, C
  <2>4. [in EXCEPT !.capabilities = x] = WithRows(in, x)
    BY <1>1 DEF WithRows
  <2>5. QED
    BY <2>2, <2>3, <2>4
<1>6. QED
  BY <1>4, <1>5

LEMMA EditsOK ==
  ASSUME NEW in, InputOK(in), NEW e \in Edits(in)
  PROVE  InputOK(e) /\ RowItems(e) \subseteq RowItems(in)
<1> DEFINE C == in.capabilities
<1>1. CapRowsOK(C) /\ PropRowsOK(in.properties) /\ IsSeq(C)
  BY DEF InputOK, CapRowsOK
<1>2. DOMAIN C = 1 .. Len(C)
  BY <1>1, SeqFacts
<1>3. ASSUME NEW rows, CapRowsOK(rows), e = WithRows(in, rows),
             \A r \in ToSet(rows) : \E x \in ToSet(C) : r.item = x.item
      PROVE  InputOK(e) /\ RowItems(e) \subseteq RowItems(in)
  <2>1. e.type = in.type /\ e.capabilities = rows /\ e.properties = in.properties
    BY <1>3 DEF WithRows
  <2>2. e = [type |-> e.type, capabilities |-> e.capabilities, properties |-> e.properties]
    BY <1>3, <2>1 DEF WithRows
  <2>3. InputOK(e)
    BY <1>1, <1>3, <2>1, <2>2 DEF InputOK
  <2>4. RowItems(e) \subseteq RowItems(in)
    BY <1>3, <2>1 DEF RowItems
  <2>5. QED
    BY <2>3, <2>4
<1>4. \/ e = in
      \/ \E k \in DOMAIN C : e = WithoutRow(in, k)
      \/ \E k \in DOMAIN C : C[k].inst = "hsv" /\ e = AsRgb(in, k)
  BY DEF Edits
<1> HIDE DEF C
<1>5. ASSUME NEW k \in 1 .. Len(C), e = WithoutRow(in, k)
      PROVE  InputOK(e) /\ RowItems(e) \subseteq RowItems(in)
  <2>1. e = WithRows(in, RemoveAt(C, k))
    BY <1>5, EditShapes DEF C
  <2>2. CapRowsOK(RemoveAt(C, k)) /\ ToSet(RemoveAt(C, k)) \subseteq ToSet(C)
    BY <1>1, DeletedRow
  <2>3. QED
    BY <1>3, <2>1, <2>2
<1>6. ASSUME NEW k \in 1 .. Len(C), C[k].inst = "hsv", e = AsRgb(in, k)
      PROVE  InputOK(e) /\ RowItems(e) \subseteq RowItems(in)
  <2> DEFINE t == [C EXCEPT ![k] = RgbRowOf(C[k])]
  <2>1. e = WithRows(in, t)
    BY <1>6, EditShapes DEF C
  <2>2. CapRowsOK(t)
    BY <1>1, <1>6, RgbRow
  <2>3. \A r \in ToSet(t) : \E x \in ToSet(C) : r.item = x.item
    <3>1. t[k] = RgbRowOf(C[k]) /\ \A p \in 1 .. Len(C) : p # k => t[p] = C[p]
      BY <1>2
    <3>2. DOMAIN t = 1 .. Len(C)
      BY <1>2
    <3>3. RgbRowOf(C[k]).item = C[k].item
      BY DEF RgbRowOf
    <3>4. \A p \in 1 .. Len(C) : C[p] \in ToSet(C)
      BY <1>1, Members
    <3> HIDE DEF t
    <3>5. \A p \in 1 .. Len(C) : \E x \in ToSet(C) : t[p].item = x.item
      BY <3>1, <3>3, <3>4
    <3>6. \A r : r \in ToSet(t) <=> \E p \in 1 .. Len(C) : r = t[p]
      BY <3>2 DEF ToSet
    <3>7. QED
      BY <3>5, <3>6
  <2> HIDE DEF t
  <2>4. QED
    BY <1>3, <2>1, <2>2, <2>3
<1>7. QED
  BY <1>2, <1>4, <1>5, <1>6

\* A device of the catalog made from the items "of".
Kept(d, of) == DeviceOK(d) /\ d.equipment = Nothing /\ Items(d) \subseteq of

LEMMA StoredKept ==
  ASSUME NEW d, DeviceOK(d)
  PROVE  Kept(Stored(d), Items(d))
<1> DEFINE e == Stored(d)
<1>1. e = [type |-> d.type, caps |-> d.caps, props |-> d.props, bind |-> d.bind,
           maps |-> d.maps, equipment |-> Nothing]
  BY DEF Stored, DeviceOK
<1> HIDE DEF e
<1>2. /\ e.type = d.type /\ e.caps = d.caps /\ e.props = d.props /\ e.bind = d.bind
      /\ e.maps = d.maps /\ e.equipment = Nothing
      /\ e = [type |-> e.type, caps |-> e.caps, props |-> e.props, bind |-> e.bind,
              maps |-> e.maps, equipment |-> e.equipment]
  BY <1>1
<1>3. \A b : Belongs(e, b) <=> Belongs(d, b)
  BY <1>2 DEF Belongs
<1>4. DeviceOK(e)
  BY <1>2, <1>3 DEF DeviceOK
<1>5. Items(e) = Items(d)
  BY <1>2 DEF Items
<1>6. QED
  BY <1>2, <1>4, <1>5 DEF Kept, e

LEMMA BuiltKept ==
  ASSUME NEW in, InputOK(in), NEW of, RowItems(in) \subseteq of \cup {Nothing}
  PROVE  Kept(Stored(buildDevice(in)), of)
<1>1. DeviceOK(buildDevice(in)) /\ Items(buildDevice(in)) \subseteq RowItems(in) \ {Nothing}
  BY BuildOK
<1>2. Kept(Stored(buildDevice(in)), Items(buildDevice(in)))
  BY <1>1, StoredKept
<1>3. QED
  BY <1>1, <1>2 DEF Kept

LEMMA ConfiguredKept ==
  ASSUME NEW d, DeviceOK(d)
  PROVE  Kept(Stored(buildDevice(save(toInput(d)))), Items(d))
<1>1. InputOK(toInput(d)) /\ RowItems(toInput(d)) \subseteq Items(d) \cup {Nothing}
  BY ToInputOK
<1>2. InputOK(save(toInput(d))) /\ RowItems(save(toInput(d))) \subseteq RowItems(toInput(d))
  BY <1>1, SaveInputOK
<1>3. QED
  BY <1>1, <1>2, BuiltKept

LEMMA EditedKept ==
  ASSUME NEW d, DeviceOK(d), NEW e \in Edits(toInput(d))
  PROVE  Kept(Stored(buildDevice(save(e))), Items(d))
<1>1. InputOK(toInput(d)) /\ RowItems(toInput(d)) \subseteq Items(d) \cup {Nothing}
  BY ToInputOK
<1>2. InputOK(e) /\ RowItems(e) \subseteq RowItems(toInput(d))
  BY <1>1, EditsOK
<1>3. InputOK(save(e)) /\ RowItems(save(e)) \subseteq RowItems(e)
  BY <1>2, SaveInputOK
<1>4. QED
  BY <1>1, <1>2, <1>3, BuiltKept


\* The rows of a device show what its capabilities carry.
LEMMA RowsCarried ==
  ASSUME NEW d, DeviceOK(d)
  PROVE  \A act, inst :
           <<act, inst>> \in {<<r.act, r.inst>> : r \in ToSet(toInput(d).capabilities)}
             <=> Carries(d.caps, act, inst)
<1> DEFINE C == RowsOf(d, "cap", d.caps)
<1>1. toInput(d).capabilities = C
  BY InputParts
<1>2. AllRowsOK(C, d, "cap", d.caps)
  BY RowsOfOK DEF DeviceOK
<1> HIDE DEF C
<1>3. IsSeq(C) /\ \A r : r \in ToSet(C) <=> \E p \in 1 .. Len(C) : r = C[p]
  BY <1>2, Members DEF AllRowsOK
<1>4. \A act, inst : <<act, inst>> \in {<<r.act, r.inst>> : r \in ToSet(C)}
                       <=> \E p \in 1 .. Len(C) : C[p].act = act /\ C[p].inst = inst
  BY <1>3
<1>5. ASSUME NEW p \in 1 .. Len(C) PROVE Carries(d.caps, C[p].act, C[p].inst)
  BY <1>2 DEF AllRowsOK, RowOK, Carries
<1>6. ASSUME NEW act, NEW inst, Carries(d.caps, act, inst)
      PROVE  \E p \in 1 .. Len(C) : C[p].act = act /\ C[p].inst = inst
  <2>1. PICK k \in 1 .. Len(d.caps) : d.caps[k].act = act /\ inst \in Instances(d.caps[k])
    BY <1>6, CarriesRow
  <2>2. PICK p \in 1 .. Len(C) : C[p].inst = inst /\ RowOK(C[p], d, "cap", d.caps[k])
    BY <1>2, <2>1 DEF AllRowsOK
  <2>3. QED
    BY <2>1, <2>2 DEF RowOK
<1>7. ASSUME NEW act, NEW inst
      PROVE  <<act, inst>> \in {<<r.act, r.inst>> : r \in ToSet(C)} <=> Carries(d.caps, act, inst)
  <2>1. CASE Carries(d.caps, act, inst)
    BY <1>4, <1>6, <2>1
  <2>2. CASE <<act, inst>> \in {<<r.act, r.inst>> : r \in ToSet(C)}
    <3>1. PICK p \in 1 .. Len(C) : C[p].act = act /\ C[p].inst = inst
      BY <1>4, <2>2
    <3>2. Carries(d.caps, C[p].act, C[p].inst)
      BY <1>5
    <3>3. Carries(d.caps, act, inst)
      BY <3>1, <3>2
    <3>4. QED
      BY <2>2, <3>3
  <2>3. QED
    BY <2>1, <2>2
<1>8. QED
  BY <1>1, <1>7

\* Bindings are made of instances and items, which the page keeps.
LEMMA CollectedBindings ==
  ASSUME NEW kind, NEW rows, IsSeq(rows)
  PROVE  Bindings(kind, collect(rows)) = Bindings(kind, rows)
<1> DEFINE t == collect(rows)
<1>1. IsSeq(t) /\ Len(t) = Len(rows) /\ \A k \in 1 .. Len(rows) : t[k] = collectRow(rows[k])
  BY CollectedRows
<1>2. \A k \in 1 .. Len(rows) : t[k].inst = rows[k].inst /\ t[k].item = rows[k].item
  BY <1>1, CollectedRow
<1> HIDE DEF t
<1>3. \A b : b \in Bindings(kind, t) <=>
          \E p \in 1 .. Len(t) : /\ t[p].item # Nothing
                                 /\ b = [kind |-> kind, inst |-> t[p].inst, item |-> t[p].item]
  BY <1>1, BindingFacts
<1>4. \A b : b \in Bindings(kind, rows) <=>
          \E p \in 1 .. Len(rows) : /\ rows[p].item # Nothing
                                    /\ b = [kind |-> kind, inst |-> rows[p].inst, item |-> rows[p].item]
  BY BindingFacts
<1>5. \A b : b \in Bindings(kind, t) <=> b \in Bindings(kind, rows)
  BY <1>1, <1>2, <1>3, <1>4
<1>6. QED
  BY <1>5 DEF t

LEMMA ResavedKeeps ==
  ASSUME NEW d, DeviceOK(d), d.equipment = Nothing
  PROVE  KeepsControls(d, Resaved(d))
<1> DEFINE in  == toInput(d)
           out == save(in)
           b   == buildDevice(out)
           e   == Resaved(d)
           C   == in.capabilities
           P   == in.properties
<1>1. InputOK(in) /\ in.type = d.type
  BY ToInputOK, InputParts
<1>2. InputOK(out)
  BY <1>1, SaveInputOK
<1>3. out.type = in.type /\ out.capabilities = collect(C) /\ out.properties = collect(P)
  BY DEF save
<1>4. e = Stored(b)
  BY DEF Resaved
<1>5. /\ b.type = out.type /\ b.caps = Merged(CapList(out.capabilities))
      /\ b.bind = Bindings("cap", out.capabilities) \cup Bindings("prop", out.properties)
  BY BuiltParts
<1>6. DeviceOK(b)
  BY <1>2, BuildOK
<1>7. buildDevice(in).bind = Bindings("cap", C) \cup Bindings("prop", P)
  BY BuiltParts
<1>8. /\ buildDevice(in).caps = Merged(CapList(C))
  BY BuiltParts
<1>9. ~BoundAsMode(d) => buildDevice(in) = d
  BY EditKeeps
<1>10. Kept(e, Items(b))
  BY <1>4, <1>6, StoredKept
<1>11. e.type = b.type /\ e.bind = b.bind /\ e.caps = b.caps
  BY <1>4, <1>6 DEF Stored, DeviceOK
<1>12. /\ CapRowsOK(C) /\ IsSeq(C) /\ IsSeq(P)
       /\ CapRowsOK(out.capabilities)
  BY <1>1, <1>2 DEF InputOK, CapRowsOK, PropRowsOK
<1>13. /\ Len(collect(C)) = Len(C)
       /\ \A k \in 1 .. Len(C) : collect(C)[k].act = C[k].act /\ collect(C)[k].inst = C[k].inst
  BY <1>12, CollectedRows, CollectedRow
<1>14. Bindings("cap", collect(C)) = Bindings("cap", C) /\ Bindings("prop", collect(P)) = Bindings("prop", P)
  BY <1>12, CollectedBindings
<1>15. DeviceOK(e)
  BY <1>10 DEF Kept
<1> DEFINE X == {<<r.act, r.inst>> : r \in ToSet(toInput(d).capabilities)}
           Y == {<<r.act, r.inst>> : r \in ToSet(toInput(e).capabilities)}
<1>16. /\ \A act, inst : <<act, inst>> \in X <=> Carries(d.caps, act, inst)
       /\ \A act, inst : <<act, inst>> \in Y <=> Carries(e.caps, act, inst)
  BY <1>15, RowsCarried
<1>17. \A act, inst : <<act, inst>> \in X <=> \E r \in ToSet(C) : act = r.act /\ inst = r.inst
  OBVIOUS
<1>18. /\ \A x \in X : x = <<x[1], x[2]>>
       /\ \A y \in Y : y = <<y[1], y[2]>>
  OBVIOUS
<1> HIDE DEF in, out, b, e, C, P, X, Y
<1>19. \A r : r \in ToSet(C) <=> \E p \in 1 .. Len(C) : r = C[p]
  BY <1>12, Members
<1>20. \A act, inst : Carries(e.caps, act, inst) <=>
                        \E k \in 1 .. Len(collect(C)) : act = collect(C)[k].act /\ inst = collect(C)[k].inst
  <2>1. e.caps = Merged(CapList(collect(C))) /\ CapRowsOK(collect(C))
    BY <1>3, <1>5, <1>11, <1>12
  <2>2. QED
    BY <2>1, MergedRows
<1>21. ASSUME NEW act, NEW inst PROVE <<act, inst>> \in X <=> <<act, inst>> \in Y
  <2>1. <<act, inst>> \in X <=> \E k \in 1 .. Len(C) : act = C[k].act /\ inst = C[k].inst
    BY <1>17, <1>19
  <2>2. <<act, inst>> \in Y <=>
          \E k \in 1 .. Len(collect(C)) : act = collect(C)[k].act /\ inst = collect(C)[k].inst
    BY <1>16, <1>20
  <2>3. QED
    BY <1>13, <2>1, <2>2
<1>22. X = Y
  BY <1>18, <1>21
<1>23. e.type = d.type
  BY <1>1, <1>3, <1>5, <1>11
<1>24. ~BoundAsMode(d) => e.bind = d.bind
  BY <1>3, <1>5, <1>7, <1>9, <1>11, <1>14
<1>25. QED
  BY <1>22, <1>23, <1>24 DEF KeepsControls, X, Y, e

-----------------------------------------------------------------------------
(* Features: what featuresForItem finds can be assembled.                  *)

Control(f) == /\ f.kind = "cap"
              /\ f.inst \in (Plain \ {"thermostat"}) \cup {"hsv", "temperature_k"}
              /\ Piece(f.cap, f.inst)

\* yahome="mode": bound as "mode", declared as "thermostat".
ModeControl(f) == /\ f.kind = "cap"
                  /\ f.inst = "mode"
                  /\ Piece(f.cap, "thermostat")
                  /\ f.pairs = <<>>

Sensor(f) == /\ f.kind = "prop"
             /\ PropCap(f.cap)
             /\ capInstance(f.cap) = f.inst
             /\ f.pairs = <<>>

FeatureOK(f) == Control(f) \/ ModeControl(f) \/ Sensor(f)

SlotsApart(fs) == \A j, k \in 1 .. Len(fs) : SameSlot(fs[j], fs[k]) => j = k

AllFrom(fs, name) == \A k \in 1 .. Len(fs) : fs[k].item = name

FeaturesOK(fs) == /\ IsSeq(fs)
                  /\ \A k \in 1 .. Len(fs) : FeatureOK(fs[k])
                  /\ SlotsApart(fs)

FoundOK(x, it) == FeaturesOK(x.features) /\ AllFrom(x.features, it.name)

\* A feature of "it" that fills the slot of "kind" and "inst".
Fills(f, kind, inst, it) ==
    FeatureOK(f) /\ f.kind = kind /\ f.inst = inst /\ f.item = it.name

LEMMA NoFeatures ==
  ASSUME NEW it, NEW type
  PROVE  FoundOK(Found(<<>>, type), it)
<1>1. Found(<<>>, type).features = <<>>
  BY DEF Found
<1>2. IsSeq(<<>>) /\ Len(<<>>) = 0
  BY EmptyIsSeq
<1>3. QED
  BY <1>1, <1>2 DEF FoundOK, FeaturesOK, SlotsApart, AllFrom

LEMMA OneFeature ==
  ASSUME NEW it, NEW type, NEW f, NEW kind, NEW inst, Fills(f, kind, inst, it)
  PROVE  FoundOK(Found(<<f>>, type), it)
<1> DEFINE fs == <<f>>
<1>1. Found(fs, type).features = fs
  BY DEF Found
<1>2. IsSeq(fs) /\ Len(fs) = 1 /\ fs[1] = f
  BY OneIsSeq
<1> HIDE DEF fs
<1>3. \A k \in 1 .. Len(fs) : k = 1
  BY <1>2
<1>4. QED
  BY <1>1, <1>2, <1>3 DEF FoundOK, FeaturesOK, SlotsApart, AllFrom, Fills, fs

LEMMA TwoFeatures ==
  ASSUME NEW it, NEW type, NEW f, NEW kind, NEW inst, Fills(f, kind, inst, it),
         NEW g, NEW last, Fills(g, kind, last, it), inst # last
  PROVE  FoundOK(Found(<<f, g>>, type), it)
<1> DEFINE fs == <<f, g>>
<1>1. Found(fs, type).features = fs
  BY DEF Found
<1>2. IsSeq(fs) /\ Len(fs) = 2 /\ fs[1] = f /\ fs[2] = g
  BY TwoIsSeq
<1> HIDE DEF fs
<1>3. \A k \in 1 .. Len(fs) : k = 1 \/ k = 2
  BY <1>2
<1>4. \A k \in 1 .. Len(fs) : FeatureOK(fs[k]) /\ fs[k].item = it.name
  BY <1>2, <1>3 DEF Fills
<1>5. SlotsApart(fs)
  BY <1>2, <1>3 DEF SlotsApart, SameSlot, Fills
<1>6. QED
  BY <1>1, <1>2, <1>4, <1>5 DEF FoundOK, FeaturesOK, AllFrom, fs

LEMMA ThreeFeatures ==
  ASSUME NEW it, NEW type, NEW f, NEW kind, NEW inst, Fills(f, kind, inst, it),
         NEW g, NEW next, Fills(g, kind, next, it), inst # next,
         NEW h, NEW last, Fills(h, kind, last, it), inst # last, next # last
  PROVE  FoundOK(Found(<<f, g, h>>, type), it)
<1> DEFINE fs == <<f, g, h>>
<1>1. Found(fs, type).features = fs
  BY DEF Found
<1>2. IsSeq(fs) /\ Len(fs) = 3 /\ fs[1] = f /\ fs[2] = g /\ fs[3] = h
  BY ThreeIsSeq
<1> HIDE DEF fs
<1>3. \A k \in 1 .. Len(fs) : k = 1 \/ k = 2 \/ k = 3
  BY <1>2
<1>4. \A k \in 1 .. Len(fs) : FeatureOK(fs[k]) /\ fs[k].item = it.name
  BY <1>2, <1>3 DEF Fills
<1>5. SlotsApart(fs)
  BY <1>2, <1>3 DEF SlotsApart, SameSlot, Fills
<1>6. QED
  BY <1>1, <1>2, <1>4, <1>5 DEF FoundOK, FeaturesOK, AllFrom, fs

LEMMA FeatureFields ==
  ASSUME NEW kind, NEW inst, NEW cap, NEW it
  PROVE  LET f == Feature(kind, inst, cap, it)
         IN /\ f.kind = kind /\ f.inst = inst /\ f.cap = cap /\ f.item = it.name
            /\ f.pairs = <<>>
BY DEF Feature

\* A control that is no colour.
LEMMA PlainControl ==
  ASSUME NEW inst \in Plain, NEW act \in {"on_off", "toggle", "range", "mode", "video_stream"},
         NEW params, capInstance(capability(act, params)) = inst
  PROVE  Piece(capability(act, params), inst)
<1> DEFINE c == capability(act, params)
<1>1. /\ c.act = act /\ c.params = params /\ c.invert = FALSE
      /\ c = [act |-> c.act, params |-> c.params, invert |-> c.invert]
  BY DEF capability
<1> HIDE DEF c
<1>2. IsCap(c) /\ ~Colour(c)
  BY <1>1 DEF IsCap, Colour
<1>3. capInstance(c) = inst
  BY DEF c
<1>4. Piece(c, inst)
  BY <1>2, <1>3 DEF Piece
<1>5. QED
  BY <1>4 DEF c

LEMMA InstanceParam ==
  ASSUME NEW c, "instance" \in DOMAIN c.params, c.act \notin {"on_off", "video_stream"}
  PROVE  capInstance(c) = c.params.instance
<1>1. c.act # "on_off" /\ c.act # "video_stream"
  OBVIOUS
<1>2. QED
  BY <1>1 DEF capInstance


Slot == Plain \ {"thermostat"}

LEMMA ControlFills ==
  ASSUME NEW it, NEW inst, NEW cap, Piece(cap, inst),
         inst \in Slot \cup {"hsv", "temperature_k"}
  PROVE  Fills(Feature("cap", inst, cap, it), "cap", inst, it)
<1> DEFINE f == Feature("cap", inst, cap, it)
<1>1. f.kind = "cap" /\ f.inst = inst /\ f.cap = cap /\ f.item = it.name
  BY FeatureFields
<1> HIDE DEF f
<1>2. Control(f)
  BY <1>1 DEF Control, Slot
<1>3. QED
  BY <1>1, <1>2 DEF Fills, FeatureOK, f

LEMMA SensorFills ==
  ASSUME NEW it, NEW inst, NEW act \in {"float", "event"}
  PROVE  Fills(Feature("prop", inst, capability(act, [instance |-> inst]), it), "prop", inst, it)
<1> DEFINE c == capability(act, [instance |-> inst])
           f == Feature("prop", inst, c, it)
<1>1. f.kind = "prop" /\ f.inst = inst /\ f.cap = c /\ f.item = it.name /\ f.pairs = <<>>
  BY FeatureFields
<1>2. /\ c = [act |-> c.act, params |-> c.params, invert |-> c.invert]
      /\ c.act = act /\ c.invert = FALSE /\ "instance" \in DOMAIN c.params /\ c.params.instance = inst
  BY DEF capability
<1> HIDE DEF c, f
<1>3. PropCap(c) /\ c.act \notin {"on_off", "video_stream"}
  BY <1>2 DEF PropCap
<1>4. capInstance(c) = inst
  BY <1>2, <1>3, InstanceParam
<1>5. Sensor(f)
  BY <1>1, <1>3, <1>4 DEF Sensor
<1>6. QED
  BY <1>1, <1>5 DEF Fills, FeatureOK, f, c

LEMMA NamedPiece ==
  ASSUME NEW act \in {"toggle", "range", "mode"}, NEW params, "instance" \in DOMAIN params,
         params.instance \in Plain
  PROVE  Piece(capability(act, params), params.instance)
<1> DEFINE c == capability(act, params)
<1>1. c.act = act /\ c.params = params
  BY DEF capability
<1> HIDE DEF c
<1>2. capInstance(c) = params.instance
  BY <1>1, InstanceParam
<1>3. QED
  BY <1>2, PlainControl DEF c

LEMMA OnOffFills ==
  ASSUME NEW it
  PROVE  /\ Fills(capOnOff(it), "cap", "on", it)
         /\ Piece(capability("on_off", <<>>), "on")
<1> DEFINE c == capability("on_off", <<>>)
<1>1. c.act = "on_off" /\ c.params = <<>>
  BY DEF capability
<1>2. "instance" \notin DOMAIN <<>>
  OBVIOUS
<1> HIDE DEF c
<1>3. capInstance(c) = "on"
  BY <1>1, <1>2 DEF capInstance
<1>4. Piece(c, "on")
  BY <1>3, PlainControl DEF c, Plain
<1>5. QED
  BY <1>4, ControlFills DEF c, capOnOff, Slot, Plain

LEMMA VideoFills ==
  ASSUME NEW it, NEW protocol
  PROVE  Fills(capVideoStream(protocol, it), "cap", "get_stream", it)
<1> DEFINE p == [protocols |-> <<protocol>>]
           c == capability("video_stream", p)
<1>1. c.act = "video_stream" /\ c.params = p
  BY DEF capability
<1>2. "instance" \notin DOMAIN p
  OBVIOUS
<1> HIDE DEF c, p
<1>3. capInstance(c) = "get_stream"
  BY <1>1, <1>2 DEF capInstance
<1>4. Piece(c, "get_stream")
  BY <1>3, PlainControl DEF c, Plain
<1>5. QED
  BY <1>4, ControlFills DEF c, p, capVideoStream, Slot, Plain

LEMMA ToggleFills ==
  ASSUME NEW it, NEW i \in Slot
  PROVE  Fills(capToggle(i, it), "cap", i, it)
<1> DEFINE p == [instance |-> i]
<1>1. "instance" \in DOMAIN p /\ p.instance = i
  OBVIOUS
<1> HIDE DEF p
<1>2. Piece(capability("toggle", p), i)
  BY <1>1, NamedPiece DEF Slot
<1>3. QED
  BY <1>2, ControlFills DEF p, capToggle

LEMMA RangeFills ==
  ASSUME NEW it, NEW i \in Slot, NEW bounds
  PROVE  Fills(capRange(i, bounds, it), "cap", i, it)
<1> DEFINE p == [instance |-> i, range |-> bounds]
<1>1. "instance" \in DOMAIN p /\ p.instance = i
  OBVIOUS
<1> HIDE DEF p
<1>2. Piece(capability("range", p), i)
  BY <1>1, NamedPiece DEF Slot
<1>3. QED
  BY <1>2, ControlFills DEF p, capRange

LEMMA PercentFills ==
  ASSUME NEW it, NEW i \in Slot
  PROVE  Fills(capPercent(i, it), "cap", i, it)
BY RangeFills DEF capPercent

LEMMA ModePiece ==
  ASSUME NEW i \in Plain, NEW modes
  PROVE  Piece(capMode(i, modes), i)
<1> DEFINE p == [instance |-> i, modes |-> modes]
<1>1. "instance" \in DOMAIN p /\ p.instance = i
  OBVIOUS
<1> HIDE DEF p
<1>2. Piece(capability("mode", p), i)
  BY <1>1, NamedPiece
<1>3. QED
  BY <1>2 DEF p, capMode

LEMMA ColourFills ==
  ASSUME NEW it
  PROVE  /\ Fills(capColorHSV(it), "cap", "hsv", it)
         /\ Fills(capColorTempK(it), "cap", "temperature_k", it)
<1>1. ASSUME NEW inst, NEW p, \/ inst = "hsv" /\ p = ModelParams("hsv")
                              \/ inst = "temperature_k" /\ p = WhiteParams
      PROVE  Piece(capability("color_setting", p), inst)
  <2> DEFINE c == capability("color_setting", p)
  <2>1. IsCap(c) /\ Colour(c) /\ c.params = p /\ c.invert = FALSE
    BY DEF capability, IsCap, Colour
  <2> HIDE DEF c
  <2>2. Piece(c, inst)
    BY <1>1, <2>1 DEF Piece, ColourPiece, Colours
  <2>3. QED
    BY <2>2 DEF c
<1>2. /\ Piece(capability("color_setting", ModelParams("hsv")), "hsv")
      /\ Piece(capability("color_setting", WhiteParams), "temperature_k")
  BY <1>1
<1>3. /\ Fills(Feature("cap", "hsv", capability("color_setting", ModelParams("hsv")), it), "cap", "hsv", it)
      /\ Fills(Feature("cap", "temperature_k", capability("color_setting", WhiteParams), it),
               "cap", "temperature_k", it)
  BY <1>2, ControlFills
<1>4. QED
  BY <1>3 DEF capColorHSV, capColorTempK, ModelParams, WhiteParams

LEMMA PropFills ==
  ASSUME NEW it, NEW i
  PROVE  Fills(propFloat(i, it), "prop", i, it) /\ Fills(propEvent(i, it), "prop", i, it)
BY SensorFills DEF propFloat, propEvent

\* Value mappings do not change the slot.
LEMMA WithPairs ==
  ASSUME NEW it, NEW inst \in Slot, NEW cap, Piece(cap, inst), NEW pairs
  PROVE  Fills([Feature("cap", inst, cap, it) EXCEPT !.pairs = pairs], "cap", inst, it)
<1> DEFINE f == [Feature("cap", inst, cap, it) EXCEPT !.pairs = pairs]
<1>1. f.kind = "cap" /\ f.inst = inst /\ f.cap = cap /\ f.item = it.name
  BY DEF Feature
<1> HIDE DEF f
<1>2. Control(f)
  BY <1>1 DEF Control, Slot
<1>3. QED
  BY <1>1, <1>2 DEF Fills, FeatureOK, f

LEMMA SpeedFills ==
  ASSUME NEW it, NEW values
  PROVE  Fills(SpeedFeature(it, values), "cap", speedInstance(it), it)
<1> DEFINE i == speedInstance(it)
           m == IF values = <<>> THEN [modes |-> Recommended[i], pairs |-> <<>>]
                ELSE ladderMapping(values, speedLadder(i))
<1>1. SpeedFeature(it, values) = [Feature("cap", i, capMode(i, m.modes), it) EXCEPT !.pairs = m.pairs]
  BY DEF SpeedFeature
<1>2. i \in Slot /\ i \in Plain
  BY DEF speedInstance, Slot, Plain
<1> HIDE DEF i, m
<1>3. Piece(capMode(i, m.modes), i)
  BY <1>2, ModePiece
<1> DEFINE cap == capMode(i, m.modes)
           pairs == m.pairs
<1>4. Fills([Feature("cap", i, cap, it) EXCEPT !.pairs = pairs], "cap", i, it)
  <2> HIDE DEF cap, pairs
  <2>1. Piece(cap, i)
    BY <1>3 DEF cap
  <2>2. QED
    BY <1>2, <2>1, WithPairs
<1>5. QED
  BY <1>1, <1>4 DEF i


LEMMA YahomeOK ==
  ASSUME NEW it, hasYahome(it)
  PROVE  FoundOK(yahomeFeatures(it), it)
<1>1. CASE it.yahome = "on_off"
  <2>1. yahomeFeatures(it) = Found(<<capOnOff(it)>>, <<"switch">>)
    BY <1>1 DEF yahomeFeatures
  <2>2. QED
    BY <2>1, OnOffFills, OneFeature
<1>2. CASE it.yahome = "mode"
  <2> DEFINE modes == yahomeModeSpec(it, "thermostat").modes
             c == capMode("thermostat", modes)
             f == Feature("cap", "mode", c, it)
  <2>1. yahomeFeatures(it) = Found(<<f>>, <<"thermostat">>)
    BY <1>2 DEF yahomeFeatures
  <2>2. Piece(c, "thermostat")
    <3> HIDE DEF modes
    <3>1. QED
      BY ModePiece DEF Plain
  <2> HIDE DEF c
  <2>3. f.kind = "cap" /\ f.inst = "mode" /\ f.cap = c /\ f.item = it.name /\ f.pairs = <<>>
    BY FeatureFields
  <2> HIDE DEF f
  <2>4. Fills(f, "cap", "mode", it)
    BY <2>2, <2>3 DEF Fills, FeatureOK, ModeControl
  <2>5. QED
    BY <2>1, <2>4, OneFeature
<1>3. CASE it.yahome = "cleanup_mode"
  <2> DEFINE m == yahomeModeSpec(it, "cleanup_mode")
             c == capMode("cleanup_mode", m.modes)
             pairs == m.pairs
             f == [Feature("cap", "cleanup_mode", c, it) EXCEPT !.pairs = pairs]
  <2>1. yahomeFeatures(it) = Found(<<f>>, <<"vacuum_cleaner">>)
    BY <1>3 DEF yahomeFeatures
  <2>2. Piece(c, "cleanup_mode")
    <3> HIDE DEF m
    <3>1. QED
      BY ModePiece DEF Plain
  <2>3. Fills(f, "cap", "cleanup_mode", it)
    <3> HIDE DEF c, pairs
    <3>1. QED
      BY <2>2, WithPairs DEF Slot, Plain
  <2> HIDE DEF f
  <2>4. QED
    BY <2>1, <2>3, OneFeature
<1>4. CASE it.yahome = "video_stream"
  <2>1. yahomeFeatures(it) = Found(<<capVideoStream("hls", it)>>, <<"camera">>)
    BY <1>4 DEF yahomeFeatures
  <2>2. QED
    BY <2>1, VideoFills, OneFeature
<1>5. QED
  BY <1>1, <1>2, <1>3, <1>4 DEF hasYahome

LEMMA EventOK ==
  ASSUME NEW prop, NEW it
  PROVE  FoundOK(eventFeature(prop, it), it)
<1> DEFINE i == EventTypes[prop][1]
           type == IF EventTypes[prop][2] = "" THEN <<"sensor">> ELSE <<"sensor", EventTypes[prop][2]>>
<1>1. eventFeature(prop, it) = Found(<<propEvent(i, it)>>, type)
  BY DEF eventFeature
<1> HIDE DEF i, type
<1>2. QED
  BY <1>1, PropFills, OneFeature

LEMMA SwitchOK ==
  ASSUME NEW it, NEW prop, NEW ctx
  PROVE  FoundOK(switchFeature(it, prop, ctx), it)
<1>1. FoundOK(Found(<<capToggle("backlight", it)>>, ctx), it)
  <2>1. Fills(capToggle("backlight", it), "cap", "backlight", it)
    BY ToggleFills DEF Slot, Plain
  <2>2. QED
    BY <2>1, OneFeature
<1>2. \A type : FoundOK(Found(<<capOnOff(it)>>, type), it)
  BY OnOffFills, OneFeature
<1>3. switchFeature(it, prop, ctx) = Found(<<capToggle("backlight", it)>>, ctx)
      \/ \E type : switchFeature(it, prop, ctx) = Found(<<capOnOff(it)>>, type)
  BY DEF switchFeature
<1>4. QED
  BY <1>1, <1>2, <1>3

LEMMA PercentOK ==
  ASSUME NEW it, NEW i \in Slot, NEW type
  PROVE  FoundOK(Found(<<capPercent(i, it)>>, type), it)
BY PercentFills, OneFeature

LEMMA RangeOK ==
  ASSUME NEW it, NEW i \in Slot, NEW bounds, NEW type
  PROVE  FoundOK(Found(<<capRange(i, bounds, it)>>, type), it)
BY RangeFills, OneFeature

LEMMA SlotNames ==
  /\ {"on", "backlight", "brightness", "volume", "temperature", "open"} \subseteq Slot
  /\ "hsv" \notin Slot /\ "temperature_k" \notin Slot
BY DEF Slot, Plain

LEMMA DimmerOK ==
  ASSUME NEW it, NEW ctx
  PROVE  FoundOK(dimmerFeatures(it, ctx), it)
<1> DEFINE prop == propertyTag(it.tags)
           light == deviceTypeFor(it.tags, <<"light">>)
           dimLight == Found(<<capOnOff(it), capPercent("brightness", it)>>, light)
           volume == Found(<<capPercent("volume", it)>>, <<"media_device">>)
           speed == Found(<<speedFeature(it)>>, <<"ventilation", "fan">>)
           white == Found(<<capOnOff(it), capColorTempK(it)>>, light)
           bounds == rangeParams(it, 10, 30)
           tempSet(type) == Found(<<capRange("temperature", bounds, it)>>, type)
           position(type) == Found(<<capPercent("open", it), capOnOff(it)>>, type)
<1>1. FoundOK(dimLight, it)
  <2>1. Fills(capPercent("brightness", it), "cap", "brightness", it) /\ Fills(capOnOff(it), "cap", "on", it)
    BY PercentFills, OnOffFills, SlotNames
  <2> HIDE DEF light
  <2>2. QED
    BY <2>1, TwoFeatures
<1>2. FoundOK(volume, it)
  BY PercentOK, SlotNames
<1>3. FoundOK(speed, it)
  <2>1. Fills(speedFeature(it), "cap", speedInstance(it), it)
    BY SpeedFills DEF speedFeature
  <2>2. QED
    BY <2>1, OneFeature
<1>4. FoundOK(white, it)
  <2>1. Fills(capColorTempK(it), "cap", "temperature_k", it) /\ Fills(capOnOff(it), "cap", "on", it)
    BY ColourFills, OnOffFills
  <2> HIDE DEF light
  <2>2. QED
    BY <2>1, TwoFeatures
<1>5. \A type : FoundOK(tempSet(type), it)
  <2> HIDE DEF bounds
  <2>1. QED
    BY RangeOK, SlotNames
<1>6. \A type : FoundOK(position(type), it)
  <2>1. Fills(capPercent("open", it), "cap", "open", it) /\ Fills(capOnOff(it), "cap", "on", it)
    BY PercentFills, OnOffFills, SlotNames
  <2>2. QED
    BY <2>1, TwoFeatures
<1> DEFINE r == dimmerFeatures(it, ctx)
<1>7. r = CASE prop = "SoundVolume" -> volume
            [] prop = "Brightness" -> dimLight
            [] prop = "Speed" -> speed
            [] prop = "ColorTemperature" -> white
            [] prop = "Temperature" -> tempSet(<<"thermostat">>)
            [] prop \in {"OpenLevel", "Position", "Opening"} -> position(<<"openable", "curtain">>)
            [] OTHER -> CASE isMediaType(ctx) -> volume
                          [] isThermostat(ctx) -> tempSet(ctx)
                          [] IsOf(ctx, "openable") -> position(ctx)
                          [] OTHER -> dimLight
  BY DEF dimmerFeatures
<1> HIDE DEF r, prop, dimLight, volume, speed, white, tempSet, position
<1>8. FoundOK(r, it)
  BY <1>1, <1>2, <1>3, <1>4, <1>5, <1>6, <1>7
<1>9. QED
  BY <1>8 DEF r


LEMMA NumberOK ==
  ASSUME NEW it, NEW tagged, NEW ctx
  PROVE  FoundOK(numberFeature(it, tagged, ctx), it)
<1> DEFINE prop == IF tagged = "" THEN it.dim ELSE tagged
           setpoint == pointRole(it.tags) = "control" \/ hasTag(it.tags, "Setpoint")
           volume == Found(<<capPercent("volume", it)>>, <<"media_device">>)
           asked == Found(<<capRange("temperature", <<10, 30>>, it)>>, ctx)
           bounds == rangeParams(it, 10, 30)
           limited == Found(<<capRange("temperature", bounds, it)>>, <<"thermostat">>)
           bright == Found(<<capPercent("brightness", it)>>, <<"light">>)
           speed == Found(<<speedFeature(it)>>, <<"ventilation", "fan">>)
           i == FloatTypes[prop][1]
           type == FloatTypes[prop][2]
           float == Found(<<propFloat(i, it)>>, type)
<1>1. FoundOK(volume, it)
  BY PercentOK, SlotNames
<1>2. FoundOK(asked, it)
  BY RangeOK, SlotNames
<1>3. FoundOK(limited, it)
  <2> HIDE DEF bounds
  <2>1. QED
    BY RangeOK, SlotNames
<1>4. FoundOK(bright, it)
  BY PercentOK, SlotNames
<1>5. FoundOK(speed, it)
  <2>1. Fills(speedFeature(it), "cap", speedInstance(it), it)
    BY SpeedFills DEF speedFeature
  <2>2. QED
    BY <2>1, OneFeature
<1>6. FoundOK(float, it)
  <2> HIDE DEF i, type
  <2>1. QED
    BY PropFills, OneFeature
<1>7. FoundOK(Unsupported, it)
  BY NoFeatures DEF Unsupported
<1> DEFINE r == numberFeature(it, tagged, ctx)
<1>8. r \in {volume, asked, limited, bright, speed, float, Unsupported}
  <2>1. r = CASE setpoint /\ prop = "" /\ isMediaType(ctx) -> volume
         [] setpoint /\ prop = "" /\ isThermostat(ctx) -> asked
         [] setpoint /\ prop = "Temperature" -> limited
         [] setpoint /\ prop = "SoundVolume" -> volume
         [] setpoint /\ prop = "Brightness" -> bright
         [] setpoint /\ prop = "Speed" -> speed
         [] prop \in DOMAIN FloatTypes /\ ~(setpoint /\ prop = "Temperature") -> float
         [] OTHER -> Unsupported
    BY DEF numberFeature
  <2> HIDE DEF r, prop, setpoint, volume, asked, limited, bright, speed, float
  <2>2. QED
    BY <2>1
<1> HIDE DEF r, prop, setpoint, volume, asked, limited, bright, speed, float
<1>9. FoundOK(r, it)
  BY <1>1, <1>2, <1>3, <1>4, <1>5, <1>6, <1>7, <1>8
<1>10. QED
  BY <1>9 DEF r

LEMMA StringOK ==
  ASSUME NEW it
  PROVE  FoundOK(stringFeature(it), it)
<1> DEFINE hls == Found(<<capVideoStream("hls", it)>>, <<"camera">>)
           mjpeg == Found(<<capVideoStream("mjpeg", it)>>, <<"camera">>)
           speed == Found(<<stringSpeed(it)>>, <<"ventilation", "fan">>)
           r == stringFeature(it)
<1>1. FoundOK(hls, it) /\ FoundOK(mjpeg, it)
  BY VideoFills, OneFeature
<1>2. FoundOK(speed, it)
  <2> DEFINE values == SelectSeq(it.desc.options, LAMBDA v : ~isOffValue(v))
  <2>1. stringSpeed(it) = SpeedFeature(it, values)
    BY DEF stringSpeed
  <2> HIDE DEF values
  <2>2. Fills(stringSpeed(it), "cap", speedInstance(it), it)
    BY <2>1, SpeedFills
  <2>3. QED
    BY <2>2, OneFeature
<1>3. FoundOK(Unsupported, it)
  BY NoFeatures DEF Unsupported
<1>4. r = CASE it.type = "String" /\ it.clue = "hlsurl" -> hls
            [] it.type = "String" /\ it.clue = "mjpegurl" -> mjpeg
            [] hasTag(it.tags, "Speed") -> speed
            [] OTHER -> Unsupported
  BY DEF stringFeature
<1> HIDE DEF r, hls, mjpeg, speed
<1>5. r \in {hls, mjpeg, speed, Unsupported}
  BY <1>4
<1>6. FoundOK(r, it)
  BY <1>1, <1>2, <1>3, <1>5
<1>7. QED
  BY <1>6 DEF r

LEMMA ColorOK ==
  ASSUME NEW it
  PROVE  FoundOK(colorFeatures(it), it)
<1>1. /\ Fills(capOnOff(it), "cap", "on", it)
      /\ Fills(capPercent("brightness", it), "cap", "brightness", it)
      /\ Fills(capColorHSV(it), "cap", "hsv", it)
  BY OnOffFills, PercentFills, ColourFills, SlotNames
<1>2. \A type : FoundOK(Found(<<capOnOff(it), capPercent("brightness", it), capColorHSV(it)>>, type), it)
  BY <1>1, ThreeFeatures
<1>3. QED
  BY <1>2 DEF colorFeatures

LEMMA ShutterOK ==
  ASSUME NEW it
  PROVE  FoundOK(shutterFeatures(it), it)
<1> DEFINE p == [instance |-> "open", range |-> <<0, 100>>]
           c == capability("range", p)
           x == [c EXCEPT !.invert = TRUE]
           f == [capPercent("open", it) EXCEPT !.cap.invert = TRUE]
           table == << <<Bool(TRUE), Str("UP")>>, <<Bool(FALSE), Str("DOWN")>> >>
           on == capability("on_off", <<>>)
           g == [Feature("cap", "on", on, it) EXCEPT !.pairs = table]
<1>1. shutterFeatures(it) = Found(<<f, g>>, <<"openable", "curtain">>)
  BY DEF shutterFeatures, capOnOff
<1>2. f.kind = "cap" /\ f.inst = "open" /\ f.cap = x /\ f.item = it.name
  BY DEF capPercent, capRange, Feature
<1>3. Fills(f, "cap", "open", it)
  <2>1. "instance" \in DOMAIN p /\ p.instance = "open"
    OBVIOUS
  <2>2. c = [act |-> "range", params |-> p, invert |-> FALSE]
    BY DEF capability
  <2>3. /\ x = [act |-> x.act, params |-> x.params, invert |-> x.invert]
        /\ x.act = "range" /\ x.params = p
    <3>1. c.act = "range" /\ c.params = p /\ DOMAIN c = {"act", "params", "invert"}
      BY <2>2
    <3> HIDE DEF c, p
    <3>2. x.act = c.act /\ x.params = c.params /\ DOMAIN x = DOMAIN c /\ x = [i \in DOMAIN x |-> x[i]]
      BY <3>1
    <3> HIDE DEF x
    <3>3. QED
      BY <3>1, <3>2
  <2>9. x.invert \in BOOLEAN
    <3>1. x.invert = TRUE
      BY <2>2
    <3>2. QED
      BY <3>1
  <2> HIDE DEF x, p
  <2>4. capInstance(x) = "open"
    BY <2>1, <2>3, InstanceParam
  <2>5. IsCap(x) /\ ~Colour(x)
    BY <2>3, <2>9 DEF IsCap, Colour
  <2>6. Piece(x, "open")
    BY <2>4, <2>5 DEF Piece, Plain
  <2> HIDE DEF f
  <2>7. Control(f)
    BY <1>2, <2>6, SlotNames DEF Control, Slot
  <2>8. QED
    BY <1>2, <2>7 DEF Fills, FeatureOK
<1>4. Fills(g, "cap", "on", it)
  <2> HIDE DEF on, table
  <2>1. Piece(on, "on")
    BY OnOffFills DEF on
  <2>2. QED
    BY <2>1, WithPairs, SlotNames
<1> HIDE DEF f, g
<1>5. QED
  BY <1>1, <1>3, <1>4, TwoFeatures

\* Discovery makes features of an item that fit each other, and binds each
\* of them to that item.
LEMMA FeaturesForItemOK ==
  ASSUME NEW it, NEW ctx
  PROVE  FoundOK(featuresForItem(it, ctx), it)
<1> DEFINE base == IF it.type = "Group" /\ it.base # "" THEN it.base ELSE it.type
           prop == propertyTag(it.tags)
           event == /\ base \in {"Switch", "Contact"}
                    /\ pointRole(it.tags) # "control"
                    /\ prop \in DOMAIN EventTypes
           yahome == yahomeFeatures(it)
           sensor == eventFeature(prop, it)
           switch == switchFeature(it, prop, ctx)
           string == stringFeature(it)
           dimmer == dimmerFeatures(it, ctx)
           color == colorFeatures(it)
           shutter == shutterFeatures(it)
           contact == Found(<<propEvent("open", it)>>, <<"sensor", "open">>)
           number == numberFeature(it, prop, ctx)
           plain == CASE base = "Switch" -> switch
                      [] base = "String" -> string
                      [] base = "Dimmer" -> dimmer
                      [] base = "Color" -> color
                      [] base = "Rollershutter" -> shutter
                      [] base = "Contact" -> contact
                      [] base = "Number" -> number
                      [] OTHER -> Unsupported
           r == featuresForItem(it, ctx)
<1>1. hasYahome(it) => FoundOK(yahome, it)
  BY YahomeOK
<1>2. FoundOK(sensor, it)
  BY EventOK
<1>3. FoundOK(contact, it)
  BY PropFills, OneFeature
<1>4. /\ FoundOK(switch, it) /\ FoundOK(string, it) /\ FoundOK(dimmer, it) /\ FoundOK(color, it)
      /\ FoundOK(shutter, it) /\ FoundOK(number, it) /\ FoundOK(Unsupported, it)
  BY SwitchOK, StringOK, DimmerOK, ColorOK, ShutterOK, NumberOK, NoFeatures DEF Unsupported
<1>5. r = IF hasYahome(it) THEN yahome ELSE IF event THEN sensor ELSE plain
  BY DEF featuresForItem
<1>6. plain \in {switch, string, dimmer, color, shutter, contact, number, Unsupported}
  <2> HIDE DEF switch, string, dimmer, color, shutter, contact, number, base
  <2>1. QED
    OBVIOUS
<1> HIDE DEF r, plain, event, sensor, yahome, switch, string, dimmer, color, shutter, contact, number
<1>7. FoundOK(plain, it)
  BY <1>3, <1>4, <1>6
<1>8. FoundOK(r, it)
  BY <1>1, <1>2, <1>5, <1>7
<1>9. QED
  BY <1>8 DEF r


-----------------------------------------------------------------------------
(* Drafts: features that fit each other make a device Yandex accepts.      *)

\* The instance a feature is declared with.
Declared(f) == IF f.inst = "mode" THEN "thermostat" ELSE f.inst

LEMMA DeclaredFacts ==
  ASSUME NEW f, FeatureOK(f), f.kind = "cap"
  PROVE  /\ Piece(f.cap, Declared(f))
         /\ Key(Declared(f)) = Declared(f)
         /\ Declared(f) = "thermostat" <=> f.inst = "mode"
         /\ f.inst = "mode" \/ Declared(f) = f.inst
         /\ f.pairs # <<>> => Declared(f) = f.inst
<1>1. Control(f) \/ ModeControl(f)
  BY DEF FeatureOK, Sensor
<1>2. CASE Control(f)
  <2>1. /\ f.inst \in (Plain \ {"thermostat"}) \cup {"hsv", "temperature_k"} /\ Piece(f.cap, f.inst)
    BY <1>2 DEF Control
  <2>2. f.inst # "mode" /\ f.inst # "rgb" /\ f.inst # "thermostat"
    BY <2>1 DEF Plain
  <2>3. QED
    BY <2>1, <2>2 DEF Declared, Key
<1>3. CASE ModeControl(f)
  BY <1>3 DEF ModeControl, Declared, Key
<1>4. QED
  BY <1>1, <1>2, <1>3

LEMMA SensorKind ==
  ASSUME NEW f, FeatureOK(f)
  PROVE  /\ f.kind \in {"cap", "prop"}
         /\ f.kind = "prop" => Sensor(f)
BY DEF FeatureOK, Control, ModeControl, Sensor

\* The parts of a device of these features.
CapsOf(fs) == LET cap == Only(fs, {k \in DOMAIN fs : fs[k].kind = "cap"})
              IN [k \in DOMAIN cap |-> cap[k].cap]
PropsOf(fs) == LET prop == Only(fs, {k \in DOMAIN fs : fs[k].kind = "prop"})
               IN [k \in DOMAIN prop |-> prop[k].cap]

LEMMA KindPositions ==
  ASSUME NEW fs, FeaturesOK(fs), NEW kind \in {"cap", "prop"}
  PROVE  LET s == Only(fs, {k \in DOMAIN fs : fs[k].kind = kind})
             c == [k \in DOMAIN s |-> s[k].cap]
         IN /\ IsSeq(s) /\ IsSeq(c) /\ Len(c) = Len(s)
            /\ \A p \in 1 .. Len(s) : /\ c[p] = s[p].cap /\ FeatureOK(s[p]) /\ s[p].kind = kind
                                      /\ \E k \in 1 .. Len(fs) : s[p] = fs[k]
            /\ \A p, q \in 1 .. Len(s) : SameSlot(s[p], s[q]) => p = q
            /\ \A k \in 1 .. Len(fs) : fs[k].kind = kind => \E p \in 1 .. Len(s) : s[p] = fs[k]
<1> DEFINE K == {k \in DOMAIN fs : fs[k].kind = kind}
           s == Only(fs, K)
           c == [k \in DOMAIN s |-> s[k].cap]
<1>1. /\ IsSeq(fs) /\ \A k \in 1 .. Len(fs) : FeatureOK(fs[k])
      /\ \A j, k \in 1 .. Len(fs) : SameSlot(fs[j], fs[k]) => j = k
  BY DEF FeaturesOK, SlotsApart
<1>2. Len(fs) \in Nat /\ DOMAIN fs = 1 .. Len(fs)
  BY <1>1, SeqFacts
<1>3. \A k : k \in K <=> k \in 1 .. Len(fs) /\ fs[k].kind = kind
  BY <1>2
<1> HIDE DEF K
<1>4. IsSeq(s) /\ ToSet(s) = {fs[k] : k \in {i \in 1 .. Len(fs) : i \in K}}
  BY <1>1, OnlyPositions
<1>5. PICK o \in [1 .. Len(s) -> 1 .. Len(fs)] :
        /\ \A p \in 1 .. Len(s) : o[p] \in K /\ s[p] = fs[o[p]]
        /\ \A p, q \in 1 .. Len(s) : p < q => o[p] < o[q]
  BY <1>1, OnlyPositions
<1> HIDE DEF s
<1>6. Len(s) \in Nat /\ DOMAIN s = 1 .. Len(s)
  BY <1>4, SeqFacts
<1>7. c = [k \in 1 .. Len(s) |-> c[k]] /\ \A p \in 1 .. Len(s) : c[p] = s[p].cap
  BY <1>6
<1> HIDE DEF c
<1>8. IsSeq(c) /\ Len(c) = Len(s)
  BY <1>6, <1>7, MapIsSeq
<1>9. ASSUME NEW p \in 1 .. Len(s)
      PROVE  /\ FeatureOK(s[p]) /\ s[p].kind = kind /\ o[p] \in 1 .. Len(fs) /\ s[p] = fs[o[p]]
  <2>1. PICK k \in 1 .. Len(fs) : k = o[p]
    BY <1>5
  <2>2. k \in K /\ s[p] = fs[k]
    BY <1>5, <2>1
  <2>3. QED
    BY <1>1, <1>3, <2>1, <2>2
<1>10. ASSUME NEW p \in 1 .. Len(s), NEW q \in 1 .. Len(s), SameSlot(s[p], s[q])
       PROVE  p = q
  <2>1. PICK i \in 1 .. Len(fs), j \in 1 .. Len(fs) : i = o[p] /\ j = o[q] /\ s[p] = fs[i] /\ s[q] = fs[j]
    BY <1>9
  <2>2. i = j
    BY <1>1, <1>10, <2>1
  <2>3. (p < q => i < j) /\ (q < p => j < i)
    BY <1>5, <2>1
  <2>4. ~(i < j) /\ ~(j < i)
    BY <1>2, <2>2
  <2>5. p \in Nat /\ q \in Nat
    BY <1>6
  <2>6. QED
    BY <2>3, <2>4, <2>5
<1>11. ASSUME NEW k \in 1 .. Len(fs), fs[k].kind = kind
       PROVE  \E p \in 1 .. Len(s) : s[p] = fs[k]
  <2>1. k \in K
    BY <1>3, <1>11
  <2>2. fs[k] \in ToSet(s)
    BY <1>4, <2>1
  <2>3. QED
    BY <1>4, <2>2, Members
<1>12. QED
  BY <1>4, <1>7, <1>8, <1>9, <1>10, <1>11 DEF s, c, K

LEMMA CapsOfOK ==
  ASSUME NEW fs, FeaturesOK(fs)
  PROVE  /\ CapsOK(Merged(CapsOf(fs)))
         /\ \A act, i : Carries(Merged(CapsOf(fs)), act, i) <=>
              \E k \in 1 .. Len(fs) : fs[k].kind = "cap" /\ act = fs[k].cap.act /\ i = Declared(fs[k])
<1> DEFINE s == Only(fs, {k \in DOMAIN fs : fs[k].kind = "cap"})
           c == CapsOf(fs)
           inst == [p \in 1 .. Len(s) |-> Declared(s[p])]
<1>1. /\ IsSeq(s) /\ IsSeq(c) /\ Len(c) = Len(s)
      /\ \A p \in 1 .. Len(s) : /\ c[p] = s[p].cap /\ FeatureOK(s[p]) /\ s[p].kind = "cap"
                                /\ \E k \in 1 .. Len(fs) : s[p] = fs[k]
      /\ \A p, q \in 1 .. Len(s) : SameSlot(s[p], s[q]) => p = q
      /\ \A k \in 1 .. Len(fs) : fs[k].kind = "cap" => \E p \in 1 .. Len(s) : s[p] = fs[k]
  BY KindPositions DEF CapsOf
<1> HIDE DEF s, c
<1>2. \A p \in 1 .. Len(s) : inst[p] = Declared(s[p])
  OBVIOUS
<1> HIDE DEF inst
<1>3. ASSUME NEW p \in 1 .. Len(s)
      PROVE  Piece(c[p], inst[p]) /\ Key(inst[p]) = inst[p]
  <2>1. PICK f : f = s[p]
    OBVIOUS
  <2>2. FeatureOK(f) /\ f.kind = "cap" /\ c[p] = f.cap /\ inst[p] = Declared(f)
    BY <1>1, <1>2, <2>1
  <2>3. Piece(f.cap, Declared(f)) /\ Key(Declared(f)) = Declared(f)
    BY <2>2, DeclaredFacts
  <2>4. QED
    BY <2>2, <2>3
<1>4. ASSUME NEW p \in 1 .. Len(s), NEW q \in 1 .. Len(s), Key(inst[p]) = Key(inst[q])
      PROVE  p = q
  <2>1. inst[p] = inst[q]
    BY <1>3, <1>4
  <2>2. s[p].inst = s[q].inst
    BY <1>1, <1>2, <2>1, DeclaredFacts
  <2>3. SameSlot(s[p], s[q])
    BY <1>1, <2>2 DEF SameSlot
  <2>4. QED
    BY <1>1, <2>3
<1>5. /\ CapsOK(Merged(c))
      /\ \A act, i : Carries(Merged(c), act, i) <=>
                       \E k \in 1 .. Len(c) : act = c[k].act /\ i = inst[k]
  <2>1. /\ \A k \in 1 .. Len(c) : Piece(c[k], inst[k])
        /\ \A j, k \in 1 .. Len(c) : Key(inst[j]) = Key(inst[k]) => j = k
    BY <1>1, <1>3, <1>4
  <2>2. IsSeq(c)
    BY <1>1
  <2>3. QED
    BY <2>1, <2>2, MergedPieces
<1>6. ASSUME NEW act, NEW i
      PROVE  Carries(Merged(c), act, i) <=>
              \E k \in 1 .. Len(fs) : fs[k].kind = "cap" /\ act = fs[k].cap.act /\ i = Declared(fs[k])
  <2>1. ASSUME NEW p \in 1 .. Len(c), act = c[p].act, i = inst[p]
        PROVE  \E k \in 1 .. Len(fs) : fs[k].kind = "cap" /\ act = fs[k].cap.act /\ i = Declared(fs[k])
    <3>1. PICK k \in 1 .. Len(fs) : s[p] = fs[k]
      BY <1>1
    <3>2. QED
      BY <1>1, <1>2, <2>1, <3>1
  <2>2. ASSUME NEW k \in 1 .. Len(fs), fs[k].kind = "cap", act = fs[k].cap.act, i = Declared(fs[k])
        PROVE  \E p \in 1 .. Len(c) : act = c[p].act /\ i = inst[p]
    <3>1. PICK p \in 1 .. Len(s) : s[p] = fs[k]
      BY <1>1, <2>2
    <3>2. QED
      BY <1>1, <1>2, <2>2, <3>1
  <2>3. QED
    BY <1>5, <2>1, <2>2
<1>7. QED
  BY <1>5, <1>6 DEF c

LEMMA PropsOfOK ==
  ASSUME NEW fs, FeaturesOK(fs)
  PROVE  /\ PropsOK(PropsOf(fs))
         /\ \A k \in 1 .. Len(fs) : fs[k].kind = "prop" =>
              \E p \in 1 .. Len(PropsOf(fs)) : fs[k].inst = capInstance(PropsOf(fs)[p])
<1> DEFINE s == Only(fs, {k \in DOMAIN fs : fs[k].kind = "prop"})
           c == PropsOf(fs)
<1>1. /\ IsSeq(s) /\ IsSeq(c) /\ Len(c) = Len(s)
      /\ \A p \in 1 .. Len(s) : /\ c[p] = s[p].cap /\ FeatureOK(s[p]) /\ s[p].kind = "prop"
                                /\ \E k \in 1 .. Len(fs) : s[p] = fs[k]
      /\ \A p, q \in 1 .. Len(s) : SameSlot(s[p], s[q]) => p = q
      /\ \A k \in 1 .. Len(fs) : fs[k].kind = "prop" => \E p \in 1 .. Len(s) : s[p] = fs[k]
  BY KindPositions DEF PropsOf
<1> HIDE DEF s, c
<1>2. ASSUME NEW p \in 1 .. Len(c) PROVE PropCap(c[p]) /\ capInstance(c[p]) = s[p].inst
  BY <1>1, SensorKind DEF Sensor
<1>3. ASSUME NEW p \in 1 .. Len(c), NEW q \in 1 .. Len(c), capInstance(c[p]) = capInstance(c[q])
      PROVE  p = q
  <2>1. SameSlot(s[p], s[q])
    BY <1>1, <1>2, <1>3 DEF SameSlot
  <2>2. QED
    BY <1>1, <2>1
<1>4. PropsOK(c)
  BY <1>1, <1>2, <1>3 DEF PropsOK
<1>5. ASSUME NEW k \in 1 .. Len(fs), fs[k].kind = "prop"
      PROVE  \E p \in 1 .. Len(c) : fs[k].inst = capInstance(c[p])
  <2>1. PICK p \in 1 .. Len(s) : s[p] = fs[k]
    BY <1>1, <1>5
  <2>2. QED
    BY <1>1, <1>2, <2>1
<1>6. QED
  BY <1>4, <1>5 DEF c

LEMMA AssembleParts ==
  ASSUME NEW fs, IsSeq(fs), NEW type
  PROVE  LET d == assemble(type, fs)
         IN /\ d = [type |-> d.type, caps |-> d.caps, props |-> d.props, bind |-> d.bind,
                    maps |-> d.maps, equipment |-> d.equipment]
            /\ d.caps = Merged(CapsOf(fs)) /\ d.props = PropsOf(fs) /\ d.equipment = Nothing
            /\ \A b : b \in d.bind <=>
                 \E k \in 1 .. Len(fs) : b = [kind |-> fs[k].kind, inst |-> fs[k].inst, item |-> fs[k].item]
            /\ \A m : m \in d.maps <=>
                 \E k \in 1 .. Len(fs) : /\ fs[k].pairs # <<>>
                                         /\ m = [act |-> fs[k].cap.act, inst |-> fs[k].inst,
                                                 pairs |-> fs[k].pairs]
<1> DEFINE d == assemble(type, fs)
           bind == {[kind |-> f.kind, inst |-> f.inst, item |-> f.item] : f \in ToSet(fs)}
           maps == {[act |-> f.cap.act, inst |-> f.inst, pairs |-> f.pairs] :
                          f \in {x \in ToSet(fs) : x.pairs # <<>>}}
<1>1. d = [type |-> type, caps |-> Merged(CapsOf(fs)), props |-> PropsOf(fs), bind |-> bind,
           maps |-> maps, equipment |-> Nothing]
  BY DEF assemble, CapsOf, PropsOf
<1>2. \A x : x \in ToSet(fs) <=> \E k \in 1 .. Len(fs) : x = fs[k]
  BY Members
<1>3. \A b : b \in bind <=>
        \E k \in 1 .. Len(fs) : b = [kind |-> fs[k].kind, inst |-> fs[k].inst, item |-> fs[k].item]
  BY <1>2
<1>4. \A m : m \in maps <=>
        \E k \in 1 .. Len(fs) : /\ fs[k].pairs # <<>>
                                /\ m = [act |-> fs[k].cap.act, inst |-> fs[k].inst, pairs |-> fs[k].pairs]
  BY <1>2
<1> HIDE DEF d, bind, maps
<1>5. QED
  BY <1>1, <1>3, <1>4 DEF d

\* Each with an item.
Named(fs) == \A k \in 1 .. Len(fs) : fs[k].item # Nothing

\* A draft can be a device of the catalog.
LEMMA AssembleOK ==
  ASSUME NEW fs, FeaturesOK(fs), Named(fs), NEW type
  PROVE  /\ DeviceOK(assemble(type, fs))
         /\ assemble(type, fs).equipment = Nothing
         /\ \A x : x \in Items(assemble(type, fs)) <=> \E k \in 1 .. Len(fs) : x = fs[k].item
<1> DEFINE d == assemble(type, fs)
<1>1. /\ IsSeq(fs) /\ \A k \in 1 .. Len(fs) : FeatureOK(fs[k])
      /\ \A j, k \in 1 .. Len(fs) : SameSlot(fs[j], fs[k]) => j = k
  BY DEF FeaturesOK, SlotsApart
<1>2. /\ d = [type |-> d.type, caps |-> d.caps, props |-> d.props, bind |-> d.bind,
              maps |-> d.maps, equipment |-> d.equipment]
      /\ d.caps = Merged(CapsOf(fs)) /\ d.props = PropsOf(fs) /\ d.equipment = Nothing
      /\ \A b : b \in d.bind <=>
           \E k \in 1 .. Len(fs) : b = [kind |-> fs[k].kind, inst |-> fs[k].inst, item |-> fs[k].item]
      /\ \A m : m \in d.maps <=>
           \E k \in 1 .. Len(fs) : /\ fs[k].pairs # <<>>
                                   /\ m = [act |-> fs[k].cap.act, inst |-> fs[k].inst,
                                           pairs |-> fs[k].pairs]
  BY <1>1, AssembleParts
<1> HIDE DEF d
<1>3. CapsOK(d.caps) /\ PropsOK(d.props)
  BY <1>2, CapsOfOK, PropsOfOK
<1>4. ASSUME NEW k \in 1 .. Len(fs), fs[k].kind = "cap"
      PROVE  Carries(d.caps, fs[k].cap.act, Declared(fs[k]))
  BY <1>2, <1>4, CapsOfOK
<1>5. ASSUME NEW b \in d.bind
      PROVE  \E k \in 1 .. Len(fs) : /\ b = [kind |-> fs[k].kind, inst |-> fs[k].inst, item |-> fs[k].item]
                                     /\ b.kind = fs[k].kind /\ b.inst = fs[k].inst /\ b.item = fs[k].item
  BY <1>2
<1>6. BindOK(d.bind)
  <2>1. ASSUME NEW b \in d.bind
        PROVE  b = [kind |-> b.kind, inst |-> b.inst, item |-> b.item] /\ b.item # Nothing
    BY <1>5 DEF Named
  <2>2. ASSUME NEW a \in d.bind, NEW b \in d.bind, a.kind = b.kind, a.inst = b.inst
        PROVE  a = b
    <3>1. PICK j \in 1 .. Len(fs) : /\ a = [kind |-> fs[j].kind, inst |-> fs[j].inst, item |-> fs[j].item]
                                    /\ a.kind = fs[j].kind /\ a.inst = fs[j].inst
      BY <1>5
    <3>2. PICK k \in 1 .. Len(fs) : /\ b = [kind |-> fs[k].kind, inst |-> fs[k].inst, item |-> fs[k].item]
                                    /\ b.kind = fs[k].kind /\ b.inst = fs[k].inst
      BY <1>5
    <3>3. SameSlot(fs[j], fs[k])
      BY <2>2, <3>1, <3>2 DEF SameSlot
    <3>4. j = k
      BY <1>1, <3>3
    <3>5. QED
      BY <3>1, <3>2, <3>4
  <2>3. QED
    BY <2>1, <2>2 DEF BindOK
<1>7. ASSUME NEW b \in d.bind PROVE Belongs(d, b)
  <2>1. PICK k \in 1 .. Len(fs) : b.kind = fs[k].kind /\ b.inst = fs[k].inst
    BY <1>5
  <2>2. FeatureOK(fs[k])
    BY <1>1
  <2>3. CASE fs[k].kind = "cap"
    <3>1. Carries(d.caps, fs[k].cap.act, Declared(fs[k]))
      BY <1>4, <2>3
    <3>2. fs[k].inst = "mode" \/ Declared(fs[k]) = fs[k].inst
      BY <2>2, <2>3, DeclaredFacts
    <3>3. QED
      BY <2>1, <2>3, <3>1, <3>2 DEF Belongs, Carries
  <2>4. CASE fs[k].kind = "prop"
    <3>1. \E p \in 1 .. Len(d.props) : fs[k].inst = capInstance(d.props[p])
      BY <1>2, <2>4, PropsOfOK
    <3>2. QED
      BY <2>1, <2>4, <3>1 DEF Belongs
  <2>5. QED
    BY <2>2, <2>3, <2>4, SensorKind
<1>8. ASSUME NEW m \in d.maps
      PROVE  \E k \in 1 .. Len(fs) :
               /\ fs[k].kind = "cap" /\ Declared(fs[k]) = fs[k].inst /\ m.pairs # <<>>
               /\ m = [act |-> fs[k].cap.act, inst |-> fs[k].inst, pairs |-> fs[k].pairs]
               /\ m.act = fs[k].cap.act /\ m.inst = fs[k].inst
  <2>1. PICK k \in 1 .. Len(fs) : /\ fs[k].pairs # <<>>
                                  /\ m = [act |-> fs[k].cap.act, inst |-> fs[k].inst, pairs |-> fs[k].pairs]
    BY <1>2
  <2>2. FeatureOK(fs[k])
    BY <1>1
  <2>3. fs[k].kind = "cap"
    BY <2>1, <2>2, SensorKind DEF Sensor
  <2>4. QED
    BY <2>1, <2>2, <2>3, DeclaredFacts
<1>9. MapsOK(d.maps)
  <2>1. ASSUME NEW m \in d.maps
        PROVE  m = [act |-> m.act, inst |-> m.inst, pairs |-> m.pairs] /\ m.pairs # <<>>
    BY <1>8
  <2>2. ASSUME NEW l \in d.maps, NEW m \in d.maps, l.act = m.act, l.inst = m.inst
        PROVE  l = m
    <3>1. PICK j \in 1 .. Len(fs) :
             /\ fs[j].kind = "cap" /\ l.inst = fs[j].inst
             /\ l = [act |-> fs[j].cap.act, inst |-> fs[j].inst, pairs |-> fs[j].pairs]
      BY <1>8
    <3>2. PICK k \in 1 .. Len(fs) :
             /\ fs[k].kind = "cap" /\ m.inst = fs[k].inst
             /\ m = [act |-> fs[k].cap.act, inst |-> fs[k].inst, pairs |-> fs[k].pairs]
      BY <1>8
    <3>3. SameSlot(fs[j], fs[k])
      BY <2>2, <3>1, <3>2 DEF SameSlot
    <3>4. j = k
      BY <1>1, <3>3
    <3>5. QED
      BY <3>1, <3>2, <3>4
  <2>3. QED
    BY <2>1, <2>2 DEF MapsOK
<1>10. ASSUME NEW m \in d.maps PROVE Carries(d.caps, m.act, m.inst)
  <2>1. PICK k \in 1 .. Len(fs) : /\ fs[k].kind = "cap" /\ Declared(fs[k]) = fs[k].inst
                                  /\ m.act = fs[k].cap.act /\ m.inst = fs[k].inst
    BY <1>8
  <2>2. QED
    BY <1>4, <2>1
<1>11. DeviceOK(d)
  BY <1>2, <1>3, <1>6, <1>7, <1>9, <1>10 DEF DeviceOK
<1>12. \A x : x \in Items(d) <=> \E k \in 1 .. Len(fs) : x = fs[k].item
  <2>1. \A x : x \in Items(d) <=> \E b \in d.bind : x = b.item
    BY DEF Items
  <2>2. ASSUME NEW k \in 1 .. Len(fs) PROVE \E b \in d.bind : fs[k].item = b.item
    <3> DEFINE b == [kind |-> fs[k].kind, inst |-> fs[k].inst, item |-> fs[k].item]
    <3>1. b.item = fs[k].item
      OBVIOUS
    <3> HIDE DEF b
    <3>2. b \in d.bind
      BY <1>2 DEF b
    <3>3. QED
      BY <3>1, <3>2
  <2>3. QED
    BY <1>5, <2>1, <2>2
<1>13. QED
  BY <1>2, <1>11, <1>12 DEF d



\* What is merged and no colour was in the list.
Unchanged(caps, list, n) ==
    /\ IsSeq(caps)
    /\ \A k \in 1 .. Len(caps) : /\ IsCap(caps[k])
                                 /\ Colour(caps[k]) \/ \E i \in 1 .. n : caps[k] = list[i]

LEMMA AddUnchanged ==
  ASSUME NEW caps, NEW list, NEW n \in Nat, Unchanged(caps, list, n), IsCap(list[n + 1])
  PROVE  Unchanged(AddCapability(caps, list[n + 1]), list, n + 1)
<1> DEFINE c == list[n + 1]
           colours == {k \in DOMAIN caps : caps[k].act = "color_setting"}
           x == CHOOSE k \in colours : TRUE
           t == AddCapability(caps, c)
<1>1. /\ IsSeq(caps)
      /\ \A k \in 1 .. Len(caps) : IsCap(caps[k])
      /\ \A k \in 1 .. Len(caps) : Colour(caps[k]) \/ \E i \in 1 .. n : caps[k] = list[i]
  BY DEF Unchanged
<1>2. Len(caps) \in Nat /\ DOMAIN caps = 1 .. Len(caps) /\ caps = [k \in 1 .. Len(caps) |-> caps[k]]
  BY <1>1, SeqFacts
<1>3. n + 1 \in 1 .. n + 1 /\ \A i \in 1 .. n : i \in 1 .. n + 1
  OBVIOUS
<1>4. CASE c.act = "color_setting" /\ colours # {}
  <2> DEFINE y == caps[x]
             v == Over(c.params, y.params)
             z == [y EXCEPT !.params = v]
  <2>1. x \in 1 .. Len(caps) /\ caps[x].act = "color_setting"
    BY <1>2, <1>4
  <2>2. t = [caps EXCEPT ![x] = z]
    BY <1>4 DEF AddCapability
  <2> HIDE DEF x, t
  <2>3. y.act = "color_setting" /\ y = [act |-> y.act, params |-> y.params, invert |-> y.invert]
        /\ y.invert \in BOOLEAN
    BY <1>1, <2>1 DEF IsCap
  <2> HIDE DEF y, v
  <2>4. /\ z = [act |-> y.act, params |-> v, invert |-> y.invert]
        /\ z.act = y.act /\ z.params = v /\ z.invert = y.invert
    BY <2>3
  <2> HIDE DEF z
  <2>5. IsCap(z) /\ Colour(z)
    <3>1. z = [act |-> z.act, params |-> z.params, invert |-> z.invert] /\ z.act = "color_setting"
      BY <2>3, <2>4
    <3>2. z.invert \in BOOLEAN
      BY <2>3, <2>4
    <3>3. QED
      BY <3>1, <3>2 DEF IsCap, Colour
  <2>6. /\ t = [k \in 1 .. Len(caps) |-> t[k]]
        /\ \A k \in 1 .. Len(caps) : t[k] = z \/ t[k] = caps[k]
    BY <1>2, <2>2
  <2>7. IsSeq(t) /\ Len(t) = Len(caps)
    BY <1>2, <2>6, MapIsSeq
  <2>8. ASSUME NEW k \in 1 .. Len(t)
        PROVE  IsCap(t[k]) /\ (Colour(t[k]) \/ \E i \in 1 .. n + 1 : t[k] = list[i])
    BY <1>1, <1>3, <2>5, <2>6, <2>7
  <2>9. QED
    BY <2>7, <2>8 DEF Unchanged, t
<1>5. CASE ~ (c.act = "color_setting" /\ colours # {})
  <2>1. t = Append(caps, c)
    BY <1>5 DEF AddCapability
  <2> HIDE DEF t
  <2>2. /\ IsSeq(t) /\ Len(t) = Len(caps) + 1
        /\ \A k \in 1 .. Len(caps) : t[k] = caps[k]
        /\ t[Len(caps) + 1] = c
    <3> HIDE DEF c
    <3>1. IsSeq(caps)
      BY <1>1
    <3>2. QED
      BY <2>1, <3>1, AppendFacts
  <2>3. ASSUME NEW k \in 1 .. Len(t)
        PROVE  IsCap(t[k]) /\ (Colour(t[k]) \/ \E i \in 1 .. n + 1 : t[k] = list[i])
    <3>1. k \in 1 .. Len(caps) \/ k = Len(caps) + 1
      BY <1>2, <2>2
    <3>2. QED
      BY <1>1, <1>3, <2>2, <3>1
  <2>4. QED
    BY <2>2, <2>3 DEF Unchanged, t
<1>6. QED
  BY <1>4, <1>5

LEMMA MergedUnchanged ==
  ASSUME NEW list, IsSeq(list), \A k \in 1 .. Len(list) : IsCap(list[k])
  PROVE  Unchanged(Merged(list), list, Len(list))
<1> DEFINE N == Len(list)
<1>1. N \in Nat
  BY SeqFacts
<1>2. PICK f : Merges(f, list, N) /\ Merged(list) = f[N]
  BY <1>1, MergedUnfold
<1> DEFINE Bad == {n \in Nat : n \in 0 .. N /\ ~ Unchanged(f[n], list, n)}
<1>3. SUFFICES ASSUME Bad # {} PROVE FALSE
  BY <1>1, <1>2
<1>4. PICK n \in Bad : \A m \in Bad : n <= m
  <2>1. Bad \in SUBSET Nat
    OBVIOUS
  <2> HIDE DEF Bad
  <2>2. QED
    BY <1>3, <2>1, LeastExists
<1>5. f[n] = IF n = 0 THEN <<>> ELSE AddCapability(f[n - 1], list[n])
  BY <1>2 DEF Merges
<1>6. CASE n = 0
  <2>1. Unchanged(<<>>, list, 0)
    BY EmptyIsSeq DEF Unchanged
  <2>2. QED
    BY <1>4, <1>5, <1>6, <2>1
<1>7. CASE n # 0
  <2> DEFINE m == n - 1
  <2>1. m \in Nat /\ m \in 0 .. N /\ m \notin Bad /\ n = m + 1 /\ n \in 1 .. N
    BY <1>4, <1>7
  <2>2. Unchanged(f[m], list, m)
    BY <2>1
  <2>3. f[n] = AddCapability(f[m], list[n]) /\ ~ Unchanged(f[n], list, n) /\ IsCap(list[n])
    BY <1>4, <1>5, <1>7, <2>1
  <2> HIDE DEF m, Bad
  <2>4. Unchanged(AddCapability(f[m], list[m + 1]), list, m + 1)
    BY <2>1, <2>2, <2>3, AddUnchanged
  <2>5. QED
    BY <2>1, <2>3, <2>4
<1>8. QED
  BY <1>6, <1>7

\* A capability of a draft that is no colour is that of one of its features.
LEMMA AssembledCaps ==
  ASSUME NEW fs, FeaturesOK(fs), NEW c \in ToSet(Merged(CapsOf(fs))), ~Colour(c)
  PROVE  \E k \in 1 .. Len(fs) : fs[k].kind = "cap" /\ c = fs[k].cap
<1> DEFINE s == Only(fs, {k \in DOMAIN fs : fs[k].kind = "cap"})
           l == CapsOf(fs)
<1>1. /\ IsSeq(s) /\ IsSeq(l) /\ Len(l) = Len(s)
      /\ \A p \in 1 .. Len(s) : /\ l[p] = s[p].cap /\ FeatureOK(s[p]) /\ s[p].kind = "cap"
                                /\ \E k \in 1 .. Len(fs) : s[p] = fs[k]
      /\ \A p, q \in 1 .. Len(s) : SameSlot(s[p], s[q]) => p = q
      /\ \A k \in 1 .. Len(fs) : fs[k].kind = "cap" => \E p \in 1 .. Len(s) : s[p] = fs[k]
  BY KindPositions DEF CapsOf
<1> HIDE DEF s, l
<1>2. ASSUME NEW p \in 1 .. Len(l) PROVE IsCap(l[p])
  <2>1. PICK f : f = s[p]
    OBVIOUS
  <2>2. FeatureOK(f) /\ f.kind = "cap" /\ l[p] = f.cap
    BY <1>1, <1>2, <2>1
  <2>3. QED
    BY <2>2, DeclaredFacts DEF Piece
<1>3. Unchanged(Merged(l), l, Len(l))
  BY <1>1, <1>2, MergedUnchanged
<1>4. PICK i \in 1 .. Len(Merged(l)) : c = Merged(l)[i]
  BY <1>3, Members DEF Unchanged, l
<1>5. PICK p \in 1 .. Len(l) : c = l[p]
  BY <1>3, <1>4 DEF Unchanged
<1>6. QED
  BY <1>1, <1>5


-----------------------------------------------------------------------------
(* Composites: who gets a slot.                                            *)

Claiming(f, claims, n) ==
    f = [k \in 0 .. n |-> IF k = 0 THEN <<>> ELSE ClaimSlot(f[k - 1], claims[k])]

LEMMA ClaimingExists ==
  ASSUME NEW claims, NEW N \in Nat
  PROVE  \E f : Claiming(f, claims, N)
<1> DEFINE Bad == {n \in Nat : ~ \E f : Claiming(f, claims, n)}
<1>1. SUFFICES ASSUME Bad # {} PROVE FALSE
  OBVIOUS
<1>2. PICK n \in Bad : \A m \in Bad : n <= m
  <2>1. Bad \in SUBSET Nat
    OBVIOUS
  <2> HIDE DEF Bad
  <2>2. QED
    BY <1>1, <2>1, LeastExists
<1>3. CASE n = 0
  <2>1. Claiming([k \in 0 .. 0 |-> <<>>], claims, 0)
    BY DEF Claiming
  <2>2. QED
    BY <1>3, <2>1
<1>4. CASE n # 0
  <2>1. n - 1 \in Nat /\ n - 1 \notin Bad
    BY <1>2, <1>4
  <2>2. PICK g : Claiming(g, claims, n - 1)
    BY <2>1
  <2> DEFINE h == [k \in 0 .. n |-> IF k = n THEN ClaimSlot(g[n - 1], claims[n]) ELSE g[k]]
  <2>3. ASSUME NEW k \in 0 .. n
        PROVE  h[k] = IF k = 0 THEN <<>> ELSE ClaimSlot(h[k - 1], claims[k])
    BY <2>1, <2>2, <1>4 DEF Claiming
  <2>4. Claiming(h, claims, n)
    BY <2>3 DEF Claiming
  <2>5. QED
    BY <2>4
<1>5. QED
  BY <1>3, <1>4

LEMMA SlotsUnfold ==
  ASSUME NEW claims, Len(claims) \in Nat
  PROVE  \E f : Claiming(f, claims, Len(claims)) /\ Slots(claims) = f[Len(claims)]
<1> DEFINE f == CHOOSE f : f = [k \in 0 .. Len(claims) |->
                               IF k = 0 THEN <<>> ELSE ClaimSlot(f[k - 1], claims[k])]
<1>1. \E g : g = [k \in 0 .. Len(claims) |-> IF k = 0 THEN <<>> ELSE ClaimSlot(g[k - 1], claims[k])]
  BY ClaimingExists DEF Claiming
<1>2. f = [k \in 0 .. Len(claims) |-> IF k = 0 THEN <<>> ELSE ClaimSlot(f[k - 1], claims[k])]
  BY <1>1
<1>3. Slots(claims) = f[Len(claims)]
  BY DEF Slots
<1>4. QED
  BY <1>2, <1>3 DEF Claiming

\* Claims p and q are for the same slot.
Rivals(a, b) == SameSlot(a.f, b.f)

LEMMA RivalFacts ==
  /\ \A a : Rivals(a, a)
  /\ \A a, b : Rivals(a, b) => Rivals(b, a)
  /\ \A a, b, c : Rivals(a, b) /\ Rivals(b, c) => Rivals(a, c)
BY DEF Rivals, SameSlot

\* Claim p is better than claim q: specific when q is not, or as good and first.
Better(claims, p, q) ==
    /\ claims[q].specific => claims[p].specific
    /\ (claims[p].specific => claims[q].specific) => p < q

BestOf(claims, n, p) ==
    \A q \in 1 .. n : q # p /\ Rivals(claims[q], claims[p]) => Better(claims, p, q)

SlotsOf(S, claims, n) ==
    /\ IsSeq(S)
    /\ \A k \in 1 .. Len(S) : \E p \in 1 .. n : S[k] = claims[p] /\ BestOf(claims, n, p)
    /\ \A j, k \in 1 .. Len(S) : Rivals(S[j], S[k]) => j = k
    /\ \A p \in 1 .. n : \E k \in 1 .. Len(S) : Rivals(S[k], claims[p])

LEMMA NewSlot ==
  ASSUME NEW S, NEW claims, NEW n \in Nat, SlotsOf(S, claims, n),
         \A k \in 1 .. Len(S) : ~ Rivals(S[k], claims[n + 1])
  PROVE  SlotsOf(Append(S, claims[n + 1]), claims, n + 1)
<1> DEFINE c == claims[n + 1]
           T == Append(S, c)
           L == Len(S)
<1>1. /\ IsSeq(S)
      /\ \A k \in 1 .. L : \E p \in 1 .. n : S[k] = claims[p] /\ BestOf(claims, n, p)
      /\ \A j, k \in 1 .. L : Rivals(S[j], S[k]) => j = k
      /\ \A p \in 1 .. n : \E k \in 1 .. L : Rivals(S[k], claims[p])
      /\ \A k \in 1 .. L : ~ Rivals(S[k], c)
  BY DEF SlotsOf
<1>2. L \in Nat /\ c = claims[n + 1]
  BY <1>1, SeqFacts
<1> HIDE DEF c
<1>3. IsSeq(T) /\ Len(T) = L + 1 /\ (\A k \in 1 .. L : T[k] = S[k]) /\ T[L + 1] = c
  <2>1. IsSeq(S)
    BY <1>1
  <2>2. QED
    BY <2>1, AppendFacts
<1> HIDE DEF T, L
<1>4. \A p \in 1 .. n : ~ Rivals(claims[p], c) /\ ~ Rivals(c, claims[p])
  BY <1>1, RivalFacts
<1>5. \A q : q \in 1 .. n + 1 <=> q \in 1 .. n \/ q = n + 1
  OBVIOUS
<1>6. \A k : k \in 1 .. Len(T) <=> k \in 1 .. L \/ k = L + 1
  BY <1>2, <1>3
<1>7. BestOf(claims, n + 1, n + 1)
  BY <1>2, <1>4, <1>5 DEF BestOf
<1>8. ASSUME NEW p \in 1 .. n, BestOf(claims, n, p) PROVE BestOf(claims, n + 1, p)
  BY <1>2, <1>4, <1>5, <1>8 DEF BestOf
<1>9. ASSUME NEW k \in 1 .. Len(T)
      PROVE  \E p \in 1 .. n + 1 : T[k] = claims[p] /\ BestOf(claims, n + 1, p)
  <2>1. CASE k \in 1 .. L
    <3>1. PICK p \in 1 .. n : S[k] = claims[p] /\ BestOf(claims, n, p)
      BY <1>1, <2>1
    <3>2. QED
      BY <1>3, <1>5, <1>8, <2>1, <3>1
  <2>2. CASE k = L + 1
    BY <1>2, <1>3, <1>5, <1>7, <2>2
  <2>3. QED
    BY <1>6, <2>1, <2>2
<1>10. ASSUME NEW j \in 1 .. Len(T), NEW k \in 1 .. Len(T), Rivals(T[j], T[k])
       PROVE  j = k
  <2>1. j \in 1 .. L /\ k \in 1 .. L => j = k
    BY <1>1, <1>3, <1>10
  <2>2. j \in 1 .. L => ~ (k = L + 1)
    BY <1>1, <1>3, <1>10
  <2>3. k \in 1 .. L => ~ (j = L + 1)
    BY <1>1, <1>3, <1>10, RivalFacts
  <2>4. QED
    BY <1>6, <2>1, <2>2, <2>3
<1>11. ASSUME NEW p \in 1 .. n + 1
       PROVE  \E k \in 1 .. Len(T) : Rivals(T[k], claims[p])
  <2>1. CASE p \in 1 .. n
    <3>1. PICK k \in 1 .. L : Rivals(S[k], claims[p])
      BY <1>1, <2>1
    <3>2. QED
      BY <1>3, <1>6, <3>1
  <2>2. CASE p = n + 1
    BY <1>2, <1>3, <1>6, <2>2, RivalFacts
  <2>3. QED
    BY <1>5, <2>1, <2>2
<1>12. QED
  BY <1>3, <1>9, <1>10, <1>11 DEF SlotsOf, T, c

LEMMA TakenSlot ==
  ASSUME NEW S, NEW claims, NEW n \in Nat, SlotsOf(S, claims, n),
         NEW x \in 1 .. Len(S), Rivals(S[x], claims[n + 1]),
         claims[n + 1].specific, ~ S[x].specific,
         NEW T, T = [S EXCEPT ![x] = claims[n + 1]]
  PROVE  SlotsOf(T, claims, n + 1)
<1> DEFINE c == claims[n + 1]
           L == Len(S)
<1>1. /\ IsSeq(S)
      /\ \A k \in 1 .. L : \E p \in 1 .. n : S[k] = claims[p] /\ BestOf(claims, n, p)
      /\ \A j, k \in 1 .. L : Rivals(S[j], S[k]) => j = k
      /\ \A p \in 1 .. n : \E k \in 1 .. L : Rivals(S[k], claims[p])
  BY DEF SlotsOf
<1>2. L \in Nat /\ c = claims[n + 1] /\ c.specific /\ Rivals(S[x], c) /\ x \in 1 .. L
  BY <1>1, SeqFacts
<1>3. S = [k \in 1 .. L |-> S[k]]
  BY <1>1, SeqFacts
<1> HIDE DEF c, L
<1>4. T = [k \in 1 .. L |-> T[k]] /\ T[x] = c /\ \A k \in 1 .. L : k # x => T[k] = S[k]
  BY <1>2, <1>3
<1>5. IsSeq(T) /\ Len(T) = L
  BY <1>2, <1>4, MapIsSeq
<1>6. \A q : q \in 1 .. n + 1 <=> q \in 1 .. n \/ q = n + 1
  OBVIOUS
<1>7. BestOf(claims, n + 1, n + 1)
  <2>1. PICK p \in 1 .. n : S[x] = claims[p] /\ BestOf(claims, n, p)
    BY <1>1, <1>2
  <2>2. ASSUME NEW q \in 1 .. n, Rivals(claims[q], c) PROVE ~ claims[q].specific
    <3>1. q = p => ~ claims[q].specific
      BY <2>1
    <3>2. Rivals(claims[q], claims[p])
      BY <1>2, <2>1, <2>2, RivalFacts
    <3>3. q # p => Better(claims, p, q)
      BY <2>1, <3>2 DEF BestOf
    <3>4. QED
      BY <2>1, <3>1, <3>3 DEF Better
  <2>3. \A q \in 1 .. n : Rivals(claims[q], c) => Better(claims, n + 1, q)
    BY <1>2, <2>2 DEF Better
  <2>4. QED
    BY <1>2, <1>6, <2>3 DEF BestOf
<1>8. ASSUME NEW k \in 1 .. L, k # x
      PROVE  \E p \in 1 .. n + 1 : T[k] = claims[p] /\ BestOf(claims, n + 1, p)
  <2>1. PICK p \in 1 .. n : S[k] = claims[p] /\ BestOf(claims, n, p)
    BY <1>1
  <2>2. ~ Rivals(c, claims[p])
    BY <1>1, <1>2, <1>8, <2>1, RivalFacts
  <2>3. BestOf(claims, n + 1, p)
    BY <1>2, <1>6, <2>1, <2>2 DEF BestOf
  <2>4. QED
    BY <1>4, <1>6, <1>8, <2>1, <2>3
<1>9. \A k \in 1 .. L : \E p \in 1 .. n + 1 : T[k] = claims[p] /\ BestOf(claims, n + 1, p)
  <2>1. \E p \in 1 .. n + 1 : T[x] = claims[p] /\ BestOf(claims, n + 1, p)
    BY <1>2, <1>4, <1>6, <1>7
  <2>2. QED
    BY <1>8, <2>1
<1>10. \A k \in 1 .. L : Rivals(T[k], S[k])
  BY <1>2, <1>4, RivalFacts
<1>11. ASSUME NEW j \in 1 .. L, NEW k \in 1 .. L, Rivals(T[j], T[k])
       PROVE  j = k
  <2>1. Rivals(S[j], S[k])
    BY <1>10, <1>11, RivalFacts
  <2>2. QED
    BY <1>1, <2>1
<1>12. ASSUME NEW p \in 1 .. n + 1
       PROVE  \E k \in 1 .. L : Rivals(T[k], claims[p])
  <2>1. CASE p \in 1 .. n
    <3>1. PICK k \in 1 .. L : Rivals(S[k], claims[p])
      BY <1>1, <2>1
    <3>2. QED
      BY <1>10, <3>1, RivalFacts
  <2>2. CASE p = n + 1
    BY <1>2, <1>4, <2>2, RivalFacts
  <2>3. QED
    BY <1>6, <2>1, <2>2
<1>13. QED
  BY <1>5, <1>9, <1>11, <1>12 DEF SlotsOf

LEMMA KeptSlot ==
  ASSUME NEW S, NEW claims, NEW n \in Nat, SlotsOf(S, claims, n),
         NEW x \in 1 .. Len(S), Rivals(S[x], claims[n + 1]),
         claims[n + 1].specific => S[x].specific
  PROVE  SlotsOf(S, claims, n + 1)
<1> DEFINE c == claims[n + 1]
           L == Len(S)
<1>1. /\ IsSeq(S)
      /\ \A k \in 1 .. L : \E p \in 1 .. n : S[k] = claims[p] /\ BestOf(claims, n, p)
      /\ \A j, k \in 1 .. L : Rivals(S[j], S[k]) => j = k
      /\ \A p \in 1 .. n : \E k \in 1 .. L : Rivals(S[k], claims[p])
  BY DEF SlotsOf
<1>2. L \in Nat /\ c = claims[n + 1] /\ (c.specific => S[x].specific) /\ Rivals(S[x], c) /\ x \in 1 .. L
  BY <1>1, SeqFacts
<1> HIDE DEF c, L
<1>6. \A q : q \in 1 .. n + 1 <=> q \in 1 .. n \/ q = n + 1
  OBVIOUS
<1>7. ASSUME NEW k \in 1 .. L
      PROVE  \E p \in 1 .. n + 1 : S[k] = claims[p] /\ BestOf(claims, n + 1, p)
  <2>1. PICK p \in 1 .. n : S[k] = claims[p] /\ BestOf(claims, n, p)
    BY <1>1
  <2>2. Rivals(c, claims[p]) => k = x
    BY <1>1, <1>2, <2>1, RivalFacts
  <2>3. Rivals(c, claims[p]) => Better(claims, p, n + 1)
    <3>1. p < n + 1
      OBVIOUS
    <3>2. QED
      BY <1>2, <2>1, <2>2, <3>1 DEF Better
  <2>4. BestOf(claims, n + 1, p)
    BY <1>2, <1>6, <2>1, <2>3 DEF BestOf
  <2>5. QED
    BY <1>6, <2>1, <2>4
<1>8. ASSUME NEW p \in 1 .. n + 1
       PROVE  \E k \in 1 .. L : Rivals(S[k], claims[p])
  BY <1>1, <1>2, <1>6
<1>9. QED
  BY <1>1, <1>7, <1>8 DEF SlotsOf, L

LEMMA ClaimSlotOK ==
  ASSUME NEW S, NEW claims, NEW n \in Nat, SlotsOf(S, claims, n)
  PROVE  SlotsOf(ClaimSlot(S, claims[n + 1]), claims, n + 1)
<1> DEFINE c == claims[n + 1]
           same == {k \in DOMAIN S : SameSlot(S[k].f, c.f)}
           x == CHOOSE k \in same : TRUE
           T == [S EXCEPT ![x] = c]
<1>1. IsSeq(S)
  BY DEF SlotsOf
<1>2. DOMAIN S = 1 .. Len(S)
  BY <1>1, SeqFacts
<1>3. \A k : k \in same <=> k \in 1 .. Len(S) /\ Rivals(S[k], c)
  BY <1>2 DEF Rivals
<1>4. same # {} => x \in same
  OBVIOUS
<1>5. /\ same = {} => ClaimSlot(S, c) = Append(S, c)
      /\ same # {} /\ c.specific /\ ~ S[x].specific => ClaimSlot(S, c) = T
      /\ same # {} /\ ~ (c.specific /\ ~ S[x].specific) => ClaimSlot(S, c) = S
  BY DEF ClaimSlot
<1>6. CASE same = {}
  <2>1. \A k \in 1 .. Len(S) : ~ Rivals(S[k], claims[n + 1])
    BY <1>3, <1>6
  <2> HIDE DEF same, x, T
  <2>2. SlotsOf(Append(S, c), claims, n + 1)
    BY <2>1, NewSlot
  <2>3. QED
    BY <1>5, <1>6, <2>2
<1>7. CASE same # {} /\ c.specific /\ ~ S[x].specific
  <2>1. x \in 1 .. Len(S) /\ Rivals(S[x], claims[n + 1])
    BY <1>3, <1>4, <1>7
  <2>2. claims[n + 1].specific /\ ~ S[x].specific
    BY <1>7
  <2> HIDE DEF same, x
  <2>3. SlotsOf(T, claims, n + 1)
    BY <2>1, <2>2, TakenSlot
  <2>4. QED
    BY <1>5, <1>7, <2>3
<1>8. CASE same # {} /\ ~ (c.specific /\ ~ S[x].specific)
  <2>1. x \in 1 .. Len(S) /\ Rivals(S[x], claims[n + 1])
    BY <1>3, <1>4, <1>8
  <2>2. claims[n + 1].specific => S[x].specific
    BY <1>8
  <2> HIDE DEF same, x
  <2>3. SlotsOf(S, claims, n + 1)
    BY <2>1, <2>2, KeptSlot
  <2>4. QED
    BY <1>5, <1>8, <2>3
<1>9. QED
  BY <1>6, <1>7, <1>8

\* Each slot goes to its best claim.
LEMMA SlotsOK ==
  ASSUME NEW claims, IsSeq(claims)
  PROVE  SlotsOf(Slots(claims), claims, Len(claims))
<1> DEFINE N == Len(claims)
<1>1. N \in Nat
  BY SeqFacts
<1>2. PICK f : Claiming(f, claims, N) /\ Slots(claims) = f[N]
  BY <1>1, SlotsUnfold
<1> DEFINE Bad == {n \in Nat : n \in 0 .. N /\ ~ SlotsOf(f[n], claims, n)}
<1>3. SUFFICES ASSUME Bad # {} PROVE FALSE
  BY <1>1, <1>2
<1>4. PICK n \in Bad : \A m \in Bad : n <= m
  <2>1. Bad \in SUBSET Nat
    OBVIOUS
  <2> HIDE DEF Bad
  <2>2. QED
    BY <1>3, <2>1, LeastExists
<1>5. f[n] = IF n = 0 THEN <<>> ELSE ClaimSlot(f[n - 1], claims[n])
  BY <1>2 DEF Claiming
<1>6. CASE n = 0
  <2>1. SlotsOf(<<>>, claims, 0)
    BY EmptyIsSeq DEF SlotsOf
  <2>2. QED
    BY <1>4, <1>5, <1>6, <2>1
<1>7. CASE n # 0
  <2> DEFINE m == n - 1
  <2>1. m \in Nat /\ m \in 0 .. N /\ m \notin Bad /\ n = m + 1
    BY <1>4, <1>7
  <2>2. SlotsOf(f[m], claims, m)
    BY <2>1
  <2>3. f[n] = ClaimSlot(f[m], claims[n]) /\ ~ SlotsOf(f[n], claims, n)
    BY <1>4, <1>5, <1>7
  <2> HIDE DEF m, Bad
  <2>4. SlotsOf(ClaimSlot(f[m], claims[m + 1]), claims, m + 1)
    BY <2>1, <2>2, ClaimSlotOK
  <2>5. QED
    BY <2>1, <2>3, <2>4
<1>8. QED
  BY <1>6, <1>7



LEMMA OnlyFeatures ==
  ASSUME NEW fs, NEW name, FeaturesOK(fs), AllFrom(fs, name), NEW K
  PROVE  /\ FeaturesOK(Only(fs, K)) /\ AllFrom(Only(fs, K), name)
         /\ \A p \in 1 .. Len(Only(fs, K)) : \E k \in 1 .. Len(fs) : k \in K /\ Only(fs, K)[p] = fs[k]
<1> DEFINE s == Only(fs, K)
<1>1. /\ IsSeq(fs) /\ \A k \in 1 .. Len(fs) : FeatureOK(fs[k]) /\ fs[k].item = name
      /\ \A j, k \in 1 .. Len(fs) : SameSlot(fs[j], fs[k]) => j = k
  BY DEF FeaturesOK, SlotsApart, AllFrom
<1>2. Len(fs) \in Nat
  BY <1>1, SeqFacts
<1>3. IsSeq(s)
  BY <1>1, OnlyPositions
<1>4. PICK o \in [1 .. Len(s) -> 1 .. Len(fs)] :
        /\ \A p \in 1 .. Len(s) : o[p] \in K /\ s[p] = fs[o[p]]
        /\ \A p, q \in 1 .. Len(s) : p < q => o[p] < o[q]
  BY <1>1, OnlyPositions
<1> HIDE DEF s
<1>5. Len(s) \in Nat
  BY <1>3, SeqFacts
<1>6. ASSUME NEW p \in 1 .. Len(s)
      PROVE  \E k \in 1 .. Len(fs) : k = o[p] /\ k \in K /\ s[p] = fs[k]
  <2>1. PICK k \in 1 .. Len(fs) : k = o[p]
    BY <1>4
  <2>2. QED
    BY <1>4, <2>1
<1>7. ASSUME NEW p \in 1 .. Len(s) PROVE FeatureOK(s[p]) /\ s[p].item = name
  BY <1>1, <1>6
<1>8. ASSUME NEW p \in 1 .. Len(s), NEW q \in 1 .. Len(s), SameSlot(s[p], s[q])
      PROVE  p = q
  <2>1. PICK i \in 1 .. Len(fs), j \in 1 .. Len(fs) : i = o[p] /\ j = o[q] /\ s[p] = fs[i] /\ s[q] = fs[j]
    BY <1>6
  <2>2. i = j
    BY <1>1, <1>8, <2>1
  <2>3. (p < q => i < j) /\ (q < p => j < i)
    BY <1>4, <2>1
  <2>4. ~(i < j) /\ ~(j < i)
    BY <1>2, <2>2
  <2>5. p \in Nat /\ q \in Nat
    BY <1>5
  <2>6. QED
    BY <2>3, <2>4, <2>5
<1>9. FeaturesOK(s) /\ AllFrom(s, name)
  BY <1>3, <1>7, <1>8 DEF FeaturesOK, SlotsApart, AllFrom
<1>10. \A p \in 1 .. Len(s) : \E k \in 1 .. Len(fs) : k \in K /\ s[p] = fs[k]
  BY <1>6
<1>11. QED
  BY <1>9, <1>10 DEF s

LEMMA FeaturesInOK ==
  ASSUME NEW it, NEW type
  PROVE  /\ FeaturesOK(FeaturesIn(it, type)) /\ AllFrom(FeaturesIn(it, type), it.name)
         /\ hasYahome(it) => FeaturesIn(it, type) = yahomeFeatures(it).features
         /\ isThermostat(type) /\ ~hasYahome(it) =>
              \A p \in 1 .. Len(FeaturesIn(it, type)) : sensorsAndSetpoint(FeaturesIn(it, type)[p])
<1> DEFINE all == featuresForItem(it, type).features
           K == {k \in DOMAIN all : sensorsAndSetpoint(all[k])}
           r == FeaturesIn(it, type)
<1>1. FeaturesOK(all) /\ AllFrom(all, it.name)
  BY FeaturesForItemOK DEF FoundOK
<1>2. hasYahome(it) => all = yahomeFeatures(it).features
  BY DEF featuresForItem
<1>3. /\ isThermostat(type) /\ ~hasYahome(it) => r = Only(all, K)
      /\ ~ (isThermostat(type) /\ ~hasYahome(it)) => r = all
  BY DEF FeaturesIn, Exposed
<1>4. \A k : k \in K => sensorsAndSetpoint(all[k])
  OBVIOUS
<1> HIDE DEF all, K, r
<1>5. /\ FeaturesOK(Only(all, K)) /\ AllFrom(Only(all, K), it.name)
      /\ \A p \in 1 .. Len(Only(all, K)) : sensorsAndSetpoint(Only(all, K)[p])
  <2>1. \A p \in 1 .. Len(Only(all, K)) : \E k \in 1 .. Len(all) : k \in K /\ Only(all, K)[p] = all[k]
    BY <1>1, OnlyFeatures
  <2>2. FeaturesOK(Only(all, K)) /\ AllFrom(Only(all, K), it.name)
    BY <1>1, OnlyFeatures
  <2>3. QED
    BY <1>4, <2>1, <2>2
<1>6. FeaturesOK(r) /\ AllFrom(r, it.name)
  BY <1>1, <1>3, <1>5
<1>7. isThermostat(type) /\ ~hasYahome(it) => \A p \in 1 .. Len(r) : sensorsAndSetpoint(r[p])
  BY <1>3, <1>5
<1>8. hasYahome(it) => r = yahomeFeatures(it).features
  BY <1>2, <1>3
<1>9. QED
  BY <1>6, <1>7, <1>8 DEF r

\* Claim p is made by member o[p], with its feature j[p].
Claimants(c, members, type, o, j) ==
    /\ o \in [1 .. Len(c) -> 1 .. Len(members)]
    /\ \A p \in 1 .. Len(c) : /\ j[p] \in 1 .. Len(FeaturesIn(members[o[p]], type))
                              /\ c[p].f = FeaturesIn(members[o[p]], type)[j[p]]
                              /\ c[p].specific = Specific(members[o[p]])
    /\ \A p, q \in 1 .. Len(c) : p < q => o[p] <= o[q]
    /\ \A k \in 1 .. Len(members) : \A i \in 1 .. Len(FeaturesIn(members[k], type)) :
          \E p \in 1 .. Len(c) : o[p] = k /\ j[p] = i

LEMMA ClaimFacts ==
  ASSUME NEW fs, IsSeq(fs), NEW specific
  PROVE  /\ IsSeq(Claim(fs, specific)) /\ Len(Claim(fs, specific)) = Len(fs)
         /\ \A i \in 1 .. Len(fs) : /\ Claim(fs, specific)[i].f = fs[i]
                                    /\ Claim(fs, specific)[i].specific = specific
<1> DEFINE c == Claim(fs, specific)
<1>1. Len(fs) \in Nat /\ DOMAIN fs = 1 .. Len(fs)
  BY SeqFacts
<1>2. c = [i \in 1 .. Len(fs) |-> [f |-> fs[i], specific |-> specific]]
  BY <1>1 DEF Claim
<1>3. c = [i \in 1 .. Len(fs) |-> c[i]]
  BY <1>2
<1>4. \A i \in 1 .. Len(fs) : c[i].f = fs[i] /\ c[i].specific = specific
  BY <1>2
<1> HIDE DEF c
<1>5. IsSeq(c) /\ Len(c) = Len(fs)
  BY <1>1, <1>3, MapIsSeq
<1>6. QED
  BY <1>4, <1>5 DEF c

LEMMA ClaimsOrigins ==
  ASSUME NEW members, IsSeq(members), NEW type
  PROVE  /\ IsSeq(Claims(members, type))
         /\ \E o, j : Claimants(Claims(members, type), members, type, o, j)
<1> DEFINE M == Len(members)
           F(k) == FeaturesIn(members[k], type)
           R == [k \in DOMAIN members |-> Claim(F(k), Specific(members[k]))]
           c == Claims(members, type)
<1>1. M \in Nat /\ DOMAIN members = 1 .. M
  BY SeqFacts
<1>2. R = [k \in 1 .. M |-> R[k]] /\ \A k \in 1 .. M : R[k] = Claim(F(k), Specific(members[k]))
  BY <1>1
<1>3. c = FlattenSeq(R)
  BY DEF Claims
<1>4. \A k \in 1 .. M : IsSeq(F(k))
  BY FeaturesInOK DEF FeaturesOK
<1> HIDE DEF R, c, F, M
<1>5. IsSeq(R) /\ Len(R) = M
  BY <1>1, <1>2, MapIsSeq
<1>6. ASSUME NEW k \in 1 .. M
      PROVE  /\ IsSeq(R[k]) /\ Len(R[k]) = Len(F(k))
             /\ \A i \in 1 .. Len(F(k)) : R[k][i].f = F(k)[i] /\ R[k][i].specific = Specific(members[k])
  <2> DEFINE s == Specific(members[k])
             t == F(k)
  <2>1. R[k] = Claim(t, s) /\ IsSeq(t)
    BY <1>2, <1>4
  <2> HIDE DEF s, t
  <2>2. /\ IsSeq(R[k]) /\ Len(R[k]) = Len(t)
        /\ \A i \in 1 .. Len(t) : R[k][i].f = t[i] /\ R[k][i].specific = s
    BY <2>1, ClaimFacts
  <2>3. QED
    BY <2>2 DEF s, t
<1>7. IsSeq(c)
  BY <1>3, <1>5, <1>6, FlattenOrigins
<1>8. PICK o, j : Origins(c, R, M, o, j)
  BY <1>3, <1>5, <1>6, FlattenOrigins
<1>9. o \in [1 .. Len(c) -> 1 .. M]
  BY <1>8 DEF Origins
<1>10. ASSUME NEW p \in 1 .. Len(c)
       PROVE  /\ j[p] \in 1 .. Len(F(o[p]))
              /\ c[p].f = F(o[p])[j[p]]
              /\ c[p].specific = Specific(members[o[p]])
  <2>1. PICK k \in 1 .. M : k = o[p]
    BY <1>9
  <2>2. j[p] \in 1 .. Len(R[k]) /\ c[p] = R[k][j[p]]
    BY <1>8, <2>1 DEF Origins
  <2>3. QED
    BY <1>6, <2>1, <2>2
<1>11. ASSUME NEW p \in 1 .. Len(c), NEW q \in 1 .. Len(c), p < q PROVE o[p] <= o[q]
  <2>1. o[p] < o[q] \/ o[p] = o[q]
    BY <1>8, <1>11 DEF Origins
  <2>2. PICK k \in 1 .. M, l \in 1 .. M : k = o[p] /\ l = o[q]
    BY <1>9
  <2>3. QED
    BY <1>1, <2>1, <2>2
<1>12. ASSUME NEW k \in 1 .. M, NEW i \in 1 .. Len(F(k))
       PROVE  \E p \in 1 .. Len(c) : o[p] = k /\ j[p] = i
  BY <1>6, <1>8 DEF Origins
<1>13. Claimants(c, members, type, o, j)
  BY <1>9, <1>10, <1>11, <1>12 DEF Claimants, F, M
<1>14. QED
  BY <1>7, <1>13 DEF c



\* The members that can fill the slot of feature f.
Able(members, type, f) ==
    {k \in 1 .. Len(members) :
        \E i \in 1 .. Len(FeaturesIn(members[k], type)) : SameSlot(FeaturesIn(members[k], type)[i], f)}

LEMMA SpecificBool ==
  ASSUME NEW it
  PROVE  Specific(it) \in BOOLEAN
BY DEF Specific

LEMMA OneBest ==
  ASSUME NEW members, NEW able, able \subseteq Nat, NEW j, NEW k,
         BestFor(members, able, j), BestFor(members, able, k)
  PROVE  j = k
<1>1. SUFFICES ASSUME j # k PROVE FALSE
  OBVIOUS
<1>2. j \in able /\ k \in able /\ j \in Nat /\ k \in Nat
  BY DEF BestFor
<1>3. IF Specific(members[j]) = Specific(members[k]) THEN k < j ELSE Specific(members[k])
  BY <1>1, <1>2 DEF BestFor
<1>4. IF Specific(members[k]) = Specific(members[j]) THEN j < k ELSE Specific(members[j])
  BY <1>1, <1>2 DEF BestFor
<1>5. Specific(members[j]) \in BOOLEAN /\ Specific(members[k]) \in BOOLEAN
  BY SpecificBool
<1>6. CASE Specific(members[j]) = Specific(members[k])
  BY <1>2, <1>3, <1>4, <1>6
<1>7. CASE Specific(members[j]) # Specific(members[k])
  BY <1>3, <1>4, <1>5, <1>7
<1>8. QED
  BY <1>6, <1>7

LEMMA BestMember ==
  ASSUME NEW members, IsSeq(members), NEW type, NEW c, IsSeq(c),
         NEW o, NEW j, Claimants(c, members, type, o, j),
         NEW p \in 1 .. Len(c), BestOf(c, Len(c), p)
  PROVE  BestFor(members, Able(members, type, c[p].f), o[p])
<1> DEFINE F(k) == FeaturesIn(members[k], type)
           able == Able(members, type, c[p].f)
           w == o[p]
<1>1. /\ o \in [1 .. Len(c) -> 1 .. Len(members)]
      /\ \A q \in 1 .. Len(c) : /\ j[q] \in 1 .. Len(F(o[q]))
                                /\ c[q].f = F(o[q])[j[q]]
                                /\ c[q].specific = Specific(members[o[q]])
      /\ \A q, r \in 1 .. Len(c) : q < r => o[q] <= o[r]
      /\ \A k \in 1 .. Len(members) : \A i \in 1 .. Len(F(k)) :
            \E q \in 1 .. Len(c) : o[q] = k /\ j[q] = i
  BY DEF Claimants
<1>2. \A k : k \in able <=> k \in 1 .. Len(members) /\ \E i \in 1 .. Len(F(k)) : SameSlot(F(k)[i], c[p].f)
  BY DEF Able
<1>3. w \in 1 .. Len(members) /\ Len(members) \in Nat
  BY <1>1, SeqFacts
<1> HIDE DEF F, able
<1>4. w \in able
  <2>1. SameSlot(c[p].f, c[p].f)
    BY DEF SameSlot
  <2>2. j[p] \in 1 .. Len(F(w)) /\ SameSlot(F(w)[j[p]], c[p].f)
    BY <1>1, <2>1
  <2>3. QED
    BY <1>2, <1>3, <2>2
<1>5. ASSUME NEW k \in able \ {w}
      PROVE  IF Specific(members[k]) = Specific(members[w]) THEN w < k ELSE Specific(members[w])
  <2>1. PICK i \in 1 .. Len(F(k)) : SameSlot(F(k)[i], c[p].f)
    BY <1>2
  <2>2. k \in 1 .. Len(members)
    BY <1>2
  <2>3. PICK q \in 1 .. Len(c) : o[q] = k /\ j[q] = i
    BY <1>1, <2>2
  <2>4. c[q].f = F(k)[i] /\ c[q].specific = Specific(members[k])
    BY <1>1, <2>3
  <2>5. Rivals(c[q], c[p]) /\ q # p
    BY <2>1, <2>3, <2>4 DEF Rivals
  <2>6. Better(c, p, q)
    BY <2>5 DEF BestOf
  <2>7. c[p].specific = Specific(members[w])
    BY <1>1
  <2>8. /\ Specific(members[k]) => Specific(members[w])
        /\ (Specific(members[w]) => Specific(members[k])) => p < q
    BY <2>4, <2>6, <2>7 DEF Better
  <2>9. p < q => w < k
    <3>1. p < q => w <= k
      BY <1>1, <2>3
    <3>2. w # k
      OBVIOUS
    <3> HIDE DEF w
    <3>3. QED
      BY <1>3, <2>2, <3>1, <3>2
  <2>10. Specific(members[k]) \in BOOLEAN /\ Specific(members[w]) \in BOOLEAN
    BY SpecificBool
  <2>11. QED
    BY <2>8, <2>9, <2>10
<1>6. BestFor(members, able, w)
  BY <1>4, <1>5 DEF BestFor
<1>7. QED
  BY <1>6 DEF able

\* The features a composite of the members is made of.
Composed(members, type) == Claimed(Slots(Claims(members, type)))

Wins(members, type, f, w) ==
    /\ w \in 1 .. Len(members)
    /\ \E i \in 1 .. Len(FeaturesIn(members[w], type)) : f = FeaturesIn(members[w], type)[i]
    /\ BestFor(members, Able(members, type, f), w)

LEMMA ComposedOK ==
  ASSUME NEW members, IsSeq(members), NEW type
  PROVE  LET fs == Composed(members, type)
         IN /\ FeaturesOK(fs)
            /\ \A k \in 1 .. Len(fs) : \E w : Wins(members, type, fs[k], w) /\ fs[k].item = members[w].name
            /\ \A w \in 1 .. Len(members) : \A i \in 1 .. Len(FeaturesIn(members[w], type)) :
                 \E k \in 1 .. Len(fs) : SameSlot(fs[k], FeaturesIn(members[w], type)[i])
<1> DEFINE F(k) == FeaturesIn(members[k], type)
           c == Claims(members, type)
           S == Slots(c)
           fs == Composed(members, type)
<1>1. IsSeq(c)
  BY ClaimsOrigins
<1>2. PICK o, j : Claimants(c, members, type, o, j)
  BY ClaimsOrigins
<1>3. SlotsOf(S, c, Len(c))
  BY <1>1, SlotsOK
<1>4. fs = [k \in DOMAIN S |-> S[k].f]
  BY DEF Composed, Claimed
<1> HIDE DEF c, S, fs
<1>5. /\ IsSeq(S)
      /\ \A k \in 1 .. Len(S) : \E p \in 1 .. Len(c) : S[k] = c[p] /\ BestOf(c, Len(c), p)
      /\ \A i, k \in 1 .. Len(S) : Rivals(S[i], S[k]) => i = k
      /\ \A p \in 1 .. Len(c) : \E k \in 1 .. Len(S) : Rivals(S[k], c[p])
  BY <1>3 DEF SlotsOf
<1>6. Len(S) \in Nat /\ DOMAIN S = 1 .. Len(S)
  BY <1>5, SeqFacts
<1>7. fs = [k \in 1 .. Len(S) |-> fs[k]] /\ \A k \in 1 .. Len(S) : fs[k] = S[k].f
  BY <1>4, <1>6
<1>8. IsSeq(fs) /\ Len(fs) = Len(S)
  BY <1>6, <1>7, MapIsSeq
<1>9. /\ o \in [1 .. Len(c) -> 1 .. Len(members)]
      /\ \A q \in 1 .. Len(c) : j[q] \in 1 .. Len(F(o[q])) /\ c[q].f = F(o[q])[j[q]]
      /\ \A k \in 1 .. Len(members) : \A i \in 1 .. Len(F(k)) :
            \E q \in 1 .. Len(c) : o[q] = k /\ j[q] = i
  BY <1>2 DEF Claimants
<1>10. \A k \in 1 .. Len(members) : FeaturesOK(F(k)) /\ AllFrom(F(k), members[k].name)
  BY FeaturesInOK
<1> HIDE DEF F
<1>11. ASSUME NEW k \in 1 .. Len(fs)
       PROVE  /\ FeatureOK(fs[k])
              /\ \E w : Wins(members, type, fs[k], w) /\ fs[k].item = members[w].name
  <2>1. PICK p \in 1 .. Len(c) : S[k] = c[p] /\ BestOf(c, Len(c), p)
    BY <1>5, <1>8
  <2>2. fs[k] = c[p].f
    BY <1>7, <1>8, <2>1
  <2>3. BestFor(members, Able(members, type, c[p].f), o[p])
    BY <1>1, <1>2, <2>1, BestMember
  <2>4. PICK w \in 1 .. Len(members) : w = o[p]
    BY <1>9
  <2>5. j[p] \in 1 .. Len(F(w)) /\ fs[k] = F(w)[j[p]]
    BY <1>9, <2>2, <2>4
  <2>6. FeatureOK(fs[k]) /\ fs[k].item = members[w].name
    BY <1>10, <2>5 DEF FeaturesOK, AllFrom
  <2>7. Wins(members, type, fs[k], w)
    BY <2>2, <2>3, <2>4, <2>5 DEF Wins, F
  <2>8. QED
    BY <2>6, <2>7
<1>12. SlotsApart(fs)
  <2>1. ASSUME NEW i \in 1 .. Len(fs), NEW k \in 1 .. Len(fs), SameSlot(fs[i], fs[k])
        PROVE  i = k
    <3>1. Rivals(S[i], S[k])
      BY <1>7, <1>8, <2>1 DEF Rivals
    <3>2. QED
      BY <1>5, <1>8, <3>1
  <2>2. QED
    BY <2>1 DEF SlotsApart
<1>13. FeaturesOK(fs)
  BY <1>8, <1>11, <1>12 DEF FeaturesOK
<1>14. ASSUME NEW w \in 1 .. Len(members), NEW i \in 1 .. Len(F(w))
       PROVE  \E k \in 1 .. Len(fs) : SameSlot(fs[k], F(w)[i])
  <2>1. PICK q \in 1 .. Len(c) : o[q] = w /\ j[q] = i
    BY <1>9
  <2>2. c[q].f = F(w)[i]
    BY <1>9, <2>1
  <2>3. PICK k \in 1 .. Len(S) : Rivals(S[k], c[q])
    BY <1>5
  <2>4. QED
    BY <1>7, <1>8, <2>2, <2>3 DEF Rivals
<1>15. QED
  BY <1>11, <1>13, <1>14 DEF fs, F

\* The draft of a list of features.
LEMMA DraftParts ==
  ASSUME NEW it, NEW features, NEW type, NEW equipment
  PROVE  LET r == Draft(it, Found(features, type), equipment)
             x == [device |-> [assemble(type, features) EXCEPT !.equipment = equipment],
                   source |-> it.name, long |-> it.long]
         IN /\ features = <<>> => r = <<>>
            /\ features # <<>> => r = <<x>>
BY DEF Draft, Found



HouseOK(h) == /\ IsSeq(h)
              /\ \A i, j \in 1 .. Len(h) : h[i].name = h[j].name => i = j
              /\ Nothing \notin Names(h)

LEMMA HousesOK ==
  ASSUME NEW h \in Houses
  PROVE  HouseOK(h)
<1>1. /\ h \in Seq(ToSet(h))
      /\ \A i, j \in DOMAIN h : h[i].name = h[j].name => i = j
      /\ Nothing \notin Names(h)
  BY HousesAssumption
<1>2. IsSeq(h)
  BY <1>1 DEF IsSeq
<1>3. DOMAIN h = 1 .. Len(h)
  BY <1>2, SeqFacts
<1>4. QED
  BY <1>1, <1>2, <1>3 DEF HouseOK

LEMMA ItemFacts ==
  ASSUME NEW h, HouseOK(h), NEW it \in ToSet(h)
  PROVE  ItemNamed(h, it.name) = it /\ it.name \in Names(h) /\ it.name # Nothing
<1>1. it.name \in Names(h)
  BY DEF Names
<1> DEFINE x == ItemNamed(h, it.name)
<1>2. x \in ToSet(h) /\ x.name = it.name
  <2>1. \E y \in ToSet(h) : y.name = it.name
    OBVIOUS
  <2>2. QED
    BY <2>1 DEF ItemNamed
<1> HIDE DEF x
<1>3. PICK i \in 1 .. Len(h), j \in 1 .. Len(h) : it = h[i] /\ x = h[j]
  BY <1>2, Members DEF HouseOK
<1>4. i = j
  BY <1>2, <1>3 DEF HouseOK
<1>5. QED
  BY <1>1, <1>3, <1>4 DEF HouseOK, x

LEMMA MembersFacts ==
  ASSUME NEW h, IsSeq(h), NEW g
  PROVE  /\ IsSeq(MembersOf(h, g))
         /\ \A k \in 1 .. Len(MembersOf(h, g)) : MembersOf(h, g)[k] \in ToSet(h)
<1> DEFINE K == {k \in DOMAIN h : hasTag(h[k].groups, g)}
           s == Only(h, K)
<1>1. MembersOf(h, g) = s
  BY DEF MembersOf
<1> HIDE DEF K
<1>2. IsSeq(s) /\ ToSet(s) = {h[k] : k \in {i \in 1 .. Len(h) : i \in K}}
  BY OnlyPositions
<1> HIDE DEF s
<1>3. ASSUME NEW k \in 1 .. Len(s) PROVE s[k] \in ToSet(h)
  <2>1. s[k] \in ToSet(s)
    BY <1>2, Members
  <2>2. PICK i \in 1 .. Len(h) : s[k] = h[i]
    BY <1>2, <2>1
  <2>3. QED
    BY <2>2, Members
<1>4. QED
  BY <1>1, <1>2, <1>3

Equipped(d, e) == [d EXCEPT !.equipment = e]

LEMMA EquippedOK ==
  ASSUME NEW d, DeviceOK(d), NEW e
  PROVE  /\ DeviceOK(Equipped(d, e)) /\ Items(Equipped(d, e)) = Items(d)
         /\ Equipped(d, e).bind = d.bind /\ Equipped(d, e).caps = d.caps
         /\ Equipped(d, e).equipment = e
<1> DEFINE x == Equipped(d, e)
<1>1. x = [type |-> d.type, caps |-> d.caps, props |-> d.props, bind |-> d.bind,
           maps |-> d.maps, equipment |-> e]
  BY DEF Equipped, DeviceOK
<1> HIDE DEF x
<1>2. /\ x.type = d.type /\ x.caps = d.caps /\ x.props = d.props /\ x.bind = d.bind
      /\ x.maps = d.maps /\ x.equipment = e
      /\ x = [type |-> x.type, caps |-> x.caps, props |-> x.props, bind |-> x.bind,
              maps |-> x.maps, equipment |-> x.equipment]
  BY <1>1
<1>3. \A b : Belongs(x, b) <=> Belongs(d, b)
  BY <1>2 DEF Belongs
<1>4. DeviceOK(x)
  BY <1>2, <1>3 DEF DeviceOK
<1>5. Items(x) = Items(d)
  BY <1>2 DEF Items
<1>6. QED
  BY <1>2, <1>4, <1>5 DEF x

\* A draft made of a list of features, with the identity e of a composite.
DraftOf(x, it, fs, type, e) ==
    /\ x.device = Equipped(assemble(type, fs), e)
    /\ x.source = it.name

LEMMA DraftIs ==
  ASSUME NEW it, NEW fs, NEW type, NEW e
  PROVE  LET r == Draft(it, Found(fs, type), e)
         IN \/ r = <<>>
            \/ \E x : r = <<x>> /\ DraftOf(x, it, fs, type, e)
<1> DEFINE r == Draft(it, Found(fs, type), e)
           x == [device |-> [assemble(type, fs) EXCEPT !.equipment = e],
                 source |-> it.name, long |-> it.long]
<1>1. r = <<>> \/ r = <<x>>
  BY DraftParts
<1>2. DraftOf(x, it, fs, type, e)
  BY DEF DraftOf, Equipped
<1>3. QED
  BY <1>1, <1>2

SlotSets(members, type) ==
    [k \in DOMAIN members |-> {<<f.kind, f.inst>> : f \in ToSet(FeaturesIn(members[k], type))}]

BoundWell(members, type, d) ==
    LET fills == SlotSets(members, type)
        able(slot) == {k \in DOMAIN members : slot \in fills[k]}
        winner(slot) == CHOOSE k \in able(slot) : BestFor(members, able(slot), k)
    IN d.bind = {[kind |-> slot[1], inst |-> slot[2], item |-> members[winner(slot)].name] :
                   slot \in UNION {fills[k] : k \in DOMAIN members}}

OptsIn(members, type, d) ==
    isThermostat(type) =>
        \A c \in ToSet(d.caps) : c.act \in {"on_off", "mode", "toggle"} =>
            \E it \in ToSet(members) :
                hasYahome(it) /\ it.name \in Items(d)
                /\ c \in {f.cap : f \in ToSet(yahomeFeatures(it).features)}

LEMMA ComposedWellParts ==
  ASSUME NEW h, NEW x, NEW g, ItemNamed(h, x.source) = g,
         BoundWell(MembersOf(h, g.name), equipmentType(g.tags), x.device),
         OptsIn(MembersOf(h, g.name), equipmentType(g.tags), x.device)
  PROVE  ComposedWell(h, x)
BY DEF ComposedWell, BoundWell, OptsIn, SlotSets

LEMMA SlotSetFacts ==
  ASSUME NEW members, IsSeq(members), NEW type
  PROVE  \A k \in 1 .. Len(members) : \A slot : slot \in SlotSets(members, type)[k] <=>
           \E i \in 1 .. Len(FeaturesIn(members[k], type)) :
             slot = <<FeaturesIn(members[k], type)[i].kind, FeaturesIn(members[k], type)[i].inst>>
<1>1. DOMAIN members = 1 .. Len(members)
  BY SeqFacts
<1>2. ASSUME NEW k \in 1 .. Len(members), NEW slot
      PROVE  slot \in SlotSets(members, type)[k] <=>
               \E i \in 1 .. Len(FeaturesIn(members[k], type)) :
                 slot = <<FeaturesIn(members[k], type)[i].kind, FeaturesIn(members[k], type)[i].inst>>
  <2> DEFINE F == FeaturesIn(members[k], type)
  <2>1. SlotSets(members, type)[k] = {<<f.kind, f.inst>> : f \in ToSet(F)}
    BY <1>1 DEF SlotSets
  <2>2. IsSeq(F)
    BY FeaturesInOK DEF FeaturesOK
  <2> HIDE DEF F
  <2>3. \A f : f \in ToSet(F) <=> \E i \in 1 .. Len(F) : f = F[i]
    BY <2>2, Members
  <2>4. slot \in SlotSets(members, type)[k] <=> \E i \in 1 .. Len(F) : slot = <<F[i].kind, F[i].inst>>
    BY <2>1, <2>3
  <2>5. QED
    BY <2>4 DEF F
<1>3. QED
  BY <1>2

LEMMA BoundWellOK ==
  ASSUME NEW members, IsSeq(members), NEW type, NEW d,
         \A b : b \in d.bind <=>
           \E k \in 1 .. Len(Composed(members, type)) :
             b = [kind |-> Composed(members, type)[k].kind, inst |-> Composed(members, type)[k].inst,
                  item |-> Composed(members, type)[k].item]
  PROVE  BoundWell(members, type, d)
<1> DEFINE F(k) == FeaturesIn(members[k], type)
           fs == Composed(members, type)
           fills == SlotSets(members, type)
           able(slot) == {k \in DOMAIN members : slot \in fills[k]}
           winner(slot) == CHOOSE k \in able(slot) : BestFor(members, able(slot), k)
           slots == UNION {fills[k] : k \in DOMAIN members}
           want == {[kind |-> slot[1], inst |-> slot[2], item |-> members[winner(slot)].name] : slot \in slots}
<1>1. DOMAIN members = 1 .. Len(members) /\ Len(members) \in Nat
  BY SeqFacts
<1>2. /\ \A k \in 1 .. Len(fs) : \E w : Wins(members, type, fs[k], w) /\ fs[k].item = members[w].name
      /\ \A w \in 1 .. Len(members) : \A i \in 1 .. Len(F(w)) :
           \E k \in 1 .. Len(fs) : SameSlot(fs[k], F(w)[i])
  BY ComposedOK
<1>3. \A k \in 1 .. Len(members) : \A slot : slot \in fills[k] <=>
        \E i \in 1 .. Len(F(k)) : slot = <<F(k)[i].kind, F(k)[i].inst>>
  BY SlotSetFacts
<1>4. \A b : b \in d.bind <=>
        \E k \in 1 .. Len(fs) : b = [kind |-> fs[k].kind, inst |-> fs[k].inst, item |-> fs[k].item]
  OBVIOUS
<1>5. \A slot : slot \in slots <=> \E k \in 1 .. Len(members) : slot \in fills[k]
  BY <1>1
<1> HIDE DEF fs, fills
<1>6. ASSUME NEW k \in 1 .. Len(fs)
      PROVE  LET slot == <<fs[k].kind, fs[k].inst>>
             IN slot \in slots /\ members[winner(slot)].name = fs[k].item
  <2> DEFINE slot == <<fs[k].kind, fs[k].inst>>
             A == able(slot)
  <2>1. PICK w : Wins(members, type, fs[k], w) /\ fs[k].item = members[w].name
    BY <1>2
  <2>2. /\ w \in 1 .. Len(members)
        /\ \E i \in 1 .. Len(F(w)) : fs[k] = F(w)[i]
        /\ BestFor(members, Able(members, type, fs[k]), w)
    BY <2>1 DEF Wins
  <2>3. \A j : j \in A <=> j \in Able(members, type, fs[k])
    <3>1. \A f : slot = <<f.kind, f.inst>> <=> SameSlot(f, fs[k])
      BY DEF SameSlot
    <3> HIDE DEF slot
    <3>2. \A j : j \in A <=> j \in 1 .. Len(members) /\ slot \in fills[j]
      BY <1>1
    <3>3. \A j : j \in Able(members, type, fs[k]) <=>
            j \in 1 .. Len(members) /\ \E i \in 1 .. Len(F(j)) : SameSlot(F(j)[i], fs[k])
      BY DEF Able
    <3>4. \A j \in 1 .. Len(members) : slot \in fills[j] <=>
            \E i \in 1 .. Len(F(j)) : SameSlot(F(j)[i], fs[k])
      BY <1>3, <3>1
    <3> HIDE DEF A, F
    <3>5. QED
      BY <3>2, <3>3, <3>4
  <2>4. A = Able(members, type, fs[k]) /\ A \subseteq Nat
    <3>1. A \subseteq DOMAIN members
      OBVIOUS
    <3> DEFINE B == Able(members, type, fs[k])
    <3> HIDE DEF A, B
    <3>2. A = B
      BY <2>3 DEF B
    <3>3. A \subseteq Nat
      BY <1>1, <3>1
    <3>4. QED
      BY <3>2, <3>3 DEF B
  <2>5. slot \in slots
    BY <1>3, <1>5, <2>2
  <2>6. winner(slot) = CHOOSE j \in A : BestFor(members, A, j)
    OBVIOUS
  <2> HIDE DEF A, slots, winner, slot
  <2>7. w \in A /\ BestFor(members, A, w)
    BY <2>2, <2>4 DEF BestFor
  <2>8. BestFor(members, A, winner(slot))
    BY <2>6, <2>7
  <2>9. winner(slot) = w
    BY <2>4, <2>7, <2>8, OneBest
  <2>10. QED
    BY <2>1, <2>5, <2>9 DEF slot
<1>7. ASSUME NEW slot \in slots
      PROVE  \E k \in 1 .. Len(fs) : slot = <<fs[k].kind, fs[k].inst>>
  <2>1. PICK w \in 1 .. Len(members) : slot \in fills[w]
    BY <1>5
  <2>2. PICK i \in 1 .. Len(F(w)) : slot = <<F(w)[i].kind, F(w)[i].inst>>
    BY <1>3, <2>1
  <2>3. PICK k \in 1 .. Len(fs) : SameSlot(fs[k], F(w)[i])
    BY <1>2
  <2>4. QED
    BY <2>2, <2>3 DEF SameSlot
<1> HIDE DEF winner, slots
<1>8. ASSUME NEW b \in d.bind PROVE b \in want
  <2>1. PICK k \in 1 .. Len(fs) : b = [kind |-> fs[k].kind, inst |-> fs[k].inst, item |-> fs[k].item]
    BY <1>4
  <2> DEFINE slot == <<fs[k].kind, fs[k].inst>>
  <2>2. slot \in slots /\ members[winner(slot)].name = fs[k].item
    BY <1>6
  <2>3. slot[1] = fs[k].kind /\ slot[2] = fs[k].inst
    OBVIOUS
  <2> HIDE DEF slot
  <2>4. b = [kind |-> slot[1], inst |-> slot[2], item |-> members[winner(slot)].name]
    BY <2>1, <2>2, <2>3
  <2>5. QED
    BY <2>2, <2>4
<1>9. ASSUME NEW b \in want PROVE b \in d.bind
  <2>1. PICK slot \in slots : b = [kind |-> slot[1], inst |-> slot[2], item |-> members[winner(slot)].name]
    OBVIOUS
  <2>2. PICK k \in 1 .. Len(fs) : slot = <<fs[k].kind, fs[k].inst>>
    BY <1>7
  <2>3. members[winner(slot)].name = fs[k].item
    BY <1>6, <2>2
  <2>4. slot[1] = fs[k].kind /\ slot[2] = fs[k].inst
    BY <2>2
  <2>5. b = [kind |-> fs[k].kind, inst |-> fs[k].inst, item |-> fs[k].item]
    BY <2>1, <2>3, <2>4
  <2>6. QED
    BY <1>4, <2>5
<1> HIDE DEF want
<1>10. d.bind = want
  BY <1>8, <1>9
<1>11. QED
  BY <1>10 DEF BoundWell, want, winner, slots, fills



LEMMA OptsInOK ==
  ASSUME NEW members, IsSeq(members), NEW type, NEW d, NEW fs, fs = Composed(members, type),
         d.caps = Merged(CapsOf(fs)),
         \A k \in 1 .. Len(fs) : fs[k].item \in Items(d)
  PROVE  OptsIn(members, type, d)
<1> DEFINE F(k) == FeaturesIn(members[k], type)
<1>1. /\ FeaturesOK(fs)
      /\ \A k \in 1 .. Len(fs) : \E w : Wins(members, type, fs[k], w) /\ fs[k].item = members[w].name
  BY ComposedOK
<1>2. ASSUME isThermostat(type), NEW c \in ToSet(d.caps), c.act \in {"on_off", "mode", "toggle"}
      PROVE  \E it \in ToSet(members) :
               hasYahome(it) /\ it.name \in Items(d)
               /\ c \in {f.cap : f \in ToSet(yahomeFeatures(it).features)}
  <2>1. ~Colour(c)
    BY <1>2 DEF Colour
  <2>2. PICK k \in 1 .. Len(fs) : c = fs[k].cap
    <3>1. c \in ToSet(Merged(CapsOf(fs)))
      BY <1>2
    <3>2. QED
      BY <1>1, <2>1, <3>1, AssembledCaps
  <2>0. PICK w : Wins(members, type, fs[k], w) /\ fs[k].item = members[w].name
    BY <1>1
  <2>3. /\ w \in 1 .. Len(members) /\ fs[k].item = members[w].name
        /\ \E i \in 1 .. Len(F(w)) : fs[k] = F(w)[i]
    BY <2>0 DEF Wins
  <2> PICK i \in 1 .. Len(F(w)) : fs[k] = F(w)[i]
    BY <2>3
  <2>4. PICK it : it = members[w]
    OBVIOUS
  <2>5. it \in ToSet(members) /\ it.name \in Items(d)
    BY <2>3, <2>4, Members
  <2>6. IsSeq(FeaturesIn(it, type)) /\ fs[k] \in ToSet(FeaturesIn(it, type))
    <3>1. IsSeq(FeaturesIn(it, type))
      BY FeaturesInOK DEF FeaturesOK
    <3>2. QED
      BY <2>3, <2>4, <3>1, Members
  <2>7. hasYahome(it)
    <3>1. SUFFICES ASSUME ~hasYahome(it) PROVE FALSE
      OBVIOUS
    <3>2. sensorsAndSetpoint(FeaturesIn(it, type)[i])
      BY <1>2, <2>3, <2>4, <3>1, FeaturesInOK
    <3>3. c.act \in {"float", "range"}
      BY <2>2, <2>3, <2>4, <3>2 DEF sensorsAndSetpoint
    <3>4. QED
      BY <1>2, <3>3
  <2>8. FeaturesIn(it, type) = yahomeFeatures(it).features
    BY <2>7, FeaturesInOK
  <2>9. c \in {f.cap : f \in ToSet(yahomeFeatures(it).features)}
    BY <2>2, <2>6, <2>8
  <2>10. QED
    BY <2>5, <2>7, <2>9
<1>3. QED
  BY <1>2 DEF OptsIn

\* A draft of house h is a device Yandex accepts, made of items of h; one
\* with an identity is composed well.
DraftOK(h, x) ==
    /\ DeviceOK(x.device)
    /\ Items(x.device) \subseteq Names(h)
    /\ x.source \in Names(h)
    /\ x.device.equipment # Nothing => ComposedWell(h, x)

DraftsOK(h, ds) == IsSeq(ds) /\ \A k \in 1 .. Len(ds) : DraftOK(h, ds[k])

LEMMA GroupDraftOK ==
  ASSUME NEW h, HouseOK(h), NEW g \in ToSet(h)
  PROVE  DraftsOK(h, draftForGroup(g, equipmentType(g.tags), MembersOf(h, g.name)))
<1> DEFINE members == MembersOf(h, g.name)
           type == equipmentType(g.tags)
           fs == Composed(members, type)
           r == Draft(g, Found(fs, type), g.name)
<1>1. draftForGroup(g, type, members) = r
  BY DEF draftForGroup, Composed
<1>2. ItemNamed(h, g.name) = g /\ g.name \in Names(h)
  BY ItemFacts
<1>3. IsSeq(h)
  BY DEF HouseOK
<1>4. IsSeq(members) /\ \A k \in 1 .. Len(members) : members[k] \in ToSet(h)
  BY <1>3, MembersFacts
<1> HIDE DEF members, type, fs
<1>5. /\ FeaturesOK(fs)
      /\ \A k \in 1 .. Len(fs) : \E w : Wins(members, type, fs[k], w) /\ fs[k].item = members[w].name
  BY <1>4, ComposedOK DEF fs
<1>6. ASSUME NEW k \in 1 .. Len(fs) PROVE fs[k].item \in Names(h) /\ fs[k].item # Nothing
  <2>1. PICK w \in 1 .. Len(members) : fs[k].item = members[w].name
    BY <1>5 DEF Wins
  <2>2. members[w] \in ToSet(h)
    BY <1>4
  <2>3. QED
    BY <2>1, <2>2, ItemFacts
<1>7. Named(fs)
  BY <1>6 DEF Named
<1> DEFINE d == assemble(type, fs)
<1>8. /\ DeviceOK(d)
      /\ \A x : x \in Items(d) <=> \E k \in 1 .. Len(fs) : x = fs[k].item
  BY <1>5, <1>7, AssembleOK
<1>9. /\ d.caps = Merged(CapsOf(fs))
      /\ \A b : b \in d.bind <=>
           \E k \in 1 .. Len(fs) : b = [kind |-> fs[k].kind, inst |-> fs[k].inst, item |-> fs[k].item]
  <2>1. IsSeq(fs)
    BY <1>5 DEF FeaturesOK
  <2>2. QED
    BY <2>1, AssembleParts
<1>10. ASSUME NEW x, DraftOf(x, g, fs, type, g.name) PROVE DraftOK(h, x)
  <2>1. x.device = Equipped(d, g.name) /\ x.source = g.name
    BY <1>10 DEF DraftOf
  <2> HIDE DEF d
  <2> DEFINE e == Equipped(d, g.name)
  <2>2. DeviceOK(e) /\ Items(e) = Items(d) /\ e.bind = d.bind /\ e.caps = d.caps
    BY <1>8, EquippedOK
  <2> HIDE DEF e
  <2>3. Items(e) \subseteq Names(h)
    BY <1>6, <1>8, <2>2
  <2>4. BoundWell(members, type, e)
    <3>1. \A b : b \in e.bind <=>
           \E k \in 1 .. Len(Composed(members, type)) :
             b = [kind |-> Composed(members, type)[k].kind, inst |-> Composed(members, type)[k].inst,
                  item |-> Composed(members, type)[k].item]
      BY <1>9, <2>2 DEF fs
    <3>2. QED
      BY <1>4, <3>1, BoundWellOK
  <2>5. OptsIn(members, type, e)
    <3>1. e.caps = Merged(CapsOf(fs)) /\ \A k \in 1 .. Len(fs) : fs[k].item \in Items(e)
      BY <1>8, <1>9, <2>2
    <3>2. fs = Composed(members, type)
      BY DEF fs
    <3>3. QED
      BY <1>4, <3>1, <3>2, OptsInOK
  <2>6. x.device = e
    BY <2>1 DEF e
  <2>7. ComposedWell(h, x)
    <3>1. ItemNamed(h, x.source) = g
      BY <1>2, <2>1
    <3>2. /\ BoundWell(MembersOf(h, g.name), equipmentType(g.tags), x.device)
          /\ OptsIn(MembersOf(h, g.name), equipmentType(g.tags), x.device)
      BY <2>4, <2>5, <2>6 DEF members, type
    <3>3. QED
      BY <3>1, <3>2, ComposedWellParts
  <2>8. QED
    BY <1>2, <2>1, <2>2, <2>3, <2>6, <2>7 DEF DraftOK
<1>11. r = <<>> \/ \E x : r = <<x>> /\ DraftOf(x, g, fs, type, g.name)
  BY DraftIs
<1> HIDE DEF r
<1>12. DraftsOK(h, r)
  <2>1. CASE r = <<>>
    BY <2>1, EmptyIsSeq DEF DraftsOK
  <2>2. CASE \E x : r = <<x>> /\ DraftOf(x, g, fs, type, g.name)
    <3>1. PICK x : r = <<x>> /\ DraftOK(h, x)
      BY <1>10, <2>2
    <3>2. IsSeq(r) /\ Len(r) = 1 /\ r[1] = x
      BY <3>1, OneIsSeq
    <3>3. QED
      BY <3>1, <3>2 DEF DraftsOK
  <2>3. QED
    BY <1>11, <2>1, <2>2
<1>13. QED
  BY <1>1, <1>12 DEF members, type

LEMMA ItemDraftOK ==
  ASSUME NEW h, HouseOK(h), NEW it \in ToSet(h)
  PROVE  DraftsOK(h, draftForItem(it))
<1> DEFINE found == featuresForItem(it, NoType)
           fs == found.features
           type == found.type
           r == draftForItem(it)
<1>1. FeaturesOK(fs) /\ AllFrom(fs, it.name)
  BY FeaturesForItemOK DEF FoundOK
<1>2. it.name \in Names(h) /\ it.name # Nothing
  BY ItemFacts
<1>3. r = Draft(it, Found(fs, type), Nothing)
  BY DEF draftForItem, Draft, Found
<1> HIDE DEF fs, type, r
<1>4. Named(fs)
  BY <1>1, <1>2 DEF Named, AllFrom
<1> DEFINE d == assemble(type, fs)
<1>5. /\ DeviceOK(d)
      /\ \A x : x \in Items(d) <=> \E k \in 1 .. Len(fs) : x = fs[k].item
  BY <1>1, <1>4, AssembleOK
<1> HIDE DEF d
<1>6. Items(d) \subseteq Names(h)
  BY <1>1, <1>2, <1>5 DEF AllFrom
<1>7. ASSUME NEW x, DraftOf(x, it, fs, type, Nothing) PROVE DraftOK(h, x)
  <2> DEFINE e == Equipped(d, Nothing)
  <2>1. x.device = e /\ x.source = it.name
    BY <1>7 DEF DraftOf, d
  <2>2. DeviceOK(e) /\ Items(e) = Items(d) /\ e.equipment = Nothing
    BY <1>5, EquippedOK
  <2> HIDE DEF e
  <2>3. QED
    BY <1>2, <1>6, <2>1, <2>2 DEF DraftOK
<1>8. r = <<>> \/ \E x : r = <<x>> /\ DraftOf(x, it, fs, type, Nothing)
  BY <1>3, DraftIs
<1>9. DraftsOK(h, r)
  <2>1. CASE r = <<>>
    BY <2>1, EmptyIsSeq DEF DraftsOK
  <2>2. CASE \E x : r = <<x>> /\ DraftOf(x, it, fs, type, Nothing)
    <3>1. PICK x : r = <<x>> /\ DraftOK(h, x)
      BY <1>7, <2>2
    <3>2. IsSeq(r) /\ Len(r) = 1 /\ r[1] = x
      BY <3>1, OneIsSeq
    <3>3. QED
      BY <3>1, <3>2 DEF DraftsOK
  <2>3. QED
    BY <1>8, <2>1, <2>2
<1>10. QED
  BY <1>9 DEF r

LEMMA EachDraftOK ==
  ASSUME NEW h, HouseOK(h), NEW K
  PROVE  DraftsOK(h, draftForEach(Only(h, K)))
<1> DEFINE items == Only(h, K)
           R == [k \in DOMAIN items |-> draftForItem(items[k])]
           r == draftForEach(items)
<1>0. IsSeq(h)
  BY DEF HouseOK
<1>1. IsSeq(items) /\ ToSet(items) = {h[k] : k \in {i \in 1 .. Len(h) : i \in K}}
  BY <1>0, OnlyPositions
<1> HIDE DEF items
<1>2. Len(items) \in Nat /\ DOMAIN items = 1 .. Len(items)
  BY <1>1, SeqFacts
<1>3. R = [k \in 1 .. Len(items) |-> R[k]] /\ \A k \in 1 .. Len(items) : R[k] = draftForItem(items[k])
  BY <1>2
<1>4. r = FlattenSeq(R)
  BY DEF draftForEach
<1> HIDE DEF R, r
<1>5. IsSeq(R) /\ Len(R) = Len(items)
  BY <1>2, <1>3, MapIsSeq
<1>6. ASSUME NEW k \in 1 .. Len(R) PROVE DraftsOK(h, R[k])
  <2>1. items[k] \in ToSet(items)
    BY <1>1, <1>5, Members
  <2>2. PICK i \in 1 .. Len(h) : items[k] = h[i]
    BY <1>1, <2>1
  <2>3. items[k] \in ToSet(h)
    BY <1>0, <2>2, Members
  <2>4. QED
    BY <1>3, <1>5, <2>3, ItemDraftOK
<1>7. IsSeq(r)
  BY <1>4, <1>5, <1>6, FlattenOrigins DEF DraftsOK
<1>8. PICK o, j : Origins(r, R, Len(R), o, j)
  BY <1>4, <1>5, <1>6, FlattenOrigins DEF DraftsOK
<1>9. ASSUME NEW p \in 1 .. Len(r) PROVE DraftOK(h, r[p])
  <2>1. PICK k \in 1 .. Len(R) : k = o[p]
    BY <1>8 DEF Origins
  <2>2. j[p] \in 1 .. Len(R[k]) /\ r[p] = R[k][j[p]]
    BY <1>8, <2>1 DEF Origins
  <2>3. QED
    BY <1>6, <2>2 DEF DraftsOK
<1>10. QED
  BY <1>7, <1>9 DEF DraftsOK, r, items

LEMMA DraftsConcat ==
  ASSUME NEW h, NEW a, DraftsOK(h, a), NEW b, DraftsOK(h, b)
  PROVE  DraftsOK(h, a \o b)
<1>1. IsSeq(a) /\ IsSeq(b)
  BY DEF DraftsOK
<1>2. IsSeq(a \o b) /\ \A x : x \in ToSet(a \o b) <=> x \in ToSet(a) \/ x \in ToSet(b)
  BY <1>1, ConcatFacts
<1>3. ASSUME NEW k \in 1 .. Len(a \o b) PROVE DraftOK(h, (a \o b)[k])
  <2>1. (a \o b)[k] \in ToSet(a \o b)
    BY <1>2, Members
  <2>2. (a \o b)[k] \in ToSet(a) \/ (a \o b)[k] \in ToSet(b)
    BY <1>2, <2>1
  <2>3. QED
    BY <1>1, <2>2, Members DEF DraftsOK
<1>4. QED
  BY <1>2, <1>3 DEF DraftsOK

NoDrafts == [drafts |-> <<>>, consumed |-> {}]

Composing(f, h, tag, n) ==
    f = [k \in 0 .. n |-> IF k = 0 THEN NoDrafts ELSE Compose(h, tag, f[k - 1], h[k])]

LEMMA ComposingExists ==
  ASSUME NEW h, NEW tag, NEW N \in Nat
  PROVE  \E f : Composing(f, h, tag, N)
<1> DEFINE Bad == {n \in Nat : ~ \E f : Composing(f, h, tag, n)}
<1>1. SUFFICES ASSUME Bad # {} PROVE FALSE
  OBVIOUS
<1>2. PICK n \in Bad : \A m \in Bad : n <= m
  <2>1. Bad \in SUBSET Nat
    OBVIOUS
  <2> HIDE DEF Bad
  <2>2. QED
    BY <1>1, <2>1, LeastExists
<1>3. CASE n = 0
  <2>1. Composing([k \in 0 .. 0 |-> NoDrafts], h, tag, 0)
    BY DEF Composing
  <2>2. QED
    BY <1>3, <2>1
<1>4. CASE n # 0
  <2>1. n - 1 \in Nat /\ n - 1 \notin Bad
    BY <1>2, <1>4
  <2>2. PICK g : Composing(g, h, tag, n - 1)
    BY <2>1
  <2> DEFINE F == [k \in 0 .. n |-> IF k = n THEN Compose(h, tag, g[n - 1], h[n]) ELSE g[k]]
  <2>3. ASSUME NEW k \in 0 .. n
        PROVE  F[k] = IF k = 0 THEN NoDrafts ELSE Compose(h, tag, F[k - 1], h[k])
    BY <2>1, <2>2, <1>4 DEF Composing
  <2>4. Composing(F, h, tag, n)
    BY <2>3 DEF Composing
  <2>5. QED
    BY <2>4
<1>5. QED
  BY <1>3, <1>4

LEMMA ComposeAllUnfold ==
  ASSUME NEW h, NEW tag, Len(h) \in Nat
  PROVE  \E f : Composing(f, h, tag, Len(h)) /\ ComposeAll(h, tag) = f[Len(h)]
<1> DEFINE f == CHOOSE f : f = [k \in 0 .. Len(h) |->
                               IF k = 0 THEN NoDrafts ELSE Compose(h, tag, f[k - 1], h[k])]
<1>1. \E g : g = [k \in 0 .. Len(h) |-> IF k = 0 THEN NoDrafts ELSE Compose(h, tag, g[k - 1], h[k])]
  <2>1. PICK g : Composing(g, h, tag, Len(h))
    BY ComposingExists
  <2>2. QED
    BY <2>1 DEF Composing
<1>2. f = [k \in 0 .. Len(h) |-> IF k = 0 THEN NoDrafts ELSE Compose(h, tag, f[k - 1], h[k])]
  BY <1>1
<1>3. ComposeAll(h, tag) = f[Len(h)]
  BY DEF ComposeAll, NoDrafts
<1>4. QED
  BY <1>2, <1>3 DEF Composing

LEMMA ComposeOK ==
  ASSUME NEW h, HouseOK(h), NEW tag, NEW acc, DraftsOK(h, acc.drafts), NEW it \in ToSet(h)
  PROVE  DraftsOK(h, Compose(h, tag, acc, it).drafts)
<1> DEFINE draft == draftForGroup(it, equipmentType(it.tags), MembersOf(h, it.name))
           below == Below(h, {it.name}, Names(h))
<1>1. DraftsOK(h, draft)
  BY GroupDraftOK
<1>2. Compose(h, tag, acc, it) = acc \/ Compose(h, tag, acc, it) = Consume(acc, draft, below)
  BY DEF Compose
<1> HIDE DEF draft, below
<1>3. Consume(acc, draft, below).drafts = acc.drafts
      \/ Consume(acc, draft, below).drafts = acc.drafts \o draft
  BY DEF Consume
<1>4. DraftsOK(h, acc.drafts \o draft)
  BY <1>1, DraftsConcat
<1>5. QED
  BY <1>2, <1>3, <1>4

LEMMA ComposeAllOK ==
  ASSUME NEW h, HouseOK(h), NEW tag
  PROVE  DraftsOK(h, ComposeAll(h, tag).drafts)
<1> DEFINE N == Len(h)
<1>0. IsSeq(h)
  BY DEF HouseOK
<1>1. N \in Nat
  BY <1>0, SeqFacts
<1>2. PICK f : Composing(f, h, tag, N) /\ ComposeAll(h, tag) = f[N]
  BY <1>1, ComposeAllUnfold
<1> DEFINE Bad == {n \in Nat : n \in 0 .. N /\ ~ DraftsOK(h, f[n].drafts)}
<1>3. SUFFICES ASSUME Bad # {} PROVE FALSE
  BY <1>1, <1>2
<1>4. PICK n \in Bad : \A m \in Bad : n <= m
  <2>1. Bad \in SUBSET Nat
    OBVIOUS
  <2> HIDE DEF Bad
  <2>2. QED
    BY <1>3, <2>1, LeastExists
<1>5. /\ n = 0 => f[n] = NoDrafts
      /\ n # 0 => f[n] = Compose(h, tag, f[n - 1], h[n])
  BY <1>2 DEF Composing
<1>6. CASE n = 0
  <2>1. f[n].drafts = <<>>
    BY <1>5, <1>6 DEF NoDrafts
  <2>2. DraftsOK(h, <<>>)
    BY EmptyIsSeq DEF DraftsOK
  <2>3. QED
    BY <1>4, <2>1, <2>2
<1>7. CASE n # 0
  <2> DEFINE m == n - 1
  <2>1. m \in Nat /\ m \in 0 .. N /\ m \notin Bad /\ n \in 1 .. N
    BY <1>4, <1>7
  <2>2. DraftsOK(h, f[m].drafts)
    BY <2>1
  <2>3. f[n] = Compose(h, tag, f[m], h[n]) /\ ~ DraftsOK(h, f[n].drafts) /\ h[n] \in ToSet(h)
    BY <1>0, <1>4, <1>5, <1>7, <2>1, Members
  <2> HIDE DEF m, Bad
  <2>4. DraftsOK(h, Compose(h, tag, f[m], h[n]).drafts)
    BY <2>2, <2>3, ComposeOK
  <2>5. QED
    BY <2>3, <2>4
<1>8. QED
  BY <1>6, <1>7

\* Whatever the mode and the filter, the list is one of good drafts.
LEMMA DraftsOfOK ==
  ASSUME NEW h, HouseOK(h), NEW mode, NEW tag
  PROVE  DraftsOK(h, DraftsOf(h, mode, tag))
<1>1. DraftsOK(h, inferDevices(h, tag))
  <2> DEFINE K == {k \in DOMAIN h : /\ h[k].type # "Group"
                                    /\ h[k].name \notin ComposeAll(h, tag).consumed
                                    /\ Candidate(h[k], tag)}
             composed == ComposeAll(h, tag).drafts
  <2>1. inferDevices(h, tag) = composed \o draftForEach(Only(h, K))
    BY DEF inferDevices, AddSingles
  <2>2. DraftsOK(h, composed)
    BY ComposeAllOK
  <2> HIDE DEF K, composed
  <2>3. DraftsOK(h, draftForEach(Only(h, K)))
    BY EachDraftOK
  <2>4. QED
    BY <2>1, <2>2, <2>3, DraftsConcat
<1>2. DraftsOK(h, inferDevicesFlat(h, tag))
  <2> DEFINE K == {k \in DOMAIN h : /\ Candidate(h[k], tag)
                                    /\ ToSet(h[k].groups) \cap Aggregations(h) = {}}
  <2>1. inferDevicesFlat(h, tag) = draftForEach(Only(h, K))
    BY DEF inferDevicesFlat
  <2> HIDE DEF K
  <2>2. QED
    BY <2>1, EachDraftOK
<1>3. QED
  BY <1>1, <1>2 DEF DraftsOf


-----------------------------------------------------------------------------
(* What hangs below the items of a device, through aggregation groups.     *)

Step(h, via, S) == {it.name : it \in {x \in ToSet(h) : ToSet(x.groups) \cap S \cap via # {}}}

Wider(h, via, S) == S \cup Step(h, via, S)

Reaching(f, h, gs, via, n) ==
    f = [k \in 0 .. n |-> IF k = 0 THEN gs ELSE Wider(h, via, f[k - 1])]

LEMMA ReachingExists ==
  ASSUME NEW h, NEW gs, NEW via, NEW N \in Nat
  PROVE  \E f : Reaching(f, h, gs, via, N)
<1> DEFINE Bad == {n \in Nat : ~ \E f : Reaching(f, h, gs, via, n)}
<1>1. SUFFICES ASSUME Bad # {} PROVE FALSE
  OBVIOUS
<1>2. PICK n \in Bad : \A m \in Bad : n <= m
  <2>1. Bad \in SUBSET Nat
    OBVIOUS
  <2> HIDE DEF Bad
  <2>2. QED
    BY <1>1, <2>1, LeastExists
<1>3. CASE n = 0
  <2>1. Reaching([k \in 0 .. 0 |-> gs], h, gs, via, 0)
    BY DEF Reaching
  <2>2. QED
    BY <1>3, <2>1
<1>4. CASE n # 0
  <2>1. n - 1 \in Nat /\ n - 1 \notin Bad
    BY <1>2, <1>4
  <2>2. PICK g : Reaching(g, h, gs, via, n - 1)
    BY <2>1
  <2> DEFINE F == [k \in 0 .. n |-> IF k = n THEN Wider(h, via, g[n - 1]) ELSE g[k]]
  <2>3. ASSUME NEW k \in 0 .. n
        PROVE  F[k] = IF k = 0 THEN gs ELSE Wider(h, via, F[k - 1])
    BY <2>1, <2>2, <1>4 DEF Reaching
  <2>4. Reaching(F, h, gs, via, n)
    BY <2>3 DEF Reaching
  <2>5. QED
    BY <2>4
<1>5. QED
  BY <1>3, <1>4

LEMMA BelowUnfold ==
  ASSUME NEW h, Len(h) \in Nat, NEW gs, NEW via
  PROVE  \E f : /\ Reaching(f, h, gs, via, Len(h))
                /\ Below(h, gs, via) = UNION {Step(h, via, f[n]) : n \in 0 .. Len(h)}
<1> DEFINE f == CHOOSE f : f = [k \in 0 .. Len(h) |->
                   IF k = 0 THEN gs ELSE Wider(h, via, f[k - 1])]
<1>1. \E g : g = [k \in 0 .. Len(h) |-> IF k = 0 THEN gs ELSE Wider(h, via, g[k - 1])]
  <2>1. PICK g : Reaching(g, h, gs, via, Len(h))
    BY ReachingExists
  <2>2. QED
    BY <2>1 DEF Reaching
<1>2. f = [k \in 0 .. Len(h) |-> IF k = 0 THEN gs ELSE Wider(h, via, f[k - 1])]
  BY <1>1
<1>3. Below(h, gs, via) = UNION {Step(h, via, f[n]) : n \in 0 .. Len(h)}
  BY DEF Below, Step, Wider
<1>4. QED
  BY <1>2, <1>3 DEF Reaching

LEMMA StepGrows ==
  ASSUME NEW h, NEW via, NEW S, NEW T, S \subseteq T
  PROVE  Step(h, via, S) \subseteq Step(h, via, T) /\ Step(h, via, {}) = {}
BY DEF Step

LEMMA BelowGrows ==
  ASSUME NEW h, Len(h) \in Nat, NEW S, NEW T, S \subseteq T, NEW via
  PROVE  Below(h, S, via) \subseteq Below(h, T, via)
<1> DEFINE N == Len(h)
<1>1. PICK f : Reaching(f, h, S, via, N) /\ Below(h, S, via) = UNION {Step(h, via, f[n]) : n \in 0 .. N}
  BY BelowUnfold
<1>2. PICK g : Reaching(g, h, T, via, N) /\ Below(h, T, via) = UNION {Step(h, via, g[n]) : n \in 0 .. N}
  BY BelowUnfold
<1> DEFINE Bad == {n \in Nat : n \in 0 .. N /\ ~ (f[n] \subseteq g[n])}
<1>3. Bad = {}
  <2>1. SUFFICES ASSUME Bad # {} PROVE FALSE
    OBVIOUS
  <2>2. PICK n \in Bad : \A m \in Bad : n <= m
    <3>1. Bad \in SUBSET Nat
      OBVIOUS
    <3> HIDE DEF Bad
    <3>2. QED
      BY <2>1, <3>1, LeastExists
  <2>3. /\ n = 0 => f[n] = S /\ g[n] = T
        /\ n # 0 => /\ f[n] = f[n - 1] \cup Step(h, via, f[n - 1])
                    /\ g[n] = g[n - 1] \cup Step(h, via, g[n - 1])
    BY <1>1, <1>2 DEF Reaching, Wider
  <2>4. n # 0
    BY <2>2, <2>3
  <2>5. n - 1 \in Nat /\ n - 1 \in 0 .. N /\ n - 1 \notin Bad
    BY <2>2, <2>4
  <2>6. f[n - 1] \subseteq g[n - 1]
    BY <2>5
  <2>7. Step(h, via, f[n - 1]) \subseteq Step(h, via, g[n - 1])
    BY <2>6, StepGrows
  <2>8. QED
    BY <2>2, <2>3, <2>4, <2>6, <2>7
<1>4. \A n \in 0 .. N : f[n] \subseteq g[n]
  BY <1>3
<1>5. \A n \in 0 .. N : Step(h, via, f[n]) \subseteq Step(h, via, g[n])
  BY <1>4, StepGrows
<1>6. QED
  BY <1>1, <1>2, <1>5

LEMMA BelowNothing ==
  ASSUME NEW h, Len(h) \in Nat, NEW via
  PROVE  Below(h, {}, via) = {}
<1> DEFINE N == Len(h)
<1>1. PICK f : Reaching(f, h, {}, via, N) /\ Below(h, {}, via) = UNION {Step(h, via, f[n]) : n \in 0 .. N}
  BY BelowUnfold
<1> DEFINE Bad == {n \in Nat : n \in 0 .. N /\ f[n] # {}}
<1>2. Bad = {}
  <2>1. SUFFICES ASSUME Bad # {} PROVE FALSE
    OBVIOUS
  <2>2. PICK n \in Bad : \A m \in Bad : n <= m
    <3>1. Bad \in SUBSET Nat
      OBVIOUS
    <3> HIDE DEF Bad
    <3>2. QED
      BY <2>1, <3>1, LeastExists
  <2>3. /\ n = 0 => f[n] = {}
        /\ n # 0 => f[n] = f[n - 1] \cup Step(h, via, f[n - 1])
    BY <1>1 DEF Reaching, Wider
  <2>4. n # 0
    BY <2>2, <2>3
  <2>5. n - 1 \in Nat /\ n - 1 \in 0 .. N /\ n - 1 \notin Bad
    BY <2>2, <2>4
  <2>6. f[n - 1] = {}
    BY <2>5
  <2>7. Step(h, via, f[n - 1]) = {}
    BY <2>6, StepGrows
  <2>8. QED
    BY <2>2, <2>3, <2>4, <2>6, <2>7
<1>3. \A n \in 0 .. N : f[n] = {}
  BY <1>2
<1>4. \A n \in 0 .. N : Step(h, via, f[n]) = {}
  BY <1>3, StepGrows
<1>5. QED
  BY <1>1, <1>4

LEMMA DrivenGrows ==
  ASSUME NEW h, IsSeq(h), NEW d, NEW e, Items(d) \subseteq Items(e)
  PROVE  /\ DrivenIn(h, d) \subseteq DrivenIn(h, e)
         /\ Items(d) = {} => DrivenIn(h, d) = {}
<1>1. Len(h) \in Nat
  BY SeqFacts
<1>2. Below(h, Items(d), Aggregations(h)) \subseteq Below(h, Items(e), Aggregations(h))
  BY <1>1, BelowGrows
<1>3. Below(h, {}, Aggregations(h)) = {}
  BY <1>1, BelowNothing
<1>4. QED
  BY <1>2, <1>3 DEF DrivenIn

-----------------------------------------------------------------------------
(* The catalog: a device keeps to the items of a draft of the list it was  *)
(* added from.                                                             *)

\* The draft x was made of the items of d, at least.
MadeFrom(h, mode, tag, d, x) == x \in ToSet(DraftsOf(h, mode, tag)) /\ Items(d) \subseteq Items(x.device)

EntryOK(e, h) ==
    /\ e = [device |-> e.device, offered |-> e.offered, mode |-> e.mode, tag |-> e.tag]
    /\ e.mode \in Modes /\ e.tag \in TagFilters
    /\ Kept(e.device, Names(h))
    /\ \E x : MadeFrom(h, e.mode, e.tag, e.device, x)

\* The drafts of two devices of one list differ, or nothing is left of the
\* first device.
Apart(d, e, h) ==
    /\ Items(d.device) \cap Items(e.device) = {}
    /\ d.mode = e.mode /\ d.tag = e.tag =>
         \E x, y : /\ MadeFrom(h, d.mode, d.tag, d.device, x)
                   /\ MadeFrom(h, d.mode, d.tag, e.device, y)
                   /\ x # y \/ Items(d.device) = {}

CatalogOK(c, h) ==
    /\ IsSeq(c)
    /\ \A k \in 1 .. Len(c) : EntryOK(c[k], h)
    /\ \A i, j \in 1 .. Len(c) : i < j /\ c[j].offered => Apart(c[i], c[j], h)

LEMMA CatalogAppend ==
  ASSUME NEW c, NEW h, CatalogOK(c, h), NEW e, EntryOK(e, h),
         e.offered => \A i \in 1 .. Len(c) : Apart(c[i], e, h)
  PROVE  CatalogOK(Append(c, e), h) /\ Len(Append(c, e)) = Len(c) + 1
<1> DEFINE t == Append(c, e)
<1>1. /\ IsSeq(c) /\ \A k \in 1 .. Len(c) : EntryOK(c[k], h)
      /\ \A i, j \in 1 .. Len(c) : i < j /\ c[j].offered => Apart(c[i], c[j], h)
  BY DEF CatalogOK
<1>2. IsSeq(t) /\ Len(t) = Len(c) + 1 /\ (\A k \in 1 .. Len(c) : t[k] = c[k]) /\ t[Len(c) + 1] = e
  BY <1>1, AppendFacts
<1>3. Len(c) \in Nat
  BY <1>1, SeqFacts
<1> HIDE DEF t
<1>4. \A k : k \in 1 .. Len(t) <=> k \in 1 .. Len(c) \/ k = Len(c) + 1
  BY <1>2, <1>3
<1>5. \A k \in 1 .. Len(t) : EntryOK(t[k], h)
  BY <1>1, <1>2, <1>4
<1>6. ASSUME NEW i \in 1 .. Len(t), NEW j \in 1 .. Len(t), i < j, t[j].offered
      PROVE  Apart(t[i], t[j], h)
  <2>1. i \in 1 .. Len(c)
    BY <1>2, <1>3, <1>6
  <2>2. CASE j \in 1 .. Len(c)
    BY <1>1, <1>2, <1>6, <2>1, <2>2
  <2>3. CASE j = Len(c) + 1
    BY <1>2, <1>6, <2>1, <2>3
  <2>4. QED
    BY <1>4, <2>2, <2>3
<1>7. QED
  BY <1>2, <1>5, <1>6 DEF CatalogOK, t

LEMMA MadeFromLess ==
  ASSUME NEW h, NEW mode, NEW tag, NEW d, NEW x, MadeFrom(h, mode, tag, d, x),
         NEW e, Items(e) \subseteq Items(d)
  PROVE  MadeFrom(h, mode, tag, e, x)
BY DEF MadeFrom

\* Of the same list, and not more items.
Less(a, d) == a.mode = d.mode /\ a.tag = d.tag /\ Items(a.device) \subseteq Items(d.device)

LEMMA ApartLess ==
  ASSUME NEW d, NEW e, NEW h, Apart(d, e, h), NEW a, NEW b, Less(a, d), Less(b, e)
  PROVE  Apart(a, b, h)
<1>1. Items(a.device) \cap Items(b.device) = {}
  BY DEF Apart, Less
<1>2. ASSUME a.mode = b.mode, a.tag = b.tag
      PROVE  \E x, y : /\ MadeFrom(h, a.mode, a.tag, a.device, x)
                       /\ MadeFrom(h, a.mode, a.tag, b.device, y)
                       /\ x # y \/ Items(a.device) = {}
  <2>1. d.mode = e.mode /\ d.tag = e.tag /\ a.mode = d.mode /\ a.tag = d.tag
    BY <1>2 DEF Less
  <2>2. PICK x, y : /\ MadeFrom(h, d.mode, d.tag, d.device, x)
                    /\ MadeFrom(h, d.mode, d.tag, e.device, y)
                    /\ x # y \/ Items(d.device) = {}
    BY <2>1 DEF Apart
  <2>3. Items(a.device) \subseteq Items(d.device) /\ Items(b.device) \subseteq Items(e.device)
    BY DEF Less
  <2>4. MadeFrom(h, a.mode, a.tag, a.device, x) /\ MadeFrom(h, a.mode, a.tag, b.device, y)
    BY <2>1, <2>2, <2>3, MadeFromLess
  <2>5. QED
    BY <2>2, <2>3, <2>4
<1>3. QED
  BY <1>1, <1>2 DEF Apart

LEMMA CatalogEdit ==
  ASSUME NEW c, NEW h, CatalogOK(c, h), NEW n \in 1 .. Len(c),
         NEW d, Kept(d, Items(c[n].device))
  PROVE  /\ CatalogOK([c EXCEPT ![n].device = d], h)
         /\ Len([c EXCEPT ![n].device = d]) = Len(c)
<1> DEFINE L == Len(c)
           e == [c[n] EXCEPT !.device = d]
           t == [c EXCEPT ![n].device = d]
<1>1. /\ IsSeq(c) /\ \A k \in 1 .. L : EntryOK(c[k], h)
      /\ \A i, j \in 1 .. L : i < j /\ c[j].offered => Apart(c[i], c[j], h)
  BY DEF CatalogOK
<1>2. L \in Nat /\ c = [k \in 1 .. L |-> c[k]] /\ n \in 1 .. L
  BY <1>1, SeqFacts
<1>3. /\ t = [k \in 1 .. L |-> t[k]]
      /\ t[n] = e
      /\ \A k \in 1 .. L : k # n => t[k] = c[k]
  BY <1>2
<1> DEFINE x == c[n]
<1>4. x = [device |-> x.device, offered |-> x.offered, mode |-> x.mode, tag |-> x.tag]
  BY <1>1, <1>2 DEF EntryOK
<1>5. /\ e = [device |-> e.device, offered |-> e.offered, mode |-> e.mode, tag |-> e.tag]
      /\ e.device = d /\ e.offered = x.offered /\ e.mode = x.mode /\ e.tag = x.tag
  <2> HIDE DEF x
  <2>1. e = [x EXCEPT !.device = d]
    BY DEF x
  <2> HIDE DEF e
  <2>2. e = [device |-> d, offered |-> x.offered, mode |-> x.mode, tag |-> x.tag]
    BY <1>4, <2>1
  <2>3. QED
    BY <2>2
<1>6. /\ x.mode \in Modes /\ x.tag \in TagFilters
      /\ Kept(x.device, Names(h)) /\ \E y : MadeFrom(h, x.mode, x.tag, x.device, y)
  BY <1>1, <1>2 DEF EntryOK
<1>7. Items(d) \subseteq Items(x.device) /\ Kept(d, Items(x.device))
  BY DEF Kept
<1> HIDE DEF e, x, t, L
<1>8. EntryOK(e, h)
  <2>1. Kept(e.device, Names(h))
    BY <1>5, <1>6, <1>7 DEF Kept
  <2>2. \E y : MadeFrom(h, e.mode, e.tag, e.device, y)
    BY <1>5, <1>6, <1>7, MadeFromLess
  <2>3. QED
    BY <1>5, <1>6, <2>1, <2>2 DEF EntryOK
<1>9. IsSeq(t) /\ Len(t) = L
  BY <1>2, <1>3, MapIsSeq
<1>10. \A k \in 1 .. L : Less(t[k], c[k]) /\ (t[k].offered <=> c[k].offered)
  BY <1>3, <1>5, <1>7 DEF Less, x
<1>11. \A k \in 1 .. L : EntryOK(t[k], h)
  BY <1>1, <1>3, <1>8
<1>12. ASSUME NEW i \in 1 .. L, NEW j \in 1 .. L, i < j, t[j].offered
       PROVE  Apart(t[i], t[j], h)
  <2>1. Apart(c[i], c[j], h)
    BY <1>1, <1>10, <1>12
  <2>2. QED
    BY <1>10, <2>1, ApartLess
<1>13. QED
  BY <1>9, <1>11, <1>12 DEF CatalogOK, t, L

LEMMA CatalogDelete ==
  ASSUME NEW c, NEW h, CatalogOK(c, h), NEW n \in 1 .. Len(c)
  PROVE  CatalogOK(RemoveAt(c, n), h) /\ Len(RemoveAt(c, n)) = Len(c) - 1
<1> DEFINE L == Len(c)
           t == RemoveAt(c, n)
<1>1. /\ IsSeq(c) /\ \A k \in 1 .. L : EntryOK(c[k], h)
      /\ \A i, j \in 1 .. L : i < j /\ c[j].offered => Apart(c[i], c[j], h)
  BY DEF CatalogOK
<1>2. L \in Nat /\ n \in 1 .. L
  BY <1>1, SeqFacts
<1>3. IsSeq(t) /\ Len(t) = L - 1 /\ \A p \in 1 .. L - 1 : t[p] = c[After(n, p)]
  BY <1>1, RemoveAtFacts
<1> HIDE DEF t, L
<1>4. /\ \A p \in 1 .. L - 1 : After(n, p) \in 1 .. L
      /\ \A p, q \in 1 .. L - 1 : p < q => After(n, p) < After(n, q)
  BY <1>2 DEF After
<1>5. \A p \in 1 .. L - 1 : EntryOK(t[p], h)
  BY <1>1, <1>3, <1>4
<1>6. \A i, j \in 1 .. L - 1 : i < j /\ t[j].offered => Apart(t[i], t[j], h)
  BY <1>1, <1>3, <1>4
<1>7. QED
  BY <1>3, <1>5, <1>6 DEF CatalogOK, t, L



LEMMA ListFacts ==
  ASSUME NEW h \in Houses, NEW mode \in Modes, NEW tag \in TagFilters
  PROVE  LET l == [home |-> h, mode |-> mode, tag |-> tag, drafts |-> DraftsOf(h, mode, tag)]
         IN l \in Inferred /\ l.home = h /\ l.mode = mode /\ l.tag = tag /\ l.drafts = DraftsOf(h, mode, tag)
BY DEF Inferred

LEMMA InferredIs ==
  ASSUME NEW l \in Inferred
  PROVE  /\ l.home \in Houses /\ l.mode \in Modes /\ l.tag \in TagFilters
         /\ l.drafts = DraftsOf(l.home, l.mode, l.tag)
<1>1. PICK h \in Houses, m \in Modes, t \in TagFilters :
        l = [home |-> h, mode |-> m, tag |-> t, drafts |-> DraftsOf(h, m, t)]
  BY DEF Inferred
<1>2. QED
  BY <1>1

StateOK ==
    /\ home \in Houses /\ discoveryMode \in Modes /\ discoveryTag \in TagFilters
    /\ ignored \subseteq Names(home)
    /\ page \subseteq Names(home)
    /\ Len(catalog) <= MaxDevices

IInv == StateOK /\ CatalogOK(catalog, home)

LEMMA DraftedIs ==
  ASSUME home \in Houses, discoveryMode \in Modes, discoveryTag \in TagFilters
  PROVE  Drafted = DraftsOf(home, discoveryMode, discoveryTag)
<1> DEFINE P(l) == l.home = home /\ l.mode = discoveryMode /\ l.tag = discoveryTag
           list == CHOOSE l \in Inferred : P(l)
<1> DEFINE r == [home |-> home, mode |-> discoveryMode, tag |-> discoveryTag,
                 drafts |-> DraftsOf(home, discoveryMode, discoveryTag)]
<1>0. r \in Inferred /\ r.home = home /\ r.mode = discoveryMode /\ r.tag = discoveryTag
  BY ListFacts
<1> HIDE DEF r
<1>1. \E l \in Inferred : P(l)
  BY <1>0
<1>2. list \in Inferred /\ P(list)
  BY <1>1
<1>3. Drafted = list.drafts
  BY DEF Drafted
<1> HIDE DEF list
<1>4. QED
  BY <1>2, <1>3, InferredIs

LEMMA DraftedOK ==
  ASSUME StateOK
  PROVE  /\ Drafted = DraftsOf(home, discoveryMode, discoveryTag)
         /\ HouseOK(home)
         /\ IsSeq(Drafted)
         /\ \A x \in ToSet(Drafted) : DraftOK(home, x)
<1>1. Drafted = DraftsOf(home, discoveryMode, discoveryTag)
  BY DraftedIs DEF StateOK
<1>2. HouseOK(home)
  BY HousesOK DEF StateOK
<1>3. DraftsOK(home, Drafted)
  BY <1>1, <1>2, DraftsOfOK
<1>4. IsSeq(Drafted) /\ \A k \in 1 .. Len(Drafted) : DraftOK(home, Drafted[k])
  BY <1>3 DEF DraftsOK
<1>5. QED
  BY <1>1, <1>2, <1>4, Members

LEMMA OfferedFacts ==
  ASSUME StateOK
  PROVE  /\ {d.source : d \in Offered} \subseteq Names(home)
         /\ \A d \in Offered : Items(d.device) \cap ImportedOpenHABItems = {}
<1>1. \A d : d \in Offered => d \in ToSet(Drafted) /\ ~draftImported(d)
  BY DEF Offered
<1>2. \A d \in ToSet(Drafted) : d.source \in Names(home)
  BY DraftedOK DEF DraftOK
<1>3. QED
  BY <1>1, <1>2 DEF draftImported

LEMMA HeadDraft ==
  ASSUME StateOK, NEW item, draftByItem(item) # <<>>
  PROVE  Head(draftByItem(item)) \in ToSet(Drafted)
<1> DEFINE K == {k \in DOMAIN Drafted : Drafted[k].source = item}
           s == draftByItem(item)
<1>1. IsSeq(Drafted)
  BY DraftedOK
<1>2. s = Only(Drafted, K)
  BY DEF draftByItem
<1> HIDE DEF K, s
<1>3. IsSeq(s) /\ ToSet(s) = {Drafted[k] : k \in {i \in 1 .. Len(Drafted) : i \in K}}
  BY <1>1, <1>2, OnlyPositions
<1>4. Head(s) \in ToSet(s)
  BY <1>3, HeadFacts DEF s
<1>5. PICK k \in 1 .. Len(Drafted) : Head(s) = Drafted[k]
  BY <1>3, <1>4
<1>6. QED
  BY <1>1, <1>5, Members DEF s

LEMMA ImportedFacts ==
  ASSUME IsSeq(catalog)
  PROVE  \A i \in 1 .. Len(catalog) : Items(catalog[i].device) \subseteq ImportedOpenHABItems
<1>1. \A i \in 1 .. Len(catalog) : catalog[i] \in ToSet(catalog)
  BY Members
<1>2. QED
  BY <1>1 DEF ImportedOpenHABItems

\* A device made of a draft is saved: apart from every other, if the draft
\* was on offer.
LEMMA SaveOK ==
  ASSUME IInv, NEW draft \in ToSet(Drafted), NEW d, Kept(Stored(d), Items(draft.device)), Save(draft, d)
  PROVE  IInv'
<1> DEFINE dev == Stored(d)
           b == draft \in Offered
           e == [device |-> dev, offered |-> b, mode |-> discoveryMode, tag |-> discoveryTag]
<1>1. StateOK /\ CatalogOK(catalog, home)
  BY DEF IInv
<1>2. /\ Len(catalog) < MaxDevices /\ catalog' = Append(catalog, e)
      /\ UNCHANGED <<home, discoveryMode, discoveryTag, ignored, page>>
  BY DEF Save, settings
<1>3. e.device = dev /\ e.mode = discoveryMode /\ e.tag = discoveryTag
      /\ e = [device |-> e.device, offered |-> e.offered, mode |-> e.mode, tag |-> e.tag]
  OBVIOUS
<1>4. e.offered => draft \in Offered
  <2>1. b => draft \in Offered
    OBVIOUS
  <2> HIDE DEF b
  <2>2. e.offered = b
    OBVIOUS
  <2>3. QED
    BY <2>1, <2>2
<1>5. Kept(dev, Items(draft.device)) /\ Items(dev) \subseteq Items(draft.device)
  BY DEF Kept
<1>6. Items(draft.device) \subseteq Names(home) /\ draft \in ToSet(DraftsOf(home, discoveryMode, discoveryTag))
  BY <1>1, DraftedOK DEF DraftOK
<1> HIDE DEF dev, e, b
<1>7. MadeFrom(home, discoveryMode, discoveryTag, dev, draft)
  BY <1>5, <1>6 DEF MadeFrom
<1>8. EntryOK(e, home)
  <2>1. Kept(e.device, Names(home))
    BY <1>3, <1>5, <1>6 DEF Kept
  <2>2. \E x : MadeFrom(home, e.mode, e.tag, e.device, x)
    BY <1>3, <1>7
  <2>3. e.mode \in Modes /\ e.tag \in TagFilters
    BY <1>1, <1>3 DEF StateOK
  <2>4. QED
    BY <1>3, <2>1, <2>2, <2>3 DEF EntryOK
<1>9. ASSUME e.offered, NEW i \in 1 .. Len(catalog) PROVE Apart(catalog[i], e, home)
  <2> DEFINE c == catalog[i]
  <2>1. IsSeq(catalog) /\ EntryOK(c, home)
    BY <1>1 DEF CatalogOK
  <2>2. Items(c.device) \subseteq ImportedOpenHABItems
    BY <2>1, ImportedFacts
  <2>3. Items(draft.device) \cap ImportedOpenHABItems = {}
    BY <1>1, <1>4, <1>9, OfferedFacts
  <2> HIDE DEF c
  <2>4. Items(c.device) \cap Items(e.device) = {}
    BY <1>3, <1>5, <2>2, <2>3
  <2>5. ASSUME c.mode = e.mode, c.tag = e.tag
        PROVE  \E x, y : /\ MadeFrom(home, c.mode, c.tag, c.device, x)
                         /\ MadeFrom(home, c.mode, c.tag, e.device, y)
                         /\ x # y \/ Items(c.device) = {}
    <3>1. PICK x : MadeFrom(home, c.mode, c.tag, c.device, x)
      BY <2>1 DEF EntryOK
    <3>2. MadeFrom(home, c.mode, c.tag, e.device, draft)
      BY <1>3, <1>7, <2>5
    <3>3. x = draft => Items(c.device) = {}
      BY <2>2, <2>3, <3>1 DEF MadeFrom
    <3>4. QED
      BY <3>1, <3>2, <3>3
  <2>6. QED
    BY <2>4, <2>5 DEF Apart, c
<1>10. CatalogOK(Append(catalog, e), home) /\ Len(Append(catalog, e)) = Len(catalog) + 1
  BY <1>1, <1>8, <1>9, CatalogAppend
<1>11. CatalogOK(catalog', home')
  BY <1>2, <1>10
<1>12. Len(catalog') <= MaxDevices
  <2>1. Len(catalog) \in Nat
    BY <1>1, SeqFacts DEF CatalogOK
  <2>2. QED
    BY <1>2, <1>10, <2>1, BoundsAssumption
<1>13. StateOK'
  BY <1>1, <1>2, <1>12 DEF StateOK
<1>14. QED
  BY <1>11, <1>13 DEF IInv

LEMMA InitOK ==
  ASSUME Init
  PROVE  IInv
<1>1. IsSeq(catalog) /\ Len(catalog) = 0
  BY EmptyIsSeq DEF Init
<1>2. CatalogOK(catalog, home)
  BY <1>1 DEF CatalogOK
<1>3. StateOK
  BY <1>1, BoundsAssumption DEF Init, StateOK, Modes
<1>4. QED
  BY <1>2, <1>3 DEF IInv

\* A step that leaves the home and the catalog alone.
LEMMA CatalogLeft ==
  ASSUME IInv, UNCHANGED <<home, catalog>>, discoveryMode' \in Modes, discoveryTag' \in TagFilters,
         ignored' \subseteq Names(home), page' \subseteq Names(home)
  PROVE  IInv'
<1>1. CatalogOK(catalog', home')
  BY DEF IInv
<1>2. StateOK'
  BY DEF IInv, StateOK
<1>3. QED
  BY <1>1, <1>2 DEF IInv

\* A step that changes devices only.
LEMMA CatalogChanged ==
  ASSUME IInv, UNCHANGED <<home, discoveryMode, discoveryTag, ignored, page>>,
         NEW c, catalog' = c, CatalogOK(c, home), Len(c) <= Len(catalog)
  PROVE  IInv'
<1>1. Len(catalog) \in Nat /\ Len(c) \in Nat
  BY SeqFacts DEF IInv, CatalogOK
<1>2. Len(catalog') <= MaxDevices
  BY <1>1, BoundsAssumption DEF IInv, StateOK
<1>3. StateOK'
  BY <1>2 DEF IInv, StateOK
<1>4. CatalogOK(catalog', home')
  OBVIOUS
<1>5. QED
  BY <1>3, <1>4 DEF IInv

LEMMA NextOK ==
  ASSUME IInv, [Next]_vars
  PROVE  IInv'
<1>1. StateOK /\ CatalogOK(catalog, home)
  BY DEF IInv
<1>2. IsSeq(catalog) /\ Len(catalog) \in Nat /\ DOMAIN catalog = 1 .. Len(catalog)
      /\ \A k \in 1 .. Len(catalog) : EntryOK(catalog[k], home)
  BY <1>1, SeqFacts DEF CatalogOK
<1>3. CASE Discover
  <2>1. page' \subseteq Names(home)
    BY <1>1, <1>3, OfferedFacts DEF Discover
  <2>2. QED
    BY <1>1, <1>3, <2>1, CatalogLeft DEF Discover, settings, StateOK
<1>4. CASE SetDiscoveryMode
  <2>1. discoveryMode' \in Modes
    BY <1>4 DEF SetDiscoveryMode
  <2>2. QED
    BY <1>1, <1>4, <2>1, CatalogLeft DEF SetDiscoveryMode, Change, StateOK
<1>5. CASE SetDiscoveryTag
  <2>1. discoveryTag' \in TagFilters
    BY <1>5 DEF SetDiscoveryTag
  <2>2. QED
    BY <1>1, <1>5, <2>1, CatalogLeft DEF SetDiscoveryTag, Change, StateOK
<1>6. ASSUME NEW item \in page, IgnoreDiscovered(item) PROVE IInv'
  <2>1. ignored' \subseteq Names(home)
    BY <1>1, <1>6 DEF IgnoreDiscovered, StateOK
  <2>2. QED
    BY <1>1, <1>6, <2>1, CatalogLeft DEF IgnoreDiscovered, Change, settings, StateOK
<1>7. ASSUME NEW item \in ignored, Unignore(item) PROVE IInv'
  <2>1. ignored' \subseteq Names(home)
    BY <1>1, <1>7 DEF Unignore, StateOK
  <2>2. QED
    BY <1>1, <1>7, <2>1, CatalogLeft DEF Unignore, Change, settings, StateOK
<1>8. CASE ClearIgnore
  BY <1>1, <1>8, CatalogLeft DEF ClearIgnore, Change, settings, StateOK
<1>9. ASSUME NEW item \in page, AddDiscovered(item) PROVE IInv'
  <2> DEFINE draft == Head(draftByItem(item))
  <2>1. draftByItem(item) # <<>> /\ Save(draft, draft.device)
    BY <1>9 DEF AddDiscovered
  <2>2. draft \in ToSet(Drafted)
    BY <1>1, <2>1, HeadDraft
  <2> HIDE DEF draft
  <2>3. DeviceOK(draft.device)
    BY <1>1, <2>2, DraftedOK DEF DraftOK
  <2>4. Kept(Stored(draft.device), Items(draft.device))
    BY <2>3, StoredKept
  <2>5. QED
    BY <2>1, <2>2, <2>4, SaveOK
<1>10. ASSUME NEW item \in page, ConfigureDiscovered(item) PROVE IInv'
  <2> DEFINE draft == Head(draftByItem(item))
             d == buildDevice(save(toInput(draft.device)))
  <2>1. draftByItem(item) # <<>> /\ Save(draft, d)
    BY <1>10 DEF ConfigureDiscovered
  <2>2. draft \in ToSet(Drafted)
    BY <1>1, <2>1, HeadDraft
  <2> HIDE DEF draft
  <2>3. DeviceOK(draft.device)
    BY <1>1, <2>2, DraftedOK DEF DraftOK
  <2>4. Kept(Stored(d), Items(draft.device))
    BY <2>3, ConfiguredKept
  <2> HIDE DEF d
  <2>5. QED
    BY <2>1, <2>2, <2>4, SaveOK
<1>11. ASSUME NEW n \in DOMAIN catalog, UpdateDevice(n) PROVE IInv'
  <2>1. PICK in \in Edits(toInput(catalog[n].device)) :
          catalog' = [catalog EXCEPT ![n].device = Stored(buildDevice(save(in)))]
    BY <1>11 DEF UpdateDevice
  <2>2. UNCHANGED <<home, discoveryMode, discoveryTag, ignored, page>>
    BY <1>11 DEF UpdateDevice, Change, settings
  <2>3. n \in 1 .. Len(catalog)
    BY <1>2
  <2>4. DeviceOK(catalog[n].device)
    BY <1>2, <2>3 DEF EntryOK, Kept
  <2> DEFINE d == Stored(buildDevice(save(in)))
  <2>5. Kept(d, Items(catalog[n].device))
    BY <2>1, <2>4, EditedKept
  <2> HIDE DEF d
  <2> DEFINE c == [catalog EXCEPT ![n].device = d]
  <2>6. CatalogOK(c, home) /\ Len(c) = Len(catalog)
    BY <1>1, <2>3, <2>5, CatalogEdit
  <2>7. catalog' = c
    BY <2>1 DEF d
  <2> HIDE DEF c
  <2>8. Len(c) <= Len(catalog)
    BY <1>2, <2>6
  <2>9. QED
    BY <2>2, <2>6, <2>7, <2>8, CatalogChanged
<1>12. ASSUME NEW n \in DOMAIN catalog, DeleteDevice(n) PROVE IInv'
  <2> DEFINE c == RemoveAt(catalog, n)
  <2>1. catalog' = c /\ UNCHANGED <<home, discoveryMode, discoveryTag, ignored, page>>
    BY <1>12 DEF DeleteDevice, Change, settings
  <2>2. n \in 1 .. Len(catalog)
    BY <1>2
  <2>3. CatalogOK(c, home) /\ Len(c) = Len(catalog) - 1
    BY <1>1, <2>2, CatalogDelete
  <2> HIDE DEF c
  <2>4. Len(c) <= Len(catalog)
    BY <1>2, <2>3
  <2>5. QED
    BY <2>1, <2>3, <2>4, CatalogChanged
<1>13. CASE UNCHANGED vars
  BY <1>1, <1>13, CatalogLeft DEF vars, settings, StateOK
<1>14. QED
  BY <1>3, <1>4, <1>5, <1>6, <1>7, <1>8, <1>9, <1>10, <1>11, <1>12, <1>13 DEF Next

LEMMA Invariance ==
  Spec => []IInv
<1>1. Init => IInv
  BY InitOK
<1>2. IInv /\ [Next]_vars => IInv'
  BY NextOK
<1>3. QED
  BY <1>1, <1>2, PTL DEF Spec



-----------------------------------------------------------------------------
(* What the invariant means for the catalog.                               *)

LEMMA DevicesKept ==
  ASSUME CatalogOK(catalog, home)
  PROVE  \A d \in Devices : Kept(d, Names(home))
<1>1. IsSeq(catalog) /\ \A k \in 1 .. Len(catalog) : EntryOK(catalog[k], home)
  BY DEF CatalogOK
<1>2. \A e \in ToSet(catalog) : EntryOK(e, home)
  BY <1>1, Members
<1>3. QED
  BY <1>2 DEF Devices, EntryOK

LEMMA CapsOnce ==
  ASSUME NEW caps, CapsOK(caps)
  PROVE  AtMostOnce([k \in DOMAIN caps |->
                       IF caps[k].act = "color_setting" THEN <<"colour">>
                       ELSE <<caps[k].act, capInstance(caps[k])>>], DOMAIN caps)
<1> DEFINE f == [k \in DOMAIN caps |->
                   IF caps[k].act = "color_setting" THEN <<"colour">>
                   ELSE <<caps[k].act, capInstance(caps[k])>>]
<1>1. IsSeq(caps) /\ \A j, k \in 1 .. Len(caps) : CapKey(caps[j]) = CapKey(caps[k]) => j = k
  BY DEF CapsOK
<1>2. DOMAIN caps = 1 .. Len(caps)
  BY <1>1, SeqFacts
<1>3. ASSUME NEW j \in DOMAIN caps, NEW k \in DOMAIN caps, f[j] = f[k]
      PROVE  j = k
  <2> DEFINE a == caps[j]
             b == caps[k]
  <2>1. /\ f[j] = IF Colour(a) THEN <<"colour">> ELSE <<a.act, capInstance(a)>>
        /\ f[k] = IF Colour(b) THEN <<"colour">> ELSE <<b.act, capInstance(b)>>
    BY DEF Colour
  <2>2. CapKey(a) = CapKey(b) => j = k
    BY <1>1, <1>2
  <2> HIDE DEF f, a, b
  <2>3. \A x, y : <<"colour">> # <<x, y>>
    OBVIOUS
  <2>4. Colour(a) <=> Colour(b)
    BY <1>3, <2>1, <2>3
  <2>5. CapKey(a) = CapKey(b)
    <3>1. CASE Colour(a)
      BY <2>4, <3>1 DEF CapKey
    <3>2. CASE ~Colour(a)
      <4> DEFINE u == capInstance(a)
                 v == capInstance(b)
      <4>1. f[j] = <<a.act, u>> /\ f[k] = <<b.act, v>>
        BY <2>1, <2>4, <3>2
      <4>2. CapKey(a) = u /\ CapKey(b) = v
        BY <2>4, <3>2 DEF CapKey
      <4> HIDE DEF u, v
      <4> DEFINE s == a.act
                 t == b.act
      <4>3. <<s, u>> = <<t, v>>
        BY <1>3, <4>1
      <4> HIDE DEF s, t
      <4>4. u = v
        BY <4>3
      <4>5. QED
        BY <4>2, <4>4
    <3>3. QED
      BY <3>1, <3>2
  <2>6. QED
    BY <2>2, <2>5
<1> HIDE DEF f
<1>4. AtMostOnce(f, DOMAIN caps)
  BY <1>3 DEF AtMostOnce
<1>5. QED
  BY <1>4 DEF f

LEMMA BindOnce ==
  ASSUME NEW bind, BindOK(bind)
  PROVE  AtMostOnce([b \in bind |-> <<b.kind, b.inst>>], bind)
BY DEF BindOK, AtMostOnce

\* Whatever the user does on the page and in the builder, every device of the
\* catalog is one that Yandex accepts: one color_setting, no instance of a
\* capability declared twice or bound twice, and no item that openHAB lacks.
THEOREM TypeCorrect ==
  Spec => []TypeOK
<1>1. ASSUME IInv PROVE TypeOK
  <2>1. StateOK /\ \A d \in Devices : Kept(d, Names(home))
    BY <1>1, DevicesKept DEF IInv
  <2>2. ASSUME NEW d \in Devices
        PROVE  /\ AtMostOnce([k \in DOMAIN d.caps |->
                     IF d.caps[k].act = "color_setting" THEN <<"colour">>
                     ELSE <<d.caps[k].act, capInstance(d.caps[k])>>], DOMAIN d.caps)
               /\ AtMostOnce([b \in d.bind |-> <<b.kind, b.inst>>], d.bind)
               /\ Items(d) \subseteq Names(home)
               /\ d.equipment = Nothing
    <3>1. Kept(d, Names(home)) /\ CapsOK(d.caps) /\ BindOK(d.bind)
      BY <2>1 DEF Kept, DeviceOK
    <3>2. QED
      BY <3>1, CapsOnce, BindOnce DEF Kept
  <2>3. QED
    BY <2>1, <2>2 DEF TypeOK, StateOK
<1>2. QED
  BY <1>1, Invariance, PTL

\* Opening a device in the builder and saving it as it is leaves its type
\* and its controls as they were: its colours, split into rows, are merged
\* again, no control is dropped or added by what the page collects, and each
\* keeps its own item.  Only a mode bound by yahome="mode" is excepted, which
\* loses its item.
THEOREM EditsKeep ==
  Spec => [](\A d \in Devices : KeepsControls(d, Resaved(d)))
<1>1. ASSUME IInv PROVE \A d \in Devices : KeepsControls(d, Resaved(d))
  <2>1. \A d \in Devices : DeviceOK(d) /\ d.equipment = Nothing
    BY <1>1, DevicesKept DEF IInv, Kept
  <2>2. QED
    BY <2>1, ResavedKeeps
<1>2. QED
  BY <1>1, Invariance, PTL

\* In every list the user is shown, each slot of a composite goes to a member
\* tagged for it, or opted in, before one that only defaults to it, and to
\* the first of its kind; every slot a member can fill is filled; and a
\* thermostat exposes no relay that does not opt in.
THEOREM SlotsCorrect ==
  Spec => []SlotsGoToSpecific
<1>1. ASSUME IInv PROVE SlotsGoToSpecific
  <2> DEFINE ds == DraftsOf(home, discoveryMode, discoveryTag)
             l == [home |-> home, mode |-> discoveryMode, tag |-> discoveryTag, drafts |-> ds]
  <2>1. home \in Houses /\ discoveryMode \in Modes /\ discoveryTag \in TagFilters
    BY <1>1 DEF IInv, StateOK
  <2>2. /\ l \in Inferred /\ l.home = home /\ l.mode = discoveryMode /\ l.tag = discoveryTag
        /\ l.drafts = ds
    BY <2>1, ListFacts
  <2>3. \A x \in ToSet(ds) : DraftOK(home, x)
    BY <1>1, DraftedOK DEF IInv
  <2> HIDE DEF l, ds
  <2>4. \A x \in ToSet(l.drafts) : x.device.equipment # Nothing => ComposedWell(l.home, x)
    BY <2>2, <2>3 DEF DraftOK
  <2>5. <<l.home, l.mode, l.tag>> \in AllComposedWell
    BY <2>2, <2>4 DEF AllComposedWell
  <2>6. QED
    BY <2>2, <2>5 DEF SlotsGoToSpecific
<1>2. QED
  BY <1>1, Invariance, PTL

\* A device that was on offer when it was added binds no item of a device
\* that was there before.
NoItemTwice ==
    \A i, j \in DOMAIN catalog : i < j /\ catalog[j].offered =>
        Items(catalog[i].device) \cap Items(catalog[j].device) = {}

LEMMA PairsApart ==
  ASSUME IInv, NEW i \in DOMAIN catalog, NEW j \in DOMAIN catalog, i < j, catalog[j].offered
  PROVE  Apart(catalog[i], catalog[j], home) /\ EntryOK(catalog[i], home)
<1>1. /\ IsSeq(catalog) /\ \A k \in 1 .. Len(catalog) : EntryOK(catalog[k], home)
      /\ \A m, n \in 1 .. Len(catalog) : m < n /\ catalog[n].offered => Apart(catalog[m], catalog[n], home)
  BY DEF IInv, CatalogOK
<1>2. DOMAIN catalog = 1 .. Len(catalog)
  BY <1>1, SeqFacts
<1>3. QED
  BY <1>1, <1>2

\* A draft on offer never becomes a device that binds an item of another,
\* under whichever mode and filter the other was added and however both were
\* edited since, in any home at all.
THEOREM ItemsOnce ==
  Spec => []NoItemTwice
<1>1. ASSUME IInv PROVE NoItemTwice
  BY <1>1, PairsApart DEF NoItemTwice, Apart
<1>2. QED
  BY <1>1, Invariance, PTL



-----------------------------------------------------------------------------
(* Chains of aggregation groups.                                           *)

LEMMA ListFinite ==
  ASSUME NEW s, IsSeq(s)
  PROVE  IsFiniteSet(ToSet(s))
<1>1. /\ Len(s) \in Nat /\ ToSet(s) = {s[i] : i \in 1 .. Len(s)}
      /\ s = [i \in 1 .. Len(s) |-> s[i]]
  BY SeqFacts
<1>2. s \in Surjection(1 .. Len(s), ToSet(s))
  BY <1>1 DEF Surjection
<1>3. IsFiniteSet(1 .. Len(s))
  <2>1. 1 \in Int /\ Len(s) \in Int
    BY <1>1
  <2>2. QED
    BY <2>1, FS_Interval
<1>4. QED
  BY <1>2, <1>3, FS_Surjection

LEMMA NamesFinite ==
  ASSUME NEW h, IsSeq(h)
  PROVE  IsFiniteSet(Names(h)) /\ Cardinality(Names(h)) <= Len(h)
<1> DEFINE f == [i \in 1 .. Len(h) |-> h[i].name]
<1>1. Len(h) \in Nat /\ ToSet(h) = {h[i] : i \in 1 .. Len(h)}
  BY SeqFacts
<1>2. Names(h) = {f[i] : i \in 1 .. Len(h)}
  BY <1>1 DEF Names
<1>3. f \in Surjection(1 .. Len(h), Names(h))
  BY <1>2 DEF Surjection
<1> HIDE DEF f
<1>4. IsFiniteSet(1 .. Len(h)) /\ Cardinality(1 .. Len(h)) = Len(h)
  <2> DEFINE n == Len(h)
  <2>1. n \in Nat
    BY <1>1
  <2> HIDE DEF n
  <2>2. IsFiniteSet(1 .. n) /\ Cardinality(1 .. n) = n
    <3>1. 1 \in Int /\ n \in Int /\ n - 1 + 1 = n /\ (1 > n => n = 0)
      BY <2>1
    <3>2. IsFiniteSet(1 .. n) /\ Cardinality(1 .. n) = IF 1 > n THEN 0 ELSE n - 1 + 1
      BY <3>1, FS_Interval
    <3>3. QED
      BY <3>1, <3>2
  <2>3. QED
    BY <2>2 DEF n
<1>5. QED
  BY <1>3, <1>4, FS_Surjection

\* What HousesAssumption says of groups.
GroupsOK(h) ==
    \A it \in ToSet(h) : /\ it.groups \in Seq(ToSet(it.groups))
                         /\ it.base # "" => it.type = "Group"

GroupsOf(h, x) == ToSet(ItemNamed(h, x).groups)

LEMMA OneGroup ==
  ASSUME NEW h, HouseOK(h), GroupsOK(h), NEW x \in Names(h), ~InTwoGroups(h, x)
  PROVE  \A p, q \in GroupsOf(h, x) : p = q
<1>1. PICK it \in ToSet(h) : it.name = x
  BY DEF Names
<1>2. ItemNamed(h, x) = it
  BY <1>1, ItemFacts
<1> DEFINE G == ToSet(it.groups)
<1>3. IsFiniteSet(G)
  <2>1. IsSeq(it.groups)
    BY DEF GroupsOK, IsSeq
  <2>2. QED
    BY <2>1, ListFinite
<1>4. GroupsOf(h, x) = G /\ ~ (Cardinality(G) > 1)
  BY <1>2 DEF GroupsOf, InTwoGroups
<1> HIDE DEF G
<1>5. ASSUME NEW p \in G, NEW q \in G, p # q PROVE FALSE
  <2> DEFINE T == {p} \cup {q}
  <2>1. IsFiniteSet({p}) /\ Cardinality({p}) = 1
    BY FS_Singleton
  <2>2. Cardinality(T) = 2
    BY <1>5, <2>1, FS_AddElement
  <2>3. T \in SUBSET G
    OBVIOUS
  <2> HIDE DEF T
  <2>4. Cardinality(T) <= Cardinality(G) /\ Cardinality(G) \in Nat
    BY <1>3, <2>3, FS_Subset, FS_CardinalityType
  <2>5. QED
    BY <1>4, <2>2, <2>4
<1>6. QED
  BY <1>4, <1>5

LEMMA AggregationFacts ==
  ASSUME NEW h, HouseOK(h), NEW x
  PROVE  x \in Aggregations(h) <=> x \in Names(h) /\ ItemNamed(h, x).base # ""
<1>1. \A it \in ToSet(h) : ItemNamed(h, it.name) = it
  BY ItemFacts
<1>2. QED
  BY <1>1 DEF Aggregations, Names

LEMMA StepMember ==
  ASSUME NEW h, HouseOK(h), NEW via, NEW S, NEW x
  PROVE  x \in Step(h, via, S) <=>
           /\ x \in Names(h)
           /\ \E p : p \in GroupsOf(h, x) /\ p \in S /\ p \in via
<1>1. \A it \in ToSet(h) : GroupsOf(h, it.name) = ToSet(it.groups)
  BY ItemFacts DEF GroupsOf
<1>2. x \in Step(h, via, S) <=> \E it \in ToSet(h) : it.name = x /\ \E p : p \in ToSet(it.groups) /\ p \in S /\ p \in via
  BY DEF Step
<1>3. QED
  BY <1>1, <1>2 DEF Names

\* A member of the n-th set is one of the set before, or in a group of it;
\* the sets hold all that d drives.
Drives(f, h, d) ==
    /\ f[0] = Items(d)
    /\ \A n \in 1 .. Len(h) + 1 : f[n] = Wider(h, Aggregations(h), f[n - 1])
    /\ \A x \in DrivenIn(h, d) : \E n \in 0 .. Len(h) + 1 : x \in f[n]

LEMMA DrivesExists ==
  ASSUME NEW h, IsSeq(h), NEW d
  PROVE  \E f : Drives(f, h, d)
<1> DEFINE N == Len(h)
           A == Aggregations(h)
           I == Items(d)
<1>1. N \in Nat
  BY SeqFacts
<1>2. PICK f : Reaching(f, h, I, A, N) /\ Below(h, I, A) = UNION {Step(h, A, f[n]) : n \in 0 .. N}
  BY <1>1, BelowUnfold
<1> HIDE DEF A, I
<1> DEFINE F == [k \in 0 .. N + 1 |-> IF k = N + 1 THEN Wider(h, A, f[N]) ELSE f[k]]
<1>3. f[0] = I /\ \A n \in 1 .. N : f[n] = Wider(h, A, f[n - 1])
  BY <1>1, <1>2 DEF Reaching
<1>4. F[0] = I /\ \A n \in 0 .. N : F[n] = f[n]
  BY <1>1, <1>3
<1>5. \A n \in 1 .. N + 1 : F[n] = Wider(h, A, F[n - 1])
  BY <1>1, <1>3
<1>6. \A n \in 0 .. N : Step(h, A, f[n]) \subseteq F[n + 1]
  <2>1. \A n \in 0 .. N : F[n + 1] = Wider(h, A, f[n])
    BY <1>1, <1>3
  <2> HIDE DEF F
  <2>2. QED
    BY <2>1 DEF Wider
<1> HIDE DEF F
<1>7. ASSUME NEW x \in DrivenIn(h, d) PROVE \E n \in 0 .. N + 1 : x \in F[n]
  <2>1. x \in I \/ \E n \in 0 .. N : x \in Step(h, A, f[n])
    BY <1>2 DEF DrivenIn, A, I
  <2>2. CASE x \in I
    BY <1>1, <1>4, <2>2
  <2>3. ASSUME NEW n \in 0 .. N, x \in Step(h, A, f[n]) PROVE \E m \in 0 .. N + 1 : x \in F[m]
    <3>1. n + 1 \in 0 .. N + 1 /\ x \in F[n + 1]
      BY <1>1, <1>6, <2>3
    <3>2. QED
      BY <3>1
  <2>4. QED
    BY <2>1, <2>2, <2>3
<1>8. QED
  BY <1>4, <1>5, <1>7 DEF Drives, A, I

LEMMA DrivesBack ==
  ASSUME NEW h, HouseOK(h), NEW d, NEW f, Drives(f, h, d), NEW n \in 1 .. Len(h) + 1, NEW x \in f[n]
  PROVE  \/ x \in f[n - 1]
         \/ /\ x \in Names(h)
            /\ \E p : p \in GroupsOf(h, x) /\ p \in f[n - 1] /\ p \in Aggregations(h)
<1>1. f[n] = Wider(h, Aggregations(h), f[n - 1])
  BY DEF Drives
<1>2. x \in f[n - 1] \/ x \in Step(h, Aggregations(h), f[n - 1])
  BY <1>1 DEF Wider
<1>3. QED
  BY <1>2, StepMember

\* Whatever is reached is an item of the device, or in an aggregation group.
LEMMA DrivesFrom ==
  ASSUME NEW h, HouseOK(h), NEW d, NEW f, Drives(f, h, d), NEW n \in 0 .. Len(h) + 1, NEW x \in f[n]
  PROVE  x \in Items(d) \/ \E p : p \in GroupsOf(h, x) /\ p \in Aggregations(h)
<1> DEFINE Bad == {k \in Nat : k \in 0 .. Len(h) + 1 /\ x \in f[k]}
<1>1. Len(h) \in Nat
  BY SeqFacts DEF HouseOK
<1>2. PICK k \in Bad : \A m \in Bad : k <= m
  <2>1. Bad \in SUBSET Nat /\ n \in Bad
    BY <1>1
  <2> HIDE DEF Bad
  <2>2. QED
    BY <2>1, LeastExists
<1>3. CASE k = 0
  BY <1>2, <1>3 DEF Drives
<1>4. CASE k # 0
  <2>1. k \in 1 .. Len(h) + 1 /\ k - 1 \in Nat /\ k - 1 \in 0 .. Len(h) + 1 /\ k - 1 \notin Bad
    BY <1>1, <1>2, <1>4
  <2>2. x \notin f[k - 1] /\ x \in f[k]
    BY <1>2, <2>1
  <2> HIDE DEF Bad
  <2>3. QED
    BY <2>1, <2>2, DrivesBack
<1>5. QED
  BY <1>3, <1>4



\* An item of I that is in one group only is in no aggregation group that is
\* driven from J.
Rooted(h, I, J) ==
    \A x \in I : ~InTwoGroups(h, x) =>
        \A p \in GroupsOf(h, x) : p \in Aggregations(h) =>
            p \notin J /\ \A q \in GroupsOf(h, p) : q \notin Aggregations(h)

LEMMA RootsAlone ==
  ASSUME NEW h, HouseOK(h), NEW I, NEW e, NEW g, Drives(g, h, e), Rooted(h, I, Items(e)),
         NEW x \in I, ~InTwoGroups(h, x), NEW m \in 0 .. Len(h) + 1,
         NEW p \in g[m], p \in GroupsOf(h, x), p \in Aggregations(h)
  PROVE  FALSE
<1>1. p \notin Items(e) /\ \A q \in GroupsOf(h, p) : q \notin Aggregations(h)
  BY DEF Rooted
<1>2. QED
  BY <1>1, DrivesFrom

\* Two devices that are rooted apart drive nothing twice: from a thing that
\* both drive, the one chain of its groups leads to an item of one of them,
\* and past it to the other.
LEMMA ChainsApart ==
  ASSUME NEW h, HouseOK(h), GroupsOK(h), Tidy(h), NEW d, NEW e,
         \A x \in Items(d) \cap Items(e) : InTwoGroups(h, x),
         Rooted(h, Items(d), Items(e)), Rooted(h, Items(e), Items(d))
  PROVE  \A x \in DrivenIn(h, d) \cap DrivenIn(h, e) : InTwoGroups(h, x)
<1> DEFINE N == Len(h) + 1
           A == Aggregations(h)
<1>0. N \in Nat /\ N = Len(h) + 1 /\ IsSeq(h)
  BY SeqFacts DEF HouseOK
<1>1. PICK f : Drives(f, h, d)
  BY <1>0, DrivesExists
<1>2. PICK g : Drives(g, h, e)
  BY <1>0, DrivesExists
<1>3. \A p \in A : p \in Names(h) /\ ~InTwoGroups(h, p)
  <2>1. ASSUME NEW p \in A PROVE p \in Names(h) /\ ~InTwoGroups(h, p)
    <3>1. PICK it \in ToSet(h) : it.name = p /\ it.base # ""
      BY <2>1 DEF Aggregations
    <3>2. QED
      BY <3>1 DEF Tidy, Names
  <2>2. QED
    BY <2>1
<1> HIDE DEF N, A
<1> DEFINE Met(s) == \E n, m \in 0 .. N : s = n + m /\ \E x : x \in f[n] /\ x \in g[m] /\ ~InTwoGroups(h, x)
           Bad == {s \in Nat : Met(s)}
<1>4. Bad = {}
  <2>1. SUFFICES ASSUME Bad # {} PROVE FALSE
    OBVIOUS
  <2>2. PICK s \in Bad : \A t \in Bad : s <= t
    <3>1. Bad \in SUBSET Nat
      OBVIOUS
    <3> HIDE DEF Bad
    <3>2. QED
      BY <2>1, <3>1, LeastExists
  <2>3. PICK n \in 0 .. N, m \in 0 .. N : s = n + m /\ \E x : x \in f[n] /\ x \in g[m] /\ ~InTwoGroups(h, x)
    BY <2>2
  <2>4. PICK x : x \in f[n] /\ x \in g[m] /\ ~InTwoGroups(h, x)
    BY <2>3
  <2>5. ASSUME NEW i \in 0 .. N, NEW j \in 0 .. N, i + j < n + m,
               NEW y \in f[i], y \in g[j], ~InTwoGroups(h, y)
        PROVE  FALSE
    <3>1. Met(i + j)
      BY <2>5
    <3>2. i + j \in Nat /\ i + j \in Bad
      BY <3>1
    <3>3. s <= i + j
      BY <2>2, <3>2
    <3> HIDE DEF Bad
    <3>4. QED
      BY <1>0, <2>3, <2>5, <3>3
  <2> HIDE DEF Bad, Met
  <2>6. /\ n # 0 => n \in 1 .. N /\ n - 1 \in 0 .. N
        /\ m # 0 => m \in 1 .. N /\ m - 1 \in 0 .. N
    BY <1>0
  <2>7. n # 0 => \/ x \in f[n - 1]
                 \/ x \in Names(h) /\ \E p : p \in GroupsOf(h, x) /\ p \in f[n - 1] /\ p \in A
    BY <1>0, <1>1, <2>4, <2>6, DrivesBack DEF A
  <2>8. m # 0 => \/ x \in g[m - 1]
                 \/ x \in Names(h) /\ \E p : p \in GroupsOf(h, x) /\ p \in g[m - 1] /\ p \in A
    BY <1>0, <1>2, <2>4, <2>6, DrivesBack DEF A
  <2>9. n # 0 => x \notin f[n - 1]
    <3>1. n # 0 => (n - 1) + m < n + m
      BY <1>0
    <3>2. QED
      BY <2>4, <2>5, <2>6, <3>1
  <2>10. m # 0 => x \notin g[m - 1]
    <3>1. m # 0 => n + (m - 1) < n + m
      BY <1>0
    <3>2. QED
      BY <2>4, <2>5, <2>6, <3>1
  <2>11. n = 0 => x \in Items(d)
    BY <1>1, <2>4 DEF Drives
  <2>12. m = 0 => x \in Items(e)
    BY <1>2, <2>4 DEF Drives
  <2>13. CASE n = 0 /\ m = 0
    BY <2>4, <2>11, <2>12, <2>13
  <2>14. CASE n = 0 /\ m # 0
    <3>1. PICK p : p \in GroupsOf(h, x) /\ p \in g[m - 1] /\ p \in Aggregations(h)
      BY <2>8, <2>10, <2>14 DEF A
    <3>2. x \in Items(d) /\ m - 1 \in 0 .. Len(h) + 1
      BY <1>0, <2>6, <2>11, <2>14
    <3>3. QED
      BY <1>2, <2>4, <3>1, <3>2, RootsAlone
  <2>15. CASE n # 0 /\ m = 0
    <3>1. PICK p : p \in GroupsOf(h, x) /\ p \in f[n - 1] /\ p \in Aggregations(h)
      BY <2>7, <2>9, <2>15 DEF A
    <3>2. x \in Items(e) /\ n - 1 \in 0 .. Len(h) + 1
      BY <1>0, <2>6, <2>12, <2>15
    <3>3. QED
      BY <1>1, <2>4, <3>1, <3>2, RootsAlone
  <2>16. CASE n # 0 /\ m # 0
    <3>1. PICK p : x \in Names(h) /\ p \in GroupsOf(h, x) /\ p \in f[n - 1] /\ p \in A
      BY <2>7, <2>9, <2>16
    <3>2. PICK q : q \in GroupsOf(h, x) /\ q \in g[m - 1] /\ q \in A
      BY <2>8, <2>10, <2>16
    <3>3. p = q
      BY <2>4, <3>1, <3>2, OneGroup
    <3>4. ~InTwoGroups(h, p)
      BY <1>3, <3>1
    <3>5. (n - 1) + (m - 1) < n + m
      BY <1>0
    <3>6. QED
      BY <2>5, <2>6, <2>16, <3>1, <3>2, <3>3, <3>4, <3>5
  <2>17. QED
    BY <2>13, <2>14, <2>15, <2>16
<1>5. ASSUME NEW x \in DrivenIn(h, d) \cap DrivenIn(h, e), ~InTwoGroups(h, x) PROVE FALSE
  <2>1. PICK n \in 0 .. N : x \in f[n]
    BY <1>0, <1>1, <1>5 DEF Drives
  <2>2. PICK m \in 0 .. N : x \in g[m]
    BY <1>0, <1>2, <1>5 DEF Drives
  <2>3. Met(n + m) /\ n + m \in Nat
    BY <1>0, <1>5, <2>1, <2>2
  <2>4. QED
    BY <1>4, <2>3
<1>6. QED
  BY <1>5

\* An item that is no group drives itself only.
LEMMA SingleDrives ==
  ASSUME NEW h, HouseOK(h), NEW d, NEW x, Items(d) \subseteq {x}, x \notin Aggregations(h)
  PROVE  DrivenIn(h, d) \subseteq {x}
<1>0. Len(h) \in Nat /\ IsSeq(h)
  BY SeqFacts DEF HouseOK
<1>1. PICK f : Drives(f, h, d)
  BY <1>0, DrivesExists
<1> DEFINE Bad == {n \in Nat : n \in 0 .. Len(h) + 1 /\ \E y : y \in f[n] /\ y # x}
<1>2. Bad = {}
  <2>1. SUFFICES ASSUME Bad # {} PROVE FALSE
    OBVIOUS
  <2>2. PICK n \in Bad : \A m \in Bad : n <= m
    <3>1. Bad \in SUBSET Nat
      OBVIOUS
    <3> HIDE DEF Bad
    <3>2. QED
      BY <2>1, <3>1, LeastExists
  <2>3. PICK y : y \in f[n] /\ y # x
    BY <2>2
  <2>4. n # 0
    BY <1>1, <2>3 DEF Drives
  <2>5. n \in 1 .. Len(h) + 1 /\ n - 1 \in Nat /\ n - 1 \in 0 .. Len(h) + 1 /\ n - 1 \notin Bad
    BY <1>0, <2>2, <2>4
  <2>6. \A z : z \in f[n - 1] => z = x
    BY <2>5
  <2> HIDE DEF Bad
  <2>7. QED
    BY <1>1, <2>3, <2>5, <2>6, DrivesBack
<1>3. ASSUME NEW y \in DrivenIn(h, d) PROVE y = x
  <2>1. PICK n \in 0 .. Len(h) + 1 : y \in f[n]
    BY <1>1 DEF Drives
  <2>2. QED
    BY <1>0, <1>2, <2>1
<1>4. QED
  BY <1>3





\* What a composite consumes is closed: as there are no more steps to take
\* than items, the last one takes in whatever is in a group of it.
LEMMA BelowClosed ==
  ASSUME NEW h, HouseOK(h), NEW g \in Names(h)
  PROVE  /\ Step(h, Names(h), {g}) \subseteq Below(h, {g}, Names(h))
         /\ Step(h, Names(h), Below(h, {g}, Names(h))) \subseteq Below(h, {g}, Names(h))
<1> DEFINE N == Len(h)
           V == Names(h)
           B == Below(h, {g}, V)
           Closed(S) == Step(h, V, S) \subseteq S
<1>0. N \in Nat
  BY SeqFacts DEF HouseOK
<1>1. PICK f : Reaching(f, h, {g}, V, N) /\ B = UNION {Step(h, V, f[n]) : n \in 0 .. N}
  BY <1>0, BelowUnfold
<1>2. IsFiniteSet(V) /\ Cardinality(V) <= N /\ Cardinality(V) \in Nat
  BY NamesFinite, FS_CardinalityType DEF HouseOK
<1>3. g \in V /\ \A S : Step(h, V, S) \subseteq V
  BY DEF Step, Names
<1> HIDE DEF V, B
<1>4. f[0] = {g} /\ \A n \in 1 .. N : f[n] = f[n - 1] \cup Step(h, V, f[n - 1])
  <2>1. f = [k \in 0 .. N |-> IF k = 0 THEN {g} ELSE f[k - 1] \cup Step(h, V, f[k - 1])]
    BY <1>1 DEF Reaching, Wider
  <2>2. 0 \in 0 .. N /\ \A n \in 1 .. N : n \in 0 .. N /\ n # 0
    BY <1>0
  <2> HIDE DEF N
  <2>3. \A k \in 0 .. N : f[k] = IF k = 0 THEN {g} ELSE f[k - 1] \cup Step(h, V, f[k - 1])
    BY <2>1
  <2>4. QED
    BY <2>2, <2>3
<1>5. \A n \in 0 .. N : Step(h, V, f[n]) \subseteq B
  BY <1>1
<1> DEFINE Good(n) == f[n] \subseteq V /\ (Closed(f[n]) \/ Cardinality(f[n]) >= n + 1)
           Bad == {n \in Nat : n \in 0 .. N /\ ~Good(n)}
<1>6. Bad = {}
  <2>1. SUFFICES ASSUME Bad # {} PROVE FALSE
    OBVIOUS
  <2>2. PICK n \in Bad : \A m \in Bad : n <= m
    <3>1. Bad \in SUBSET Nat
      OBVIOUS
    <3> HIDE DEF Bad
    <3>2. QED
      BY <2>1, <3>1, LeastExists
  <2>3. n # 0
    <3>1. Cardinality({g}) = 1
      BY FS_Singleton
    <3>2. Good(0)
      BY <1>3, <1>4, <3>1
    <3>3. QED
      BY <2>2, <3>2
  <2> DEFINE m == n - 1
  <2>4. n \in 1 .. N /\ m \in Nat /\ m \in 0 .. N /\ m \notin Bad /\ n = m + 1
    BY <2>2, <2>3
  <2>5. Good(m) /\ ~Good(n)
    BY <2>2, <2>4
  <2>6. f[n] = f[m] \cup Step(h, V, f[m])
    BY <1>4, <2>4
  <2> HIDE DEF m, Bad
  <2>7. f[n] \subseteq V
    BY <1>3, <2>5, <2>6
  <2>8. CASE Closed(f[m])
    BY <2>5, <2>6, <2>7, <2>8
  <2>9. CASE ~Closed(f[m])
    <3>1. PICK x : x \in Step(h, V, f[m]) /\ x \notin f[m]
      BY <2>9
    <3> DEFINE S == f[m]
               T == S \cup {x}
    <3>2. IsFiniteSet(S) /\ IsFiniteSet(f[n])
      BY <1>2, <2>5, <2>7, FS_Subset
    <3>3. Cardinality(S) >= m + 1 /\ Cardinality(S) \in Nat
      BY <2>5, <2>9, <3>2, FS_CardinalityType
    <3>4. T \subseteq f[n] /\ x \notin S
      BY <2>6, <3>1
    <3> HIDE DEF S
    <3>5. Cardinality(T) = Cardinality(S) + 1
      BY <3>2, <3>4, FS_AddElement
    <3> HIDE DEF T
    <3>6. Cardinality(T) <= Cardinality(f[n]) /\ Cardinality(f[n]) \in Nat
      BY <3>2, <3>4, FS_Subset, FS_CardinalityType
    <3>7. Cardinality(f[n]) >= n + 1
      BY <2>4, <3>3, <3>5, <3>6
    <3>8. QED
      BY <2>5, <2>7, <3>7
  <2>10. QED
    BY <2>8, <2>9
<1>7. Closed(f[N])
  <2>1. Good(N)
    BY <1>0, <1>6
  <2>2. Cardinality(f[N]) <= Cardinality(V) /\ Cardinality(f[N]) \in Nat
    BY <1>2, <2>1, FS_Subset, FS_CardinalityType
  <2>3. ~ (Cardinality(f[N]) >= N + 1)
    BY <1>0, <1>2, <2>2
  <2>4. QED
    BY <2>1, <2>3
<1>8. ASSUME NEW x \in Step(h, V, B) PROVE x \in B
  <2>1. PICK p : x \in V /\ p \in GroupsOf(h, x) /\ p \in B /\ p \in V
    BY <1>8, StepMember DEF V
  <2>2. PICK n \in 0 .. N : p \in Step(h, V, f[n])
    BY <1>1, <2>1
  <2>3. \E k \in 0 .. N : p \in f[k]
    <3>1. CASE n = N
      BY <1>0, <1>7, <2>2, <3>1
    <3>2. CASE n # N
      <4>1. n + 1 \in 1 .. N /\ n + 1 \in 0 .. N /\ (n + 1) - 1 = n
        BY <1>0, <3>2
      <4>2. f[n + 1] = f[n] \cup Step(h, V, f[n])
        BY <1>4, <4>1
      <4>3. QED
        BY <2>2, <4>1, <4>2
    <3>3. QED
      BY <3>1, <3>2
  <2>4. PICK k \in 0 .. N : p \in f[k]
    BY <2>3
  <2>5. x \in Step(h, V, f[k])
    BY <2>1, <2>4, StepMember DEF V
  <2>6. QED
    BY <1>5, <2>5
<1>9. Step(h, V, {g}) \subseteq B
  <2>1. 0 \in 0 .. N
    BY <1>0
  <2>2. QED
    BY <1>4, <1>5, <2>1
<1>10. QED
  BY <1>8, <1>9 DEF V, B

\* A device of a group's members drives nothing that is not below the group.
LEMMA GroupConsumes ==
  ASSUME NEW h, HouseOK(h), NEW g \in Names(h), NEW d,
         \A y \in Items(d) : y \in Names(h) /\ g \in GroupsOf(h, y)
  PROVE  DrivenIn(h, d) \subseteq Below(h, {g}, Names(h))
<1> DEFINE N == Len(h) + 1
           V == Names(h)
           B == Below(h, {g}, V)
<1>0. Len(h) \in Nat /\ IsSeq(h)
  BY SeqFacts DEF HouseOK
<1>1. PICK f : Drives(f, h, d)
  BY <1>0, DrivesExists
<1>2. Step(h, V, {g}) \subseteq B /\ Step(h, V, B) \subseteq B
  BY BelowClosed
<1>3. Aggregations(h) \subseteq V
  BY DEF Aggregations, Names
<1> HIDE DEF B
<1>4. Items(d) \subseteq B
  <2>1. ASSUME NEW y \in Items(d) PROVE y \in Step(h, V, {g})
    <3>1. y \in Names(h) /\ g \in GroupsOf(h, y) /\ g \in {g}
      OBVIOUS
    <3>2. QED
      BY <3>1, StepMember
  <2>2. QED
    BY <1>2, <2>1
<1> HIDE DEF V
<1> DEFINE Bad == {n \in Nat : n \in 0 .. N /\ ~ (f[n] \subseteq B)}
<1>5. Bad = {}
  <2>1. SUFFICES ASSUME Bad # {} PROVE FALSE
    OBVIOUS
  <2>2. PICK n \in Bad : \A m \in Bad : n <= m
    <3>1. Bad \in SUBSET Nat
      OBVIOUS
    <3> HIDE DEF Bad
    <3>2. QED
      BY <2>1, <3>1, LeastExists
  <2>3. PICK x : x \in f[n] /\ x \notin B
    BY <2>2
  <2>4. n # 0
    BY <1>1, <1>4, <2>3 DEF Drives
  <2>5. n \in 1 .. Len(h) + 1 /\ n - 1 \in Nat /\ n - 1 \in 0 .. N /\ n - 1 \notin Bad
    BY <1>0, <2>2, <2>4
  <2>6. f[n - 1] \subseteq B
    BY <2>5
  <2> HIDE DEF Bad
  <2>7. PICK p : x \in Names(h) /\ p \in GroupsOf(h, x) /\ p \in f[n - 1] /\ p \in Aggregations(h)
    BY <1>1, <2>3, <2>5, <2>6, DrivesBack
  <2>8. x \in Step(h, V, B)
    <3>1. p \in B /\ p \in V
      BY <1>3, <2>6, <2>7
    <3>2. QED
      BY <2>7, <3>1, StepMember
  <2>9. QED
    BY <1>2, <2>3, <2>8
<1>6. ASSUME NEW x \in DrivenIn(h, d) PROVE x \in B
  <2>1. PICK n \in 0 .. N : x \in f[n]
    BY <1>1 DEF Drives
  <2>2. QED
    BY <1>0, <1>5, <2>1
<1>7. QED
  BY <1>6 DEF B, V





-----------------------------------------------------------------------------
(* Where a draft comes from.                                               *)

\* The draft x is the composite of the Equipment g, of items in g.
GroupMade(h, x, g) ==
    /\ g \in ToSet(h) /\ IsEquipment(g) /\ ~g.point
    /\ draftForGroup(g, equipmentType(g.tags), MembersOf(h, g.name)) = <<x>>
    /\ \A y \in Items(x.device) : y \in Names(h) /\ g.name \in GroupsOf(h, y)

\* The draft x is that of the item it alone.
ItemMade(h, x, it) ==
    /\ it \in ToSet(h)
    /\ draftForItem(it) = <<x>>
    /\ Items(x.device) \subseteq {it.name}

LEMMA MembersIn ==
  ASSUME NEW h, HouseOK(h), NEW g
  PROVE  /\ IsSeq(MembersOf(h, g))
         /\ \A k \in 1 .. Len(MembersOf(h, g)) :
              /\ MembersOf(h, g)[k].name \in Names(h)
              /\ MembersOf(h, g)[k].name # Nothing
              /\ g \in GroupsOf(h, MembersOf(h, g)[k].name)
<1> DEFINE K == {k \in DOMAIN h : hasTag(h[k].groups, g)}
           s == Only(h, K)
<1>0. IsSeq(h) /\ DOMAIN h = 1 .. Len(h)
  BY SeqFacts DEF HouseOK
<1>1. MembersOf(h, g) = s
  BY DEF MembersOf
<1>2. \A k \in K : g \in ToSet(h[k].groups)
  BY DEF hasTag
<1> HIDE DEF K
<1>3. IsSeq(s) /\ ToSet(s) = {h[k] : k \in {i \in 1 .. Len(h) : i \in K}}
  BY <1>0, OnlyPositions
<1> HIDE DEF s
<1>4. ASSUME NEW k \in 1 .. Len(s)
      PROVE  s[k].name \in Names(h) /\ s[k].name # Nothing /\ g \in GroupsOf(h, s[k].name)
  <2>1. s[k] \in ToSet(s)
    BY <1>3, Members
  <2>2. PICK i \in 1 .. Len(h) : s[k] = h[i] /\ i \in K
    BY <1>3, <2>1
  <2>3. h[i] \in ToSet(h) /\ g \in ToSet(h[i].groups)
    BY <1>0, <1>2, <2>2, Members
  <2>4. ItemNamed(h, h[i].name) = h[i] /\ h[i].name \in Names(h) /\ h[i].name # Nothing
    BY <2>3, ItemFacts
  <2>5. QED
    BY <2>2, <2>3, <2>4 DEF GroupsOf
<1>5. QED
  BY <1>1, <1>3, <1>4

LEMMA GroupDraftMade ==
  ASSUME NEW h, HouseOK(h), NEW g \in ToSet(h), IsEquipment(g), ~g.point
  PROVE  LET r == draftForGroup(g, equipmentType(g.tags), MembersOf(h, g.name))
         IN r = <<>> \/ \E x : r = <<x>> /\ GroupMade(h, x, g)
<1> DEFINE members == MembersOf(h, g.name)
           type == equipmentType(g.tags)
           fs == Composed(members, type)
           r == Draft(g, Found(fs, type), g.name)
<1>1. draftForGroup(g, type, members) = r
  BY DEF draftForGroup, Composed
<1>2. IsSeq(members) /\ \A k \in 1 .. Len(members) : /\ members[k].name \in Names(h)
                                                     /\ members[k].name # Nothing
                                                     /\ g.name \in GroupsOf(h, members[k].name)
  BY MembersIn
<1> HIDE DEF members, type, fs
<1>3. /\ FeaturesOK(fs)
      /\ \A k \in 1 .. Len(fs) : \E w : Wins(members, type, fs[k], w) /\ fs[k].item = members[w].name
  BY <1>2, ComposedOK DEF fs
<1>4. ASSUME NEW k \in 1 .. Len(fs)
      PROVE  fs[k].item \in Names(h) /\ fs[k].item # Nothing /\ g.name \in GroupsOf(h, fs[k].item)
  BY <1>2, <1>3 DEF Wins
<1>5. Named(fs)
  BY <1>4 DEF Named
<1> DEFINE d == assemble(type, fs)
<1>6. /\ DeviceOK(d)
      /\ \A x : x \in Items(d) <=> \E k \in 1 .. Len(fs) : x = fs[k].item
  BY <1>3, <1>5, AssembleOK
<1> HIDE DEF d
<1>7. ASSUME NEW x, r = <<x>>, DraftOf(x, g, fs, type, g.name) PROVE GroupMade(h, x, g)
  <2>1. x.device = Equipped(d, g.name)
    BY <1>7 DEF DraftOf, d
  <2>2. Items(x.device) = Items(d)
    BY <1>6, <2>1, EquippedOK
  <2>3. \A y \in Items(x.device) : y \in Names(h) /\ g.name \in GroupsOf(h, y)
    BY <1>4, <1>6, <2>2
  <2>4. draftForGroup(g, equipmentType(g.tags), MembersOf(h, g.name)) = <<x>>
    BY <1>1, <1>7 DEF type, members
  <2>5. QED
    BY <2>3, <2>4 DEF GroupMade
<1>8. r = <<>> \/ \E x : r = <<x>> /\ DraftOf(x, g, fs, type, g.name)
  BY DraftIs
<1> HIDE DEF r
<1>9. r = <<>> \/ \E x : r = <<x>> /\ GroupMade(h, x, g)
  BY <1>7, <1>8
<1>10. QED
  BY <1>1, <1>9 DEF members, type

LEMMA ItemDraftMade ==
  ASSUME NEW h, HouseOK(h), NEW it \in ToSet(h)
  PROVE  draftForItem(it) = <<>> \/ \E x : draftForItem(it) = <<x>> /\ ItemMade(h, x, it)
<1> DEFINE found == featuresForItem(it, NoType)
           fs == found.features
           type == found.type
           r == draftForItem(it)
<1>1. FeaturesOK(fs) /\ AllFrom(fs, it.name)
  BY FeaturesForItemOK DEF FoundOK
<1>2. it.name # Nothing
  BY ItemFacts
<1>3. r = Draft(it, Found(fs, type), Nothing)
  BY DEF draftForItem, Draft, Found
<1> HIDE DEF fs, type, r
<1>4. Named(fs)
  BY <1>1, <1>2 DEF Named, AllFrom
<1> DEFINE d == assemble(type, fs)
<1>5. /\ DeviceOK(d)
      /\ \A x : x \in Items(d) <=> \E k \in 1 .. Len(fs) : x = fs[k].item
  BY <1>1, <1>4, AssembleOK
<1> HIDE DEF d
<1>6. Items(d) \subseteq {it.name}
  BY <1>1, <1>5 DEF AllFrom
<1>7. ASSUME NEW x, r = <<x>>, DraftOf(x, it, fs, type, Nothing) PROVE ItemMade(h, x, it)
  <2>1. x.device = Equipped(d, Nothing)
    BY <1>7 DEF DraftOf, d
  <2>2. Items(x.device) = Items(d)
    BY <1>5, <2>1, EquippedOK
  <2>3. QED
    BY <1>6, <1>7, <2>2 DEF ItemMade, r
<1>8. r = <<>> \/ \E x : r = <<x>> /\ DraftOf(x, it, fs, type, Nothing)
  BY <1>3, DraftIs
<1>9. QED
  BY <1>7, <1>8 DEF r

LEMMA EachMade ==
  ASSUME NEW h, HouseOK(h), NEW K, NEW x \in ToSet(draftForEach(Only(h, K)))
  PROVE  \E k \in 1 .. Len(h) : k \in K /\ ItemMade(h, x, h[k])
<1> DEFINE items == Only(h, K)
           R == [k \in DOMAIN items |-> draftForItem(items[k])]
<1>0. IsSeq(h)
  BY DEF HouseOK
<1>1. IsSeq(items) /\ ToSet(items) = {h[k] : k \in {i \in 1 .. Len(h) : i \in K}}
  BY <1>0, OnlyPositions
<1>2. x \in ToSet(FlattenSeq(R))
  BY DEF draftForEach
<1> HIDE DEF items
<1>3. Len(items) \in Nat /\ DOMAIN items = 1 .. Len(items)
  BY <1>1, SeqFacts
<1>4. R = [k \in 1 .. Len(items) |-> R[k]] /\ \A k \in 1 .. Len(items) : R[k] = draftForItem(items[k])
  BY <1>3
<1> HIDE DEF R
<1>5. IsSeq(R) /\ Len(R) = Len(items)
  BY <1>3, <1>4, MapIsSeq
<1>6. ASSUME NEW k \in 1 .. Len(R)
      PROVE  \E i \in 1 .. Len(h) : /\ i \in K /\ R[k] = draftForItem(h[i])
                                    /\ h[i] \in ToSet(h)
  <2>1. items[k] \in ToSet(items)
    BY <1>1, <1>5, Members
  <2>2. PICK i \in 1 .. Len(h) : i \in K /\ items[k] = h[i]
    BY <1>1, <2>1
  <2>3. h[i] \in ToSet(h)
    BY <1>0, Members
  <2>4. QED
    BY <1>4, <1>5, <2>2, <2>3
<1>7. \A k \in 1 .. Len(R) : IsSeq(R[k])
  <2>1. ASSUME NEW k \in 1 .. Len(R) PROVE IsSeq(R[k])
    <3>1. PICK i \in 1 .. Len(h) : R[k] = draftForItem(h[i]) /\ h[i] \in ToSet(h)
      BY <1>6
    <3>2. QED
      BY <3>1, ItemDraftOK DEF DraftsOK
  <2>2. QED
    BY <2>1
<1>8. ToSet(FlattenSeq(R)) = UNION {ToSet(R[k]) : k \in 1 .. Len(R)}
  BY <1>5, <1>7, FlattenElements
<1>9. PICK k \in 1 .. Len(R) : x \in ToSet(R[k])
  BY <1>2, <1>8
<1>10. PICK i \in 1 .. Len(h) : i \in K /\ R[k] = draftForItem(h[i]) /\ h[i] \in ToSet(h)
  BY <1>6
<1> DEFINE it == h[i]
<1>11. draftForItem(it) = <<>> \/ \E y : draftForItem(it) = <<y>> /\ ItemMade(h, y, it)
  BY <1>10, ItemDraftMade
<1> HIDE DEF it
<1>12. CASE draftForItem(it) = <<>>
  <2>1. R[k] = <<>>
    BY <1>10, <1>12 DEF it
  <2>2. QED
    BY <1>9, <2>1, EmptyIsSeq
<1>13. ASSUME NEW y, draftForItem(it) = <<y>>, ItemMade(h, y, it)
       PROVE  \E m \in 1 .. Len(h) : m \in K /\ ItemMade(h, x, h[m])
  <2>1. R[k] = <<y>>
    BY <1>10, <1>13 DEF it
  <2>2. ToSet(R[k]) = {y}
    BY <2>1, OneIsSeq
  <2>3. x = y
    BY <1>9, <2>2
  <2>4. QED
    BY <1>10, <1>13, <2>3 DEF it
<1>14. QED
  BY <1>11, <1>12, <1>13





\* Pass 1: every draft is that of an Equipment, and all that is below the
\* Equipment is consumed.
ComposedFrom(h, acc) ==
    /\ IsSeq(acc.drafts)
    /\ \A x \in ToSet(acc.drafts) : \E g : /\ GroupMade(h, x, g)
                                           /\ Below(h, {g.name}, Names(h)) \subseteq acc.consumed

LEMMA ComposeMade ==
  ASSUME NEW h, HouseOK(h), NEW tag, NEW acc, ComposedFrom(h, acc), NEW it \in ToSet(h)
  PROVE  ComposedFrom(h, Compose(h, tag, acc, it))
<1> DEFINE draft == draftForGroup(it, equipmentType(it.tags), MembersOf(h, it.name))
           below == Below(h, {it.name}, Names(h))
           skip == ~IsEquipment(it) \/ ~Candidate(it, tag) \/ it.point \/ it.name \in acc.consumed
           r == Compose(h, tag, acc, it)
<1>1. r = IF skip THEN acc ELSE Consume(acc, draft, below)
  BY DEF Compose
<1>2. CASE skip
  <2>1. r = acc
    BY <1>1, <1>2
  <2>2. QED
    BY <2>1
<1>3. CASE ~skip
  <2>1. r = Consume(acc, draft, below) /\ IsEquipment(it) /\ ~it.point
    BY <1>1, <1>3
  <2>2. draft = <<>> \/ \E x : draft = <<x>> /\ GroupMade(h, x, it)
    BY <2>1, GroupDraftMade
  <2> HIDE DEF draft, r
  <2>3. CASE draft = <<>>
    <3>1. r = acc
      BY <2>1, <2>3 DEF Consume
    <3>2. QED
      BY <3>1 DEF r
  <2>4. ASSUME NEW x, draft = <<x>>, GroupMade(h, x, it) PROVE ComposedFrom(h, r)
    <3> DEFINE old == acc.drafts
               new == <<x>>
    <3>1. IsSeq(old) /\ IsSeq(new) /\ ToSet(new) = {x}
      BY OneIsSeq DEF ComposedFrom
    <3>2. r.drafts = old \o new /\ r.consumed = acc.consumed \cup below
      <4>1. draft # <<>>
        <5>1. ToSet(draft) = {x}
          BY <2>4, <3>1
        <5>2. QED
          BY <5>1, EmptyIsSeq
      <4>2. r = [drafts |-> acc.drafts \o draft, consumed |-> acc.consumed \cup below]
        BY <2>1, <4>1 DEF Consume
      <4>3. QED
        BY <2>4, <4>2
    <3> HIDE DEF new, below
    <3>3. IsSeq(old \o new) /\ \A y : y \in ToSet(old \o new) <=> y \in ToSet(old) \/ y \in ToSet(new)
      <4> HIDE DEF old
      <4>1. QED
        BY <3>1, ConcatFacts
    <3>4. ASSUME NEW y \in ToSet(r.drafts)
          PROVE  \E g : GroupMade(h, y, g) /\ Below(h, {g.name}, Names(h)) \subseteq r.consumed
      <4>1. CASE y \in ToSet(old)
        <5>1. PICK g : GroupMade(h, y, g) /\ Below(h, {g.name}, Names(h)) \subseteq acc.consumed
          BY <4>1 DEF ComposedFrom
        <5>2. QED
          BY <3>2, <5>1
      <4>2. CASE y = x
        BY <2>4, <3>2, <4>2 DEF below
      <4>3. QED
        BY <3>1, <3>2, <3>3, <4>1, <4>2
    <3>5. QED
      BY <3>2, <3>3, <3>4 DEF ComposedFrom
  <2>5. QED
    BY <2>2, <2>3, <2>4 DEF r
<1>4. QED
  BY <1>2, <1>3

LEMMA ComposeAllMade ==
  ASSUME NEW h, HouseOK(h), NEW tag
  PROVE  ComposedFrom(h, ComposeAll(h, tag))
<1> DEFINE N == Len(h)
<1>0. IsSeq(h)
  BY DEF HouseOK
<1>1. N \in Nat
  BY <1>0, SeqFacts
<1>2. PICK f : Composing(f, h, tag, N) /\ ComposeAll(h, tag) = f[N]
  BY <1>1, ComposeAllUnfold
<1> DEFINE Bad == {n \in Nat : n \in 0 .. N /\ ~ ComposedFrom(h, f[n])}
<1>3. SUFFICES ASSUME Bad # {} PROVE FALSE
  BY <1>1, <1>2
<1>4. PICK n \in Bad : \A m \in Bad : n <= m
  <2>1. Bad \in SUBSET Nat
    OBVIOUS
  <2> HIDE DEF Bad
  <2>2. QED
    BY <1>3, <2>1, LeastExists
<1>5. /\ n = 0 => f[n] = NoDrafts
      /\ n # 0 => f[n] = Compose(h, tag, f[n - 1], h[n])
  BY <1>2 DEF Composing
<1>6. CASE n = 0
  <2>1. f[n].drafts = <<>>
    BY <1>5, <1>6 DEF NoDrafts
  <2>2. ComposedFrom(h, f[n])
    BY <2>1, EmptyIsSeq DEF ComposedFrom
  <2>3. QED
    BY <1>4, <2>2
<1>7. CASE n # 0
  <2> DEFINE m == n - 1
  <2>1. m \in Nat /\ m \in 0 .. N /\ m \notin Bad /\ n \in 1 .. N
    BY <1>4, <1>7
  <2>2. ComposedFrom(h, f[m])
    BY <2>1
  <2>3. f[n] = Compose(h, tag, f[m], h[n]) /\ ~ ComposedFrom(h, f[n]) /\ h[n] \in ToSet(h)
    BY <1>0, <1>4, <1>5, <1>7, <2>1, Members
  <2> HIDE DEF m, Bad
  <2>4. ComposedFrom(h, Compose(h, tag, f[m], h[n]))
    BY <2>2, <2>3, ComposeMade
  <2>5. QED
    BY <2>3, <2>4
<1>8. QED
  BY <1>6, <1>7

\* Two composites of a tidy home: an aggregation group is in one Equipment
\* only, and if it is one itself, in no other.
LEMMA CompositesApart ==
  ASSUME NEW h, HouseOK(h), GroupsOK(h), Tidy(h), NEW x, NEW g, GroupMade(h, x, g),
         NEW y, NEW k, GroupMade(h, y, k), g # k
  PROVE  \A z \in DrivenIn(h, x.device) \cap DrivenIn(h, y.device) : InTwoGroups(h, z)
<1> DEFINE I == Items(x.device)
           J == Items(y.device)
<1>1. /\ g \in ToSet(h) /\ IsEquipment(g) /\ ~g.point
      /\ k \in ToSet(h) /\ IsEquipment(k) /\ ~k.point
      /\ \A z \in I : z \in Names(h) /\ g.name \in GroupsOf(h, z)
      /\ \A z \in J : z \in Names(h) /\ k.name \in GroupsOf(h, z)
  BY DEF GroupMade
<1>2. /\ ItemNamed(h, g.name) = g /\ ItemNamed(h, k.name) = k
      /\ GroupsOf(h, g.name) = ToSet(g.groups) /\ GroupsOf(h, k.name) = ToSet(k.groups)
  BY <1>1, ItemFacts DEF GroupsOf
<1>3. g.name # k.name
  BY <1>2
<1>4. \A z \in I \cap J : InTwoGroups(h, z)
  <2>1. ASSUME NEW z \in I \cap J, ~InTwoGroups(h, z) PROVE FALSE
    <3>1. z \in Names(h) /\ g.name \in GroupsOf(h, z) /\ k.name \in GroupsOf(h, z)
      BY <1>1, <2>1
    <3>2. g.name = k.name
      BY <2>1, <3>1, OneGroup
    <3>3. QED
      BY <1>3, <3>2
  <2>2. QED
    BY <2>1
<1> HIDE DEF I, J
<1>5. ASSUME NEW a \in ToSet(h), IsEquipment(a), ~a.point,
             NEW b \in ToSet(h), IsEquipment(b),
             NEW S, \A z \in S : z \in Names(h) /\ a.name \in GroupsOf(h, z),
             NEW T, \A z \in T : z \in Names(h) /\ b.name \in GroupsOf(h, z)
      PROVE  Rooted(h, S, T)
  <2>0. GroupsOf(h, a.name) = ToSet(a.groups) /\ ItemNamed(h, a.name) = a
    BY ItemFacts DEF GroupsOf
  <2>1. ASSUME NEW z \in S, ~InTwoGroups(h, z), NEW p \in GroupsOf(h, z), p \in Aggregations(h)
        PROVE  p \notin T /\ \A q \in GroupsOf(h, p) : q \notin Aggregations(h)
    <3>1. z \in Names(h) /\ a.name \in GroupsOf(h, z)
      BY <1>5
    <3>2. p = a.name
      BY <2>1, <3>1, OneGroup
    <3>3. a.base # ""
      BY <2>0, <2>1, <3>2, AggregationFacts
    <3>4. \A c \in ToSet(h) : c.name \in ToSet(a.groups) => ~IsEquipment(c) /\ c.base = ""
      BY <1>5, <3>3 DEF Tidy
    <3>5. p \notin T
      BY <1>5, <2>0, <3>2, <3>4
    <3>6. ASSUME NEW q \in GroupsOf(h, p), q \in Aggregations(h) PROVE FALSE
      <4>1. PICK c \in ToSet(h) : c.name = q /\ c.base # ""
        BY <3>6 DEF Aggregations
      <4>2. c.name \in ToSet(a.groups)
        BY <2>0, <3>2, <3>6, <4>1
      <4>3. QED
        BY <3>4, <4>1, <4>2
    <3>7. QED
      BY <3>5, <3>6
  <2>2. QED
    BY <2>1 DEF Rooted
<1>6. Rooted(h, I, J)
  BY <1>1, <1>5
<1>7. Rooted(h, J, I)
  BY <1>1, <1>5
<1>8. QED
  BY <1>4, <1>6, <1>7, ChainsApart DEF I, J

\* Two drafts of single items.
LEMMA SinglesApart ==
  ASSUME NEW h, HouseOK(h), NEW x, NEW a, ItemMade(h, x, a), a.name \notin Aggregations(h),
         NEW y, NEW b, ItemMade(h, y, b), b.name \notin Aggregations(h), x # y
  PROVE  DrivenIn(h, x.device) \cap DrivenIn(h, y.device) = {}
<1>1. a # b
  <2>1. ASSUME a = b PROVE FALSE
    <3>1. <<x>> = <<y>>
      BY <2>1 DEF ItemMade
    <3>2. QED
      BY <3>1
  <2>2. QED
    BY <2>1
<1>2. a.name # b.name
  <2>1. ItemNamed(h, a.name) = a /\ ItemNamed(h, b.name) = b
    BY ItemFacts DEF ItemMade
  <2>2. QED
    BY <1>1, <2>1
<1>3. DrivenIn(h, x.device) \subseteq {a.name}
  BY SingleDrives DEF ItemMade
<1>4. DrivenIn(h, y.device) \subseteq {b.name}
  BY SingleDrives DEF ItemMade
<1>5. QED
  BY <1>2, <1>3, <1>4





\* The drafts of a list do not drive a thing twice, but one in two groups.
DraftsApart(h, ds) ==
    \A x, y \in ToSet(ds) : x # y =>
        \A z \in DrivenIn(h, x.device) \cap DrivenIn(h, y.device) : InTwoGroups(h, z)

LEMMA FlatApart ==
  ASSUME NEW h, HouseOK(h), GroupsOK(h), Tidy(h), NEW tag
  PROVE  DraftsApart(h, inferDevicesFlat(h, tag))
<1> DEFINE K == {k \in DOMAIN h : /\ Candidate(h[k], tag)
                                  /\ ToSet(h[k].groups) \cap Aggregations(h) = {}}
           ds == draftForEach(Only(h, K))
<1>1. inferDevicesFlat(h, tag) = ds
  BY DEF inferDevicesFlat
<1>2. \A k \in K : ToSet(h[k].groups) \cap Aggregations(h) = {}
  OBVIOUS
<1> HIDE DEF K
<1>3. ASSUME NEW x \in ToSet(ds)
      PROVE  \E a : /\ ItemMade(h, x, a)
                    /\ \A p \in GroupsOf(h, a.name) : p \notin Aggregations(h)
  <2>1. PICK k \in 1 .. Len(h) : k \in K /\ ItemMade(h, x, h[k])
    BY EachMade
  <2>2. GroupsOf(h, h[k].name) = ToSet(h[k].groups)
    BY <2>1, ItemFacts DEF ItemMade, GroupsOf
  <2>3. QED
    BY <1>2, <2>1, <2>2
<1> HIDE DEF ds
<1>4. ASSUME NEW x \in ToSet(ds), NEW y \in ToSet(ds), x # y
      PROVE  \A z \in DrivenIn(h, x.device) \cap DrivenIn(h, y.device) : InTwoGroups(h, z)
  <2>1. PICK a : ItemMade(h, x, a) /\ \A p \in GroupsOf(h, a.name) : p \notin Aggregations(h)
    BY <1>3
  <2>2. PICK b : ItemMade(h, y, b) /\ \A p \in GroupsOf(h, b.name) : p \notin Aggregations(h)
    BY <1>3
  <2>3. Items(x.device) \subseteq {a.name} /\ Items(y.device) \subseteq {b.name}
    BY <2>1, <2>2 DEF ItemMade
  <2>4. a # b
    <3>1. ASSUME a = b PROVE FALSE
      <4>1. <<x>> = <<y>>
        BY <2>1, <2>2, <3>1 DEF ItemMade
      <4>2. QED
        BY <1>4, <4>1
    <3>2. QED
      BY <3>1
  <2>5. a.name # b.name
    <3>1. ItemNamed(h, a.name) = a /\ ItemNamed(h, b.name) = b
      BY <2>1, <2>2, ItemFacts DEF ItemMade
    <3>2. QED
      BY <2>4, <3>1
  <2>6. Rooted(h, Items(x.device), Items(y.device)) /\ Rooted(h, Items(y.device), Items(x.device))
    BY <2>1, <2>2, <2>3 DEF Rooted
  <2>7. \A z \in Items(x.device) \cap Items(y.device) : InTwoGroups(h, z)
    BY <2>3, <2>5
  <2> DEFINE d == x.device
             e == y.device
  <2> HIDE DEF d, e
  <2>8. QED
    BY <2>6, <2>7, ChainsApart
<1>5. DraftsApart(h, ds)
  BY <1>4 DEF DraftsApart
<1>6. QED
  BY <1>1, <1>5

LEMMA SemanticApart ==
  ASSUME NEW h, HouseOK(h), GroupsOK(h), Tidy(h), NEW tag
  PROVE  DraftsApart(h, inferDevices(h, tag))
<1> DEFINE composed == ComposeAll(h, tag)
           K == {k \in DOMAIN h : /\ h[k].type # "Group"
                                  /\ h[k].name \notin composed.consumed
                                  /\ Candidate(h[k], tag)}
           cs == composed.drafts
           ss == draftForEach(Only(h, K))
           Composite(x) == \E g : /\ GroupMade(h, x, g)
                                  /\ Below(h, {g.name}, Names(h)) \subseteq composed.consumed
           Single(x) == \E a : /\ ItemMade(h, x, a)
                               /\ a.name \notin Aggregations(h)
                               /\ a.name \notin composed.consumed
<1>1. inferDevices(h, tag) = cs \o ss
  BY DEF inferDevices, AddSingles
<1>2. IsSeq(cs) /\ \A x \in ToSet(cs) : Composite(x)
  BY ComposeAllMade DEF ComposedFrom
<1>3. IsSeq(ss)
  <2> HIDE DEF K
  <2>1. QED
    BY EachDraftOK DEF DraftsOK
<1> HIDE DEF composed
<1>4. \A k \in K : h[k].type # "Group" /\ h[k].name \notin composed.consumed
  OBVIOUS
<1> HIDE DEF K
<1>5. ASSUME NEW x \in ToSet(ss) PROVE Single(x)
  <2>1. PICK k \in 1 .. Len(h) : k \in K /\ ItemMade(h, x, h[k])
    BY EachMade
  <2>2. h[k] \in ToSet(h) /\ h[k].type # "Group" /\ h[k].name \notin composed.consumed
    BY <1>4, <2>1 DEF ItemMade
  <2>3. h[k].base = ""
    BY <2>2 DEF GroupsOK
  <2>4. ItemNamed(h, h[k].name) = h[k]
    BY <2>2, ItemFacts
  <2>5. h[k].name \notin Aggregations(h)
    BY <2>3, <2>4, AggregationFacts
  <2>6. QED
    BY <2>1, <2>2, <2>5
<1> HIDE DEF ss, cs
<1>6. \A x : x \in ToSet(cs \o ss) <=> x \in ToSet(cs) \/ x \in ToSet(ss)
  BY <1>2, <1>3, ConcatFacts
<1>7. ASSUME NEW x, Composite(x), NEW y, Single(y)
      PROVE  DrivenIn(h, x.device) \cap DrivenIn(h, y.device) = {}
  <2>1. PICK g : GroupMade(h, x, g) /\ Below(h, {g.name}, Names(h)) \subseteq composed.consumed
    BY <1>7
  <2>2. PICK a : /\ ItemMade(h, y, a)
                 /\ a.name \notin Aggregations(h) /\ a.name \notin composed.consumed
    BY <1>7
  <2>3. g.name \in Names(h)
    BY <2>1 DEF GroupMade, Names
  <2>4. DrivenIn(h, x.device) \subseteq Below(h, {g.name}, Names(h))
    BY <2>1, <2>3, GroupConsumes DEF GroupMade
  <2>5. DrivenIn(h, y.device) \subseteq {a.name}
    BY <2>2, SingleDrives DEF ItemMade
  <2>6. QED
    BY <2>1, <2>2, <2>4, <2>5
<1>8. ASSUME NEW x, Composite(x), NEW y, Composite(y), x # y
      PROVE  \A z \in DrivenIn(h, x.device) \cap DrivenIn(h, y.device) : InTwoGroups(h, z)
  <2>1. PICK g : GroupMade(h, x, g)
    BY <1>8
  <2>2. PICK k : GroupMade(h, y, k)
    BY <1>8
  <2>3. g # k
    <3>1. ASSUME g = k PROVE FALSE
      <4>1. <<x>> = <<y>>
        BY <2>1, <2>2, <3>1 DEF GroupMade
      <4>2. QED
        BY <1>8, <4>1
    <3>2. QED
      BY <3>1
  <2>4. QED
    BY <2>1, <2>2, <2>3, CompositesApart
<1>9. ASSUME NEW x, Single(x), NEW y, Single(y), x # y
      PROVE  DrivenIn(h, x.device) \cap DrivenIn(h, y.device) = {}
  BY <1>9, SinglesApart
<1>10. ASSUME NEW x \in ToSet(cs \o ss), NEW y \in ToSet(cs \o ss), x # y
       PROVE  \A z \in DrivenIn(h, x.device) \cap DrivenIn(h, y.device) : InTwoGroups(h, z)
  <2>1. (Composite(x) \/ Single(x)) /\ (Composite(y) \/ Single(y))
    BY <1>2, <1>5, <1>6
  <2> HIDE DEF Composite, Single
  <2>2. QED
    BY <1>7, <1>8, <1>9, <1>10, <2>1
<1>11. DraftsApart(h, cs \o ss)
  BY <1>10 DEF DraftsApart
<1>12. QED
  BY <1>1, <1>11

\* Every list of a tidy home, whatever the mode and the filter, drives no
\* thing twice.
LEMMA ListApart ==
  ASSUME NEW h \in Houses, Tidy(h), NEW mode, NEW tag
  PROVE  DraftsApart(h, DraftsOf(h, mode, tag))
<1>1. HouseOK(h)
  BY HousesOK
<1>2. GroupsOK(h)
  BY HousesAssumption DEF GroupsOK
<1>3. QED
  BY <1>1, <1>2, FlatApart, SemanticApart DEF DraftsOf

\* What two devices of one list both drive is in its doubles.
LEMMA DoubledByList ==
  ASSUME IInv, NEW d, NEW e, Apart(d, e, home), EntryOK(d, home),
         d.mode = e.mode, d.tag = e.tag,
         NEW z \in DrivenIn(home, d.device) \cap DrivenIn(home, e.device)
  PROVE  \E l \in Doubles : l.home = home /\ l.mode = d.mode /\ l.tag = d.tag /\ z \in l.things
<1> DEFINE ds == DraftsOf(home, d.mode, d.tag)
           l  == [home |-> home, mode |-> d.mode, tag |-> d.tag, drafts |-> ds]
           t  == DrivenTwice(home, ds)
           r  == [home |-> home, mode |-> d.mode, tag |-> d.tag, things |-> t]
<1>1. home \in Houses /\ IsSeq(home) /\ d.mode \in Modes /\ d.tag \in TagFilters
  <2>1. home \in Houses
    BY DEF IInv, StateOK
  <2>2. QED
    BY <2>1, HousesOK DEF HouseOK, EntryOK
<1>2. l \in Inferred /\ l.home = home /\ l.mode = d.mode /\ l.tag = d.tag /\ l.drafts = ds
  BY <1>1, ListFacts
<1>3. PICK x, y : /\ MadeFrom(home, d.mode, d.tag, d.device, x)
                  /\ MadeFrom(home, d.mode, d.tag, e.device, y)
                  /\ x # y \/ Items(d.device) = {}
  BY DEF Apart
<1>4. /\ x \in ToSet(ds) /\ Items(d.device) \subseteq Items(x.device)
      /\ y \in ToSet(ds) /\ Items(e.device) \subseteq Items(y.device)
  BY <1>3 DEF MadeFrom
<1> HIDE DEF ds
<1>5. Items(d.device) # {}
  BY <1>1, DrivenGrows
<1>6. x # y
  BY <1>3, <1>5
<1>7. z \in DrivenIn(home, x.device) \cap DrivenIn(home, y.device)
  BY <1>1, <1>4, DrivenGrows
<1>8. z \in t
  <2> DEFINE p == <<x, y>>
             Q == {q \in ToSet(ds) \X ToSet(ds) : q[1] # q[2]}
             S == {DrivenIn(home, q[1].device) \cap DrivenIn(home, q[2].device) : q \in Q}
  <2>1. p \in Q /\ p[1] = x /\ p[2] = y
    BY <1>4, <1>6
  <2> HIDE DEF p, Q
  <2>2. DrivenIn(home, p[1].device) \cap DrivenIn(home, p[2].device) \in S
    BY <2>1
  <2>3. z \in UNION S
    BY <1>7, <2>1, <2>2
  <2>4. QED
    BY <2>3 DEF DrivenTwice, Q
<1>9. r \in Doubles
  <2>1. [home |-> l.home, mode |-> l.mode, tag |-> l.tag, things |-> DrivenTwice(l.home, l.drafts)]
          \in Doubles
    BY <1>2 DEF Doubles
  <2>2. QED
    BY <1>2, <2>1
<1>10. r.home = home /\ r.mode = d.mode /\ r.tag = d.tag /\ r.things = t
  OBVIOUS
<1>11. QED
  BY <1>8, <1>9, <1>10

LEMMA ThingsApart ==
  ASSUME IInv, Tidy(home), NEW d, NEW e, Apart(d, e, home), EntryOK(d, home),
         d.mode = e.mode, d.tag = e.tag
  PROVE  \A x \in DrivenIn(home, d.device) \cap DrivenIn(home, e.device) : InTwoGroups(home, x)
<1> DEFINE ds == DraftsOf(home, d.mode, d.tag)
<1>1. home \in Houses /\ IsSeq(home)
  <2>1. home \in Houses
    BY DEF IInv, StateOK
  <2>2. QED
    BY <2>1, HousesOK DEF HouseOK
<1>2. PICK x, y : /\ MadeFrom(home, d.mode, d.tag, d.device, x)
                  /\ MadeFrom(home, d.mode, d.tag, e.device, y)
                  /\ x # y \/ Items(d.device) = {}
  BY DEF Apart
<1>3. /\ x \in ToSet(ds) /\ Items(d.device) \subseteq Items(x.device)
      /\ y \in ToSet(ds) /\ Items(e.device) \subseteq Items(y.device)
  BY <1>2 DEF MadeFrom
<1>4. DraftsApart(home, ds)
  BY <1>1, ListApart
<1> HIDE DEF ds
<1>5. CASE Items(d.device) = {}
  <2>1. DrivenIn(home, d.device) = {}
    BY <1>1, <1>5, DrivenGrows
  <2>2. QED
    BY <2>1
<1>6. CASE x # y
  <2>1. \A z \in DrivenIn(home, x.device) \cap DrivenIn(home, y.device) : InTwoGroups(home, z)
    BY <1>3, <1>4, <1>6 DEF DraftsApart
  <2>2. DrivenIn(home, d.device) \subseteq DrivenIn(home, x.device)
    BY <1>1, <1>3, DrivenGrows
  <2>3. DrivenIn(home, e.device) \subseteq DrivenIn(home, y.device)
    BY <1>1, <1>3, DrivenGrows
  <2>4. QED
    BY <2>1, <2>2, <2>3
<1>7. QED
  BY <1>2, <1>5, <1>6

\* What two devices of one list both drive, two drafts of that list drive
\* both, in any home: nothing that settings, the ignore list, edits and
\* deletions between two imports do, and no page that stayed open, doubles a
\* thing.  And a tidy home's list doubles nothing, not directly by one and
\* through aggregation groups by the other, however deep these are nested.
THEOREM ThingsOnce ==
  Spec => []NoThingTwice
<1>1. ASSUME IInv PROVE NoThingTwice
  <2>1. ASSUME NEW i \in DOMAIN catalog, NEW j \in DOMAIN catalog, i < j, catalog[j].offered
        PROVE  Apart(catalog[i], catalog[j], home) /\ EntryOK(catalog[i], home)
    BY <1>1, <2>1, PairsApart
  <2>2. ASSUME NEW i \in DOMAIN catalog, NEW j \in DOMAIN catalog, i < j, catalog[j].offered,
               catalog[i].mode = catalog[j].mode, catalog[i].tag = catalog[j].tag,
               NEW x \in DrivenIn(home, catalog[i].device) \cap DrivenIn(home, catalog[j].device)
        PROVE  /\ \E l \in Doubles : /\ l.home = home /\ l.mode = catalog[i].mode
                                     /\ l.tag = catalog[i].tag /\ x \in l.things
               /\ Tidy(home) => InTwoGroups(home, x)
    <3>1. Apart(catalog[i], catalog[j], home) /\ EntryOK(catalog[i], home)
      BY <2>1, <2>2
    <3>2. \E l \in Doubles : /\ l.home = home /\ l.mode = catalog[i].mode
                            /\ l.tag = catalog[i].tag /\ x \in l.things
      BY <1>1, <2>2, <3>1, DoubledByList
    <3>3. Tidy(home) => InTwoGroups(home, x)
      BY <1>1, <2>2, <3>1, ThingsApart
    <3>4. QED
      BY <3>2, <3>3
  <2>3. QED
    BY <2>1, <2>2 DEF NoThingTwice, Apart
<1>2. QED
  BY <1>1, Invariance, PTL

=============================================================================
