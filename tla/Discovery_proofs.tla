-------------------------- MODULE Discovery_proofs ---------------------------
(***************************************************************************)
(* Proofs about Discovery, for any databases with finite tables, sessions, *)
(* settings, cache limits and failing queries: the globals are restored,   *)
(* no rule is returned twice, and the support of a rule is the one its     *)
(* classes have on the database, whatever the caches hold.                 *)
(***************************************************************************)
EXTENDS Discovery, FiniteSetTheorems, SequenceTheorems, TLAPS

-----------------------------------------------------------------------------
(* Counting                                                                *)

(* Two functions that tell the same arguments apart have as many values.   *)
LEMMA SameCount ==
    ASSUME NEW P, NEW G, NEW H, NEW g \in Surjection(P, G), NEW h \in Surjection(P, H),
           \A x, y \in P : g[x] = g[y] <=> h[x] = h[y],
           IsFiniteSet(G)
    PROVE  Cardinality(H) = Cardinality(G)
  <1> DEFINE f == [a \in G |-> h[CHOOSE x \in P : g[x] = a]]
  <1>0. /\ \A x \in P : g[x] \in G /\ h[x] \in H
        /\ \A a \in G : \E x \in P : g[x] = a
        /\ \A b \in H : \E x \in P : h[x] = b
    BY DEF Surjection
  <1>1. \A x \in P : f[g[x]] = h[x]
    <2> SUFFICES ASSUME NEW x \in P
                 PROVE  f[g[x]] = h[x]
      OBVIOUS
    <2> DEFINE y == CHOOSE z \in P : g[z] = g[x]
    <2>1. y \in P /\ g[y] = g[x]
      OBVIOUS
    <2>2. f[g[x]] = h[y]
      BY <1>0
    <2>3. QED
      BY <2>1, <2>2
  <1>2. f \in [G -> H]
    <2>1. \A a \in G : f[a] \in H
      BY <1>0, <1>1
    <2>2. QED
      BY <2>1
  <1> HIDE DEF f
  <1>3. f \in Injection(G, H)
    <2> SUFFICES ASSUME NEW a \in G, NEW b \in G, f[a] = f[b]
                 PROVE  a = b
      BY <1>2 DEF Injection, IsInjective
    <2>1. PICK x \in P, y \in P : a = g[x] /\ b = g[y]
      BY <1>0
    <2>2. QED
      BY <1>1, <2>1
  <1>4. f \in Surjection(G, H)
    <2>1. \A b \in H : \E a \in G : f[a] = b
      BY <1>0, <1>1
    <2>2. QED
      BY <1>2, <2>1 DEF Surjection
  <1>5. ExistsBijection(G, H)
    BY <1>3, <1>4 DEF ExistsBijection, Bijection
  <1>6. QED
    BY <1>5, FS_Bijection

(* In a finite strict order there is an element with each number of        *)
(* smaller ones.                                                           *)
LEMMA Ranks ==
    ASSUME NEW S, IsFiniteSet(S), NEW less \in SUBSET (S \X S),
           \A x \in S : <<x, x>> \notin less,
           \A x, y \in S : x = y \/ <<x, y>> \in less \/ <<y, x>> \in less,
           \A x, y, z \in S : <<x, y>> \in less /\ <<y, z>> \in less => <<x, z>> \in less,
           NEW n \in 1 .. Cardinality(S)
    PROVE  \E x \in S : Cardinality({y \in S : <<y, x>> \in less}) = n - 1
  <1> DEFINE Below(x) == {y \in S : <<y, x>> \in less}
             N == Cardinality(S)
             rank == [x \in S |-> Cardinality(Below(x))]
  <1>0. N \in Nat
    BY FS_CardinalityType
  <1>1. \A x \in S : IsFiniteSet(Below(x)) /\ Cardinality(Below(x)) \in 0 .. N - 1
    <2> SUFFICES ASSUME NEW x \in S
                 PROVE  IsFiniteSet(Below(x)) /\ Cardinality(Below(x)) \in 0 .. N - 1
      OBVIOUS
    <2>1. Below(x) \in SUBSET S /\ Below(x) # S
      OBVIOUS
    <2>2. IsFiniteSet(Below(x)) /\ Cardinality(Below(x)) <= N /\ Cardinality(Below(x)) # N
      BY <2>1, FS_Subset
    <2>3. Cardinality(Below(x)) \in Nat
      BY <2>2, FS_CardinalityType
    <2>4. QED
      BY <1>0, <2>2, <2>3
  <1>2. \A x, y \in S : <<x, y>> \in less => rank[x] < rank[y]
    <2> SUFFICES ASSUME NEW x \in S, NEW y \in S, <<x, y>> \in less
                 PROVE  Cardinality(Below(x)) < Cardinality(Below(y))
      OBVIOUS
    <2>1. Below(x) \in SUBSET Below(y) /\ x \in Below(y) /\ x \notin Below(x)
      OBVIOUS
    <2>2. Cardinality(Below(x)) <= Cardinality(Below(y)) /\ Cardinality(Below(x)) # Cardinality(Below(y))
      BY <1>1, <2>1, FS_Subset
    <2>3. Cardinality(Below(x)) \in Int /\ Cardinality(Below(y)) \in Int
      <3>1. 0 .. N - 1 \subseteq Int
        BY <1>0
      <3> HIDE DEF N, Below
      <3>2. QED
        BY <1>1, <3>1
    <2> HIDE DEF Below
    <2>4. QED
      BY <2>2, <2>3
  <1>3. rank \in [S -> 0 .. N - 1]
    BY <1>1
  <1>4. rank \in Injection(S, 0 .. N - 1)
    <2> SUFFICES ASSUME NEW x \in S, NEW y \in S, rank[x] = rank[y], x # y
                 PROVE  FALSE
      BY <1>3 DEF Injection, IsInjective
    <2> HIDE DEF rank
    <2>1. rank[x] \in Int /\ rank[y] \in Int
      BY <1>0, <1>3
    <2>2. rank[x] < rank[y] \/ rank[y] < rank[x]
      BY <1>2
    <2>3. QED
      BY <2>1, <2>2
  <1>5. IsFiniteSet(0 .. N - 1) /\ Cardinality(0 .. N - 1) = N
    <2>1. 0 \in Int /\ N - 1 \in Int /\ (IF 0 > N - 1 THEN 0 ELSE N - 1 - 0 + 1) = N
      BY <1>0
    <2> HIDE DEF N
    <2>2. QED
      BY <2>1, FS_Interval
  <1>6. rank \in Surjection(S, 0 .. N - 1)
    BY <1>4, <1>5, FS_Injection
  <1>7. n - 1 \in 0 .. N - 1
    BY <1>0
  <1>8. QED
    BY <1>6, <1>7 DEF Surjection

-----------------------------------------------------------------------------
(* The orders of attributes, pairs and occurrences                         *)

Triple == Int \X Int \X Int

LEMMA AttributeOrder ==
    ASSUME NEW a \in Triple, NEW b \in Triple
    PROVE  IALess(a, b) <=> \/ a[1] < b[1]
                            \/ a[1] = b[1] /\ a[2] < b[2]
                            \/ a[1] = b[1] /\ a[2] = b[2] /\ a[3] < b[3]
  <1> DEFINE Differs(n) == a[n] < b[n] /\ \A m \in 1 .. (n - 1) : a[m] = b[m]
  <1>1. IALess(a, b) <=> Differs(1) \/ Differs(2) \/ Differs(3)
    <2>1. 1 .. 3 = {1, 2, 3}
      OBVIOUS
    <2>2. QED
      BY <2>1 DEF IALess
  <1>2. 1 .. (1 - 1) = {} /\ 1 .. (2 - 1) = {1} /\ 1 .. (3 - 1) = {1, 2}
    OBVIOUS
  <1>3. /\ Differs(1) <=> a[1] < b[1]
        /\ Differs(2) <=> a[2] < b[2] /\ a[1] = b[1]
        /\ Differs(3) <=> a[3] < b[3] /\ a[1] = b[1] /\ a[2] = b[2]
    BY <1>2
  <1>4. QED
    BY <1>1, <1>3

LEMMA SameTriple ==
    ASSUME NEW a \in Triple, NEW b \in Triple, a[1] = b[1], a[2] = b[2], a[3] = b[3]
    PROVE  a = b
  BY DEF Triple

LEMMA AttributesOrdered ==
    /\ \A a \in Triple : ~ IALess(a, a)
    /\ \A a, b \in Triple : a = b \/ IALess(a, b) \/ IALess(b, a)
    /\ \A a, b, c \in Triple : IALess(a, b) /\ IALess(b, c) => IALess(a, c)
    /\ \A a, b \in Triple : ~ (IALess(a, b) /\ IALess(b, a))
  <1> \A a \in Triple : a[1] \in Int /\ a[2] \in Int /\ a[3] \in Int
    BY DEF Triple
  <1>1. ASSUME NEW a \in Triple
        PROVE  ~ IALess(a, a)
    BY AttributeOrder
  <1>2. ASSUME NEW a \in Triple, NEW b \in Triple
        PROVE  a = b \/ IALess(a, b) \/ IALess(b, a)
    BY AttributeOrder, SameTriple
  <1>3. ASSUME NEW a \in Triple, NEW b \in Triple, NEW c \in Triple, IALess(a, b), IALess(b, c)
        PROVE  IALess(a, c)
    <2> USE <1>3
    <2>1. /\ \/ a[1] < b[1]
             \/ a[1] = b[1] /\ a[2] < b[2]
             \/ a[1] = b[1] /\ a[2] = b[2] /\ a[3] < b[3]
          /\ \/ b[1] < c[1]
             \/ b[1] = c[1] /\ b[2] < c[2]
             \/ b[1] = c[1] /\ b[2] = c[2] /\ b[3] < c[3]
      BY AttributeOrder
    <2>2. \/ a[1] < c[1]
          \/ a[1] = c[1] /\ a[2] < c[2]
          \/ a[1] = c[1] /\ a[2] = c[2] /\ a[3] < c[3]
      BY <2>1
    <2>3. QED
      BY <2>2, AttributeOrder
  <1>4. QED
    BY <1>1, <1>2, <1>3

(* A set that is sorted gives a sequence of its elements.                  *)
LEMMA SortedElements ==
    ASSUME NEW S \in SUBSET (Triple \X Triple), IsFiniteSet(S)
    PROVE  Sorted(S) \in Seq(S)
  <1> DEFINE less == {x \in S \X S : JIALess(x[1], x[2])}
             Below(p) == {q \in S : JIALess(q, p)}
  <1>1. \A p \in S : p[1] \in Triple /\ p[2] \in Triple /\ p = <<p[1], p[2]>>
    OBVIOUS
  <1>2. \A p, q \in S : <<p, q>> \in less <=> JIALess(p, q)
    OBVIOUS
  <1>3. \A p \in S : ~ JIALess(p, p)
    BY <1>1, AttributesOrdered DEF JIALess
  <1>4. \A p, q \in S : p = q \/ JIALess(p, q) \/ JIALess(q, p)
    BY <1>1, AttributesOrdered DEF JIALess
  <1>5. \A p, q, r \in S : JIALess(p, q) /\ JIALess(q, r) => JIALess(p, r)
    BY <1>1, AttributesOrdered DEF JIALess
  <1>6. \A n \in 1 .. Cardinality(S) : \E p \in S : Cardinality(Below(p)) = n - 1
    <2> SUFFICES ASSUME NEW n \in 1 .. Cardinality(S)
                 PROVE  \E p \in S : Cardinality(Below(p)) = n - 1
      OBVIOUS
    <2>1. less \in SUBSET (S \X S)
      OBVIOUS
    <2>2. PICK p \in S : Cardinality({q \in S : <<q, p>> \in less}) = n - 1
      <3>1. \A x \in S : <<x, x>> \notin less
        BY <1>2, <1>3
      <3>2. \A x, y \in S : x = y \/ <<x, y>> \in less \/ <<y, x>> \in less
        BY <1>2, <1>4
      <3>3. \A x, y, z \in S : <<x, y>> \in less /\ <<y, z>> \in less => <<x, z>> \in less
        BY <1>2, <1>5
      <3> HIDE DEF less
      <3>4. QED
        BY <2>1, <3>1, <3>2, <3>3, Ranks, SMTT(60)
    <2>3. {q \in S : <<q, p>> \in less} = Below(p)
      BY <1>2
    <2>4. QED
      BY <2>2, <2>3
  <1> DEFINE sorted == [n \in 1 .. Cardinality(S) |-> CHOOSE p \in S : Cardinality(Below(p)) = n - 1]
  <1>7. Sorted(S) = sorted
    BY DEF Sorted, SortedBy
  <1>8. Cardinality(S) \in Nat
    BY FS_CardinalityType
  <1>9. sorted \in [1 .. Cardinality(S) -> S]
    <2> HIDE DEF Below
    <2>1. \A n \in 1 .. Cardinality(S) : sorted[n] \in S
      BY <1>6
    <2>2. QED
      BY <2>1
  <1> HIDE DEF sorted
  <1>10. QED
    BY <1>7, <1>8, <1>9

LEMMA SortedHeads ==
    ASSUME NEW S \in SUBSET (Int \X Int), IsFiniteSet(S)
    PROVE  SortedBy(S, HeadLess) \in Seq(S)
  <1> DEFINE less == {x \in S \X S : HeadLess(x[1], x[2])}
             Below(p) == {q \in S : HeadLess(q, p)}
  <1>1. \A p \in S : p[1] \in Int /\ p[2] \in Int /\ p = <<p[1], p[2]>>
    OBVIOUS
  <1>2. \A p, q \in S : <<p, q>> \in less <=> HeadLess(p, q)
    OBVIOUS
  <1>3. \A p \in S : ~ HeadLess(p, p)
    BY <1>1 DEF HeadLess
  <1>4. \A p, q \in S : p = q \/ HeadLess(p, q) \/ HeadLess(q, p)
    BY <1>1 DEF HeadLess
  <1>5. \A p, q, r \in S : HeadLess(p, q) /\ HeadLess(q, r) => HeadLess(p, r)
    BY <1>1 DEF HeadLess
  <1>6. \A n \in 1 .. Cardinality(S) : \E p \in S : Cardinality(Below(p)) = n - 1
    <2> SUFFICES ASSUME NEW n \in 1 .. Cardinality(S)
                 PROVE  \E p \in S : Cardinality(Below(p)) = n - 1
      OBVIOUS
    <2>1. less \in SUBSET (S \X S)
      OBVIOUS
    <2>2. PICK p \in S : Cardinality({q \in S : <<q, p>> \in less}) = n - 1
      <3>1. \A x \in S : <<x, x>> \notin less
        BY <1>2, <1>3
      <3>2. \A x, y \in S : x = y \/ <<x, y>> \in less \/ <<y, x>> \in less
        BY <1>2, <1>4
      <3>3. \A x, y, z \in S : <<x, y>> \in less /\ <<y, z>> \in less => <<x, z>> \in less
        BY <1>2, <1>5
      <3> HIDE DEF less
      <3>4. QED
        BY <2>1, <3>1, <3>2, <3>3, Ranks
    <2>3. {q \in S : <<q, p>> \in less} = Below(p)
      BY <1>2
    <2>4. QED
      BY <2>2, <2>3
  <1> DEFINE sorted == [n \in 1 .. Cardinality(S) |-> CHOOSE p \in S : Cardinality(Below(p)) = n - 1]
  <1>7. SortedBy(S, HeadLess) = sorted
    BY DEF SortedBy
  <1>8. Cardinality(S) \in Nat
    BY FS_CardinalityType
  <1>9. sorted \in [1 .. Cardinality(S) -> S]
    <2> HIDE DEF Below
    <2>1. \A n \in 1 .. Cardinality(S) : sorted[n] \in S
      BY <1>6
    <2>2. QED
      BY <2>1
  <1> HIDE DEF sorted
  <1>10. QED
    BY <1>7, <1>8, <1>9

(* A finite class has a first member.                                      *)
LEMMA FirstMember ==
    ASSUME NEW c \in SUBSET Triple, IsFiniteSet(c), c # {}
    PROVE  FirstOf(c) \in c
  <1> DEFINE less == {x \in c \X c : IALess(x[1], x[2])}
             Below(a) == {b \in c : <<b, a>> \in less}
  <1>1. \A a, b \in c : <<a, b>> \in less <=> IALess(a, b)
    OBVIOUS
  <1>2. 1 \in 1 .. Cardinality(c)
    <2>1. Cardinality(c) \in Nat /\ Cardinality(c) # 0
      BY FS_CardinalityType, FS_EmptySet
    <2>2. QED
      BY <2>1
  <1>3. PICK a \in c : Cardinality(Below(a)) = 1 - 1
    <2>1. less \in SUBSET (c \X c)
      OBVIOUS
    <2>2. \A x \in c : <<x, x>> \notin less
      BY <1>1, AttributesOrdered
    <2>3. \A x, y \in c : x = y \/ <<x, y>> \in less \/ <<y, x>> \in less
      BY <1>1, AttributesOrdered
    <2>4. \A x, y, z \in c : <<x, y>> \in less /\ <<y, z>> \in less => <<x, z>> \in less
      BY <1>1, AttributesOrdered
    <2> HIDE DEF less
    <2>5. QED
      BY <1>2, <2>1, <2>2, <2>3, <2>4, Ranks
  <1>4. Below(a) = {}
    <2>1. IsFiniteSet(Below(a))
      BY FS_Subset
    <2>2. Cardinality(Below(a)) = 0
      BY <1>3
    <2>3. QED
      BY <2>1, <2>2, FS_EmptySet
  <1>5. \A b \in c \ {a} : IALess(a, b)
    <2>1. \A b \in c : ~ IALess(b, a)
      BY <1>1, <1>4
    <2>2. QED
      BY <2>1, AttributesOrdered
  <1>6. QED
    BY <1>5 DEF FirstOf

-----------------------------------------------------------------------------
(* The caches                                                              *)

LEMMA Appended ==
    ASSUME NEW E, NEW s \in Seq(E), NEW e \in E
    PROVE  Append(s, e) \in Seq(E) /\ Append(s, e) # <<>>
  <1>1. Append(s, e) \in Seq(E)
    OBVIOUS
  <1>2. Len(Append(s, e)) = Len(s) + 1 /\ Len(s) \in Nat
    OBVIOUS
  <1>3. Len(Append(s, e)) # Len(<<>>)
    BY <1>2
  <1>4. QED
    BY <1>1, <1>3, Zenon

LEMMA HeadAndTail ==
    ASSUME NEW E, NEW s \in Seq(E), s # <<>>
    PROVE  Head(s) \in E /\ Tail(s) \in Seq(E)
  OBVIOUS

LEMMA WiderSequence ==
    ASSUME NEW S, NEW T, S \subseteq T, NEW s \in Seq(S)
    PROVE  s \in Seq(T)
  OBVIOUS

LEMMA Removed ==
    ASSUME NEW E, NEW s \in Seq(E), NEW n \in DOMAIN s
    PROVE  RemoveAt(s, n) \in Seq(E)
  <1>1. Len(s) \in Nat /\ n \in 1 .. Len(s)
    OBVIOUS
  <1>2. SubSeq(s, 1, n - 1) \in Seq(E) /\ SubSeq(s, n + 1, Len(s)) \in Seq(E)
    BY <1>1
  <1>3. QED
    BY <1>2 DEF RemoveAt

(* Whatever has been evicted, a cache of true answers answers what it is   *)
(* asked, and stays one.                                                   *)
LEMMA AskAnswers ==
    ASSUME NEW E, NEW cache \in Seq(E), NEW k, NEW v, NEW limit, <<k, v>> \in E,
           \A e \in E : e[1] = k => e[2] = v
    PROVE  /\ Ask(cache, k, v, limit).value = v
           /\ Ask(cache, k, v, limit).cache \in Seq(E)
  <1>1. \A n \in DOMAIN cache : cache[n] \in E
    OBVIOUS
  <1>2. Answer(cache, k, v) = v
    BY <1>1 DEF Answer
  <1>3. Renewed(cache, k, <<k, v>>) \in Seq(E) /\ Renewed(cache, k, <<k, v>>) # <<>>
    <2>1. CASE \E n \in DOMAIN cache : cache[n][1] = k
      <3> DEFINE place == CHOOSE n \in DOMAIN cache : cache[n][1] = k
      <3>1. place \in DOMAIN cache
        BY <2>1
      <3>2. Renewed(cache, k, <<k, v>>) = Append(RemoveAt(cache, place), <<k, v>>)
        BY <2>1 DEF Renewed
      <3> HIDE DEF place
      <3>3. RemoveAt(cache, place) \in Seq(E)
        BY <3>1, Removed
      <3>4. QED
        BY <3>2, <3>3, Appended
    <2>2. CASE ~ \E n \in DOMAIN cache : cache[n][1] = k
      <3>1. Renewed(cache, k, <<k, v>>) = Append(cache, <<k, v>>)
        BY <2>2 DEF Renewed
      <3>2. QED
        BY <3>1, Appended
    <2>3. QED
      BY <2>1, <2>2
  <1>4. Shortened(Renewed(cache, k, <<k, v>>), limit) \in Seq(E)
    <2>1. Tail(Renewed(cache, k, <<k, v>>)) \in Seq(E)
      BY <1>3
    <2>2. <<>> \in Seq(E)
      OBVIOUS
    <2>3. QED
      BY <1>3, <2>1, <2>2 DEF Shortened
  <1>5. Ask(cache, k, v, limit).value = Answer(cache, k, v)
    BY DEF Ask
  <1>6. Ask(cache, k, v, limit).cache = Shortened(Renewed(cache, k, <<k, v>>), limit)
    BY <1>2 DEF Ask
  <1>7. QED
    BY <1>2, <1>4, <1>5, <1>6

-----------------------------------------------------------------------------
(* Candidates and their classes                                            *)

Attribute  == (DOMAIN db.cols) \X Nat \X (1 .. 9)    \* indexed attributes
Pair       == Attribute \X Attribute
Occurrence == (DOMAIN db.cols) \X Nat

DatabaseOK == /\ db.cols \in Seq(Nat)
              /\ \A t \in DOMAIN db.cols : IsFiniteSet(db.rows[t])

LEMMA AttributesAreTriples ==
    ASSUME DatabaseOK
    PROVE  /\ Attribute \subseteq Triple
           /\ Pair \subseteq Triple \X Triple
           /\ Occurrence \subseteq Int \X Int
           /\ \A a \in Attribute : Occ(a) \in Occurrence
  <1>1. DOMAIN db.cols \subseteq Int
    BY DEF DatabaseOK
  <1>2. Attribute \subseteq Triple /\ Occurrence \subseteq Int \X Int
    BY <1>1 DEF Attribute, Occurrence, Triple
  <1>3. \A a \in Attribute : Occ(a) \in Occurrence
    BY DEF Attribute, Occurrence, Occ
  <1>4. QED
    BY <1>2, <1>3 DEF Pair

LEMMA MembersFinite ==
    ASSUME NEW cand \in Seq(Pair)
    PROVE  /\ Members(cand) \subseteq Attribute
           /\ IsFiniteSet(Members(cand))
  <1> DEFINE side == [x \in (DOMAIN cand) \X {1, 2} |-> cand[x[1]][x[2]]]
  <1>1. DOMAIN cand = 1 .. Len(cand) /\ Len(cand) \in Nat /\ \A n \in 1 .. Len(cand) : cand[n] \in Pair
    OBVIOUS
  <1>2. \A n \in DOMAIN cand : cand[n][1] \in Attribute /\ cand[n][2] \in Attribute
    BY <1>1 DEF Pair
  <1>3. \A a : a \in Members(cand) <=> \E n \in DOMAIN cand : a = cand[n][1] \/ a = cand[n][2]
    BY DEF Members
  <1>4. side \in Surjection((DOMAIN cand) \X {1, 2}, Members(cand))
    <2>1. \A n \in DOMAIN cand : side[<<n, 1>>] = cand[n][1] /\ side[<<n, 2>>] = cand[n][2]
      OBVIOUS
    <2>2. \A x \in (DOMAIN cand) \X {1, 2} : side[x] \in Members(cand)
      BY <1>3
    <2>3. side \in [(DOMAIN cand) \X {1, 2} -> Members(cand)]
      BY <2>2
    <2>4. \A a \in Members(cand) : \E x \in (DOMAIN cand) \X {1, 2} : side[x] = a
      <3> SUFFICES ASSUME NEW a \in Members(cand)
                   PROVE  \E x \in (DOMAIN cand) \X {1, 2} : side[x] = a
        OBVIOUS
      <3>1. PICK n \in DOMAIN cand : a = cand[n][1] \/ a = cand[n][2]
        BY <1>3
      <3>2. <<n, 1>> \in (DOMAIN cand) \X {1, 2} /\ <<n, 2>> \in (DOMAIN cand) \X {1, 2}
        OBVIOUS
      <3>3. QED
        BY <2>1, <3>1, <3>2
    <2>5. QED
      BY <2>3, <2>4 DEF Surjection
  <1>5. IsFiniteSet((DOMAIN cand) \X {1, 2})
    <2>1. IsFiniteSet(1 .. Len(cand)) /\ IsFiniteSet(1 .. 2)
      <3>1. 1 \in Int /\ 2 \in Int /\ Len(cand) \in Int
        BY <1>1
      <3>2. QED
        BY <3>1, FS_Interval
    <2>2. 1 .. 2 = {1, 2}
      OBVIOUS
    <2>3. QED
      BY <1>1, <2>1, <2>2, FS_Product
  <1>6. IsFiniteSet(Members(cand))
    BY <1>4, <1>5, FS_Surjection
  <1>7. QED
    BY <1>2, <1>3, <1>6

(* The classes of a candidate cover its members, and none is empty.        *)
LEMMA ClassesCover ==
    ASSUME NEW cand \in Seq(Pair)
    PROVE  /\ UNION Chains(cand) = Members(cand)
           /\ \A c \in Chains(cand) : c # {} /\ c \subseteq Members(cand) /\ IsFiniteSet(c)
           /\ {Occ(a) : a \in UNION Chains(cand)} = Occurrences(cand)
  <1> DEFINE Class(a) == {b \in Members(cand) : \A C \in ClosedSets(cand) : a \in C => b \in C}
  <1>1. Chains(cand) = {Class(a) : a \in Members(cand)}
    BY DEF Chains
  <1>2. \A a \in Members(cand) : a \in Class(a) /\ Class(a) \subseteq Members(cand)
    OBVIOUS
  <1>3. UNION Chains(cand) = Members(cand)
    BY <1>1, <1>2
  <1>4. \A c \in Chains(cand) : c # {} /\ c \subseteq Members(cand)
    BY <1>1, <1>2
  <1>5. \A c \in Chains(cand) : IsFiniteSet(c)
    BY <1>4, MembersFinite, FS_Subset
  <1>6. {Occ(a) : a \in Members(cand)} = Occurrences(cand)
    BY DEF Members, Occurrences, Occs
  <1>7. QED
    BY <1>3, <1>4, <1>5, <1>6

(* The classes depend on the pairs alone, not on their order: the cache of *)
(* analyses may be keyed by the set of the pairs.                          *)
LEMMA SamePairsSameClasses ==
    ASSUME NEW c \in Seq(Pair), NEW d \in Seq(Pair), Range(c) = Range(d)
    PROVE  Chains(c) = Chains(d)
  <1>1. \A n \in DOMAIN c : \E m \in DOMAIN d : c[n] = d[m]
    BY DEF Range
  <1>2. \A n \in DOMAIN d : \E m \in DOMAIN c : d[n] = c[m]
    BY DEF Range
  <1>3. Members(c) = Members(d)
    BY <1>1, <1>2 DEF Members
  <1>4. \A C : (\A n \in DOMAIN c : c[n][1] \in C <=> c[n][2] \in C)
               <=> (\A n \in DOMAIN d : d[n][1] \in C <=> d[n][2] \in C)
    BY <1>1, <1>2
  <1>5. ClosedSets(c) = ClosedSets(d)
    BY <1>3, <1>4 DEF ClosedSets
  <1>6. QED
    BY <1>3, <1>5 DEF Chains

-----------------------------------------------------------------------------
(* The counting queries                                                    *)

LEMMA FiniteImage ==
    ASSUME NEW S, NEW T, NEW f \in [S -> T], IsFiniteSet(S)
    PROVE  IsFiniteSet({f[x] : x \in S})
  <1> DEFINE image == {f[x] : x \in S}
  <1>1. f \in Surjection(S, image)
    BY DEF Surjection
  <1>2. QED
    BY <1>1, FS_Surjection

Value(f, a) == f[Occ(a)][a[3]]

(* Equalities that star out from the first member of a class make all its  *)
(* members equal.                                                          *)
LEMMA StarsEquate ==
    ASSUME NEW c \in SUBSET Triple, IsFiniteSet(c), c # {}, NEW f
    PROVE  /\ Cardinality({Value(f, a) : a \in c}) = 1
                 <=> \A a \in c \ {FirstOf(c)} : Value(f, FirstOf(c)) = Value(f, a)
           /\ Cardinality({Value(f, a) : a \in c}) = 1
                 => \A a, b \in c : Value(f, a) = Value(f, b)
  <1> DEFINE values == {Value(f, a) : a \in c}
             first  == FirstOf(c)
             value  == [a \in c |-> Value(f, a)]
  <1>1. first \in c
    BY FirstMember
  <1>2. IsFiniteSet(values)
    <2>1. value \in [c -> values]
      OBVIOUS
    <2>2. {value[a] : a \in c} = values
      OBVIOUS
    <2> HIDE DEF value, values
    <2>3. IsFiniteSet({value[a] : a \in c})
      BY <2>1, FiniteImage
    <2>4. QED
      BY <2>2, <2>3
  <1>3. Cardinality(values) = 1 <=> \E x : values = {x}
    <2> HIDE DEF values
    <2>1. QED
      BY <1>2, FS_Singleton
  <1>4. (\E x : values = {x}) => \A a, b \in c : Value(f, a) = Value(f, b)
    OBVIOUS
  <1>5. (\A a \in c \ {first} : Value(f, first) = Value(f, a)) => values = {Value(f, first)}
    BY <1>1
  <1> HIDE DEF values, first
  <1>6. QED
    BY <1>1, <1>3, <1>4, <1>5 DEF values, first

(* The rows the support query joins are the choices of rows that make the  *)
(* members of every class equal.                                           *)
RowChoices(ch, occs, disjoint) ==
    {f \in [occs -> UNION {db.rows[o[1]] : o \in occs}] :
        /\ \A o \in occs : f[o] \in db.rows[o[1]]
        /\ \A c \in ch : Cardinality({f[Occ(a)][a[3]] : a \in c}) = 1
        /\ disjoint => Apart(db, f)}

LEMMA JoinsAreChoices ==
    ASSUME NEW ch, \A c \in ch : c \in SUBSET Triple /\ IsFiniteSet(c) /\ c # {},
           NEW occs, NEW disjoint
    PROVE  Witnesses(db, occs, Stars(ch), disjoint) = RowChoices(ch, occs, disjoint)
  <1> SUFFICES ASSUME NEW f
               PROVE  (\A e \in Stars(ch) : f[Occ(e[1])][e[1][3]] = f[Occ(e[2])][e[2][3]])
                      <=> (\A c \in ch : Cardinality({f[Occ(a)][a[3]] : a \in c}) = 1)
    BY DEF Witnesses, RowChoices
  <1>1. (\A e \in Stars(ch) : f[Occ(e[1])][e[1][3]] = f[Occ(e[2])][e[2][3]])
        <=> (\A c \in ch : \A a \in c \ {FirstOf(c)} : Value(f, FirstOf(c)) = Value(f, a))
    <2>1. \A e : e \in Stars(ch) <=> \E c \in ch : \E a \in c \ {FirstOf(c)} : e = <<FirstOf(c), a>>
      BY DEF Stars
    <2>2. ASSUME \A e \in Stars(ch) : f[Occ(e[1])][e[1][3]] = f[Occ(e[2])][e[2][3]],
                 NEW c \in ch, NEW a \in c \ {FirstOf(c)}
          PROVE  Value(f, FirstOf(c)) = Value(f, a)
      <3> DEFINE e == <<FirstOf(c), a>>
      <3>1. e \in Stars(ch) /\ e[1] = FirstOf(c) /\ e[2] = a
        BY <2>1
      <3> HIDE DEF e
      <3>2. QED
        BY <2>2, <3>1 DEF Value
    <2>3. ASSUME \A c \in ch : \A a \in c \ {FirstOf(c)} : Value(f, FirstOf(c)) = Value(f, a),
                 NEW e \in Stars(ch)
          PROVE  f[Occ(e[1])][e[1][3]] = f[Occ(e[2])][e[2][3]]
      <3>1. PICK c \in ch : \E a \in c \ {FirstOf(c)} : e = <<FirstOf(c), a>>
        BY <2>1
      <3>2. PICK a \in c \ {FirstOf(c)} : e = <<FirstOf(c), a>>
        BY <3>1
      <3>3. e[1] = FirstOf(c) /\ e[2] = a
        BY <3>2
      <3>4. QED
        BY <2>3, <3>3 DEF Value
    <2>4. QED
      BY <2>2, <2>3
  <1>2. \A c \in ch : Cardinality({Value(f, a) : a \in c}) = 1
                        <=> \A a \in c \ {FirstOf(c)} : Value(f, FirstOf(c)) = Value(f, a)
    BY StarsEquate
  <1>3. \A c \in ch : {Value(f, a) : a \in c} = {f[Occ(a)][a[3]] : a \in c}
    BY DEF Value
  <1>4. QED
    BY <1>1, <1>2, <1>3

(* The support query counts what the support is: how the members of the    *)
(* head are projected, one for each class, loses no distinction.           *)
LEMMA SupportCounts ==
    ASSUME DatabaseOK, NEW cand \in Seq(Pair), NEW head \in Occurrences(cand), NEW disjoint
    PROVE  RuleCount(db, SupportQuery(Chains(cand), Occurrences(cand) \ {head}, head, disjoint))
             = TrueSupport(db, Chains(cand), head, disjoint)
  <1> DEFINE ch      == Chains(cand)
             occs    == Occurrences(cand)
             rows    == RowChoices(ch, occs, disjoint)
             columns == {a \in UNION ch : Occ(a) = head}
             project == Project(ch, {head})
             shown   == [f \in rows |-> {<<a[3], f[head][a[3]]>> : a \in columns}]
             kept    == [f \in rows |-> [a \in project |-> f[Occ(a)][a[3]]]]
  <1>1. /\ UNION ch = Members(cand) /\ Members(cand) \subseteq Attribute
        /\ \A c \in ch : c \in SUBSET Triple /\ IsFiniteSet(c) /\ c # {}
        /\ {Occ(a) : a \in UNION ch} = occs
    <2>1. UNION ch = Members(cand) /\ {Occ(a) : a \in UNION ch} = occs
      BY ClassesCover
    <2>2. Members(cand) \subseteq Attribute /\ Attribute \subseteq Triple
      BY MembersFinite, AttributesAreTriples
    <2>3. \A c \in ch : c # {} /\ c \subseteq Members(cand) /\ IsFiniteSet(c)
      BY ClassesCover
    <2> HIDE DEF ch, occs
    <2>4. QED
      BY <2>1, <2>2, <2>3
  <1>2. Witnesses(db, occs, Stars(ch), disjoint) = rows
    <2> HIDE DEF ch, occs
    <2>1. QED
      BY <1>1, JoinsAreChoices
  <1>3. (occs \ {head}) \cup {head} = occs
    OBVIOUS
  <1> HIDE DEF ch, occs
  (* Every class that reads the head has its representative there.         *)
  <1>4. \A c \in ch : ReadsFrom(c, {head}) =>
            /\ FirstOf({a \in c : Occ(a) \in {head}}) \in c
            /\ Occ(FirstOf({a \in c : Occ(a) \in {head}})) = head
    <2> SUFFICES ASSUME NEW c \in ch, ReadsFrom(c, {head})
                 PROVE  FirstOf({a \in c : Occ(a) \in {head}}) \in {a \in c : Occ(a) \in {head}}
      OBVIOUS
    <2> DEFINE mine == {a \in c : Occ(a) \in {head}}
    <2>1. mine \in SUBSET Triple /\ mine # {}
      BY <1>1 DEF ReadsFrom
    <2>2. IsFiniteSet(mine)
      BY <1>1, FS_Subset
    <2> HIDE DEF mine
    <2>3. FirstOf(mine) \in mine
      BY <2>1, <2>2, FirstMember
    <2>4. QED
      BY <2>3 DEF mine
  <1>5. project \subseteq columns
    BY <1>4 DEF Project
  <1>6. \A a \in columns : \E p \in project : \E c \in ch : a \in c /\ p \in c
    <2> SUFFICES ASSUME NEW a \in columns
                 PROVE  \E p \in project : \E c \in ch : a \in c /\ p \in c
      OBVIOUS
    <2>1. PICK c \in ch : a \in c
      OBVIOUS
    <2>2. ReadsFrom(c, {head})
      BY <2>1 DEF ReadsFrom
    <2>3. FirstOf({b \in c : Occ(b) \in {head}}) \in project
      BY <2>2 DEF Project
    <2>4. QED
      BY <1>4, <2>1, <2>2, <2>3
  <1>7. columns # {} /\ project # {}
    <2>1. \E a \in UNION ch : Occ(a) = head
      BY <1>1 DEF occs
    <2>2. QED
      BY <1>6, <2>1

  <1>8. \A f, g \in rows : shown[f] = shown[g] <=> kept[f] = kept[g]
    <2> SUFFICES ASSUME NEW f \in rows, NEW g \in rows
                 PROVE  shown[f] = shown[g] <=> kept[f] = kept[g]
      OBVIOUS
    <2> HIDE DEF rows, project
    <2>1. shown[f] = shown[g] <=> \A a \in columns : Value(f, a) = Value(g, a)
      <3>1. \A a \in columns : Value(f, a) = f[head][a[3]] /\ Value(g, a) = g[head][a[3]]
        BY DEF Value
      <3>2. ASSUME \A a \in columns : f[head][a[3]] = g[head][a[3]]
            PROVE  shown[f] = shown[g]
        BY <3>2
      <3>3. ASSUME shown[f] = shown[g], NEW a \in columns
            PROVE  f[head][a[3]] = g[head][a[3]]
        <4>1. <<a[3], f[head][a[3]]>> \in shown[g]
          BY <3>3
        <4>2. PICK b \in columns : <<a[3], f[head][a[3]]>> = <<b[3], g[head][b[3]]>>
          BY <4>1
        <4> HIDE DEF columns
        <4>3. QED
          BY <4>2
      <3> HIDE DEF shown, columns
      <3>4. QED
        BY <3>1, <3>2, <3>3
    <2>2. kept[f] = kept[g] <=> \A a \in project : Value(f, a) = Value(g, a)
      <3>1. \A a \in project : kept[f][a] = Value(f, a) /\ kept[g][a] = Value(g, a)
        BY DEF Value
      <3>2. kept[f] = [a \in project |-> Value(f, a)] /\ kept[g] = [a \in project |-> Value(g, a)]
        BY DEF Value
      <3> HIDE DEF kept
      <3>3. QED
        BY <3>1, <3>2
    <2>3. ASSUME \A a \in project : Value(f, a) = Value(g, a), NEW a \in columns
          PROVE  Value(f, a) = Value(g, a)
      <3>1. PICK p \in project, c \in ch : a \in c /\ p \in c
        BY <1>6
      <3>2. Cardinality({Value(f, b) : b \in c}) = 1 /\ Cardinality({Value(g, b) : b \in c}) = 1
        BY DEF rows, RowChoices, Value
      <3>3. c \in SUBSET Triple /\ IsFiniteSet(c) /\ c # {}
        BY <1>1
      <3>4. /\ \A x, y \in c : Value(f, x) = Value(f, y)
            /\ \A x, y \in c : Value(g, x) = Value(g, y)
        <4> HIDE DEF columns, shown, kept
        <4>1. \A x, y \in c : Value(f, x) = Value(f, y)
          BY <3>2, <3>3, StarsEquate
        <4>2. \A x, y \in c : Value(g, x) = Value(g, y)
          BY <3>2, <3>3, StarsEquate
        <4>3. QED
          BY <4>1, <4>2
      <3>5. QED
        BY <2>3, <3>1, <3>4
    <2> HIDE DEF shown, kept, columns
    <2>4. QED
      BY <1>5, <2>1, <2>2, <2>3
  <1>9. IsFiniteSet({shown[f] : f \in rows})
    <2> DEFINE numbers == {a[3] : a \in columns}
               table   == db.rows[head[1]]
               cells   == {r[2][r[1]] : r \in numbers \X table}
    <2>1. IsFiniteSet(columns)
      BY <1>1, MembersFinite, FS_Subset
    <2>2. IsFiniteSet(numbers)
      <3> DEFINE third == [a \in columns |-> a[3]]
      <3>1. third \in Surjection(columns, numbers)
        BY DEF Surjection
      <3> HIDE DEF third, columns, numbers
      <3>2. QED
        BY <2>1, <3>1, FS_Surjection
    <2>3. IsFiniteSet(table)
      <3>1. PICK a \in Attribute : head = Occ(a)
        BY <1>1 DEF occs
      <3>2. head[1] \in DOMAIN db.cols
        BY <3>1 DEF Attribute, Occ
      <3>3. QED
        BY <3>2 DEF DatabaseOK
    <2>4. IsFiniteSet(cells)
      <3> DEFINE cell == [r \in numbers \X table |-> r[2][r[1]]]
      <3>1. cell \in Surjection(numbers \X table, cells)
        BY DEF Surjection
      <3>2. IsFiniteSet(numbers \X table)
        <4> HIDE DEF numbers, table
        <4>1. QED
          BY <2>2, <2>3, FS_Product
      <3> HIDE DEF cell, cells, numbers, table
      <3>3. QED
        BY <3>1, <3>2, FS_Surjection
    <2>5. IsFiniteSet(SUBSET (numbers \X cells))
      <3> HIDE DEF numbers, cells
      <3>1. QED
        BY <2>2, <2>4, FS_Product, FS_SUBSET
    <2>6. {shown[f] : f \in rows} \in SUBSET (SUBSET (numbers \X cells))
      <3> SUFFICES ASSUME NEW f \in rows, NEW a \in columns
                   PROVE  <<a[3], f[head][a[3]]>> \in numbers \X cells
        OBVIOUS
      <3>1. a[3] \in numbers
        OBVIOUS
      <3>2. head \in occs
        BY DEF occs
      <3>3. f[head] \in table
        BY <3>2 DEF rows, RowChoices
      <3> HIDE DEF numbers, table, columns, rows
      <3>4. <<a[3], f[head]>> \in numbers \X table
        BY <3>1, <3>3
      <3>5. <<a[3], f[head]>>[2][<<a[3], f[head]>>[1]] = f[head][a[3]]
        OBVIOUS
      <3>6. f[head][a[3]] \in cells
        BY <3>4, <3>5
      <3>7. QED
        BY <3>1, <3>6
    <2> HIDE DEF numbers, cells, shown
    <2>7. QED
      BY <2>5, <2>6, FS_Subset
  <1>10. Cardinality({kept[f] : f \in rows}) = Cardinality({shown[f] : f \in rows})
    <2> DEFINE seen == {shown[f] : f \in rows}
               held == {kept[f] : f \in rows}
    <2>1. shown \in Surjection(rows, seen) /\ kept \in Surjection(rows, held)
      BY DEF Surjection
    <2>2. IsFiniteSet(seen)
      BY <1>9
    <2> HIDE DEF shown, kept, rows, seen, held
    <2>3. Cardinality(held) = Cardinality(seen)
      BY <1>8, <2>1, <2>2, SameCount
    <2>4. QED
      BY <2>3 DEF seen, held
  <1>11. TrueSupport(db, ch, head, disjoint) = Cardinality({shown[f] : f \in rows})
    <2>1. {shown[f] : f \in rows} = {{<<a[3], f[head][a[3]]>> : a \in columns} : f \in rows}
      BY Zenon
    <2>2. {Occ(a) : a \in UNION ch} = occs
      BY <1>1
    <2>3. QED
      BY <2>1, <2>2 DEF TrueSupport, RowChoices
  <1>12. RuleCount(db, SupportQuery(ch, occs \ {head}, head, disjoint))
           = Cardinality({kept[f] : f \in rows})
    <2> DEFINE q == SupportQuery(ch, occs \ {head}, head, disjoint)
    <2>1. q.occs = occs /\ q.eqs = Stars(ch) /\ q.project = project /\ q.disjoint = disjoint
      BY <1>3 DEF SupportQuery, Query
    <2> HIDE DEF q
    <2>2. Witnesses(db, q.occs, q.eqs, q.disjoint) = rows
      BY <1>2, <2>1
    <2> HIDE DEF rows, project
    <2>3. RuleCount(db, q) = Cardinality({[a \in project |-> f[Occ(a)][a[3]]] : f \in rows})
      <3>1. q.project # {}
        BY <1>7, <2>1
      <3>2. RuleCount(db, q) =
              Cardinality({[a \in q.project |-> f[Occ(a)][a[3]]] :
                              f \in Witnesses(db, q.occs, q.eqs, q.disjoint)})
        BY <3>1, Zenon DEF RuleCount
      <3>3. QED
        BY <2>1, <2>2, <3>2
    <2>4. {[a \in project |-> f[Occ(a)][a[3]]] : f \in rows} = {kept[f] : f \in rows}
      BY Zenon
    <2>5. QED
      BY <2>3, <2>4 DEF q
  <1>13. QED
    BY <1>10, <1>11, <1>12 DEF ch, occs

-----------------------------------------------------------------------------
(* Types.  The caches are typed by what they may hold: true answers.       *)

LivePcs == {"ready", "search", "yielded", "out"}
Pcs     == {"idle", "done", "stopped", "closed", "raised"} \cup LivePcs

Settings == {Effective(raw) : raw \in {w \in UNION {RawSettings[s] : s \in Sessions} : w.threshold >= 1}}
CoreOf(e) == [disjoint |-> e.disjoint, threshold |-> e.threshold, full |-> e.full]
Cores    == {CoreDefaults} \cup {CoreOf(e) : e \in Settings}

Classes  == {Chains(c) : c \in Seq(Pair)}
Analyses == {<<Range(c), Chains(c)>> : c \in Seq(Pair)}
Splits   == Seq(Pair) \X Occurrence \X BOOLEAN

Supporting(x) == SupportQuery(Chains(x[1]), Occurrences(x[1]) \ {x[2]}, x[2], x[3])
OfBody(x)     == BodyQuery(Chains(x[1]), Occurrences(x[1]) \ {x[2]}, x[3])
OfRule(x)     == RuleQuery(Chains(x[1]), Occurrences(x[1]) \ {x[2]}, x[2], x[3])
Counted == {Supporting(x) : x \in Splits} \cup {OfBody(x) : x \in Splits} \cup {OfRule(x) : x \in Splits}

Answers == {<<<<"threshold", x[1], x[2]>>, HasWitness(db, PathQuery(x[1], x[2]))>> :
               x \in Seq(Pair) \X BOOLEAN}
           \cup {<<<<"rule_count", q>>, RuleCount(db, q)>> : q \in Counted}

Measures == {0, 1} \cup {RuleCount(db, q) : q \in Counted}
Keys     == {HornKey(Chains(x[1]), Occurrences(x[1]), x[2]) : x \in Seq(Pair) \X Occurrence}
Rules    == [chains : Classes, head : Occurrence, support : Measures,
             confidence : Measures \X Measures]

Stage   == [heads : Seq(Occurrence), next : Seq(Pair)]
Session == [pc : Pcs, settings : Settings \cup {None}, saved : Cores \cup {None},
            nodes : SUBSET Pair, candidate : Seq(Pair), frames : Seq(Stage),
            seen : SUBSET Classes, analyses : Seq(Analyses), emitted : SUBSET Keys,
            pending : Rules \cup {None}, returned : SUBSET Rules, failures : Nat]

(* The stack of dfs: only the topmost frame has splits left to try, and    *)
(* they are splits of the current candidate.                               *)
Stacked(frames, candidate) ==
    /\ \A n \in DOMAIN frames : n # Len(frames) => frames[n].heads = <<>>
    /\ frames # <<>> => Last(frames).heads \in Seq(Occurrences(candidate))

SessionOK(r) ==
    /\ IsFiniteSet(r.nodes)
    /\ r.pc \in LivePcs => r.settings \in Settings /\ r.saved \in Cores
    /\ r.pc = "idle" => r.returned = {}
    /\ r.pc \in {"search", "yielded", "out"} => r.frames # <<>>
    /\ r.pc = "yielded" => r.pending \in Rules
    /\ Stacked(r.frames, r.candidate)

TypeOK ==
    /\ db \in Databases
    /\ core \in Cores
    /\ queries \in Seq(Answers)
    /\ sqlErrors \in Nat
    /\ ses \in [Sessions -> Session]
    /\ \A s \in Sessions : SessionOK(ses[s])

(* One session at a time: the globals are its settings while it lives, and *)
(* the defaults otherwise.                                                 *)
GlobalsOK ==
    /\ \A r, s \in Sessions : Live(r) /\ Live(s) => r = s
    /\ \A s \in Sessions : Live(s) => core = CoreOf(ses[s].settings) /\ ses[s].saved = CoreDefaults
    /\ (\A s \in Sessions : ~ Live(s)) => core = CoreDefaults

KeyOf(r) == HornKey(r.chains, {Occ(a) : a \in UNION r.chains}, r.head)

(* Every rule handed out, and the one about to be, has its key among those *)
(* emitted, and no two have the same.                                      *)
DistinctOK(r) ==
    /\ \A q \in r.returned : KeyOf(q) \in r.emitted
    /\ \A p, q \in r.returned : p # q => KeyOf(p) # KeyOf(q)
    /\ r.pc = "yielded" => /\ KeyOf(r.pending) \in r.emitted
                           /\ \A q \in r.returned : KeyOf(q) # KeyOf(r.pending)

HasItsSupport(q, e) ==
    /\ q.support = TrueSupport(db, q.chains, q.head, e.disjoint)
    /\ q.support >= e.threshold

ExactOK(r) ==
    /\ \A q \in r.returned : HasItsSupport(q, r.settings)
    /\ r.pc = "yielded" => HasItsSupport(r.pending, r.settings)

LEMMA DatabaseIsOK ==
    ASSUME db \in Databases
    PROVE  DatabaseOK
  BY DiscoveryAssumption DEF DatabaseOK

(* No step changes the database, nor what is typed by it.                  *)
LEMMA DatabaseFixed ==
    ASSUME db' = db
    PROVE  /\ Pair' = Pair /\ Occurrence' = Occurrence
           /\ Classes' = Classes /\ Analyses' = Analyses
           /\ Counted' = Counted /\ Answers' = Answers /\ Measures' = Measures
           /\ Keys' = Keys /\ Rules' = Rules /\ Stage' = Stage /\ Session' = Session
  <1>1. Pair' = Pair /\ Occurrence' = Occurrence
    BY DEF Pair, Occurrence, Attribute
  <1>2. Classes' = Classes /\ Analyses' = Analyses
    BY <1>1 DEF Classes, Analyses
  <1>3. Counted' = Counted
    <2>1. Splits' = Splits
      BY <1>1 DEF Splits
    <2>2. QED
      BY <2>1 DEF Counted
  <1>4. Answers' = Answers
    BY <1>1, <1>3 DEF Answers
  <1>5. Measures' = Measures
    BY <1>3 DEF Measures
  <1>6. Keys' = Keys
    BY <1>1 DEF Keys
  <1>7. Rules' = Rules
    BY <1>1, <1>2, <1>5 DEF Rules
  <1>8. Stage' = Stage
    BY <1>1 DEF Stage
  <1>9. Session' = Session
    BY <1>1, <1>2, <1>6, <1>7, <1>8 DEF Session
  <1>10. QED
    BY <1>1, <1>2, <1>3, <1>4, <1>5, <1>6, <1>7, <1>8, <1>9

LEMMA SettingsTyped ==
    /\ \A e \in Settings : /\ e.walk \in Int /\ e.threshold \in Int /\ e.threshold >= 1
                           /\ e.disjoint \in BOOLEAN /\ e.full \in BOOLEAN
                           /\ CoreOf(e) \in Cores
    /\ \A c \in Cores : c.threshold \in Int /\ c.threshold >= 1 /\ c.disjoint \in BOOLEAN /\ c.full \in BOOLEAN
  <1>1. ASSUME NEW e \in Settings
        PROVE  /\ e.walk \in Int /\ e.threshold \in Int /\ e.threshold >= 1
               /\ e.disjoint \in BOOLEAN /\ e.full \in BOOLEAN
               /\ CoreOf(e) \in Cores
    <2>0. PICK s \in Sessions :
              \E w \in RawSettings[s] : w.threshold >= 1 /\ e = Effective(w)
      BY DEF Settings
    <2>1. PICK raw \in RawSettings[s] : raw.threshold >= 1 /\ e = Effective(raw)
      BY <2>0
    <2>2. /\ {raw.walk, raw.threshold} \subseteq Int
          /\ raw.recursivity = None \/ raw.recursivity \in Int
          /\ {raw.disjoint, raw.full} \subseteq BOOLEAN
      BY DiscoveryAssumption
    <2>3. raw.recursivity \in Int => Max({1, raw.recursivity + 1}) \in Int
      <3> SUFFICES ASSUME raw.recursivity \in Int
                   PROVE  Max({1, raw.recursivity + 1}) \in Int
        OBVIOUS
      <3> DEFINE n == raw.recursivity + 1
      <3>1. n \in Int
        OBVIOUS
      <3> HIDE DEF n
      <3>2. \E x \in {1, n} : \A y \in {1, n} : x >= y
        BY <3>1
      <3>3. Max({1, n}) \in {1, n}
        BY <3>2 DEF Max
      <3>4. QED
        BY <3>1, <3>3 DEF n
    <2>4. CoercePositive(raw.walk, 4) \in Int
      BY <2>2 DEF CoercePositive
    <2>5. e.walk \in Int
      BY <2>1, <2>2, <2>3, <2>4 DEF Effective
    <2>6. e.threshold = raw.threshold /\ e.disjoint = raw.disjoint /\ e.full = raw.full
      BY <2>1 DEF Effective
    <2>7. QED
      BY <2>1, <2>2, <2>5, <2>6 DEF Cores
  <1>2. ASSUME NEW c \in Cores
        PROVE  c.threshold \in Int /\ c.threshold >= 1 /\ c.disjoint \in BOOLEAN /\ c.full \in BOOLEAN
    <2>1. CASE c = CoreDefaults
      BY <2>1 DEF CoreDefaults
    <2>2. CASE \E e \in Settings : c = CoreOf(e)
      BY <1>1, <2>2 DEF CoreOf
    <2>3. QED
      BY <2>1, <2>2 DEF Cores
  <1>3. QED
    BY <1>1, <1>2

-----------------------------------------------------------------------------
(* Type correctness                                                        *)

LEMMA FreshIsSession == Fresh \in Session
  BY DEF Fresh, Session, Pcs, LivePcs

LEMMA InitTypes == Init => TypeOK
  <1> SUFFICES ASSUME Init
               PROVE  TypeOK
    OBVIOUS
  <1>1. DatabaseOK
    BY DatabaseIsOK DEF Init
  <1>2. Fresh \in Session
    BY FreshIsSession
  <1>3. SessionOK(Fresh)
    <2>1. IsFiniteSet({})
      BY FS_EmptySet
    <2>2. DOMAIN <<>> = {}
      OBVIOUS
    <2>3. QED
      BY <2>1, <2>2 DEF SessionOK, Fresh, LivePcs, Stacked
  <1>4. queries \in Seq(Answers)
    BY DEF Init
  <1>5. QED
    BY <1>2, <1>3, <1>4 DEF Init, TypeOK, Cores

(* What a step that moves one session has to keep.                         *)
OthersStay(s) == /\ ses' = [t \in Sessions |-> ses'[t]]
                 /\ \A t \in Sessions \ {s} : ses'[t] = ses[t]

LEMMA OneMoves ==
    ASSUME TypeOK, NEW s \in Sessions, OthersStay(s), ses'[s] \in Session, SessionOK(ses'[s]),
           db' = db, core' \in Cores, queries' \in Seq(Answers), sqlErrors' \in Nat
    PROVE  TypeOK'
  <1>1. Session' = Session /\ Answers' = Answers /\ Rules' = Rules
    BY DatabaseFixed
  <1>2. \A t \in Sessions : ses'[t] \in Session /\ SessionOK(ses'[t])
    BY DEF TypeOK, OthersStay
  <1>3. \A t \in Sessions : SessionOK(ses[t])'
    BY <1>1, <1>2 DEF SessionOK
  <1>4. ses' \in [Sessions -> Session']
    BY <1>1, <1>2 DEF OthersStay
  <1>5. QED
    BY <1>1, <1>3, <1>4 DEF TypeOK

(* Leaving, in whatever way, keeps the settings, the keys and the rules.   *)
LEMMA Leaving ==
    ASSUME TypeOK, NEW s \in Sessions, Live(s), NEW how \in Pcs \ LivePcs, how # "idle", Leave(s, how)
    PROVE  /\ OthersStay(s) /\ ses'[s] \in Session /\ SessionOK(ses'[s]) /\ core' \in Cores
           /\ ses'[s].pc = how /\ ~ Live(s)' /\ core' = ses[s].saved
           /\ ses'[s].settings = ses[s].settings
           /\ ses'[s].emitted = ses[s].emitted /\ ses'[s].returned = ses[s].returned
  <1> DEFINE r == [Fresh EXCEPT !.pc = how, !.settings = ses[s].settings, !.nodes = ses[s].nodes,
                                !.emitted = ses[s].emitted, !.returned = ses[s].returned]
  <1>1. ses[s] \in Session /\ SessionOK(ses[s]) /\ ses[s].pc \in LivePcs
    BY DEF TypeOK, Live, LivePcs
  <1>2. ses' = [ses EXCEPT ![s] = r] /\ core' = ses[s].saved
    BY DEF Leave
  <1>3. OthersStay(s) /\ ses'[s] = r
    BY <1>2 DEF TypeOK, OthersStay
  <1>4. /\ r.pc = how /\ r.settings = ses[s].settings /\ r.saved = None /\ r.nodes = ses[s].nodes
        /\ r.candidate = <<>> /\ r.frames = <<>> /\ r.emitted = ses[s].emitted
        /\ r.pending = None /\ r.returned = ses[s].returned
    BY DEF Fresh
  <1>5. r \in Session
    <2>1. Fresh \in Session
      BY FreshIsSession
    <2>2. /\ ses[s].settings \in Settings \cup {None} /\ ses[s].nodes \in SUBSET Pair
          /\ ses[s].emitted \in SUBSET Keys /\ ses[s].returned \in SUBSET Rules
      BY <1>1 DEF Session
    <2>3. <<>> \in Seq(Pair) /\ <<>> \in Seq(Stage) /\ <<>> \in Seq(Analyses)
      OBVIOUS
    <2>4. QED
      BY <2>1, <2>2, <2>3 DEF Session
  <1> HIDE DEF r
  <1>6. DOMAIN <<>> = {}
    OBVIOUS
  <1>7. SessionOK(r)
    BY <1>1, <1>4, <1>6 DEF SessionOK, Pcs, LivePcs, Stacked
  <1>8. core' \in Cores
    BY <1>1, <1>2 DEF SessionOK
  <1>9. QED
    BY <1>2, <1>3, <1>4, <1>5, <1>7, <1>8 DEF Live, LivePcs

(* What the search computes from a session is of the right type.           *)
LEMMA JoinableTyped ==
    ASSUME DatabaseOK, NEW full, NEW walk \in Int, NEW cap
    PROVE  /\ JoinablePairs(db, full, walk, cap) \in SUBSET Pair
           /\ IsFiniteSet(JoinablePairs(db, full, walk, cap))
  <1> DEFINE compatible == CompatiblePairs(db, full)
             all  == compatible \X (0 .. (walk - 1)) \X (0 .. (walk - 1))
             some == {y \in all : cap[y[1][1]] >= y[2] /\ cap[y[1][2]] >= y[3]}
             pair(x) == JIA(Indexed(x[1][1], x[2]), Indexed(x[1][2], x[3]))
             made == [x \in some |-> pair(x)]
  <1>1. compatible \in SUBSET (Attributes(db) \X Attributes(db))
    BY DEF CompatiblePairs, ForeignKeys, AttributePairs
  <1>2. Attributes(db) \in SUBSET ((DOMAIN db.cols) \X (1 .. 9))
    BY DEF Attributes
  <1>3. IsFiniteSet(Attributes(db))
    <2>1. DOMAIN db.cols = 1 .. Len(db.cols) /\ Len(db.cols) \in Int
      BY DEF DatabaseOK
    <2>2. 1 \in Int /\ 9 \in Int
      OBVIOUS
    <2>3. IsFiniteSet(1 .. 9) /\ IsFiniteSet(DOMAIN db.cols)
      BY <2>1, <2>2, FS_Interval
    <2>4. IsFiniteSet((DOMAIN db.cols) \X (1 .. 9))
      BY <2>3, FS_Product
    <2>5. QED
      BY <1>2, <2>4, FS_Subset
  <1>4. IsFiniteSet(compatible)
    <2>1. IsFiniteSet(Attributes(db) \X Attributes(db))
      BY <1>3, FS_Product
    <2> HIDE DEF compatible
    <2>2. QED
      BY <1>1, <2>1, FS_Subset
  <1>5. JoinablePairs(db, full, walk, cap) = {pair(x) : x \in some}
    BY DEF JoinablePairs
  <1> HIDE DEF compatible
  <1>6. \A x \in some : pair(x) \in Pair
    <2> SUFFICES ASSUME NEW x \in some
                 PROVE  pair(x) \in Pair
      OBVIOUS
    <2>1. /\ x[1][1] \in Attributes(db) /\ x[1][2] \in Attributes(db)
          /\ x[2] \in Nat /\ x[3] \in Nat
      BY <1>1
    <2>2. Indexed(x[1][1], x[2]) \in Attribute /\ Indexed(x[1][2], x[3]) \in Attribute
      BY <1>2, <2>1 DEF Indexed, Attribute
    <2>3. QED
      BY <2>2 DEF JIA, Pair
  <1>7. IsFiniteSet(all)
    <2> DEFINE turn == 0 .. (walk - 1)
               flat == [y \in (compatible \X turn) \X turn |-> <<y[1][1], y[1][2], y[2]>>]
    <2>1. IsFiniteSet(turn)
      <3>1. 0 \in Int /\ walk - 1 \in Int
        OBVIOUS
      <3>2. QED
        BY <3>1, FS_Interval
    <2> HIDE DEF turn
    <2>2. IsFiniteSet(compatible \X turn)
      BY <1>4, <2>1, FS_Product
    <2>3. IsFiniteSet((compatible \X turn) \X turn)
      BY <2>1, <2>2, FS_Product
    <2>4. flat \in Surjection((compatible \X turn) \X turn, compatible \X turn \X turn)
      <3>1. flat \in [(compatible \X turn) \X turn -> compatible \X turn \X turn]
        OBVIOUS
      <3>2. ASSUME NEW z \in compatible \X turn \X turn
            PROVE  \E y \in (compatible \X turn) \X turn : flat[y] = z
        <4>1. <<<<z[1], z[2]>>, z[3]>> \in (compatible \X turn) \X turn
          OBVIOUS
        <4>2. flat[<<<<z[1], z[2]>>, z[3]>>] = z
          BY <4>1
        <4>3. QED
          BY <4>1, <4>2
      <3> HIDE DEF flat
      <3>3. QED
        BY <3>1, <3>2 DEF Surjection
    <2> HIDE DEF flat
    <2>5. IsFiniteSet(compatible \X turn \X turn)
      BY <2>3, <2>4, FS_Surjection
    <2>6. QED
      BY <2>5 DEF turn
  <1>8. IsFiniteSet({pair(x) : x \in some})
    <2>1. IsFiniteSet(some)
      <3> HIDE DEF all
      <3>1. QED
        BY <1>7, FS_Subset
    <2> DEFINE image == {pair(x) : x \in some}
    <2> HIDE DEF some, pair
    <2>2. made \in Surjection(some, image)
      BY DEF Surjection
    <2> HIDE DEF made, image
    <2>3. IsFiniteSet(image)
      BY <2>1, <2>2, FS_Surjection
    <2>4. QED
      BY <2>3 DEF image
  <1>9. QED
    BY <1>5, <1>6, <1>8

LEMMA OccurrencesTyped ==
    ASSUME DatabaseOK, NEW cand \in Seq(Pair)
    PROVE  /\ Occurrences(cand) \in SUBSET Occurrence
           /\ IsFiniteSet(Occurrences(cand))
           /\ SortedBy(HornHeads(cand), HeadLess) \in Seq(Occurrences(cand))
  <1> DEFINE place == [a \in Members(cand) |-> Occ(a)]
  <1>1. Members(cand) \subseteq Attribute /\ IsFiniteSet(Members(cand))
    BY MembersFinite
  <1>2. {Occ(a) : a \in Members(cand)} = Occurrences(cand)
    BY DEF Members, Occurrences, Occs
  <1>3. Occurrences(cand) \in SUBSET Occurrence
    BY <1>1, <1>2, AttributesAreTriples
  <1>4. IsFiniteSet(Occurrences(cand))
    <2>1. place \in Surjection(Members(cand), Occurrences(cand))
      BY <1>2 DEF Surjection
    <2> HIDE DEF place
    <2>2. QED
      BY <1>1, <2>1, FS_Surjection
  <1>5. HornHeads(cand) \in SUBSET Occurrences(cand)
    BY DEF HornHeads
  <1>6. HornHeads(cand) \in SUBSET (Int \X Int) /\ IsFiniteSet(HornHeads(cand))
    BY <1>3, <1>4, <1>5, AttributesAreTriples, FS_Subset
  <1>7. SortedBy(HornHeads(cand), HeadLess) \in Seq(HornHeads(cand))
    BY <1>6, SortedHeads
  <1>8. QED
    BY <1>3, <1>4, <1>5, <1>7

LEMMA PairsSorted ==
    ASSUME DatabaseOK, NEW S \in SUBSET Pair, IsFiniteSet(S)
    PROVE  Sorted(S) \in Seq(Pair)
  <1>1. S \in SUBSET (Triple \X Triple)
    BY AttributesAreTriples
  <1>2. Sorted(S) \in Seq(S)
    BY <1>1, SortedElements
  <1>3. QED
    BY <1>2

LEMMA FrontierTyped ==
    ASSUME DatabaseOK, NEW s, ses[s].nodes \in SUBSET Pair, IsFiniteSet(ses[s].nodes), NEW cand
    PROVE  Frontier(s, cand) \in Seq(Pair)
  <1> DEFINE around == UNION {AllNeighbours(ses[s].nodes, cand[n]) : n \in DOMAIN cand} \ Range(cand)
  <1>1. around \in SUBSET ses[s].nodes
    BY DEF AllNeighbours
  <1> HIDE DEF around
  <1>2. around \in SUBSET Pair /\ IsFiniteSet(around)
    BY <1>1, FS_Subset
  <1>3. Sorted(around) \in Seq(Pair)
    BY <1>2, PairsSorted
  <1>4. QED
    BY <1>3 DEF Frontier, around

(* The stack with another frame on top, with one more, and with one less.  *)
LEMMA TopReplaced ==
    ASSUME NEW frames \in Seq(Stage), frames # <<>>, NEW candidate, Stacked(frames, candidate),
           NEW f \in Stage, f.heads \in Seq(Occurrences(candidate))
    PROVE  LET new == Append(Front(frames), f) IN
           new \in Seq(Stage) /\ new # <<>> /\ Len(new) = Len(frames) /\ Stacked(new, candidate)
  <1> DEFINE new == Append(Front(frames), f)
  <1>1. Len(frames) \in Nat \ {0} /\ DOMAIN frames = 1 .. Len(frames)
    BY EmptySeq
  <1>2. /\ Front(frames) \in Seq(Stage) /\ Len(Front(frames)) = Len(frames) - 1
        /\ \A n \in 1 .. Len(frames) - 1 : Front(frames)[n] = frames[n]
    BY <1>1 DEF Front
  <1>3. /\ new \in Seq(Stage) /\ Len(new) = Len(frames) /\ new[Len(frames)] = f
        /\ \A n \in 1 .. Len(frames) - 1 : new[n] = frames[n]
    <2> DEFINE below == Front(frames)
    <2> HIDE DEF below
    <2>1. /\ below \in Seq(Stage) /\ Len(below) = Len(frames) - 1
          /\ \A n \in 1 .. Len(frames) - 1 : below[n] = frames[n]
      BY <1>2 DEF below
    <2>2. /\ Append(below, f) \in Seq(Stage) /\ Len(Append(below, f)) = Len(below) + 1
          /\ Append(below, f)[Len(below) + 1] = f
          /\ \A n \in 1 .. Len(below) : Append(below, f)[n] = below[n]
      BY <2>1
    <2>3. Append(below, f) = new
      BY DEF below
    <2> HIDE DEF new
    <2>4. Len(below) + 1 = Len(frames)
      <3>1. \A k \in Nat \ {0} : k - 1 + 1 = k
        OBVIOUS
      <3>2. QED
        BY <1>1, <2>1, <3>1
    <2> DEFINE k == Len(frames)
    <2>5. new[k] = f /\ Len(new) = k /\ new \in Seq(Stage)
      BY <2>2, <2>3, <2>4
    <2>6. \A n \in 1 .. k - 1 : new[n] = frames[n]
      BY <2>1, <2>2, <2>3
    <2>7. QED
      BY <2>5, <2>6
  <1> HIDE DEF new
  <1>4. new # <<>> /\ DOMAIN new = 1 .. Len(frames)
    BY <1>1, <1>3
  <1>5. Stacked(new, candidate)
    <2>1. \A n \in 1 .. Len(frames) : n # Len(frames) => new[n].heads = <<>>
      <3>1. \A k \in Nat \ {0} : \A n \in 1 .. k : n # k => n \in 1 .. k - 1
        OBVIOUS
      <3>2. \A n \in 1 .. Len(frames) : n # Len(frames) => n \in 1 .. Len(frames) - 1
        BY <1>1, <3>1
      <3>3. QED
        BY <1>1, <1>3, <3>2 DEF Stacked
    <2>2. Last(new) = f
      BY <1>3 DEF Last
    <2>3. QED
      BY <1>3, <1>4, <2>1, <2>2 DEF Stacked
  <1>6. QED
    BY <1>3, <1>4, <1>5 DEF new

LEMMA FramePushed ==
    ASSUME NEW frames \in Seq(Stage), frames # <<>>, NEW candidate, Stacked(frames, candidate),
           Last(frames).heads = <<>>, NEW cand, NEW f \in Stage, f.heads \in Seq(Occurrences(cand))
    PROVE  LET new == Append(frames, f) IN
           new \in Seq(Stage) /\ new # <<>> /\ Stacked(new, cand)
  <1> DEFINE new == Append(frames, f)
  <1>1. Len(frames) \in Nat /\ DOMAIN frames = 1 .. Len(frames)
    OBVIOUS
  <1>2. /\ new \in Seq(Stage) /\ Len(new) = Len(frames) + 1 /\ new[Len(frames) + 1] = f
        /\ \A n \in 1 .. Len(frames) : new[n] = frames[n]
    OBVIOUS
  <1> HIDE DEF new
  <1>3. new # <<>> /\ DOMAIN new = 1 .. Len(frames) + 1
    BY <1>1, <1>2
  <1>4. \A n \in 1 .. Len(frames) : frames[n].heads = <<>>
    BY <1>1 DEF Stacked, Last
  <1>5. \A n \in 1 .. Len(frames) + 1 : n # Len(frames) + 1 => new[n].heads = <<>>
    <2> SUFFICES ASSUME NEW n \in 1 .. Len(frames) + 1, n # Len(frames) + 1
                 PROVE  new[n].heads = <<>>
      OBVIOUS
    <2>1. n \in 1 .. Len(frames)
      BY <1>1
    <2>2. QED
      BY <1>2, <1>4, <2>1
  <1>6. Last(new) = f
    BY <1>2 DEF Last
  <1>7. QED
    BY <1>2, <1>3, <1>5, <1>6 DEF Stacked, new

LEMMA FramePopped ==
    ASSUME NEW frames \in Seq(Stage), frames # <<>>, Len(frames) # 1, NEW candidate,
           Stacked(frames, candidate), NEW cand
    PROVE  Front(frames) \in Seq(Stage) /\ Front(frames) # <<>> /\ Stacked(Front(frames), cand)
  <1> DEFINE new == Front(frames)
  <1>1. Len(frames) \in Nat \ {0} /\ DOMAIN frames = 1 .. Len(frames)
    BY EmptySeq
  <1>2. /\ new \in Seq(Stage) /\ Len(new) = Len(frames) - 1
        /\ \A n \in 1 .. Len(frames) - 1 : new[n] = frames[n]
    BY <1>1 DEF Front
  <1> HIDE DEF new
  <1>3. new # <<>> /\ DOMAIN new = 1 .. Len(frames) - 1
    BY <1>1, <1>2
  <1>4. \A n \in 1 .. Len(frames) - 1 : new[n].heads = <<>>
    BY <1>1, <1>2 DEF Stacked
  <1>5. Last(new).heads = <<>>
    BY <1>1, <1>2, <1>4 DEF Last
  <1>6. <<>> \in Seq(Occurrences(cand))
    OBVIOUS
  <1>7. QED
    BY <1>2, <1>3, <1>4, <1>5, <1>6 DEF Stacked, new

(* The next pair of the frame on top, and the candidate with it.           *)
LEMMA TopTyped ==
    ASSUME TypeOK, NEW s \in Sessions, ses[s].pc = "search"
    PROVE  /\ Top(s) \in Stage /\ Top(s).heads \in Seq(Occurrences(ses[s].candidate))
           /\ Top(s).next # <<>> => /\ Append(ses[s].candidate, Head(Top(s).next)) \in Seq(Pair)
                                    /\ Tail(Top(s).next) \in Seq(Pair)
  <1>1. ses[s] \in Session /\ SessionOK(ses[s])
    BY DEF TypeOK
  <1>2. ses[s].frames \in Seq(Stage) /\ ses[s].frames # <<>> /\ ses[s].candidate \in Seq(Pair)
    BY <1>1 DEF Session, SessionOK
  <1>3. Top(s) \in Stage
    <2>1. Len(ses[s].frames) \in 1 .. Len(ses[s].frames)
      BY <1>2, EmptySeq
    <2>2. QED
      BY <1>2, <2>1 DEF Top, Last
  <1>4. Top(s).heads \in Seq(Occurrences(ses[s].candidate))
    BY <1>1, <1>2 DEF SessionOK, Stacked, Top
  <1>5. Top(s).next \in Seq(Pair)
    BY <1>3 DEF Stage
  <1>6. QED
    BY <1>2, <1>3, <1>4, <1>5

(* What each step makes of the record of its session.                      *)
LEMMA StartTypes ==
    ASSUME TypeOK, NEW s \in Sessions, Start(s)
    PROVE  TypeOK'
  <1>1. ses[s] \in Session /\ SessionOK(ses[s]) /\ ses[s].pc = "idle"
    BY DEF TypeOK, Start
  <1>2. PICK raw \in RawSettings[s] :
          IF raw.threshold < 1
          THEN ses' = [ses EXCEPT ![s].pc = "raised"] /\ UNCHANGED core
          ELSE LET e == Effective(raw) IN
               /\ ses' = [ses EXCEPT ![s].pc = "ready", ![s].settings = e, ![s].saved = core]
               /\ core' = [disjoint |-> e.disjoint, threshold |-> e.threshold, full |-> e.full]
    BY DEF Start
  <1>3. UNCHANGED <<db, queries, sqlErrors>> /\ queries \in Seq(Answers) /\ sqlErrors \in Nat
        /\ core \in Cores
    BY DEF Start, TypeOK
  <1>4. CASE raw.threshold < 1
    <2> DEFINE r == [ses[s] EXCEPT !.pc = "raised"]
    <2>1. ses' = [ses EXCEPT ![s] = r] /\ core' = core
      BY <1>2, <1>4
    <2>2. OthersStay(s) /\ ses'[s] = r
      BY <2>1 DEF TypeOK, OthersStay
    <2>3. r \in Session
      BY <1>1 DEF Session, Pcs
    <2>4. SessionOK(r)
      BY <1>1 DEF SessionOK, Session, LivePcs
    <2>5. QED
      BY <1>3, <2>1, <2>2, <2>3, <2>4, OneMoves
  <1>5. CASE ~ (raw.threshold < 1)
    <2> DEFINE e == Effective(raw)
               r == [ses[s] EXCEPT !.pc = "ready", !.settings = e, !.saved = core]
    <2>1. ses' = [ses EXCEPT ![s] = r] /\ core' = CoreOf(e)
      BY <1>2, <1>5 DEF CoreOf
    <2>2. OthersStay(s) /\ ses'[s] = r
      BY <2>1 DEF TypeOK, OthersStay
    <2>3. e \in Settings
      <3>1. raw.threshold >= 1
        <4>1. raw.threshold \in Int
          BY DiscoveryAssumption
        <4>2. QED
          BY <1>5, <4>1
      <3>2. QED
        BY <3>1 DEF Settings
    <2> HIDE DEF e
    <2>4. r \in Session
      BY <1>1, <1>3, <2>3 DEF Session, Pcs, LivePcs
    <2>5. SessionOK(r)
      BY <1>1, <1>3, <2>3 DEF SessionOK, Session, LivePcs
    <2>6. core' \in Cores
      BY <2>1, <2>3, SettingsTyped
    <2>7. QED
      BY <1>3, <2>2, <2>4, <2>5, <2>6, OneMoves
  <1>6. QED
    BY <1>4, <1>5

LEMMA LeavingTypes ==
    ASSUME TypeOK, NEW s \in Sessions, Live(s), NEW how \in Pcs \ LivePcs, how # "idle", Leave(s, how),
           db' = db, queries' = queries, sqlErrors' \in Nat
    PROVE  TypeOK'
  <1>1. OthersStay(s) /\ ses'[s] \in Session /\ SessionOK(ses'[s]) /\ core' \in Cores
    BY Leaving
  <1>2. queries' \in Seq(Answers)
    BY DEF TypeOK
  <1>3. QED
    BY <1>1, <1>2, OneMoves

LEMMA InitialiseTypes ==
    ASSUME TypeOK, NEW s \in Sessions, Initialise(s)
    PROVE  TypeOK'
  <1>1. ses[s] \in Session /\ SessionOK(ses[s]) /\ ses[s].pc = "ready" /\ ses[s].settings \in Settings
    BY DEF TypeOK, Initialise, SessionOK, LivePcs
  <1> DEFINE e     == ses[s].settings
             nodes == JoinablePairs(db, core.full, e.walk, [a \in Attributes(db) |->
                                        IF a \in DOMAIN e.cap THEN e.cap[a] ELSE e.walk])
  <1>2. PICK failed \in {0, 1} :
          /\ sqlErrors' = sqlErrors + failed
          /\ IF failed = 1 \/ nodes = {}
             THEN Leave(s, "done")
             ELSE /\ ses' = [ses EXCEPT ![s].pc = "search", ![s].nodes = nodes,
                                        ![s].frames = <<Frame(<<>>, Sorted(nodes))>>]
                  /\ UNCHANGED core
    BY DEF Initialise
  <1>3. /\ db' = db /\ queries' = queries /\ queries \in Seq(Answers) /\ sqlErrors' \in Nat
        /\ core \in Cores /\ DatabaseOK
    <2>1. DatabaseOK
      BY DatabaseIsOK DEF TypeOK
    <2>2. sqlErrors' \in Nat
      <3>1. sqlErrors \in Nat /\ sqlErrors' = sqlErrors + failed
        BY <1>2 DEF TypeOK
      <3>2. QED
        BY <3>1
    <2>3. QED
      BY <2>1, <2>2 DEF Initialise, TypeOK
  <1>4. CASE failed = 1 \/ nodes = {}
    <2>1. Leave(s, "done") /\ Live(s)
      BY <1>1, <1>2, <1>4 DEF Live
    <2>2. QED
      BY <1>3, <2>1, LeavingTypes DEF Pcs, LivePcs
  <1>5. CASE ~ (failed = 1 \/ nodes = {})
    <2> DEFINE f == Frame(<<>>, Sorted(nodes))
               r == [ses[s] EXCEPT !.pc = "search", !.nodes = nodes, !.frames = <<f>>]
    <2>1. ses' = [ses EXCEPT ![s] = r] /\ core' = core
      BY <1>2, <1>5
    <2>2. OthersStay(s) /\ ses'[s] = r
      BY <2>1 DEF TypeOK, OthersStay
    <2>3. nodes \in SUBSET Pair /\ IsFiniteSet(nodes)
      BY <1>1, <1>3, SettingsTyped, JoinableTyped
    <2> HIDE DEF nodes
    <2>4. f \in Stage /\ f.heads = <<>>
      <3>1. Sorted(nodes) \in Seq(Pair)
        BY <1>3, <2>3, PairsSorted
      <3>2. QED
        BY <3>1 DEF Stage, Frame
    <2> HIDE DEF f
    <2>5. r \in Session
      <3>1. <<f>> \in Seq(Stage)
        BY <2>4
      <3>2. QED
        BY <1>1, <2>3, <3>1 DEF Session, Pcs, LivePcs
    <2>6. Stacked(<<f>>, ses[s].candidate)
      <3>1. DOMAIN <<f>> = {1} /\ Len(<<f>>) = 1 /\ <<f>>[1] = f
        OBVIOUS
      <3>2. <<>> \in Seq(Occurrences(ses[s].candidate))
        OBVIOUS
      <3>3. QED
        BY <2>4, <3>1, <3>2 DEF Stacked, Last
    <2>7. SessionOK(r)
      <3>1. <<f>> # <<>>
        OBVIOUS
      <3>2. QED
        BY <1>1, <2>3, <2>6, <3>1 DEF SessionOK, Session, LivePcs
    <2>8. QED
      BY <1>3, <2>1, <2>2, <2>5, <2>7, OneMoves
  <1>6. QED
    BY <1>4, <1>5

(* Every question to a cache is answered truly.                            *)
LEMMA AnalysisTrue ==
    ASSUME NEW cache \in Seq(Analyses), NEW cand \in Seq(Pair)
    PROVE  /\ Analyse(cache, cand).value = Chains(cand)
           /\ Analyse(cache, cand).cache \in Seq(Analyses)
  <1>1. <<Range(cand), Chains(cand)>> \in Analyses
    BY DEF Analyses
  <1>2. \A e \in Analyses : e[1] = Range(cand) => e[2] = Chains(cand)
    <2> SUFFICES ASSUME NEW c \in Seq(Pair), <<Range(c), Chains(c)>>[1] = Range(cand)
                 PROVE  Chains(c) = Chains(cand)
      BY DEF Analyses
    <2>1. QED
      BY SamePairsSameClasses
  <1>3. QED
    BY <1>1, <1>2, AskAnswers DEF Analyse

LEMMA WitnessTrue ==
    ASSUME NEW cache \in Seq(Answers), NEW cand \in Seq(Pair), NEW disjoint \in BOOLEAN
    PROVE  LET v == HasWitness(db, PathQuery(cand, disjoint))
               got == Ask(cache, <<"threshold", cand, disjoint>>, v, QueryCacheLimit)
           IN  got.value = v /\ got.cache \in Seq(Answers)
  <1> DEFINE v == HasWitness(db, PathQuery(cand, disjoint))
             k == <<"threshold", cand, disjoint>>
  <1>1. <<k, v>> \in Answers
    <2>1. <<cand, disjoint>> \in Seq(Pair) \X BOOLEAN
      OBVIOUS
    <2>2. QED
      BY <2>1 DEF Answers
  <1>2. \A e \in Answers : e[1] = k => e[2] = v
    <2> SUFFICES ASSUME NEW e \in Answers, e[1] = k
                 PROVE  e[2] = v
      OBVIOUS
    <2>1. CASE \E x \in Seq(Pair) \X BOOLEAN :
                  e = <<<<"threshold", x[1], x[2]>>, HasWitness(db, PathQuery(x[1], x[2]))>>
      <3>1. PICK x \in Seq(Pair) \X BOOLEAN :
                  e = <<<<"threshold", x[1], x[2]>>, HasWitness(db, PathQuery(x[1], x[2]))>>
        BY <2>1
      <3>2. x[1] = cand /\ x[2] = disjoint
        BY <3>1
      <3>3. QED
        BY <3>1, <3>2
    <2>2. CASE \E q \in Counted : e = <<<<"rule_count", q>>, RuleCount(db, q)>>
      BY <2>2
    <2>3. QED
      BY <2>1, <2>2 DEF Answers
  <1> HIDE DEF v, k
  <1>3. Ask(cache, k, v, QueryCacheLimit).value = v
        /\ Ask(cache, k, v, QueryCacheLimit).cache \in Seq(Answers)
    BY <1>1, <1>2, AskAnswers
  <1>4. QED
    BY <1>3 DEF v, k

LEMMA CountTrue ==
    ASSUME NEW cache \in Seq(Answers), NEW q \in Counted
    PROVE  LET v == RuleCount(db, q)
               got == Ask(cache, <<"rule_count", QueryKey(q)>>, v, QueryCacheLimit)
           IN  got.value = v /\ got.cache \in Seq(Answers) /\ v \in Measures
  <1> DEFINE v == RuleCount(db, q)
             k == <<"rule_count", QueryKey(q)>>
  <1>1. <<k, v>> \in Answers /\ v \in Measures
    BY DEF Answers, QueryKey, Measures
  <1>2. \A e \in Answers : e[1] = k => e[2] = v
    <2> SUFFICES ASSUME NEW e \in Answers, e[1] = k
                 PROVE  e[2] = v
      OBVIOUS
    <2>1. CASE \E x \in Seq(Pair) \X BOOLEAN :
                  e = <<<<"threshold", x[1], x[2]>>, HasWitness(db, PathQuery(x[1], x[2]))>>
      BY <2>1
    <2>2. CASE \E p \in Counted : e = <<<<"rule_count", p>>, RuleCount(db, p)>>
      BY <2>2 DEF QueryKey
    <2>3. QED
      BY <2>1, <2>2 DEF Answers
  <1> HIDE DEF v, k
  <1>3. Ask(cache, k, v, QueryCacheLimit).value = v
        /\ Ask(cache, k, v, QueryCacheLimit).cache \in Seq(Answers)
    BY <1>1, <1>2, AskAnswers
  <1>4. QED
    BY <1>1, <1>3 DEF v, k

LEMMA RefuseTypes ==
    ASSUME TypeOK, NEW s \in Sessions, Refuse(s)
    PROVE  TypeOK'
  <1> DEFINE cand == Append(ses[s].candidate, Head(Top(s).next))
             got  == Analyse(ses[s].analyses, cand)
             fits == ShapeAllows(cand, ses[s].settings.tables)
             next == IF fits THEN got.cache ELSE ses[s].analyses
             r    == [ses[s] EXCEPT !.frames = TakeNext(s), !.analyses = next]
  <1>1. ses[s] \in Session /\ SessionOK(ses[s]) /\ ses[s].pc = "search" /\ Top(s).next # <<>>
    BY DEF TypeOK, Refuse
  <1>2. ses' = [ses EXCEPT ![s] = r] /\ UNCHANGED <<db, core, queries, sqlErrors>>
    BY DEF Refuse
  <1>3. OthersStay(s) /\ ses'[s] = r
    BY <1>2 DEF TypeOK, OthersStay
  <1>4. cand \in Seq(Pair) /\ Tail(Top(s).next) \in Seq(Pair) /\ Top(s) \in Stage
    BY <1>1, TopTyped
  <1> HIDE DEF cand
  <1>5. next \in Seq(Analyses)
    <2>1. ses[s].analyses \in Seq(Analyses)
      BY <1>1 DEF Session
    <2>2. QED
      BY <1>4, <2>1, AnalysisTrue
  <1> HIDE DEF next
  <1>6. /\ TakeNext(s) \in Seq(Stage) /\ TakeNext(s) # <<>>
        /\ Stacked(TakeNext(s), ses[s].candidate)
    <2> DEFINE f == Frame(<<>>, Tail(Top(s).next))
    <2>1. f \in Stage /\ f.heads \in Seq(Occurrences(ses[s].candidate))
      BY <1>4 DEF Stage, Frame
    <2>2. /\ ses[s].frames \in Seq(Stage) /\ ses[s].frames # <<>>
          /\ Stacked(ses[s].frames, ses[s].candidate)
      BY <1>1 DEF Session, SessionOK
    <2> HIDE DEF f
    <2>3. TakeNext(s) = Append(Front(ses[s].frames), f)
      BY DEF TakeNext, WithTop, f
    <2>4. QED
      BY <2>1, <2>2, <2>3, TopReplaced
  <1>7. r \in Session
    BY <1>1, <1>5, <1>6 DEF Session
  <1>8. SessionOK(r)
    BY <1>1, <1>6 DEF SessionOK, Session, LivePcs
  <1>9. core' \in Cores /\ queries' \in Seq(Answers) /\ sqlErrors' \in Nat
    BY <1>2 DEF TypeOK
  <1>10. QED
    BY <1>2, <1>3, <1>7, <1>8, <1>9, OneMoves

LEMMA EnterTypes ==
    ASSUME TypeOK, NEW s \in Sessions, Enter(s)
    PROVE  TypeOK'
  <1> DEFINE cand  == Append(ses[s].candidate, Head(Top(s).next))
             got   == Analyse(ses[s].analyses, cand)
             ch    == got.value
             again == ch \in ses[s].seen
             v     == HasWitness(db, PathQuery(cand, core.disjoint))
             asked == Ask(queries, <<"threshold", cand, core.disjoint>>, v, QueryCacheLimit)
             f     == IF again \/ asked.value = 0
                      THEN Frame(<<>>, <<>>)
                      ELSE Frame(SortedBy(HornHeads(cand), HeadLess), Frontier(s, cand))
             r     == [ses[s] EXCEPT !.candidate = cand, !.analyses = got.cache,
                                     !.seen = @ \cup {ch}, !.frames = Append(TakeNext(s), f)]
  <1>1. /\ ses[s] \in Session /\ SessionOK(ses[s]) /\ ses[s].pc = "search"
        /\ Top(s).next # <<>> /\ Top(s).heads = <<>> /\ Live(s)
    BY DEF TypeOK, Enter, Live
  <1>2. /\ db' = db
        /\ \/ /\ ses' = [ses EXCEPT ![s] = r]
              /\ queries' = IF again THEN queries ELSE asked.cache
              /\ UNCHANGED <<core, sqlErrors>>
           \/ /\ sqlErrors' = sqlErrors + 1
              /\ Leave(s, "raised")
              /\ queries' = queries
    BY DEF Enter
  <1>3. /\ DatabaseOK /\ core \in Cores /\ core.disjoint \in BOOLEAN /\ queries \in Seq(Answers)
        /\ sqlErrors \in Nat
    BY DatabaseIsOK, SettingsTyped DEF TypeOK
  <1>4. cand \in Seq(Pair) /\ Tail(Top(s).next) \in Seq(Pair) /\ Top(s) \in Stage
    BY <1>1, TopTyped
  <1> HIDE DEF cand
  <1>5. got.cache \in Seq(Analyses) /\ ch = Chains(cand)
    <2>1. ses[s].analyses \in Seq(Analyses)
      BY <1>1 DEF Session
    <2>2. QED
      BY <1>4, <2>1, AnalysisTrue
  <1>6. asked.cache \in Seq(Answers)
    BY <1>3, <1>4, WitnessTrue
  <1> HIDE DEF got, asked, again
  <1>7. f \in Stage /\ f.heads \in Seq(Occurrences(cand))
    <2>1. Frame(<<>>, <<>>) \in Stage /\ Frame(<<>>, <<>>).heads \in Seq(Occurrences(cand))
      BY DEF Stage, Frame
    <2>2. SortedBy(HornHeads(cand), HeadLess) \in Seq(Occurrences(cand))
          /\ Occurrences(cand) \in SUBSET Occurrence
      BY <1>3, <1>4, OccurrencesTyped
    <2>3. Frontier(s, cand) \in Seq(Pair)
      <3>1. ses[s].nodes \in SUBSET Pair /\ IsFiniteSet(ses[s].nodes)
        BY <1>1 DEF Session, SessionOK
      <3>2. QED
        BY <1>3, <3>1, FrontierTyped
    <2> DEFINE g == Frame(SortedBy(HornHeads(cand), HeadLess), Frontier(s, cand))
    <2>4. g \in Stage /\ g.heads \in Seq(Occurrences(cand))
      BY <2>2, <2>3 DEF Stage, Frame
    <2> HIDE DEF g
    <2>5. f = Frame(<<>>, <<>>) \/ f = g
      BY DEF g
    <2> HIDE DEF f
    <2>6. QED
      BY <2>1, <2>4, <2>5
  <1> HIDE DEF f
  <1>8. CASE Leave(s, "raised") /\ sqlErrors' = sqlErrors + 1 /\ queries' = queries
    <2>1. sqlErrors' \in Nat
      BY <1>3, <1>8
    <2>2. QED
      BY <1>1, <1>2, <1>8, <2>1, LeavingTypes DEF Pcs, LivePcs
  <1>9. CASE /\ ses' = [ses EXCEPT ![s] = r]
             /\ queries' = IF again THEN queries ELSE asked.cache
             /\ UNCHANGED <<core, sqlErrors>>
    <2>1. OthersStay(s) /\ ses'[s] = r
      BY <1>9 DEF TypeOK, OthersStay
    <2>2. /\ TakeNext(s) \in Seq(Stage) /\ TakeNext(s) # <<>> /\ Last(TakeNext(s)).heads = <<>>
          /\ Stacked(TakeNext(s), ses[s].candidate)
      <3> DEFINE h == Frame(<<>>, Tail(Top(s).next))
      <3>1. h \in Stage /\ h.heads \in Seq(Occurrences(ses[s].candidate)) /\ h.heads = <<>>
        BY <1>4 DEF Stage, Frame
      <3>2. /\ ses[s].frames \in Seq(Stage) /\ ses[s].frames # <<>>
            /\ Stacked(ses[s].frames, ses[s].candidate)
        BY <1>1 DEF Session, SessionOK
      <3> HIDE DEF h
      <3>3. TakeNext(s) = Append(Front(ses[s].frames), h)
        BY DEF TakeNext, WithTop, h
      <3>4. /\ TakeNext(s) \in Seq(Stage) /\ TakeNext(s) # <<>>
            /\ Stacked(TakeNext(s), ses[s].candidate)
        BY <3>1, <3>2, <3>3, TopReplaced
      <3>5. Last(Append(Front(ses[s].frames), h)) = h
        <4>1. Front(ses[s].frames) \in Seq(Stage)
          BY <3>2, EmptySeq DEF Front
        <4> DEFINE below == Front(ses[s].frames)
        <4> HIDE DEF below
        <4>2. Append(below, h)[Len(below) + 1] = h /\ Len(Append(below, h)) = Len(below) + 1
          BY <3>1, <4>1 DEF below
        <4>3. QED
          BY <4>2 DEF below, Last
      <3>6. QED
        BY <3>1, <3>3, <3>4, <3>5
    <2> DEFINE stack == Append(TakeNext(s), f)
    <2>3. stack \in Seq(Stage) /\ stack # <<>> /\ Stacked(stack, cand)
      BY <1>7, <2>2, FramePushed
    <2> HIDE DEF stack
    <2>4. r = [ses[s] EXCEPT !.candidate = cand, !.analyses = got.cache,
                             !.seen = @ \cup {ch}, !.frames = stack]
      BY DEF stack
    <2>5. Chains(cand) \in Classes
      BY <1>4 DEF Classes
    <2> DEFINE seen == ses[s].seen \cup {ch}
    <2>6. seen \in SUBSET Classes
      BY <1>1, <1>5, <2>5 DEF Session
    <2>7. r = [ses[s] EXCEPT !.candidate = cand, !.analyses = got.cache,
                             !.seen = seen, !.frames = stack]
      BY <2>4
    <2> HIDE DEF seen, r
    <2>8. r \in Session
      BY <1>1, <1>4, <1>5, <2>3, <2>6, <2>7 DEF Session
    <2>9. SessionOK(r)
      BY <1>1, <2>3, <2>7 DEF SessionOK, Session, LivePcs
    <2>10. core' \in Cores /\ queries' \in Seq(Answers) /\ sqlErrors' \in Nat
      BY <1>3, <1>6, <1>9
    <2>11. QED
      BY <1>2, <2>1, <2>8, <2>9, <2>10, OneMoves
  <1>10. QED
    BY <1>2, <1>8, <1>9

(* A split that is tried: it yields nothing, or a rule with its support,   *)
(* and its key among the ones emitted from then on.                        *)
LEMMA SplitTried ==
    ASSUME TypeOK, NEW s \in Sessions, TrySplit(s)
    PROVE  /\ OthersStay(s) /\ ses'[s] \in Session /\ SessionOK(ses'[s])
           /\ db' = db /\ core' = core /\ queries' \in Seq(Answers) /\ sqlErrors' \in Nat
           /\ ses[s].pc = "search" /\ ses'[s].settings = ses[s].settings
           /\ ses'[s].saved = ses[s].saved /\ ses'[s].returned = ses[s].returned
           /\ \/ ses'[s].pc = "search" /\ ses'[s].emitted = ses[s].emitted
              \/ /\ ses'[s].pc = "yielded"
                 /\ KeyOf(ses'[s].pending) \notin ses[s].emitted
                 /\ ses'[s].emitted = ses[s].emitted \cup {KeyOf(ses'[s].pending)}
                 /\ HasItsSupport(ses'[s].pending, core)
  <1> DEFINE cand == ses[s].candidate
             head == Head(Top(s).heads)
             body == Occurrences(cand) \ {head}
             ch   == Chains(cand)
             key  == EmissionKey(ch, body \cup {head}, head)
             safe == Safe(ch, body, head)
             Count(broken, c, n, q) ==
                 IF n \in broken THEN [value |-> 0, cache |-> c]
                 ELSE Ask(c, <<"rule_count", QueryKey(q)>>, RuleCount(db, q), QueryCacheLimit)
             Supp(broken) == Count(broken, queries, 1, SupportQuery(ch, body, head, core.disjoint))
             Den(broken)  == Count(broken, Supp(broken).cache, 2, BodyQuery(ch, body, core.disjoint))
             Num(broken)  == Count(broken, Den(broken).cache, 3, RuleQuery(ch, body, head, core.disjoint))
             stack == WithTop(s, Frame(Tail(Top(s).heads), Top(s).next))
             Rule(broken) == Instantiate(ch, head, Supp(broken).value, Num(broken).value, Den(broken).value)
             Emit(broken) == safe /\ Frequent(Supp(broken).value) /\ key \notin ses[s].emitted
  <1>1. /\ ses[s] \in Session /\ SessionOK(ses[s]) /\ ses[s].pc = "search" /\ Top(s).heads # <<>>
        /\ ses[s].settings \in Settings /\ ses[s].saved \in Cores
    BY DEF TypeOK, TrySplit, SessionOK, LivePcs
  <1>2. PICK broken \in {{}} \cup {{n} : n \in 1..3} :
            /\ sqlErrors' = sqlErrors + Cardinality(broken)
            /\ queries' = IF safe THEN Num(broken).cache ELSE queries
            /\ ses' = [ses EXCEPT
                  ![s].frames  = stack,
                  ![s].pc      = IF Emit(broken) THEN "yielded" ELSE @,
                  ![s].emitted = IF Emit(broken) THEN @ \cup {key} ELSE @,
                  ![s].pending = IF Emit(broken) THEN Rule(broken) ELSE @]
    BY Zenon DEF TrySplit
  <1>3. /\ db' = db /\ core' = core
        /\ DatabaseOK /\ core \in Cores /\ core.disjoint \in BOOLEAN /\ queries \in Seq(Answers)
        /\ core.threshold \in Int /\ core.threshold >= 1
    BY DatabaseIsOK, SettingsTyped DEF TypeOK, TrySplit
  <1>4. /\ head \in Occurrences(cand) /\ Tail(Top(s).heads) \in Seq(Occurrences(cand))
        /\ Top(s) \in Stage /\ cand \in Seq(Pair)
    <2>1. Top(s) \in Stage /\ Top(s).heads \in Seq(Occurrences(cand))
      BY <1>1, TopTyped
    <2>2. head \in Occurrences(cand) /\ Tail(Top(s).heads) \in Seq(Occurrences(cand))
      BY <1>1, <2>1, HeadAndTail
    <2>3. cand \in Seq(Pair)
      BY <1>1 DEF Session
    <2>4. QED
      BY <2>1, <2>2, <2>3
  <1>5. Occurrences(cand) \in SUBSET Occurrence
    BY <1>3, <1>4, OccurrencesTyped
  <1>6. body \cup {head} = Occurrences(cand)
    BY <1>4
  <1>7. /\ SupportQuery(ch, body, head, core.disjoint) \in Counted
        /\ BodyQuery(ch, body, core.disjoint) \in Counted
        /\ RuleQuery(ch, body, head, core.disjoint) \in Counted
    <2> DEFINE x == <<cand, head, core.disjoint>>
    <2>1. x \in Splits /\ x[1] = cand /\ x[2] = head /\ x[3] = core.disjoint
      BY <1>3, <1>4, <1>5 DEF Splits
    <2> HIDE DEF x
    <2>2. Supporting(x) \in Counted /\ OfBody(x) \in Counted /\ OfRule(x) \in Counted
      BY <2>1 DEF Counted
    <2>3. QED
      BY <2>1, <2>2 DEF Supporting, OfBody, OfRule
  <1>8. ASSUME NEW c \in Seq(Answers), NEW n, NEW q \in Counted
        PROVE  /\ Count(broken, c, n, q).cache \in Seq(Answers) /\ Count(broken, c, n, q).value \in Measures
               /\ Count(broken, c, n, q).value = 0 \/ Count(broken, c, n, q).value = RuleCount(db, q)
    <2>1. CASE n \in broken
      BY <2>1 DEF Measures
    <2>2. CASE n \notin broken
      <3>1. Count(broken, c, n, q) = Ask(c, <<"rule_count", QueryKey(q)>>, RuleCount(db, q), QueryCacheLimit)
        BY <2>2
      <3> HIDE DEF Count
      <3>2. QED
        BY <3>1, CountTrue
    <2>3. QED
      BY <2>1, <2>2
  <1> DEFINE supp == Supp(broken)
             den  == Den(broken)
             num  == Num(broken)
  <1> HIDE DEF Count
  <1>9. /\ supp.cache \in Seq(Answers) /\ supp.value \in Measures
        /\ supp.value = 0 \/ supp.value = RuleCount(db, SupportQuery(ch, body, head, core.disjoint))
    BY <1>3, <1>7, <1>8
  <1>10. den.cache \in Seq(Answers) /\ den.value \in Measures
    BY <1>7, <1>8, <1>9
  <1>11. num.cache \in Seq(Answers) /\ num.value \in Measures
    BY <1>7, <1>8, <1>10
  <1> DEFINE rule == Rule(broken)
             emit == Emit(broken)
             r == [ses[s] EXCEPT !.frames  = stack,
                                 !.pc      = IF emit THEN "yielded" ELSE @,
                                 !.emitted = IF emit THEN @ \cup {key} ELSE @,
                                 !.pending = IF emit THEN rule ELSE @]
  <1>12. ses' = [ses EXCEPT ![s] = r]
    BY <1>2
  <1>13. OthersStay(s) /\ ses'[s] = r
    BY <1>12 DEF TypeOK, OthersStay
  <1>14. rule \in Rules /\ rule.chains = ch /\ rule.head = head /\ rule.support = supp.value
    <2> DEFINE confidence == IF den.value = 0 THEN <<0, 1>> ELSE <<num.value, den.value>>
    <2>1. confidence \in Measures \X Measures
      BY <1>10, <1>11 DEF Measures
    <2>2. rule = [chains |-> ch, head |-> head, support |-> supp.value, confidence |-> confidence]
      BY DEF Instantiate
    <2>3. ch \in Classes
      BY <1>4 DEF Classes
    <2> HIDE DEF confidence, rule, supp
    <2>4. QED
      BY <1>4, <1>5, <1>9, <2>1, <2>2, <2>3 DEF Rules
  <1>15. key = HornKey(Chains(cand), Occurrences(cand), head) /\ key \in Keys
    <2>1. key = HornKey(Chains(cand), Occurrences(cand), head)
      BY <1>6 DEF EmissionKey
    <2> DEFINE x == <<cand, head>>
    <2>2. x \in Seq(Pair) \X Occurrence /\ x[1] = cand /\ x[2] = head
      BY <1>4, <1>5
    <2> HIDE DEF x
    <2>3. QED
      BY <2>1, <2>2 DEF Keys
  <1>16. KeyOf(rule) = key
    <2>1. {Occ(a) : a \in UNION ch} = Occurrences(cand)
      BY <1>4, ClassesCover
    <2>2. KeyOf(rule) = HornKey(ch, {Occ(a) : a \in UNION ch}, head)
      BY <1>14 DEF KeyOf
    <2>3. QED
      BY <1>15, <2>1, <2>2
  <1>17. emit => HasItsSupport(rule, core)
    <2> SUFFICES ASSUME emit
                 PROVE  HasItsSupport(rule, core)
      OBVIOUS
    <2>1. supp.value >= core.threshold
      BY DEF Frequent
    <2>2. supp.value # 0
      BY <1>3, <2>1
    <2>3. supp.value = TrueSupport(db, ch, head, core.disjoint)
      BY <1>3, <1>4, <1>9, <2>2, SupportCounts
    <2>4. QED
      BY <1>14, <2>1, <2>3 DEF HasItsSupport
  <1>18. stack \in Seq(Stage) /\ stack # <<>> /\ Stacked(stack, cand)
    <2> DEFINE h == Frame(Tail(Top(s).heads), Top(s).next)
    <2>1. h \in Stage /\ h.heads \in Seq(Occurrences(cand))
      <3>1. Tail(Top(s).heads) \in Seq(Occurrence)
        <4> DEFINE S == Occurrences(cand)
                   q == Tail(Top(s).heads)
        <4>1. S \subseteq Occurrence /\ q \in Seq(S)
          BY <1>4, <1>5
        <4> HIDE DEF S, q
        <4>2. q \in Seq(Occurrence)
          BY <4>1, WiderSequence
        <4>3. QED
          BY <4>2 DEF q
      <3>2. QED
        BY <1>4, <3>1 DEF Stage, Frame
    <2>2. /\ ses[s].frames \in Seq(Stage) /\ ses[s].frames # <<>>
          /\ Stacked(ses[s].frames, cand)
      BY <1>1 DEF Session, SessionOK
    <2>3. stack = Append(Front(ses[s].frames), h)
      BY DEF WithTop
    <2> HIDE DEF h, stack
    <2>4. QED
      BY <2>1, <2>2, <2>3, TopReplaced
  <1>19. sqlErrors' \in Nat
    <2>1. Cardinality(broken) \in Nat
      <3>1. Cardinality({}) \in Nat
        BY FS_EmptySet
      <3>2. \A n : Cardinality({n}) = 1
        BY FS_Singleton, Zenon
      <3>3. broken = {} \/ \E n : broken = {n}
        OBVIOUS
      <3>4. CASE broken = {}
        BY <3>1, <3>4
      <3>5. CASE \E n : broken = {n}
        <4>1. PICK n : broken = {n}
          BY <3>5
        <4>2. Cardinality(broken) = 1
          BY <3>2, <4>1, Zenon
        <4>3. QED
          BY <4>2
      <3>6. QED
        BY <3>3, <3>4, <3>5
    <2>2. sqlErrors \in Nat
      BY DEF TypeOK
    <2>3. QED
      BY <1>2, <2>1, <2>2
  <1>20. queries' \in Seq(Answers)
    BY <1>2, <1>3, <1>11
  <1> HIDE DEF stack, rule, emit, key, supp, num, den, ch
  <1>21. /\ r.pc = (IF emit THEN "yielded" ELSE "search") /\ r.settings = ses[s].settings
         /\ r.saved = ses[s].saved /\ r.returned = ses[s].returned /\ r.nodes = ses[s].nodes
         /\ r.candidate = cand /\ r.frames = stack
         /\ r.emitted = (IF emit THEN ses[s].emitted \cup {key} ELSE ses[s].emitted)
         /\ emit => r.pending = rule
    BY <1>1 DEF Session
  <1>22. r \in Session
    <2> DEFINE pc == IF emit THEN "yielded" ELSE ses[s].pc
               emitted == IF emit THEN ses[s].emitted \cup {key} ELSE ses[s].emitted
               pending == IF emit THEN rule ELSE ses[s].pending
    <2>1. pc \in Pcs /\ emitted \in SUBSET Keys /\ pending \in Rules \cup {None}
      BY <1>1, <1>14, <1>15 DEF Session, Pcs, LivePcs
    <2>2. r = [ses[s] EXCEPT !.frames = stack, !.pc = pc, !.emitted = emitted, !.pending = pending]
      OBVIOUS
    <2> HIDE DEF pc, emitted, pending, r
    <2>3. QED
      BY <1>1, <1>18, <2>1, <2>2 DEF Session
  <1> HIDE DEF r
  <1>23. SessionOK(r)
    BY <1>1, <1>14, <1>18, <1>21 DEF SessionOK, LivePcs
  <1>24. emit => key \notin ses[s].emitted
    BY DEF emit
  <1>25. QED
    BY <1>1, <1>3, <1>13, <1>16, <1>17, <1>19, <1>20, <1>21, <1>22, <1>23, <1>24

(* What a step does to the rules, the settings and the globals: a session  *)
(* is opened, or refused, or left; it moves on; it yields a rule; or it    *)
(* hands the rule out.                                                     *)
SameRules(s) == /\ ses'[s].emitted = ses[s].emitted /\ ses'[s].returned = ses[s].returned
SameSettings(s) == ses'[s].settings = ses[s].settings /\ ses'[s].saved = ses[s].saved /\ core' = core

Opened(s) ==
    /\ ses[s].pc = "idle" /\ ses'[s].pc = "ready"
    /\ Overlap \/ \A t \in Sessions : ~ Live(t)
    /\ ses'[s].settings \in Settings /\ ses'[s].saved = core /\ core' = CoreOf(ses'[s].settings)
    /\ SameRules(s)
TurnedAway(s) ==
    ses[s].pc = "idle" /\ ses'[s].pc = "raised" /\ SameSettings(s) /\ SameRules(s)
Left(s) ==
    /\ ses[s].pc \in LivePcs /\ ses'[s].pc \in Pcs \ (LivePcs \cup {"idle"})
    /\ ses'[s].settings = ses[s].settings /\ core' = ses[s].saved /\ SameRules(s)
MovedOn(s) ==
    /\ ses[s].pc \in LivePcs /\ ses'[s].pc \in LivePcs \ {"yielded"}
    /\ SameSettings(s) /\ SameRules(s)
Yielded(s) ==
    /\ ses[s].pc = "search" /\ ses'[s].pc = "yielded" /\ SameSettings(s)
    /\ ses'[s].returned = ses[s].returned
    /\ KeyOf(ses'[s].pending) \notin ses[s].emitted
    /\ ses'[s].emitted = ses[s].emitted \cup {KeyOf(ses'[s].pending)}
    /\ HasItsSupport(ses'[s].pending, core)
HandedOut(s) ==
    /\ ses[s].pc = "yielded" /\ ses'[s].pc = "out" /\ SameSettings(s)
    /\ ses'[s].emitted = ses[s].emitted
    /\ ses'[s].returned = ses[s].returned \cup {ses[s].pending}

Kinds(s) == Opened(s) \/ TurnedAway(s) \/ Left(s) \/ MovedOn(s) \/ Yielded(s) \/ HandedOut(s)

LEMMA LeavingKind ==
    ASSUME TypeOK, NEW s \in Sessions, Live(s), NEW how \in Pcs \ LivePcs, how # "idle", Leave(s, how),
           db' = db, queries' = queries, sqlErrors' \in Nat
    PROVE  TypeOK' /\ OthersStay(s) /\ Left(s)
  <1>1. TypeOK'
    BY LeavingTypes
  <1>2. /\ OthersStay(s) /\ ses'[s].pc = how /\ core' = ses[s].saved
        /\ ses'[s].settings = ses[s].settings
        /\ ses'[s].emitted = ses[s].emitted /\ ses'[s].returned = ses[s].returned
    BY Leaving
  <1>3. ses[s].pc \in LivePcs
    BY DEF Live, LivePcs
  <1>4. QED
    BY <1>1, <1>2, <1>3 DEF Left, SameRules

LEMMA ReturnKind ==
    ASSUME TypeOK, NEW s \in Sessions, Return(s)
    PROVE  TypeOK' /\ OthersStay(s) /\ (Left(s) \/ MovedOn(s))
  <1>1. ses[s] \in Session /\ SessionOK(ses[s]) /\ ses[s].pc = "search" /\ Live(s)
    BY DEF TypeOK, Return, Live
  <1>2. UNCHANGED <<db, queries, sqlErrors>> /\ queries \in Seq(Answers) /\ sqlErrors \in Nat
        /\ core \in Cores
    BY DEF Return, TypeOK
  <1>3. CASE Len(ses[s].frames) = 1
    <2>1. Leave(s, IF ses[s].failures > 0 THEN "raised" ELSE "done")
      BY <1>3 DEF Return
    <2>2. CASE ses[s].failures > 0
      <3>1. Leave(s, "raised")
        BY <2>1, <2>2
      <3>2. QED
        BY <1>1, <1>2, <3>1, LeavingKind DEF Pcs, LivePcs
    <2>3. CASE ~ (ses[s].failures > 0)
      <3>1. Leave(s, "done")
        BY <2>1, <2>3
      <3>2. QED
        BY <1>1, <1>2, <3>1, LeavingKind DEF Pcs, LivePcs
    <2>4. QED
      BY <2>2, <2>3
  <1>4. CASE Len(ses[s].frames) # 1
    <2> DEFINE frames == Front(ses[s].frames)
               candidate == Front(ses[s].candidate)
               r == [ses[s] EXCEPT !.frames = frames, !.candidate = candidate]
    <2>1. ses' = [ses EXCEPT ![s] = r] /\ core' = core
      BY <1>4 DEF Return
    <2>2. OthersStay(s) /\ ses'[s] = r
      BY <2>1 DEF TypeOK, OthersStay
    <2>3. frames \in Seq(Stage) /\ frames # <<>> /\ Stacked(frames, candidate)
      <3>1. /\ ses[s].frames \in Seq(Stage) /\ ses[s].frames # <<>>
            /\ Stacked(ses[s].frames, ses[s].candidate)
        BY <1>1 DEF Session, SessionOK
      <3> HIDE DEF candidate
      <3>2. QED
        BY <1>4, <3>1, FramePopped
    <2>4. candidate \in Seq(Pair)
      <3>1. ses[s].candidate \in Seq(Pair)
        BY <1>1 DEF Session
      <3>2. \A q \in Seq(Pair) : Front(q) \in Seq(Pair)
        BY DEF Front
      <3>3. QED
        BY <3>1, <3>2
    <2> HIDE DEF frames, candidate
    <2>5. r \in Session
      BY <1>1, <2>3, <2>4 DEF Session
    <2>6. /\ r.pc = "search" /\ r.settings = ses[s].settings /\ r.saved = ses[s].saved
          /\ r.emitted = ses[s].emitted /\ r.returned = ses[s].returned /\ r.nodes = ses[s].nodes
          /\ r.frames = frames /\ r.candidate = candidate
      BY <1>1 DEF Session
    <2>7. SessionOK(r)
      BY <1>1, <2>3, <2>6 DEF SessionOK, LivePcs
    <2>8. TypeOK'
      BY <1>2, <2>1, <2>2, <2>5, <2>7, OneMoves
    <2>9. MovedOn(s)
      BY <1>1, <2>1, <2>2, <2>6 DEF MovedOn, LivePcs, SameSettings, SameRules
    <2>10. QED
      BY <2>2, <2>8, <2>9
  <1>5. QED
    BY <1>3, <1>4

LEMMA ConvertKind ==
    ASSUME TypeOK, NEW s \in Sessions, Convert(s)
    PROVE  TypeOK' /\ OthersStay(s) /\ (Left(s) \/ MovedOn(s) \/ HandedOut(s))
  <1> DEFINE rule == ses[s].pending
             failing == [ses[s] EXCEPT !.failures = @ + 1, !.pc = "search", !.pending = None]
             dropped == [ses[s] EXCEPT !.pc = "search", !.pending = None]
             shown == [ses[s] EXCEPT !.pc = "out", !.returned = @ \cup {rule}, !.pending = None]
  <1>1. ses[s] \in Session /\ SessionOK(ses[s]) /\ ses[s].pc = "yielded" /\ Live(s) /\ rule \in Rules
    BY DEF TypeOK, Convert, Live, SessionOK
  <1>2. UNCHANGED <<db, queries, sqlErrors>> /\ queries \in Seq(Answers) /\ sqlErrors \in Nat
        /\ core \in Cores
    BY DEF Convert, TypeOK
  <1>3. \/ Leave(s, "stopped")
        \/ ses' = [ses EXCEPT ![s] = failing] /\ core' = core
        \/ ses' = [ses EXCEPT ![s] = dropped] /\ core' = core
        \/ ses' = [ses EXCEPT ![s] = shown] /\ core' = core
    BY DEF Convert
  <1>4. CASE Leave(s, "stopped")
    BY <1>1, <1>2, <1>4, LeavingKind DEF Pcs, LivePcs
  <1>5. ASSUME NEW r, ses' = [ses EXCEPT ![s] = r], core' = core, r \in {failing, dropped}
        PROVE  TypeOK' /\ OthersStay(s) /\ MovedOn(s)
    <2>1. OthersStay(s) /\ ses'[s] = r
      BY <1>5 DEF TypeOK, OthersStay
    <2>2. /\ r.pc = "search" /\ r.settings = ses[s].settings /\ r.saved = ses[s].saved
          /\ r.emitted = ses[s].emitted /\ r.returned = ses[s].returned /\ r.nodes = ses[s].nodes
          /\ r.frames = ses[s].frames /\ r.candidate = ses[s].candidate
      BY <1>1, <1>5 DEF Session
    <2>3. r \in Session
      <3>1. failing \in Session
        <4> DEFINE n == ses[s].failures + 1
        <4>1. n \in Nat
          BY <1>1 DEF Session
        <4>2. failing = [ses[s] EXCEPT !.failures = n, !.pc = "search", !.pending = None]
          OBVIOUS
        <4> HIDE DEF n, failing
        <4>3. QED
          BY <1>1, <4>1, <4>2 DEF Session, Pcs, LivePcs
      <3>2. dropped \in Session
        BY <1>1 DEF Session, Pcs, LivePcs
      <3>3. QED
        BY <1>5, <3>1, <3>2
    <2>4. SessionOK(r)
      BY <1>1, <2>2 DEF SessionOK, LivePcs
    <2>5. TypeOK'
      BY <1>2, <1>5, <2>1, <2>3, <2>4, OneMoves
    <2>6. MovedOn(s)
      BY <1>1, <1>5, <2>1, <2>2 DEF MovedOn, LivePcs, SameSettings, SameRules
    <2>7. QED
      BY <2>1, <2>5, <2>6
  <1>6. CASE ses' = [ses EXCEPT ![s] = shown] /\ core' = core
    <2>1. OthersStay(s) /\ ses'[s] = shown
      BY <1>6 DEF TypeOK, OthersStay
    <2>2. /\ shown.pc = "out" /\ shown.settings = ses[s].settings /\ shown.saved = ses[s].saved
          /\ shown.emitted = ses[s].emitted /\ shown.returned = ses[s].returned \cup {rule}
          /\ shown.nodes = ses[s].nodes
          /\ shown.frames = ses[s].frames /\ shown.candidate = ses[s].candidate
      BY <1>1 DEF Session
    <2>3. shown \in Session
      BY <1>1 DEF Session, Pcs, LivePcs
    <2>4. SessionOK(shown)
      BY <1>1, <2>2 DEF SessionOK, LivePcs
    <2>5. TypeOK'
      BY <1>2, <1>6, <2>1, <2>3, <2>4, OneMoves
    <2>6. HandedOut(s)
      BY <1>1, <1>6, <2>1, <2>2 DEF HandedOut, SameSettings
    <2>7. QED
      BY <2>1, <2>5, <2>6
  <1>7. QED
    BY <1>3, <1>4, <1>5, <1>6

LEMMA ResumeKind ==
    ASSUME TypeOK, NEW s \in Sessions, Resume(s)
    PROVE  TypeOK' /\ OthersStay(s) /\ MovedOn(s)
  <1> DEFINE r == [ses[s] EXCEPT !.pc = "search"]
  <1>1. ses[s] \in Session /\ SessionOK(ses[s]) /\ ses[s].pc = "out"
    BY DEF TypeOK, Resume
  <1>2. /\ UNCHANGED <<db, core, queries, sqlErrors>> /\ queries \in Seq(Answers)
        /\ sqlErrors \in Nat /\ core \in Cores /\ ses' = [ses EXCEPT ![s] = r]
    BY DEF Resume, TypeOK
  <1>3. OthersStay(s) /\ ses'[s] = r
    BY <1>2 DEF TypeOK, OthersStay
  <1>4. r \in Session
    BY <1>1 DEF Session, Pcs, LivePcs
  <1>5. /\ r.pc = "search" /\ r.settings = ses[s].settings /\ r.saved = ses[s].saved
        /\ r.emitted = ses[s].emitted /\ r.returned = ses[s].returned /\ r.nodes = ses[s].nodes
        /\ r.frames = ses[s].frames /\ r.candidate = ses[s].candidate
    BY <1>1 DEF Session
  <1>6. SessionOK(r)
    BY <1>1, <1>5 DEF SessionOK, LivePcs
  <1>7. TypeOK'
    BY <1>2, <1>3, <1>4, <1>6, OneMoves
  <1>8. QED
    BY <1>1, <1>2, <1>3, <1>5, <1>7 DEF MovedOn, LivePcs, SameSettings, SameRules

LEMMA StartKind ==
    ASSUME TypeOK, NEW s \in Sessions, Start(s)
    PROVE  OthersStay(s) /\ (Opened(s) \/ TurnedAway(s))
  <1>1. ses[s] \in Session /\ ses[s].pc = "idle"
    BY DEF TypeOK, Start
  <1>2. PICK raw \in RawSettings[s] :
          IF raw.threshold < 1
          THEN ses' = [ses EXCEPT ![s].pc = "raised"] /\ UNCHANGED core
          ELSE LET e == Effective(raw) IN
               /\ ses' = [ses EXCEPT ![s].pc = "ready", ![s].settings = e, ![s].saved = core]
               /\ core' = [disjoint |-> e.disjoint, threshold |-> e.threshold, full |-> e.full]
    BY DEF Start
  <1>3. CASE raw.threshold < 1
    <2> DEFINE r == [ses[s] EXCEPT !.pc = "raised"]
    <2>1. ses' = [ses EXCEPT ![s] = r] /\ core' = core
      BY <1>2, <1>3
    <2>2. OthersStay(s) /\ ses'[s] = r
      BY <2>1 DEF TypeOK, OthersStay
    <2>3. /\ r.pc = "raised" /\ r.settings = ses[s].settings /\ r.saved = ses[s].saved
          /\ r.emitted = ses[s].emitted /\ r.returned = ses[s].returned
      BY <1>1 DEF Session
    <2>4. QED
      BY <1>1, <2>1, <2>2, <2>3 DEF TurnedAway, SameSettings, SameRules
  <1>4. CASE ~ (raw.threshold < 1)
    <2> DEFINE e == Effective(raw)
               r == [ses[s] EXCEPT !.pc = "ready", !.settings = e, !.saved = core]
    <2>1. ses' = [ses EXCEPT ![s] = r] /\ core' = CoreOf(e)
      BY <1>2, <1>4 DEF CoreOf
    <2>2. OthersStay(s) /\ ses'[s] = r
      BY <2>1 DEF TypeOK, OthersStay
    <2>3. e \in Settings
      <3>1. raw.threshold >= 1
        <4>1. raw.threshold \in Int
          BY DiscoveryAssumption
        <4>2. QED
          BY <1>4, <4>1
      <3>2. QED
        BY <3>1 DEF Settings
    <2> HIDE DEF e
    <2>4. /\ r.pc = "ready" /\ r.settings = e /\ r.saved = core
          /\ r.emitted = ses[s].emitted /\ r.returned = ses[s].returned
      BY <1>1 DEF Session
    <2>5. Overlap \/ \A t \in Sessions : ~ Live(t)
      BY DEF Start
    <2>6. QED
      BY <1>1, <2>1, <2>2, <2>3, <2>4, <2>5 DEF Opened, SameRules
  <1>5. QED
    BY <1>3, <1>4

LEMMA InitialiseKind ==
    ASSUME TypeOK, NEW s \in Sessions, Initialise(s)
    PROVE  OthersStay(s) /\ (Left(s) \/ MovedOn(s))
  <1> DEFINE e     == ses[s].settings
             nodes == JoinablePairs(db, core.full, e.walk, [a \in Attributes(db) |->
                                        IF a \in DOMAIN e.cap THEN e.cap[a] ELSE e.walk])
             frames == <<Frame(<<>>, Sorted(nodes))>>
             r == [ses[s] EXCEPT !.pc = "search", !.nodes = nodes, !.frames = frames]
  <1>1. ses[s] \in Session /\ ses[s].pc = "ready" /\ Live(s)
    BY DEF TypeOK, Initialise, Live
  <1>2. /\ Leave(s, "done") \/ (ses' = [ses EXCEPT ![s] = r] /\ core' = core)
        /\ db' = db /\ queries' = queries
    BY DEF Initialise
  <1>3. CASE Leave(s, "done")
    <2>1. /\ OthersStay(s) /\ ses'[s].pc = "done" /\ core' = ses[s].saved
          /\ ses'[s].settings = ses[s].settings
          /\ ses'[s].emitted = ses[s].emitted /\ ses'[s].returned = ses[s].returned
      BY <1>1, <1>3, Leaving DEF Pcs, LivePcs
    <2>2. QED
      BY <1>1, <2>1 DEF Left, SameRules, Pcs, LivePcs
  <1>4. CASE ses' = [ses EXCEPT ![s] = r] /\ core' = core
    <2> HIDE DEF nodes, frames
    <2>1. OthersStay(s) /\ ses'[s] = r
      BY <1>4 DEF TypeOK, OthersStay
    <2>2. /\ r.pc = "search" /\ r.settings = ses[s].settings /\ r.saved = ses[s].saved
          /\ r.emitted = ses[s].emitted /\ r.returned = ses[s].returned
      BY <1>1 DEF Session
    <2>3. QED
      BY <1>1, <1>4, <2>1, <2>2 DEF MovedOn, LivePcs, SameSettings, SameRules
  <1>5. QED
    BY <1>2, <1>3, <1>4

LEMMA RefuseKind ==
    ASSUME TypeOK, NEW s \in Sessions, Refuse(s)
    PROVE  OthersStay(s) /\ MovedOn(s)
  <1>1. PICK analyses : ses' = [ses EXCEPT ![s].frames = TakeNext(s), ![s].analyses = analyses]
    BY DEF Refuse
  <1> DEFINE r == [ses[s] EXCEPT !.frames = TakeNext(s), !.analyses = analyses]
  <1>2. ses[s] \in Session /\ ses[s].pc = "search" /\ core' = core /\ ses' = [ses EXCEPT ![s] = r]
    BY <1>1 DEF TypeOK, Refuse
  <1>3. OthersStay(s) /\ ses'[s] = r
    BY <1>2 DEF TypeOK, OthersStay
  <1>4. /\ r.pc = "search" /\ r.settings = ses[s].settings /\ r.saved = ses[s].saved
        /\ r.emitted = ses[s].emitted /\ r.returned = ses[s].returned
    BY <1>2 DEF Session
  <1>5. QED
    BY <1>2, <1>3, <1>4 DEF MovedOn, LivePcs, SameSettings, SameRules

LEMMA EnterKind ==
    ASSUME TypeOK, NEW s \in Sessions, Enter(s)
    PROVE  OthersStay(s) /\ (Left(s) \/ MovedOn(s))
  <1> DEFINE cand  == Append(ses[s].candidate, Head(Top(s).next))
             got   == Analyse(ses[s].analyses, cand)
             ch    == got.value
             again == ch \in ses[s].seen
             v     == HasWitness(db, PathQuery(cand, core.disjoint))
             asked == Ask(queries, <<"threshold", cand, core.disjoint>>, v, QueryCacheLimit)
             f     == IF again \/ asked.value = 0
                      THEN Frame(<<>>, <<>>)
                      ELSE Frame(SortedBy(HornHeads(cand), HeadLess), Frontier(s, cand))
             stack == Append(TakeNext(s), f)
             seen  == ses[s].seen \cup {ch}
             cache == got.cache
             r     == [ses[s] EXCEPT !.candidate = cand, !.analyses = cache,
                                     !.seen = seen, !.frames = stack]
  <1>1. /\ ses[s] \in Session /\ ses[s].pc = "search" /\ Live(s)
        /\ \/ Leave(s, "raised")
           \/ ses' = [ses EXCEPT ![s] = r] /\ core' = core
    BY DEF TypeOK, Enter, Live
  <1>2. CASE Leave(s, "raised")
    <2>1. /\ OthersStay(s) /\ ses'[s].pc = "raised" /\ core' = ses[s].saved
          /\ ses'[s].settings = ses[s].settings
          /\ ses'[s].emitted = ses[s].emitted /\ ses'[s].returned = ses[s].returned
      BY <1>1, <1>2, Leaving DEF Pcs, LivePcs
    <2>2. QED
      BY <1>1, <2>1 DEF Left, SameRules, Pcs, LivePcs
  <1>3. CASE ses' = [ses EXCEPT ![s] = r] /\ core' = core
    <2> HIDE DEF cand, stack, seen, cache
    <2>1. OthersStay(s) /\ ses'[s] = r
      BY <1>3 DEF TypeOK, OthersStay
    <2>2. /\ r.pc = "search" /\ r.settings = ses[s].settings /\ r.saved = ses[s].saved
          /\ r.emitted = ses[s].emitted /\ r.returned = ses[s].returned
      BY <1>1 DEF Session
    <2>3. QED
      BY <1>1, <1>3, <2>1, <2>2 DEF MovedOn, LivePcs, SameSettings, SameRules
  <1>4. QED
    BY <1>1, <1>2, <1>3

(* Every step of a session keeps the types and is of one of the kinds.     *)
LEMMA StepKinds ==
    ASSUME TypeOK, NEW s \in Sessions, Step(s)
    PROVE  TypeOK' /\ OthersStay(s) /\ Kinds(s)
  <1>1. CASE Start(s)
    BY <1>1, StartTypes, StartKind DEF Kinds
  <1>2. CASE StopEarly(s)
    <2>1. Live(s) /\ Leave(s, "stopped") /\ db' = db /\ queries' = queries /\ sqlErrors' \in Nat
      BY <1>2 DEF StopEarly, Live, TypeOK
    <2>2. QED
      BY <2>1, LeavingKind DEF Kinds, Pcs, LivePcs
  <1>3. CASE Initialise(s)
    BY <1>3, InitialiseTypes, InitialiseKind DEF Kinds
  <1>4. CASE Refuse(s)
    BY <1>4, RefuseTypes, RefuseKind DEF Kinds
  <1>5. CASE Enter(s)
    BY <1>5, EnterTypes, EnterKind DEF Kinds
  <1>6. CASE TrySplit(s)
    <2>1. /\ OthersStay(s) /\ ses'[s] \in Session /\ SessionOK(ses'[s])
          /\ db' = db /\ core' = core /\ queries' \in Seq(Answers) /\ sqlErrors' \in Nat
          /\ ses[s].pc = "search" /\ ses'[s].settings = ses[s].settings
          /\ ses'[s].saved = ses[s].saved /\ ses'[s].returned = ses[s].returned
          /\ \/ ses'[s].pc = "search" /\ ses'[s].emitted = ses[s].emitted
             \/ /\ ses'[s].pc = "yielded"
                /\ KeyOf(ses'[s].pending) \notin ses[s].emitted
                /\ ses'[s].emitted = ses[s].emitted \cup {KeyOf(ses'[s].pending)}
                /\ HasItsSupport(ses'[s].pending, core)
      BY <1>6, SplitTried
    <2>2. core' \in Cores
      BY <2>1 DEF TypeOK
    <2>3. TypeOK'
      BY <2>1, <2>2, OneMoves
    <2>4. MovedOn(s) \/ Yielded(s)
      BY <2>1 DEF MovedOn, Yielded, SameSettings, SameRules, LivePcs
    <2>5. QED
      BY <2>1, <2>3, <2>4 DEF Kinds
  <1>7. CASE Return(s)
    BY <1>7, ReturnKind DEF Kinds
  <1>8. CASE Convert(s)
    BY <1>8, ConvertKind DEF Kinds
  <1>9. CASE Resume(s)
    BY <1>9, ResumeKind DEF Kinds
  <1>10. CASE CloseGenerator(s)
    <2>1. Live(s) /\ Leave(s, "closed") /\ db' = db /\ queries' = queries /\ sqlErrors' \in Nat
      BY <1>10 DEF CloseGenerator, Live, TypeOK
    <2>2. QED
      BY <2>1, LeavingKind DEF Kinds, Pcs, LivePcs
  <1>11. QED
    BY <1>1, <1>2, <1>3, <1>4, <1>5, <1>6, <1>7, <1>8, <1>9, <1>10 DEF Step

LEMMA TypesUnchanged == ASSUME TypeOK, UNCHANGED vars PROVE TypeOK'
  <1>1. UNCHANGED <<db, core, queries, sqlErrors, ses>>
    BY DEF vars
  <1>2. Session' = Session /\ Answers' = Answers /\ Rules' = Rules
    BY <1>1, DatabaseFixed
  <1>3. QED
    BY <1>1, <1>2 DEF TypeOK, SessionOK

-----------------------------------------------------------------------------
(* The invariants                                                          *)

(* Types, of the caches too: what a cache holds is true of the database,   *)
(* whatever the sessions evicted or failed to compute.                     *)
THEOREM TypesKept == Spec => []TypeOK
  <1>1. Init => TypeOK
    BY InitTypes
  <1>2. TypeOK /\ [Next]_vars => TypeOK'
    <2> SUFFICES ASSUME TypeOK, [Next]_vars
                 PROVE  TypeOK'
      OBVIOUS
    <2>1. CASE UNCHANGED vars
      BY <2>1, TypesUnchanged
    <2>2. CASE Finished
      BY <2>2, TypesUnchanged DEF Finished
    <2>3. ASSUME NEW s \in Sessions, Step(s)
          PROVE  TypeOK'
      BY <2>3, StepKinds
    <2>4. QED
      BY <2>1, <2>2, <2>3 DEF Next
  <1>3. QED
    BY <1>1, <1>2, PTL DEF Spec

(* No rule is handed out twice, not even renumbered.                       *)
LEMMA DistinctKept ==
    ASSUME TypeOK, \A t \in Sessions : DistinctOK(ses[t]), [Next]_vars
    PROVE  \A t \in Sessions : DistinctOK(ses'[t])
  <1>1. CASE UNCHANGED vars
    BY <1>1 DEF vars
  <1>2. CASE Finished
    BY <1>2 DEF Finished, vars
  <1>3. ASSUME NEW s \in Sessions, Step(s)
        PROVE  \A t \in Sessions : DistinctOK(ses'[t])
    <2>1. OthersStay(s) /\ Kinds(s)
      BY <1>3, StepKinds
    <2>2. ASSUME NEW t \in Sessions, t # s
          PROVE  DistinctOK(ses'[t])
      BY <2>1, <2>2 DEF OthersStay
    <2>3. DistinctOK(ses'[s])
      <3>1. /\ \A q \in ses[s].returned : KeyOf(q) \in ses[s].emitted
            /\ \A p, q \in ses[s].returned : p # q => KeyOf(p) # KeyOf(q)
            /\ ses[s].pc = "yielded" =>
                  /\ KeyOf(ses[s].pending) \in ses[s].emitted
                  /\ \A q \in ses[s].returned : KeyOf(q) # KeyOf(ses[s].pending)
        BY DEF DistinctOK
      <3>2. CASE Yielded(s)
        BY <3>1, <3>2 DEF Yielded, DistinctOK
      <3>3. CASE HandedOut(s)
        BY <3>1, <3>3 DEF HandedOut, DistinctOK
      <3>4. CASE Opened(s) \/ TurnedAway(s) \/ Left(s) \/ MovedOn(s)
        <4>1. SameRules(s) /\ ses'[s].pc # "yielded"
          BY <3>4 DEF Opened, TurnedAway, Left, MovedOn, LivePcs
        <4>2. QED
          BY <3>1, <4>1 DEF SameRules, DistinctOK
      <3>5. QED
        BY <2>1, <3>2, <3>3, <3>4 DEF Kinds
    <2>4. QED
      BY <2>2, <2>3
  <1>4. QED
    BY <1>1, <1>2, <1>3 DEF Next

(* However many candidates a rule is a split of, and however its tables    *)
(* are numbered in them, the session hands it out once.                    *)
THEOREM NoRuleTwice == Spec => []RulesAreDistinct
  <1> DEFINE Inv == \A t \in Sessions : DistinctOK(ses[t])
  <1>1. Init => Inv
    BY DEF Init, Fresh, DistinctOK
  <1>2. TypeOK /\ Inv /\ [Next]_vars => Inv'
    BY DistinctKept DEF DistinctOK
  <1>3. Inv => RulesAreDistinct
    BY DEF DistinctOK, RulesAreDistinct, KeyOf
  <1>4. QED
    BY <1>1, <1>2, <1>3, TypesKept, PTL DEF Spec

(* One session at a time: the globals follow it.                           *)
LEMMA GlobalsKept ==
    ASSUME ~ Overlap, TypeOK, GlobalsOK, [Next]_vars
    PROVE  GlobalsOK'
  <1>1. CASE UNCHANGED vars
    BY <1>1 DEF vars, GlobalsOK, Live
  <1>2. CASE Finished
    BY <1>2 DEF Finished, vars, GlobalsOK, Live
  <1>3. ASSUME NEW s \in Sessions, Step(s)
        PROVE  GlobalsOK'
    <2>1. OthersStay(s) /\ Kinds(s)
      BY <1>3, StepKinds
    <2>2. \A t \in Sessions \ {s} : ses'[t] = ses[t]
      BY <2>1 DEF OthersStay
    <2>3. /\ \A r, t \in Sessions : ses[r].pc \in LivePcs /\ ses[t].pc \in LivePcs => r = t
          /\ \A t \in Sessions : ses[t].pc \in LivePcs =>
                core = CoreOf(ses[t].settings) /\ ses[t].saved = CoreDefaults
          /\ (\A t \in Sessions : ses[t].pc \notin LivePcs) => core = CoreDefaults
      BY DEF GlobalsOK, Live, LivePcs
    <2>4. SUFFICES
          /\ \A r, t \in Sessions : ses'[r].pc \in LivePcs /\ ses'[t].pc \in LivePcs => r = t
          /\ \A t \in Sessions : ses'[t].pc \in LivePcs =>
                core' = CoreOf(ses'[t].settings) /\ ses'[t].saved = CoreDefaults
          /\ (\A t \in Sessions : ses'[t].pc \notin LivePcs) => core' = CoreDefaults
      BY DEF GlobalsOK, Live, LivePcs
    <2>5. CASE Opened(s)
      <3>1. \A t \in Sessions : ses[t].pc \notin LivePcs
        BY <2>5 DEF Opened, Live, LivePcs
      <3>2. ses'[s].pc \in LivePcs /\ core' = CoreOf(ses'[s].settings) /\ ses'[s].saved = core
        BY <2>5 DEF Opened, LivePcs
      <3>3. QED
        BY <2>2, <2>3, <3>1, <3>2
    <2>6. CASE TurnedAway(s)
      <3>1. ses[s].pc \notin LivePcs /\ ses'[s].pc \notin LivePcs /\ core' = core
        BY <2>6 DEF TurnedAway, LivePcs, SameSettings
      <3>2. QED
        BY <2>2, <2>3, <3>1
    <2>7. CASE Left(s)
      <3>1. ses[s].pc \in LivePcs /\ ses'[s].pc \notin LivePcs /\ core' = ses[s].saved
        BY <2>7 DEF Left
      <3>2. QED
        BY <2>2, <2>3, <3>1
    <2>8. CASE MovedOn(s) \/ Yielded(s) \/ HandedOut(s)
      <3>1. ses[s].pc \in LivePcs /\ ses'[s].pc \in LivePcs /\ SameSettings(s)
        BY <2>8 DEF MovedOn, Yielded, HandedOut, LivePcs
      <3>2. QED
        BY <2>2, <2>3, <3>1 DEF SameSettings
    <2>9. QED
      BY <2>1, <2>5, <2>6, <2>7, <2>8 DEF Kinds
  <1>4. QED
    BY <1>1, <1>2, <1>3 DEF Next

(* The globals of tgd_discovery have their defaults again whenever no      *)
(* session is live, if no session is started while another one is.         *)
THEOREM GlobalsAlwaysRestored == ASSUME ~ Overlap PROVE Spec => []GlobalsRestored
  <1>1. Init => GlobalsOK
    BY DEF Init, Fresh, GlobalsOK, Live
  <1>2. TypeOK /\ GlobalsOK /\ [Next]_vars => GlobalsOK'
    BY GlobalsKept
  <1>3. GlobalsOK => GlobalsRestored
    BY DEF GlobalsOK, GlobalsRestored
  <1>4. QED
    BY <1>1, <1>2, <1>3, TypesKept, PTL DEF Spec

LEMMA DatabaseStays == ASSUME [Next]_vars PROVE db' = db
  <1>1. CASE UNCHANGED vars
    BY <1>1 DEF vars
  <1>2. CASE Finished
    BY <1>2 DEF Finished, vars
  <1>3. ASSUME NEW s \in Sessions, Step(s)
        PROVE  db' = db
    <2>1. CASE Start(s) \/ StopEarly(s) \/ Initialise(s) \/ Refuse(s)
      BY <2>1 DEF Start, StopEarly, Initialise, Refuse
    <2>2. CASE Enter(s)
      BY <2>2 DEF Enter
    <2>3. CASE TrySplit(s)
      BY <2>3 DEF TrySplit
    <2>4. CASE Return(s) \/ Convert(s) \/ Resume(s) \/ CloseGenerator(s)
      BY <2>4 DEF Return, Convert, Resume, CloseGenerator
    <2>5. QED
      BY <1>3, <2>1, <2>2, <2>3, <2>4 DEF Step
  <1>4. QED
    BY <1>1, <1>2, <1>3 DEF Next

LEMMA ExactKept ==
    ASSUME ~ Overlap, TypeOK, GlobalsOK, \A t \in Sessions : ExactOK(ses[t]), [Next]_vars
    PROVE  \A t \in Sessions : ExactOK(ses[t])'
  <1>1. ASSUME NEW r, NEW q, NEW e
        PROVE  /\ ExactOK(r)' <=> ExactOK(r)
               /\ HasItsSupport(q, e)' <=> HasItsSupport(q, e)
    BY DatabaseStays DEF ExactOK, HasItsSupport
  <1>2. CASE UNCHANGED vars
    BY <1>2 DEF vars, ExactOK, HasItsSupport
  <1>3. CASE Finished
    BY <1>3 DEF Finished, vars, ExactOK, HasItsSupport
  <1>4. ASSUME NEW s \in Sessions, Step(s)
        PROVE  \A t \in Sessions : ExactOK(ses[t])'
    <2>1. OthersStay(s) /\ Kinds(s)
      BY <1>4, StepKinds
    <2>2. \A t \in Sessions \ {s} : ses'[t] = ses[t]
      BY <2>1 DEF OthersStay
    <2>3. SUFFICES \A t \in Sessions : ExactOK(ses'[t])
      BY DatabaseStays DEF ExactOK, HasItsSupport
    <2>4. ExactOK(ses'[s])
      <3>1. CASE Opened(s) \/ TurnedAway(s)
        <4>1. ses[s].pc = "idle" /\ ses'[s].pc # "yielded" /\ ses'[s].returned = ses[s].returned
          BY <3>1 DEF Opened, TurnedAway, SameRules
        <4>2. ses[s].returned = {}
          BY <4>1 DEF TypeOK, SessionOK
        <4>3. QED
          BY <4>1, <4>2 DEF ExactOK
      <3>2. CASE Left(s) \/ MovedOn(s)
        <4>1. /\ ses'[s].pc # "yielded" /\ ses'[s].returned = ses[s].returned
              /\ ses'[s].settings = ses[s].settings
          BY <3>2 DEF Left, MovedOn, SameRules, SameSettings, LivePcs
        <4>2. QED
          BY <4>1 DEF ExactOK
      <3>3. CASE Yielded(s)
        <4>1. core = CoreOf(ses[s].settings)
          BY <3>3 DEF Yielded, GlobalsOK, Live
        <4>2. core.disjoint = ses[s].settings.disjoint /\ core.threshold = ses[s].settings.threshold
          BY <4>1 DEF CoreOf
        <4>3. HasItsSupport(ses'[s].pending, ses[s].settings)
          BY <3>3, <4>2 DEF Yielded, HasItsSupport
        <4>4. QED
          BY <3>3, <4>3 DEF Yielded, SameSettings, ExactOK
      <3>4. CASE HandedOut(s)
        BY <3>4 DEF HandedOut, SameSettings, ExactOK
      <3>5. QED
        BY <2>1, <3>1, <3>2, <3>3, <3>4 DEF Kinds
    <2>5. QED
      BY <2>2, <2>4
  <1>5. QED
    BY <1>2, <1>3, <1>4 DEF Next

(* Every rule handed out has the support its classes have on the database, *)
(* and enough of it for the session, under the semantics the session was   *)
(* given, whatever was cached, evicted or failed.                          *)
THEOREM SupportsAreExact == ASSUME ~ Overlap PROVE Spec => []SupportIsExact
  <1> DEFINE Inv == \A t \in Sessions : ExactOK(ses[t])
  <1>1. Init => GlobalsOK /\ Inv
    BY DEF Init, Fresh, GlobalsOK, Live, ExactOK
  <1>2. TypeOK /\ GlobalsOK /\ Inv /\ [Next]_vars => GlobalsOK' /\ Inv'
    BY GlobalsKept, ExactKept
  <1>3. Inv => SupportIsExact
    BY DEF ExactOK, HasItsSupport, SupportIsExact
  <1>4. QED
    BY <1>1, <1>2, <1>3, TypesKept, PTL DEF Spec

=============================================================================
