----------------------- MODULE MikabooqPointersProofs -----------------------
(***************************************************************************)
(* The pointers of mikabooq.c implement the sequences of Descriptors, for  *)
(* tables of any size, and its scheduling queues hold what was enqueued    *)
(* until a thread is freed that has left its queue.                        *)
(***************************************************************************)
EXTENDS MikabooqPointers, SequenceTheorems, FiniteSetTheorems, WellFoundedInduction, TLAPS

-----------------------------------------------------------------------------
(* Naturals: a least element, and functions defined by recursion.           *)

\* a non-empty set of naturals has a least element
LEMMA LeastNatural ==
  ASSUME NEW T \in SUBSET Nat, T # {}
  PROVE  \E i \in T : \A j \in T : i <= j
<1> DEFINE R == OpToRel(<, Nat)
<1>1. IsWellFoundedOn(R, Nat)
  BY NatLessThanWellFounded
<1>2. \A x, y \in Nat : x < y => <<x, y>> \in R
  BY DEF OpToRel
<1> HIDE DEF R
<1>3. PICK i \in T : \A j \in T : ~ (<<j, i>> \in R)
  BY <1>1, WFMin
<1>4. \A j \in T : ~(j < i)
  BY <1>2, <1>3
<1> QED BY <1>4

\* a set of naturals that has 0 and the successor of each of its elements
LEMMA AllNaturals ==
  ASSUME NEW T, 0 \in T, \A n \in Nat : n \in T => n + 1 \in T
  PROVE  Nat \subseteq T
<1> SUFFICES ASSUME Nat \ T # {} PROVE FALSE
  OBVIOUS
<1>1. PICK i \in Nat \ T : \A j \in Nat \ T : i <= j
  BY LeastNatural
<1>2. i - 1 \in Nat /\ i - 1 \notin T /\ ~(i <= i - 1)
  BY <1>1
<1> QED BY <1>1, <1>2

Steps(M) == [Nat -> [M -> M]]

\* f starts from base, in M, and goes on by the steps
Recursion(f, M, base, step) ==
  /\ f \in [Nat -> M]
  /\ f[0] = base
  /\ \A n \in Nat : f[n + 1] = step[n + 1][f[n]]

\* there are recursive functions of the naturals
LEMMA NatRecursion ==
  ASSUME NEW M, NEW base \in M, NEW step \in Steps(M)
  PROVE  \E f : Recursion(f, M, base, step)
<1> USE DEF Steps
<1> DEFINE Upto(n, g) == /\ g \in [0..n -> M] /\ g[0] = base
                         /\ \A k \in 0..(n - 1) : g[k + 1] = step[k + 1][g[k]]
           T == {n \in Nat : \E g : Upto(n, g)}
<1>1. 0 \in T
  <2>1. Upto(0, [k \in 0..0 |-> base])
    OBVIOUS
  <2> QED BY <2>1
<1>2. ASSUME NEW n \in Nat, n \in T PROVE n + 1 \in T
  <2>1. PICK g : Upto(n, g)
    BY <1>2
  <2> DEFINE h == [k \in 0..(n + 1) |-> IF k = n + 1 THEN step[n + 1][g[n]] ELSE g[k]]
  <2>2. step[n + 1][g[n]] \in M
    BY <2>1
  <2>3. h \in [0..(n + 1) -> M] /\ h[0] = base
    BY <2>1, <2>2
  <2>4. \A k \in 0..((n + 1) - 1) : h[k + 1] = step[k + 1][h[k]]
    BY <2>1
  <2> HIDE DEF h
  <2>5. Upto(n + 1, h)
    BY <2>3, <2>4
  <2> HIDE DEF Upto
  <2> QED BY <2>5
<1>3. \A n \in Nat : \E g : Upto(n, g)
  BY <1>1, <1>2, AllNaturals
<1>4. ASSUME NEW n \in Nat, NEW m \in Nat, NEW g, NEW h, Upto(n, g), Upto(m, h),
             NEW k \in Nat, k <= n, k <= m
      PROVE  g[k] = h[k]
  <2> DEFINE D == {i \in Nat : i <= k => g[i] = h[i]}
  <2>1. 0 \in D
    BY <1>4
  <2>2. ASSUME NEW i \in Nat, i \in D PROVE i + 1 \in D
    <3>1. CASE i + 1 <= k
      <4>1. i \in 0..(n - 1) /\ i \in 0..(m - 1) /\ g[i] = h[i]
        BY <1>4, <2>2, <3>1
      <4> QED BY <1>4, <4>1
    <3> QED BY <3>1
  <2>3. Nat \subseteq D
    BY <2>1, <2>2, AllNaturals
  <2> QED BY <2>3
<1> DEFINE G(n) == CHOOSE g : Upto(n, g)
           f == [n \in Nat |-> G(n)[n]]
<1>5. \A n \in Nat : Upto(n, G(n))
  BY <1>3
<1> HIDE DEF G
<1>6. f \in [Nat -> M]
  BY <1>5
<1>7. f[0] = base
  BY <1>5
<1>8. ASSUME NEW n \in Nat PROVE f[n + 1] = step[n + 1][f[n]]
  <2>1. G(n + 1)[n + 1] = step[n + 1][G(n + 1)[n]]
    BY <1>5
  <2>2. G(n + 1)[n] = G(n)[n]
    <3>1. Upto(n + 1, G(n + 1)) /\ Upto(n, G(n)) /\ n + 1 \in Nat /\ n <= n + 1 /\ n <= n
      BY <1>5
    <3> HIDE DEF Upto
    <3> QED BY <1>4, <3>1
  <2> QED BY <2>1, <2>2
<1> QED BY <1>6, <1>7, <1>8 DEF Recursion

-----------------------------------------------------------------------------
(* The cells, and the rings they form.                                      *)

AllCells == Links \cup Heads
Memory   == [next : [AllCells -> AllCells \cup {NULL}], prev : [AllCells -> AllCells \cup {NULL}]]

LEMMA LinksAreNoHeads == Links \cap Heads = {}
BY DEF Links, Heads, p_siblings, t_next, m_next, threads_of, children_of, msgs_of,
       free_threads, free_messages, free_processes, Proc, Tcb, Message, root

LEMMA FiniteLinks == IsFiniteSet(Links)
<1>1. IsFiniteSet(Proc \ {root}) /\ IsFiniteSet(Tcb) /\ IsFiniteSet(Message)
  <2>1. IsFiniteSet(Proc) /\ IsFiniteSet(Tcb) /\ IsFiniteSet(Message)
    BY PointersAssumption, FS_Interval DEF Proc, Tcb, Message
  <2> QED BY <2>1, FS_RemoveElement
<1>2. \A S, f : IsFiniteSet(S) => IsFiniteSet({ f[x] : x \in S })
  <2> SUFFICES ASSUME NEW S, NEW f, IsFiniteSet(S)
               PROVE  IsFiniteSet({ f[x] : x \in S })
    OBVIOUS
  <2> DEFINE T == { f[x] : x \in S }
             g == [x \in S |-> f[x]]
  <2>1. g \in Surjection(S, T)
    BY DEF Surjection
  <2> QED BY <2>1, FS_Surjection
<1>3. IsFiniteSet({ p_siblings(p) : p \in Proc \ {root} })
  <2> DEFINE f == [p \in Proc \ {root} |-> p_siblings(p)]
  <2>1. IsFiniteSet({ f[p] : p \in Proc \ {root} })
    <3> HIDE DEF f
    <3> QED BY <1>1, <1>2
  <2>2. { f[p] : p \in Proc \ {root} } = { p_siblings(p) : p \in Proc \ {root} }
    OBVIOUS
  <2> QED BY <2>1, <2>2
<1>4. IsFiniteSet({ t_next(t) : t \in Tcb })
  <2> DEFINE f == [t \in Tcb |-> t_next(t)]
  <2>1. IsFiniteSet({ f[t] : t \in Tcb })
    <3> HIDE DEF f
    <3> QED BY <1>1, <1>2
  <2>2. { f[t] : t \in Tcb } = { t_next(t) : t \in Tcb }
    OBVIOUS
  <2> QED BY <2>1, <2>2
<1>5. IsFiniteSet({ m_next(i) : i \in Message })
  <2> DEFINE f == [i \in Message |-> m_next(i)]
  <2>1. IsFiniteSet({ f[i] : i \in Message })
    <3> HIDE DEF f
    <3> QED BY <1>1, <1>2
  <2>2. { f[i] : i \in Message } = { m_next(i) : i \in Message }
    OBVIOUS
  <2> QED BY <2>1, <2>2
<1> QED BY <1>3, <1>4, <1>5, FS_Union DEF Links

\* the i-th cell of the ring of a list s, from its head to its head
At(h, s, i) == IF i \in 1..Len(s) THEN s[i] ELSE h

IsRing(m, h, s) ==
  \A i \in 0..Len(s) : /\ m.next[At(h, s, i)] = At(h, s, i + 1)
                       /\ m.prev[At(h, s, i + 1)] = At(h, s, i)

\* the lists of a memory: L[h] is the list with the head h, and a cell of C is
\* on one of them, once
Lists(m, L, C) ==
  /\ m \in Memory  /\  C \subseteq Links  /\  L \in [Heads -> Seq(C)]
  /\ \A h \in Heads : IsRing(m, h, L[h])
  /\ \A g, h \in Heads : \A i \in 1..Len(L[g]), j \in 1..Len(L[h]) :
       L[g][i] = L[h][j] => g = h /\ i = j
  /\ \A c \in C : \E h \in Heads : \E i \in 1..Len(L[h]) : L[h][i] = c

\* list_for_each is defined where no pointer leaves the cells
LEMMA WalkDefined ==
  ASSUME NEW m, \A c \in AllCells : m.next[c] \in AllCells, NEW head \in AllCells
  PROVE  \E from :
           /\ list_for_each(m, head) = from[Cardinality(Links)][m.next[head]]
           /\ \A n \in Nat, c \in AllCells :
                from[n][c] = IF n = 0 \/ c = head THEN <<>>
                             ELSE <<c>> \o from[n - 1][m.next[c]]
<1> DEFINE M == [AllCells -> Seq(AllCells)]
           Body(n, g) == [c \in AllCells |->
             IF n = 0 \/ c = head THEN <<>> ELSE <<c>> \o g[m.next[c]]]
           base == [c \in AllCells |-> <<>>]
           step == [n \in Nat |-> [g \in M |-> Body(n, g)]]
           from[n \in Nat] == [c \in Links \cup Heads |->
             IF n = 0 \/ c = head THEN <<>> ELSE <<c>> \o from[n - 1][m.next[c]]]
<1>1. list_for_each(m, head) = from[Cardinality(Links)][m.next[head]]
  BY DEF list_for_each
<1>2. ASSUME NEW n \in Nat, NEW g \in M PROVE Body(n, g) \in M
  <2> SUFFICES ASSUME NEW c \in AllCells, c # head
               PROVE  <<c>> \o g[m.next[c]] \in Seq(AllCells)
    OBVIOUS
  <2>1. g[m.next[c]] \in Seq(AllCells) /\ <<c>> \in Seq(AllCells)
    OBVIOUS
  <2> QED BY <2>1, ConcatProperties
<1>3. base \in M
  OBVIOUS
<1> HIDE DEF M, Body, base
<1>4. step \in Steps(M)
  BY <1>2 DEF Steps
<1>a. PICK f : Recursion(f, M, base, step)
  <2> HIDE DEF step
  <2> QED BY <1>3, <1>4, NatRecursion
<1>5. f \in [Nat -> M] /\ f[0] = base /\ \A n \in Nat : f[n + 1] = step[n + 1][f[n]]
  BY <1>a DEF Recursion
<1>6. ASSUME NEW n \in Nat PROVE f[n] = Body(n, f[n - 1])
  <2>1. CASE n = 0
    BY <1>5, <2>1 DEF Body, base
  <2>2. CASE n # 0
    <3>1. n - 1 \in Nat /\ (n - 1) + 1 = n
      BY <2>2
    <3>2. f[n] = step[n][f[n - 1]] /\ f[n - 1] \in M
      BY <1>5, <3>1
    <3> QED BY <3>2
  <2> QED BY <2>1, <2>2
<1>7. f = [n \in Nat |-> Body(n, f[n - 1])]
  BY <1>5, <1>6
<1>8. from = [n \in Nat |-> Body(n, from[n - 1])]
  BY <1>7 DEF Body, AllCells
<1> HIDE DEF from, step
<1>9. \A n \in Nat : from[n] = Body(n, from[n - 1])
  BY <1>8
<1>10. \A n \in Nat, c \in AllCells :
         from[n][c] = IF n = 0 \/ c = head THEN <<>>
                      ELSE <<c>> \o from[n - 1][m.next[c]]
  BY <1>9 DEF Body
<1> WITNESS from
<1>11. list_for_each(m, head) = from[Cardinality(Links)][m.next[head]]
  BY <1>1, Zenon
<1>12. \A n \in Nat, c \in AllCells :
         from[n][c] = IF n = 0 \/ c = head THEN <<>>
                      ELSE <<c>> \o from[n - 1][m.next[c]]
  BY <1>10, Zenon
<1> QED BY <1>11, <1>12, Zenon

\* a walk along a ring meets the cells of its list
LEMMA WalkOfRing ==
  ASSUME NEW m, \A c \in AllCells : m.next[c] \in AllCells, NEW h \in Heads, NEW s \in Seq(Links),
         IsRing(m, h, s), \A i, j \in 1..Len(s) : s[i] = s[j] => i = j
  PROVE  list_for_each(m, h) = s
<1>1. PICK from :
        /\ list_for_each(m, h) = from[Cardinality(Links)][m.next[h]]
        /\ \A n \in Nat, c \in AllCells :
             from[n][c] = IF n = 0 \/ c = h THEN <<>>
                          ELSE <<c>> \o from[n - 1][m.next[c]]
  BY WalkDefined DEF AllCells
<1>0. \A n \in Nat, c \in AllCells :
        /\ n = 0 \/ c = h => from[n][c] = <<>>
        /\ n # 0 /\ c # h => from[n][c] = <<c>> \o from[n - 1][m.next[c]]
  BY <1>1, Zenon
<1>2. Cardinality(Links) \in Nat /\ Len(s) \in Nat /\ Len(s) <= Cardinality(Links)
  <2>1. s \in Injection(1..Len(s), Links)
    BY DEF Injection, IsInjective
  <2>2. \A n \in Nat : Cardinality(1..n) = n
    BY FS_Interval
  <2> QED BY <2>1, <2>2, FiniteLinks, FS_Injection, FS_CardinalityType
<1>3. /\ \A i \in 1..Len(s) : s[i] \in Links /\ s[i] # h /\ s[i] \in AllCells
      /\ \A i \in 0..Len(s) : m.next[At(h, s, i)] = At(h, s, i + 1)
      /\ \A i \in Nat : At(h, s, i) \in AllCells
  BY LinksAreNoHeads DEF IsRing, At, AllCells
\* from the i-th cell, the walk meets the rest of the list
<1> DEFINE Rest(i) == SubSeq(s, i, Len(s))
           T == {n \in Nat : \A i \in 1..(Len(s) + 1) :
                   n >= Len(s) + 1 - i => from[n][At(h, s, i)] = Rest(i)}
<1>4. Rest(Len(s) + 1) = <<>> /\ Rest(1) = s
  OBVIOUS
<1>5. ASSUME NEW i \in 1..Len(s) PROVE Rest(i) = <<s[i]>> \o Rest(i + 1)
  OBVIOUS
<1>6. ASSUME NEW n \in Nat PROVE from[n][At(h, s, Len(s) + 1)] = <<>>
  <2>1. At(h, s, Len(s) + 1) = h /\ h \in AllCells
    BY <1>2 DEF At, AllCells
  <2> QED BY <1>0, <2>1, Zenon
<1> HIDE DEF Rest
<1>7. 0 \in T
  BY <1>2, <1>4, <1>6
<1>8. ASSUME NEW n \in Nat, n \in T PROVE n + 1 \in T
  <2> SUFFICES ASSUME NEW i \in 1..(Len(s) + 1), n + 1 >= Len(s) + 1 - i
               PROVE  from[n + 1][At(h, s, i)] = Rest(i)
    OBVIOUS
  <2>1. CASE i = Len(s) + 1
    BY <1>4, <1>6, <2>1
  <2>2. CASE i # Len(s) + 1
    <3>1. i \in 1..Len(s) /\ i + 1 \in 1..(Len(s) + 1) /\ n >= Len(s) + 1 - (i + 1)
      BY <1>2, <2>2
    <3>2. At(h, s, i) = s[i] /\ s[i] # h /\ m.next[s[i]] = At(h, s, i + 1)
      BY <1>3, <3>1 DEF At
    <3>3. from[n][At(h, s, i + 1)] = Rest(i + 1)
      BY <1>8, <3>1
    <3>4. n + 1 \in Nat /\ n + 1 # 0 /\ (n + 1) - 1 = n /\ s[i] \in AllCells
      BY <1>3, <3>1
    <3>5. from[n + 1][s[i]] = <<s[i]>> \o from[n][m.next[s[i]]]
      <4>1. from[n + 1][s[i]] = <<s[i]>> \o from[(n + 1) - 1][m.next[s[i]]]
        BY <1>0, <3>2, <3>4, Zenon
      <4> QED BY <3>4, <4>1, Zenon
    <3> QED BY <1>5, <3>1, <3>2, <3>3, <3>5, Zenon
  <2> QED BY <2>1, <2>2
<1>9. Cardinality(Links) \in T
  BY <1>2, <1>7, <1>8, AllNaturals
<1>10. m.next[h] = At(h, s, 1)
  BY <1>2, <1>3 DEF At
<1>11. from[Cardinality(Links)][At(h, s, 1)] = Rest(1)
  BY <1>2, <1>9
<1> QED BY <1>1, <1>4, <1>10, <1>11

LEMMA ListsParts ==
  ASSUME NEW m, NEW L, NEW C, Lists(m, L, C)
  PROVE  /\ m \in Memory /\ C \subseteq Links
         /\ \A h \in Heads :
              /\ L[h] \in Seq(C) /\ Len(L[h]) \in Nat
              /\ \A i \in 1..Len(L[h]) :
                   L[h][i] \in C /\ L[h][i] \in Links /\ L[h][i] \in AllCells /\ L[h][i] \notin Heads
         /\ \A g, h \in Heads : \A i \in 1..Len(L[g]), j \in 1..Len(L[h]) :
              L[g][i] = L[h][j] => g = h /\ i = j
         /\ \A c \in C : \E h \in Heads : \E i \in 1..Len(L[h]) : L[h][i] = c
<1>1. m \in Memory /\ C \subseteq Links /\ \A h \in Heads : L[h] \in Seq(C)
  BY DEF Lists
<1>2. \A h \in Heads : Len(L[h]) \in Nat /\ \A i \in 1..Len(L[h]) : L[h][i] \in C
  BY <1>1
<1>3. \A h \in Heads : \A i \in 1..Len(L[h]) :
        L[h][i] \in C /\ L[h][i] \in Links /\ L[h][i] \in AllCells /\ L[h][i] \notin Heads
  BY <1>1, <1>2, LinksAreNoHeads DEF AllCells
<1>4. \A g, h \in Heads : \A i \in 1..Len(L[g]), j \in 1..Len(L[h]) :
        L[g][i] = L[h][j] => g = h /\ i = j
  BY DEF Lists
<1>5. \A c \in C : \E h \in Heads : \E i \in 1..Len(L[h]) : L[h][i] = c
  BY DEF Lists
<1> QED BY <1>1, <1>2, <1>3, <1>4, <1>5, Zenon

LEMMA RingParts ==
  ASSUME NEW m, NEW L, NEW C, Lists(m, L, C), NEW h \in Heads, NEW i \in 0..Len(L[h])
  PROVE  /\ m.next[At(h, L[h], i)] = At(h, L[h], i + 1)
         /\ m.prev[At(h, L[h], i + 1)] = At(h, L[h], i)
BY DEF Lists, IsRing

\* a list has none of its cells twice, its head included
LEMMA AtInjective ==
  ASSUME NEW m, NEW L, NEW C, Lists(m, L, C), NEW h \in Heads
  PROVE  /\ \A i, k \in 0..Len(L[h]) : At(h, L[h], i) = At(h, L[h], k) => i = k
         /\ \A i, k \in 1..(Len(L[h]) + 1) : At(h, L[h], i) = At(h, L[h], k) => i = k
<1>1. /\ Len(L[h]) \in Nat
      /\ \A i \in 1..Len(L[h]) : L[h][i] \in Links /\ L[h][i] # h
      /\ \A i, k \in 1..Len(L[h]) : L[h][i] = L[h][k] => i = k
  BY ListsParts
<1> QED BY <1>1 DEF At

\* no cell is on the rings of two lists
LEMMA AtApart ==
  ASSUME NEW m, NEW L, NEW C, Lists(m, L, C), NEW g \in Heads, NEW h \in Heads, g # h
  PROVE  \A i, k \in Nat : At(g, L[g], i) # At(h, L[h], k)
<1>1. /\ \A i \in 1..Len(L[g]), k \in 1..Len(L[h]) : L[g][i] # L[h][k]
      /\ \A i \in 1..Len(L[g]) : L[g][i] \notin Heads
      /\ \A i \in 1..Len(L[h]) : L[h][i] \notin Heads
  BY ListsParts
<1> QED BY <1>1 DEF At

LEMMA AtType ==
  ASSUME NEW m, NEW L, NEW C, Lists(m, L, C), NEW h \in Heads
  PROVE  /\ Len(L[h]) \in Nat
         /\ \A i \in 1..Len(L[h]) : L[h][i] \in C /\ At(h, L[h], i) = L[h][i]
         /\ \A i \in Nat : At(h, L[h], i) \in C \cup {h} /\ At(h, L[h], i) \in AllCells
         /\ At(h, L[h], 0) = h /\ At(h, L[h], Len(L[h]) + 1) = h
<1>1. Len(L[h]) \in Nat /\ \A i \in 1..Len(L[h]) : L[h][i] \in C /\ L[h][i] \in AllCells
  BY ListsParts
<1> QED BY <1>1 DEF At, AllCells

\* list_del of the j-th cell of a list
LEMMA DelLists ==
  ASSUME NEW m, NEW L, NEW C, Lists(m, L, C), NEW g \in Heads, NEW j \in 1..Len(L[g]),
         NEW r \in Seq(C \ {L[g][j]}), Len(r) = Len(L[g]) - 1,
         \A i \in 1..Len(r) : r[i] = IF i < j THEN L[g][i] ELSE L[g][i + 1]
  PROVE  Lists(list_del(m, L[g][j]), [L EXCEPT ![g] = r], C \ {L[g][j]})
<1> DEFINE s == L[g]
           c == L[g][j]
           l == At(g, s, j - 1)
           q == At(g, s, j + 1)
           n == list_del(m, c)
           K == [L EXCEPT ![g] = r]
<1>1. /\ Len(s) \in Nat /\ j - 1 \in 0..Len(s) /\ j + 1 \in 1..(Len(s) + 1)
      /\ \A i \in 0..Len(s) : /\ m.next[At(g, s, i)] = At(g, s, i + 1)
                              /\ m.prev[At(g, s, i + 1)] = At(g, s, i)
      /\ c \in C /\ At(g, s, j) = c
  <2>1. Len(s) \in Nat
    BY AtType
  <2>2. c \in C /\ At(g, s, j) = c
    BY AtType
  <2>3. \A i \in 0..Len(s) : /\ m.next[At(g, s, i)] = At(g, s, i + 1)
                             /\ m.prev[At(g, s, i + 1)] = At(g, s, i)
    BY RingParts
  <2> QED BY <2>1, <2>2, <2>3
<1>2. m.prev[c] = l /\ m.next[c] = q /\ l \in AllCells /\ q \in AllCells
  <2>1. j - 1 \in 0..Len(s) /\ (j - 1) + 1 = j /\ j \in 0..Len(s) /\ j + 1 \in Nat /\ j - 1 \in Nat
    BY <1>1
  <2>2. l \in AllCells /\ q \in AllCells
    BY <2>1, AtType
  <2> HIDE DEF c, s
  <2>3. m.prev[c] = l
    BY <1>1, <2>1
  <2>4. m.next[c] = q
    BY <1>1, <2>1
  <2> QED BY <2>2, <2>3, <2>4
<1>3. /\ n \in Memory
      /\ \A x \in AllCells : n.next[x] = IF x = l THEN q ELSE m.next[x]
      /\ \A x \in AllCells : n.prev[x] = IF x = q THEN l ELSE m.prev[x]
  <2>1. m \in Memory
    BY DEF Lists
  <2>2. n = [next |-> [m.next EXCEPT ![l] = q], prev |-> [m.prev EXCEPT ![q] = l]]
    BY <1>2 DEF list_del, __list_del
  <2> HIDE DEF n, l, q
  <2> QED BY <1>2, <2>1, <2>2 DEF Memory
<1> HIDE DEF n, l, q
<1>4. IsRing(n, g, r)
  <2> SUFFICES ASSUME NEW i \in 0..Len(r)
               PROVE  /\ n.next[At(g, r, i)] = At(g, r, i + 1)
                      /\ n.prev[At(g, r, i + 1)] = At(g, r, i)
    BY DEF IsRing
  <2> DEFINE k == IF i < j THEN i ELSE i + 1
             k1 == IF i + 1 < j THEN i + 1 ELSE i + 2
  <2>0. ASSUME NEW o \in 0..(Len(r) + 1)
        PROVE  At(g, r, o) = At(g, s, IF o < j THEN o ELSE o + 1)
    <3>1. Len(r) = Len(s) - 1 /\ Len(s) \in Nat /\ j \in 1..Len(s)
      BY <1>1
    <3>2. CASE o \in 1..Len(r)
      <4>1. r[o] = s[IF o < j THEN o ELSE o + 1] /\ (IF o < j THEN o ELSE o + 1) \in 1..Len(s)
        BY <3>1, <3>2
      <4> QED BY <3>2, <4>1 DEF At
    <3>3. CASE o \notin 1..Len(r)
      <4>1. (IF o < j THEN o ELSE o + 1) \notin 1..Len(s)
        BY <3>1, <3>3
      <4> QED BY <3>3, <4>1 DEF At
    <3> QED BY <3>2, <3>3
  <2>1. At(g, r, i) = At(g, s, k) /\ At(g, r, i + 1) = At(g, s, k1)
    <3>1. /\ Len(r) \in Nat /\ i \in 0..(Len(r) + 1) /\ i + 1 \in 0..(Len(r) + 1)
          /\ (i + 1) + 1 = i + 2
      BY <1>1
    <3> QED BY <2>0, <3>1
  <2>2. k \in 0..Len(s) /\ k1 \in 1..(Len(s) + 1)
    BY <1>1
  <2>3. CASE i = j - 1
    <3>1. k = j - 1 /\ k1 = j + 1
      BY <2>3
    <3> QED BY <1>2, <1>3, <2>1, <3>1 DEF l, q
  <2>4. CASE i # j - 1
    <3>1. k # j - 1 /\ k1 # j + 1 /\ k1 = k + 1
      BY <2>4
    <3> HIDE DEF k, k1
    <3>a. j - 1 \in 0..Len(s) /\ j + 1 \in 1..(Len(s) + 1)
      BY <1>1
    <3>2. At(g, s, k) # l /\ At(g, s, k1) # q
      BY <2>2, <3>1, <3>a, AtInjective DEF l, q
    <3>b. k \in Nat /\ k1 \in Nat
      BY <2>2
    <3>3. At(g, s, k) \in AllCells /\ At(g, s, k1) \in AllCells
      BY <3>b, AtType
    <3> QED BY <1>1, <1>3, <2>1, <2>2, <3>1, <3>2, <3>3
  <2> QED BY <2>3, <2>4
<1>5. ASSUME NEW h \in Heads, h # g PROVE IsRing(n, h, L[h])
  <2> SUFFICES ASSUME NEW i \in 0..Len(L[h])
               PROVE  /\ n.next[At(h, L[h], i)] = At(h, L[h], i + 1)
                      /\ n.prev[At(h, L[h], i + 1)] = At(h, L[h], i)
    BY DEF IsRing
  <2>1. i \in Nat /\ i + 1 \in Nat /\ j - 1 \in Nat /\ j + 1 \in Nat
    BY <1>1, AtType
  <2>2. /\ At(h, L[h], i) \in AllCells /\ At(h, L[h], i + 1) \in AllCells
        /\ At(h, L[h], i) # l /\ At(h, L[h], i + 1) # q
    BY <1>5, <2>1, AtType, AtApart DEF l, q
  <2>3. m.next[At(h, L[h], i)] = At(h, L[h], i + 1) /\ m.prev[At(h, L[h], i + 1)] = At(h, L[h], i)
    BY DEF Lists, IsRing
  <2> QED BY <1>3, <2>2, <2>3
<1>6. K \in [Heads -> Seq(C \ {c})]
  <2> SUFFICES ASSUME NEW h \in Heads, h # g PROVE L[h] \in Seq(C \ {c})
    BY DEF Lists
  <2>1. L[h] \in Seq(C) /\ \A i \in 1..Len(L[h]) : L[h][i] # c
    BY DEF Lists
  <2> QED BY <2>1
<1>6a. L \in [Heads -> Seq(C)]
  BY DEF Lists
<1>7. /\ \A h \in Heads : IsRing(n, h, K[h])
      /\ n \in Memory /\ C \ {c} \subseteq Links
  BY <1>3, <1>4, <1>5 DEF Lists
\* the positions that the deletion leaves are positions of before
<1> DEFINE old(h, i) == IF h = g /\ i >= j THEN i + 1 ELSE i
<1>8. \A h \in Heads : \A i \in 1..Len(K[h]) :
        /\ old(h, i) \in 1..Len(L[h])
        /\ K[h][i] = L[h][old(h, i)]
  <2> SUFFICES ASSUME NEW h \in Heads, NEW i \in 1..Len(K[h])
               PROVE  old(h, i) \in 1..Len(L[h]) /\ K[h][i] = L[h][old(h, i)]
    OBVIOUS
  <2>1. K[h] = IF h = g THEN r ELSE L[h]
    BY <1>6a
  <2>2. CASE h = g
    <3>1. K[h] = r /\ i \in 1..Len(r)
      BY <2>1, <2>2
    <3>2. Len(r) = Len(L[g]) - 1 /\ Len(L[g]) \in Nat
      BY <1>1
    <3>3. r[i] = IF i < j THEN L[g][i] ELSE L[g][i + 1]
      BY <3>1
    <3> QED BY <2>2, <3>1, <3>2, <3>3
  <2>3. CASE h # g
    BY <2>1, <2>3
  <2> QED BY <2>2, <2>3
<1>9. ASSUME NEW f \in Heads, NEW h \in Heads, NEW i \in 1..Len(K[f]), NEW k \in 1..Len(K[h]),
             K[f][i] = K[h][k]
      PROVE  f = h /\ i = k
  <2>1. /\ old(f, i) \in 1..Len(L[f]) /\ old(h, k) \in 1..Len(L[h])
        /\ L[f][old(f, i)] = L[h][old(h, k)]
    <3> HIDE DEF old
    <3>1. old(f, i) \in 1..Len(L[f]) /\ K[f][i] = L[f][old(f, i)]
      BY <1>8
    <3>2. old(h, k) \in 1..Len(L[h]) /\ K[h][k] = L[h][old(h, k)]
      BY <1>8
    <3> QED BY <1>9, <3>1, <3>2
  <2>2. f = h /\ old(f, i) = old(h, k)
    <3> HIDE DEF old
    <3> QED BY <2>1, ListsParts
  <2> QED BY <2>2
<1>10. ASSUME NEW x \in C \ {c} PROVE \E h \in Heads : \E i \in 1..Len(K[h]) : K[h][i] = x
  <2>1. PICK h \in Heads : \E i \in 1..Len(L[h]) : L[h][i] = x
    BY DEF Lists
  <2>2. PICK i \in 1..Len(L[h]) : L[h][i] = x
    BY <2>1
  <2>3. CASE h = g /\ i > j
    <3>1. K[h] = r /\ i - 1 \in 1..Len(r) /\ r[i - 1] = x
      BY <1>1, <1>6a, <2>2, <2>3
    <3> QED BY <3>1
  <2>4. CASE h = g /\ i <= j
    <3>1. K[h] = r /\ i # j /\ i \in 1..Len(r) /\ r[i] = x
      BY <1>1, <1>6a, <2>2, <2>4
    <3> QED BY <3>1
  <2>5. CASE h # g
    BY <2>2, <2>5 DEF Lists
  <2> QED BY <2>3, <2>4, <2>5
<1> HIDE DEF K
<1>11. Lists(n, K, C \ {c})
  BY <1>6, <1>7, <1>9, <1>10 DEF Lists
<1> QED BY <1>11 DEF K, n

\* __list_add of a cell that is on no list, after the k-th cell of a ring
LEMMA InsertLists ==
  ASSUME NEW m, NEW L, NEW C, Lists(m, L, C), NEW g \in Heads, NEW k \in 0..Len(L[g]),
         NEW c \in Links, c \notin C,
         NEW r \in Seq(C \cup {c}), Len(r) = Len(L[g]) + 1,
         \A i \in 1..Len(r) :
           r[i] = IF i <= k THEN L[g][i] ELSE IF i = k + 1 THEN c ELSE L[g][i - 1]
  PROVE  Lists(__list_add(m, c, At(g, L[g], k), At(g, L[g], k + 1)),
               [L EXCEPT ![g] = r], C \cup {c})
<1> DEFINE s == L[g]
           l == At(g, s, k)
           q == At(g, s, k + 1)
           n == __list_add(m, c, l, q)
           K == [L EXCEPT ![g] = r]
<1>1. /\ Len(s) \in Nat /\ k \in Nat /\ k <= Len(s) /\ k + 1 \in 1..(Len(s) + 1)
      /\ \A i \in 0..Len(s) : /\ m.next[At(g, s, i)] = At(g, s, i + 1)
                              /\ m.prev[At(g, s, i + 1)] = At(g, s, i)
  <2>1. Len(s) \in Nat
    BY AtType
  <2>2. \A i \in 0..Len(s) : /\ m.next[At(g, s, i)] = At(g, s, i + 1)
                             /\ m.prev[At(g, s, i + 1)] = At(g, s, i)
    BY RingParts
  <2> QED BY <2>1, <2>2
<1>2. /\ l \in AllCells /\ q \in AllCells /\ c \in AllCells
      /\ \A h \in Heads, i \in Nat : At(h, L[h], i) # c /\ At(h, L[h], i) \in AllCells
      /\ l # c /\ q # c
  <2>1. c \in AllCells /\ c \notin Heads
    BY LinksAreNoHeads DEF AllCells
  <2>2. \A h \in Heads, i \in Nat : At(h, L[h], i) # c /\ At(h, L[h], i) \in AllCells
    BY <2>1, AtType
  <2>3. k \in Nat /\ k + 1 \in Nat
    BY <1>1
  <2> QED BY <2>1, <2>2, <2>3
<1>3. /\ n \in Memory
      /\ \A x \in AllCells : n.next[x] = IF x = l THEN c ELSE IF x = c THEN q ELSE m.next[x]
      /\ \A x \in AllCells : n.prev[x] = IF x = q THEN c ELSE IF x = c THEN l ELSE m.prev[x]
  <2>1. m \in Memory
    BY ListsParts
  <2>2. n = [next |-> [m.next EXCEPT ![c] = q, ![l] = c], prev |-> [m.prev EXCEPT ![q] = c, ![c] = l]]
    BY DEF __list_add
  <2> HIDE DEF n, l, q
  <2> QED BY <1>2, <2>1, <2>2 DEF Memory
<1> HIDE DEF n, l, q
<1>4. IsRing(n, g, r)
  <2> SUFFICES ASSUME NEW i \in 0..Len(r)
               PROVE  /\ n.next[At(g, r, i)] = At(g, r, i + 1)
                      /\ n.prev[At(g, r, i + 1)] = At(g, r, i)
    BY DEF IsRing
  <2> DEFINE o == IF i <= k THEN i ELSE i - 1
  <2>1. /\ i <= k => At(g, r, i) = At(g, s, i)
        /\ i = k + 1 => At(g, r, i) = c
        /\ i > k + 1 => At(g, r, i) = At(g, s, i - 1)
        /\ i + 1 <= k => At(g, r, i + 1) = At(g, s, i + 1)
        /\ i = k => At(g, r, i + 1) = c
        /\ i > k => At(g, r, i + 1) = At(g, s, i)
    BY <1>1 DEF At
  <2>2. CASE i = k
    BY <1>2, <1>3, <2>1, <2>2 DEF l
  <2>3. CASE i = k + 1
    <3>1. At(g, r, i) = c /\ At(g, r, i + 1) = q
      BY <1>1, <2>1, <2>3 DEF q
    <3> QED BY <1>2, <1>3, <3>1
  <2>4. CASE i # k /\ i # k + 1
    <3>1. /\ o \in 0..Len(s) /\ o # k /\ o \in Nat
          /\ o + 1 \in 1..(Len(s) + 1) /\ o + 1 # k + 1 /\ o + 1 \in Nat
          /\ At(g, r, i) = At(g, s, o) /\ At(g, r, i + 1) = At(g, s, o + 1)
      BY <1>1, <2>1, <2>4
    <3> HIDE DEF o
    <3>2. At(g, s, o) # l /\ At(g, s, o + 1) # q
      BY <1>1, <3>1, AtInjective DEF l, q
    <3> QED BY <1>1, <1>2, <1>3, <3>1, <3>2
  <2> QED BY <2>2, <2>3, <2>4
<1>5. ASSUME NEW h \in Heads, h # g PROVE IsRing(n, h, L[h])
  <2> SUFFICES ASSUME NEW i \in 0..Len(L[h])
               PROVE  /\ n.next[At(h, L[h], i)] = At(h, L[h], i + 1)
                      /\ n.prev[At(h, L[h], i + 1)] = At(h, L[h], i)
    BY DEF IsRing
  <2>1. i \in Nat /\ i + 1 \in Nat /\ k \in Nat /\ k + 1 \in Nat
    BY <1>1, AtType
  <2>2. At(h, L[h], i) # l /\ At(h, L[h], i + 1) # q
    BY <1>5, <2>1, AtApart DEF l, q
  <2> QED BY <1>2, <1>3, <2>1, <2>2, RingParts
<1>6. L \in [Heads -> Seq(C)] /\ K \in [Heads -> Seq(C \cup {c})]
  <2>1. L \in [Heads -> Seq(C)]
    BY DEF Lists
  <2>2. \A h \in Heads : L[h] \in Seq(C \cup {c})
    BY <2>1, SeqMonotonic
  <2> QED BY <2>1, <2>2
<1>7. /\ \A h \in Heads : IsRing(n, h, K[h])
      /\ n \in Memory /\ C \cup {c} \subseteq Links
  BY <1>3, <1>4, <1>5, <1>6, ListsParts
<1>8. K[g] = r /\ \A h \in Heads : h # g => K[h] = L[h]
  BY <1>6
<1> HIDE DEF K
\* the new cell is at one position, the others are where they were or one further
<1> DEFINE old(h, i) == IF h = g /\ i > k THEN i - 1 ELSE i
<1>9. \A h \in Heads : \A i \in 1..Len(K[h]) :
        IF h = g /\ i = k + 1 THEN K[h][i] = c
        ELSE old(h, i) \in 1..Len(L[h]) /\ K[h][i] = L[h][old(h, i)] /\ K[h][i] # c
  <2> SUFFICES ASSUME NEW h \in Heads, NEW i \in 1..Len(K[h]), ~(h = g /\ i = k + 1)
               PROVE  old(h, i) \in 1..Len(L[h]) /\ K[h][i] = L[h][old(h, i)]
    <3>1. ASSUME NEW h \in Heads, NEW i \in 1..Len(K[h]), h = g /\ i = k + 1
          PROVE  K[h][i] = c
      <4>1. K[h] = r /\ i \in 1..Len(r) /\ ~(i <= k)
        BY <1>1, <1>8, <3>1
      <4> QED BY <3>1, <4>1
    <3>2. \A h \in Heads : \A j \in 1..Len(L[h]) : L[h][j] # c
      BY ListsParts
    <3> HIDE DEF old
    <3> QED BY <3>1, <3>2
  <2>1. CASE h = g
    <3>1. K[h] = r /\ i \in 1..Len(r) /\ i # k + 1
      BY <1>8, <2>1
    <3> QED BY <1>1, <2>1, <3>1
  <2>2. CASE h # g
    BY <1>8, <2>2
  <2> QED BY <2>1, <2>2
<1>10. ASSUME NEW f \in Heads, NEW h \in Heads, NEW i \in 1..Len(K[f]), NEW j \in 1..Len(K[h]),
              K[f][i] = K[h][j]
       PROVE  f = h /\ i = j
  <2>1. CASE K[f][i] = c
    <3>1. f = g /\ i = k + 1
      BY <1>9, <2>1
    <3>2. h = g /\ j = k + 1
      <4>1. K[h][j] = c
        BY <1>10, <2>1, Zenon
      <4> QED BY <1>9, <4>1
    <3> QED BY <3>1, <3>2
  <2>2. CASE K[f][i] # c
    <3>1. /\ old(f, i) \in 1..Len(L[f]) /\ old(h, j) \in 1..Len(L[h])
          /\ L[f][old(f, i)] = L[h][old(h, j)]
          /\ ~(f = g /\ i = k + 1) /\ ~(h = g /\ j = k + 1)
      BY <1>9, <1>10, <2>2
    <3>2. f = h /\ old(f, i) = old(h, j)
      <4> HIDE DEF old
      <4> QED BY <3>1, ListsParts
    <3> QED BY <1>1, <3>1, <3>2
  <2> QED BY <2>1, <2>2
<1>11. ASSUME NEW x \in C \cup {c} PROVE \E h \in Heads : \E i \in 1..Len(K[h]) : K[h][i] = x
  <2>1. CASE x = c
    <3>1. k + 1 \in 1..Len(K[g]) /\ K[g][k + 1] = c
      BY <1>1, <1>8
    <3> QED BY <2>1, <3>1
  <2>2. CASE x # c
    <3>1. PICK h \in Heads : \E i \in 1..Len(L[h]) : L[h][i] = x
      BY <2>2, ListsParts
    <3>2. PICK i \in 1..Len(L[h]) : L[h][i] = x
      BY <3>1
    <3>3. CASE h = g /\ i > k
      <4>1. K[g] = r /\ i + 1 \in 1..Len(r) /\ r[i + 1] = x
        BY <1>1, <1>8, <3>2, <3>3
      <4> QED BY <4>1
    <3>4. CASE h = g /\ i <= k
      <4>1. K[g] = r /\ h = g /\ i \in 1..Len(r) /\ r[i] = x
        BY <1>1, <1>8, <3>2, <3>4
      <4> QED BY <4>1
    <3>5. CASE h # g
      BY <1>8, <3>2, <3>5
    <3> QED BY <3>3, <3>4, <3>5
  <2> QED BY <2>1, <2>2
<1>12. Lists(n, K, C \cup {c})
  BY <1>6, <1>7, <1>10, <1>11 DEF Lists
<1> QED BY <1>12 DEF K, n, l, q

\* list_add_tail appends, list_add puts in front
LEMMA AddTailLists ==
  ASSUME NEW m, NEW L, NEW C, Lists(m, L, C), NEW g \in Heads, NEW c \in Links, c \notin C
  PROVE  Lists(list_add_tail(m, c, g), [L EXCEPT ![g] = Append(L[g], c)], C \cup {c})
<1> DEFINE k == Len(L[g])
           r == Append(L[g], c)
<1>1. L[g] \in Seq(C) /\ k \in Nat /\ L[g] \in Seq(C \cup {c})
  BY ListsParts, SeqMonotonic
<1>2. /\ r \in Seq(C \cup {c}) /\ Len(r) = k + 1
      /\ \A i \in 1..Len(r) : r[i] = IF i <= k THEN L[g][i] ELSE c
  BY <1>1, AppendProperties
<1>3. At(g, L[g], k + 1) = g /\ m.prev[g] = At(g, L[g], k)
  BY <1>1, AtType, RingParts
<1>4. list_add_tail(m, c, g) = __list_add(m, c, At(g, L[g], k), At(g, L[g], k + 1))
  BY <1>3 DEF list_add_tail
<1>5. \A i \in 1..Len(r) :
        r[i] = IF i <= k THEN L[g][i] ELSE IF i = k + 1 THEN c ELSE L[g][i - 1]
  BY <1>1, <1>2
<1> HIDE DEF r
<1>6. k \in 0..Len(L[g]) /\ k = Len(L[g])
  BY <1>1
<1> HIDE DEF k
<1>7. Lists(__list_add(m, c, At(g, L[g], k), At(g, L[g], k + 1)),
            [L EXCEPT ![g] = r], C \cup {c})
  BY <1>2, <1>5, <1>6, InsertLists
<1> QED BY <1>4, <1>7 DEF r, k

LEMMA AddLists ==
  ASSUME NEW m, NEW L, NEW C, Lists(m, L, C), NEW g \in Heads, NEW c \in Links, c \notin C
  PROVE  Lists(list_add(m, c, g), [L EXCEPT ![g] = <<c>> \o L[g]], C \cup {c})
<1> DEFINE r == <<c>> \o L[g]
<1>1. L[g] \in Seq(C) /\ Len(L[g]) \in Nat /\ L[g] \in Seq(C \cup {c}) /\ <<c>> \in Seq(C \cup {c})
  BY ListsParts, SeqMonotonic
<1>2. /\ r \in Seq(C \cup {c}) /\ Len(r) = 1 + Len(L[g])
      /\ \A i \in 1..Len(r) : r[i] = IF i <= 1 THEN c ELSE L[g][i - 1]
  BY <1>1, ConcatProperties
<1>3. At(g, L[g], 0) = g /\ m.next[g] = At(g, L[g], 0 + 1) /\ 0 \in 0..Len(L[g])
  BY <1>1, AtType, RingParts
<1>4. list_add(m, c, g) = __list_add(m, c, At(g, L[g], 0), At(g, L[g], 0 + 1))
  BY <1>3 DEF list_add
<1>5. /\ Len(r) = Len(L[g]) + 1
      /\ \A i \in 1..Len(r) :
           r[i] = IF i <= 0 THEN L[g][i] ELSE IF i = 0 + 1 THEN c ELSE L[g][i - 1]
  BY <1>1, <1>2
<1> HIDE DEF r
<1>6. Lists(__list_add(m, c, At(g, L[g], 0), At(g, L[g], 0 + 1)),
            [L EXCEPT ![g] = r], C \cup {c})
  BY <1>2, <1>3, <1>5, InsertLists
<1> QED BY <1>4, <1>6 DEF r

-----------------------------------------------------------------------------
(* The lists of a memory whose links are all listed.                        *)

Walks(m) == [h \in Heads |-> list_for_each(m, h)]

WellLinked(m) == Lists(m, Walks(m), Links)

On(m, c, h) == \E i \in 1..Len(Walks(m)[h]) : Walks(m)[h][i] = c

\* when every link is listed, the lists are what the walks meet
LEMMA ListsAreWalks ==
  ASSUME NEW m, NEW L, Lists(m, L, Links)
  PROVE  L = Walks(m) /\ WellLinked(m)
<1>1. ASSUME NEW c \in AllCells PROVE m.next[c] \in AllCells
  <2>1. \E h \in Heads : \E i \in 0..Len(L[h]) : c = At(h, L[h], i)
    <3>1. CASE c \in Heads
      <4>1. 0 \in 0..Len(L[c]) /\ c = At(c, L[c], 0)
        BY <3>1, AtType
      <4> QED BY <3>1, <4>1
    <3>2. CASE c \in Links
      <4>1. PICK h \in Heads : \E i \in 1..Len(L[h]) : L[h][i] = c
        BY <3>2, ListsParts
      <4>2. PICK i \in 1..Len(L[h]) : L[h][i] = c
        BY <4>1
      <4>3. i \in 0..Len(L[h]) /\ At(h, L[h], i) = c
        BY <4>2, AtType
      <4> QED BY <4>3
    <3> QED BY <3>1, <3>2 DEF AllCells
  <2>2. PICK h \in Heads : \E i \in 0..Len(L[h]) : c = At(h, L[h], i)
    BY <2>1
  <2>3. PICK i \in 0..Len(L[h]) : c = At(h, L[h], i)
    BY <2>2
  <2>4. m.next[c] = At(h, L[h], i + 1)
    BY <2>3, RingParts
  <2>5. i + 1 \in Nat
    BY <2>3
  <2> QED BY <2>4, <2>5, AtType
<1>2. ASSUME NEW h \in Heads PROVE list_for_each(m, h) = L[h]
  <2>1. L[h] \in Seq(Links) /\ \A i, j \in 1..Len(L[h]) : L[h][i] = L[h][j] => i = j
    BY ListsParts
  <2>2. IsRing(m, h, L[h])
    BY DEF Lists
  <2> QED BY <1>1, <2>1, <2>2, WalkOfRing
<1>3. L = Walks(m)
  BY <1>2 DEF Lists, Walks
<1> QED BY <1>3 DEF WellLinked

\* what removing a position leaves
LEMMA RemoveAtIs ==
  ASSUME NEW S, NEW s \in Seq(S), NEW j \in 1..Len(s)
  PROVE  /\ RemoveAt(s, j) \in Seq(S)
         /\ Len(RemoveAt(s, j)) = Len(s) - 1
         /\ \A i \in 1..(Len(s) - 1) : RemoveAt(s, j)[i] = IF i < j THEN s[i] ELSE s[i + 1]
<1> DEFINE a == SubSeq(s, 1, j - 1)
           b == SubSeq(s, j + 1, Len(s))
<1>1. Len(s) \in Nat /\ \A k \in 1..Len(s) : s[k] \in S
  OBVIOUS
<1>2. /\ a \in Seq(S) /\ Len(a) = j - 1
      /\ \A k \in 1..(j - 1) : a[k] = s[k]
  BY <1>1, SubSeqProperties
<1>3. /\ b \in Seq(S) /\ Len(b) = Len(s) - j
      /\ \A k \in 1..(Len(s) - j) : b[k] = s[j + k]
  BY <1>1, SubSeqProperties
<1>4. RemoveAt(s, j) = a \o b
  BY DEF RemoveAt
<1> HIDE DEF a, b
<1>5. /\ a \o b \in Seq(S)
      /\ Len(a \o b) = Len(a) + Len(b)
      /\ \A k \in 1..(Len(a) + Len(b)) :
           (a \o b)[k] = IF k <= Len(a) THEN a[k] ELSE b[k - Len(a)]
  BY <1>2, <1>3, ConcatProperties
<1>6. /\ Len(a) + Len(b) = Len(s) - 1
      /\ \A k \in 1..(Len(s) - 1) :
           (a \o b)[k] = IF k < j THEN s[k] ELSE s[k + 1]
  <2>1. Len(a) + Len(b) = Len(s) - 1
    BY <1>1, <1>2, <1>3
  <2>2. ASSUME NEW k \in 1..(Len(s) - 1)
        PROVE  (a \o b)[k] = IF k < j THEN s[k] ELSE s[k + 1]
    <3>1. CASE k < j
      BY <1>1, <1>2, <1>5, <2>1, <3>1
    <3>2. CASE ~(k < j)
      <4>1. k - Len(a) \in 1..(Len(s) - j) /\ j + (k - Len(a)) = k + 1 /\ ~(k <= Len(a))
        BY <1>1, <1>2, <3>2
      <4> QED BY <1>3, <1>5, <2>1, <3>2, <4>1
    <3> QED BY <3>1, <3>2
  <2> QED BY <2>1, <2>2
<1> QED BY <1>4, <1>5, <1>6

LEMMA ApiRemoveAt == \A s, i : Api!RemoveAt(s, i) = RemoveAt(s, i)
BY DEF Api!RemoveAt, RemoveAt

\* unlinking the element at the position j, the only one it is at
LEMMA UnlinkIs ==
  ASSUME NEW S, NEW s \in Seq(S), NEW j \in 1..Len(s), \A i \in 1..Len(s) : s[i] = s[j] => i = j
  PROVE  Api!unlink(s, s[j]) = RemoveAt(s, j)
<1>1. DOMAIN s = 1..Len(s)
  OBVIOUS
<1>2. (CHOOSE i \in DOMAIN s : s[i] = s[j]) = j
  BY <1>1
<1> QED BY <1>1, <1>2, ApiRemoveAt DEF Api!unlink

LEMMA UnlinkAbsent ==
  ASSUME NEW S, NEW s \in Seq(S), NEW e, \A i \in 1..Len(s) : s[i] # e
  PROVE  Api!unlink(s, e) = s
<1>1. DOMAIN s = 1..Len(s)
  OBVIOUS
<1> QED BY <1>1 DEF Api!unlink

LEMMA WalkParts ==
  ASSUME NEW m, WellLinked(m)
  PROVE  /\ m \in Memory
         /\ \A h \in Heads :
              /\ Walks(m)[h] \in Seq(Links) /\ Len(Walks(m)[h]) \in Nat
              /\ \A i \in 1..Len(Walks(m)[h]) : Walks(m)[h][i] \in Links
         /\ \A g, h \in Heads : \A i \in 1..Len(Walks(m)[g]), j \in 1..Len(Walks(m)[h]) :
              Walks(m)[g][i] = Walks(m)[h][j] => g = h /\ i = j
         /\ \A c \in Links : \E h \in Heads : On(m, c, h)
         /\ \A c \in Links, g, h \in Heads : On(m, c, g) /\ On(m, c, h) => g = h
<1>1. Lists(m, Walks(m), Links)
  BY DEF WellLinked
<1> QED BY <1>1, ListsParts DEF On

\* the lists without a cell
Cut(m, c) == [d \in Heads |-> Api!unlink(Walks(m)[d], c)]

LEMMA CutParts ==
  ASSUME NEW m, WellLinked(m), NEW c \in Links, NEW h \in Heads
  PROVE  /\ Cut(m, c)[h] \in Seq(Links) /\ Len(Cut(m, c)[h]) \in Nat
         /\ ~On(m, c, h) => Cut(m, c)[h] = Walks(m)[h]
         /\ \A j \in 1..Len(Walks(m)[h]) :
              Walks(m)[h][j] = c => Cut(m, c)[h] = RemoveAt(Walks(m)[h], j)
         /\ On(m, c, h) => Len(Cut(m, c)[h]) = Len(Walks(m)[h]) - 1
         /\ \A x : (\E i \in 1..Len(Cut(m, c)[h]) : Cut(m, c)[h][i] = x)
                     <=> x # c /\ On(m, x, h)
<1> DEFINE s == Walks(m)[h]
<1>1. s \in Seq(Links) /\ Len(s) \in Nat /\ \A i, j \in 1..Len(s) : s[i] = s[j] => i = j
  BY WalkParts
<1>2. Cut(m, c)[h] = Api!unlink(s, c)
  BY DEF Cut
<1>3. CASE ~On(m, c, h)
  <2>1. \A i \in 1..Len(s) : s[i] # c
    BY <1>3 DEF On
  <2>2. Cut(m, c)[h] = s
    BY <1>1, <1>2, <2>1, UnlinkAbsent
  <2> QED BY <1>1, <1>3, <2>1, <2>2 DEF On
<1>4. CASE On(m, c, h)
  <2>1. PICK j \in 1..Len(s) : s[j] = c
    BY <1>4 DEF On
  <2>2. Cut(m, c)[h] = RemoveAt(s, j)
    BY <1>1, <1>2, <2>1, UnlinkIs
  <2> DEFINE r == RemoveAt(s, j)
  <2>3. /\ r \in Seq(Links) /\ Len(r) = Len(s) - 1
        /\ \A i \in 1..(Len(s) - 1) : r[i] = IF i < j THEN s[i] ELSE s[i + 1]
    BY <1>1, RemoveAtIs
  <2> HIDE DEF r
  <2>4. ASSUME NEW i \in 1..Len(r) PROVE r[i] # c /\ \E k \in 1..Len(s) : s[k] = r[i]
    <3> DEFINE k == IF i < j THEN i ELSE i + 1
    <3>1. k \in 1..Len(s) /\ k # j /\ r[i] = s[k]
      BY <1>1, <2>3
    <3> HIDE DEF k
    <3> QED BY <1>1, <2>1, <3>1
  <2>5. ASSUME NEW k \in 1..Len(s), s[k] # c PROVE \E i \in 1..Len(r) : r[i] = s[k]
    <3>1. CASE k < j
      <4>1. k \in 1..Len(r) /\ r[k] = s[k]
        BY <1>1, <2>3, <3>1
      <4> QED BY <4>1
    <3>2. CASE ~(k < j)
      <4>0. k # j
        BY <2>1, <2>5
      <4>1. k - 1 \in 1..(Len(s) - 1) /\ ~(k - 1 < j) /\ (k - 1) + 1 = k
        BY <1>1, <3>2, <4>0
      <4>2. k - 1 \in 1..Len(r) /\ r[k - 1] = s[k]
        BY <2>3, <4>1
      <4> QED BY <4>2
    <3> QED BY <3>1, <3>2
  <2>6. \A i \in 1..Len(s) : s[i] = c => i = j
    BY <1>1, <2>1
  <2>7. \A x : (\E i \in 1..Len(r) : r[i] = x) <=> x # c /\ On(m, x, h)
    BY <2>4, <2>5 DEF On
  <2>8. Cut(m, c)[h] = r /\ Len(r) \in Nat
    BY <1>1, <2>2, <2>3 DEF r
  <2> QED BY <1>4, <2>2, <2>3, <2>6, <2>7, <2>8
<1> QED BY <1>3, <1>4

LEMMA DeletedLists ==
  ASSUME NEW m, WellLinked(m), NEW c \in Links
  PROVE  Lists(list_del(m, c), Cut(m, c), Links \ {c})
<1> DEFINE W == Walks(m)
<1>1. PICK g \in Heads : On(m, c, g)
  BY WalkParts
<1>2. PICK j \in 1..Len(W[g]) : W[g][j] = c
  BY <1>1 DEF On
<1> DEFINE r == RemoveAt(W[g], j)
<1>3. /\ Len(r) = Len(W[g]) - 1
      /\ \A i \in 1..Len(r) : r[i] = IF i < j THEN W[g][i] ELSE W[g][i + 1]
  <2>1. W[g] \in Seq(Links) /\ Len(W[g]) \in Nat
    BY WalkParts
  <2> QED BY <2>1, RemoveAtIs
<1>4. r = Cut(m, c)[g] /\ \A h \in Heads : h # g => Cut(m, c)[h] = W[h]
  BY <1>1, <1>2, CutParts, WalkParts
<1>5. r \in Seq(Links \ {c})
  <2>1. r \in Seq(Links) /\ \A i \in 1..Len(r) : r[i] # c
    BY <1>4, CutParts
  <2> HIDE DEF r
  <2> QED BY <2>1
<1> HIDE DEF r
<1>6. Lists(list_del(m, c), [W EXCEPT ![g] = r], Links \ {c})
  BY <1>2, <1>3, <1>5, DelLists DEF WellLinked
<1>7. Cut(m, c) = [W EXCEPT ![g] = r]
  BY <1>4 DEF Cut, Walks
<1> QED BY <1>6, <1>7

\* list_del and list_add_tail of a cell, wherever it was
LEMMA MovedLists ==
  ASSUME NEW m, WellLinked(m), NEW c \in Links, NEW h \in Heads, NEW n,
         n = list_add_tail(list_del(m, c), c, h)
  PROVE  /\ WellLinked(n)
         /\ Walks(n) = [Cut(m, c) EXCEPT ![h] = Append(Cut(m, c)[h], c)]
<1>1. Lists(list_del(m, c), Cut(m, c), Links \ {c})
  BY DeletedLists
<1>2. Lists(n, [Cut(m, c) EXCEPT ![h] = Append(Cut(m, c)[h], c)], (Links \ {c}) \cup {c})
  BY <1>1, AddTailLists
<1>3. (Links \ {c}) \cup {c} = Links
  OBVIOUS
<1> QED BY <1>2, <1>3, ListsAreWalks

LEMMA PushedLists ==
  ASSUME NEW m, WellLinked(m), NEW c \in Links, NEW h \in Heads, NEW n,
         n = list_add(list_del(m, c), c, h)
  PROVE  /\ WellLinked(n)
         /\ Walks(n) = [Cut(m, c) EXCEPT ![h] = <<c>> \o Cut(m, c)[h]]
<1>1. Lists(list_del(m, c), Cut(m, c), Links \ {c})
  BY DeletedLists
<1>2. Lists(n, [Cut(m, c) EXCEPT ![h] = <<c>> \o Cut(m, c)[h]], (Links \ {c}) \cup {c})
  BY <1>1, AddLists
<1>3. (Links \ {c}) \cup {c} = Links
  OBVIOUS
<1> QED BY <1>2, <1>3, ListsAreWalks

\* the list a cell is on after it was linked into h
LEMMA OnMoved ==
  ASSUME NEW m, WellLinked(m), NEW c \in Links, NEW h \in Heads, NEW n,
         \/ Walks(n) = [Cut(m, c) EXCEPT ![h] = Append(Cut(m, c)[h], c)]
         \/ Walks(n) = [Cut(m, c) EXCEPT ![h] = <<c>> \o Cut(m, c)[h]],
         NEW x \in Links, NEW d \in Heads
  PROVE  On(n, x, d) <=> IF x = c THEN d = h ELSE On(m, x, d)
<1> DEFINE s == Cut(m, c)[d]
           w == Walks(n)[d]
<1>1. /\ s \in Seq(Links) /\ Len(s) \in Nat
      /\ (\E i \in 1..Len(s) : s[i] = x) <=> x # c /\ On(m, x, d)
  BY CutParts
<1>2. w = IF d # h THEN s ELSE IF Walks(n) = [Cut(m, c) EXCEPT ![h] = Append(Cut(m, c)[h], c)]
                               THEN Append(s, c) ELSE <<c>> \o s
  BY DEF Cut
<1>3. On(n, x, d) <=> \E i \in 1..Len(w) : w[i] = x
  BY DEF On
<1> HIDE DEF s, w
<1>4. CASE w = s /\ d # h
  BY <1>1, <1>3, <1>4
<1>5. CASE w = Append(s, c) /\ d = h
  <2>1. Len(w) = Len(s) + 1 /\ \A i \in 1..Len(w) : w[i] = IF i <= Len(s) THEN s[i] ELSE c
    BY <1>1, <1>5, AppendProperties
  <2>2. (\E i \in 1..Len(w) : w[i] = x) <=> x = c \/ \E i \in 1..Len(s) : s[i] = x
    BY <1>1, <2>1
  <2> QED BY <1>1, <1>3, <1>5, <2>2
<1>6. CASE w = <<c>> \o s /\ d = h
  <2>0. <<c>> \in Seq(Links) /\ Len(<<c>>) = 1 /\ <<c>>[1] = c
    OBVIOUS
  <2>1. Len(w) = Len(s) + 1 /\ \A i \in 1..Len(w) : w[i] = IF i <= 1 THEN c ELSE s[i - 1]
    BY <1>1, <1>6, <2>0, ConcatProperties
  <2>2. (\E i \in 1..Len(w) : w[i] = x) <=> x = c \/ \E i \in 1..Len(s) : s[i] = x
    <3>1. ASSUME NEW i \in 1..Len(s) PROVE i + 1 \in 1..Len(w) /\ w[i + 1] = s[i]
      BY <1>1, <2>1
    <3>2. 1 \in 1..Len(w) /\ w[1] = c
      BY <1>1, <2>1
    <3>3. ASSUME NEW i \in 1..Len(w), i # 1 PROVE i - 1 \in 1..Len(s) /\ w[i] = s[i - 1]
      BY <1>1, <2>1, <3>3
    <3>4. ASSUME NEW i \in 1..Len(w), w[i] = x PROVE x = c \/ \E k \in 1..Len(s) : s[k] = x
      <4>1. CASE i = 1
        BY <3>2, <3>4, <4>1
      <4>2. CASE i # 1
        BY <3>3, <3>4, <4>2
      <4> QED BY <4>1, <4>2
    <3>5. (\E i \in 1..Len(s) : s[i] = x) => \E i \in 1..Len(w) : w[i] = x
      BY <3>1
    <3> QED BY <3>2, <3>4, <3>5
  <2> QED BY <1>1, <1>3, <1>6, <2>2
<1> QED BY <1>2, <1>4, <1>5, <1>6

-----------------------------------------------------------------------------
(* The loops of the initialisations.                                        *)

LEMMA AddKeepsMemory ==
  ASSUME NEW m \in Memory, NEW c \in AllCells, NEW h \in AllCells
  PROVE  list_add_tail(m, c, h) \in Memory /\ list_add(m, c, h) \in Memory
BY DEF list_add_tail, list_add, __list_add, Memory

Loop(f, N, base, add) ==
  /\ f = [i \in 0..N |-> IF i = 0 THEN base ELSE add[i][f[i - 1]]]
  /\ \A i \in 0..N : f[i] \in Memory

\* the loop over a table, of the body add, has a last iteration
LEMMA LoopDefined ==
  ASSUME NEW N \in Nat, NEW base \in Memory, NEW add \in [1..N -> [Memory -> Memory]]
  PROVE  \E f : Loop(f, N, base, add)
<1> DEFINE step == [i \in Nat |-> IF i \in 1..N THEN add[i] ELSE [x \in Memory |-> x]]
<1>1. step \in Steps(Memory)
  BY DEF Steps
<1>2. PICK f : Recursion(f, Memory, base, step)
  <2> HIDE DEF step
  <2> QED BY <1>1, NatRecursion
<1>3. \A i \in 1..N : f[i] = add[i][f[i - 1]]
  <2> SUFFICES ASSUME NEW i \in 1..N PROVE f[i] = add[i][f[i - 1]]
    OBVIOUS
  <2>1. i - 1 \in Nat /\ (i - 1) + 1 = i /\ i \in Nat
    OBVIOUS
  <2>2. f[i] = step[i][f[i - 1]]
    BY <1>2, <2>1 DEF Recursion
  <2> QED BY <2>1, <2>2
<1> DEFINE g == [i \in 0..N |-> f[i]]
<1>4. f[0] = base /\ \A i \in 0..N : f[i] \in Memory
  BY <1>2 DEF Recursion
<1>5. g = [i \in 0..N |-> IF i = 0 THEN base ELSE add[i][g[i - 1]]]
  <2> SUFFICES ASSUME NEW i \in 0..N PROVE f[i] = IF i = 0 THEN base ELSE add[i][g[i - 1]]
    OBVIOUS
  <2>1. CASE i = 0
    BY <1>4, <2>1
  <2>2. CASE i # 0
    <3>1. i \in 1..N /\ i - 1 \in 0..N
      BY <2>2
    <3> QED BY <1>3, <2>2, <3>1
  <2> QED BY <2>1, <2>2
<1> HIDE DEF g
<1>6. \A i \in 0..N : g[i] \in Memory
  BY <1>4 DEF g
<1>7. Loop(g, N, base, add)
  BY <1>5, <1>6 DEF Loop
<1> QED BY <1>7

LEMMA AllAddedTailLists ==
  ASSUME NEW m, NEW L, NEW C, Lists(m, L, C), NEW h \in Heads, L[h] = <<>>,
         NEW cells \in Seq(Links), \A i \in 1..Len(cells) : cells[i] \notin C,
         \A i, j \in 1..Len(cells) : cells[i] = cells[j] => i = j,
         NEW S, S = { cells[i] : i \in 1..Len(cells) }, NEW A, A = [L EXCEPT ![h] = cells]
  PROVE  Lists(AllAddedTail(m, cells, h), A, C \cup S)
<1> DEFINE N == Len(cells)
           after[i \in 0..Len(cells)] ==
             IF i = 0 THEN m ELSE list_add_tail(after[i - 1], cells[i], h)
           add == [i \in 1..N |-> [x \in Memory |-> list_add_tail(x, cells[i], h)]]
<1>1. /\ N \in Nat /\ m \in Memory /\ L \in [Heads -> Seq(C)] /\ h \in AllCells
      /\ \A i \in 1..N : cells[i] \in Links /\ cells[i] \in AllCells
  BY ListsParts DEF AllCells, Lists
<1>2. AllAddedTail(m, cells, h) = after[N]
  BY DEF AllAddedTail
<1>3. add \in [1..N -> [Memory -> Memory]]
  BY <1>1, AddKeepsMemory
<1>a. PICK f : Loop(f, N, m, add)
  <2> HIDE DEF add, N
  <2> QED BY <1>1, <1>3, LoopDefined
<1>4. f = [i \in 0..N |-> IF i = 0 THEN m ELSE add[i][f[i - 1]]]
  BY <1>a DEF Loop
<1>b. \A i \in 0..N : f[i] \in Memory
  BY <1>a DEF Loop
<1>5. f = [i \in 0..N |-> IF i = 0 THEN m ELSE list_add_tail(f[i - 1], cells[i], h)]
  <2>1. ASSUME NEW i \in 0..N, i # 0 PROVE i \in 1..N /\ f[i - 1] \in Memory
    <3>1. i - 1 \in 0..N /\ i \in 1..N
      BY <1>1, <2>1
    <3> QED BY <1>b, <3>1
  <2>2. \A i \in 0..N : i # 0 => add[i][f[i - 1]] = list_add_tail(f[i - 1], cells[i], h)
    BY <2>1
  <2> QED BY <1>4, <2>2
<1>6. after = [i \in 0..N |-> IF i = 0 THEN m ELSE list_add_tail(after[i - 1], cells[i], h)]
  BY <1>5
<1> HIDE DEF after
<1>7. after[0] = m /\ \A i \in 1..N : after[i] = list_add_tail(after[i - 1], cells[i], h)
  <2>1. N \in Nat /\ 0 \in 0..N /\ \A i \in 1..N : i \in 0..N /\ i # 0
    BY <1>1
  <2> QED BY <1>6, <2>1
<1> DEFINE D(i) == C \cup { cells[k] : k \in 1..i }
           Before(i) == SubSeq(cells, 1, i)
           T == {i \in Nat : i <= N => Lists(after[i], [L EXCEPT ![h] = Before(i)], D(i))}
<1>8. /\ Before(0) = <<>> /\ Before(N) = cells
      /\ \A i \in 0..(N - 1) : Before(i + 1) = Append(Before(i), cells[i + 1])
  OBVIOUS
<1>9. /\ D(0) = C
      /\ \A i \in 0..(N - 1) : D(i + 1) = D(i) \cup {cells[i + 1]} /\ cells[i + 1] \notin D(i)
  <2>1. D(0) = C
    OBVIOUS
  <2>2. ASSUME NEW i \in 0..(N - 1)
        PROVE  D(i + 1) = D(i) \cup {cells[i + 1]} /\ cells[i + 1] \notin D(i)
    <3>1. /\ 1..(i + 1) = 1..i \cup {i + 1} /\ i + 1 \in 1..N
          /\ \A k \in 1..i : k \in 1..N /\ k # i + 1
      BY <1>1
    <3> QED BY <3>1
  <2> QED BY <2>1, <2>2
<1> HIDE DEF N, add, D, Before
<1>10. 0 \in T
  <2>1. [L EXCEPT ![h] = Before(0)] = L
    BY <1>1, <1>8
  <2> QED BY <1>7, <1>9, <2>1
<1>11. ASSUME NEW n \in Nat, n \in T PROVE n + 1 \in T
  <2> SUFFICES ASSUME n + 1 <= N
               PROVE  Lists(after[n + 1], [L EXCEPT ![h] = Before(n + 1)], D(n + 1))
    OBVIOUS
  <2> DEFINE K == [L EXCEPT ![h] = Before(n)]
             c == cells[n + 1]
  <2>0. N \in Nat
    BY <1>1
  <2>1. n \in 0..(N - 1) /\ n + 1 \in 1..N /\ (n + 1) - 1 = n
    BY <2>0
  <2>2. Lists(after[n], K, D(n)) /\ c \in Links /\ c \notin D(n)
    BY <1>1, <1>9, <1>11, <2>1
  <2>3. /\ K[h] = Before(n)
        /\ [K EXCEPT ![h] = Append(K[h], c)] = [L EXCEPT ![h] = Append(Before(n), c)]
    BY <1>1
  <2>4. after[n + 1] = list_add_tail(after[n], c, h)
    BY <1>7, <2>1
  <2>5. Before(n + 1) = Append(Before(n), c) /\ D(n + 1) = D(n) \cup {c}
    BY <1>8, <1>9, <2>1
  <2> HIDE DEF K, c
  <2>6. Lists(list_add_tail(after[n], c, h), [K EXCEPT ![h] = Append(K[h], c)], D(n) \cup {c})
    BY <2>2, AddTailLists
  <2> QED BY <2>3, <2>4, <2>5, <2>6
<1>12. N \in T
  <2> HIDE DEF T
  <2> QED BY <1>1, <1>10, <1>11, AllNaturals
<1> QED BY <1>1, <1>2, <1>8, <1>12 DEF D, N

LEMMA AllAddedLists ==
  ASSUME NEW m, NEW L, NEW C, Lists(m, L, C), NEW h \in Heads, L[h] = <<>>,
         NEW cells \in Seq(Links), \A i \in 1..Len(cells) : cells[i] \notin C,
         \A i, j \in 1..Len(cells) : cells[i] = cells[j] => i = j,
         NEW S, S = { cells[i] : i \in 1..Len(cells) },
         NEW A, A = [L EXCEPT ![h] = [k \in 1..Len(cells) |-> cells[Len(cells) + 1 - k]]]
  PROVE  Lists(AllAdded(m, cells, h), A, C \cup S)
<1> DEFINE N == Len(cells)
           after[i \in 0..Len(cells)] ==
             IF i = 0 THEN m ELSE list_add(after[i - 1], cells[i], h)
           add == [i \in 1..N |-> [x \in Memory |-> list_add(x, cells[i], h)]]
<1>1. /\ N \in Nat /\ m \in Memory /\ L \in [Heads -> Seq(C)] /\ h \in AllCells
      /\ \A i \in 1..N : cells[i] \in Links /\ cells[i] \in AllCells
  BY ListsParts DEF AllCells, Lists
<1>2. AllAdded(m, cells, h) = after[N]
  BY DEF AllAdded
<1>3. add \in [1..N -> [Memory -> Memory]]
  BY <1>1, AddKeepsMemory
<1>a. PICK f : Loop(f, N, m, add)
  <2> HIDE DEF add, N
  <2> QED BY <1>1, <1>3, LoopDefined
<1>4. f = [i \in 0..N |-> IF i = 0 THEN m ELSE add[i][f[i - 1]]]
  BY <1>a DEF Loop
<1>b. \A i \in 0..N : f[i] \in Memory
  BY <1>a DEF Loop
<1>5. f = [i \in 0..N |-> IF i = 0 THEN m ELSE list_add(f[i - 1], cells[i], h)]
  <2>1. ASSUME NEW i \in 0..N, i # 0 PROVE i \in 1..N /\ f[i - 1] \in Memory
    <3>1. i - 1 \in 0..N /\ i \in 1..N
      BY <1>1, <2>1
    <3> QED BY <1>b, <3>1
  <2>2. \A i \in 0..N : i # 0 => add[i][f[i - 1]] = list_add(f[i - 1], cells[i], h)
    BY <2>1
  <2> QED BY <1>4, <2>2
<1>6. after = [i \in 0..N |-> IF i = 0 THEN m ELSE list_add(after[i - 1], cells[i], h)]
  BY <1>5
<1> HIDE DEF after
<1>7. after[0] = m /\ \A i \in 1..N : after[i] = list_add(after[i - 1], cells[i], h)
  <2>1. N \in Nat /\ 0 \in 0..N /\ \A i \in 1..N : i \in 0..N /\ i # 0
    BY <1>1
  <2> QED BY <1>6, <2>1
<1> DEFINE D(i) == C \cup { cells[k] : k \in 1..i }
           Before(i) == [k \in 1..i |-> cells[i + 1 - k]]
           T == {i \in Nat : i <= N => Lists(after[i], [L EXCEPT ![h] = Before(i)], D(i))}
<1>8. /\ Before(0) = <<>>
      /\ \A i \in 0..(N - 1) : Before(i + 1) = <<cells[i + 1]>> \o Before(i)
  OBVIOUS
<1>9. /\ D(0) = C
      /\ \A i \in 0..(N - 1) : D(i + 1) = D(i) \cup {cells[i + 1]} /\ cells[i + 1] \notin D(i)
  <2>1. D(0) = C
    OBVIOUS
  <2>2. ASSUME NEW i \in 0..(N - 1)
        PROVE  D(i + 1) = D(i) \cup {cells[i + 1]} /\ cells[i + 1] \notin D(i)
    <3>1. /\ 1..(i + 1) = 1..i \cup {i + 1} /\ i + 1 \in 1..N
          /\ \A k \in 1..i : k \in 1..N /\ k # i + 1
      BY <1>1
    <3> QED BY <3>1
  <2> QED BY <2>1, <2>2
<1> HIDE DEF N, add, D, Before
<1>10. 0 \in T
  <2>1. [L EXCEPT ![h] = Before(0)] = L
    BY <1>1, <1>8
  <2> QED BY <1>7, <1>9, <2>1
<1>11. ASSUME NEW n \in Nat, n \in T PROVE n + 1 \in T
  <2> SUFFICES ASSUME n + 1 <= N
               PROVE  Lists(after[n + 1], [L EXCEPT ![h] = Before(n + 1)], D(n + 1))
    OBVIOUS
  <2> DEFINE K == [L EXCEPT ![h] = Before(n)]
             c == cells[n + 1]
  <2>0. N \in Nat
    BY <1>1
  <2>1. n \in 0..(N - 1) /\ n + 1 \in 1..N /\ (n + 1) - 1 = n
    BY <2>0
  <2>2. Lists(after[n], K, D(n)) /\ c \in Links /\ c \notin D(n)
    BY <1>1, <1>9, <1>11, <2>1
  <2>3. /\ K[h] = Before(n)
        /\ [K EXCEPT ![h] = <<c>> \o K[h]] = [L EXCEPT ![h] = <<c>> \o Before(n)]
    BY <1>1
  <2>4. after[n + 1] = list_add(after[n], c, h)
    BY <1>7, <2>1
  <2>5. Before(n + 1) = <<c>> \o Before(n) /\ D(n + 1) = D(n) \cup {c}
    BY <1>8, <1>9, <2>1
  <2> HIDE DEF K, c
  <2>6. Lists(list_add(after[n], c, h), [K EXCEPT ![h] = <<c>> \o K[h]], D(n) \cup {c})
    BY <2>2, AddLists
  <2> QED BY <2>3, <2>4, <2>5, <2>6
<1>12. N \in T
  <2> HIDE DEF T
  <2> QED BY <1>1, <1>10, <1>11, AllNaturals
<1> QED BY <1>1, <1>2, <1>12 DEF D, N, Before

-----------------------------------------------------------------------------
(* The heads and the links, by kind.                                        *)

ProcHeads   == {free_processes} \cup { children_of(p) : p \in Proc }
ThreadHeads == {free_threads} \cup { threads_of(p) : p \in Proc }
MsgHeads    == {free_messages} \cup { msgs_of(t) : t \in Tcb }

LEMMA HeadsByKind ==
  /\ Heads = ProcHeads \cup ThreadHeads \cup MsgHeads
  /\ ProcHeads \cap ThreadHeads = {} /\ ProcHeads \cap MsgHeads = {} /\ ThreadHeads \cap MsgHeads = {}
  /\ \A p, q : children_of(p) # free_processes /\ threads_of(p) # free_threads
               /\ msgs_of(p) # free_messages
               /\ (children_of(p) = children_of(q) => p = q)
               /\ (threads_of(p) = threads_of(q) => p = q)
               /\ (msgs_of(p) = msgs_of(q) => p = q)
BY DEF Heads, ProcHeads, ThreadHeads, MsgHeads, p_siblings, threads_of, children_of, msgs_of,
       free_threads, free_messages, free_processes

LEMMA LinksByKind ==
  /\ \A p, q : p_siblings(p) = p_siblings(q) => p = q
  /\ \A p, q : t_next(p) = t_next(q) => p = q
  /\ \A p, q : m_next(p) = m_next(q) => p = q
  /\ \A p, q : p_siblings(p) # t_next(q) /\ p_siblings(p) # m_next(q) /\ t_next(p) # m_next(q)
  /\ \A p : container_of(p_siblings(p)) = p /\ container_of(t_next(p)) = p
            /\ container_of(m_next(p)) = p
BY DEF p_siblings, t_next, m_next, container_of

LEMMA TableCells ==
  /\ ProcCells \in Seq(Links) /\ Len(ProcCells) = MAXPROC - 1
  /\ ThreadCells \in Seq(Links) /\ Len(ThreadCells) = MAXTHREAD
  /\ MessageCells \in Seq(Links) /\ Len(MessageCells) = MAXMSG
  /\ \A i \in 1..(MAXPROC - 1) : ProcCells[i] = p_siblings(i) /\ i \in Proc \ {root}
  /\ \A i \in 1..MAXTHREAD : ThreadCells[i] = t_next(i)
  /\ \A i \in 1..MAXMSG : MessageCells[i] = m_next(i)
<1>1. MAXPROC - 1 \in Nat /\ MAXTHREAD \in Nat /\ MAXMSG \in Nat
  BY PointersAssumption
<1>2. 1..(MAXPROC - 1) = Proc \ {root}
  BY <1>1 DEF Proc, root
<1>3. /\ \A i \in Proc \ {root} : p_siblings(i) \in Links
      /\ \A t \in Tcb : t_next(t) \in Links
      /\ \A i \in Message : m_next(i) \in Links
  BY DEF Links
<1>4. ProcCells \in Seq(Links) /\ Len(ProcCells) = MAXPROC - 1
  BY <1>1, <1>2, <1>3 DEF ProcCells
<1>5. ThreadCells \in Seq(Links) /\ Len(ThreadCells) = MAXTHREAD
  BY <1>1, <1>3 DEF ThreadCells, Tcb
<1>6. MessageCells \in Seq(Links) /\ Len(MessageCells) = MAXMSG
  BY <1>1, <1>3 DEF MessageCells, Message
<1> QED BY <1>1, <1>2, <1>4, <1>5, <1>6 DEF ProcCells, ThreadCells, MessageCells, Tcb, Message

\* the lists after proc_init, thread_init and msgq_init
InitLists ==
  [h \in Heads |-> IF h = free_processes THEN ProcCells
                   ELSE IF h = free_threads THEN ThreadCells
                   ELSE IF h = free_messages THEN [k \in 1..MAXMSG |-> MessageCells[MAXMSG + 1 - k]]
                   ELSE <<>>]

LEMMA EmptyLists ==
  Lists(init_list_heads(Links \cup Heads, Heads), [h \in Heads |-> <<>>], {})
<1> DEFINE m == init_list_heads(Links \cup Heads, Heads)
           L == [h \in Heads |-> <<>>]
<1>1. m \in Memory /\ \A h \in Heads : m.next[h] = h /\ m.prev[h] = h
  BY DEF init_list_heads, Memory, AllCells
<1> HIDE DEF m
<1>2. L \in [Heads -> Seq({})]
  OBVIOUS
<1>3. \A h \in Heads : L[h] = <<>> /\ Len(L[h]) = 0
  OBVIOUS
<1> HIDE DEF L
<1>4. \A h \in Heads : IsRing(m, h, L[h])
  BY <1>1, <1>3 DEF IsRing, At
<1>5. Lists(m, L, {})
  BY <1>1, <1>2, <1>3, <1>4 DEF Lists
<1> QED BY <1>5 DEF m, L

LEMMA InitLinked ==
  ASSUME PointersInit
  PROVE  WellLinked(mem) /\ Walks(mem) = InitLists
<1> DEFINE heads   == init_list_heads(Links \cup Heads, Heads)
           procs   == AllAddedTail(heads, ProcCells, free_processes)
           threads == AllAddedTail(procs, ThreadCells, free_threads)
           L0 == [h \in Heads |-> <<>>]
           L1 == [L0 EXCEPT ![free_processes] = ProcCells]
           L2 == [L1 EXCEPT ![free_threads] = ThreadCells]
           last_first == [k \in 1..Len(MessageCells) |-> MessageCells[Len(MessageCells) + 1 - k]]
           L3 == [L2 EXCEPT ![free_messages] = last_first]
           C1 == {} \cup { ProcCells[i] : i \in 1..Len(ProcCells) }
           C2 == C1 \cup { ThreadCells[i] : i \in 1..Len(ThreadCells) }
           C3 == C2 \cup { MessageCells[i] : i \in 1..Len(MessageCells) }
<1>1. /\ free_processes \in Heads /\ free_threads \in Heads /\ free_messages \in Heads
      /\ free_processes # free_threads /\ free_processes # free_messages
      /\ free_threads # free_messages
  BY HeadsByKind DEF ProcHeads, ThreadHeads, MsgHeads
<1>2. mem = AllAdded(threads, MessageCells, free_messages)
  BY DEF PointersInit
<1>3. /\ \A i, j \in 1..Len(ProcCells) : ProcCells[i] = ProcCells[j] => i = j
      /\ \A i, j \in 1..Len(ThreadCells) : ThreadCells[i] = ThreadCells[j] => i = j
      /\ \A i, j \in 1..Len(MessageCells) : MessageCells[i] = MessageCells[j] => i = j
      /\ \A i \in 1..Len(ThreadCells) : ThreadCells[i] \notin C1
      /\ \A i \in 1..Len(MessageCells) : MessageCells[i] \notin C2
  <2>1. /\ \A i \in 1..Len(ProcCells) : ProcCells[i] = p_siblings(i)
        /\ \A i \in 1..Len(ThreadCells) : ThreadCells[i] = t_next(i)
        /\ \A i \in 1..Len(MessageCells) : MessageCells[i] = m_next(i)
    BY TableCells
  <2>2. /\ \A x \in C1 : \E p : x = p_siblings(p)
        /\ \A x \in C2 : (\E p : x = p_siblings(p)) \/ \E t : x = t_next(t)
    BY <2>1
  <2>3. /\ \A i, j \in 1..Len(ProcCells) : ProcCells[i] = ProcCells[j] => i = j
        /\ \A i, j \in 1..Len(ThreadCells) : ThreadCells[i] = ThreadCells[j] => i = j
        /\ \A i, j \in 1..Len(MessageCells) : MessageCells[i] = MessageCells[j] => i = j
    BY <2>1, LinksByKind
  <2> HIDE DEF C1, C2
  <2>4. \A i \in 1..Len(ThreadCells) : ThreadCells[i] \notin C1
    BY <2>1, <2>2, LinksByKind
  <2>5. \A i \in 1..Len(MessageCells) : MessageCells[i] \notin C2
    BY <2>1, <2>2, LinksByKind
  <2> QED BY <2>3, <2>4, <2>5
<1>4. C3 = Links
  <2>1. /\ C1 = { p_siblings(p) : p \in Proc \ {root} }
        /\ C2 = C1 \cup { t_next(t) : t \in Tcb }
        /\ C3 = C2 \cup { m_next(i) : i \in Message }
    <3>1. 1..(MAXPROC - 1) = Proc \ {root} /\ 1..MAXTHREAD = Tcb /\ 1..MAXMSG = Message
      BY PointersAssumption DEF Proc, root, Tcb, Message
    <3> QED BY <3>1, TableCells
  <2> QED BY <2>1 DEF Links
<1>5. /\ L0[free_processes] = <<>> /\ L1[free_threads] = <<>> /\ L2[free_messages] = <<>>
  BY <1>1
<1>6. Lists(heads, L0, {})
  BY EmptyLists
<1> HIDE DEF heads, L0
<1> DEFINE B == { ProcCells[i] : i \in 1..Len(ProcCells) }
           T == { ThreadCells[i] : i \in 1..Len(ThreadCells) }
           M == { MessageCells[i] : i \in 1..Len(MessageCells) }
<1>a. C1 = {} \cup B /\ C2 = C1 \cup T /\ C3 = C2 \cup M
  OBVIOUS
<1>b. ProcCells \in Seq(Links) /\ ThreadCells \in Seq(Links) /\ MessageCells \in Seq(Links)
  BY TableCells
<1>c. /\ B = { ProcCells[i] : i \in 1..Len(ProcCells) } /\ L1 = [L0 EXCEPT ![free_processes] = ProcCells]
      /\ T = { ThreadCells[i] : i \in 1..Len(ThreadCells) } /\ L2 = [L1 EXCEPT ![free_threads] = ThreadCells]
      /\ M = { MessageCells[i] : i \in 1..Len(MessageCells) } /\ L3 = [L2 EXCEPT ![free_messages] = last_first]
  OBVIOUS
<1> HIDE DEF B, T, M, C1, C2, C3, L1, L2, L3
<1>7. Lists(procs, L1, C1)
  <2> DEFINE none == {}
  <2>1. (\A i \in 1..Len(ProcCells) : ProcCells[i] \notin none) /\ Lists(heads, L0, none)
    BY <1>6
  <2> HIDE DEF none, threads, procs
  <2>2. Lists(AllAddedTail(heads, ProcCells, free_processes), L1, none \cup B)
    <3>1. \A i, j \in 1..Len(ProcCells) : ProcCells[i] = ProcCells[j] => i = j
      BY <1>3
    <3>2. L0[free_processes] = <<>> /\ free_processes \in Heads /\ ProcCells \in Seq(Links)
      BY <1>1, <1>5, <1>b
    <3> QED BY <1>c, <2>1, <3>1, <3>2, AllAddedTailLists
  <2> QED BY <1>a, <2>2 DEF none, procs
<1> HIDE DEF procs
<1>8. Lists(threads, L2, C2)
  <2>1. Lists(AllAddedTail(procs, ThreadCells, free_threads), L2, C1 \cup T)
    <3>1. /\ \A i, j \in 1..Len(ThreadCells) : ThreadCells[i] = ThreadCells[j] => i = j
          /\ \A i \in 1..Len(ThreadCells) : ThreadCells[i] \notin C1
      BY <1>3
    <3>2. L1[free_threads] = <<>> /\ free_threads \in Heads /\ ThreadCells \in Seq(Links)
      BY <1>1, <1>5, <1>b
    <3> QED BY <1>7, <1>c, <3>1, <3>2, AllAddedTailLists
  <2> QED BY <1>a, <2>1
<1> HIDE DEF threads
<1>9. Lists(mem, L3, C3)
  <2>1. Lists(AllAdded(threads, MessageCells, free_messages), L3, C2 \cup M)
    <3>1. /\ \A i, j \in 1..Len(MessageCells) : MessageCells[i] = MessageCells[j] => i = j
          /\ \A i \in 1..Len(MessageCells) : MessageCells[i] \notin C2
      BY <1>3
    <3>2. L2[free_messages] = <<>> /\ free_messages \in Heads /\ MessageCells \in Seq(Links)
      BY <1>1, <1>5, <1>b
    <3> QED BY <1>8, <1>c, <3>1, <3>2, AllAddedLists
  <2> QED BY <1>2, <1>a, <2>1
<1>10. L3 = InitLists
  BY <1>1, <1>c, TableCells DEF InitLists, L0
<1> QED BY <1>4, <1>9, <1>10, ListsAreWalks

-----------------------------------------------------------------------------
(* The descriptors of a list.                                               *)

Ids(w) == [i \in 1..Len(w) |-> container_of(w[i])]

LEMMA ListIs ==
  ASSUME WellLinked(mem), NEW h \in Heads
  PROVE  Cells(h) = Walks(mem)[h] /\ List(h) = Ids(Walks(mem)[h]) /\ Len(List(h)) = Len(Walks(mem)[h])
<1>1. Cells(h) = Walks(mem)[h]
  BY DEF Cells, Walks
<1>2. Walks(mem)[h] \in Seq(Links) /\ Len(Walks(mem)[h]) \in Nat
  BY WalkParts
<1>3. DOMAIN Cells(h) = 1..Len(Walks(mem)[h])
  BY <1>1, <1>2
<1>4. List(h) = Ids(Walks(mem)[h])
  BY <1>1, <1>3 DEF List, Ids
<1>5. Len(Ids(Walks(mem)[h])) = Len(Walks(mem)[h])
  BY <1>2 DEF Ids
<1> QED BY <1>1, <1>4, <1>5

LEMMA ListIsThen ==
  ASSUME WellLinked(mem'), NEW h \in Heads
  PROVE  List(h)' = Ids(Walks(mem')[h]) /\ Len(List(h)') = Len(Walks(mem')[h])
<1>1. Cells(h)' = Walks(mem')[h]
  BY DEF Cells, Walks
<1>2. Walks(mem')[h] \in Seq(Links) /\ Len(Walks(mem')[h]) \in Nat
  BY WalkParts
<1>3. DOMAIN (Cells(h)') = 1..Len(Walks(mem')[h])
  BY <1>1, <1>2
<1>4. List(h)' = Ids(Walks(mem')[h])
  BY <1>1, <1>3 DEF List, Ids
<1>5. Len(Ids(Walks(mem')[h])) = Len(Walks(mem')[h])
  BY <1>2 DEF Ids
<1> QED BY <1>4, <1>5

LEMMA IdsParts ==
  ASSUME NEW s \in Seq(Links)
  PROVE  /\ Len(Ids(s)) = Len(s) /\ Len(s) \in Nat /\ DOMAIN Ids(s) = 1..Len(s)
         /\ \A i \in 1..Len(s) : Ids(s)[i] = container_of(s[i])
         /\ Ids(s) \in Seq({ container_of(c) : c \in Links })
<1>1. Len(s) \in Nat /\ \A i \in 1..Len(s) : s[i] \in Links
  OBVIOUS
<1>2. Ids(s) \in [1..Len(s) -> { container_of(c) : c \in Links }]
  BY <1>1 DEF Ids
<1> QED BY <1>1, <1>2 DEF Ids

LEMMA IdsAppend ==
  ASSUME NEW s \in Seq(Links), NEW c \in Links
  PROVE  Ids(Append(s, c)) = Append(Ids(s), container_of(c))
<1>1. Len(s) \in Nat
  OBVIOUS
<1> QED BY <1>1 DEF Ids

LEMMA IdsPush ==
  ASSUME NEW s \in Seq(Links), NEW c \in Links
  PROVE  Ids(<<c>> \o s) = <<container_of(c)>> \o Ids(s)
<1>1. Len(s) \in Nat
  OBVIOUS
<1> QED BY <1>1 DEF Ids

LEMMA IdsRemoveAt ==
  ASSUME NEW s \in Seq(Links), NEW j \in 1..Len(s)
  PROVE  Ids(RemoveAt(s, j)) = RemoveAt(Ids(s), j)
<1> DEFINE S == { container_of(c) : c \in Links }
<1>1. Ids(s) \in Seq(S) /\ Len(Ids(s)) = Len(s) /\ Len(s) \in Nat
  BY IdsParts
<1> HIDE DEF S
<1>2. /\ RemoveAt(s, j) \in Seq(Links) /\ Len(RemoveAt(s, j)) = Len(s) - 1
      /\ \A i \in 1..(Len(s) - 1) : RemoveAt(s, j)[i] = IF i < j THEN s[i] ELSE s[i + 1]
  BY RemoveAtIs
<1>3. /\ RemoveAt(Ids(s), j) \in Seq(S) /\ Len(RemoveAt(Ids(s), j)) = Len(s) - 1
      /\ \A i \in 1..(Len(s) - 1) :
           RemoveAt(Ids(s), j)[i] = IF i < j THEN Ids(s)[i] ELSE Ids(s)[i + 1]
  BY <1>1, RemoveAtIs
<1>4. /\ Ids(RemoveAt(s, j)) \in Seq({ container_of(c) : c \in Links })
      /\ Len(Ids(RemoveAt(s, j))) = Len(s) - 1
      /\ \A i \in 1..(Len(s) - 1) : Ids(RemoveAt(s, j))[i] = container_of(RemoveAt(s, j)[i])
  BY <1>2, IdsParts
<1>5. \A i \in 1..Len(s) : Ids(s)[i] = container_of(s[i])
  BY IdsParts
<1>6. \A i \in 1..(Len(s) - 1) : Ids(RemoveAt(s, j))[i] = RemoveAt(Ids(s), j)[i]
  <2> SUFFICES ASSUME NEW i \in 1..(Len(s) - 1)
               PROVE  Ids(RemoveAt(s, j))[i] = RemoveAt(Ids(s), j)[i]
    OBVIOUS
  <2>1. i \in 1..Len(s) /\ i + 1 \in 1..Len(s)
    BY <1>1
  <2>2. CASE i < j
    BY <1>2, <1>3, <1>4, <1>5, <2>1, <2>2
  <2>3. CASE ~(i < j)
    BY <1>2, <1>3, <1>4, <1>5, <2>1, <2>3
  <2> QED BY <2>2, <2>3
<1> QED BY <1>1, <1>3, <1>4, <1>6, SeqEqual

\* taking a cell off the lists takes its descriptor off, when the cells of the
\* list are of one kind
LEMMA IdsCut ==
  ASSUME NEW m, WellLinked(m), NEW c \in Links, NEW h \in Heads,
         \A x \in Links : On(m, x, h) /\ container_of(x) = container_of(c) => x = c
  PROVE  Ids(Cut(m, c)[h]) = Api!unlink(Ids(Walks(m)[h]), container_of(c))
<1> DEFINE s == Walks(m)[h]
           S == { container_of(x) : x \in Links }
<1>1. /\ s \in Seq(Links) /\ Len(s) \in Nat /\ \A i \in 1..Len(s) : s[i] \in Links /\ On(m, s[i], h)
      /\ \A i, j \in 1..Len(s) : s[i] = s[j] => i = j
  BY WalkParts DEF On
<1>2. /\ Ids(s) \in Seq(S) /\ Len(Ids(s)) = Len(s)
      /\ \A i \in 1..Len(s) : Ids(s)[i] = container_of(s[i])
  BY <1>1, IdsParts
<1>3. \A i \in 1..Len(s) : Ids(s)[i] = container_of(c) => s[i] = c
  BY <1>1, <1>2
<1>4. CASE ~On(m, c, h)
  <2>1. \A i \in 1..Len(Ids(s)) : Ids(s)[i] # container_of(c)
    BY <1>2, <1>3, <1>4 DEF On
  <2>2. Cut(m, c)[h] = s
    BY <1>4, CutParts
  <2> HIDE DEF s, S
  <2>3. Api!unlink(Ids(s), container_of(c)) = Ids(s)
    BY <1>2, <2>1, UnlinkAbsent
  <2> QED BY <2>2, <2>3 DEF s
<1>5. CASE On(m, c, h)
  <2>1. PICK j \in 1..Len(s) : s[j] = c
    BY <1>5 DEF On
  <2>2. Cut(m, c)[h] = RemoveAt(s, j)
    BY <2>1, CutParts
  <2>3. /\ j \in 1..Len(Ids(s)) /\ Ids(s)[j] = container_of(c)
        /\ \A i \in 1..Len(Ids(s)) : Ids(s)[i] = Ids(s)[j] => i = j
    BY <1>1, <1>2, <1>3, <2>1
  <2> HIDE DEF s, S
  <2>4. Api!unlink(Ids(s), Ids(s)[j]) = RemoveAt(Ids(s), j)
    BY <1>2, <2>3, UnlinkIs
  <2>5. Ids(RemoveAt(s, j)) = RemoveAt(Ids(s), j)
    BY <1>1, IdsRemoveAt
  <2> QED BY <2>2, <2>3, <2>4, <2>5 DEF s
<1> QED BY <1>4, <1>5

LEMMA RemoveAtFirst ==
  ASSUME NEW S, NEW s \in Seq(S), s # <<>>
  PROVE  RemoveAt(s, 1) = Tail(s) /\ Head(s) = s[1] /\ 1 \in 1..Len(s)
<1>1. Len(s) \in Nat /\ 1 \in 1..Len(s)
  OBVIOUS
<1>2. /\ RemoveAt(s, 1) \in Seq(S) /\ Len(RemoveAt(s, 1)) = Len(s) - 1
      /\ \A i \in 1..(Len(s) - 1) : RemoveAt(s, 1)[i] = IF i < 1 THEN s[i] ELSE s[i + 1]
  BY <1>1, RemoveAtIs
<1>3. /\ Tail(s) \in Seq(S) /\ Len(Tail(s)) = Len(s) - 1
      /\ \A i \in 1..(Len(s) - 1) : Tail(s)[i] = s[i + 1]
  BY <1>1
<1>4. \A i \in 1..(Len(s) - 1) : RemoveAt(s, 1)[i] = Tail(s)[i]
  BY <1>2, <1>3
<1> DEFINE r == RemoveAt(s, 1)
           q == Tail(s)
<1>5. /\ r \in Seq(S) /\ q \in Seq(S) /\ Len(r) = Len(q)
      /\ \A i \in 1..Len(r) : r[i] = q[i]
  BY <1>2, <1>3, <1>4
<1> HIDE DEF r, q
<1>6. r = q
  BY <1>5, SeqEqual
<1>7. Head(s) = s[1]
  BY HeadTailProperties
<1>8. RemoveAt(s, 1) = Tail(s)
  BY <1>6 DEF r, q
<1> QED BY <1>1, <1>7, <1>8

-----------------------------------------------------------------------------
(* The inductive invariant: every descriptor is on the list that its fields *)
(* say, a message on some queue or free.                                    *)

proc_home(p)   == IF p_parent[p] = NULL THEN free_processes ELSE children_of(p_parent[p])
thread_home(t) == IF t_pcb[t] = NULL THEN free_threads ELSE threads_of(t_pcb[t])

FieldTypes ==
  /\ p_parent \in [Proc -> Proc \cup {NULL}] /\ p_parent[root] = NULL
  /\ t_pcb \in [Tcb -> Proc \cup {NULL}]
  /\ m_sender \in [Message -> Tcb \cup {NULL}]
  /\ m_value \in [Message -> Values \cup {NULL}]

Homes ==
  /\ \A p \in Proc \ {root} : On(mem, p_siblings(p), proc_home(p))
  /\ \A t \in Tcb : On(mem, t_next(t), thread_home(t))
  /\ \A i \in Message : \E h \in MsgHeads : On(mem, m_next(i), h)

PInv == FieldTypes /\ WellLinked(mem) /\ Homes

LEMMA HomesAreHeads ==
  ASSUME FieldTypes
  PROVE  /\ \A p \in Proc : proc_home(p) \in ProcHeads /\ proc_home(p) \in Heads
         /\ \A t \in Tcb : thread_home(t) \in ThreadHeads /\ thread_home(t) \in Heads
BY HeadsByKind DEF FieldTypes, proc_home, thread_home, ProcHeads, ThreadHeads

\* what is linked into a list of processes is a process, of threads a thread...
LEMMA ListsByKind ==
  ASSUME PInv, NEW c \in Links, NEW h \in Heads, On(mem, c, h)
  PROVE  /\ h \in ProcHeads   => \E p \in Proc \ {root} : c = p_siblings(p) /\ h = proc_home(p)
         /\ h \in ThreadHeads => \E t \in Tcb : c = t_next(t) /\ h = thread_home(t)
         /\ h \in MsgHeads    => \E i \in Message : c = m_next(i)
<1>1. \A g \in Heads : On(mem, c, g) => g = h
  BY WalkParts DEF PInv
<1>2. CASE \E p \in Proc \ {root} : c = p_siblings(p)
  <2>1. PICK p \in Proc \ {root} : c = p_siblings(p)
    BY <1>2
  <2>2. On(mem, c, proc_home(p)) /\ proc_home(p) \in ProcHeads /\ proc_home(p) \in Heads
    BY <2>1, HomesAreHeads DEF PInv, Homes
  <2>3. h = proc_home(p)
    BY <1>1, <2>2
  <2> QED BY <2>1, <2>2, <2>3, HeadsByKind
<1>3. CASE \E t \in Tcb : c = t_next(t)
  <2>1. PICK t \in Tcb : c = t_next(t)
    BY <1>3
  <2>2. On(mem, c, thread_home(t)) /\ thread_home(t) \in ThreadHeads /\ thread_home(t) \in Heads
    BY <2>1, HomesAreHeads DEF PInv, Homes
  <2>3. h = thread_home(t)
    BY <1>1, <2>2
  <2> QED BY <2>1, <2>2, <2>3, HeadsByKind
<1>4. CASE \E i \in Message : c = m_next(i)
  <2>1. PICK i \in Message : c = m_next(i)
    BY <1>4
  <2>2. PICK g \in MsgHeads : On(mem, c, g)
    BY <2>1 DEF PInv, Homes
  <2>3. g \in Heads
    BY HeadsByKind
  <2>4. h \in MsgHeads
    BY <1>1, <2>2, <2>3
  <2> QED BY <2>1, <2>4, HeadsByKind
<1> QED BY <1>2, <1>3, <1>4 DEF Links

\* the cells of one list have different descriptors
LEMMA IdsApart ==
  ASSUME PInv, NEW h \in Heads, NEW c \in Links, NEW x \in Links, On(mem, x, h),
         container_of(x) = container_of(c),
         \/ h \in ProcHeads   /\ \E p \in Proc : c = p_siblings(p)
         \/ h \in ThreadHeads /\ \E t \in Tcb : c = t_next(t)
         \/ h \in MsgHeads    /\ \E i \in Message : c = m_next(i)
  PROVE  x = c
BY ListsByKind, LinksByKind

LEMMA PInvInit ==
  ASSUME PointersInit
  PROVE  PInv
<1>1. FieldTypes
  BY PointersAssumption DEF PointersInit, FieldTypes, Proc, root
<1>2. WellLinked(mem) /\ Walks(mem) = InitLists
  BY InitLinked
<1>3. /\ free_processes \in Heads /\ free_threads \in Heads /\ free_messages \in Heads
      /\ free_processes # free_threads /\ free_processes # free_messages
      /\ free_threads # free_messages /\ free_messages \in MsgHeads
  BY HeadsByKind DEF ProcHeads, ThreadHeads, MsgHeads
<1>4. /\ Walks(mem)[free_processes] = ProcCells
      /\ Walks(mem)[free_threads] = ThreadCells
      /\ Walks(mem)[free_messages] = [k \in 1..MAXMSG |-> MessageCells[MAXMSG + 1 - k]]
  BY <1>2, <1>3 DEF InitLists
<1>5. MAXPROC \in Nat /\ MAXTHREAD \in Nat /\ MAXMSG \in Nat
  BY PointersAssumption
<1>6. ASSUME NEW p \in Proc \ {root} PROVE On(mem, p_siblings(p), proc_home(p))
  <2>1. proc_home(p) = free_processes
    BY DEF PointersInit, proc_home
  <2>2. p \in 1..Len(ProcCells) /\ ProcCells[p] = p_siblings(p)
    BY <1>5, TableCells DEF Proc, root
  <2> QED BY <1>4, <2>1, <2>2 DEF On
<1>7. ASSUME NEW t \in Tcb PROVE On(mem, t_next(t), thread_home(t))
  <2>1. thread_home(t) = free_threads
    BY DEF PointersInit, thread_home
  <2>2. t \in 1..Len(ThreadCells) /\ ThreadCells[t] = t_next(t)
    BY <1>5, TableCells DEF Tcb
  <2> QED BY <1>4, <2>1, <2>2 DEF On
<1>8. ASSUME NEW i \in Message PROVE On(mem, m_next(i), free_messages)
  <2> DEFINE w == [k \in 1..MAXMSG |-> MessageCells[MAXMSG + 1 - k]]
             k == MAXMSG + 1 - i
  <2>1. k \in 1..MAXMSG /\ MAXMSG + 1 - k = i /\ MessageCells[i] = m_next(i) /\ Len(w) = MAXMSG
    BY <1>5, TableCells DEF Message
  <2>2. w[k] = m_next(i)
    BY <2>1
  <2> HIDE DEF k
  <2> QED BY <1>4, <2>1, <2>2 DEF On
<1>9. Homes
  BY <1>3, <1>6, <1>7, <1>8 DEF Homes
<1> QED BY <1>1, <1>2, <1>9 DEF PInv

-----------------------------------------------------------------------------
(* What a call does to the lists.                                           *)

\* c is linked into h, at its tail or in front
Linked(c, h) ==
  \/ mem' = Moved(c, h)
  \/ mem' = list_add(list_del(mem, c), c, h)

OfKind(c, d) ==
  \/ d \in ProcHeads   /\ \E p \in Proc : c = p_siblings(p)
  \/ d \in ThreadHeads /\ \E t \in Tcb : c = t_next(t)
  \/ d \in MsgHeads    /\ \E i \in Message : c = m_next(i)

LEMMA LinkedStep ==
  ASSUME PInv, NEW c \in Links, NEW h \in Heads, Linked(c, h)
  PROVE  /\ WellLinked(mem')
         /\ \A x \in Links, d \in Heads : On(mem', x, d) <=> IF x = c THEN d = h ELSE On(mem, x, d)
<1>1. WellLinked(mem)
  BY DEF PInv
<1>2. CASE mem' = list_add_tail(list_del(mem, c), c, h)
  <2>1. /\ WellLinked(mem')
        /\ Walks(mem') = [Cut(mem, c) EXCEPT ![h] = Append(Cut(mem, c)[h], c)]
    BY <1>1, <1>2, MovedLists
  <2>2. ASSUME NEW x \in Links, NEW d \in Heads
        PROVE  On(mem', x, d) <=> IF x = c THEN d = h ELSE On(mem, x, d)
    <3>1. PICK n : n = mem'
      OBVIOUS
    <3>2. \/ Walks(n) = [Cut(mem, c) EXCEPT ![h] = Append(Cut(mem, c)[h], c)]
          \/ Walks(n) = [Cut(mem, c) EXCEPT ![h] = <<c>> \o Cut(mem, c)[h]]
      BY <2>1, <3>1
    <3>3. On(n, x, d) <=> IF x = c THEN d = h ELSE On(mem, x, d)
      BY <1>1, <3>2, OnMoved
    <3> QED BY <3>1, <3>3
  <2> QED BY <2>1, <2>2
<1>3. CASE mem' = list_add(list_del(mem, c), c, h)
  <2>1. /\ WellLinked(mem')
        /\ Walks(mem') = [Cut(mem, c) EXCEPT ![h] = <<c>> \o Cut(mem, c)[h]]
    BY <1>1, <1>3, PushedLists
  <2>2. ASSUME NEW x \in Links, NEW d \in Heads
        PROVE  On(mem', x, d) <=> IF x = c THEN d = h ELSE On(mem, x, d)
    <3>1. PICK n : n = mem'
      OBVIOUS
    <3>2. \/ Walks(n) = [Cut(mem, c) EXCEPT ![h] = Append(Cut(mem, c)[h], c)]
          \/ Walks(n) = [Cut(mem, c) EXCEPT ![h] = <<c>> \o Cut(mem, c)[h]]
      BY <2>1, <3>1
    <3>3. On(n, x, d) <=> IF x = c THEN d = h ELSE On(mem, x, d)
      BY <1>1, <3>2, OnMoved
    <3> QED BY <3>1, <3>3
  <2> QED BY <2>1, <2>2
<1> QED BY <1>2, <1>3 DEF Linked, Moved

\* the lists other than the new one lose the descriptor
LEMMA ListsLinked ==
  ASSUME PInv, NEW c \in Links, NEW h \in Heads, Linked(c, h), NEW d \in Heads, d # h
  PROVE  /\ ~On(mem, c, d) => List(d)' = List(d)
         /\ OfKind(c, d) => List(d)' = Api!unlink(List(d), container_of(c))
         /\ \A j \in 1..Len(Walks(mem)[d]) :
              Walks(mem)[d][j] = c => List(d)' = RemoveAt(List(d), j)
         /\ On(mem, c, d) => Len(List(d)') = Len(List(d)) - 1
<1>1. WellLinked(mem) /\ WellLinked(mem')
  BY LinkedStep DEF PInv
<1>2. Walks(mem')[d] = Cut(mem, c)[d]
  <2>1. CASE mem' = list_add_tail(list_del(mem, c), c, h)
    <3>1. Walks(mem') = [Cut(mem, c) EXCEPT ![h] = Append(Cut(mem, c)[h], c)]
      BY <1>1, <2>1, MovedLists
    <3> QED BY <3>1 DEF Cut
  <2>2. CASE mem' = list_add(list_del(mem, c), c, h)
    <3>1. Walks(mem') = [Cut(mem, c) EXCEPT ![h] = <<c>> \o Cut(mem, c)[h]]
      BY <1>1, <2>2, PushedLists
    <3> QED BY <3>1 DEF Cut
  <2> QED BY <2>1, <2>2 DEF Linked, Moved
<1>3. /\ List(d) = Ids(Walks(mem)[d]) /\ List(d)' = Ids(Cut(mem, c)[d])
      /\ Len(List(d)) = Len(Walks(mem)[d]) /\ Len(List(d)') = Len(Cut(mem, c)[d])
  BY <1>1, <1>2, ListIs, ListIsThen
<1>4. ~On(mem, c, d) => List(d)' = List(d)
  BY <1>1, <1>3, CutParts
<1>5. ASSUME OfKind(c, d) PROVE List(d)' = Api!unlink(List(d), container_of(c))
  <2>1. \A x \in Links : On(mem, x, d) /\ container_of(x) = container_of(c) => x = c
    BY <1>5, IdsApart DEF OfKind
  <2> QED BY <1>1, <1>3, <2>1, IdsCut
<1>6. ASSUME NEW j \in 1..Len(Walks(mem)[d]), Walks(mem)[d][j] = c
      PROVE  List(d)' = RemoveAt(List(d), j)
  <2>1. Cut(mem, c)[d] = RemoveAt(Walks(mem)[d], j) /\ Walks(mem)[d] \in Seq(Links)
    BY <1>1, <1>6, CutParts, WalkParts
  <2> QED BY <1>3, <2>1, IdsRemoveAt
<1>7. On(mem, c, d) => Len(List(d)') = Len(List(d)) - 1
  BY <1>1, <1>3, CutParts
<1> QED BY <1>4, <1>5, <1>6, <1>7

\* the new one gains it, having lost it if it was there
LEMMA ListGains ==
  ASSUME PInv, NEW c \in Links, NEW h \in Heads
  PROVE  /\ mem' = Moved(c, h) =>
              /\ ~On(mem, c, h) => List(h)' = Append(List(h), container_of(c))
              /\ OfKind(c, h) => List(h)' = Append(Api!unlink(List(h), container_of(c)), container_of(c))
         /\ mem' = list_add(list_del(mem, c), c, h) =>
              (~On(mem, c, h) => List(h)' = <<container_of(c)>> \o List(h))
         /\ Linked(c, h) /\ ~On(mem, c, h) => Len(List(h)') = Len(List(h)) + 1
<1>1. WellLinked(mem)
  BY DEF PInv
<1>2. /\ List(h) = Ids(Walks(mem)[h]) /\ Len(List(h)) = Len(Walks(mem)[h])
      /\ Cut(mem, c)[h] \in Seq(Links)
      /\ ~On(mem, c, h) => Cut(mem, c)[h] = Walks(mem)[h]
  BY <1>1, ListIs, CutParts
<1>3. ASSUME mem' = Moved(c, h)
      PROVE  /\ ~On(mem, c, h) => List(h)' = Append(List(h), container_of(c))
             /\ OfKind(c, h) => List(h)' = Append(Api!unlink(List(h), container_of(c)), container_of(c))
             /\ Len(List(h)') = Len(Cut(mem, c)[h]) + 1
  <2>1. /\ WellLinked(mem')
        /\ Walks(mem') = [Cut(mem, c) EXCEPT ![h] = Append(Cut(mem, c)[h], c)]
    BY <1>1, <1>3, MovedLists DEF Moved
  <2>2. Walks(mem')[h] = Append(Cut(mem, c)[h], c)
    BY <2>1 DEF Cut
  <2>3. /\ List(h)' = Append(Ids(Cut(mem, c)[h]), container_of(c))
        /\ Len(List(h)') = Len(Cut(mem, c)[h]) + 1
    BY <1>2, <2>1, <2>2, ListIsThen, IdsAppend
  <2>4. ASSUME OfKind(c, h) PROVE Ids(Cut(mem, c)[h]) = Api!unlink(List(h), container_of(c))
    <3>1. \A x \in Links : On(mem, x, h) /\ container_of(x) = container_of(c) => x = c
      BY <2>4, IdsApart DEF OfKind
    <3> QED BY <1>1, <1>2, <3>1, IdsCut
  <2> QED BY <1>2, <2>3, <2>4
<1>4. ASSUME mem' = list_add(list_del(mem, c), c, h)
      PROVE  /\ ~On(mem, c, h) => List(h)' = <<container_of(c)>> \o List(h)
             /\ Len(List(h)') = Len(Cut(mem, c)[h]) + 1
  <2>1. /\ WellLinked(mem')
        /\ Walks(mem') = [Cut(mem, c) EXCEPT ![h] = <<c>> \o Cut(mem, c)[h]]
    BY <1>1, <1>4, PushedLists
  <2>2. Walks(mem')[h] = <<c>> \o Cut(mem, c)[h]
    BY <2>1 DEF Cut
  <2>3. /\ List(h)' = <<container_of(c)>> \o Ids(Cut(mem, c)[h])
        /\ Len(List(h)') = Len(<<c>> \o Cut(mem, c)[h])
    BY <1>2, <2>1, <2>2, ListIsThen, IdsPush
  <2>4. Len(<<c>> \o Cut(mem, c)[h]) = Len(Cut(mem, c)[h]) + 1
    BY <1>2
  <2> QED BY <1>2, <2>3, <2>4
<1> QED BY <1>2, <1>3, <1>4 DEF Linked

\* list_next and list_empty
LEMMA ListNext ==
  ASSUME PInv, NEW h \in Heads
  PROVE  /\ list_empty(mem, h) <=> List(h) = <<>>
         /\ list_next(mem, h) = NULL <=> List(h) = <<>>
         /\ List(h) # <<>> =>
              /\ list_next(mem, h) \in Links /\ On(mem, list_next(mem, h), h)
              /\ 1 \in 1..Len(Walks(mem)[h]) /\ Walks(mem)[h][1] = list_next(mem, h)
              /\ container_of(list_next(mem, h)) = Head(List(h))
<1> DEFINE w == Walks(mem)[h]
<1>1. /\ WellLinked(mem) /\ w \in Seq(Links) /\ Len(w) \in Nat
      /\ List(h) = Ids(w) /\ Len(List(h)) = Len(w)
  BY WalkParts, ListIs DEF PInv
<1>2. mem.next[h] = At(h, w, 1)
  <2>1. Lists(mem, Walks(mem), Links) /\ 0 \in 0..Len(w)
    BY <1>1 DEF WellLinked
  <2>2. mem.next[At(h, w, 0)] = At(h, w, 0 + 1)
    BY <2>1, RingParts
  <2>3. At(h, w, 0) = h
    BY DEF At
  <2> QED BY <2>2, <2>3
<1> HIDE DEF w
<1>3. CASE w = <<>>
  <2>1. mem.next[h] = h
    BY <1>2, <1>3 DEF At
  <2>2. List(h) = <<>>
    BY <1>1, <1>3 DEF Ids
  <2> QED BY <2>1, <2>2 DEF list_empty, list_next
<1>4. CASE w # <<>>
  <2>1. 1 \in 1..Len(w) /\ w[1] \in Links /\ Len(w) # 0
    BY <1>1, <1>4
  <2>2. mem.next[h] = w[1] /\ w[1] # h /\ w[1] # NULL
    BY <1>2, <2>1, LinksAreNoHeads, LinkAssumption DEF At
  <2>3. list_next(mem, h) = w[1] /\ ~list_empty(mem, h)
    BY <2>2 DEF list_next, list_empty
  <2>4. List(h) # <<>> /\ Ids(w)[1] = container_of(w[1])
    BY <1>1, <2>1, IdsParts
  <2>5. Head(List(h)) = Ids(w)[1]
    <3>1. Ids(w) \in Seq({ container_of(c) : c \in Links })
      BY <1>1, IdsParts
    <3> QED BY <1>1, <2>4, <3>1, RemoveAtFirst
  <2>6. On(mem, w[1], h)
    BY <2>1 DEF On, w
  <2> QED BY <2>1, <2>2, <2>3, <2>4, <2>5, <2>6 DEF w
<1> QED BY <1>3, <1>4

-----------------------------------------------------------------------------
(* The invariant is inductive.                                              *)

LEMMA PInvStutters ==
  ASSUME PInv, UNCHANGED pointervars
  PROVE  PInv'
BY DEF PInv, FieldTypes, Homes, proc_home, thread_home, pointervars

\* a descriptor of each kind is linked into a list of its kind
LEMMA ProcMoves ==
  ASSUME PInv, NEW p \in Proc \ {root}, NEW q \in Proc \cup {NULL},
         Linked(p_siblings(p), IF q = NULL THEN free_processes ELSE children_of(q)),
         p_parent' = [p_parent EXCEPT ![p] = q], UNCHANGED <<links, t_pcb, m_sender, m_value>>
  PROVE  PInv'
<1> DEFINE c == p_siblings(p)
           h == IF q = NULL THEN free_processes ELSE children_of(q)
<1>1. c \in Links /\ h \in Heads
  BY HeadsByKind DEF Links, ProcHeads
<1>2. /\ WellLinked(mem')
      /\ \A x \in Links, d \in Heads : On(mem', x, d) <=> IF x = c THEN d = h ELSE On(mem, x, d)
  BY <1>1, LinkedStep
<1>3. FieldTypes'
  BY DEF PInv, FieldTypes
<1>4. ASSUME NEW r \in Proc \ {root} PROVE On(mem', p_siblings(r), proc_home(r)')
  <2>1. CASE r = p
    <3>1. proc_home(p)' = h
      BY DEF PInv, FieldTypes, proc_home
    <3> QED BY <1>1, <1>2, <2>1, <3>1
  <2>2. CASE r # p
    <3>1. proc_home(r)' = proc_home(r) /\ proc_home(r) \in Heads
      BY <2>2, HomesAreHeads DEF PInv, FieldTypes, proc_home
    <3>2. On(mem, p_siblings(r), proc_home(r)) /\ p_siblings(r) \in Links /\ p_siblings(r) # c
      BY <2>2, LinksByKind DEF PInv, Homes, Links
    <3> QED BY <1>2, <3>1, <3>2
  <2> QED BY <2>1, <2>2
<1>5. ASSUME NEW t \in Tcb PROVE On(mem', t_next(t), thread_home(t)')
  <2>1. thread_home(t)' = thread_home(t) /\ thread_home(t) \in Heads
    BY HomesAreHeads DEF PInv, thread_home
  <2>2. On(mem, t_next(t), thread_home(t)) /\ t_next(t) \in Links /\ t_next(t) # c
    BY LinksByKind DEF PInv, Homes, Links
  <2> QED BY <1>2, <2>1, <2>2
<1>6. ASSUME NEW i \in Message PROVE \E g \in MsgHeads : On(mem', m_next(i), g)
  <2>1. PICK g \in MsgHeads : On(mem, m_next(i), g)
    BY DEF PInv, Homes
  <2>2. g \in Heads /\ m_next(i) \in Links /\ m_next(i) # c
    BY LinksByKind, HeadsByKind DEF Links
  <2> QED BY <1>2, <2>1, <2>2
<1>7. Homes'
  BY <1>4, <1>5, <1>6 DEF Homes
<1> QED BY <1>2, <1>3, <1>7 DEF PInv

LEMMA ThreadMoves ==
  ASSUME PInv, NEW t \in Tcb, NEW q \in Proc \cup {NULL},
         Linked(t_next(t), IF q = NULL THEN free_threads ELSE threads_of(q)),
         t_pcb' = [t_pcb EXCEPT ![t] = q], UNCHANGED <<p_parent, m_sender, m_value>>
  PROVE  PInv'
<1> DEFINE c == t_next(t)
           h == IF q = NULL THEN free_threads ELSE threads_of(q)
<1>1. c \in Links /\ h \in Heads
  BY HeadsByKind DEF Links, ThreadHeads
<1>2. /\ WellLinked(mem')
      /\ \A x \in Links, d \in Heads : On(mem', x, d) <=> IF x = c THEN d = h ELSE On(mem, x, d)
  BY <1>1, LinkedStep
<1>3. FieldTypes'
  BY DEF PInv, FieldTypes
<1>4. ASSUME NEW r \in Proc \ {root} PROVE On(mem', p_siblings(r), proc_home(r)')
  <2>1. proc_home(r)' = proc_home(r) /\ proc_home(r) \in Heads
    BY HomesAreHeads DEF PInv, proc_home
  <2>2. On(mem, p_siblings(r), proc_home(r)) /\ p_siblings(r) \in Links /\ p_siblings(r) # c
    BY LinksByKind DEF PInv, Homes, Links
  <2> QED BY <1>2, <2>1, <2>2
<1>5. ASSUME NEW u \in Tcb PROVE On(mem', t_next(u), thread_home(u)')
  <2>1. CASE u = t
    <3>1. thread_home(t)' = h
      BY DEF PInv, FieldTypes, thread_home
    <3> QED BY <1>1, <1>2, <2>1, <3>1
  <2>2. CASE u # t
    <3>1. thread_home(u)' = thread_home(u) /\ thread_home(u) \in Heads
      BY <2>2, HomesAreHeads DEF PInv, FieldTypes, thread_home
    <3>2. On(mem, t_next(u), thread_home(u)) /\ t_next(u) \in Links /\ t_next(u) # c
      BY <2>2, LinksByKind DEF PInv, Homes, Links
    <3> QED BY <1>2, <3>1, <3>2
  <2> QED BY <2>1, <2>2
<1>6. ASSUME NEW i \in Message PROVE \E g \in MsgHeads : On(mem', m_next(i), g)
  <2>1. PICK g \in MsgHeads : On(mem, m_next(i), g)
    BY DEF PInv, Homes
  <2>2. g \in Heads /\ m_next(i) \in Links /\ m_next(i) # c
    BY LinksByKind, HeadsByKind DEF Links
  <2> QED BY <1>2, <2>1, <2>2
<1>7. Homes'
  BY <1>4, <1>5, <1>6 DEF Homes
<1> QED BY <1>2, <1>3, <1>7 DEF PInv

LEMMA MessageMoves ==
  ASSUME PInv, NEW i \in Message, NEW h \in MsgHeads, Linked(m_next(i), h),
         NEW s \in Tcb \cup {NULL}, NEW v \in Values \cup {NULL},
         m_sender' = [m_sender EXCEPT ![i] = s], m_value' = [m_value EXCEPT ![i] = v],
         UNCHANGED <<links, p_parent, t_pcb>>
  PROVE  PInv'
<1> DEFINE c == m_next(i)
<1>1. c \in Links /\ h \in Heads
  BY HeadsByKind DEF Links
<1>2. /\ WellLinked(mem')
      /\ \A x \in Links, d \in Heads : On(mem', x, d) <=> IF x = c THEN d = h ELSE On(mem, x, d)
  BY <1>1, LinkedStep
<1>3. FieldTypes'
  BY DEF PInv, FieldTypes
<1>4. ASSUME NEW r \in Proc \ {root} PROVE On(mem', p_siblings(r), proc_home(r)')
  <2>1. proc_home(r)' = proc_home(r) /\ proc_home(r) \in Heads
    BY HomesAreHeads DEF PInv, proc_home
  <2>2. On(mem, p_siblings(r), proc_home(r)) /\ p_siblings(r) \in Links /\ p_siblings(r) # c
    BY LinksByKind DEF PInv, Homes, Links
  <2> QED BY <1>2, <2>1, <2>2
<1>5. ASSUME NEW u \in Tcb PROVE On(mem', t_next(u), thread_home(u)')
  <2>1. thread_home(u)' = thread_home(u) /\ thread_home(u) \in Heads
    BY HomesAreHeads DEF PInv, thread_home
  <2>2. On(mem, t_next(u), thread_home(u)) /\ t_next(u) \in Links /\ t_next(u) # c
    BY LinksByKind DEF PInv, Homes, Links
  <2> QED BY <1>2, <2>1, <2>2
<1>6. ASSUME NEW j \in Message PROVE \E g \in MsgHeads : On(mem', m_next(j), g)
  <2>1. CASE j = i
    BY <1>1, <1>2, <2>1
  <2>2. CASE j # i
    <3>1. PICK g \in MsgHeads : On(mem, m_next(j), g)
      BY DEF PInv, Homes
    <3>2. g \in Heads /\ m_next(j) \in Links /\ m_next(j) # c
      BY <2>2, LinksByKind, HeadsByKind DEF Links
    <3> QED BY <1>2, <3>1, <3>2
  <2> QED BY <2>1, <2>2
<1>7. Homes'
  BY <1>4, <1>5, <1>6 DEF Homes
<1> QED BY <1>2, <1>3, <1>7 DEF PInv

-----------------------------------------------------------------------------
(* Every call is a call of Descriptors.                                     *)

LEMMA StuttersIs ==
  ASSUME UNCHANGED pointervars
  PROVE  UNCHANGED Api!mikabooqvars
BY DEF pointervars, Api!mikabooqvars, Api!threadvars, Api!msgvars, Api!procvars,
       List, Cells, MessageAt

\* the lists that a cell neither leaves nor joins
LEMMA ListsKept ==
  ASSUME PInv, NEW c \in Links, NEW h \in Heads, Linked(c, h), NEW g \in Heads, On(mem, c, g),
         NEW d \in Heads, d # g, d # h
  PROVE  List(d)' = List(d)
<1>1. ~On(mem, c, d)
  BY WalkParts DEF PInv
<1> QED BY <1>1, ListsLinked

LEMMA ListIsSeq ==
  ASSUME PInv, NEW h \in Heads
  PROVE  List(h) \in Seq({ container_of(c) : c \in Links })
BY ListIs, IdsParts, WalkParts DEF PInv

\* the head of a list leaves it
LEMMA FirstLeaves ==
  ASSUME PInv, NEW g \in Heads, List(g) # <<>>, NEW h \in Heads, h # g, Linked(list_next(mem, g), h)
  PROVE  List(g)' = Tail(List(g))
<1> DEFINE c == list_next(mem, g)
<1>1. c \in Links /\ On(mem, c, g) /\ 1 \in 1..Len(Walks(mem)[g]) /\ Walks(mem)[g][1] = c
  BY ListNext
<1>2. List(g)' = RemoveAt(List(g), 1)
  BY <1>1, ListsLinked
<1>3. RemoveAt(List(g), 1) = Tail(List(g))
  BY ListIsSeq, RemoveAtFirst
<1> QED BY <1>2, <1>3

LEMMA FreeHeads ==
  /\ free_processes \in ProcHeads /\ \A p \in Proc : children_of(p) \in ProcHeads
  /\ free_threads \in ThreadHeads /\ \A p \in Proc : threads_of(p) \in ThreadHeads
  /\ free_messages \in MsgHeads /\ \A t \in Tcb : msgs_of(t) \in MsgHeads
  /\ ProcHeads \subseteq Heads /\ ThreadHeads \subseteq Heads /\ MsgHeads \subseteq Heads
BY HeadsByKind DEF ProcHeads, ThreadHeads, MsgHeads

LEMMA ProcAllocIs ==
  ASSUME PInv, NEW parent \in Proc \cup {NULL}, ProcAlloc(parent)
  PROVE  PInv' /\ Api!ProcAlloc(parent)
<1> DEFINE c == list_next(mem, free_processes)
           free == List(free_processes)
<1>0. free_processes \in Heads
  BY FreeHeads
<1>1. c = NULL <=> free = <<>>
  BY <1>0, ListNext
<1>2. CASE c = NULL \/ parent = NULL
  <2>1. last' = <<"proc_alloc", NULL>> /\ UNCHANGED pointervars
    BY <1>2 DEF ProcAlloc
  <2>2. UNCHANGED Api!mikabooqvars /\ PInv'
    BY <2>1, StuttersIs, PInvStutters
  <2>3. Api!proc_alloc_fails(parent)
    BY <1>1, <1>2 DEF Api!proc_alloc_fails
  <2> QED
    BY <2>1, <2>2, <2>3 DEF Api!ProcAlloc, Api!mikabooqvars, Api!procpart, Api!threadpart
<1>3. CASE c # NULL /\ parent # NULL
  <2> DEFINE h == children_of(parent)
  <2>1. /\ free # <<>> /\ c \in Links /\ On(mem, c, free_processes) /\ container_of(c) = Head(free)
        /\ parent \in Proc /\ h \in Heads /\ h # free_processes
    BY <1>0, <1>1, <1>3, ListNext, FreeHeads, HeadsByKind
  <2>2. PICK p \in Proc \ {root} : c = p_siblings(p) /\ container_of(c) = p
    BY <1>0, <2>1, ListsByKind, LinksByKind, FreeHeads
  <2>3. /\ mem' = Moved(c, h) /\ Linked(c, h)
        /\ p_parent' = [p_parent EXCEPT ![p] = parent]
        /\ last' = <<"proc_alloc", p>>
        /\ UNCHANGED <<links, t_pcb, m_sender, m_value>>
    BY <1>3, <2>2 DEF ProcAlloc, Linked
  <2>4. PInv'
    BY <2>1, <2>2, <2>3, ProcMoves, PointersAssumption DEF Proc
  <2>5. free' = Tail(free)
    BY <1>0, <2>1, <2>3, FirstLeaves
  <2>6. ~On(mem, c, h)
    BY <1>0, <2>1, WalkParts DEF PInv
  <2>7. List(h)' = Append(List(h), p)
    BY <2>1, <2>2, <2>3, <2>6, ListGains
  <2>8. \A d \in Heads \ {free_processes, h} : List(d)' = List(d)
    BY <1>0, <2>1, <2>3, ListsKept
  <2>9. /\ \A q \in Proc : q # parent => List(children_of(q))' = List(children_of(q))
        /\ \A q \in Proc : List(threads_of(q))' = List(threads_of(q))
        /\ \A t \in Tcb : List(msgs_of(t))' = List(msgs_of(t))
        /\ List(free_threads)' = List(free_threads)
        /\ List(free_messages)' = List(free_messages)
    BY <2>1, <2>8, FreeHeads, HeadsByKind
  <2> HIDE DEF c, free
  <2>10. Api!proc_alloc(parent)
    BY <2>1, <2>2, <2>3, <2>5, <2>7, <2>9 DEF Api!proc_alloc, free
  <2>11. UNCHANGED <<Api!threadpart, Api!msgvars>>
    BY <2>3, <2>9 DEF Api!threadpart, Api!msgvars, Api!threadvars, MessageAt
  <2>12. ~Api!proc_alloc_fails(parent)
    BY <2>1, <1>3 DEF Api!proc_alloc_fails, free
  <2> QED
    BY <2>1, <2>2, <2>3, <2>4, <2>10, <2>11, <2>12 DEF Api!ProcAlloc, free
<1> QED BY <1>2, <1>3

LEMMA ProcDeleteIs ==
  ASSUME PInv, NEW old \in Proc, ProcDelete(old)
  PROVE  PInv' /\ Api!ProcDelete(old)
<1> DEFINE fails == \/ p_parent[old] = NULL
                    \/ ~list_empty(mem, children_of(old)) \/ ~list_empty(mem, threads_of(old))
<1>1. Api!proc_delete_fails(old) <=> fails
  BY ListNext, FreeHeads DEF Api!proc_delete_fails
<1>2. CASE fails
  <2>1. last' = <<"proc_delete", -1>> /\ UNCHANGED pointervars
    BY <1>2 DEF ProcDelete
  <2>2. UNCHANGED Api!mikabooqvars /\ PInv'
    BY <2>1, StuttersIs, PInvStutters
  <2> QED
    BY <1>1, <1>2, <2>1, <2>2
       DEF Api!ProcDelete, Api!proc_delete, Api!mikabooqvars, Api!threadpart
<1>3. CASE ~fails
  <2>1. PICK parent \in Proc : parent = p_parent[old] /\ parent # NULL /\ old \in Proc \ {root}
    BY <1>3 DEF PInv, FieldTypes
  <2> DEFINE c == p_siblings(old)
             g == children_of(parent)
             h == free_processes
  <2>2. /\ c \in Links /\ g \in Heads /\ h \in Heads /\ g # h /\ On(mem, c, g)
        /\ container_of(c) = old /\ OfKind(c, g)
    BY <2>1, FreeHeads, HeadsByKind, LinksByKind DEF Links, PInv, Homes, proc_home, OfKind
  <2>3. /\ mem' = Moved(c, h) /\ Linked(c, h)
        /\ p_parent' = [p_parent EXCEPT ![old] = NULL]
        /\ last' = <<"proc_delete", 0>>
        /\ UNCHANGED <<links, t_pcb, m_sender, m_value>>
    BY <1>3 DEF ProcDelete, Linked
  <2>4. PInv'
    BY <2>1, <2>3, ProcMoves
  <2>5. List(g)' = Api!unlink(List(g), old)
    <3> HIDE DEF c, g, h
    <3>1. List(g)' = Api!unlink(List(g), container_of(c))
      BY <2>2, <2>3, ListsLinked
    <3> QED BY <2>2, <3>1
  <2>6. ~On(mem, c, h)
    BY <2>2, WalkParts DEF PInv
  <2>7. List(h)' = Append(List(h), old)
    BY <2>2, <2>3, <2>6, ListGains
  <2>8. \A d \in Heads \ {g, h} : List(d)' = List(d)
    BY <2>2, <2>3, ListsKept
  <2>9. /\ \A q \in Proc : q # parent => List(children_of(q))' = List(children_of(q))
        /\ \A q \in Proc : List(threads_of(q))' = List(threads_of(q))
        /\ \A t \in Tcb : List(msgs_of(t))' = List(msgs_of(t))
        /\ List(free_threads)' = List(free_threads)
        /\ List(free_messages)' = List(free_messages)
    <3>1. \A q \in Proc : q # parent => children_of(q) \in Heads \ {g, h}
      BY <2>1, FreeHeads, HeadsByKind
    <3>2. /\ \A q \in Proc : threads_of(q) \in Heads \ {g, h}
          /\ \A t \in Tcb : msgs_of(t) \in Heads \ {g, h}
          /\ free_threads \in Heads \ {g, h} /\ free_messages \in Heads \ {g, h}
      BY <2>1, FreeHeads, HeadsByKind
    <3> HIDE DEF g, h
    <3> QED BY <2>8, <3>1, <3>2
  <2>10. Api!proc_delete(old)
    <3>1. ~Api!proc_delete_fails(old)
      BY <1>1, <1>3
    <3>2. /\ List(children_of(parent))' = Api!unlink(List(children_of(parent)), old)
          /\ List(free_processes)' = Append(List(free_processes), old)
      BY <2>5, <2>7
    <3> HIDE DEF fails, g, h, c
    <3>3. [p \in Proc |-> List(children_of(p))]'
            = [[p \in Proc |-> List(children_of(p))] EXCEPT
                 ![parent] = Api!unlink(List(children_of(parent)), old)]
      BY <2>1, <2>9, <3>2
    <3>4. [p \in Proc |-> [k \in {"pgm_mgr", "tlb_mgr", "sys_mgr"} |-> NULL]]
            = [[p \in Proc |-> [k \in {"pgm_mgr", "tlb_mgr", "sys_mgr"} |-> NULL]] EXCEPT
                 ![old] = [k \in {"pgm_mgr", "tlb_mgr", "sys_mgr"} |-> NULL]]
      OBVIOUS
    <3> QED
      BY <2>1, <2>3, <3>1, <3>2, <3>3, <3>4 DEF Api!proc_delete, Api!clean_mgr, Api!Mgr
  <2>11. UNCHANGED <<Api!threadpart, Api!msgvars>>
    BY <2>3, <2>9 DEF Api!threadpart, Api!msgvars, Api!threadvars, MessageAt
  <2> QED
    BY <1>1, <1>3, <2>3, <2>4, <2>10, <2>11 DEF Api!ProcDelete
<1> QED BY <1>2, <1>3

LEMMA ThreadAllocIs ==
  ASSUME PInv, NEW process \in Proc \cup {NULL}, ThreadAlloc(process)
  PROVE  PInv' /\ Api!ThreadAlloc(process)
<1> DEFINE c == list_next(mem, free_threads)
           free == List(free_threads)
<1>0. free_threads \in Heads
  BY FreeHeads
<1>1. c = NULL <=> free = <<>>
  BY <1>0, ListNext
<1>2. CASE c = NULL \/ process = NULL
  <2>1. last' = <<"thread_alloc", NULL>> /\ UNCHANGED pointervars
    BY <1>2 DEF ThreadAlloc
  <2>2. UNCHANGED Api!mikabooqvars /\ PInv'
    BY <2>1, StuttersIs, PInvStutters
  <2>3. Api!thread_alloc_fails(process)
    BY <1>1, <1>2 DEF Api!thread_alloc_fails
  <2> QED
    BY <2>1, <2>2, <2>3 DEF Api!ThreadAlloc, Api!mikabooqvars, Api!procpart, Api!threadpart
<1>3. CASE c # NULL /\ process # NULL
  <2> DEFINE h == threads_of(process)
  <2>1. /\ free # <<>> /\ c \in Links /\ On(mem, c, free_threads) /\ container_of(c) = Head(free)
        /\ process \in Proc /\ h \in Heads /\ h # free_threads
    BY <1>0, <1>1, <1>3, ListNext, FreeHeads, HeadsByKind
  <2>2. PICK t \in Tcb : c = t_next(t) /\ container_of(c) = t
    BY <1>0, <2>1, ListsByKind, LinksByKind, FreeHeads
  <2>3. /\ mem' = Moved(c, h) /\ Linked(c, h)
        /\ t_pcb' = [t_pcb EXCEPT ![t] = process]
        /\ last' = <<"thread_alloc", t>>
        /\ UNCHANGED <<links, p_parent, m_sender, m_value>>
    BY <1>3, <2>2 DEF ThreadAlloc, Linked
  <2>4. PInv'
    BY <1>3, <2>1, <2>2, <2>3, ThreadMoves
  <2>5. free' = Tail(free)
    BY <1>0, <2>1, <2>3, FirstLeaves
  <2>6. ~On(mem, c, h)
    BY <1>0, <2>1, WalkParts DEF PInv
  <2>7. List(h)' = Append(List(h), t)
    BY <2>1, <2>2, <2>3, <2>6, ListGains
  <2>8. \A d \in Heads \ {free_threads, h} : List(d)' = List(d)
    BY <1>0, <2>1, <2>3, ListsKept
  <2>9. /\ \A q \in Proc : q # process => List(threads_of(q))' = List(threads_of(q))
        /\ \A q \in Proc : List(children_of(q))' = List(children_of(q))
        /\ \A u \in Tcb : List(msgs_of(u))' = List(msgs_of(u))
        /\ List(free_processes)' = List(free_processes)
        /\ List(free_messages)' = List(free_messages)
    BY <2>1, <2>8, FreeHeads, HeadsByKind
  <2> HIDE DEF c, free
  <2>a. t_pcb \in [Tcb -> Proc \cup {NULL}]
    BY DEF PInv, FieldTypes
  <2>10. Api!thread_alloc(process)
    BY <1>3, <2>1, <2>2, <2>3, <2>5, <2>7, <2>9, <2>a
       DEF Api!thread_alloc, Api!T_STATUS_READY, Thread, free
  <2>11. UNCHANGED <<Api!procpart, Api!msgvars, links>>
    BY <2>3, <2>9 DEF Api!procpart, Api!msgvars, Api!procvars, MessageAt
  <2>12. ~Api!thread_alloc_fails(process)
    BY <2>1, <1>3 DEF Api!thread_alloc_fails, free
  <2> QED
    BY <2>1, <2>2, <2>3, <2>4, <2>10, <2>11, <2>12 DEF Api!ThreadAlloc, free
<1> QED BY <1>2, <1>3

\* the operators on the scheduling lists are those of Mikabooq
LEMMA SchedulingIs ==
  /\ \A t \in Tcb : /\ list_empty(links, t_wait4me(t)) <=> Api!list_empty(links, Api!t_wait4me(t))
                    /\ t_sched_deleted(t) = Api!thread_outqueue(links, t)
  /\ \A t \in Tcb, q \in SchedQueues : thread_enqueue(t, q) = Api!thread_enqueue(links, t, q)
  /\ \A q \in SchedQueues : list_next(links, q) = Api!thread_qhead(links, q)
  /\ \A c : list_del(links, c) = Api!list_del(links, c)
<1>1. \A t \in Tcb : t_wait4me(t) = Api!t_wait4me(t) /\ t_sched(t) = Api!t_sched(t)
  BY DEF t_wait4me, t_sched, Api!t_wait4me, Api!t_sched
<1>2. \A c : list_del(links, c) = Api!list_del(links, c)
  BY DEF list_del, __list_del, Api!list_del, Api!__list_del
<1>3. \A c, q : list_add_tail(links, c, q) = Api!list_add_tail(links, c, q)
  BY DEF list_add_tail, __list_add, Api!list_add_tail, Api!__list_add
<1>4. \A q : /\ list_next(links, q) = Api!list_next(links, q)
             /\ list_empty(links, q) <=> Api!list_empty(links, q)
  BY DEF list_next, list_empty, Api!list_next, Api!list_empty
<1> QED
  BY <1>1, <1>2, <1>3, <1>4
     DEF t_sched_deleted, thread_enqueue, Api!thread_outqueue, Api!thread_enqueue, Api!thread_qhead

LEMMA ThreadFreeIs ==
  ASSUME PInv, NEW old \in Tcb, ThreadFree(old)
  PROVE  PInv' /\ Api!ThreadFree(old)
<1>0. msgs_of(old) \in Heads /\ Len(List(msgs_of(old))) \in Nat
  BY FreeHeads, ListIsSeq
<1>1. list_empty(mem, msgs_of(old)) <=> List(msgs_of(old)) = <<>>
  BY <1>0, ListNext
<1> DEFINE queue == [t \in Thread |->
             IF t \in Tcb THEN LET q == List(msgs_of(t)) IN [i \in DOMAIN q |-> MessageAt(q[i])]
                          ELSE <<>>]
<1>2. queue[old] = <<>> <=> List(msgs_of(old)) = <<>>
  <2> DEFINE q == List(msgs_of(old))
             w == [i \in DOMAIN q |-> MessageAt(q[i])]
  <2>1. queue[old] = w
    BY DEF Thread
  <2>2. DOMAIN q = 1..Len(q) /\ Len(q) \in Nat /\ q \in Seq({ container_of(c) : c \in Links })
    BY <1>0, ListIsSeq
  <2> HIDE DEF q
  <2>3. Len(w) = Len(q) /\ w \in Seq({ MessageAt(q[i]) : i \in DOMAIN q })
    BY <2>2
  <2> HIDE DEF w, queue
  <2>4. q = <<>> <=> Len(q) = 0
    BY <2>2
  <2>5. w = <<>> <=> Len(w) = 0
    BY <2>3
  <2> QED BY <2>1, <2>3, <2>4, <2>5 DEF q
<1>3. CASE List(msgs_of(old)) # <<>>
  <2>1. last' = <<"thread_free", -1>> /\ UNCHANGED pointervars
    BY <1>1, <1>3 DEF ThreadFree
  <2>2. UNCHANGED Api!mikabooqvars /\ PInv'
    BY <2>1, StuttersIs, PInvStutters
  <2> QED
    BY <1>2, <1>3, <2>1, <2>2
       DEF Api!ThreadFree, Api!thread_free_ok, Api!mikabooqvars, Api!procpart, Api!threadpart
<1>5. list_empty(links, t_wait4me(old)) <=> Api!list_empty(links, Api!t_wait4me(old))
  BY SchedulingIs
<1>6. CASE List(msgs_of(old)) = <<>> /\ ~list_empty(links, t_wait4me(old))
  <2>1. last' = <<"thread_free", -2>> /\ UNCHANGED pointervars
    BY <1>1, <1>6 DEF ThreadFree
  <2>2. UNCHANGED Api!mikabooqvars /\ PInv'
    BY <2>1, StuttersIs, PInvStutters
  <2> QED
    BY <1>2, <1>5, <1>6, <2>1, <2>2
       DEF Api!ThreadFree, Api!thread_free_ok, Api!mikabooqvars, Api!procpart, Api!threadpart
<1>4. CASE List(msgs_of(old)) = <<>> /\ list_empty(links, t_wait4me(old))
  <2> DEFINE c == t_next(old)
             h == free_threads
  <2>1. /\ c \in Links /\ h \in Heads /\ container_of(c) = old
        /\ \A d \in ThreadHeads : OfKind(c, d)
    BY FreeHeads, LinksByKind DEF Links, OfKind
  <2>2. PICK g \in ThreadHeads : On(mem, c, g) /\ g \in Heads
    BY HomesAreHeads DEF PInv, Homes
  <2>3. /\ mem' = Moved(c, h) /\ Linked(c, h)
        /\ t_pcb' = [t_pcb EXCEPT ![old] = NULL]
        /\ links' = t_sched_deleted(old)
        /\ last' = <<"thread_free", 0>>
        /\ UNCHANGED <<p_parent, m_sender, m_value>>
    BY <1>1, <1>4 DEF ThreadFree, Linked
  <2>4. PInv'
    BY <2>3, ThreadMoves
  <2>5. \A p \in Proc : List(threads_of(p))' = Api!unlink(List(threads_of(p)), old)
    <3> SUFFICES ASSUME NEW p \in Proc
                 PROVE  List(threads_of(p))' = Api!unlink(List(threads_of(p)), old)
      OBVIOUS
    <3>1. threads_of(p) \in Heads /\ threads_of(p) # h /\ OfKind(c, threads_of(p))
      BY <2>1, FreeHeads, HeadsByKind
    <3> QED BY <2>1, <2>3, <3>1, ListsLinked
  <2>6. List(h)' = Append(Api!unlink(List(h), old), old)
    BY <2>1, <2>3, ListGains, FreeHeads
  <2>7. \A d \in Heads \ ThreadHeads : List(d)' = List(d)
    BY <2>1, <2>2, <2>3, ListsKept, FreeHeads
  <2>8. /\ \A q \in Proc : List(children_of(q))' = List(children_of(q))
        /\ \A u \in Tcb : List(msgs_of(u))' = List(msgs_of(u))
        /\ List(free_processes)' = List(free_processes)
        /\ List(free_messages)' = List(free_messages)
    BY <2>7, FreeHeads, HeadsByKind
  <2>9. t_pcb \in [Tcb -> Proc \cup {NULL}]
    BY DEF PInv, FieldTypes
  <2>10. UNCHANGED <<Api!procpart, Api!msgvars>>
    BY <2>3, <2>8 DEF Api!procpart, Api!msgvars, Api!procvars, MessageAt
  <2>11. Api!thread_free_ok(old)
    BY <1>2, <1>4, <1>5 DEF Api!thread_free_ok
  <2>12. Api!thread_free(old)
    <3>1. links' = Api!thread_outqueue(links, old)
      BY <2>3, SchedulingIs
    <3>2. /\ [p \in Proc |-> List(threads_of(p))]' =
                [p \in Api!Proc |-> Api!unlink([q \in Proc |-> List(threads_of(q))][p], old)]
      BY <2>5 DEF Api!Proc, Proc
    <3> HIDE DEF h, c
    <3>3. List(free_threads)' = Append(Api!unlink(List(free_threads), old), old)
      BY <2>6 DEF h
    <3>4. [t \in Thread |-> IF t \in Tcb THEN t_pcb[t] ELSE NULL]' =
            [[t \in Thread |-> IF t \in Tcb THEN t_pcb[t] ELSE NULL] EXCEPT ![old] = NULL]
      BY <2>3, <2>9 DEF Thread
    <3>5. [t \in Thread |-> IF t \in Tcb /\ t_pcb[t] # NULL THEN 1 ELSE 0]' =
            [[t \in Thread |-> IF t \in Tcb /\ t_pcb[t] # NULL THEN 1 ELSE 0] EXCEPT ![old] = 0]
      BY <2>3, <2>9 DEF Thread
    <3>6. [t \in Thread |-> NULL] = [[t \in Thread |-> NULL] EXCEPT ![old] = NULL]
      OBVIOUS
    <3> QED
      BY <3>1, <3>2, <3>3, <3>4, <3>5, <3>6 DEF Api!thread_free, Api!T_STATUS_NONE
  <2> QED
    BY <2>3, <2>4, <2>10, <2>11, <2>12 DEF Api!ThreadFree
<1> QED BY <1>3, <1>4, <1>6

LEMMA QueueCallIs ==
  ASSUME PInv, QueueCalls
  PROVE  PInv' /\ Api!Calls
<1>1. PICK q \in SchedQueues :
         (\E t \in Tcb : ThreadEnqueue(t, q)) \/ ThreadQhead(q) \/ ThreadDequeue(q)
  BY DEF QueueCalls
<1>2. UNCHANGED <<mem, p_parent, t_pcb, m_sender, m_value>>
  BY <1>1 DEF ThreadEnqueue, ThreadQhead, ThreadDequeue, pointervars
<1>3. PInv'
  BY <1>2 DEF PInv, FieldTypes, Homes, proc_home, thread_home
<1>4. UNCHANGED <<Api!procpart, Api!msgvars, Api!threadvars, List(free_threads),
                  [p \in Proc |-> List(threads_of(p))]>>
  BY <1>2 DEF Api!procpart, Api!procvars, Api!msgvars, Api!threadvars, List, Cells, MessageAt
<1>5. q \in Api!Sentinel
  BY DEF SchedQueues, SchedHeads, t_wait4me, Thread, Tcb, Api!Sentinel, Api!t_wait4me, Api!readyq,
         Api!blockedq, Api!Thread, Api!Tcb
<1>6. CASE \E t \in Tcb : ThreadEnqueue(t, q)
  <2>1. PICK t \in Tcb : ThreadEnqueue(t, q)
    BY <1>6
  <2>2. t \in Api!Tcb /\ Api!ThreadEnqueue(t, q)
    BY <1>4, <2>1, SchedulingIs DEF ThreadEnqueue, Api!ThreadEnqueue, Tcb, Api!Tcb
  <2> QED BY <1>3, <1>5, <2>2 DEF Api!Calls
<1>7. CASE ThreadQhead(q)
  <2>1. Api!ThreadQhead(q)
    BY <1>4, <1>7, SchedulingIs DEF ThreadQhead, pointervars, Api!ThreadQhead, Api!threadpart
  <2> QED BY <1>3, <1>5, <2>1 DEF Api!Calls
<1>8. CASE ThreadDequeue(q)
  <2>1. Api!ThreadDequeue(q)
    BY <1>4, <1>8, SchedulingIs DEF ThreadDequeue, pointervars, Api!ThreadDequeue
  <2> QED BY <1>3, <1>5, <2>1 DEF Api!Calls
<1> QED BY <1>1, <1>6, <1>7, <1>8

-----------------------------------------------------------------------------
(* The calls on messages.                                                   *)

LEMMA QueueParts ==
  ASSUME PInv, NEW h \in MsgHeads
  PROVE  /\ h \in Heads /\ List(h) \in Seq(Message) /\ Len(List(h)) \in Nat
         /\ DOMAIN List(h) = 1..Len(List(h)) /\ Len(List(h)) = Len(Walks(mem)[h])
         /\ \A k \in 1..Len(List(h)) :
              /\ List(h)[k] \in Message
              /\ Walks(mem)[h][k] = m_next(List(h)[k]) /\ On(mem, m_next(List(h)[k]), h)
         /\ \A j, k \in 1..Len(List(h)) : List(h)[j] = List(h)[k] => j = k
<1> DEFINE w == Walks(mem)[h]
<1>1. /\ h \in Heads /\ w \in Seq(Links) /\ Len(w) \in Nat
      /\ \A k \in 1..Len(w) : w[k] \in Links /\ On(mem, w[k], h)
      /\ \A j, k \in 1..Len(w) : w[j] = w[k] => j = k
  <2>1. h \in Heads /\ WellLinked(mem)
    BY FreeHeads DEF PInv
  <2>2. /\ w \in Seq(Links) /\ Len(w) \in Nat /\ \A k \in 1..Len(w) : w[k] \in Links
        /\ \A j, k \in 1..Len(w) : w[j] = w[k] => j = k
    BY <2>1, WalkParts
  <2>3. \A k \in 1..Len(w) : On(mem, w[k], h)
    BY DEF On
  <2> QED BY <2>1, <2>2, <2>3
<1>2. List(h) = Ids(w) /\ Len(List(h)) = Len(w)
  BY <1>1, ListIs DEF PInv
<1>3. \A k \in 1..Len(w) : Ids(w)[k] = container_of(w[k])
  BY <1>1, IdsParts
<1>4. ASSUME NEW k \in 1..Len(w)
      PROVE  Ids(w)[k] \in Message /\ w[k] = m_next(Ids(w)[k])
  <2>1. PICK i \in Message : w[k] = m_next(i)
    BY <1>1, ListsByKind
  <2>2. Ids(w)[k] = i
    BY <1>3, <2>1, LinksByKind
  <2> QED BY <2>1, <2>2
<1>5. Ids(w) \in Seq(Message)
  <2>1. DOMAIN Ids(w) = 1..Len(w) /\ Ids(w) = [k \in 1..Len(w) |-> Ids(w)[k]]
    BY DEF Ids
  <2> HIDE DEF w
  <2> QED BY <1>1, <1>4, <2>1
<1> HIDE DEF w
<1>6. \A j, k \in 1..Len(w) : Ids(w)[j] = Ids(w)[k] => j = k
  BY <1>1, <1>4
<1>7. DOMAIN List(h) = 1..Len(List(h))
  BY <1>2, <1>5
<1> QED BY <1>1, <1>2, <1>4, <1>5, <1>6, <1>7 DEF w

\* the messages of a queue
Queue(h) == [k \in DOMAIN List(h) |-> MessageAt(List(h)[k])]

LEMMA QueueIs ==
  ASSUME PInv, NEW h \in MsgHeads
  PROVE  /\ Queue(h) \in Seq([m_sender : Tcb \cup {NULL}, m_value : Values \cup {NULL}])
         /\ Len(Queue(h)) = Len(List(h)) /\ DOMAIN Queue(h) = 1..Len(List(h))
         /\ \A k \in 1..Len(List(h)) : Queue(h)[k] = MessageAt(List(h)[k])
<1>1. /\ Len(List(h)) \in Nat /\ DOMAIN List(h) = 1..Len(List(h))
      /\ \A k \in 1..Len(List(h)) : List(h)[k] \in Message
  BY QueueParts
<1> DEFINE M == [m_sender : Tcb \cup {NULL}, m_value : Values \cup {NULL}]
<1>2. \A i \in Message : MessageAt(i) \in M
  BY DEF MessageAt, PInv, FieldTypes
<1> HIDE DEF M
<1>3. Queue(h) \in [1..Len(List(h)) -> M]
  BY <1>1, <1>2 DEF Queue
<1>4. Queue(h) \in Seq(M) /\ Len(Queue(h)) = Len(List(h))
  BY <1>1, <1>3
<1>5. DOMAIN Queue(h) = 1..Len(List(h)) /\ \A k \in 1..Len(List(h)) : Queue(h)[k] = MessageAt(List(h)[k])
  BY <1>1 DEF Queue
<1> QED BY <1>4, <1>5 DEF M

\* the descriptor that is written is on no other queue
LEMMA QueueKept ==
  ASSUME PInv, NEW i \in Message, NEW g \in MsgHeads, On(mem, m_next(i), g),
         NEW h \in MsgHeads, h # g, List(h)' = List(h),
         \A j \in Message : j # i => MessageAt(j)' = MessageAt(j)
  PROVE  Queue(h)' = Queue(h)
<1>1. ASSUME NEW k \in 1..Len(List(h)) PROVE List(h)[k] \in Message /\ List(h)[k] # i
  <2>1. m_next(i) \in Links /\ g \in Heads
    BY FreeHeads DEF Links
  <2>2. ~On(mem, m_next(i), h)
    BY <2>1, WalkParts, QueueParts DEF PInv
  <2> QED BY <2>2, QueueParts
<1>2. DOMAIN List(h) = 1..Len(List(h))
  BY QueueParts
<1>3. \A k \in DOMAIN List(h) : MessageAt(List(h)[k])' = MessageAt(List(h)[k])
  BY <1>1, <1>2
<1> QED BY <1>3 DEF Queue

\* a message that is written and linked at the tail of a queue, or in front
LEMMA QueueGains ==
  ASSUME PInv, NEW i \in Message, NEW s \in Tcb, NEW v \in Values, NEW h \in MsgHeads, ~On(mem, m_next(i), h),
         m_sender' = [m_sender EXCEPT ![i] = s], m_value' = [m_value EXCEPT ![i] = v]
  PROVE  /\ List(h)' = Append(List(h), i) =>
              Queue(h)' = Append(Queue(h), [m_sender |-> s, m_value |-> v])
         /\ List(h)' = <<i>> \o List(h) =>
              Queue(h)' = <<[m_sender |-> s, m_value |-> v]>> \o Queue(h)
<1>1. /\ List(h) \in Seq(Message) /\ Len(List(h)) \in Nat /\ DOMAIN List(h) = 1..Len(List(h))
      /\ \A k \in 1..Len(List(h)) : List(h)[k] \in Message /\ List(h)[k] # i
  BY QueueParts
<1>2. PICK q : q = List(h)
  OBVIOUS
<1>3. /\ Len(Queue(h)) = Len(q)
      /\ Queue(h) \in Seq([m_sender : Tcb \cup {NULL}, m_value : Values \cup {NULL}])
      /\ \A k \in 1..Len(q) : Queue(h)[k] = [m_sender |-> m_sender[q[k]], m_value |-> m_value[q[k]]]
  BY <1>2, QueueIs DEF MessageAt
<1>4. m_sender \in [Message -> Tcb \cup {NULL}] /\ m_value \in [Message -> Values \cup {NULL}]
  BY DEF PInv, FieldTypes
<1> DEFINE msg == [m_sender |-> s, m_value |-> v]
           At1(x) == [m_sender |-> m_sender'[x], m_value |-> m_value'[x]]
<1>5. At1(i) = msg /\ \A k \in 1..Len(q) : At1(q[k]) = Queue(h)[k]
  BY <1>1, <1>2, <1>3, <1>4
<1>6. ASSUME NEW r, List(h)' = r PROVE Queue(h)' = [k \in DOMAIN r |-> At1(r[k])]
  BY <1>6 DEF Queue, MessageAt
<1> HIDE DEF At1, msg
<1>7. ASSUME List(h)' = Append(q, i) PROVE Queue(h)' = Append(Queue(h), msg)
  <2>1. Queue(h)' = [k \in DOMAIN Append(q, i) |-> At1(Append(q, i)[k])]
    BY <1>6, <1>7
  <2>2. q \in Seq(Message)
    BY <1>1, <1>2
  <2>3. /\ DOMAIN Append(q, i) = 1..(Len(q) + 1) /\ Len(q) \in Nat
        /\ \A k \in 1..(Len(q) + 1) : Append(q, i)[k] = IF k <= Len(q) THEN q[k] ELSE i
    BY <2>2
  <2> DEFINE e == Append(q, i)
  <2> HIDE DEF e
  <2>4. [k \in DOMAIN e |-> At1(e[k])] = [k \in 1..(Len(q) + 1) |-> IF k <= Len(q) THEN Queue(h)[k] ELSE msg]
    BY <1>5, <2>3 DEF e
  <2>5. [k \in 1..(Len(q) + 1) |-> IF k <= Len(q) THEN Queue(h)[k] ELSE msg] = Append(Queue(h), msg)
    <3> DEFINE S == [m_sender : Tcb \cup {NULL}, m_value : Values \cup {NULL}]
    <3>1. PICK w : w = Queue(h)
      OBVIOUS
    <3>2. w \in Seq(S \cup {msg}) /\ Len(w) = Len(q) /\ Len(w) \in Nat
      BY <1>3, <2>3, <3>1, SeqMonotonic
    <3>3. /\ DOMAIN Append(w, msg) = 1..(Len(w) + 1)
          /\ \A k \in 1..(Len(w) + 1) : Append(w, msg)[k] = IF k <= Len(w) THEN w[k] ELSE msg
      BY <3>2
    <3>4. Append(w, msg) \in [1..(Len(w) + 1) -> S \cup {msg}]
      <4> DEFINE U == S \cup {msg}
                 a == Append(w, msg)
      <4>1. a \in Seq(U) /\ Len(a) = Len(w) + 1
        BY <3>2, AppendProperties
      <4> HIDE DEF U, a
      <4>2. a \in [1..(Len(w) + 1) -> U]
        BY <4>1
      <4> QED BY <4>2 DEF U, a
    <3> QED BY <3>1, <3>2, <3>3, <3>4
  <2> QED BY <1>2, <1>7, <2>1, <2>4, <2>5 DEF e
<1>8. ASSUME List(h)' = <<i>> \o q PROVE Queue(h)' = <<msg>> \o Queue(h)
  <2>1. Queue(h)' = [k \in DOMAIN (<<i>> \o q) |-> At1((<<i>> \o q)[k])]
    BY <1>6, <1>8
  <2>2. q \in Seq(Message)
    BY <1>1, <1>2
  <2>3. /\ DOMAIN (<<i>> \o q) = 1..(Len(q) + 1) /\ Len(q) \in Nat
        /\ \A k \in 1..(Len(q) + 1) : (<<i>> \o q)[k] = IF k = 1 THEN i ELSE q[k - 1]
    BY <2>2
  <2> DEFINE e == <<i>> \o q
  <2> HIDE DEF e
  <2>4. [k \in DOMAIN e |-> At1(e[k])] = [k \in 1..(Len(q) + 1) |-> IF k = 1 THEN msg ELSE Queue(h)[k - 1]]
    BY <1>5, <2>3 DEF e
  <2>5. [k \in 1..(Len(q) + 1) |-> IF k = 1 THEN msg ELSE Queue(h)[k - 1]] = <<msg>> \o Queue(h)
    BY <1>3, <2>3
  <2> QED BY <1>2, <1>8, <2>1, <2>4, <2>5 DEF e
<1> QED BY <1>2, <1>7, <1>8 DEF msg

\* what Descriptors sees of the messages
LEMMA Views ==
  UNCHANGED Api!msgvars <=>
       /\ [t \in Thread |-> IF t \in Tcb THEN Queue(msgs_of(t)) ELSE <<>>]' =
          [t \in Thread |-> IF t \in Tcb THEN Queue(msgs_of(t)) ELSE <<>>]
       /\ Len(List(free_messages))' = Len(List(free_messages))
BY DEF Api!msgvars, Queue

\* msgq_add and msgq_add_head take the first free descriptor
LEMMA NewMessageTakes ==
  ASSUME PInv, List(free_messages) # <<>>, NEW s \in Tcb, NEW d \in Tcb, NEW v \in Values,
         Linked(space_message, msgs_of(d)),
         m_sender' = [m_sender EXCEPT ![container_of(space_message)] = s],
         m_value'  = [m_value EXCEPT ![container_of(space_message)] = v],
         UNCHANGED <<links, p_parent, t_pcb>>
  PROVE  /\ PInv'
         /\ UNCHANGED <<Api!procpart, Api!threadpart>>
         /\ Len(List(free_messages))' = Len(List(free_messages)) - 1
         /\ \A t \in Tcb : t # d => Queue(msgs_of(t))' = Queue(msgs_of(t))
         /\ mem' = Moved(space_message, msgs_of(d)) =>
              Queue(msgs_of(d))' = Append(Queue(msgs_of(d)), [m_sender |-> s, m_value |-> v])
         /\ mem' = list_add(list_del(mem, space_message), space_message, msgs_of(d)) =>
              Queue(msgs_of(d))' = <<[m_sender |-> s, m_value |-> v]>> \o Queue(msgs_of(d))
<1> DEFINE g == free_messages
           h == msgs_of(d)
<1>1. /\ g \in Heads /\ g \in MsgHeads /\ h \in Heads /\ h \in MsgHeads /\ h # g
  BY FreeHeads, HeadsByKind
<1>2. space_message \in Links /\ On(mem, space_message, g)
  BY <1>1, ListNext DEF space_message
<1>3. PICK i \in Message : space_message = m_next(i) /\ container_of(space_message) = i
  BY <1>1, <1>2, ListsByKind, LinksByKind
<1> DEFINE c == m_next(i)
<1>4. /\ c \in Links /\ On(mem, c, g) /\ Linked(c, h) /\ container_of(c) = i
      /\ m_sender' = [m_sender EXCEPT ![i] = s] /\ m_value' = [m_value EXCEPT ![i] = v]
      /\ ~On(mem, c, h)
  <2>1. ~On(mem, c, h)
    BY <1>1, <1>2, <1>3, WalkParts DEF PInv
  <2> QED BY <1>2, <1>3, <2>1
<1>5. PInv'
  BY <1>1, <1>4, MessageMoves
<1>6. \A e \in Heads \ {g, h} : List(e)' = List(e)
  BY <1>1, <1>4, ListsKept
<1>7. /\ \A q \in Proc : List(children_of(q))' = List(children_of(q))
      /\ \A q \in Proc : List(threads_of(q))' = List(threads_of(q))
      /\ List(free_processes)' = List(free_processes)
      /\ List(free_threads)' = List(free_threads)
      /\ \A t \in Tcb : t # d => List(msgs_of(t))' = List(msgs_of(t))
  <2>1. /\ \A q \in Proc : children_of(q) \in Heads \ {g, h} /\ threads_of(q) \in Heads \ {g, h}
        /\ free_processes \in Heads \ {g, h} /\ free_threads \in Heads \ {g, h}
        /\ \A t \in Tcb : t # d => msgs_of(t) \in Heads \ {g, h}
    BY FreeHeads, HeadsByKind
  <2> HIDE DEF g, h
  <2> QED BY <1>6, <2>1
<1>8. UNCHANGED <<Api!procpart, Api!threadpart>>
  BY <1>7 DEF Api!procpart, Api!threadpart, Api!threadvars, Api!procvars
<1>9. Len(List(g)') = Len(List(g)) - 1
  BY <1>1, <1>4, ListsLinked
<1>10. ASSUME NEW t \in Tcb, t # d PROVE Queue(msgs_of(t))' = Queue(msgs_of(t))
  <2>1. msgs_of(t) \in MsgHeads /\ msgs_of(t) # g /\ List(msgs_of(t))' = List(msgs_of(t))
    BY <1>7, <1>10, FreeHeads, HeadsByKind
  <2>2. \A j \in Message : j # i => MessageAt(j)' = MessageAt(j)
    BY <1>4 DEF MessageAt, PInv, FieldTypes
  <2> QED BY <1>1, <1>4, <2>1, <2>2, QueueKept
<1>11. /\ mem' = Moved(c, h) => List(h)' = Append(List(h), i)
       /\ mem' = list_add(list_del(mem, c), c, h) => List(h)' = <<i>> \o List(h)
  BY <1>1, <1>4, ListGains
<1>12. /\ mem' = Moved(c, h) => Queue(h)' = Append(Queue(h), [m_sender |-> s, m_value |-> v])
       /\ mem' = list_add(list_del(mem, c), c, h) =>
            Queue(h)' = <<[m_sender |-> s, m_value |-> v]>> \o Queue(h)
  <2>1. /\ List(h)' = Append(List(h), i) =>
             Queue(h)' = Append(Queue(h), [m_sender |-> s, m_value |-> v])
        /\ List(h)' = <<i>> \o List(h) =>
             Queue(h)' = <<[m_sender |-> s, m_value |-> v]>> \o Queue(h)
    <3>1. h \in MsgHeads /\ ~On(mem, m_next(i), h)
      BY <1>1, <1>4
    <3> HIDE DEF h, c
    <3>2. m_sender' = [m_sender EXCEPT ![i] = s] /\ m_value' = [m_value EXCEPT ![i] = v]
      BY <1>4
    <3> QED BY <3>1, <3>2, QueueGains
  <2> HIDE DEF h, c
  <2> QED BY <1>11, <2>1
<1> QED BY <1>3, <1>5, <1>8, <1>9, <1>10, <1>12

LEMMA SpaceMessage ==
  ASSUME PInv
  PROVE  /\ space_message = NULL <=> Api!msgq_add_fails
         /\ space_message = NULL <=> List(free_messages) = <<>>
<1>1. free_messages \in MsgHeads /\ free_messages \in Heads
  BY FreeHeads
<1>2. List(free_messages) = <<>> <=> Len(List(free_messages)) = 0
  BY <1>1, QueueParts
<1> QED BY <1>1, <1>2, ListNext DEF Api!msgq_add_fails, space_message

LEMMA MsgAddIs ==
  ASSUME PInv, NEW s \in Tcb, NEW d \in Tcb, NEW v \in Values, MsgAdd(s, d, v)
  PROVE  PInv' /\ Api!MsgAdd(s, d, v)
<1>1. CASE space_message = NULL
  <2>1. last' = <<"msgq_add", -1>> /\ UNCHANGED pointervars
    BY <1>1 DEF MsgAdd, NewMessage
  <2>2. UNCHANGED Api!mikabooqvars /\ PInv'
    BY <2>1, StuttersIs, PInvStutters
  <2> QED
    BY <1>1, <2>1, <2>2, SpaceMessage
       DEF Api!MsgAdd, Api!mikabooqvars, Api!procpart, Api!threadpart
<1>2. CASE space_message # NULL
  <2> DEFINE msg == [m_sender |-> s, m_value |-> v]
  <2>1. /\ mem' = Moved(space_message, msgs_of(d)) /\ Linked(space_message, msgs_of(d))
        /\ m_sender' = [m_sender EXCEPT ![container_of(space_message)] = s]
        /\ m_value'  = [m_value EXCEPT ![container_of(space_message)] = v]
        /\ last' = <<"msgq_add", 0>>
        /\ UNCHANGED <<links, p_parent, t_pcb>>
    BY <1>2 DEF MsgAdd, NewMessage, Linked
  <2>2. /\ PInv' /\ UNCHANGED <<Api!procpart, Api!threadpart>>
        /\ Len(List(free_messages))' = Len(List(free_messages)) - 1
        /\ \A t \in Tcb : t # d => Queue(msgs_of(t))' = Queue(msgs_of(t))
        /\ Queue(msgs_of(d))' = Append(Queue(msgs_of(d)), msg)
    BY <1>2, <2>1, SpaceMessage, NewMessageTakes
  <2>3. [t \in Thread |-> IF t \in Tcb THEN Queue(msgs_of(t)) ELSE <<>>]' =
          [[t \in Thread |-> IF t \in Tcb THEN Queue(msgs_of(t)) ELSE <<>>] EXCEPT
             ![d] = Append(@, msg)]
    BY <2>2 DEF Thread
  <2>4. Api!msgq_add(s, d, v)
    BY <2>2, <2>3 DEF Api!msgq_add, Queue
  <2> QED
    BY <1>2, <2>1, <2>2, <2>4, SpaceMessage DEF Api!MsgAdd
<1> QED BY <1>1, <1>2

LEMMA MsgAddHeadIs ==
  ASSUME PInv, NEW s \in Tcb, NEW d \in Tcb, NEW v \in Values, MsgAddHead(s, d, v)
  PROVE  PInv' /\ Api!MsgAddHead(s, d, v)
<1>1. CASE space_message = NULL
  <2>1. last' = <<"msgq_add_head", -1>> /\ UNCHANGED pointervars
    BY <1>1 DEF MsgAddHead, NewMessage
  <2>2. UNCHANGED Api!mikabooqvars /\ PInv'
    BY <2>1, StuttersIs, PInvStutters
  <2> QED
    BY <1>1, <2>1, <2>2, SpaceMessage
       DEF Api!MsgAddHead, Api!mikabooqvars, Api!procpart, Api!threadpart
<1>2. CASE space_message # NULL
  <2> DEFINE msg == [m_sender |-> s, m_value |-> v]
  <2>1. /\ mem' = list_add(list_del(mem, space_message), space_message, msgs_of(d))
        /\ Linked(space_message, msgs_of(d))
        /\ m_sender' = [m_sender EXCEPT ![container_of(space_message)] = s]
        /\ m_value'  = [m_value EXCEPT ![container_of(space_message)] = v]
        /\ last' = <<"msgq_add_head", 0>>
        /\ UNCHANGED <<links, p_parent, t_pcb>>
    BY <1>2 DEF MsgAddHead, NewMessage, Linked
  <2>2. /\ PInv' /\ UNCHANGED <<Api!procpart, Api!threadpart>>
        /\ Len(List(free_messages))' = Len(List(free_messages)) - 1
        /\ \A t \in Tcb : t # d => Queue(msgs_of(t))' = Queue(msgs_of(t))
        /\ Queue(msgs_of(d))' = <<msg>> \o Queue(msgs_of(d))
    BY <1>2, <2>1, SpaceMessage, NewMessageTakes
  <2>3. [t \in Thread |-> IF t \in Tcb THEN Queue(msgs_of(t)) ELSE <<>>]' =
          [[t \in Thread |-> IF t \in Tcb THEN Queue(msgs_of(t)) ELSE <<>>] EXCEPT
             ![d] = <<msg>> \o @]
    BY <2>2 DEF Thread
  <2>4. Api!msgq_add_head(s, d, v)
    BY <2>2, <2>3 DEF Api!msgq_add_head, Queue
  <2> QED
    BY <1>2, <2>1, <2>2, <2>4, SpaceMessage DEF Api!MsgAddHead
<1> QED BY <1>1, <1>2

LEMMA MsgGetIs ==
  ASSUME PInv, NEW s \in Tcb \cup {NULL}, NEW d \in Tcb, MsgGet(s, d)
  PROVE  PInv' /\ Api!MsgGet(s, d)
<1> DEFINE h == msgs_of(d)
           g == free_messages
           queues == [t \in Thread |-> IF t \in Tcb THEN Queue(msgs_of(t)) ELSE <<>>]
<1>1. /\ g \in Heads /\ g \in MsgHeads /\ h \in Heads /\ h \in MsgHeads /\ h # g
  BY FreeHeads, HeadsByKind
<1>2. PICK q : q = List(h)
  OBVIOUS
<1>3. /\ q \in Seq(Message) /\ Len(q) \in Nat /\ DOMAIN q = 1..Len(q)
      /\ DOMAIN Queue(h) = 1..Len(q) /\ \A k \in 1..Len(q) : Queue(h)[k] = MessageAt(q[k])
      /\ \A k \in 1..Len(q) :
           /\ q[k] \in Message /\ m_next(q[k]) \in Links /\ On(mem, m_next(q[k]), h)
           /\ k \in 1..Len(Walks(mem)[h]) /\ Walks(mem)[h][k] = m_next(q[k])
      /\ \A j, k \in 1..Len(q) : q[j] = q[k] => j = k
  <2>1. \A i \in Message : m_next(i) \in Links
    BY DEF Links
  <2> HIDE DEF h
  <2> QED BY <1>1, <1>2, <2>1, QueueParts, QueueIs
<1>4. Api!Matching(d, s) = From(q, s)
  <2>1. queues[d] = Queue(h)
    BY DEF Thread
  <2>2. Api!Matching(d, s) = { k \in DOMAIN queues[d] : s \in {NULL, queues[d][k].m_sender} }
    BY DEF Api!Matching, Queue
  <2>3. \A k \in 1..Len(q) : Queue(h)[k].m_sender = m_sender[q[k]]
    BY <1>3 DEF MessageAt
  <2> HIDE DEF queues, h
  <2> QED BY <1>3, <2>1, <2>2, <2>3 DEF From
<1>5. CASE Found(q, s) = {}
  <2>1. last' = <<"msgq_get", s, -1>> /\ UNCHANGED pointervars
    BY <1>2, <1>5 DEF MsgGet
  <2>2. From(q, s) = {}
    <3> SUFFICES ASSUME From(q, s) # {} PROVE FALSE
      OBVIOUS
    <3>1. From(q, s) \in SUBSET Nat
      BY <1>3 DEF From
    <3>2. PICK k \in From(q, s) : \A j \in From(q, s) : k <= j
      BY <3>1, LeastNatural
    <3> QED BY <1>5, <3>2 DEF Found
  <2>3. UNCHANGED Api!mikabooqvars /\ PInv'
    BY <2>1, StuttersIs, PInvStutters
  <2> QED
    BY <1>4, <2>1, <2>2, <2>3 DEF Api!MsgGet, Api!mikabooqvars, Api!procpart, Api!threadpart
<1>6. ASSUME NEW i \in Found(q, s), last' = <<"msgq_get", s, 0, MessageAt(i)>>, msg_free(i)
      PROVE  PInv' /\ Api!MsgGet(s, d)
  <2>1. PICK k \in From(q, s) : i = q[k] /\ \A j \in From(q, s) : k <= j
    BY DEF Found
  <2>2. k \in 1..Len(q) /\ i \in Message
    BY <1>3, <2>1 DEF From
  <2> DEFINE c == m_next(i)
  <2>3. /\ c \in Links /\ On(mem, c, h) /\ k \in 1..Len(Walks(mem)[h]) /\ Walks(mem)[h][k] = c
        /\ ~On(mem, c, g)
    BY <1>1, <1>3, <2>1, <2>2, WalkParts DEF PInv
  <2>4. /\ mem' = Moved(c, g) /\ Linked(c, g)
        /\ m_sender' = [m_sender EXCEPT ![i] = NULL] /\ m_value' = m_value
        /\ UNCHANGED <<links, p_parent, t_pcb, m_value>>
    BY <1>6 DEF msg_free, Linked
  <2>5. PInv'
    <3>1. m_value[i] \in Values \cup {NULL} /\ m_value' = [m_value EXCEPT ![i] = m_value[i]]
      BY <2>2, <2>4 DEF PInv, FieldTypes
    <3> QED BY <1>1, <2>2, <2>4, <3>1, MessageMoves
  <2>6. \A e \in Heads \ {g, h} : List(e)' = List(e)
    BY <1>1, <2>3, <2>4, ListsKept
  <2>7. /\ \A p \in Proc : List(children_of(p))' = List(children_of(p))
        /\ \A p \in Proc : List(threads_of(p))' = List(threads_of(p))
        /\ List(free_processes)' = List(free_processes)
        /\ List(free_threads)' = List(free_threads)
        /\ \A t \in Tcb : t # d => List(msgs_of(t))' = List(msgs_of(t))
    <3>1. /\ \A p \in Proc : children_of(p) \in Heads \ {g, h} /\ threads_of(p) \in Heads \ {g, h}
          /\ free_processes \in Heads \ {g, h} /\ free_threads \in Heads \ {g, h}
          /\ \A t \in Tcb : t # d => msgs_of(t) \in Heads \ {g, h}
      BY FreeHeads, HeadsByKind
    <3> HIDE DEF g, h
    <3> QED BY <2>6, <3>1
  <2>8. UNCHANGED <<Api!procpart, Api!threadpart>>
    BY <2>4, <2>7 DEF Api!procpart, Api!threadpart, Api!threadvars, Api!procvars
  <2>9. Len(List(g))' = Len(List(g)) + 1
    BY <1>1, <2>3, <2>4, ListGains
  <2>10. ASSUME NEW t \in Tcb, t # d PROVE Queue(msgs_of(t))' = Queue(msgs_of(t))
    <3>1. msgs_of(t) \in MsgHeads /\ msgs_of(t) # h /\ List(msgs_of(t))' = List(msgs_of(t))
      BY <2>7, <2>10, FreeHeads, HeadsByKind
    <3>2. \A j \in Message : j # i => MessageAt(j)' = MessageAt(j)
      BY <2>4 DEF MessageAt, PInv, FieldTypes
    <3> HIDE DEF h
    <3> QED BY <1>1, <2>2, <2>3, <3>1, <3>2, QueueKept
  <2>11. Queue(h)' = RemoveAt(Queue(h), k)
    <3> DEFINE M == [m_sender : Tcb \cup {NULL}, m_value : Values \cup {NULL}]
    <3>1. List(h)' = RemoveAt(q, k)
      BY <1>1, <1>2, <2>3, <2>4, ListsLinked
    <3>2. PICK r : r = RemoveAt(q, k)
      OBVIOUS
    <3>3. /\ r \in Seq(Message) /\ Len(r) = Len(q) - 1 /\ DOMAIN r = 1..(Len(q) - 1)
          /\ \A j \in 1..(Len(q) - 1) : r[j] = IF j < k THEN q[j] ELSE q[j + 1]
      <4>1. /\ r \in Seq(Message) /\ Len(r) = Len(q) - 1
            /\ \A j \in 1..(Len(q) - 1) : r[j] = IF j < k THEN q[j] ELSE q[j + 1]
        BY <1>3, <2>2, <3>2, RemoveAtIs
      <4> QED BY <4>1
    <3> DEFINE At1(x) == [m_sender |-> m_sender'[x], m_value |-> m_value'[x]]
    <3>4. Queue(h)' = [j \in DOMAIN r |-> At1(r[j])]
      BY <3>1, <3>2 DEF Queue, MessageAt
    <3>5. \A j \in 1..Len(q) : j # k => At1(q[j]) = Queue(h)[j]
      BY <1>3, <2>1, <2>2, <2>4 DEF MessageAt, PInv, FieldTypes
    <3>6. PICK w : w = Queue(h)
      OBVIOUS
    <3>7. w \in Seq(M) /\ Len(w) = Len(q)
      BY <1>1, <1>2, <3>6, QueueIs
    <3> HIDE DEF M, At1
    <3>8. /\ RemoveAt(w, k) \in Seq(M) /\ Len(RemoveAt(w, k)) = Len(q) - 1
          /\ \A j \in 1..(Len(q) - 1) : RemoveAt(w, k)[j] = IF j < k THEN w[j] ELSE w[j + 1]
      BY <2>2, <3>7, RemoveAtIs
    <3>9. ASSUME NEW j \in 1..(Len(q) - 1) PROVE At1(r[j]) = RemoveAt(w, k)[j]
      <4>1. j \in 1..Len(q) /\ j + 1 \in 1..Len(q)
        BY <1>3
      <4>2. CASE j < k
        BY <2>2, <3>3, <3>5, <3>6, <3>8, <4>1, <4>2
      <4>3. CASE ~(j < k)
        BY <2>2, <3>3, <3>5, <3>6, <3>8, <4>1, <4>3
      <4> QED BY <4>2, <4>3
    <3>10. RemoveAt(w, k) = [j \in 1..(Len(q) - 1) |-> At1(r[j])]
      <4> DEFINE a == RemoveAt(w, k)
      <4> HIDE DEF a
      <4>1. a \in Seq(M) /\ Len(a) = Len(q) - 1 /\ \A j \in 1..(Len(q) - 1) : At1(r[j]) = a[j]
        BY <3>8, <3>9 DEF a
      <4>2. a = [j \in 1..(Len(q) - 1) |-> a[j]]
        BY <4>1
      <4>3. a = [j \in 1..(Len(q) - 1) |-> At1(r[j])]
        BY <4>1, <4>2
      <4> QED BY <4>3 DEF a
    <3> HIDE DEF h
    <3> QED BY <3>3, <3>4, <3>6, <3>10
  <2>12. queues' = [queues EXCEPT ![d] = RemoveAt(@, k)]
    BY <2>10, <2>11 DEF Thread
  <2>13. Api!msg_free(d, k)
    BY <2>9, <2>12, ApiRemoveAt DEF Api!msg_free, Queue
  <2>14. Api!IsFirstMatch(k, d, s)
    BY <1>4, <2>1 DEF Api!IsFirstMatch
  <2>15. queues[d] = Queue(h) /\ k \in DOMAIN Queue(h) /\ Queue(h)[k] = MessageAt(i)
    BY <1>3, <2>1, <2>2 DEF Thread
  <2>16. /\ k \in DOMAIN queues[d] /\ last' = <<"msgq_get", s, 0, queues[d][k]>>
    BY <1>6, <2>15
  <2> QED
    BY <2>5, <2>8, <2>13, <2>14, <2>16 DEF Api!MsgGet, Queue
<1>7. Found(q, s) = {} \/ \E i \in Found(q, s) : last' = <<"msgq_get", s, 0, MessageAt(i)>> /\ msg_free(i)
  BY <1>2 DEF MsgGet
<1> QED BY <1>5, <1>6, <1>7

-----------------------------------------------------------------------------
(* The theorems.                                                            *)

LEMMA PInvNext ==
  ASSUME PInv, PointersNext
  PROVE  PInv' /\ Api!Calls
<1>1. ASSUME NEW p \in {q \in Proc : InUse(q)} \cup {NULL}, ProcAlloc(p) \/ ThreadAlloc(p)
      PROVE  PInv' /\ Api!Calls
  <2>1. p \in Proc \cup {NULL} /\ p \in {q \in Api!Proc : Api!InUse(q)} \cup {NULL}
    BY DEF InUse, Api!InUse, Proc, Api!Proc, root, Api!root
  <2>2. PInv' /\ (Api!ProcAlloc(p) \/ Api!ThreadAlloc(p))
    BY <1>1, <2>1, ProcAllocIs, ThreadAllocIs
  <2> QED BY <2>1, <2>2 DEF Api!Calls
<1>2. ASSUME NEW p \in Proc, ProcDelete(p)
      PROVE  PInv' /\ Api!Calls
  <2>1. p \in Api!Proc
    BY DEF Proc, Api!Proc
  <2> QED BY <1>2, <2>1, ProcDeleteIs DEF Api!Calls
<1>3. ASSUME NEW t \in Tcb, ThreadFree(t)
      PROVE  PInv' /\ Api!Calls
  <2>1. t \in Api!Tcb
    BY DEF Tcb, Api!Tcb
  <2> QED BY <1>3, <2>1, ThreadFreeIs DEF Api!Calls
<1>4. ASSUME NEW s \in Tcb, NEW d \in Tcb, NEW v \in Values, MsgAdd(s, d, v) \/ MsgAddHead(s, d, v)
      PROVE  PInv' /\ Api!Calls
  <2>1. s \in Api!Tcb /\ d \in Api!Tcb
    BY DEF Tcb, Api!Tcb
  <2>2. PInv' /\ (Api!MsgAdd(s, d, v) \/ Api!MsgAddHead(s, d, v))
    BY <1>4, MsgAddIs, MsgAddHeadIs
  <2> QED BY <2>1, <2>2 DEF Api!Calls
<1>5. ASSUME NEW s \in Tcb \cup {NULL}, NEW d \in Tcb, MsgGet(s, d)
      PROVE  PInv' /\ Api!Calls
  <2>1. s \in Api!Tcb \cup {NULL} /\ d \in Api!Tcb
    BY DEF Tcb, Api!Tcb
  <2> QED BY <1>5, <2>1, MsgGetIs DEF Api!Calls
<1>6. ASSUME QueueCalls
      PROVE  PInv' /\ Api!Calls
  BY <1>6, QueueCallIs
<1> QED BY <1>1, <1>2, <1>3, <1>4, <1>5, <1>6 DEF PointersNext, TableCalls

(* For tables of any size, the lists of mikabooq.c are well linked and hold  *)
(* every descriptor where its fields say (proc_alloc ... msgq_get).          *)
THEOREM DescriptorsAreLinked == PointersSpec => []PInv
<1>1. PointersInit => PInv
  BY PInvInit
<1>2. PInv /\ [PointersNext]_allpointervars => PInv'
  <2> SUFFICES ASSUME PInv, [PointersNext]_allpointervars PROVE PInv'
    OBVIOUS
  <2>1. CASE PointersNext
    BY <2>1, PInvNext
  <2>2. CASE UNCHANGED allpointervars
    BY <2>2, PInvStutters DEF allpointervars
  <2> QED BY <2>1, <2>2
<1> QED BY <1>1, <1>2, PTL DEF PointersSpec

(* OneListEach for tables of any size: list_del and list_add never leave a   *)
(* descriptor on two lists or on none, nor a list that cannot be walked back. *)
THEOREM EachOnOneList == PointersSpec => []OneListEach
<1>1. PInv => OneListEach
  <2> SUFFICES ASSUME PInv PROVE OneListEach
    OBVIOUS
  <2> DEFINE L == Walks(mem)
  <2>1. Lists(mem, L, Links) /\ WellLinked(mem)
    BY DEF PInv, WellLinked
  <2>2. ASSUME NEW c \in Links \cup Heads
        PROVE  mem.prev[mem.next[c]] = c /\ mem.next[mem.prev[c]] = c
    <3>1. \E h \in Heads : \E i \in 0..Len(L[h]), j \in 0..Len(L[h]) :
            c = At(h, L[h], i) /\ c = At(h, L[h], j + 1)
      <4>1. CASE c \in Heads
        <5> HIDE DEF L
        <5>1. Len(L[c]) \in Nat /\ c = At(c, L[c], 0) /\ c = At(c, L[c], Len(L[c]) + 1)
          BY <2>1, <4>1, AtType
        <5>2. 0 \in 0..Len(L[c]) /\ Len(L[c]) \in 0..Len(L[c])
          BY <5>1
        <5> QED BY <4>1, <5>1, <5>2
      <4>2. CASE c \in Links
        <5>1. PICK h \in Heads : On(mem, c, h)
          BY <2>1, <4>2, WalkParts
        <5>2. PICK i \in 1..Len(L[h]) : L[h][i] = c
          BY <5>1 DEF On
        <5> HIDE DEF L
        <5>3. /\ i \in 0..Len(L[h]) /\ i - 1 \in 0..Len(L[h]) /\ (i - 1) + 1 = i
              /\ At(h, L[h], i) = c
          BY <2>1, <5>2, AtType
        <5> QED BY <5>3
      <4> QED BY <4>1, <4>2
    <3>2. PICK h \in Heads : \E i \in 0..Len(L[h]), j \in 0..Len(L[h]) :
            c = At(h, L[h], i) /\ c = At(h, L[h], j + 1)
      BY <3>1
    <3>3. PICK i \in 0..Len(L[h]), j \in 0..Len(L[h]) :
            c = At(h, L[h], i) /\ c = At(h, L[h], j + 1)
      BY <3>2
    <3> HIDE DEF L
    <3>4. mem.prev[mem.next[c]] = c
      <4>1. mem.next[At(h, L[h], i)] = At(h, L[h], i + 1) /\ mem.prev[At(h, L[h], i + 1)] = At(h, L[h], i)
        BY <2>1, RingParts
      <4> QED BY <3>3, <4>1
    <3>5. mem.next[mem.prev[c]] = c
      <4>1. mem.next[At(h, L[h], j)] = At(h, L[h], j + 1) /\ mem.prev[At(h, L[h], j + 1)] = At(h, L[h], j)
        BY <2>1, RingParts
      <4> QED BY <3>3, <4>1
    <3> QED BY <3>4, <3>5
  <2>3. ASSUME NEW c \in Links PROVE Cardinality({h \in Heads : c \in ToSet(Cells(h))}) = 1
    <3>1. PICK g \in Heads : On(mem, c, g)
      BY <2>1, WalkParts
    <3>2. ASSUME NEW h \in Heads PROVE c \in ToSet(Cells(h)) <=> h = g
      <4>1. c \in ToSet(Cells(h)) <=> On(mem, c, h)
        <5>1. Cells(h) = L[h] /\ L[h] \in Seq(Links)
          BY <2>1, ListIs, WalkParts
        <5> HIDE DEF L
        <5>2. DOMAIN L[h] = 1..Len(L[h])
          BY <5>1
        <5> QED BY <5>1, <5>2 DEF ToSet, On, L
      <4> QED BY <2>1, <3>1, <4>1, WalkParts
    <3>3. {h \in Heads : c \in ToSet(Cells(h))} = {g}
      BY <3>2
    <3> QED BY <3>3, FS_Singleton
  <2> QED BY <2>2, <2>3 DEF OneListEach
<1> QED BY <1>1, DescriptorsAreLinked, PTL

LEMMA PromiseInit ==
  ASSUME PointersInit
  PROVE  Api!InitMikabooq
<1>1. WellLinked(mem) /\ Walks(mem) = InitLists /\ PInv
  BY InitLinked, PInvInit
<1>2. \A h \in Heads : List(h) = Ids(InitLists[h]) /\ Len(List(h)) = Len(InitLists[h])
  BY <1>1, ListIs
<1>3. /\ InitLists[free_processes] = ProcCells
      /\ InitLists[free_threads] = ThreadCells
      /\ InitLists[free_messages] = [k \in 1..MAXMSG |-> MessageCells[MAXMSG + 1 - k]]
      /\ \A p \in Proc : InitLists[threads_of(p)] = <<>> /\ InitLists[children_of(p)] = <<>>
      /\ \A t \in Tcb : InitLists[msgs_of(t)] = <<>>
  <2>1. /\ free_processes \in Heads /\ free_threads \in Heads /\ free_messages \in Heads
        /\ free_threads # free_processes /\ free_messages # free_processes
        /\ free_messages # free_threads
    BY FreeHeads, HeadsByKind
  <2>2. \A h \in Heads : h \notin {free_processes, free_threads, free_messages} => InitLists[h] = <<>>
    BY DEF InitLists
  <2>3. /\ \A p \in Proc : /\ threads_of(p) \in Heads \ {free_processes, free_threads, free_messages}
                           /\ children_of(p) \in Heads \ {free_processes, free_threads, free_messages}
        /\ \A t \in Tcb : msgs_of(t) \in Heads \ {free_processes, free_threads, free_messages}
    BY FreeHeads, HeadsByKind
  <2>4. /\ InitLists[free_processes] = ProcCells
        /\ InitLists[free_threads] = ThreadCells
        /\ InitLists[free_messages] = [k \in 1..MAXMSG |-> MessageCells[MAXMSG + 1 - k]]
    BY <2>1 DEF InitLists
  <2> QED BY <2>2, <2>3, <2>4
<1>4. Ids(<<>>) = <<>>
  BY DEF Ids
<1>5. /\ \A p \in Proc : List(threads_of(p)) = <<>> /\ List(children_of(p)) = <<>>
      /\ \A t \in Tcb : List(msgs_of(t)) = <<>>
  BY <1>2, <1>3, <1>4, FreeHeads
<1>6. /\ List(free_processes) = [i \in 1..(MAXPROC - 1) |-> i]
      /\ List(free_threads) = [i \in 1..MAXTHREAD |-> i]
  <2>1. Ids(ProcCells) = [i \in 1..(MAXPROC - 1) |-> i]
    BY TableCells, LinksByKind DEF Ids
  <2>2. Ids(ThreadCells) = [i \in 1..MAXTHREAD |-> i]
    BY TableCells, LinksByKind DEF Ids
  <2> QED BY <1>2, <1>3, <2>1, <2>2, FreeHeads
<1>7. Len(List(free_messages)) = MAXMSG
  <2>1. Len([k \in 1..MAXMSG |-> MessageCells[MAXMSG + 1 - k]]) = MAXMSG
    BY PointersAssumption
  <2> QED BY <1>2, <1>3, <2>1, FreeHeads
<1>8. Api!proc_init
  BY <1>5, <1>6 DEF Api!proc_init, Api!Proc, Api!Mgr, Proc, PointersInit
<1>9. links = Api!init_list_heads(Api!Cell, Api!Sentinel)
  <2>1. SchedCells = Api!Cell
    BY DEF SchedCells, SchedHeads, t_sched, t_wait4me, Thread, Tcb, Api!Cell, Api!Sentinel, Api!t_sched, Api!t_wait4me, Api!readyq,
           Api!blockedq, Api!Thread, Api!Tcb
  <2>2. SchedHeads = Api!Sentinel
    BY DEF SchedHeads, t_wait4me, Thread, Tcb, Api!Sentinel, Api!t_sched, Api!t_wait4me, Api!readyq,
           Api!blockedq, Api!Thread, Api!Tcb
  <2> QED BY <2>1, <2>2 DEF PointersInit, init_list_heads, Api!init_list_heads
<1>10. [t \in Thread |-> IF t \in Tcb THEN LET q == List(msgs_of(t)) IN [i \in DOMAIN q |-> MessageAt(q[i])]
                         ELSE <<>>] = [t \in Thread |-> <<>>]
  <2>1. [i \in DOMAIN <<>> |-> MessageAt(<<>>[i])] = <<>>
    OBVIOUS
  <2> QED BY <1>5, <2>1
<1>11. Api!thread_init
  <2>1. Thread = Api!Thread
    BY DEF Thread, Tcb, Api!Thread, Api!Tcb
  <2>2. t_pcb = [t \in Tcb |-> NULL]
    BY DEF PointersInit
  <2> QED BY <1>6, <1>9, <1>10, <2>1, <2>2 DEF Api!thread_init, Api!T_STATUS_NONE
<1>12. Api!msgq_init
  BY <1>7 DEF Api!msgq_init
<1> QED BY <1>8, <1>11, <1>12 DEF Api!InitMikabooq

(* The pointers of mikabooq.c implement the sequences of Descriptors, for    *)
(* tables of any size: every call leaves the lists as mikabooq.h says.       *)
THEOREM PointersImplementDescriptors == PointersSpec => ImplementsDescriptors
<1>1. PointersInit => Api!InitMikabooq /\ last = <<>>
  BY PromiseInit DEF PointersInit
<1>2. PInv /\ [PointersNext]_allpointervars => [Api!Calls]_(Api!descriptorvars)
  <2> SUFFICES ASSUME PInv, [PointersNext]_allpointervars
               PROVE  [Api!Calls]_(Api!descriptorvars)
    OBVIOUS
  <2>1. CASE PointersNext
    BY <2>1, PInvNext
  <2>2. CASE UNCHANGED allpointervars
    BY <2>2, StuttersIs DEF Api!descriptorvars, allpointervars
  <2> QED BY <2>1, <2>2
<1> QED BY <1>1, <1>2, DescriptorsAreLinked, PTL DEF PointersSpec, ImplementsDescriptors, Api!Promise
-----------------------------------------------------------------------------
(* The scheduling queues, until a thread is freed on stale pointers.         *)

\* the i-th cell of the ring of a queue q that holds the threads s
SchedAt(q, s, i) == IF i \in 1..Len(s) THEN t_sched(s[i]) ELSE q

SchedRing(m, q, s) ==
  \A i \in 0..Len(s) : /\ m.next[SchedAt(q, s, i)] = SchedAt(q, s, i + 1)
                       /\ m.prev[SchedAt(q, s, i + 1)] = SchedAt(q, s, i)

SchedMemory == [next : [SchedCells -> SchedCells \cup {NULL}],
                prev : [SchedCells -> SchedCells \cup {NULL}]]

Absent(K, t) == \A q \in SchedQueues : \A i \in 1..Len(K[q]) : K[q][i] # t

\* K[q] are the threads of the queue q, and a thread is on one queue, once; the
\* pointers of one on none are both NULL if one of them is
QueueLists(m, K) ==
  /\ m \in SchedMemory  /\  K \in [SchedQueues -> Seq(Tcb)]
  /\ \A q \in SchedQueues : SchedRing(m, q, K[q])
  /\ \A g, h \in SchedQueues : \A i \in 1..Len(K[g]), j \in 1..Len(K[h]) :
       K[g][i] = K[h][j] => g = h /\ i = j
  /\ \A t \in Tcb : Absent(K, t) /\ m.next[t_sched(t)] = NULL => m.prev[t_sched(t)] = NULL

LEMMA SchedCellFacts ==
  /\ SchedQueues \subseteq SchedCells
  /\ \A t \in Tcb : t_sched(t) \in SchedCells /\ t_sched(t) \notin SchedQueues
                    /\ container_of(t_sched(t)) = t
  /\ \A t, u \in Tcb : t_sched(t) = t_sched(u) => t = u
  /\ NULL \notin SchedCells
<1>1. SchedQueues \subseteq SchedCells
  BY DEF SchedQueues, SchedCells
<1>2. ASSUME NEW t \in Tcb PROVE t_sched(t) \in SchedCells /\ t_sched(t) \notin SchedQueues
  BY DEF SchedQueues, SchedCells, SchedHeads, t_sched, t_wait4me, Thread
<1> QED BY <1>1, <1>2, LinkAssumption DEF t_sched, container_of

LEMMA SchedParts ==
  ASSUME NEW m, NEW K, QueueLists(m, K), NEW h \in SchedQueues
  PROVE  /\ K[h] \in Seq(Tcb) /\ Len(K[h]) \in Nat
         /\ \A i \in 1..Len(K[h]) : K[h][i] \in Tcb /\ SchedAt(h, K[h], i) = t_sched(K[h][i])
         /\ \A i \in Nat : SchedAt(h, K[h], i) \in SchedCells
         /\ SchedAt(h, K[h], 0) = h /\ SchedAt(h, K[h], Len(K[h]) + 1) = h
         /\ \A i \in 0..Len(K[h]) :
              /\ m.next[SchedAt(h, K[h], i)] = SchedAt(h, K[h], i + 1)
              /\ m.prev[SchedAt(h, K[h], i + 1)] = SchedAt(h, K[h], i)
         /\ \A i \in Nat, t \in Tcb :
              SchedAt(h, K[h], i) = t_sched(t) => i \in 1..Len(K[h]) /\ K[h][i] = t
         /\ \A i, k \in 0..Len(K[h]) : SchedAt(h, K[h], i) = SchedAt(h, K[h], k) => i = k
         /\ \A i, k \in 1..(Len(K[h]) + 1) :
              SchedAt(h, K[h], i) = SchedAt(h, K[h], k) => i = k
<1>1. K[h] \in Seq(Tcb) /\ Len(K[h]) \in Nat /\ \A i \in 1..Len(K[h]) : K[h][i] \in Tcb
  BY DEF QueueLists
<1>2. \A i, k \in 1..Len(K[h]) : K[h][i] = K[h][k] => i = k
  BY DEF QueueLists
<1>3. \A i \in 0..Len(K[h]) :
        /\ m.next[SchedAt(h, K[h], i)] = SchedAt(h, K[h], i + 1)
        /\ m.prev[SchedAt(h, K[h], i + 1)] = SchedAt(h, K[h], i)
  BY DEF QueueLists, SchedRing
<1>4. /\ \A i \in 1..Len(K[h]) : SchedAt(h, K[h], i) = t_sched(K[h][i])
      /\ \A i : i \notin 1..Len(K[h]) => SchedAt(h, K[h], i) = h
  BY DEF SchedAt
<1>5. \A i \in Nat, t \in Tcb :
        SchedAt(h, K[h], i) = t_sched(t) => i \in 1..Len(K[h]) /\ K[h][i] = t
  BY <1>1, <1>4, SchedCellFacts
<1>6. \A i \in 1..Len(K[h]) : SchedAt(h, K[h], i) # h
  BY <1>1, <1>4, SchedCellFacts
<1>7. \A i, k \in 1..Len(K[h]) : SchedAt(h, K[h], i) = SchedAt(h, K[h], k) => i = k
  BY <1>1, <1>2, <1>4, SchedCellFacts
<1>8. \A i \in Nat : SchedAt(h, K[h], i) \in SchedCells
  BY <1>1, <1>4, SchedCellFacts
<1>9. SchedAt(h, K[h], 0) = h /\ SchedAt(h, K[h], Len(K[h]) + 1) = h
  BY <1>1, <1>4
<1>10. /\ \A i, k \in 0..Len(K[h]) : SchedAt(h, K[h], i) = SchedAt(h, K[h], k) => i = k
       /\ \A i, k \in 1..(Len(K[h]) + 1) :
            SchedAt(h, K[h], i) = SchedAt(h, K[h], k) => i = k
  BY <1>1, <1>6, <1>7, <1>9
<1> QED BY <1>1, <1>3, <1>4, <1>5, <1>8, <1>9, <1>10

LEMMA QueuesApart ==
  ASSUME NEW m, NEW K, QueueLists(m, K), NEW g \in SchedQueues, NEW h \in SchedQueues, g # h
  PROVE  \A i, k \in Nat : SchedAt(g, K[g], i) # SchedAt(h, K[h], k)
<1>1. \A i \in 1..Len(K[g]), k \in 1..Len(K[h]) : K[g][i] # K[h][k]
  BY DEF QueueLists
<1>2. /\ \A i \in 1..Len(K[g]) : K[g][i] \in Tcb
      /\ \A i \in 1..Len(K[h]) : K[h][i] \in Tcb
  BY SchedParts
<1> QED BY <1>1, <1>2, SchedCellFacts DEF SchedAt

\* list_add_tail of a thread that is on no queue
LEMMA EnqueuedLists ==
  ASSUME NEW m, NEW K, QueueLists(m, K), NEW t \in Tcb, Absent(K, t), NEW q \in SchedQueues
  PROVE  QueueLists(list_add_tail(m, t_sched(t), q), [K EXCEPT ![q] = Append(@, t)])
<1> DEFINE s == K[q]
           w == Append(s, t)
           T == t_sched(t)
           l == SchedAt(q, s, Len(s))
           n == list_add_tail(m, T, q)
           N == [K EXCEPT ![q] = w]
<1>1. /\ s \in Seq(Tcb) /\ Len(s) \in Nat /\ q \in SchedCells /\ T \in SchedCells /\ T # q
      /\ l \in SchedCells /\ m.prev[q] = l
  <2>1. s \in Seq(Tcb) /\ Len(s) \in Nat
    BY SchedParts
  <2>2. Len(s) \in 0..Len(s)
    BY <2>1
  <2>3. m.prev[SchedAt(q, s, Len(s) + 1)] = l /\ SchedAt(q, s, Len(s) + 1) = q /\ l \in SchedCells
    BY <2>1, <2>2, SchedParts
  <2> QED BY <2>1, <2>3, SchedCellFacts
<1>2. \A h \in SchedQueues, i \in Nat : SchedAt(h, K[h], i) # T
  BY SchedParts DEF Absent
<1>3. l # T
  BY <1>1, <1>2
<1>4. /\ n \in SchedMemory
      /\ \A x \in SchedCells : n.next[x] = IF x = l THEN T ELSE IF x = T THEN q ELSE m.next[x]
      /\ \A x \in SchedCells : n.prev[x] = IF x = T THEN l ELSE IF x = q THEN T ELSE m.prev[x]
  <2>1. m \in SchedMemory
    BY DEF QueueLists
  <2>2. n = [next |-> [m.next EXCEPT ![T] = q, ![l] = T],
             prev |-> [m.prev EXCEPT ![q] = T, ![T] = l]]
    BY <1>1 DEF list_add_tail, __list_add
  <2> HIDE DEF n, l, T
  <2> QED BY <1>1, <1>3, <2>1, <2>2 DEF SchedMemory
<1>5. /\ w \in Seq(Tcb) /\ Len(w) = Len(s) + 1
      /\ \A i \in 1..Len(w) : w[i] = IF i <= Len(s) THEN s[i] ELSE t
  BY <1>1, AppendProperties
<1> HIDE DEF n, w
<1>6. /\ \A i \in 0..Len(s) : SchedAt(q, w, i) = SchedAt(q, s, i)
      /\ SchedAt(q, w, Len(s) + 1) = T /\ SchedAt(q, w, Len(s) + 2) = q
  <2>1. ASSUME NEW i \in 0..Len(s) PROVE SchedAt(q, w, i) = SchedAt(q, s, i)
    <3>1. CASE i = 0
      BY <1>1, <1>5, <3>1 DEF SchedAt
    <3>2. CASE i # 0
      <4>1. i \in 1..Len(s) /\ i \in 1..Len(w) /\ i <= Len(s)
        BY <1>1, <1>5, <3>2
      <4>2. w[i] = s[i]
        BY <1>5, <4>1
      <4> QED BY <4>1, <4>2 DEF SchedAt
    <3> QED BY <3>1, <3>2
  <2>2. Len(s) + 1 \in 1..Len(w) /\ ~(Len(s) + 1 <= Len(s)) /\ Len(s) + 2 \notin 1..Len(w)
    BY <1>1, <1>5
  <2>3. w[Len(s) + 1] = t
    BY <1>5, <2>2
  <2> QED BY <2>1, <2>2, <2>3 DEF SchedAt
<1> HIDE DEF T
<1>7. SchedRing(n, q, w)
  <2> SUFFICES ASSUME NEW i \in 0..Len(w)
               PROVE  /\ n.next[SchedAt(q, w, i)] = SchedAt(q, w, i + 1)
                      /\ n.prev[SchedAt(q, w, i + 1)] = SchedAt(q, w, i)
    BY DEF SchedRing
  <2>1. CASE i < Len(s)
    <3>1. i \in 0..Len(s) /\ i + 1 \in 0..Len(s) /\ i + 1 \in 1..(Len(s) + 1) /\ i # Len(s)
          /\ i + 1 # Len(s) + 1 /\ Len(s) \in 0..Len(s) /\ Len(s) + 1 \in 1..(Len(s) + 1)
          /\ i \in Nat /\ i + 1 \in Nat
      BY <1>1, <2>1
    <3>2. SchedAt(q, s, i) # l /\ SchedAt(q, s, i + 1) # q
      BY <3>1, SchedParts
    <3>3. /\ m.next[SchedAt(q, s, i)] = SchedAt(q, s, i + 1)
          /\ m.prev[SchedAt(q, s, i + 1)] = SchedAt(q, s, i)
          /\ SchedAt(q, s, i) \in SchedCells /\ SchedAt(q, s, i + 1) \in SchedCells
      BY <3>1, SchedParts
    <3>4. SchedAt(q, s, i) # T /\ SchedAt(q, s, i + 1) # T
      BY <1>2, <3>1
    <3>5. SchedAt(q, w, i) = SchedAt(q, s, i) /\ SchedAt(q, w, i + 1) = SchedAt(q, s, i + 1)
      BY <1>6, <3>1
    <3> QED BY <1>4, <3>2, <3>3, <3>4, <3>5
  <2>2. CASE i = Len(s)
    BY <1>1, <1>4, <1>6, <2>2
  <2>3. CASE i = Len(s) + 1
    <3>1. i + 1 = Len(s) + 2
      BY <1>1, <2>3
    <3> QED BY <1>1, <1>3, <1>4, <1>6, <2>3, <3>1
  <2> QED BY <1>1, <1>5, <2>1, <2>2, <2>3
<1>8. ASSUME NEW h \in SchedQueues, h # q PROVE SchedRing(n, h, K[h])
  <2> SUFFICES ASSUME NEW i \in 0..Len(K[h])
               PROVE  /\ n.next[SchedAt(h, K[h], i)] = SchedAt(h, K[h], i + 1)
                      /\ n.prev[SchedAt(h, K[h], i + 1)] = SchedAt(h, K[h], i)
    BY DEF SchedRing
  <2>1. i \in Nat /\ i + 1 \in Nat
    BY SchedParts
  <2>2. /\ SchedAt(h, K[h], i) \in SchedCells /\ SchedAt(h, K[h], i + 1) \in SchedCells
        /\ m.next[SchedAt(h, K[h], i)] = SchedAt(h, K[h], i + 1)
        /\ m.prev[SchedAt(h, K[h], i + 1)] = SchedAt(h, K[h], i)
    BY <2>1, SchedParts
  <2>3. SchedAt(q, s, 0) = q
    BY SchedParts
  <2>4. /\ SchedAt(h, K[h], i) # l /\ SchedAt(h, K[h], i) # T
        /\ SchedAt(h, K[h], i + 1) # q /\ SchedAt(h, K[h], i + 1) # T
    BY <1>1, <1>2, <1>8, <2>1, <2>3, QueuesApart
  <2> QED BY <1>4, <2>2, <2>4
<1>9. N \in [SchedQueues -> Seq(Tcb)] /\ N[q] = w /\ \A h \in SchedQueues : h # q => N[h] = K[h]
  BY <1>5 DEF QueueLists
<1>10. ASSUME NEW g \in SchedQueues, NEW h \in SchedQueues,
              NEW i \in 1..Len(N[g]), NEW j \in 1..Len(N[h]), N[g][i] = N[h][j]
       PROVE  g = h /\ i = j
  <2>1. ASSUME NEW d \in SchedQueues, NEW k \in 1..Len(N[d])
        PROVE  \/ d = q /\ k = Len(s) + 1 /\ N[d][k] = t
               \/ k \in 1..Len(K[d]) /\ N[d][k] = K[d][k] /\ N[d][k] # t
    <3>1. \A e \in SchedQueues : \A o \in 1..Len(K[e]) : K[e][o] # t
      BY DEF Absent
    <3>2. CASE d = q
      BY <1>1, <1>5, <1>9, <3>1, <3>2
    <3>3. CASE d # q
      BY <1>9, <3>1, <3>3
    <3> QED BY <3>2, <3>3
  <2>2. \A e, f \in SchedQueues : \A o \in 1..Len(K[e]), p \in 1..Len(K[f]) :
          K[e][o] = K[f][p] => e = f /\ o = p
    BY DEF QueueLists
  <2> HIDE DEF N
  <2> QED BY <1>10, <2>1, <2>2
<1>11. ASSUME NEW u \in Tcb, Absent(N, u), n.next[t_sched(u)] = NULL
       PROVE  n.prev[t_sched(u)] = NULL
  <2>1. u # t
    <3>1. Len(s) + 1 \in 1..Len(w) /\ w[Len(s) + 1] = t
      BY <1>1, <1>5
    <3> QED BY <1>9, <1>11, <3>1 DEF Absent
  <2>2. Absent(K, u)
    <3> SUFFICES ASSUME NEW d \in SchedQueues, NEW i \in 1..Len(K[d]) PROVE K[d][i] # u
      BY DEF Absent
    <3>1. i \in 1..Len(N[d]) /\ N[d][i] = K[d][i]
      BY <1>1, <1>5, <1>9
    <3> QED BY <1>11, <3>1 DEF Absent
  <2>3. t_sched(u) \in SchedCells /\ t_sched(u) # T /\ t_sched(u) # q
    BY <2>1, SchedCellFacts DEF T
  <2>4. t_sched(u) # l
    BY <1>1, <2>2, SchedParts DEF Absent
  <2> QED BY <1>4, <1>11, <2>2, <2>3, <2>4 DEF QueueLists
<1>12. \A d \in SchedQueues : SchedRing(n, d, N[d])
  BY <1>7, <1>8, <1>9
<1>13. N = [K EXCEPT ![q] = Append(@, t)]
  BY DEF w
<1> HIDE DEF N
<1>14. QueueLists(n, N)
  BY <1>4, <1>9, <1>10, <1>11, <1>12 DEF QueueLists
<1> QED BY <1>13, <1>14 DEF n, T

\* list_del of the j-th thread of a queue
LEMMA TakenOffLists ==
  ASSUME NEW m, NEW K, QueueLists(m, K), NEW q \in SchedQueues, NEW j \in 1..Len(K[q]),
         NEW c, c = t_sched(K[q][j])
  PROVE  QueueLists(list_del(m, c), [K EXCEPT ![q] = RemoveAt(@, j)])
<1> DEFINE s == K[q]
           r == RemoveAt(s, j)
           l == SchedAt(q, s, j - 1)
           x == SchedAt(q, s, j + 1)
           n == list_del(m, c)
           N == [K EXCEPT ![q] = r]
<1>1. /\ s \in Seq(Tcb) /\ Len(s) \in Nat /\ s[j] \in Tcb
      /\ j - 1 \in Nat /\ j + 1 \in Nat /\ j \in Nat
      /\ j - 1 \in 0..Len(s) /\ j \in 0..Len(s) /\ j \in 1..(Len(s) + 1)
      /\ j + 1 \in 1..(Len(s) + 1) /\ (j - 1) + 1 = j
  <2>1. s \in Seq(Tcb) /\ Len(s) \in Nat /\ s[j] \in Tcb
    BY SchedParts
  <2> QED BY <2>1
<1>2. /\ l \in SchedCells /\ x \in SchedCells /\ c = SchedAt(q, s, j)
      /\ m.prev[c] = l /\ m.next[c] = x
  <2>1. l \in SchedCells /\ x \in SchedCells /\ c = SchedAt(q, s, j)
    BY <1>1, SchedParts
  <2>2. m.prev[SchedAt(q, s, (j - 1) + 1)] = SchedAt(q, s, j - 1)
    BY <1>1, SchedParts
  <2>3. m.next[SchedAt(q, s, j)] = SchedAt(q, s, j + 1)
    BY <1>1, SchedParts
  <2> QED BY <1>1, <2>1, <2>2, <2>3
<1>3. /\ n \in SchedMemory
      /\ \A y \in SchedCells : n.next[y] = IF y = l THEN x ELSE m.next[y]
      /\ \A y \in SchedCells : n.prev[y] = IF y = x THEN l ELSE m.prev[y]
  <2>1. m \in SchedMemory
    BY DEF QueueLists
  <2>2. n = [next |-> [m.next EXCEPT ![l] = x], prev |-> [m.prev EXCEPT ![x] = l]]
    BY <1>2 DEF list_del, __list_del
  <2> HIDE DEF n, l, x
  <2> QED BY <1>2, <2>1, <2>2 DEF SchedMemory
<1>4. /\ r \in Seq(Tcb) /\ Len(r) = Len(s) - 1
      /\ \A i \in 1..(Len(s) - 1) : r[i] = IF i < j THEN s[i] ELSE s[i + 1]
  BY <1>1, RemoveAtIs
<1> HIDE DEF n, r
<1>5. ASSUME NEW o \in 0..(Len(r) + 1)
      PROVE  SchedAt(q, r, o) = SchedAt(q, s, IF o < j THEN o ELSE o + 1)
  <2>1. Len(r) = Len(s) - 1 /\ Len(s) \in Nat /\ j \in 1..Len(s)
    BY <1>1, <1>4
  <2>2. CASE o \in 1..Len(r)
    <3>1. r[o] = s[IF o < j THEN o ELSE o + 1] /\ (IF o < j THEN o ELSE o + 1) \in 1..Len(s)
      BY <1>4, <2>1, <2>2
    <3> QED BY <2>2, <3>1 DEF SchedAt
  <2>3. CASE o \notin 1..Len(r)
    <3>1. (IF o < j THEN o ELSE o + 1) \notin 1..Len(s)
      BY <2>1, <2>3
    <3> QED BY <2>3, <3>1 DEF SchedAt
  <2> QED BY <2>2, <2>3
<1>6. SchedRing(n, q, r)
  <2> SUFFICES ASSUME NEW i \in 0..Len(r)
               PROVE  /\ n.next[SchedAt(q, r, i)] = SchedAt(q, r, i + 1)
                      /\ n.prev[SchedAt(q, r, i + 1)] = SchedAt(q, r, i)
    BY DEF SchedRing
  <2> DEFINE k == IF i < j THEN i ELSE i + 1
             k1 == IF i + 1 < j THEN i + 1 ELSE i + 2
  <2>1. SchedAt(q, r, i) = SchedAt(q, s, k) /\ SchedAt(q, r, i + 1) = SchedAt(q, s, k1)
    <3>1. /\ Len(r) \in Nat /\ i \in 0..(Len(r) + 1) /\ i + 1 \in 0..(Len(r) + 1)
          /\ (i + 1) + 1 = i + 2
      BY <1>1, <1>4
    <3> QED BY <1>5, <3>1
  <2>2. k \in 0..Len(s) /\ k1 \in 1..(Len(s) + 1)
    BY <1>1, <1>4
  <2>3. CASE i = j - 1
    <3>1. k = j - 1 /\ k1 = j + 1
      BY <1>1, <2>3
    <3> QED BY <1>2, <1>3, <2>1, <3>1
  <2>4. CASE i # j - 1
    <3>1. k # j - 1 /\ k1 # j + 1 /\ k1 = k + 1
      BY <1>1, <2>4
    <3> HIDE DEF k, k1
    <3>2. SchedAt(q, s, k) # l /\ SchedAt(q, s, k1) # x
      <4>1. \A a, b \in 0..Len(s) : SchedAt(q, s, a) = SchedAt(q, s, b) => a = b
        BY SchedParts
      <4>2. \A a, b \in 1..(Len(s) + 1) : SchedAt(q, s, a) = SchedAt(q, s, b) => a = b
        BY SchedParts
      <4> QED BY <1>1, <2>2, <3>1, <4>1, <4>2
    <3>3. k \in Nat /\ k1 \in Nat
      BY <1>1, <2>2
    <3>4. SchedAt(q, s, k) \in SchedCells /\ SchedAt(q, s, k1) \in SchedCells
      BY <3>3, SchedParts
    <3>5. /\ m.next[SchedAt(q, s, k)] = SchedAt(q, s, k1)
          /\ m.prev[SchedAt(q, s, k1)] = SchedAt(q, s, k)
      BY <2>2, <3>1, SchedParts
    <3> QED BY <1>3, <2>1, <3>2, <3>4, <3>5
  <2> QED BY <2>3, <2>4
<1>7. ASSUME NEW h \in SchedQueues, h # q PROVE SchedRing(n, h, K[h])
  <2> SUFFICES ASSUME NEW i \in 0..Len(K[h])
               PROVE  /\ n.next[SchedAt(h, K[h], i)] = SchedAt(h, K[h], i + 1)
                      /\ n.prev[SchedAt(h, K[h], i + 1)] = SchedAt(h, K[h], i)
    BY DEF SchedRing
  <2>1. i \in Nat /\ i + 1 \in Nat
    BY SchedParts
  <2>2. /\ SchedAt(h, K[h], i) \in SchedCells /\ SchedAt(h, K[h], i + 1) \in SchedCells
        /\ m.next[SchedAt(h, K[h], i)] = SchedAt(h, K[h], i + 1)
        /\ m.prev[SchedAt(h, K[h], i + 1)] = SchedAt(h, K[h], i)
    BY <2>1, SchedParts
  <2>3. SchedAt(h, K[h], i) # l /\ SchedAt(h, K[h], i + 1) # x
    BY <1>1, <1>7, <2>1, QueuesApart
  <2> QED BY <1>3, <2>2, <2>3
<1>8. N \in [SchedQueues -> Seq(Tcb)] /\ N[q] = r /\ \A h \in SchedQueues : h # q => N[h] = K[h]
  BY <1>4 DEF QueueLists
<1>9. ASSUME NEW d \in SchedQueues, NEW k \in 1..Len(N[d])
      PROVE  \E o \in 1..Len(K[d]) : /\ N[d][k] = K[d][o] /\ ~(d = q /\ o = j)
                                     /\ o = IF d = q /\ k >= j THEN k + 1 ELSE k
  <2>1. CASE d = q
    <3> DEFINE o == IF k >= j THEN k + 1 ELSE k
    <3>1. o \in 1..Len(s) /\ r[k] = s[o] /\ o # j
      BY <1>1, <1>4, <1>8, <2>1
    <3> QED BY <1>8, <2>1, <3>1
  <2>2. CASE d # q
    BY <1>8, <2>2
  <2> QED BY <2>1, <2>2
<1> HIDE DEF N
<1>10. ASSUME NEW g \in SchedQueues, NEW h \in SchedQueues,
              NEW i \in 1..Len(N[g]), NEW k \in 1..Len(N[h]), N[g][i] = N[h][k]
       PROVE  g = h /\ i = k
  <2>1. PICK o \in 1..Len(K[g]) : /\ N[g][i] = K[g][o]
                                  /\ o = IF g = q /\ i >= j THEN i + 1 ELSE i
    BY <1>9
  <2>2. PICK p \in 1..Len(K[h]) : /\ N[h][k] = K[h][p]
                                  /\ p = IF h = q /\ k >= j THEN k + 1 ELSE k
    BY <1>9
  <2>3. g = h /\ o = p
    <3>1. \A a, b \in SchedQueues : \A e \in 1..Len(K[a]), f \in 1..Len(K[b]) :
            K[a][e] = K[b][f] => a = b /\ e = f
      BY DEF QueueLists
    <3>2. K[g][o] = K[h][p]
      BY <1>10, <2>1, <2>2
    <3> QED BY <3>1, <3>2
  <2>4. i \in Int /\ k \in Int /\ j \in Int
    BY <1>1, <1>8
  <2> QED BY <2>1, <2>2, <2>3, <2>4
<1>11. ASSUME NEW u \in Tcb, Absent(N, u), n.next[t_sched(u)] = NULL
       PROVE  n.prev[t_sched(u)] = NULL
  <2>0. t_sched(u) \in SchedCells /\ NULL \notin SchedCells
    BY SchedCellFacts
  <2>1. t_sched(u) # l
    BY <1>2, <1>3, <1>11, <2>0
  <2>2. m.next[t_sched(u)] = NULL
    BY <1>3, <1>11, <2>0, <2>1
  <2>3. Absent(K, u)
    <3> SUFFICES ASSUME NEW d \in SchedQueues, NEW i \in 1..Len(K[d]), K[d][i] = u PROVE FALSE
      BY DEF Absent
    <3>1. /\ SchedAt(d, K[d], i) = t_sched(u) /\ i \in 0..Len(K[d]) /\ i + 1 \in Nat
      BY SchedParts
    <3>2. m.next[t_sched(u)] = SchedAt(d, K[d], i + 1) /\ SchedAt(d, K[d], i + 1) \in SchedCells
      BY <3>1, SchedParts
    <3> QED BY <2>0, <2>2, <3>2
  <2>4. m.prev[t_sched(u)] = NULL
    BY <2>2, <2>3 DEF QueueLists
  <2>5. t_sched(u) # x
    <3>1. \A i \in Nat : SchedAt(q, s, i) # t_sched(u)
      BY <2>3, SchedParts DEF Absent
    <3> QED BY <1>1, <3>1
  <2> QED BY <1>3, <2>0, <2>4, <2>5
<1>12. \A d \in SchedQueues : SchedRing(n, d, N[d])
  BY <1>6, <1>7, <1>8
<1>13. QueueLists(n, N)
  BY <1>3, <1>8, <1>10, <1>11, <1>12 DEF QueueLists
<1> QED BY <1>13 DEF n, N, r

\* what the history makes of it
LEMMA DequeuedIs ==
  ASSUME QueueLists(links, queued), NEW t \in Tcb
  PROVE  /\ OnNoQueue(t) <=> Absent(queued, t)
         /\ Absent(queued, t) => Dequeued(t) = queued
         /\ \A q \in SchedQueues : \A j \in 1..Len(queued[q]) :
              queued[q][j] = t => Dequeued(t) = [queued EXCEPT ![q] = RemoveAt(@, j)]
<1>1. /\ queued \in [SchedQueues -> Seq(Tcb)]
      /\ \A q \in SchedQueues : DOMAIN queued[q] = 1..Len(queued[q])
  BY DEF QueueLists
<1>2. OnNoQueue(t) <=> Absent(queued, t)
  BY <1>1 DEF OnNoQueue, Absent, ToSet
<1>3. ASSUME Absent(queued, t) PROVE Dequeued(t) = queued
  <2>1. \A q \in SchedQueues : ~ \E i \in DOMAIN queued[q] : queued[q][i] = t
    BY <1>1, <1>3 DEF Absent
  <2>2. Dequeued(t) = [q \in SchedQueues |-> queued[q]]
    BY <2>1, Zenon DEF Dequeued
  <2> QED BY <1>1, <2>2
<1>4. ASSUME NEW q \in SchedQueues, NEW j \in 1..Len(queued[q]), queued[q][j] = t
      PROVE  Dequeued(t) = [queued EXCEPT ![q] = RemoveAt(@, j)]
  <2>1. \A h \in SchedQueues : \A i \in DOMAIN queued[h] : queued[h][i] = t => h = q /\ i = j
    BY <1>1, <1>4 DEF QueueLists
  <2>2. j \in DOMAIN queued[q] /\ queued[q][j] = t
    BY <1>1, <1>4
  <2>3. (CHOOSE i \in DOMAIN queued[q] : queued[q][i] = t) = j
    BY <2>1, <2>2
  <2>4. ASSUME NEW h \in SchedQueues
        PROVE  Dequeued(t)[h] = IF h = q THEN RemoveAt(queued[q], j) ELSE queued[h]
    <3>1. CASE h = q
      BY <2>2, <2>3, <3>1 DEF Dequeued
    <3>2. CASE h # q
      BY <2>1, <3>2 DEF Dequeued
    <3> QED BY <3>1, <3>2
  <2>5. Dequeued(t) = [h \in SchedQueues |-> Dequeued(t)[h]]
    BY DEF Dequeued
  <2> HIDE DEF Dequeued
  <2>6. [queued EXCEPT ![q] = RemoveAt(@, j)] =
          [h \in SchedQueues |-> IF h = q THEN RemoveAt(queued[q], j) ELSE queued[h]]
    BY <1>1
  <2> QED BY <2>4, <2>5, <2>6
<1> QED BY <1>2, <1>3, <1>4

LEMMA QueueListsInit == PointersInit => QueueLists(links, queued)
<1> SUFFICES ASSUME PointersInit PROVE QueueLists(links, queued)
  OBVIOUS
<1>1. /\ links = [next |-> [c \in SchedCells |-> IF c \in SchedHeads THEN c ELSE NULL],
                  prev |-> [c \in SchedCells |-> IF c \in SchedHeads THEN c ELSE NULL]]
      /\ queued = [q \in SchedQueues |-> <<>>]
  BY DEF PointersInit, init_list_heads
<1>2. links \in SchedMemory /\ queued \in [SchedQueues -> Seq(Tcb)]
  BY <1>1 DEF SchedMemory
<1>3. \A q \in SchedQueues : q \in SchedHeads /\ q \in SchedCells /\ queued[q] = <<>>
  BY <1>1 DEF SchedQueues, SchedCells
<1>4. \A q \in SchedQueues : SchedRing(links, q, queued[q])
  BY <1>1, <1>3 DEF SchedRing, SchedAt
<1>5. \A t \in Tcb : links.prev[t_sched(t)] = links.next[t_sched(t)]
  BY <1>1
<1> QED BY <1>2, <1>3, <1>4, <1>5 DEF QueueLists

LEMMA QueueListsStep ==
  ASSUME QueueLists(links, queued), [PointersNext]_allpointervars, ~stale, ~stale'
  PROVE  QueueLists(links, queued)'
<1> SUFFICES QueueLists(links', queued')
  BY DEF QueueLists, SchedRing, Absent
<1>1. CASE UNCHANGED <<links, queued>>
  BY <1>1
<1>2. ASSUME NEW t \in Tcb, NEW q \in SchedQueues, ThreadEnqueue(t, q)
      PROVE  QueueLists(links', queued')
  <2>1. Absent(queued, t)
    BY <1>2, DequeuedIs DEF ThreadEnqueue
  <2>2. /\ links' = list_add_tail(links, t_sched(t), q)
        /\ queued' = [queued EXCEPT ![q] = Append(@, t)]
    BY <1>2 DEF ThreadEnqueue, thread_enqueue
  <2> QED BY <2>1, <2>2, EnqueuedLists
<1>3. ASSUME NEW q \in SchedQueues, ThreadDequeue(q)
      PROVE  QueueLists(links', queued')
  <2> DEFINE head == list_next(links, q)
  <2>1. CASE head = NULL
    BY <1>1, <1>3, <2>1 DEF ThreadDequeue, pointervars, history
  <2>2. CASE head # NULL
    <3>1. /\ links' = list_del(links, head)
          /\ queued' = Dequeued(container_of(head))
      BY <1>3, <2>2 DEF ThreadDequeue
    <3>2. head = links.next[q] /\ links.next[q] # q
      BY <2>2 DEF list_next, list_empty
    <3>3. /\ Len(queued[q]) \in Nat
          /\ links.next[q] = SchedAt(q, queued[q], 1)
      <4>1. Len(queued[q]) \in Nat /\ 0 \in 0..Len(queued[q]) /\ 0 + 1 = 1
        BY SchedParts
      <4>2. /\ links.next[SchedAt(q, queued[q], 0)] = SchedAt(q, queued[q], 0 + 1)
            /\ SchedAt(q, queued[q], 0) = q
        BY <4>1, SchedParts
      <4> QED BY <4>1, <4>2
    <3>4. 1 \in 1..Len(queued[q]) /\ head = t_sched(queued[q][1])
      BY <3>2, <3>3 DEF SchedAt
    <3>5. queued[q][1] \in Tcb /\ container_of(head) = queued[q][1]
      BY <3>4, SchedParts, SchedCellFacts
    <3>6. queued' = [queued EXCEPT ![q] = RemoveAt(@, 1)]
      BY <3>1, <3>4, <3>5, DequeuedIs
    <3> HIDE DEF head
    <3>7. QueueLists(list_del(links, head), [queued EXCEPT ![q] = RemoveAt(@, 1)])
      BY <3>4, TakenOffLists
    <3> QED BY <3>1, <3>6, <3>7, Zenon
  <2> QED BY <2>1, <2>2
<1>4. ASSUME NEW t \in Tcb, ThreadFree(t), ~UNCHANGED <<links, queued>>
      PROVE  QueueLists(links', queued')
  <2>1. /\ links' = list_del(links, t_sched(t))
        /\ queued' = Dequeued(t)
        /\ stale' = (stale \/ (OnNoQueue(t) /\ links.next[t_sched(t)] # NULL))
    BY <1>4 DEF ThreadFree, t_sched_deleted, pointervars, history
  <2>2. CASE Absent(queued, t)
    <3>1. links.next[t_sched(t)] = NULL /\ links.prev[t_sched(t)] = NULL
      BY <2>1, <2>2, DequeuedIs DEF QueueLists
    <3>2. links' = [next |-> [links.next EXCEPT ![NULL] = NULL],
                    prev |-> [links.prev EXCEPT ![NULL] = NULL]]
      BY <2>1, <3>1 DEF list_del, __list_del
    <3>3. links \in SchedMemory
      BY DEF QueueLists
    <3>4. links' = links
      BY <3>2, <3>3, SchedCellFacts DEF SchedMemory
    <3>5. queued' = queued
      BY <2>1, <2>2, DequeuedIs
    <3> QED BY <1>4, <3>4, <3>5
  <2>3. CASE ~Absent(queued, t)
    <3>1. PICK q \in SchedQueues : \E j \in 1..Len(queued[q]) : queued[q][j] = t
      BY <2>3 DEF Absent
    <3>2. PICK j \in 1..Len(queued[q]) : queued[q][j] = t
      BY <3>1
    <3>3. queued' = [queued EXCEPT ![q] = RemoveAt(@, j)]
      BY <2>1, <3>2, DequeuedIs
    <3>4. QueueLists(list_del(links, t_sched(t)), [queued EXCEPT ![q] = RemoveAt(@, j)])
      BY <3>2, TakenOffLists
    <3> QED BY <2>1, <3>3, <3>4, Zenon
  <2> QED BY <2>2, <2>3
<1>5. ASSUME NEW q \in SchedQueues, ThreadQhead(q) PROVE UNCHANGED <<links, queued>>
  BY <1>5 DEF ThreadQhead, pointervars, history
<1>6. ASSUME TableCalls, UNCHANGED history PROVE UNCHANGED <<links, queued>>
  BY <1>6 DEF TableCalls, history, pointervars, ProcAlloc, ThreadAlloc, ProcDelete, MsgAdd,
     MsgAddHead, NewMessage, MsgGet, msg_free
<1> QED BY <1>1, <1>2, <1>3, <1>4, <1>5, <1>6
        DEF PointersNext, QueueCalls, allpointervars, pointervars, history

\* the flag is never taken back
LEMMA StaleKept == [PointersNext]_allpointervars /\ stale => stale'
  BY DEF PointersNext, TableCalls, QueueCalls, ThreadFree, history, allpointervars

(* Whatever the sizes of the tables and the order of the calls, the          *)
(* scheduling queues hold the threads that were enqueued and not dequeued or *)
(* freed since, first in first out, until a thread is freed whose t_sched    *)
(* still points at a queue it has left: a t_sched that was never written     *)
(* does no harm there, a stale one may (thread_enqueue, thread_dequeue and   *)
(* the list_del of thread_free, mikabooq.c:182).                             *)
THEOREM QueuesHoldUntilStale == PointersSpec => []QueuesUntilStale
<1> DEFINE I == stale \/ QueueLists(links, queued)
<1>1. PointersInit => I
  BY QueueListsInit
<1>2. I /\ [PointersNext]_allpointervars => I'
  BY QueueListsStep, StaleKept
<1>3. I => QueuesUntilStale
  <2> SUFFICES ASSUME QueueLists(links, queued), NEW q \in SchedQueues
               PROVE  Holds(q, queued[q])
    BY DEF QueuesUntilStale
  <2>1. DOMAIN queued[q] = 1..Len(queued[q]) /\ SchedRing(links, q, queued[q])
    BY DEF QueueLists
  <2> QED BY <2>1 DEF Holds, SchedRing, SchedAt
<1> HIDE DEF I
<1> QED BY <1>1, <1>2, <1>3, PTL DEF PointersSpec
=============================================================================
