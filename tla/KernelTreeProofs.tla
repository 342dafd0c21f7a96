-------------------------- MODULE KernelTreeProofs --------------------------
(***************************************************************************)
(* The process tree, the free lists, the counter of threads and what the   *)
(* kernel concludes from it, for every value of the constants.             *)
(***************************************************************************)
EXTENDS KernelListProofs, FiniteSetTheorems

-----------------------------------------------------------------------------
(* Sequences that are lists: what list_add_tail, list_del and taking the    *)
(* head do to the set of their elements.                                    *)

\* where the elements of a sequence are once one of them is removed
LEMMA RemoveAtElements ==
  ASSUME NEW T, NEW s \in Seq(T), NEW i \in 1..Len(s)
  PROVE  /\ RemoveAt(s, i) \in Seq(T)
         /\ Len(RemoveAt(s, i)) = Len(s) - 1
         /\ \A j \in 1..(Len(s) - 1) :
              RemoveAt(s, i)[j] = IF j < i THEN s[j] ELSE s[j + 1]
<1> DEFINE a == SubSeq(s, 1, i - 1)
           b == SubSeq(s, i + 1, Len(s))
<1>1. /\ a \in Seq(T) /\ b \in Seq(T)
      /\ Len(a) = i - 1 /\ Len(b) = Len(s) - i
      /\ \A j \in 1..Len(a) : a[j] = s[j]
      /\ \A j \in 1..Len(b) : b[j] = s[i + j]
  <2>1. \A k \in 1..Len(s) : s[k] \in T
    OBVIOUS
  <2> QED BY <2>1, SubSeqProperties
<1>2. RemoveAt(s, i) = a \o b
  BY DEF RemoveAt
<1> HIDE DEF a, b
<1>3. /\ a \o b \in Seq(T)
      /\ Len(a \o b) = Len(s) - 1
      /\ \A j \in 1..Len(a \o b) :
           (a \o b)[j] = IF j <= Len(a) THEN a[j] ELSE b[j - Len(a)]
  <2>1. Len(a \o b) = Len(a) + Len(b)
    BY <1>1, ConcatProperties
  <2> QED BY <1>1, <2>1, ConcatProperties
<1>4. ASSUME NEW j \in 1..(Len(s) - 1)
      PROVE  (a \o b)[j] = IF j < i THEN s[j] ELSE s[j + 1]
  <2>1. CASE j < i
    <3>1. j \in 1..Len(a)
      BY <1>1, <2>1
    <3> QED BY <1>1, <1>3, <2>1, <3>1
  <2>2. CASE ~(j < i)
    <3> DEFINE k == j - Len(a)
    <3>1. k \in 1..Len(b) /\ i + k = j + 1 /\ ~(j <= Len(a))
      BY <1>1, <2>2
    <3> HIDE DEF k
    <3>2. b[k] = s[j + 1]
      BY <1>1, <3>1
    <3> QED BY <1>3, <2>2, <3>1, <3>2 DEF k
  <2> QED BY <2>1, <2>2
<1> QED BY <1>2, <1>3, <1>4

\* list_add_tail of an element that is not on the list
LEMMA AppendList ==
  ASSUME NEW T, NEW s \in Seq(T), NEW S, IsListOf(s, S), NEW e \in T, e \notin S
  PROVE  IsListOf(Append(s, e), S \cup {e})
<1>1. /\ Len(s) \in Nat
      /\ DOMAIN Append(s, e) = 1..(Len(s) + 1)
      /\ \A i \in 1..Len(s) : Append(s, e)[i] = s[i] /\ s[i] \in S
      /\ Append(s, e)[Len(s) + 1] = e
  BY DEF IsListOf, ToSet
<1>2. \A i \in 1..(Len(s) + 1) : i \in 1..Len(s) \/ i = Len(s) + 1
  BY <1>1
<1>3. IsInjective(Append(s, e))
  BY <1>1, <1>2 DEF IsListOf, IsInjective
<1>4. ToSet(Append(s, e)) = ToSet(s) \cup {e}
  BY <1>1, <1>2 DEF ToSet
<1> QED BY <1>3, <1>4 DEF IsListOf

\* list_del of an element, which may be on the list or not
LEMMA UnlinkList ==
  ASSUME NEW T, NEW s \in Seq(T), NEW S, IsListOf(s, S), NEW e
  PROVE  unlink(s, e) \in Seq(T) /\ IsListOf(unlink(s, e), S \ {e})
<1> DEFINE i == CHOOSE j \in DOMAIN s : s[j] = e
           r == RemoveAt(s, i)
<1>1. CASE \E j \in DOMAIN s : s[j] = e
  <2>1. i \in 1..Len(s) /\ s[i] = e /\ Len(s) \in Nat
    BY <1>1
  <2>2. unlink(s, e) = r
    BY <1>1 DEF unlink
  <2> HIDE DEF i
  <2>3. /\ r \in Seq(T) /\ DOMAIN r = 1..(Len(s) - 1)
        /\ \A j \in 1..(Len(s) - 1) : r[j] = IF j < i THEN s[j] ELSE s[j + 1]
    <3>1. /\ r \in Seq(T) /\ Len(r) = Len(s) - 1
          /\ \A j \in 1..(Len(s) - 1) : r[j] = IF j < i THEN s[j] ELSE s[j + 1]
      BY <2>1, RemoveAtElements
    <3> QED BY <3>1
  <2> HIDE DEF r
  <2>4. \A j, k \in 1..Len(s) : s[j] = s[k] => j = k
    BY DEF IsListOf, IsInjective
  <2> DEFINE at(j) == IF j < i THEN j ELSE j + 1
  <2>5. \A j \in DOMAIN r : at(j) \in 1..Len(s) /\ at(j) # i /\ r[j] = s[at(j)]
    BY <2>1, <2>3
  <2>6. \A j, k \in DOMAIN r : at(j) = at(k) => j = k
    BY <2>1, <2>3
  <2>7. IsInjective(r)
    <3> HIDE DEF at
    <3> QED BY <2>4, <2>5, <2>6 DEF IsInjective
  <2>8. ASSUME NEW x \in ToSet(r) PROVE x \in ToSet(s) \ {e}
    <3>1. PICK j \in DOMAIN r : x = r[j]
      BY <2>8 DEF ToSet
    <3> HIDE DEF at
    <3> QED BY <2>1, <2>4, <2>5, <3>1 DEF ToSet
  <2>9. ASSUME NEW x \in ToSet(s) \ {e} PROVE x \in ToSet(r)
    <3>1. PICK k \in 1..Len(s) : x = s[k] /\ k # i
      BY <2>1, <2>9 DEF ToSet
    <3>2. CASE k < i
      <4>1. k \in DOMAIN r /\ r[k] = x
        BY <2>1, <2>3, <3>1, <3>2
      <4> QED BY <4>1 DEF ToSet
    <3>3. CASE ~(k < i)
      <4> DEFINE j == k - 1
      <4>1. j \in 1..(Len(s) - 1) /\ ~(j < i) /\ j + 1 = k
        BY <2>1, <3>1, <3>3
      <4> HIDE DEF j
      <4>2. j \in DOMAIN r /\ r[j] = x
        BY <2>3, <3>1, <4>1
      <4> QED BY <4>2 DEF ToSet
    <3> QED BY <3>2, <3>3
  <2>10. ToSet(r) = S \ {e}
    BY <2>8, <2>9 DEF IsListOf
  <2> QED BY <2>2, <2>3, <2>7, <2>10 DEF IsListOf
<1>2. CASE ~ \E j \in DOMAIN s : s[j] = e
  <2>1. e \notin S
    BY <1>2 DEF IsListOf, ToSet
  <2>2. S \ {e} = S
    BY <2>1
  <2> QED BY <1>2, <2>2 DEF unlink
<1> QED BY <1>1, <1>2

\* the head of the list is taken
LEMMA TailList ==
  ASSUME NEW T, NEW s \in Seq(T), NEW S, IsListOf(s, S), s # <<>>
  PROVE  /\ Head(s) \in S /\ Head(s) \in T
         /\ Tail(s) \in Seq(T) /\ IsListOf(Tail(s), S \ {Head(s)})
<1>1. /\ Len(s) \in Nat \ {0} /\ Head(s) = s[1] /\ Head(s) \in T /\ Tail(s) \in Seq(T)
      /\ DOMAIN Tail(s) = 1..(Len(s) - 1)
      /\ \A i \in 1..(Len(s) - 1) : Tail(s)[i] = s[i + 1]
  OBVIOUS
<1>2. /\ \A i, j \in 1..Len(s) : s[i] = s[j] => i = j
      /\ \A x : x \in S <=> \E i \in 1..Len(s) : s[i] = x
  BY DEF IsListOf, IsInjective, ToSet
<1>3. \A i \in 1..(Len(s) - 1) : i + 1 \in 1..Len(s) /\ i + 1 # 1 /\ 1 \in 1..Len(s)
  BY <1>1
<1>4. IsInjective(Tail(s))
  <2> SUFFICES ASSUME NEW i \in 1..(Len(s) - 1), NEW j \in 1..(Len(s) - 1),
                      Tail(s)[i] = Tail(s)[j]
               PROVE  i = j
    BY <1>1 DEF IsInjective
  <2>1. i + 1 = j + 1
    BY <1>1, <1>2, <1>3
  <2> QED BY <2>1
<1>5. ASSUME NEW x \in S \ {Head(s)} PROVE x \in ToSet(Tail(s))
  <2>1. PICK k \in 1..Len(s) : s[k] = x
    BY <1>2
  <2> DEFINE i == k - 1
  <2>2. i \in 1..(Len(s) - 1) /\ i + 1 = k
    BY <1>1, <2>1
  <2> HIDE DEF i
  <2>3. Tail(s)[i] = x
    BY <1>1, <2>1, <2>2
  <2> QED BY <1>1, <2>2, <2>3 DEF ToSet
<1>6. ASSUME NEW x \in ToSet(Tail(s)) PROVE x \in S \ {Head(s)}
  <2>1. PICK i \in 1..(Len(s) - 1) : x = Tail(s)[i]
    BY <1>1 DEF ToSet
  <2> QED BY <1>1, <1>2, <1>3, <2>1
<1>7. ToSet(Tail(s)) = S \ {Head(s)}
  BY <1>5, <1>6
<1>8. Head(s) \in S
  BY <1>1, <1>2
<1> QED BY <1>1, <1>4, <1>7, <1>8 DEF IsListOf

\* a list loses its last element only if it had no other
LEMMA UnlinkEmpties ==
  ASSUME NEW T, NEW s \in Seq(T), NEW e, s # <<>>, unlink(s, e) = <<>>
  PROVE  s = <<e>>
<1> DEFINE i == CHOOSE j \in DOMAIN s : s[j] = e
<1>1. CASE \E j \in DOMAIN s : s[j] = e
  <2>1. i \in 1..Len(s) /\ s[i] = e /\ Len(s) \in Nat
    BY <1>1
  <2>2. RemoveAt(s, i) = <<>> /\ DOMAIN s = 1..Len(s)
    BY <1>1 DEF unlink
  <2> HIDE DEF i
  <2>3. Len(s) - 1 = 0
    BY <2>1, <2>2, RemoveAtElements
  <2>4. Len(s) = 1
    BY <2>1, <2>3
  <2>5. s[1] = e
    BY <2>1, <2>4
  <2> QED BY <2>4, <2>5
<1>2. CASE ~ \E j \in DOMAIN s : s[j] = e
  BY <1>2 DEF unlink
<1> QED BY <1>1, <1>2

-----------------------------------------------------------------------------
(* The inductive invariant: the tree and the free lists, whose each process  *)
(* and thread descriptor is of, and where a termination is.                 *)

ThreadLists ==
  /\ \A p \in Proc : IsListOf(p_threads[p], {t \in Tcb : t_pcb[t] = p})
  /\ IsListOf(thread_h, {t \in Tcb : t_pcb[t] = NULL})

ProcLists ==
  /\ \A p \in Proc : IsListOf(p_children[p], {q \in Proc : p_parent[q] = p})
  /\ IsListOf(process_h, {q \in Proc : ~Allocated(q)})

Acyclic ==
  \A S \in SUBSET (Proc \ {root}) : S # {} => \E p \in S : p_parent[p] \notin S

\* of the processes in use, and of the threads that belong to one
Owned ==
  /\ p_parent[root] = NULL
  /\ \A p \in Proc \ {root} : Allocated(p) => Allocated(p_parent[p])
  /\ \A t \in Tcb : t_pcb[t] # NULL => Allocated(t_pcb[t])

Populated ==
  \A p \in Proc \ {root} : Allocated(p) => p_threads[p] # <<>> \/ p \in ToSet(dying)

\* while it terminates, the SSI runs; the victim is a thread of the process it
\* is at, or, when it terminates a single thread, not the only one of a process
TermShape ==
  /\ ssi_pc = "terminate" => Running(SSI)
  /\ ssi_pc # "terminate" => dying = <<>> /\ victim = NULL
  /\ victim # NULL =>
       IF dying = <<>> THEN \A p \in Proc : p_threads[p] # <<victim>>
                       ELSE t_pcb[victim] = dying_proc

TreeInv == ThreadLists /\ ProcLists /\ Acyclic /\ Owned /\ Populated /\ TermShape

\* the variables the tree is made of
treevars == <<t_pcb, thread_h, p_threads, p_parent, p_children, process_h>>

\* a step that leaves the tree and the terminations alone
LEMMA QuietTree ==
  ASSUME TreeInv, UNCHANGED treevars, UNCHANGED <<dying, victim>>,
         ssi_pc' = "terminate" => ssi_pc = "terminate" /\ UNCHANGED runvars,
         ssi_pc' # "terminate" => ssi_pc # "terminate"
  PROVE  TreeInv'
<1>1. ThreadLists' /\ ProcLists' /\ Acyclic' /\ Owned' /\ Populated'
  BY DEF TreeInv, treevars, ThreadLists, ProcLists, Acyclic, Owned, Populated, Allocated
<1>2. TermShape'
  BY DEF TreeInv, treevars, TermShape, dying_proc, Running, runvars
<1> QED BY <1>1, <1>2 DEF TreeInv

\* thread_alloc puts a free descriptor on the list of its process
LEMMA ThreadAllocLists ==
  ASSUME TypeOK, ThreadLists, NEW process \in Proc,
         ~thread_alloc_fails(process), thread_alloc(process)
  PROVE  /\ ThreadLists'
         /\ Head(thread_h) \in Tcb /\ t_pcb[Head(thread_h)] = NULL
         /\ t_pcb' = [t_pcb EXCEPT ![Head(thread_h)] = process]
         /\ p_threads'[process] # <<>>
         /\ \A p \in Proc : p_threads[p] # <<>> => p_threads'[p] # <<>>
<1> USE TypeOKParts, TcbFacts
<1> DEFINE new == Head(thread_h)
           free == {t \in Tcb : t_pcb[t] = NULL}
<1>1. thread_h \in Seq(Tcb) /\ thread_h # <<>> /\ IsListOf(thread_h, free)
  BY DEF thread_alloc_fails, ListTypes, ThreadLists
<1> HIDE DEF free
<1>2. new \in free /\ new \in Tcb /\ IsListOf(Tail(thread_h), free \ {new})
  BY <1>1, TailList
<1>3. /\ thread_h' = Tail(thread_h)
      /\ t_pcb' = [t_pcb EXCEPT ![new] = process]
      /\ p_threads' = [p_threads EXCEPT ![process] = Append(@, new)]
  BY DEF thread_alloc
<1> HIDE DEF new
<1>4. /\ t_pcb'[new] = process /\ t_pcb[new] = NULL
      /\ \A t \in Tcb : t # new => t_pcb'[t] = t_pcb[t]
  BY <1>2, <1>3 DEF ThreadTypes, free
<1>5. IsListOf(thread_h, {t \in Tcb : t_pcb[t] = NULL})'
  <2>1. {t \in Tcb : t_pcb[t] = NULL}' = free \ {new}
    BY <1>2, <1>4 DEF free
  <2> QED BY <1>2, <1>3, <2>1
<1>6. ASSUME NEW p \in Proc
      PROVE  /\ IsListOf(p_threads[p], {t \in Tcb : t_pcb[t] = p})'
             /\ p_threads[p] # <<>> => p_threads'[p] # <<>>
             /\ p = process => p_threads'[p] # <<>>
  <2> DEFINE own == {t \in Tcb : t_pcb[t] = p}
  <2>1. p_threads[p] \in Seq(Tcb) /\ IsListOf(p_threads[p], own)
    BY DEF ListTypes, ThreadLists
  <2>2. CASE p = process
    <3>1. own' = own \cup {new} /\ new \notin own
      BY <1>2, <1>4, <2>2
    <3>2. p_threads'[p] = Append(p_threads[p], new)
      BY <1>3, <2>2 DEF ListTypes
    <3> HIDE DEF own
    <3>3. IsListOf(Append(p_threads[p], new), own \cup {new})
      BY <1>2, <2>1, <3>1, AppendList
    <3>4. Append(p_threads[p], new) # <<>>
      BY <1>2, <2>1
    <3>5. IsListOf(p_threads'[p], own')
      BY <3>1, <3>2, <3>3
    <3>6. p_threads'[p] # <<>>
      BY <3>2, <3>4
    <3> QED BY <3>5, <3>6 DEF own
  <2>3. CASE p # process
    <3>1. own' = own
      BY <1>2, <1>4, <2>3
    <3>2. p_threads'[p] = p_threads[p]
      BY <1>3, <2>3 DEF ListTypes
    <3> QED BY <2>1, <2>3, <3>1, <3>2
  <2> QED BY <2>2, <2>3
<1> QED BY <1>2, <1>3, <1>4, <1>5, <1>6 DEF ThreadLists, new

\* thread_free takes a descriptor off whichever of these lists it is on, and
\* puts it at the end of the free list
LEMMA ThreadFreeLists ==
  ASSUME TypeOK, ThreadLists, NEW old \in Tcb, thread_free(old)
  PROVE  /\ ThreadLists'
         /\ t_pcb' = [t_pcb EXCEPT ![old] = NULL]
         /\ \A p \in Proc : p_threads[p] # <<>> /\ p_threads'[p] = <<>>
                              => p_threads[p] = <<old>> /\ t_pcb[old] = p
<1> USE TypeOKParts, TcbFacts
<1>1. /\ t_pcb' = [t_pcb EXCEPT ![old] = NULL]
      /\ p_threads' = [p \in Proc |-> unlink(p_threads[p], old)]
      /\ thread_h' = Append(unlink(thread_h, old), old)
  BY DEF thread_free
<1>2. t_pcb'[old] = NULL /\ \A t \in Tcb : t # old => t_pcb'[t] = t_pcb[t]
  BY <1>1 DEF ThreadTypes
<1>3. IsListOf(thread_h, {t \in Tcb : t_pcb[t] = NULL})'
  <2> DEFINE free == {t \in Tcb : t_pcb[t] = NULL}
  <2>1. thread_h \in Seq(Tcb) /\ IsListOf(thread_h, free)
    BY DEF ListTypes, ThreadLists
  <2>2. free' = (free \ {old}) \cup {old}
    BY <1>2
  <2> HIDE DEF free
  <2>3. unlink(thread_h, old) \in Seq(Tcb) /\ IsListOf(unlink(thread_h, old), free \ {old})
    BY <2>1, UnlinkList
  <2>4. IsListOf(Append(unlink(thread_h, old), old), (free \ {old}) \cup {old})
    BY <2>3, AppendList
  <2>5. IsListOf(thread_h', free')
    BY <1>1, <2>2, <2>4
  <2> QED BY <2>5 DEF free
<1>4. ASSUME NEW p \in Proc
      PROVE  /\ IsListOf(p_threads[p], {t \in Tcb : t_pcb[t] = p})'
             /\ p_threads[p] # <<>> /\ p_threads'[p] = <<>>
                  => p_threads[p] = <<old>> /\ t_pcb[old] = p
  <2> DEFINE own == {t \in Tcb : t_pcb[t] = p}
  <2>1. p_threads[p] \in Seq(Tcb) /\ IsListOf(p_threads[p], own)
    BY DEF ListTypes, ThreadLists
  <2>2. own' = own \ {old}
    BY <1>2
  <2>3. p_threads'[p] = unlink(p_threads[p], old)
    BY <1>1
  <2>4. \A i \in DOMAIN p_threads[p] : t_pcb[p_threads[p][i]] = p
    BY <2>1 DEF IsListOf, ToSet
  <2>5. p_threads[p] = <<old>> => t_pcb[old] = p
    BY <2>1, <2>4
  <2> HIDE DEF own
  <2>6. IsListOf(unlink(p_threads[p], old), own \ {old})
    BY <2>1, UnlinkList
  <2>7. IsListOf(p_threads'[p], own')
    BY <2>2, <2>3, <2>6
  <2> QED BY <2>1, <2>3, <2>5, <2>7, UnlinkEmpties DEF own
<1> QED BY <1>1, <1>3, <1>4 DEF ThreadLists

\* an empty list is the list of nothing
LEMMA EmptyList ==
  ASSUME NEW s, NEW S, IsListOf(s, S), s = <<>>
  PROVE  S = {}
  BY DEF IsListOf, ToSet

\* proc_alloc puts a free descriptor into the tree, as a leaf
LEMMA ProcAllocTree ==
  ASSUME TypeOK, ProcLists, Acyclic, Owned,
         NEW p \in Proc, Allocated(p), process_h # <<>>, proc_alloc(p)
  PROVE  /\ ProcLists' /\ Acyclic'
         /\ Head(process_h) \in Proc \ {root} /\ ~Allocated(Head(process_h))
         /\ p_parent'[root] = NULL
         /\ \A q \in Proc : Allocated(q)' <=> Allocated(q) \/ q = Head(process_h)
         /\ \A q \in Proc \ {root} : Allocated(q)' => Allocated(p_parent[q])'
<1> USE TypeOKParts, TcbFacts
<1> DEFINE new == Head(process_h)
           free == {q \in Proc : ~Allocated(q)}
<1>1. process_h \in Seq(Proc) /\ IsListOf(process_h, free)
  BY DEF ProcTypes, ProcLists
<1> HIDE DEF free
<1>2. new \in free /\ new \in Proc /\ IsListOf(Tail(process_h), free \ {new})
  BY <1>1, TailList
<1>3. /\ process_h' = Tail(process_h)
      /\ p_parent' = [p_parent EXCEPT ![new] = p]
      /\ p_children' = [p_children EXCEPT ![p] = Append(@, new)]
  BY DEF proc_alloc
<1> HIDE DEF new
<1>4. /\ p_parent[new] = NULL /\ new # root /\ new # p /\ ~Allocated(new)
      /\ p_parent'[new] = p /\ p # NULL
      /\ \A q \in Proc : q # new => p_parent'[q] = p_parent[q]
  BY <1>2, <1>3 DEF ProcTypes, free, Allocated
<1>5. \A q \in Proc : Allocated(q)' <=> Allocated(q) \/ q = new
  BY <1>2, <1>4 DEF Allocated
<1>6. IsListOf(process_h, {q \in Proc : ~Allocated(q)})'
  <2>1. {q \in Proc : ~Allocated(q)}' = free \ {new}
    BY <1>5 DEF free
  <2> QED BY <1>2, <1>3, <2>1
<1>7. ASSUME NEW r \in Proc
      PROVE  IsListOf(p_children[r], {q \in Proc : p_parent[q] = r})'
  <2> DEFINE own == {q \in Proc : p_parent[q] = r}
  <2>1. p_children[r] \in Seq(Proc) /\ IsListOf(p_children[r], own)
    BY DEF ProcTypes, ProcLists
  <2>2. CASE r = p
    <3>1. own' = own \cup {new} /\ new \notin own
      BY <1>2, <1>4, <2>2
    <3>2. p_children'[r] = Append(p_children[r], new)
      BY <1>3, <2>2 DEF ProcTypes
    <3> HIDE DEF own
    <3>3. IsListOf(Append(p_children[r], new), own \cup {new})
      BY <1>2, <2>1, <3>1, AppendList
    <3>4. IsListOf(p_children'[r], own')
      BY <3>1, <3>2, <3>3
    <3> QED BY <3>4 DEF own
  <2>3. CASE r # p
    <3>1. own' = own
      BY <1>2, <1>4, <2>3
    <3>2. p_children'[r] = p_children[r]
      BY <1>3, <2>3 DEF ProcTypes
    <3> QED BY <2>1, <3>1, <3>2
  <2> QED BY <2>2, <2>3
<1>8. \A q \in Proc : p_parent[q] # new
  BY <1>2, <1>4 DEF Owned, Allocated
<1>9. Acyclic'
  <2> SUFFICES ASSUME NEW S \in SUBSET (Proc \ {root}), S # {}
               PROVE  \E q \in S : p_parent'[q] \notin S
    BY DEF Acyclic
  <2>1. CASE S = {new}
    BY <1>4, <2>1
  <2>2. CASE S # {new}
    <3>1. PICK q \in S \ {new} : p_parent[q] \notin S \ {new}
      <4>1. S \ {new} \in SUBSET (Proc \ {root}) /\ S \ {new} # {}
        BY <2>2
      <4> QED BY <4>1 DEF Acyclic
    <3> QED BY <1>4, <1>8, <3>1
  <2> QED BY <2>1, <2>2
<1>10. p_parent'[root] = NULL
  BY <1>4 DEF Owned
<1>11. \A q \in Proc \ {root} : Allocated(q)' => Allocated(p_parent[q])'
  <2> SUFFICES ASSUME NEW q \in Proc \ {root}, Allocated(q)'
               PROVE  Allocated(p_parent[q])'
    OBVIOUS
  <2>1. CASE q = new
    <3>1. Allocated(p)'
      BY <1>5
    <3> QED BY <1>4, <2>1, <3>1 DEF Allocated
  <2>2. CASE q # new
    <3>1. Allocated(q) /\ p_parent'[q] = p_parent[q]
      BY <1>4, <1>5, <2>2
    <3>2. Allocated(p_parent[q]) /\ p_parent[q] \in Proc
      BY <3>1 DEF Owned, Allocated, ProcTypes
    <3> DEFINE r == p_parent[q]
    <3>3. r = root \/ p_parent'[r] # NULL
      BY <1>5, <3>2 DEF Allocated
    <3> QED BY <3>1, <3>3 DEF Allocated
  <2> QED BY <2>1, <2>2
<1> QED BY <1>2, <1>4, <1>5, <1>6, <1>7, <1>9, <1>10, <1>11 DEF ProcLists, new

\* proc_alloc followed by proc_delete only moves a descriptor in the free list
LEMMA ProcReturnTree ==
  ASSUME TypeOK, ProcLists, process_h # <<>>, proc_alloc_and_delete
  PROVE  ProcLists' /\ UNCHANGED <<p_parent, p_children>>
<1> USE TypeOKParts
<1> DEFINE new == Head(process_h)
           free == {q \in Proc : ~Allocated(q)}
<1>1. process_h \in Seq(Proc) /\ IsListOf(process_h, free)
  BY DEF ProcTypes, ProcLists
<1> HIDE DEF free
<1>2. new \in free /\ new \in Proc /\ Tail(process_h) \in Seq(Proc)
      /\ IsListOf(Tail(process_h), free \ {new})
  BY <1>1, TailList
<1> HIDE DEF new
<1>3. IsListOf(Append(Tail(process_h), new), (free \ {new}) \cup {new})
  BY <1>2, AppendList
<1>4. (free \ {new}) \cup {new} = free
  BY <1>2
<1>5. IsListOf(Append(Tail(process_h), new), free)
  BY <1>3, <1>4
<1> QED BY <1>5 DEF ProcLists, Allocated, proc_alloc_and_delete, free, new

\* proc_delete takes a leaf off the tree
LEMMA ProcDeleteTree ==
  ASSUME TypeOK, ProcLists, Acyclic, Owned, ThreadLists,
         NEW p \in Proc, ~proc_delete_fails(p), proc_delete(p)
  PROVE  /\ ProcLists' /\ Acyclic' /\ Allocated(p) /\ p # root
         /\ p_parent'[root] = NULL
         /\ \A q \in Proc : Allocated(q)' <=> Allocated(q) /\ q # p
         /\ \A q \in Proc : p_parent[q] # p
         /\ \A t \in Tcb : t_pcb[t] # p
<1> USE TypeOKParts, TcbFacts
<1> DEFINE par == p_parent[p]
           free == {q \in Proc : ~Allocated(q)}
<1>1. /\ par \in Proc /\ p # root /\ par # NULL
      /\ p_children[p] = <<>> /\ p_threads[p] = <<>>
  BY DEF proc_delete_fails, Owned, ProcTypes
<1>2. /\ p_parent' = [p_parent EXCEPT ![p] = NULL]
      /\ p_children' = [p_children EXCEPT ![par] = unlink(@, p)]
      /\ process_h' = Append(process_h, p)
  BY DEF proc_delete
<1>3. {q \in Proc : p_parent[q] = p} = {} /\ {t \in Tcb : t_pcb[t] = p} = {}
  BY <1>1, EmptyList DEF ProcLists, ThreadLists
<1>4. /\ \A q \in Proc : p_parent[q] # p
      /\ \A t \in Tcb : t_pcb[t] # p
  BY <1>3
<1>5. /\ p_parent'[p] = NULL
      /\ \A q \in Proc : q # p => p_parent'[q] = p_parent[q]
  BY <1>2 DEF ProcTypes
<1>6. Allocated(p) /\ \A q \in Proc : Allocated(q)' <=> Allocated(q) /\ q # p
  BY <1>1, <1>5 DEF Allocated
<1>7. IsListOf(process_h, free)'
  <2>1. process_h \in Seq(Proc) /\ IsListOf(process_h, free) /\ p \notin free
    BY <1>6 DEF ProcTypes, ProcLists
  <2>2. free' = free \cup {p}
    BY <1>6
  <2> HIDE DEF free
  <2>3. IsListOf(Append(process_h, p), free \cup {p})
    BY <2>1, AppendList
  <2> QED BY <1>2, <2>2, <2>3
<1>8. ASSUME NEW r \in Proc
      PROVE  IsListOf(p_children[r], {q \in Proc : p_parent[q] = r})'
  <2> DEFINE own == {q \in Proc : p_parent[q] = r}
  <2>1. p_children[r] \in Seq(Proc) /\ IsListOf(p_children[r], own)
    BY DEF ProcTypes, ProcLists
  <2>2. own' = own \ {p}
    BY <1>5
  <2>3. CASE r = par
    <3>1. p_children'[r] = unlink(p_children[r], p)
      BY <1>2, <2>3 DEF ProcTypes
    <3> HIDE DEF own
    <3>2. IsListOf(unlink(p_children[r], p), own \ {p})
      BY <2>1, UnlinkList
    <3>3. IsListOf(p_children'[r], own')
      BY <2>2, <3>1, <3>2
    <3> QED BY <3>3 DEF own
  <2>4. CASE r # par
    <3>1. p_children'[r] = p_children[r] /\ p \notin own
      BY <1>2, <2>4 DEF ProcTypes
    <3>2. own' = own
      BY <2>2, <3>1
    <3> QED BY <2>1, <3>1, <3>2
  <2> QED BY <2>3, <2>4
<1>9. Acyclic'
  <2> SUFFICES ASSUME NEW S \in SUBSET (Proc \ {root}), S # {}
               PROVE  \E q \in S : p_parent'[q] \notin S
    BY DEF Acyclic
  <2>1. PICK q \in S : p_parent[q] \notin S
    BY DEF Acyclic
  <2>2. NULL \notin S
    OBVIOUS
  <2> QED BY <1>5, <2>1, <2>2
<1>10. p_parent'[root] = NULL
  BY <1>1, <1>5 DEF Owned
<1> QED BY <1>1, <1>4, <1>6, <1>7, <1>8, <1>9, <1>10 DEF ProcLists

-----------------------------------------------------------------------------
(* The actions that change the tree, or where a termination is.              *)

\* a thread is created in a process in use (load_readyq, create_thread_s)
LEMMA NewThreadTree ==
  ASSUME TypeOK, TreeInv, NEW p \in Proc, Allocated(p),
         ~thread_alloc_fails(p), thread_alloc(p),
         UNCHANGED <<p_parent, p_children, process_h, dying, victim>>,
         ssi_pc # "terminate", ssi_pc' # "terminate"
  PROVE  TreeInv'
<1> USE TypeOKParts, TcbFacts
<1>1. /\ ThreadLists'
      /\ Head(thread_h) \in Tcb
      /\ t_pcb' = [t_pcb EXCEPT ![Head(thread_h)] = p]
      /\ \A q \in Proc : p_threads[q] # <<>> => p_threads'[q] # <<>>
  BY ThreadAllocLists DEF TreeInv
<1>2. \A t \in Tcb : t_pcb'[t] \in {p, t_pcb[t]}
  BY <1>1 DEF ThreadTypes
<1>3. ProcLists' /\ Acyclic'
  BY DEF TreeInv, ProcLists, Acyclic, Allocated
<1>4. Owned'
  BY <1>2 DEF TreeInv, Owned, Allocated
<1>5. Populated'
  BY <1>1 DEF TreeInv, Populated, Allocated
<1>6. TermShape'
  BY DEF TreeInv, TermShape
<1> QED BY <1>1, <1>3, <1>4, <1>5, <1>6 DEF TreeInv

\* a process is created, with its first thread (create_process_s)
LEMMA NewProcessTree ==
  ASSUME TypeOK, TreeInv, NEW p \in Proc, Allocated(p), process_h # <<>>,
         proc_alloc(p), ~thread_alloc_fails(Head(process_h)),
         thread_alloc(Head(process_h)),
         UNCHANGED <<dying, victim>>, ssi_pc # "terminate", ssi_pc' # "terminate"
  PROVE  TreeInv'
<1> USE TypeOKParts, TcbFacts
<1> DEFINE new == Head(process_h)
           t0  == Head(thread_h)
<1>1. /\ ProcLists' /\ Acyclic'
      /\ new \in Proc \ {root} /\ ~Allocated(new)
      /\ p_parent'[root] = NULL
      /\ \A q \in Proc : Allocated(q)' <=> Allocated(q) \/ q = new
      /\ \A q \in Proc \ {root} : Allocated(q)' => Allocated(p_parent[q])'
  BY ProcAllocTree DEF TreeInv
<1>2. /\ ThreadLists' /\ t0 \in Tcb
      /\ t_pcb' = [t_pcb EXCEPT ![t0] = new]
      /\ p_threads'[new] # <<>>
      /\ \A q \in Proc : p_threads[q] # <<>> => p_threads'[q] # <<>>
  BY <1>1, ThreadAllocLists DEF TreeInv
<1> HIDE DEF new, t0
<1>3. \A t \in Tcb : t_pcb'[t] \in {new, t_pcb[t]}
  BY <1>2 DEF ThreadTypes
<1>4. Owned'
  <2>1. \A t \in Tcb : t_pcb'[t] # NULL => Allocated(t_pcb[t])'
    <3> SUFFICES ASSUME NEW t \in Tcb, t_pcb'[t] # NULL
                 PROVE  t_pcb'[t] = root \/ p_parent'[t_pcb'[t]] # NULL
      BY DEF Allocated
    <3>1. \A q \in Proc : Allocated(q) \/ q = new => q = root \/ p_parent'[q] # NULL
      BY <1>1 DEF Allocated
    <3>2. t_pcb[t] \in Proc \cup {NULL}
      BY DEF ThreadTypes
    <3> QED BY <1>1, <1>3, <3>1, <3>2 DEF TreeInv, Owned
  <2> QED BY <1>1, <2>1 DEF Owned
<1>5. Populated'
  BY <1>1, <1>2 DEF TreeInv, Populated
<1>6. TermShape'
  BY DEF TreeInv, TermShape
<1> QED BY <1>1, <1>2, <1>4, <1>5, <1>6 DEF TreeInv

\* the services that terminate begin
LEMMA BeginTerminationTree ==
  ASSUME TInv, TreeInv, ServeTerminateProcess \/ terminate_thread_s \/ __setmgr
  PROVE  TreeInv'
<1> USE TypeOKParts, TcbFacts DEF TInv
<1>1. /\ Running(SSI) /\ ssi_pc = "serve" /\ dying = <<>> /\ victim = NULL
      /\ applicant \in Tcb
  <2>1. Running(SSI) /\ ssi_pc = "serve"
    BY DEF ServeTerminateProcess, terminate_thread_s, __setmgr, Serving
  <2> QED BY <2>1, ServedFacts DEF TreeInv, TermShape
<1>2. CASE terminate_process_s
  <2>1. /\ UNCHANGED treevars /\ UNCHANGED runvars
        /\ victim' = NULL /\ ssi_pc' = "terminate"
    BY <1>2 DEF terminate_process_s, treevars, mikabooqvars, threadvars, procvars
  <2>2. ThreadLists' /\ ProcLists' /\ Acyclic' /\ Owned'
    BY <2>1 DEF TreeInv, treevars, ThreadLists, ProcLists, Acyclic, Owned, Allocated
  <2>3. \A x : x \notin ToSet(dying)
    BY <1>1 DEF ToSet
  <2>4. Populated'
    BY <2>1, <2>3 DEF TreeInv, treevars, Populated, Allocated
  <2>5. TermShape'
    BY <1>1, <2>1 DEF TermShape, Running, runvars
  <2> QED BY <2>2, <2>4, <2>5 DEF TreeInv
<1>3. CASE /\ terminate_thread_s
           /\ ~ \E p \in Proc : t_pcb[applicant] = p /\ p_threads[p] = <<applicant>>
  <2>1. /\ UNCHANGED treevars /\ UNCHANGED runvars
        /\ dying' = <<>> /\ victim' = applicant /\ ssi_pc' = "terminate"
    BY <1>3 DEF terminate_thread_s, StartTerminating, treevars, threadvars, procvars
  <2>2. ThreadLists' /\ ProcLists' /\ Acyclic' /\ Owned'
    BY <2>1 DEF TreeInv, treevars, ThreadLists, ProcLists, Acyclic, Owned, Allocated
  <2>3. Populated'
    BY <1>1, <2>1 DEF TreeInv, treevars, Populated, Allocated
  <2>4. ASSUME NEW p \in Proc, p_threads[p] = <<applicant>> PROVE FALSE
    <3>1. applicant \in ToSet(p_threads[p])
      BY <2>4 DEF ToSet
    <3>2. t_pcb[applicant] = p
      BY <3>1 DEF TreeInv, ThreadLists, IsListOf
    <3> QED BY <1>3, <2>4, <3>2
  <2>5. TermShape'
    BY <1>1, <2>1, <2>4 DEF TermShape, Running, runvars, treevars
  <2> QED BY <2>2, <2>3, <2>5 DEF TreeInv
<1>4. CASE UNCHANGED treevars /\ UNCHANGED <<dying, victim>> /\ ssi_pc' # "terminate"
  BY <1>1, <1>4, QuietTree
<1>5. WildAccess => UNCHANGED treevars /\ UNCHANGED <<dying, victim>> /\ ssi_pc' # "terminate"
  BY <1>1 DEF WildAccess, treevars, mikabooqvars, threadvars, procvars, ssivars, termvars
<1>6. CASE ServeTerminateProcess
  BY <1>2, <1>4, <1>5, <1>6 DEF ServeTerminateProcess
<1>7. CASE terminate_thread_s
  BY <1>2, <1>3, <1>7 DEF terminate_thread_s
<1>8. CASE __setmgr
  <2>1. \/ Answered /\ UNCHANGED treevars /\ UNCHANGED <<dying, victim>>
        \/ WildAccess
        \/ terminate_process_s
    BY <1>8 DEF __setmgr, treevars, mikabooqvars, threadvars, procvars, termvars
  <2> QED BY <1>2, <1>4, <1>5, <2>1 DEF Answered
<1> QED BY <1>6, <1>7, <1>8

\* what is on the stack of nested calls and not in the calls below the last
LEMMA FrontLastElements ==
  ASSUME NEW T, NEW s \in Seq(T), s # <<>>
  PROVE  /\ Last(s) \in T /\ Last(s) \in ToSet(s)
         /\ \A x \in ToSet(s) : x \in ToSet(Front(s)) \/ x = Last(s)
         /\ Len(s) = 1 => Front(s) = <<>>
<1>1. /\ Len(s) \in Nat \ {0} /\ Last(s) = s[Len(s)]
      /\ Front(s) = SubSeq(s, 1, Len(s) - 1)
  BY DEF Last, Front
<1>2. /\ Len(Front(s)) = Len(s) - 1 /\ DOMAIN Front(s) = 1..(Len(s) - 1)
      /\ \A j \in 1..(Len(s) - 1) : Front(s)[j] = s[j]
  <2> DEFINE n == Len(s) - 1
             f == SubSeq(s, 1, n)
  <2>1. n \in Nat /\ n \in Int /\ 1 \in Int /\ \A j \in 1..n : s[j] \in T
    BY <1>1
  <2> HIDE DEF n
  <2>2. /\ f \in Seq(T) /\ Len(f) = IF 1 <= n THEN n - 1 + 1 ELSE 0
        /\ \A j \in 1..(n - 1 + 1) : f[j] = s[1 + j - 1]
    BY <2>1, SubSeqProperties
  <2>3. /\ f \in Seq(T) /\ Len(f) = n /\ \A j \in 1..n : f[j] = s[j]
    BY <2>1, <2>2
  <2> HIDE DEF f
  <2>4. DOMAIN f = 1..n
    BY <2>3
  <2> QED BY <1>1, <2>3, <2>4 DEF f, n
<1>3. \A x \in ToSet(s) : x \in ToSet(Front(s)) \/ x = Last(s)
  <2> SUFFICES ASSUME NEW i \in 1..Len(s), s[i] # Last(s)
               PROVE  s[i] \in ToSet(Front(s))
    BY DEF ToSet
  <2>1. i \in 1..(Len(s) - 1)
    BY <1>1
  <2> QED BY <1>2, <2>1 DEF ToSet
<1>4. Last(s) \in T /\ Last(s) \in ToSet(s)
  BY <1>1 DEF ToSet
<1>5. Len(s) = 1 => Front(s) = <<>>
  BY <1>1
<1> QED BY <1>3, <1>4, <1>5

\* the turns of the loops of __terminate_process_s and __terminate_thread_s
LEMMA TerminateTree ==
  ASSUME TInv, TreeInv, PickThread \/ ResumeWaiter \/ FreeVictim \/ PickChild \/ DeleteProcess
  PROVE  TreeInv'
<1> USE TypeOKParts, TcbFacts DEF TInv
<1>0. /\ Running(SSI) /\ ssi_pc = "terminate" /\ UNCHANGED runvars
      /\ dying \in Seq(Proc)
      /\ dying # <<>> => dying_proc \in Proc
  <2>1. Terminating /\ UNCHANGED runvars
    BY DEF PickThread, ResumeWaiter, FreeVictim, PickChild, DeleteProcess
  <2>2. dying \in Seq(Proc)
    BY DEF TermTypes
  <2> QED BY <2>1, <2>2, FrontLastElements DEF Terminating, dying_proc
<1>1. ASSUME UNCHANGED treevars
      PROVE  ThreadLists' /\ ProcLists' /\ Acyclic' /\ Owned'
  BY <1>1 DEF TreeInv, treevars, ThreadLists, ProcLists, Acyclic, Owned, Allocated
<1>2. CASE PickThread
  <2> DEFINE t == Head(p_threads[dying_proc])
  <2>1. /\ UNCHANGED treevars /\ UNCHANGED <<dying, ssi_pc>> /\ victim' = t
        /\ dying # <<>> /\ p_threads[dying_proc] # <<>>
    BY <1>2 DEF PickThread, StartTerminating, treevars, threadvars, procvars, ssivars
  <2>2. t_pcb[t] = dying_proc
    <3>1. IsListOf(p_threads[dying_proc], {u \in Tcb : t_pcb[u] = dying_proc})
      BY <1>0, <2>1 DEF TreeInv, ThreadLists
    <3>2. p_threads[dying_proc] \in Seq(Tcb)
      BY <1>0, <2>1 DEF ListTypes
    <3>3. t \in {u \in Tcb : t_pcb[u] = dying_proc}
      BY <2>1, <3>1, <3>2, TailList
    <3> QED BY <3>3
  <2>3. Populated'
    BY <2>1 DEF TreeInv, treevars, Populated, Allocated
  <2>4. TermShape'
    BY <1>0, <2>1, <2>2 DEF TermShape, dying_proc, Running, runvars, treevars
  <2> QED BY <1>1, <2>1, <2>3, <2>4 DEF TreeInv
<1>3. CASE ResumeWaiter
  <2>1. /\ UNCHANGED treevars /\ UNCHANGED <<dying, victim, ssi_pc>>
    BY <1>3 DEF ResumeWaiter, resume_thread, treevars, procvars, ssivars, termvars
  <2> QED BY <1>0, <2>1, QuietTree
<1>4. CASE FreeVictim
  <2>1. /\ victim \in Tcb /\ thread_free(victim) /\ victim' = NULL
        /\ UNCHANGED <<p_parent, p_children, process_h, dying>>
        /\ dying = <<>> => ssi_pc' = "recv"
        /\ dying # <<>> => ssi_pc' = ssi_pc
    BY <1>4 DEF FreeVictim, Done, procvars, ssivars, TermTypes
  <2>2. /\ ThreadLists'
        /\ t_pcb' = [t_pcb EXCEPT ![victim] = NULL]
        /\ \A p \in Proc : p_threads[p] # <<>> /\ p_threads'[p] = <<>>
                             => p_threads[p] = <<victim>> /\ t_pcb[victim] = p
    BY <2>1, ThreadFreeLists DEF TreeInv
  <2>3. ProcLists' /\ Acyclic'
    BY <2>1 DEF TreeInv, ProcLists, Acyclic, Allocated
  <2>4. Owned'
    <3>1. \A t \in Tcb : t_pcb'[t] \in {t_pcb[t], NULL}
      BY <2>2 DEF ThreadTypes
    <3> QED BY <2>1, <3>1 DEF TreeInv, Owned, Allocated
  <2>5. Populated'
    <3> SUFFICES ASSUME NEW p \in Proc \ {root}, Allocated(p), p_threads'[p] = <<>>
                 PROVE  p \in ToSet(dying)
      BY <2>1 DEF Populated, Allocated
    <3>1. CASE p_threads[p] = <<>>
      BY <3>1 DEF TreeInv, Populated
    <3>2. CASE p_threads[p] # <<>>
      <4>1. p_threads[p] = <<victim>> /\ t_pcb[victim] = p
        BY <2>2, <3>2
      <4>2. dying # <<>> /\ dying_proc = p
        BY <2>1, <4>1 DEF TreeInv, TermShape
      <4> QED BY <1>0, <4>2, FrontLastElements DEF dying_proc
    <3> QED BY <3>1, <3>2
  <2>6. TermShape'
    BY <1>0, <2>1 DEF TermShape, Running, runvars
  <2> QED BY <2>2, <2>3, <2>4, <2>5, <2>6 DEF TreeInv
<1>5. CASE PickChild
  <2> DEFINE child == Head(p_children[dying_proc])
  <2>1. /\ UNCHANGED treevars /\ UNCHANGED <<victim, ssi_pc>> /\ victim = NULL
        /\ dying' = Append(dying, child)
    BY <1>5 DEF PickChild, treevars, mikabooqvars, threadvars, procvars, ssivars
  <2>2. ToSet(dying) \subseteq ToSet(dying')
    <3>1. \A i \in DOMAIN dying : i \in DOMAIN dying' /\ dying'[i] = dying[i]
      BY <1>0, <2>1
    <3> QED BY <3>1 DEF ToSet
  <2>3. Populated'
    BY <2>1, <2>2 DEF TreeInv, treevars, Populated, Allocated
  <2>4. TermShape'
    BY <1>0, <2>1 DEF TermShape, Running, runvars
  <2> QED BY <1>1, <2>1, <2>3, <2>4 DEF TreeInv
<1>6. CASE DeleteProcess
  <2> DEFINE p == dying_proc
  <2>1. /\ victim = NULL /\ victim' = NULL /\ dying # <<>> /\ p \in Proc
        /\ p_threads[p] = <<>> /\ p_children[p] = <<>>
        /\ dying' = Front(dying) /\ proc_delete(p)
        /\ IF Len(dying) = 1 THEN ssi_pc' = "recv" ELSE UNCHANGED ssi_pc
        /\ UNCHANGED <<t_pcb, thread_h, p_threads>>
    BY <1>0, <1>6 DEF DeleteProcess, Done, ssivars, threadvars
  <2>2. \A q \in ToSet(dying) : q \in ToSet(dying') \/ q = p
    BY <1>0, <2>1, FrontLastElements DEF dying_proc
  <2>3. TermShape'
    <3>1. Len(dying) = 1 => dying' = <<>>
      BY <1>0, <2>1, FrontLastElements
    <3> QED BY <1>0, <2>1, <3>1 DEF TermShape, Running, runvars
  <2>4. CASE proc_delete_fails(p)
    <3>1. UNCHANGED treevars
      BY <2>1, <2>4 DEF proc_delete, treevars, procvars
    <3>2. p = root \/ ~Allocated(p)
      BY <2>1, <2>4 DEF proc_delete_fails, Allocated
    <3>3. Populated'
      <4> HIDE DEF p
      <4> QED BY <2>2, <3>1, <3>2 DEF TreeInv, treevars, Populated, Allocated
    <3> QED BY <1>1, <2>3, <3>1, <3>3 DEF TreeInv
  <2>5. CASE ~proc_delete_fails(p)
    <3>1. /\ ProcLists' /\ Acyclic'
          /\ p_parent'[root] = NULL
          /\ \A q \in Proc : Allocated(q)' <=> Allocated(q) /\ q # p
          /\ \A q \in Proc : p_parent[q] # p
          /\ \A t \in Tcb : t_pcb[t] # p
      <4> HIDE DEF p
      <4> QED BY <2>1, <2>5, ProcDeleteTree DEF TreeInv
    <3>2. ThreadLists'
      BY <2>1 DEF TreeInv, ThreadLists
    <3>3. \A q \in Proc : q # p => p_parent'[q] = p_parent[q]
      BY <2>1, <2>5 DEF proc_delete, ProcTypes
    <3> HIDE DEF p
    <3>4. \A q \in Proc : Allocated(q) /\ q # p => q = root \/ p_parent'[q] # NULL
      BY <3>1 DEF Allocated
    <3>5. Owned'
      <4>1. \A q \in Proc \ {root} : Allocated(q)' => Allocated(p_parent[q])'
        <5> SUFFICES ASSUME NEW q \in Proc \ {root}, Allocated(q)'
                     PROVE  p_parent'[q] = root \/ p_parent'[p_parent'[q]] # NULL
          BY DEF Allocated
        <5>1. /\ Allocated(q) /\ q # p /\ p_parent'[q] = p_parent[q]
              /\ p_parent[q] # p /\ p_parent[q] \in Proc
          BY <3>1, <3>3 DEF Allocated, ProcTypes
        <5>2. Allocated(p_parent[q])
          BY <5>1 DEF TreeInv, Owned
        <5> QED BY <3>4, <5>1, <5>2
      <4>2. \A t \in Tcb : t_pcb'[t] # NULL => Allocated(t_pcb[t])'
        <5> SUFFICES ASSUME NEW t \in Tcb, t_pcb[t] # NULL
                     PROVE  t_pcb[t] = root \/ p_parent'[t_pcb[t]] # NULL
          BY <2>1 DEF Allocated
        <5>1. Allocated(t_pcb[t]) /\ t_pcb[t] # p /\ t_pcb[t] \in Proc
          BY <3>1 DEF TreeInv, Owned, ThreadTypes
        <5> QED BY <3>4, <5>1
      <4> QED BY <3>1, <4>1, <4>2 DEF Owned
    <3>6. Populated'
      BY <2>1, <2>2, <3>1 DEF TreeInv, Populated
    <3> QED BY <2>3, <3>1, <3>2, <3>5, <3>6 DEF TreeInv
  <2> QED BY <2>4, <2>5
<1> QED BY <1>2, <1>3, <1>4, <1>5, <1>6

\* no other action changes the tree
LEMMA OtherTree ==
  ASSUME TInv, TreeInv,
         \/ LoadSSI \/ Scheduler \/ Interrupt \/ (\E t \in Tcb : Program(t)),
         UNCHANGED termvars
  PROVE  TreeInv'
<1>1. /\ UNCHANGED treevars /\ UNCHANGED <<dying, victim>>
      /\ ssi_pc' \in {ssi_pc, "serve"}
  <2>1. CASE LoadSSI
    BY <2>1 DEF LoadSSI, treevars, procvars, ssivars, termvars
  <2>2. CASE Scheduler
    BY <2>2 DEF Scheduler, Dispatch, empty_readyq_h, treevars, mikabooqvars, threadvars,
       procvars, ssivars, termvars
  <2>3. CASE Interrupt
    BY <2>3 DEF Interrupt, interval_timer_h, TerminalDone, acknowledge, send,
       resume_thread, treevars, mikabooqvars, threadvars, procvars, ssivars, termvars
  <2>4. CASE \E t \in Tcb : Program(t)
    BY <2>4 DEF Program, Send, Recv, Ask, AwaitReply, SsiReturns, send, resume_thread,
       recv_blocks, recv_takes, treevars, threadvars, procvars, ssivars, termvars
  <2> QED BY <2>1, <2>2, <2>3, <2>4
<1>2. ASSUME ssi_pc = "terminate"
      PROVE  UNCHANGED runvars /\ ssi_pc' = "terminate"
  <2>1. Running(SSI)
    BY <1>2 DEF TreeInv, TermShape
  <2>2. TerminalDone
    BY <2>1, TcbFacts DEF LoadSSI, Scheduler, Dispatch, empty_readyq_h, Interrupt,
       interval_timer_h, acknowledge, InterruptsEnabled, Program, Send, Recv, Ask,
       AwaitReply, Running
  <2> QED BY <1>2, <2>2 DEF TerminalDone, ssivars
<1> QED BY <1>1, <1>2, QuietTree

\* every step of the kernel keeps the tree, also past stale
LEMMA TreeStep == TInv /\ TreeInv /\ [Next]_vars => TreeInv'
<1> SUFFICES ASSUME TInv, TreeInv, [Next]_vars PROVE TreeInv'
  OBVIOUS
<1> USE TypeOKParts, TcbFacts DEF TInv
<1>1. CASE UNCHANGED vars
  BY <1>1, QuietTree DEF vars, nucleusvars, mikabooqvars, threadvars, procvars,
     runvars, ssivars, termvars, treevars
<1>2. CASE LoadThread /\ UNCHANGED termvars
  <2>1. ssi_pc # "terminate" /\ ssi_pc' = ssi_pc
    BY <1>2 DEF LoadThread, ssivars, TreeInv, TermShape, Running
  <2>2. Allocated(root)
    BY DEF Allocated
  <2> QED BY <1>2, <2>1, <2>2, NewThreadTree DEF LoadThread, procvars, termvars
<1>3. CASE SsiReceive \/ SsiReply \/ ServeGet \/ do_io_s
  <2>1. UNCHANGED treevars /\ UNCHANGED <<dying, victim>>
    BY <1>3 DEF SsiReceive, SsiReply, ServeGet, do_io_s, recv_blocks, recv_takes, send,
       resume_thread, treevars, mikabooqvars, threadvars, procvars, termvars
  <2>2. ssi_pc # "terminate" /\ ssi_pc' # "terminate"
    BY <1>3 DEF SsiReceive, SsiReply, ServeGet, do_io_s, Serving, Done, Answered, ssivars
  <2> QED BY <2>1, <2>2, QuietTree
<1>4. CASE create_thread_s \/ create_process_s
  <2>0. /\ ssi_pc = "serve" /\ ssi_pc' = "reply" /\ UNCHANGED <<dying, victim>>
        /\ applicant \in Tcb
    <3>1. Running(SSI) /\ ssi_pc = "serve"
      BY <1>4 DEF create_thread_s, create_process_s, Serving
    <3> QED
      BY <1>4, <3>1, ServedFacts DEF create_thread_s, create_process_s, Answered, termvars
  <2> DEFINE p == t_pcb[applicant]
  <2>1. p \in Proc \cup {NULL} /\ (p # NULL => Allocated(p))
    BY <2>0 DEF ThreadTypes, TreeInv, Owned
  <2> HIDE DEF p
  <2>2. CASE UNCHANGED treevars
    BY <2>0, <2>2, QuietTree
  <2>3. CASE ~thread_alloc_fails(p) /\ thread_alloc(p) /\ UNCHANGED procvars
    <3>1. p # NULL
      BY <2>3 DEF thread_alloc_fails
    <3> QED BY <2>0, <2>1, <2>3, <3>1, NewThreadTree DEF procvars
  <2>4. CASE /\ ~proc_alloc_fails(p) /\ proc_alloc_and_delete
             /\ UNCHANGED <<t_pcb, thread_h, p_threads>>
    <3>1. ProcLists' /\ UNCHANGED <<p_parent, p_children>>
      BY <2>4, ProcReturnTree DEF TreeInv, proc_alloc_fails
    <3>2. ThreadLists' /\ Acyclic' /\ Owned' /\ Populated' /\ TermShape'
      BY <2>0, <2>4, <3>1
         DEF TreeInv, ThreadLists, Acyclic, Owned, Populated, Allocated, TermShape
    <3> QED BY <3>1, <3>2 DEF TreeInv
  <2>5. CASE /\ ~proc_alloc_fails(p) /\ ~thread_alloc_fails(Head(process_h))
             /\ proc_alloc(p) /\ thread_alloc(Head(process_h))
    <3>1. p # NULL /\ process_h # <<>>
      BY <2>5 DEF proc_alloc_fails
    <3> QED BY <2>0, <2>1, <2>5, <3>1, NewProcessTree
  <2>6. CASE create_thread_s
    <3>1. \/ UNCHANGED <<threadvars, thread_h, p_threads>> /\ UNCHANGED procvars
          \/ ~thread_alloc_fails(p) /\ thread_alloc(p) /\ UNCHANGED procvars
      BY <2>6 DEF create_thread_s, __create_thread_s, p
    <3> QED BY <2>2, <2>3, <3>1 DEF treevars, threadvars, procvars
  <2>7. CASE create_process_s
    <3>1. \/ UNCHANGED <<threadvars, thread_h, p_threads>> /\ UNCHANGED procvars
          \/ /\ ~proc_alloc_fails(p) /\ proc_alloc_and_delete
             /\ UNCHANGED <<threadvars, thread_h, p_threads>>
          \/ /\ ~proc_alloc_fails(p) /\ ~thread_alloc_fails(Head(process_h))
             /\ proc_alloc(p) /\ thread_alloc(Head(process_h))
      BY <2>7 DEF create_process_s, __create_thread_s, p
    <3> QED BY <2>2, <2>4, <2>5, <3>1 DEF treevars, threadvars, procvars
  <2> QED BY <1>4, <2>6, <2>7
<1> QED
  BY <1>1, <1>2, <1>3, <1>4, OtherTree, BeginTerminationTree, TerminateTree
     DEF Next, Boot, Service, Stopped

\* boot finds every descriptor but the root free
LEMMA TreeInit == Init => TreeInv
<1> SUFFICES ASSUME Init PROVE TreeInv
  OBVIOUS
<1> USE TcbFacts, MikabooqAssumption
    DEF Init, InitServices, InitNucleus, InitMikabooq, proc_init, thread_init
<1>1. ThreadLists
  <2>1. \A p \in Proc : {t \in Tcb : t_pcb[t] = p} = {}
    OBVIOUS
  <2>2. \A p \in Proc : IsListOf(<<>>, {t \in Tcb : t_pcb[t] = p})
    BY <2>1 DEF IsListOf, IsInjective, ToSet
  <2>3. {t \in Tcb : t_pcb[t] = NULL} = 1..MAXTHREAD
    BY DEF Tcb
  <2>4. IsListOf(thread_h, 1..MAXTHREAD)
    BY DEF IsListOf, IsInjective, ToSet
  <2> QED BY <2>2, <2>3, <2>4 DEF ThreadLists
<1>2. ProcLists
  <2>1. \A p \in Proc : {q \in Proc : p_parent[q] = p} = {}
    OBVIOUS
  <2>2. \A p \in Proc : IsListOf(<<>>, {q \in Proc : p_parent[q] = p})
    BY <2>1 DEF IsListOf, IsInjective, ToSet
  <2>3. {q \in Proc : ~Allocated(q)} = 1..(MAXPROC - 1)
    BY DEF Allocated, Proc, root
  <2>4. IsListOf(process_h, 1..(MAXPROC - 1))
    BY DEF IsListOf, IsInjective, ToSet
  <2> QED BY <2>2, <2>3, <2>4 DEF ProcLists
<1>3. Acyclic
  BY DEF Acyclic
<1>4. Owned /\ Populated /\ TermShape
  BY DEF Owned, Populated, TermShape, Allocated
<1> QED BY <1>1, <1>2, <1>3, <1>4 DEF TreeInv

\* the tree and the free lists are sound in every reachable state, also after
\* a free descriptor has been freed: what that breaks are the scheduling lists
\* and the counter (mikabooq.c:150-199, terminate_process.c)
THEOREM InvariantTree == Spec => []TreeInv
  BY TreeInit, TreeStep, InvariantTInv, PTL DEF Spec

-----------------------------------------------------------------------------
(* The managers of a process.                                                *)

\* a manager that is set, and what the step may do to it
ManagersStay ==
  \A p \in Proc, k \in Mgr :
    mgrs[p][k] # NULL => mgrs'[p][k] = mgrs[p][k] \/ ~Allocated(p)'

\* a step that sets no manager and frees no process
LEMMA QuietManagers ==
  ASSUME FreeProcessHasNoManager, UNCHANGED mgrs,
         \A p \in Proc : Allocated(p) => Allocated(p)'
  PROVE  FreeProcessHasNoManager' /\ ManagersStay
  BY DEF FreeProcessHasNoManager, ManagersStay

\* proc_delete, and the one that follows a proc_alloc, clear the managers of
\* a process that is free when they return
LEMMA ClearManagers ==
  ASSUME TypeOK, FreeProcessHasNoManager, NEW old \in Proc, mgrs' = clean_mgr(old),
         ~Allocated(old)', \A p \in Proc : p # old /\ Allocated(p) => Allocated(p)'
  PROVE  FreeProcessHasNoManager' /\ ManagersStay
<1> USE TypeOKParts
<1>1. /\ \A k \in Mgr : mgrs'[old][k] = NULL
      /\ \A p \in Proc : p # old => mgrs'[p] = mgrs[p]
  BY DEF clean_mgr, ProcTypes
<1> QED BY <1>1 DEF FreeProcessHasNoManager, ManagersStay

\* proc_alloc gives out a process that has no manager
LEMMA CreateManagers ==
  ASSUME TInv, TreeInv, FreeProcessHasNoManager, create_process_s
  PROVE  FreeProcessHasNoManager' /\ ManagersStay
<1> USE TypeOKParts, TcbFacts DEF TInv
<1> DEFINE p   == t_pcb[applicant]
           new == Head(process_h)
<1>1. p # NULL => p \in Proc /\ Allocated(p)
  <2>1. applicant \in Tcb
    BY ServedFacts DEF create_process_s, Serving
  <2> QED BY <2>1 DEF ThreadTypes, TreeInv, Owned
<1> HIDE DEF p
<1>2. CASE UNCHANGED procvars
  BY <1>2, QuietManagers DEF procvars, Allocated
<1>3. CASE process_h # <<>> /\ proc_alloc_and_delete
  <2>1. /\ UNCHANGED p_parent /\ mgrs' = clean_mgr(new)
    BY <1>3 DEF proc_alloc_and_delete
  <2>2. new \in {q \in Proc : ~Allocated(q)}
    BY <1>3, TailList DEF ProcTypes, TreeInv, ProcLists
  <2> HIDE DEF new
  <2>3. new \in Proc /\ ~Allocated(new)
    BY <2>2
  <2> QED BY <2>1, <2>3, ClearManagers DEF Allocated
<1>4. CASE p # NULL /\ process_h # <<>> /\ proc_alloc(p)
  <2>1. \A q \in Proc : Allocated(q)' <=> Allocated(q) \/ q = new
    BY <1>1, <1>4, ProcAllocTree DEF TreeInv
  <2>2. UNCHANGED mgrs
    BY <1>4 DEF proc_alloc
  <2> QED BY <2>1, <2>2, QuietManagers
<1> QED
  BY <1>2, <1>3, <1>4 DEF create_process_s, proc_alloc_fails, p

\* __setmgr sets a manager of a process in use, once
LEMMA SetManagers ==
  ASSUME TInv, TreeInv, FreeProcessHasNoManager, __setmgr
  PROVE  FreeProcessHasNoManager' /\ ManagersStay
<1> USE TypeOKParts, TcbFacts DEF TInv
<1> DEFINE p == t_pcb[applicant]
           k == mgr_of[request.tag]
<1>1. applicant \in Tcb /\ request.tag \in MgrTags
  BY ServedFacts DEF __setmgr, Serving
<1>2. k \in Mgr
  BY <1>1 DEF MgrTags, mgr_of, Mgr
<1>3. p # NULL => p \in Proc /\ Allocated(p)
  BY <1>1 DEF ThreadTypes, TreeInv, Owned
<1>4. \/ UNCHANGED procvars
      \/ /\ p # NULL /\ ~already_set(p, k)
         /\ mgrs' = [mgrs EXCEPT ![p][k] = request.arg] /\ UNCHANGED p_parent
  BY DEF __setmgr, WildAccess, terminate_process_s, mikabooqvars
<1> HIDE DEF p, k
<1>5. CASE UNCHANGED procvars
  BY <1>5, QuietManagers DEF procvars, Allocated
<1>6. CASE /\ p # NULL /\ ~already_set(p, k)
           /\ mgrs' = [mgrs EXCEPT ![p][k] = request.arg] /\ UNCHANGED p_parent
  <2>1. mgrs[p][k] = NULL /\ mgrs[p] \in [Mgr -> Thread \cup {NULL}]
    BY <1>3, <1>6 DEF already_set, ProcTypes
  <2>2. /\ \A q \in Proc : q # p => mgrs'[q] = mgrs[q]
        /\ \A j \in Mgr : j # k => mgrs'[p][j] = mgrs[p][j]
    BY <1>3, <1>6, <2>1 DEF ProcTypes
  <2>3. \A q \in Proc : Allocated(q)' <=> Allocated(q)
    BY <1>6 DEF Allocated
  <2>4. FreeProcessHasNoManager'
    BY <1>3, <1>6, <2>2, <2>3 DEF FreeProcessHasNoManager
  <2>5. ManagersStay
    BY <2>1, <2>2 DEF ManagersStay
  <2> QED BY <2>4, <2>5
<1> QED BY <1>4, <1>5, <1>6

\* proc_delete of a process that has no thread and no child left
LEMMA DeleteManagers ==
  ASSUME TInv, TreeInv, FreeProcessHasNoManager, DeleteProcess
  PROVE  FreeProcessHasNoManager' /\ ManagersStay
<1> USE TypeOKParts, TcbFacts DEF TInv
<1> DEFINE p == dying_proc
<1>1. p \in Proc /\ proc_delete(p)
  BY FrontLastElements DEF DeleteProcess, TermTypes, dying_proc
<1> HIDE DEF p
<1>2. CASE proc_delete_fails(p)
  BY <1>1, <1>2, QuietManagers DEF proc_delete, procvars, Allocated
<1>3. CASE ~proc_delete_fails(p)
  <2>1. /\ p # root
        /\ \A q \in Proc : Allocated(q)' <=> Allocated(q) /\ q # p
    BY <1>1, <1>3, ProcDeleteTree DEF TreeInv
  <2>2. mgrs' = clean_mgr(p)
    BY <1>1, <1>3 DEF proc_delete
  <2> QED BY <1>1, <2>1, <2>2, ClearManagers
<1> QED BY <1>2, <1>3

\* every step of the kernel
LEMMA ManagersStep ==
  ASSUME TInv, TreeInv, FreeProcessHasNoManager, [Next]_vars
  PROVE  FreeProcessHasNoManager' /\ ManagersStay
<1>1. CASE UNCHANGED procvars
  BY <1>1, QuietManagers DEF procvars, Allocated
<1>2. \/ create_process_s \/ __setmgr \/ DeleteProcess
      \/ UNCHANGED procvars
  BY DEF Next, Boot, LoadSSI, LoadThread, Scheduler, Dispatch, empty_readyq_h, Interrupt,
     interval_timer_h, TerminalDone, acknowledge, Program, Send, Recv, Ask, AwaitReply,
     Service, SsiReceive, SsiReply, ServeGet, create_thread_s, do_io_s,
     ServeTerminateProcess, WildAccess, terminate_process_s, terminate_thread_s,
     PickThread, ResumeWaiter, FreeVictim, PickChild, Stopped, vars, nucleusvars,
     mikabooqvars
<1> QED BY <1>1, <1>2, CreateManagers, SetManagers, DeleteManagers

(* No descriptor on the free list has a manager left, so that a process      *)
(* starts with none (clean_mgr in proc_delete, which every way of giving a   *)
(* process back goes through).                                               *)
THEOREM FreeProcessesAreUnmanaged == Spec => []FreeProcessHasNoManager
<1>1. Init => FreeProcessHasNoManager
  BY DEF Init, InitServices, InitNucleus, InitMikabooq, proc_init, FreeProcessHasNoManager
<1>2. TInv /\ TreeInv /\ FreeProcessHasNoManager /\ [Next]_vars
        => FreeProcessHasNoManager'
  BY ManagersStep
<1> QED BY <1>1, <1>2, InvariantTInv, InvariantTree, PTL DEF Spec

(* A manager stays until its process is deleted: the second __setmgr of a    *)
(* kind never replaces the first, nor does anything else.                    *)
THEOREM ManagersStayFixed == Spec => ManagersFixed
<1>1. TInv /\ TreeInv /\ FreeProcessHasNoManager /\ [Next]_vars
        => [ManagersStay]_vars
  BY ManagersStep
<1>2. [ManagersStay]_vars =>
        [\A p \in Proc, k \in Mgr :
           mgrs[p][k] # NULL => mgrs'[p][k] = mgrs[p][k] \/ ~Allocated(p)']_vars
  BY DEF ManagersStay
<1> QED
  BY <1>1, <1>2, InvariantTInv, InvariantTree, FreeProcessesAreUnmanaged, PTL
     DEF Spec, ManagersFixed
=============================================================================
