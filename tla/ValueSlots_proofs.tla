--------------------------- MODULE ValueSlots_proofs ---------------------------
(***************************************************************************)
(* Proofs about ValueSlots and the _variant it uses, for any number of     *)
(* children, any numbers of values and any alternatives.                   *)
(*                                                                         *)
(* The inductive invariant has a part for each data structure.  The scan:  *)
(* what has been written are consecutive offsets, the accumulators carry   *)
(* the next of them, the rest is still input (Scanned), so the ranges of   *)
(* slots of the children are disjoint and within the tuple (Ranges).  The  *)
(* tuple: the marked slots are those of the values stored so far, and hold *)
(* them (Placed), so a value is never stored over another.  The variant:   *)
(* between two of its operations it holds the first error or is about to   *)
(* (Kept).  The values are thus in the slots where the sums of the sizes   *)
(* put them, and reading the slots one after the other gives them in the   *)
(* order of the children (Sent).                                           *)
(*                                                                         *)
(* Sums and concatenations are recursive in the community modules.  What   *)
(* they compute is proved without induction: of the sets for which it is   *)
(* wrong there would be a minimal one, and the first element taken from    *)
(* that one leaves a smaller one.                                          *)
(***************************************************************************)
EXTENDS ValueSlots, FiniteSetTheorems, SequenceTheorems, TLAPS

-----------------------------------------------------------------------------
(* Sums: what a fold with + computes                                        *)

\* The element that a fold takes from a set.
Taken(s) == CHOOSE x \in s : TRUE

\* g is the sum of f over each of the subsets of S, taking one element at a time.
Sums(g, f, S) ==
  \A s \in SUBSET S :
    g[s] = IF s = {} THEN 0 ELSE f[Taken(s)] + g[s \ {Taken(s)}]

\* A set of subsets of a finite set has a member that contains no other member.
LEMMA MinimalSet ==
  ASSUME NEW T, IsFiniteSet(T), NEW B, B \subseteq SUBSET T, B # {}
  PROVE  \E U \in B : \A V \in B : V \subseteq U => V = U
<1> DEFINE F == FiniteSubsetsOf(T)
<1>1. SUBSET T = F
  BY FS_Subset DEF FiniteSubsetsOf
<1>2. IsWellFoundedOn(StrictSubsetOrdering(T), F)
  BY FS_StrictSubsetOrderingWellFounded
<1>3. PICK U \in B : \A V \in B : ~ (<<V, U>> \in StrictSubsetOrdering(T))
  BY <1>1, <1>2, WFMin
<1>4. \A V \in B : V \subseteq U => V = U
  BY <1>3 DEF StrictSubsetOrdering
<1> QED
  BY <1>4

\* A fold takes elements of the set.
LEMMA TakenIn == ASSUME NEW s, s # {} PROVE Taken(s) \in s
  BY DEF Taken

\* There is one sum.
LEMMA SumsUnique ==
  ASSUME NEW f, NEW S, IsFiniteSet(S), NEW g, NEW h, Sums(g, f, S), Sums(h, f, S)
  PROVE  \A s \in SUBSET S : g[s] = h[s]
<1> DEFINE B == {s \in SUBSET S : g[s] # h[s]}
<1> SUFFICES ASSUME B # {} PROVE FALSE
  OBVIOUS
<1>1. B \subseteq SUBSET S
  OBVIOUS
<1>2. PICK U \in B : \A V \in B : V \subseteq U => V = U
  <2> HIDE DEF B
  <2> QED
    BY <1>1, MinimalSet
<1>3. U # {}
  BY DEF Sums
<1>4. Taken(U) \in U
  BY <1>3, TakenIn
<1>5. U \ {Taken(U)} \in SUBSET S /\ U \ {Taken(U)} \notin B
  BY <1>2, <1>4
<1> QED
  BY <1>3, <1>5 DEF Sums

\* There is a sum.
LEMMA SumsExist ==
  ASSUME NEW f, NEW T, IsFiniteSet(T)
  PROVE  \E g : Sums(g, f, T)
<1> DEFINE B == {s \in SUBSET T : ~ \E g : Sums(g, f, s)}
<1> SUFFICES ASSUME B # {} PROVE FALSE
  OBVIOUS
<1>1. B \subseteq SUBSET T
  OBVIOUS
<1>2. PICK U \in B : \A V \in B : V \subseteq U => V = U
  <2> HIDE DEF B
  <2> QED
    BY <1>1, MinimalSet
<1> DEFINE G(s) == CHOOSE g : Sums(g, f, s)
           h == [s \in SUBSET U |->
                   IF s = {} THEN 0 ELSE f[Taken(s)] + G(s \ {Taken(s)})[s \ {Taken(s)}]]
<1>3. \A s \in SUBSET U : s # U => Sums(G(s), f, s)
  BY <1>2
<1>4. \A s \in SUBSET U : s # {} => s \ {Taken(s)} \in SUBSET U /\ s \ {Taken(s)} # U
  BY TakenIn
<1>5. \A s \in SUBSET U : IsFiniteSet(s)
  BY <1>1, FS_Subset
<1> HIDE DEF G
<1>6. ASSUME NEW s \in SUBSET U, s # U PROVE h[s] = G(s)[s]
  <2>1. Sums(G(s), f, s)
    BY <1>3, <1>6
  <2>2. CASE s = {}
    BY <2>1, <2>2 DEF Sums
  <2>3. CASE s # {}
    <3> DEFINE u == s \ {Taken(s)}
    <3>1. u \in SUBSET s /\ u \in SUBSET U /\ u # U
      BY <1>4, <2>3
    <3>2. Sums(G(s), f, u)
      BY <2>1, <3>1 DEF Sums
    <3>3. Sums(G(u), f, u)
      BY <1>3, <3>1
    <3>4. IsFiniteSet(u)
      BY <1>5, <3>1
    <3>5. G(s)[u] = G(u)[u]
      <4> HIDE DEF u
      <4> QED
        BY <3>2, <3>3, <3>4, SumsUnique
    <3>6. G(s)[s] = f[Taken(s)] + G(s)[u]
      BY <2>1, <2>3 DEF Sums
    <3>7. h[s] = f[Taken(s)] + G(u)[u]
      BY <2>3
    <3> QED
      BY <3>5, <3>6, <3>7
  <2> QED
    BY <2>2, <2>3
<1>7. Sums(h, f, U)
  <2> SUFFICES ASSUME NEW s \in SUBSET U
               PROVE  h[s] = IF s = {} THEN 0 ELSE f[Taken(s)] + h[s \ {Taken(s)}]
    BY DEF Sums
  <2>1. CASE s = {}
    BY <2>1
  <2>2. CASE s # {}
    <3>1. h[s \ {Taken(s)}] = G(s \ {Taken(s)})[s \ {Taken(s)}]
      BY <1>4, <1>6, <2>2
    <3> QED
      BY <2>2, <3>1
  <2> QED
    BY <2>1, <2>2
<1> HIDE DEF h
<1> QED
  BY <1>2, <1>7

\* A fold with + is the sum.
LEMMA FoldIsSum ==
  ASSUME NEW f, NEW S, IsFiniteSet(S), NEW g, Sums(g, f, S)
  PROVE  FoldFunctionOnSet(+, 0, f, S) = g[S]
<1> DEFINE Body(i) == [s \in SUBSET S |-> IF s = {} THEN 0 ELSE f[Taken(s)] + i[s \ {Taken(s)}]]
           iter == CHOOSE i : i = Body(i)
<1>1. FoldFunctionOnSet(+, 0, f, S) = iter[S]
  BY DEF FoldFunctionOnSet, MapThenFoldSet, Taken
<1>2. \A s \in SUBSET S : s \ {Taken(s)} \in SUBSET S
  OBVIOUS
<1>3. \E i : i = Body(i)
  <2> DEFINE i == [s \in SUBSET S |-> g[s]]
  <2>1. i = Body(i)
    BY <1>2 DEF Sums
  <2> QED
    BY <2>1
<1>4. iter = Body(iter)
  BY <1>3
<1>5. Sums(iter, f, S)
  <2> HIDE DEF iter
  <2> QED
    BY <1>4 DEF Sums
<1>6. S \in SUBSET S
  OBVIOUS
<1> HIDE DEF iter
<1>7. iter[S] = g[S]
  BY <1>5, <1>6, SumsUnique
<1> QED
  BY <1>1, <1>7

\* A sum of natural numbers is one.
LEMMA SumsType ==
  ASSUME NEW T, IsFiniteSet(T), NEW f \in [T -> Nat], NEW g, Sums(g, f, T)
  PROVE  \A s \in SUBSET T : g[s] \in Nat
<1> DEFINE B == {s \in SUBSET T : g[s] \notin Nat}
<1> SUFFICES ASSUME B # {} PROVE FALSE
  OBVIOUS
<1>1. B \subseteq SUBSET T
  OBVIOUS
<1>2. PICK U \in B : \A V \in B : V \subseteq U => V = U
  <2> HIDE DEF B
  <2> QED
    BY <1>1, MinimalSet
<1>3. U # {}
  <2>1. g[{}] = 0
    BY DEF Sums
  <2> QED
    BY <2>1
<1>4. Taken(U) \in U
  BY <1>3, TakenIn
<1>5. U \ {Taken(U)} \in SUBSET T /\ g[U \ {Taken(U)}] \in Nat
  BY <1>2, <1>4
<1>6. g[U] = f[Taken(U)] + g[U \ {Taken(U)}] /\ f[Taken(U)] \in Nat
  BY <1>3, <1>4 DEF Sums
<1> QED
  BY <1>5, <1>6

\* Whatever element is taken first, the sum is the same.
LEMMA SumsAdd ==
  ASSUME NEW T, IsFiniteSet(T), NEW f \in [T -> Nat], NEW g, Sums(g, f, T)
  PROVE  \A s \in SUBSET T : \A x \in s : g[s] = f[x] + g[s \ {x}]
<1> DEFINE B == {s \in SUBSET T : \E x \in s : g[s] # f[x] + g[s \ {x}]}
<1> SUFFICES ASSUME B # {} PROVE FALSE
  OBVIOUS
<1>1. B \subseteq SUBSET T
  OBVIOUS
<1>2. PICK U \in B : \A V \in B : V \subseteq U => V = U
  <2> HIDE DEF B
  <2> QED
    BY <1>1, MinimalSet
<1>3. PICK x \in U : g[U] # f[x] + g[U \ {x}]
  OBVIOUS
<1> DEFINE c == Taken(U)
<1>4. c \in U /\ U \in SUBSET T
  BY <1>3, TakenIn
<1>5. g[U] = f[c] + g[U \ {c}]
  BY <1>3 DEF Sums
<1>6. c # x
  BY <1>3, <1>5
<1>7. \A s \in SUBSET U : s # U => \A y \in s : g[s] = f[y] + g[s \ {y}]
  BY <1>2
<1> HIDE DEF c, B
<1>8. g[U \ {c}] = f[x] + g[(U \ {c}) \ {x}]
  BY <1>4, <1>6, <1>7
<1>9. g[U \ {x}] = f[c] + g[(U \ {x}) \ {c}]
  BY <1>4, <1>6, <1>7
<1>10. (U \ {x}) \ {c} = (U \ {c}) \ {x}
  OBVIOUS
<1>11. /\ f[c] \in Nat /\ f[x] \in Nat
       /\ g[(U \ {c}) \ {x}] \in Nat
  BY <1>4, SumsType
<1> DEFINE v == g[(U \ {c}) \ {x}]
<1>12. g[U] = f[c] + (f[x] + v) /\ g[U \ {x}] = f[c] + v
  BY <1>5, <1>8, <1>9, <1>10
<1> HIDE DEF v
<1>13. g[U] = f[x] + g[U \ {x}]
  BY <1>11, <1>12 DEF v
<1> QED
  BY <1>3, <1>13

\* The sum of the elements of f at S.
Total(f, S) == FoldFunctionOnSet(+, 0, f, S)

\* The sum of nothing.
LEMMA FoldEmpty == ASSUME NEW f PROVE Total(f, {}) = 0
<1>1. PICK g : Sums(g, f, {})
  BY FS_EmptySet, SumsExist
<1>2. FoldFunctionOnSet(+, 0, f, {}) = g[{}]
  BY <1>1, FS_EmptySet, FoldIsSum
<1>3. g[{}] = 0
  BY <1>1 DEF Sums
<1> QED
  BY <1>2, <1>3 DEF Total

\* The sum of one more element.
LEMMA FoldAdd ==
  ASSUME NEW T, IsFiniteSet(T), NEW f \in [T -> Nat],
         NEW S \in SUBSET T, NEW x \in T, x \notin S
  PROVE  /\ Total(f, S) \in Nat
         /\ Total(f, S \cup {x}) = Total(f, S) + f[x]
<1>1. PICK g : Sums(g, f, T)
  BY SumsExist
<1> DEFINE U == S \cup {x}
<1>2. /\ U \in SUBSET T /\ x \in U /\ U \ {x} = S
      /\ IsFiniteSet(S) /\ IsFiniteSet(U)
  BY FS_Subset
<1>3. Sums(g, f, S) /\ Sums(g, f, U)
  BY <1>1, <1>2 DEF Sums
<1>4. Total(f, S) = g[S]
  BY <1>2, <1>3, FoldIsSum DEF Total
<1>5. Total(f, U) = g[U]
  BY <1>2, <1>3, FoldIsSum DEF Total
<1>6. g[U] = f[x] + g[S] /\ g[S] \in Nat /\ f[x] \in Nat
  <2> HIDE DEF U
  <2> QED
    BY <1>1, <1>2, SumsAdd, SumsType
<1>7. g[U] = g[S] + f[x]
  BY <1>6
<1> QED
  BY <1>4, <1>5, <1>6, <1>7

-----------------------------------------------------------------------------
(* Concatenation: what FlattenSeq computes                                  *)

\* A set of indices has a least one.
LEMMA LeastIndex ==
  ASSUME NEW n \in Nat, NEW J \in SUBSET (1..n), J # {}
  PROVE  \E m \in J : \A k \in 1..(m - 1) : k \notin J
<1> DEFINE Upto(j) == 1..j
           T == 1..n
           B == {Upto(j) : j \in J}
<1>1. IsFiniteSet(T)
  BY FS_Interval
<1>2. \A j \in J : Upto(j) \in SUBSET T
  OBVIOUS
<1>3. B \subseteq SUBSET T /\ B # {}
  <2> HIDE DEF Upto, T
  <2> QED
    BY <1>2
<1>4. PICK U \in B : \A V \in B : V \subseteq U => V = U
  <2> HIDE DEF B, T
  <2> QED
    BY <1>1, <1>3, MinimalSet
<1>5. PICK m \in J : U = Upto(m)
  <2> HIDE DEF Upto
  <2> QED
    OBVIOUS
<1>6. \A j \in J : Upto(j) \subseteq Upto(m) => Upto(j) = Upto(m)
  <2> HIDE DEF Upto
  <2> QED
    BY <1>4, <1>5
<1>7. ASSUME NEW k \in 1..(m - 1), k \in J PROVE FALSE
  <2>1. Upto(k) \subseteq Upto(m) /\ m \in Upto(m) /\ m \notin Upto(k)
    BY <1>7
  <2> QED
    BY <1>6, <1>7, <2>1
<1> QED
  BY <1>7

\* A function that concatenates the sequences of a list one at a time has at the
\* end what FlattenSeq returns.
LEMMA FlattenIs ==
  ASSUME NEW n \in Nat, n # 0, NEW V, Len(V) = n, NEW g,
         \A i \in 1..n : g[i] = IF i = 1 THEN V[i] ELSE g[i - 1] \o V[i]
  PROVE  FlattenSeq(V) = g[n]
<1> DEFINE Body(f) == [i \in 1..n |-> IF i = 1 THEN V[i] ELSE f[i - 1] \o V[i]]
           flatten == CHOOSE f : f = Body(f)
<1>1. FlattenSeq(V) = flatten[n]
  BY DEF FlattenSeq
<1>2. \A i \in 1..n : i # 1 => i - 1 \in 1..n
  OBVIOUS
<1>3. \E f : f = Body(f)
  <2> DEFINE f == [i \in 1..n |-> g[i]]
  <2>1. f = Body(f)
    BY <1>2
  <2> QED
    BY <2>1
<1>4. flatten = Body(flatten)
  BY <1>3
<1> HIDE DEF flatten
<1>5. \A i \in 1..n : flatten[i] = IF i = 1 THEN V[i] ELSE flatten[i - 1] \o V[i]
  BY <1>4
<1> DEFINE J == {j \in 1..n : flatten[j] # g[j]}
<1>6. J = {}
  <2> SUFFICES ASSUME J # {} PROVE FALSE
    OBVIOUS
  <2>1. PICK m \in J : \A k \in 1..(m - 1) : k \notin J
    <3>1. J \in SUBSET (1..n)
      OBVIOUS
    <3> HIDE DEF J
    <3> QED
      BY <3>1, LeastIndex
  <2>2. m # 1
    BY <1>5
  <2>3. m - 1 \in 1..n /\ m - 1 \in 1..(m - 1)
    BY <2>2
  <2>4. flatten[m - 1] = g[m - 1]
    BY <2>1, <2>3
  <2> QED
    BY <1>5, <2>2, <2>4
<1>7. n \in 1..n
  OBVIOUS
<1>8. flatten[n] = g[n]
  BY <1>6, <1>7
<1> QED
  BY <1>1, <1>8

\* A sequence is the concatenation of two when it agrees with each in its place.
LEMMA ConcatIs ==
  ASSUME NEW A, NEW s \in Seq(A), NEW t \in Seq(A), NEW u \in Seq(A),
         Len(u) = Len(s) + Len(t),
         \A k \in 1..Len(s) : u[k] = s[k],
         \A k \in 1..Len(t) : u[Len(s) + k] = t[k]
  PROVE  u = s \o t
<1>1. /\ s \o t \in Seq(A) /\ Len(s \o t) = Len(s) + Len(t)
      /\ \A k \in 1..Len(s) + Len(t) :
           (s \o t)[k] = IF k <= Len(s) THEN s[k] ELSE t[k - Len(s)]
      /\ Len(s) \in Nat /\ Len(t) \in Nat
  BY ConcatProperties
<1>2. ASSUME NEW k \in 1..Len(u) PROVE u[k] = (s \o t)[k]
  <2>1. CASE k <= Len(s)
    BY <1>1, <2>1
  <2>2. CASE ~(k <= Len(s))
    <3>1. k - Len(s) \in 1..Len(t) /\ Len(s) + (k - Len(s)) = k
      BY <1>1, <2>2
    <3> QED
      BY <1>1, <2>2, <3>1
  <2> QED
    BY <2>1, <2>2
<1> QED
  BY <1>1, <1>2, SeqEqual

-----------------------------------------------------------------------------
(* The inductive invariant                                                  *)

\* The sum of the elements of f before i.
Before(f, i) == Total(f, 1..(i - 1))

\* The elements before `first` are offsets, those from there on sizes.
Done(i) == step # "scan" \/ i < first

Scanned ==
  /\ step = "scan" =>
       /\ \A i \in Child : i >= first => offsets[i] = sizes[i]
       /\ init = Before(sizes, first)
       /\ tmp = init + sizes[first]
  /\ \A i \in Child : Done(i) => offsets[i] = Before(sizes, i)

Ranges ==
  /\ step = "scan" =>
       /\ init <= (first - 1) * MaxValues
       /\ \A i \in Child : i < first => offsets[i] + sizes[i] <= init
  /\ \A i \in Child : Done(i) => offsets[i] <= (i - 1) * MaxValues
  /\ \A i, j \in Child : Done(j) /\ i < j => offsets[i] + sizes[i] <= offsets[j]

\* Value j of child i has been stored in the slot k.
Holds(k, i, j) == j \in 1..stored[i] /\ k = offsets[i] + (j - 1)

Placed ==
  /\ step = "scan" => \A i \in Child : stored[i] = 0
  /\ \A i \in Child : stored[i] <= sizes[i]
  /\ \A k \in Slot : engaged[k] => \E i \in Child, j \in 1..MaxValues : Holds(k, i, j)
  /\ \A k \in Slot, i \in Child, j \in 1..MaxValues :
       Holds(k, i, j) => engaged[k] /\ (step # "destroyed" => object[k] = <<i, j>>)
  /\ step # "destroyed" => \A k \in Slot : ~engaged[k] => object[k] = Raw

Counted == live = IF step = "destroyed" THEN 0 ELSE Cardinality(Engaged)

\* The first error.
TheError(e) == e.type \in Alternatives /\ e.by = winner

Kept ==
  /\ winner = 0 <=> failed = {}
  /\ winner # 0 => step # "scan"
  /\ emplacing # NoObject => step = "store" /\ winner # 0 /\ TheError(emplacing)
  /\ IF winner # 0 /\ emplacing = NoObject /\ step # "destroyed"
       THEN TheError(storage) /\ index = storage.type
       ELSE storage = NoObject /\ index = npos
  /\ IF winner # 0 /\ step \in {"completed", "destroyed"}
       THEN \E e \in visited : visited = {e} /\ TheError(e)
       ELSE visited = {}

\* The values, of f[i] values of each child i, in the order of the children.
Ordered(f) == FlattenSeq([i \in Child |-> [j \in 1..f[i] |-> <<i, j>>]])

Sent == step \in {"completed", "destroyed"} /\ failed = {} => delivered = Ordered(sizes)

Inv ==
  /\ TypeOK
  /\ Scanned
  /\ Ranges
  /\ Placed
  /\ Counted
  /\ Kept
  /\ Sent

-----------------------------------------------------------------------------

\* The ranges of MaxValues slots follow each other.
LEMMA RangeOrder ==
  ASSUME NEW i \in Child
  PROVE  /\ (i - 1) * MaxValues \in Nat
         /\ (i - 1) * MaxValues + MaxValues = i * MaxValues
         /\ i * MaxValues <= Children * MaxValues
<1>1. i \in Nat /\ i >= 1 /\ i <= Children /\ Children \in Nat /\ MaxValues \in Nat
  BY ValueSlotsAssumption DEF Child
<1>2. \A a, b \in Nat : a * b \in Nat
  OBVIOUS
<1>3. (i - 1) * MaxValues + MaxValues = i * MaxValues
  BY <1>1
<1>4. PICK d \in Nat : Children = i + d
  <2>1. Children - i \in Nat /\ Children = i + (Children - i)
    BY <1>1
  <2> QED
    BY <2>1
<1>5. (i + d) * MaxValues = i * MaxValues + d * MaxValues
  BY <1>1
<1>6. i * MaxValues \in Nat /\ d * MaxValues \in Nat /\ i - 1 \in Nat
  BY <1>1, <1>2
<1> QED
  BY <1>1, <1>2, <1>3, <1>4, <1>5, <1>6

\* A value goes into a slot of the tuple.
LEMMA InTuple ==
  ASSUME NEW i \in Child, NEW o \in Nat, NEW n \in Nat,
         o <= (i - 1) * MaxValues, n < MaxValues
  PROVE  o + n \in Slot
<1>1. /\ (i - 1) * MaxValues \in Nat
      /\ (i - 1) * MaxValues + MaxValues = i * MaxValues
      /\ i * MaxValues <= Children * MaxValues
  BY RangeOrder
<1>2. i * MaxValues \in Nat /\ Children * MaxValues \in Nat /\ MaxValues \in Nat
  BY ValueSlotsAssumption DEF Child
<1>3. o + n <= Children * MaxValues
  BY <1>1, <1>2
<1> QED
  BY <1>2, <1>3 DEF Slot

\* The tuple has finitely many slots.
LEMMA SlotsFinite == /\ Children * MaxValues \in Nat
                     /\ IsFiniteSet(Slot)
<1>1. Children * MaxValues \in Nat
  BY ValueSlotsAssumption
<1> QED
  BY <1>1, FS_Interval DEF Slot

\* The elements of the arrays.
LEMMA Elements ==
  ASSUME TypeOK
  PROVE  /\ \A i \in Child : /\ i \in Nat /\ i >= 1 /\ i <= Children
                             /\ sizes[i] \in Nat /\ sizes[i] <= MaxValues
                             /\ offsets[i] \in Nat
                             /\ stored[i] \in Nat /\ stored[i] <= MaxValues
         /\ 1 \in Child /\ first \in Child /\ init \in Nat /\ tmp \in Nat
         /\ Children \in Nat /\ MaxValues \in Nat
BY ValueSlotsAssumption DEF TypeOK, Child

\* The sums of the elements before each element, element by element.
LEMMA Totals ==
  ASSUME NEW f \in [Child -> Nat]
  PROVE  /\ Before(f, 1) = 0
         /\ \A i \in Child : Before(f, i) \in Nat /\ Before(f, i + 1) = Before(f, i) + f[i]
<1>1. Before(f, 1) = 0
  <2>1. 1..(1 - 1) = {}
    OBVIOUS
  <2> QED
    BY <2>1, FoldEmpty DEF Before
<1>2. ASSUME NEW i \in Child
      PROVE  Before(f, i) \in Nat /\ Before(f, i + 1) = Before(f, i) + f[i]
  <2> DEFINE S == 1..(i - 1)
             P == Total(f, S)
             Q == Total(f, S \cup {i})
  <2>1. IsFiniteSet(Child)
    BY FS_Interval, ValueSlotsAssumption DEF Child
  <2>2. i \in Nat /\ S \in SUBSET Child /\ i \notin S
    BY ValueSlotsAssumption DEF Child
  <2>3. P \in Nat /\ Q = P + f[i]
    <3> HIDE DEF S
    <3> QED
      BY <2>1, <2>2, FoldAdd
  <2>4. Before(f, i) = P
    BY DEF Before
  <2>5. 1..((i + 1) - 1) = S \cup {i}
    BY ValueSlotsAssumption DEF Child
  <2>6. Before(f, i + 1) = Q
    <3> HIDE DEF S
    <3> QED
      BY <2>5 DEF Before
  <2> QED
    BY <2>3, <2>4, <2>6
<1> QED
  BY <1>1, <1>2

\* The sizes are natural numbers.
LEMMA Sizes == ASSUME TypeOK PROVE sizes \in [Child -> Nat]
  BY ValueSlotsAssumption DEF TypeOK

\* When each value stands where the sums of the sizes put it, reading one slot
\* after the other gives the values in order.
LEMMA InOrder ==
  ASSUME NEW f \in [Child -> Nat], NEW o,
         \A i \in Child : \A j \in 1..f[i] : o[Before(f, i) + (j - 1)] = <<i, j>>
  PROVE  [k \in 1..Before(f, Children + 1) |-> o[k - 1]] = Ordered(f)
<1> DEFINE A == {o[k] : k \in Nat}
           U(i) == [k \in 1..Before(f, i + 1) |-> o[k - 1]]
           W(i) == [j \in 1..f[i] |-> <<i, j>>]
           g == [i \in Child |-> U(i)]
           V == [i \in Child |-> W(i)]
<1>1. /\ Before(f, 1) = 0
      /\ \A i \in Child : /\ i \in Nat /\ i >= 1 /\ i <= Children
                          /\ Before(f, i) \in Nat /\ f[i] \in Nat
                          /\ Before(f, i + 1) = Before(f, i) + f[i]
      /\ Children \in Nat /\ Children # 0 /\ Children \in Child /\ 1 \in Child
  BY Totals, ValueSlotsAssumption DEF Child
<1>2. ASSUME NEW i \in Child PROVE U(i) \in Seq(A) /\ Len(U(i)) = Before(f, i) + f[i]
  <2>1. Before(f, i + 1) \in Nat /\ Before(f, i + 1) = Before(f, i) + f[i]
    BY <1>1
  <2>2. \A n \in Nat : [k \in 1..n |-> o[k - 1]] \in Seq(A)
    <3>1. \A n \in Nat : \A k \in 1..n : k - 1 \in Nat
      OBVIOUS
    <3>2. \A k \in Nat : o[k] \in A
      OBVIOUS
    <3> HIDE DEF A
    <3> QED
      BY <3>1, <3>2
  <2> QED
    BY <2>1, <2>2
<1>3. ASSUME NEW i \in Child PROVE W(i) \in Seq(A) /\ Len(W(i)) = f[i]
  <2>1. \A j \in 1..f[i] : <<i, j>> \in A
    <3> SUFFICES ASSUME NEW j \in 1..f[i] PROVE <<i, j>> \in A
      OBVIOUS
    <3>1. Before(f, i) + (j - 1) \in Nat
      BY <1>1
    <3> QED
      BY <3>1
  <2>2. f[i] \in Nat /\ W(i) \in [1..f[i] -> A]
    <3> HIDE DEF A
    <3> QED
      BY <1>1, <2>1
  <2> HIDE DEF A, W
  <2> QED
    BY <2>2
<1>4. ASSUME NEW i \in Child, i # 1
      PROVE  i - 1 \in Child /\ U(i) = U(i - 1) \o W(i)
  <2>1. i - 1 \in Child /\ (i - 1) + 1 = i
    BY <1>1, <1>4 DEF Child
  <2>2. Len(U(i - 1)) = Before(f, i) /\ U(i - 1) \in Seq(A)
    <3>1. Before(f, i) = Before(f, i - 1) + f[i - 1]
      BY <1>1, <2>1
    <3> HIDE DEF U, A
    <3> QED
      BY <1>2, <2>1, <3>1
  <2>3. \A k \in 1..Len(U(i - 1)) : U(i)[k] = U(i - 1)[k]
    <3> SUFFICES ASSUME NEW k \in 1..Before(f, i) PROVE U(i)[k] = U(i - 1)[k]
      BY <2>2
    <3>1. k \in 1..Before(f, i + 1) /\ k \in 1..Before(f, (i - 1) + 1)
      BY <1>1, <2>1
    <3> QED
      BY <3>1
  <2>4. \A j \in 1..Len(W(i)) : U(i)[Len(U(i - 1)) + j] = W(i)[j]
    <3> SUFFICES ASSUME NEW j \in 1..f[i] PROVE U(i)[Before(f, i) + j] = W(i)[j]
      BY <1>3, <2>2
    <3>1. /\ Before(f, i) + j \in 1..Before(f, i + 1)
          /\ (Before(f, i) + j) - 1 = Before(f, i) + (j - 1)
      BY <1>1
    <3> QED
      BY <3>1
  <2>5. Len(U(i)) = Len(U(i - 1)) + Len(W(i))
    BY <1>2, <1>3, <2>2
  <2> HIDE DEF U, W, A
  <2> QED
    BY <1>2, <1>3, <2>1, <2>2, <2>3, <2>4, <2>5, ConcatIs
<1>5. U(1) = W(1)
  <2>1. Before(f, 1 + 1) = f[1]
    BY <1>1
  <2>2. \A k \in 1..f[1] : o[k - 1] = <<1, k>>
    BY <1>1
  <2> QED
    BY <2>1, <2>2
<1>6. \A i \in 1..Children : g[i] = IF i = 1 THEN V[i] ELSE g[i - 1] \o V[i]
  <2>1. \A i \in Child : g[i] = U(i) /\ V[i] = W(i)
    <3> HIDE DEF U, W
    <3> QED
      OBVIOUS
  <2>2. 1..Children = Child
    BY DEF Child
  <2> HIDE DEF U, W, g, V
  <2> QED
    BY <1>4, <1>5, <2>1, <2>2
<1>7. Len(V) = Children
  <2>1. \A h : h = [i \in 1..Children |-> W(i)] => Len(h) = Children
    <3> HIDE DEF W
    <3> QED
      BY <1>1
  <2> QED
    BY <2>1 DEF Child
<1>8. FlattenSeq(V) = g[Children]
  <2> HIDE DEF g, V
  <2> QED
    BY <1>1, <1>6, <1>7, FlattenIs
<1> QED
  BY <1>1, <1>8 DEF Ordered

\* Before the scan.
LEMMA InitInv == Init => Inv
<1> SUFFICES ASSUME Init PROVE Inv
  OBVIOUS
<1> USE DEF Init
<1>1. /\ 1 \in Child
      /\ \A i \in Child : i \in Nat /\ i >= 1 /\ sizes[i] \in Nat /\ sizes[i] <= MaxValues
      /\ Children \in Nat /\ MaxValues \in Nat
  BY ValueSlotsAssumption DEF Child
<1>2. TypeOK
  <2>1. Raw \in (0..Children) \X (0..MaxValues)
    BY <1>1 DEF Raw
  <2>2. offsets \in [Child -> Nat]
    BY <1>1
  <2>3. /\ engaged \in [Slot -> BOOLEAN]
        /\ object \in [Slot -> (0..Children) \X (0..MaxValues)]
        /\ stored \in [Child -> 0..MaxValues]
    BY <1>1, <2>1
  <2> QED
    BY <1>1, <2>2, <2>3 DEF TypeOK
<1>3. Scanned /\ Ranges
  <2>1. \A i \in Child : ~Done(i)
    BY <1>1 DEF Done
  <2>2. (first - 1) * MaxValues = 0
    BY <1>1
  <2>3. init = Before(sizes, first)
    BY <1>2, Sizes, Totals
  <2> QED
    BY <1>1, <2>1, <2>2, <2>3 DEF Scanned, Ranges
<1>4. Placed
  BY <1>1 DEF Placed, Holds
<1>5. Counted
  <2>1. Engaged = {}
    BY DEF Engaged
  <2> QED
    BY <2>1, FS_EmptySet DEF Counted
<1>6. Kept
  BY DEF Kept, VariantInit, NoObject
<1>7. Sent
  BY DEF Sent
<1> QED
  BY <1>2, <1>3, <1>4, <1>5, <1>6, <1>7 DEF Inv

-----------------------------------------------------------------------------
(* The scan                                                                 *)

\* The scan's step, on typed variables.
LEMMA ScanEffect ==
  ASSUME Inv, Scan
  PROVE  /\ step = "scan"
         /\ offsets' = [offsets EXCEPT ![first] = init]
         /\ offsets' \in [Child -> Nat]
         /\ \A i \in Child : offsets'[i] = IF i = first THEN init ELSE offsets[i]
         /\ first = Children => step' = "store" /\ UNCHANGED <<first, init, tmp>>
         /\ first # Children =>
              /\ first + 1 \in Child /\ first' = first + 1
              /\ init' = tmp
              /\ tmp' = tmp + sizes[first + 1]
              /\ step' = "scan"
<1>1. step = "scan" /\ offsets' = [offsets EXCEPT ![first] = init]
  BY DEF Scan
<1>2. /\ offsets \in [Child -> Nat] /\ first \in Child /\ init \in Nat
      /\ first \in Nat /\ first <= Children /\ first >= 1 /\ Children \in Nat
  BY Elements DEF Inv, TypeOK
<1>3. first # Children => first + 1 \in Child
  BY <1>2 DEF Child
<1>4. /\ offsets' \in [Child -> Nat]
      /\ \A i \in Child : offsets'[i] = IF i = first THEN init ELSE offsets[i]
  BY <1>1, <1>2
<1>5. first # Children => offsets'[first + 1] = sizes[first + 1]
  <2>1. \A i \in Child : i >= first => offsets[i] = sizes[i]
    BY <1>1 DEF Inv, Scanned
  <2> QED
    BY <1>2, <1>3, <1>4, <2>1
<1>6. first # Children => /\ first' = first + 1 /\ init' = tmp
                          /\ tmp' = tmp + offsets'[first + 1]
                          /\ step' = "scan"
  BY <1>1 DEF Scan, NextInput
<1>7. first = Children => step' = "store" /\ UNCHANGED <<first, init, tmp>>
  BY DEF Scan
<1> QED
  BY <1>1, <1>3, <1>4, <1>5, <1>6, <1>7

\* A step of the scan writes the next offset where it has read the size.
LEMMA ScanStep ==
  ASSUME Inv, Scan
  PROVE  (Scanned /\ Ranges)'
<1>1. /\ step = "scan"
      /\ \A i \in Child : offsets'[i] = IF i = first THEN init ELSE offsets[i]
      /\ first = Children => step' = "store" /\ UNCHANGED <<first, init, tmp>>
      /\ first # Children =>
           /\ first + 1 \in Child /\ first' = first + 1
           /\ init' = tmp
           /\ tmp' = tmp + sizes[first + 1]
           /\ step' = "scan"
  BY ScanEffect
<1>2. /\ \A i \in Child : /\ i \in Nat /\ i >= 1 /\ i <= Children
                          /\ sizes[i] \in Nat /\ sizes[i] <= MaxValues
                          /\ offsets[i] \in Nat
      /\ 1 \in Child /\ first \in Child /\ init \in Nat /\ tmp \in Nat
      /\ Children \in Nat /\ MaxValues \in Nat
  BY Elements DEF Inv
<1>3. sizes' = sizes
  BY DEF Scan
<1>4. /\ \A i \in Child : i >= first => offsets[i] = sizes[i]
      /\ tmp = init + sizes[first]
      /\ init = Before(sizes, first)
      /\ \A i \in Child : i < first => offsets[i] = Before(sizes, i)
  BY <1>1, <1>2 DEF Inv, Scanned, Done
<1>5. /\ init <= (first - 1) * MaxValues
      /\ \A i \in Child : i < first => offsets[i] + sizes[i] <= init
      /\ \A i \in Child : i < first => offsets[i] <= (i - 1) * MaxValues
      /\ \A i, j \in Child : j < first /\ i < j => offsets[i] + sizes[i] <= offsets[j]
  BY <1>1 DEF Inv, Ranges, Done
<1>6. \A i \in Child : Done(i)' <=> i <= first
  BY <1>1, <1>2 DEF Done
<1>7. Scanned'
  <2>1. step' = "scan" => first # Children
    BY <1>1
  <2>2. Before(sizes, first + 1) = Before(sizes, first) + sizes[first]
    BY <1>2, Sizes, Totals DEF Inv
  <2>3. ASSUME step' = "scan"
        PROVE  /\ \A i \in Child : i >= first' => offsets'[i] = sizes[i]
               /\ tmp' = init' + sizes[first']
               /\ init' = Before(sizes, first')
    <3>1. /\ first' \in Child /\ first' = first + 1 /\ init' = tmp
          /\ tmp' = tmp + sizes[first + 1]
      BY <1>1, <2>1, <2>3
    <3>2. init' = Before(sizes, first + 1)
      BY <1>4, <2>2, <3>1
    <3> QED
      BY <1>1, <1>2, <1>4, <3>1, <3>2
  <2>4. \A i \in Child : i <= first => offsets'[i] = Before(sizes, i)
    BY <1>1, <1>2, <1>4
  <2> QED
    BY <1>3, <1>6, <2>3, <2>4 DEF Scanned
<1>8. Ranges'
  <2>1. ASSUME step' = "scan"
        PROVE  /\ init' <= (first' - 1) * MaxValues
               /\ \A i \in Child : i < first' => offsets'[i] + sizes[i] <= init'
    <3>1. /\ (first - 1) * MaxValues \in Nat
          /\ (first - 1) * MaxValues + MaxValues = first * MaxValues
      BY <1>2, RangeOrder
    <3>2. first' = first + 1 /\ init' = init + sizes[first]
      BY <1>1, <1>4, <2>1
    <3>3. (first' - 1) * MaxValues = first * MaxValues
      BY <1>2, <3>2
    <3>4. sizes[first] \in Nat /\ sizes[first] <= MaxValues
      BY <1>2
    <3>5. init' <= (first' - 1) * MaxValues
      <4> HIDE <1>1
      <4> QED
        BY <1>2, <1>5, <3>1, <3>2, <3>3, <3>4
    <3>6. \A i \in Child : i < first' => offsets'[i] + sizes[i] <= init'
      BY <1>1, <1>2, <1>5, <3>2, <3>4
    <3> QED
      BY <3>5, <3>6
  <2>2. \A i \in Child : i <= first => offsets'[i] <= (i - 1) * MaxValues
    BY <1>1, <1>2, <1>5
  <2>3. \A i, j \in Child : j <= first /\ i < j => offsets'[i] + sizes[i] <= offsets'[j]
    BY <1>1, <1>2, <1>5
  <2> QED
    BY <1>3, <1>6, <2>1, <2>2, <2>3 DEF Ranges
<1> QED
  BY <1>7, <1>8

\* The array is left alone once it holds offsets.
LEMMA AfterScan ==
  ASSUME Inv, step # "scan", step' # "scan", UNCHANGED <<sizes, offsets>>
  PROVE  (Scanned /\ Ranges)'
<1>1. Ranges'
  BY DEF Inv, Ranges, Done
<1>2. Scanned'
  BY DEF Inv, Scanned, Done
<1> QED
  BY <1>1, <1>2

-----------------------------------------------------------------------------
(* The tuple                                                                *)

\* Two values that have been stored, or are about to be, have slots of their own.
LEMMA OwnSlots ==
  ASSUME Inv, step # "scan", NEW i \in Child, NEW k \in Child,
         NEW m \in Nat, NEW n \in Nat, m < sizes[i], n < sizes[k],
         offsets[i] + m = offsets[k] + n
  PROVE  i = k /\ m = n
<1>1. /\ i \in Nat /\ k \in Nat /\ offsets[i] \in Nat /\ offsets[k] \in Nat
      /\ sizes[i] \in Nat /\ sizes[k] \in Nat
  BY Elements DEF Inv
<1>2. /\ i < k => offsets[i] + sizes[i] <= offsets[k]
      /\ k < i => offsets[k] + sizes[k] <= offsets[i]
  BY DEF Inv, Ranges, Done
<1> QED
  BY <1>1, <1>2

\* The slot that a child stores its next value into: it is in the tuple, and no
\* object is in it.
LEMMA NextSlot ==
  ASSUME Inv, NEW i \in Child, Storing(i)
  PROVE  /\ step = "store"
         /\ SlotOf(i) \in Slot
         /\ ~engaged[SlotOf(i)]
         /\ stored[i] \in Nat /\ stored[i] < sizes[i] /\ sizes[i] <= MaxValues
<1>1. step = "store" /\ stored[i] < sizes[i]
  BY DEF Storing
<1>2. /\ \A k \in Child : /\ stored[k] \in Nat /\ sizes[k] \in Nat /\ sizes[k] <= MaxValues
                          /\ offsets[k] \in Nat
      /\ MaxValues \in Nat
  BY Elements DEF Inv
<1>3. stored[i] < MaxValues /\ offsets[i] <= (i - 1) * MaxValues
  BY <1>1, <1>2 DEF Inv, Ranges, Done
<1>4. SlotOf(i) \in Slot
  BY <1>2, <1>3, InTuple DEF SlotOf
<1>5. ASSUME engaged[SlotOf(i)] PROVE FALSE
  <2>1. PICK k \in Child, j \in 1..MaxValues : Holds(SlotOf(i), k, j)
    BY <1>4, <1>5 DEF Inv, Placed
  <2>2. /\ j \in Nat /\ j >= 1 /\ j <= stored[k] /\ stored[k] <= sizes[k]
        /\ offsets[i] + stored[i] = offsets[k] + (j - 1)
    BY <1>2, <2>1 DEF Holds, SlotOf, Inv, Placed
  <2>3. j - 1 \in Nat /\ j - 1 < sizes[k]
    BY <1>2, <2>2
  <2>4. i = k /\ stored[i] = j - 1
    BY <1>1, <1>2, <2>2, <2>3, OwnSlots
  <2> QED
    BY <1>2, <2>2, <2>4
<1> QED
  BY <1>1, <1>2, <1>4, <1>5

\* Storing a value marks the slot it is in and no other.
LEMMA StoreStep ==
  ASSUME Inv, NEW i \in Child, Store(i)
  PROVE  /\ engaged' \in [Slot -> BOOLEAN]
         /\ object' \in [Slot -> (0..Children) \X (0..MaxValues)]
         /\ stored' \in [Child -> 0..MaxValues]
         /\ live' \in Nat
         /\ Placed' /\ Counted'
<1> DEFINE s == SlotOf(i)
           n == stored[i]
<1>1. /\ step = "store" /\ s \in Slot /\ ~engaged[s]
      /\ n \in Nat /\ n < sizes[i] /\ sizes[i] <= MaxValues
      /\ s = offsets[i] + n
  BY NextSlot DEF Store, SlotOf
<1>2. /\ object' = [object EXCEPT ![s] = <<i, n + 1>>]
      /\ engaged' = [engaged EXCEPT ![s] = TRUE]
      /\ live' = live + 1
      /\ stored' = [stored EXCEPT ![i] = n + 1]
      /\ UNCHANGED <<sizes, offsets, step>>
  BY DEF Store, scanVars
<1>3. /\ engaged \in [Slot -> BOOLEAN]
      /\ object \in [Slot -> (0..Children) \X (0..MaxValues)]
      /\ stored \in [Child -> 0..MaxValues]
      /\ live \in Nat
  BY DEF Inv, TypeOK
<1>4. /\ \A k \in Child : /\ k \in Nat /\ k >= 1 /\ k <= Children
                          /\ sizes[k] \in Nat /\ sizes[k] <= MaxValues
                          /\ stored[k] \in Nat /\ offsets[k] \in Nat
      /\ Children \in Nat /\ MaxValues \in Nat
  BY Elements DEF Inv
<1> HIDE DEF s, n
<1>5. n + 1 \in 0..MaxValues /\ n + 1 \in 1..MaxValues /\ n + 1 <= sizes[i]
  BY <1>1, <1>4
<1>6. <<i, n + 1>> \in (0..Children) \X (0..MaxValues)
  BY <1>4, <1>5
<1>7. /\ engaged' \in [Slot -> BOOLEAN]
      /\ object' \in [Slot -> (0..Children) \X (0..MaxValues)]
      /\ stored' \in [Child -> 0..MaxValues]
      /\ live' \in Nat
  <2>1. engaged' \in [Slot -> BOOLEAN]
    BY <1>2, <1>3
  <2>2. live' \in Nat
    BY <1>2, <1>3
  <2>3. stored' \in [Child -> 0..MaxValues]
    BY <1>2, <1>3, <1>5
  <2>4. object' \in [Slot -> (0..Children) \X (0..MaxValues)]
    BY <1>2, <1>3, <1>6
  <2> QED
    BY <2>1, <2>2, <2>3, <2>4
<1>8. /\ \A k \in Slot : engaged'[k] = IF k = s THEN TRUE ELSE engaged[k]
      /\ \A k \in Slot : object'[k] = IF k = s THEN <<i, n + 1>> ELSE object[k]
      /\ \A k \in Child : stored'[k] = IF k = i THEN n + 1 ELSE stored[k]
  BY <1>2, <1>3
<1>9. \A k \in Slot, c \in Child, j \in 1..MaxValues :
        Holds(k, c, j)' <=> Holds(k, c, j) \/ (k = s /\ c = i /\ j = n + 1)
  <2> SUFFICES ASSUME NEW k \in Slot, NEW c \in Child, NEW j \in 1..MaxValues
               PROVE  Holds(k, c, j)' <=> Holds(k, c, j) \/ (k = s /\ c = i /\ j = n + 1)
    OBVIOUS
  <2>1. Holds(k, c, j)' <=> j \in 1..stored'[c] /\ k = offsets[c] + (j - 1)
    BY <1>2 DEF Holds
  <2>2. CASE c # i
    BY <1>8, <2>1, <2>2 DEF Holds
  <2>3. CASE c = i
    <3>1. stored'[c] = n + 1 /\ stored[c] = n
      BY <1>8, <2>3 DEF n
    <3>2. j \in 1..(n + 1) <=> j \in 1..n \/ j = n + 1
      BY <1>1
    <3>3. j = n + 1 => (k = offsets[c] + (j - 1) <=> k = s)
      BY <1>1, <1>4, <2>3
    <3> QED
      BY <2>1, <2>3, <3>1, <3>2, <3>3 DEF Holds
  <2> QED
    BY <2>2, <2>3
<1>10. \A c \in Child, j \in 1..MaxValues : ~Holds(s, c, j)
  BY <1>1 DEF Inv, Placed
<1>11. Placed'
  <2>1. /\ \A k \in Slot : engaged[k] => \E c \in Child, j \in 1..MaxValues : Holds(k, c, j)
        /\ \A k \in Slot, c \in Child, j \in 1..MaxValues :
             Holds(k, c, j) => engaged[k] /\ object[k] = <<c, j>>
        /\ \A k \in Slot : ~engaged[k] => object[k] = Raw
        /\ \A c \in Child : stored[c] <= sizes[c]
    BY <1>1 DEF Inv, Placed
  <2>2. \A c \in Child : stored'[c] <= sizes[c]
    BY <1>5, <1>8, <2>1
  <2>3. \A k \in Slot : engaged'[k] => \E c \in Child, j \in 1..MaxValues : Holds(k, c, j)'
    <3> SUFFICES ASSUME NEW k \in Slot, engaged'[k]
                 PROVE  \E c \in Child, j \in 1..MaxValues : Holds(k, c, j)'
      OBVIOUS
    <3>1. CASE k = s
      BY <1>5, <1>9, <3>1
    <3>2. CASE k # s
      <4>1. PICK c \in Child, j \in 1..MaxValues : Holds(k, c, j)
        BY <1>8, <2>1, <3>2
      <4> QED
        BY <1>9, <4>1
    <3> QED
      BY <3>1, <3>2
  <2>4. \A k \in Slot, c \in Child, j \in 1..MaxValues :
          Holds(k, c, j)' => engaged'[k] /\ object'[k] = <<c, j>>
    <3> SUFFICES ASSUME NEW k \in Slot, NEW c \in Child, NEW j \in 1..MaxValues,
                        Holds(k, c, j)'
                 PROVE  engaged'[k] /\ object'[k] = <<c, j>>
      OBVIOUS
    <3>1. CASE k = s /\ c = i /\ j = n + 1
      BY <1>8, <3>1
    <3>2. CASE Holds(k, c, j)
      <4>1. k # s
        BY <1>10, <3>2
      <4> QED
        BY <1>8, <2>1, <3>2, <4>1
    <3> QED
      BY <1>9, <3>1, <3>2
  <2>5. \A k \in Slot : ~engaged'[k] => object'[k] = Raw
    BY <1>8, <2>1
  <2>6. step' = "store" /\ sizes' = sizes
    BY <1>1, <1>2
  <2> QED
    BY <2>2, <2>3, <2>4, <2>5, <2>6 DEF Placed
<1>12. Counted'
  <2>1. Engaged' = Engaged \cup {s} /\ s \notin Engaged
    BY <1>1, <1>8 DEF Engaged
  <2>2. IsFiniteSet(Engaged)
    BY SlotsFinite, FS_Subset DEF Engaged
  <2>3. Cardinality(Engaged') = Cardinality(Engaged) + 1
    BY <2>1, <2>2, FS_AddElement
  <2> QED
    BY <1>1, <1>2, <2>3 DEF Inv, Counted
<1> QED
  BY <1>7, <1>11, <1>12

\* The steps that construct and destroy no value.
LEMMA TupleIdle ==
  ASSUME Inv, UNCHANGED <<sizes, stored, object, engaged, live>>,
         \/ UNCHANGED <<step, offsets>>
         \/ step = "scan" /\ step' \in {"scan", "store"}
         \/ step = "store" /\ step' = "completed" /\ UNCHANGED offsets
  PROVE  Placed' /\ Counted'
<1>1. Engaged' = Engaged
  BY DEF Engaged
<1>2. (step # "destroyed" /\ step' # "destroyed") \/ UNCHANGED step
  OBVIOUS
<1>3. Counted'
  BY <1>1, <1>2 DEF Inv, Counted
<1>4. CASE UNCHANGED offsets
  <2>1. \A k \in Slot, i \in Child, j \in 1..MaxValues : Holds(k, i, j)' <=> Holds(k, i, j)
    BY <1>4 DEF Holds
  <2>2. step' = "scan" => step = "scan"
    OBVIOUS
  <2> QED
    BY <1>2, <1>3, <2>1, <2>2 DEF Inv, Placed
<1>5. CASE step = "scan"
  <2>1. \A i \in Child : stored[i] = 0
    BY <1>5 DEF Inv, Placed
  <2>2. \A k \in Slot, i \in Child, j \in 1..MaxValues : ~Holds(k, i, j) /\ ~Holds(k, i, j)'
    BY <2>1 DEF Holds
  <2> QED
    BY <1>2, <1>3, <1>5, <2>1, <2>2 DEF Inv, Placed
<1> QED
  BY <1>3, <1>4, <1>5

\* The tuple destroys what it holds.
LEMMA DestroyStep ==
  ASSUME Inv, Destroy
  PROVE  /\ object' \in [Slot -> (0..Children) \X (0..MaxValues)]
         /\ live' = 0
         /\ Placed' /\ Counted'
<1>1. /\ step = "completed" /\ step' = "destroyed"
      /\ object' = [k \in Slot |-> IF engaged[k] THEN Raw ELSE object[k]]
      /\ live' = live - Cardinality(Engaged)
      /\ UNCHANGED <<sizes, offsets, engaged, stored>>
  BY DEF Destroy, scanVars
<1>2. live \in Nat /\ live = Cardinality(Engaged)
  BY <1>1 DEF Inv, Counted, TypeOK
<1>3. live' = 0
  BY <1>1, <1>2
<1>4. object' \in [Slot -> (0..Children) \X (0..MaxValues)]
  <2>1. Raw \in (0..Children) \X (0..MaxValues)
    BY ValueSlotsAssumption DEF Raw
  <2> QED
    BY <1>1, <2>1 DEF Inv, TypeOK
<1>5. \A k \in Slot, i \in Child, j \in 1..MaxValues : Holds(k, i, j)' <=> Holds(k, i, j)
  BY <1>1 DEF Holds
<1>6. Placed'
  BY <1>1, <1>5 DEF Inv, Placed
<1>7. Counted'
  BY <1>1, <1>3 DEF Counted
<1> QED
  BY <1>3, <1>4, <1>6, <1>7

-----------------------------------------------------------------------------
(* The variant                                                              *)

\* The error of a child, and whether it is the first.
LEMMA SetErrorStep ==
  ASSUME Inv, NEW i \in Child, NEW type \in Alternatives, SetError(type, i),
         step = "store", UNCHANGED step
  PROVE  Kept' /\ failed' \subseteq Child /\ winner' \in Child \cup {0}
<1>1. failed' = failed \cup {i} /\ failed \subseteq Child /\ winner \in Child \cup {0}
  BY DEF SetError, Inv, TypeOK
<1>2. i # 0
  BY Elements DEF Inv
<1>3. CASE winner = 0
  <2>1. winner' = i /\ BeginEmplace(Error(type, i))
    BY <1>3 DEF SetError
  <2>2. storage = NoObject /\ index = npos /\ visited = {}
    BY <1>3 DEF Inv, Kept
  <2>3. /\ emplacing' = Error(type, i)
        /\ storage' = NoObject /\ index' = npos /\ visited' = {}
    BY <2>1, <2>2 DEF BeginEmplace, StorageAfterDestroy, IndexAfterDestroy
  <2>4. Error(type, i).type = type /\ Error(type, i).by = i
    BY DEF Error
  <2>5. Error(type, i) # NoObject
    <3>1. NoObject.type = npos
      BY DEF NoObject
    <3> QED
      BY <2>4, <3>1, VariantAssumption
  <2> QED
    BY <1>1, <1>2, <2>1, <2>3, <2>4, <2>5 DEF Kept, TheError
<1>4. CASE winner # 0
  <2>1. UNCHANGED <<winner, index, storage, emplacing, visited>>
    BY <1>4 DEF SetError, variantVars
  <2> QED
    BY <1>1, <1>4, <2>1 DEF Inv, Kept, TheError
<1> QED
  BY <1>3, <1>4

\* The constructor returns, or throws and another one is begun.
LEMMA CopyErrorStep ==
  ASSUME Inv, CopyError
  PROVE  Kept'
<1>1. /\ emplacing # NoObject /\ UNCHANGED <<step, failed, winner, visited>>
  BY DEF CopyError, EndEmplace, EmplaceThrows
<1>2. /\ step = "store" /\ winner # 0 /\ TheError(emplacing)
      /\ storage = NoObject /\ index = npos /\ visited = {} /\ failed # {}
  BY <1>1 DEF Inv, Kept
<1>3. CASE EndEmplace
  <2>1. storage' = emplacing /\ index' = emplacing.type /\ emplacing' = NoObject
    BY <1>3 DEF EndEmplace
  <2> QED
    BY <1>1, <1>2, <2>1 DEF Kept, TheError
<1>4. CASE EmplaceThrows(Error("exception_ptr", winner))
  <2> DEFINE e == Error("exception_ptr", winner)
  <2>1. emplacing' = e /\ storage' = NoObject /\ index' = npos
    BY <1>2, <1>4 DEF EmplaceThrows, StorageAfterDestroy, IndexAfterDestroy
  <2>2. e.type \in Alternatives /\ e.by = winner
    BY ValueSlotsAssumption DEF Error
  <2>3. e # NoObject
    <3>1. NoObject.type = npos
      BY DEF NoObject
    <3> QED
      BY <2>2, <3>1, VariantAssumption
  <2> QED
    BY <1>1, <1>2, <2>1, <2>2, <2>3 DEF Kept, TheError
<1> QED
  BY <1>3, <1>4 DEF CopyError

\* The receiver is sent the first error, if there is one.
LEMMA CompleteStep ==
  ASSUME Inv, Complete
  PROVE  Kept'
<1>1. /\ step = "store" /\ step' = "completed" /\ emplacing = NoObject
      /\ UNCHANGED <<failed, winner>>
  BY DEF Complete
<1>2. visited = {}
  BY <1>1 DEF Inv, Kept
<1>3. CASE failed = {}
  <2>1. UNCHANGED <<index, storage, emplacing, visited>>
    BY <1>3 DEF Complete, variantVars
  <2> QED
    BY <1>1, <1>2, <1>3, <2>1 DEF Inv, Kept, TheError
<1>4. CASE failed # {}
  <2>1. visited' = visited \cup {storage} /\ UNCHANGED <<index, storage, emplacing>>
    BY <1>4 DEF Complete, Visit
  <2>2. winner # 0 /\ TheError(storage) /\ index = storage.type
    BY <1>1, <1>4 DEF Inv, Kept
  <2>3. visited' = {storage}
    BY <1>2, <2>1
  <2>4. storage \in visited' /\ TheError(storage)'
    BY <1>1, <2>1, <2>2, <2>3 DEF TheError
  <2>5. \E e \in visited' : visited' = {e} /\ TheError(e)'
    BY <1>1, <2>2, <2>3 DEF TheError
  <2> QED
    BY <1>1, <1>4, <2>1, <2>2, <2>4, <2>5 DEF Inv, Kept
<1> QED
  BY <1>3, <1>4

\* All the values are handed on in order.
LEMMA SentInOrder ==
  ASSUME Inv, Complete
  PROVE  Sent'
<1> SUFFICES ASSUME failed = {} PROVE delivered' = Ordered(sizes)
  BY DEF Complete, Sent
<1>1. /\ step = "store" /\ \A i \in Child : ~Storing(i)
      /\ delivered' = AllObjects
  BY DEF Complete
<1>2. /\ sizes \in [Child -> Nat]
      /\ \A i \in Child : /\ i \in Nat /\ i >= 1 /\ i <= Children
                          /\ sizes[i] \in Nat /\ sizes[i] <= MaxValues
                          /\ offsets[i] \in Nat /\ stored[i] \in Nat
      /\ Children \in Nat /\ MaxValues \in Nat
  BY Elements, Sizes DEF Inv
<1>3. \A i \in Child : offsets[i] = Before(sizes, i) /\ offsets[i] <= (i - 1) * MaxValues
  BY <1>1 DEF Inv, Scanned, Ranges, Done
<1>4. \A i \in Child : stored[i] = sizes[i]
  BY <1>1, <1>2 DEF Inv, Placed, Storing
<1>5. ASSUME NEW i \in Child, NEW j \in 1..sizes[i]
      PROVE  object[Before(sizes, i) + (j - 1)] = <<i, j>>
  <2>1. j \in 1..MaxValues /\ j \in 1..stored[i] /\ j - 1 \in Nat /\ j - 1 < MaxValues
    BY <1>2, <1>4
  <2>2. offsets[i] + (j - 1) \in Slot
    BY <1>2, <1>3, <2>1, InTuple
  <2>3. Holds(offsets[i] + (j - 1), i, j)
    BY <2>1 DEF Holds
  <2> QED
    BY <1>1, <1>3, <2>1, <2>2, <2>3 DEF Inv, Placed
<1>6. FoldFunction(+, 0, sizes) = Before(sizes, Children + 1)
  <2>1. DOMAIN sizes = Child /\ 1..((Children + 1) - 1) = Child
    BY <1>2 DEF Child
  <2>2. FoldFunction(+, 0, sizes) = Total(sizes, DOMAIN sizes)
    BY DEF FoldFunction, Total
  <2> QED
    BY <2>1, <2>2 DEF Before
<1>7. AllObjects = [k \in 1..Before(sizes, Children + 1) |-> object[k - 1]]
  BY <1>6 DEF AllObjects
<1> QED
  BY <1>1, <1>2, <1>5, <1>7, InOrder

\* The variant destroys the error.
LEMMA DestroyError ==
  ASSUME Inv, Destroy
  PROVE  Kept'
<1>1. /\ step = "completed" /\ step' = "destroyed" /\ UNCHANGED <<failed, winner>>
      /\ UNCHANGED <<emplacing, visited>>
      /\ storage' = StorageAfterDestroy /\ index' = npos
  BY DEF Destroy, DestroyVariant, IndexAfterDestroy
<1>2. emplacing = NoObject
  BY <1>1 DEF Inv, Kept
<1>3. storage' = NoObject
  <2>1. index = npos => storage = NoObject
    BY <1>1, <1>2, VariantAssumption DEF Inv, Kept, TheError
  <2> QED
    BY <1>1, <2>1 DEF StorageAfterDestroy
<1> QED
  BY <1>1, <1>2, <1>3 DEF Inv, Kept, TheError

-----------------------------------------------------------------------------

\* Every step preserves Inv.
LEMMA Inductive == Inv /\ [Next]_vars => Inv'
<1> SUFFICES ASSUME Inv, [Next]_vars PROVE Inv'
  OBVIOUS
<1>1. TypeOK
  BY DEF Inv
<1>2. CASE UNCHANGED vars
  <2>1. /\ UNCHANGED <<sizes, offsets, first, init, tmp, step, object, engaged, live>>
        /\ UNCHANGED <<stored, failed, winner, delivered, index, storage, emplacing, visited>>
    BY <1>2 DEF vars, scanVars, tupleVars, variantVars
  <2>2. TypeOK' /\ Scanned' /\ Ranges'
    BY <2>1 DEF Inv, TypeOK, Scanned, Ranges, Done
  <2>3. Placed' /\ Counted'
    BY <2>1, TupleIdle
  <2>4. Kept' /\ Sent'
    BY <2>1 DEF Inv, Kept, TheError, Sent
  <2> QED
    BY <2>2, <2>3, <2>4 DEF Inv
<1>3. CASE Scan
  <2>1. /\ UNCHANGED <<sizes, object, engaged, live, stored, failed, winner>>
        /\ UNCHANGED <<index, storage, emplacing, visited>>
    BY <1>3 DEF Scan, tupleVars, variantVars
  <2>2. (Scanned /\ Ranges)'
    BY <1>3, ScanStep
  <2>3. step = "scan" /\ step' \in {"scan", "store"}
    BY <1>3 DEF Scan
  <2>4. Placed' /\ Counted'
    BY <2>1, <2>3, TupleIdle
  <2>5. Kept'
    BY <2>1, <2>3 DEF Inv, Kept, TheError
  <2>6. TypeOK'
    <3>1. offsets' \in [Child -> Nat]
      BY <1>3, ScanEffect
    <3>2. first' \in Child /\ init' \in Nat /\ tmp' \in Nat
      BY <1>3, ScanEffect, Elements DEF Inv
    <3> QED
      BY <1>1, <2>1, <2>3, <3>1, <3>2 DEF TypeOK
  <2>7. Sent'
    BY <1>3 DEF Scan, Sent
  <2> QED
    BY <2>2, <2>4, <2>5, <2>6, <2>7 DEF Inv
<1>4. ASSUME NEW i \in Child, Store(i) PROVE Inv'
  <2>1. /\ UNCHANGED <<sizes, offsets, first, init, tmp, step, failed, winner>>
        /\ UNCHANGED <<index, storage, emplacing, visited>>
        /\ step = "store"
    BY <1>4 DEF Store, Storing, scanVars, variantVars
  <2>2. /\ engaged' \in [Slot -> BOOLEAN]
        /\ object' \in [Slot -> (0..Children) \X (0..MaxValues)]
        /\ stored' \in [Child -> 0..MaxValues]
        /\ live' \in Nat
        /\ Placed' /\ Counted'
    BY <1>4, StoreStep
  <2>3. TypeOK'
    BY <1>1, <2>1, <2>2 DEF TypeOK
  <2>4. (Scanned /\ Ranges)'
    BY <2>1, AfterScan
  <2>5. Kept'
    BY <2>1 DEF Inv, Kept, TheError
  <2>6. Sent'
    BY <2>1 DEF Sent
  <2> QED
    BY <2>2, <2>3, <2>4, <2>5, <2>6 DEF Inv
<1>5. ASSUME NEW i \in Child, NEW type \in Alternatives,
             StoreThrows(i) \/ Fail(i, type)
      PROVE  Inv'
  <2>1. /\ UNCHANGED <<sizes, offsets, first, init, tmp, step, object, engaged, live, stored>>
        /\ step = "store"
    BY <1>5 DEF StoreThrows, Fail, Storing, EngagedIfThrown, scanVars, tupleVars
  <2>2. SetError(type, i) \/ SetError("exception_ptr", i)
    BY <1>5 DEF StoreThrows, Fail
  <2>3. Kept' /\ failed' \subseteq Child /\ winner' \in Child \cup {0}
    BY <2>1, <2>2, SetErrorStep, ValueSlotsAssumption
  <2>4. TypeOK'
    BY <1>1, <2>1, <2>3 DEF TypeOK
  <2>5. (Scanned /\ Ranges)'
    BY <2>1, AfterScan
  <2>6. Placed' /\ Counted'
    BY <2>1, TupleIdle
  <2>7. Sent'
    BY <2>1 DEF Sent
  <2> QED
    BY <2>3, <2>4, <2>5, <2>6, <2>7 DEF Inv
<1>6. CASE CopyError
  <2>1. /\ UNCHANGED <<sizes, offsets, first, init, tmp, step, object, engaged, live, stored>>
        /\ UNCHANGED <<failed, winner>>
    BY <1>6 DEF CopyError, scanVars, tupleVars
  <2>2. step = "store"
    BY <1>6 DEF CopyError, EndEmplace, EmplaceThrows, Inv, Kept
  <2>3. TypeOK'
    BY <1>1, <2>1 DEF TypeOK
  <2>4. (Scanned /\ Ranges)'
    BY <2>1, <2>2, AfterScan
  <2>5. Placed' /\ Counted'
    BY <2>1, TupleIdle
  <2>6. Kept'
    BY <1>6, CopyErrorStep
  <2>7. Sent'
    BY <2>1, <2>2 DEF Sent
  <2> QED
    BY <2>3, <2>4, <2>5, <2>6, <2>7 DEF Inv
<1>7. CASE Complete
  <2>1. /\ UNCHANGED <<sizes, offsets, first, init, tmp, object, engaged, live, stored>>
        /\ UNCHANGED <<failed, winner>>
        /\ step = "store" /\ step' = "completed"
    BY <1>7 DEF Complete, scanVars, tupleVars
  <2>2. TypeOK'
    BY <1>1, <2>1 DEF TypeOK
  <2>3. (Scanned /\ Ranges)'
    BY <2>1, AfterScan
  <2>4. Placed' /\ Counted'
    BY <2>1, TupleIdle
  <2>5. Kept'
    BY <1>7, CompleteStep
  <2>6. Sent'
    BY <1>7, <2>1, SentInOrder
  <2> QED
    BY <2>2, <2>3, <2>4, <2>5, <2>6 DEF Inv
<1>8. CASE Destroy
  <2>1. /\ UNCHANGED <<sizes, offsets, first, init, tmp, engaged, stored, failed, winner>>
        /\ step = "completed" /\ step' = "destroyed"
    BY <1>8 DEF Destroy, scanVars
  <2>2. /\ object' \in [Slot -> (0..Children) \X (0..MaxValues)]
        /\ live' = 0 /\ Placed' /\ Counted'
    BY <1>8, DestroyStep
  <2>3. TypeOK'
    BY <1>1, <2>1, <2>2 DEF TypeOK
  <2>4. (Scanned /\ Ranges)'
    BY <2>1, AfterScan
  <2>5. Kept'
    BY <1>8, DestroyError
  <2>6. Sent'
    BY <1>8 DEF Inv, Destroy, Sent
  <2> QED
    BY <2>2, <2>3, <2>4, <2>5, <2>6 DEF Inv
<1>9. ASSUME NEW i \in Child, StoreThrows(i) PROVE Inv'
  BY <1>5, <1>9, ValueSlotsAssumption
<1> QED
  BY <1>2, <1>3, <1>4, <1>5, <1>6, <1>7, <1>8, <1>9 DEF Next

-----------------------------------------------------------------------------
(* What holds in every behaviour                                            *)

\* Inv holds in every behaviour.
THEOREM Invariance == Spec => []Inv
  BY InitInv, Inductive, PTL DEF Spec

\* The tuple knows its objects: a slot is marked when it holds one, no object is
\* constructed over another, and none is left when the tuple was destroyed.
THEOREM TupleOwns == Spec => []TupleOwnsItsObjects
<1>1. Inv => TupleOwnsItsObjects
  <2> SUFFICES ASSUME Inv PROVE TupleOwnsItsObjects
    OBVIOUS
  <2>1. ASSUME step # "destroyed", NEW k \in Slot PROVE engaged[k] <=> object[k] # Raw
    <3>1. ASSUME engaged[k] PROVE object[k] # Raw
      <4>1. PICK i \in Child, j \in 1..MaxValues : Holds(k, i, j)
        BY <3>1 DEF Inv, Placed
      <4>2. object[k] = <<i, j>>
        BY <2>1, <4>1 DEF Inv, Placed
      <4>3. i # 0
        BY Elements DEF Inv
      <4> QED
        BY <4>2, <4>3 DEF Raw
    <3>2. ~engaged[k] => object[k] = Raw
      BY <2>1 DEF Inv, Placed
    <3>3. engaged[k] \in BOOLEAN
      BY DEF Inv, TypeOK
    <3> QED
      BY <3>1, <3>2, <3>3
  <2> QED
    BY <2>1 DEF Inv, Counted, TupleOwnsItsObjects
<1> QED
  BY <1>1, Invariance, PTL

\* The error variant knows its object, the receiver gets the error of the first
\* child that failed, and the error lives as long as the operation state.
THEOREM FirstErrorKept == Spec => []FirstErrorIsKept
<1>1. Inv => FirstErrorIsKept
  <2> SUFFICES ASSUME Inv PROVE FirstErrorIsKept
    OBVIOUS
  <2>1. IndexNamesTheObject
    BY DEF Inv, Kept, IndexNamesTheObject, NoObject
  <2>2. ASSUME winner # 0, step \in {"completed", "destroyed"}
        PROVE  /\ {e.type : e \in visited} \subseteq Alternatives
               /\ {e.by : e \in visited} = {winner}
    <3>1. PICK e \in visited : visited = {e} /\ TheError(e)
      BY <2>2 DEF Inv, Kept
    <3> QED
      BY <3>1 DEF TheError
  <2>3. step = "destroyed" => storage = NoObject
    BY DEF Inv, Kept
  <2> QED
    BY <2>1, <2>2, <2>3 DEF FirstErrorIsKept
<1> QED
  BY <1>1, Invariance, PTL

\* Scanning the array over itself reads no element it has already replaced, and
\* leaves in each element the sum of those before it.
THEOREM ScansInPlace == Spec => []ScanInPlace
<1>1. Inv => ScanInPlace
  <2> SUFFICES ASSUME Inv, NEW i \in Child
               PROVE  /\ step = "scan" /\ i >= first => offsets[i] = sizes[i]
                      /\ ~(step = "scan" /\ i >= first) => offsets[i] = Before(sizes, i)
    BY DEF ScanInPlace, Before, Total
  <2>1. ~(i >= first) => i < first
    BY Elements DEF Inv
  <2> QED
    BY <2>1 DEF Inv, Scanned, Done
<1> QED
  BY <1>1, Invariance, PTL

\* The receiver gets the values in the order of the children, whatever the order
\* in which they were stored.
THEOREM ValuesDeliveredInOrder == Spec => []ValuesInOrder
<1>1. Inv => ValuesInOrder
  BY DEF Inv, Sent, Ordered, ValuesInOrder
<1> QED
  BY <1>1, Invariance, PTL

=============================================================================
