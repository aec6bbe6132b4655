-------------------------- MODULE CanonicalProofs --------------------------
(***************************************************************************)
(* What Canonicalize computes, for every request. The loop over the lines  *)
(* is a recursive function and the reference a sum over a set, so the      *)
(* module first proves what such a sum is; the sum takes its elements in   *)
(* an order nobody knows, hence that the order does not matter comes       *)
(* first. Every induction, over the subsets of a finite set or over the    *)
(* lines walked so far, is put as a smallest counterexample.               *)
(***************************************************************************)
EXTENDS Canonical, FiniteSets, FiniteSetTheorems, WellFoundedInduction, TLAPS

\* A set of naturals that is not empty has a least element.
LEMMA LeastNat ==
  ASSUME NEW T \in SUBSET Nat, T # {}
  PROVE  \E n \in T : \A k \in T : n <= k
<1>1. IsWellFoundedOn(OpToRel(<, Nat), Nat)
  BY NatLessThanWellFounded
<1>2. PICK n \in T : \A k \in T : ~(<<k, n>> \in OpToRel(<, Nat))
  BY <1>1, WFMin
<1>3. \A k \in T : ~(k < n)
  BY <1>2 DEF OpToRel
<1> QED
  BY <1>3

\* A set of subsets of a finite set that is not empty has a smallest one: none
\* of its members is a strict subset of it.
LEMMA LeastSet ==
  ASSUME NEW S, IsFiniteSet(S), NEW T \in SUBSET SUBSET S, T # {}
  PROVE  \E s \in T : \A r \in SUBSET s : r # s => r \notin T
<1>1. IsWellFoundedOn(StrictSubsetOrdering(S), SUBSET S)
  BY FS_StrictSubsetOrderingWellFounded, FS_FiniteSubsetsOfFinite
<1>2. PICK s \in T : \A r \in T : ~(<<r, s>> \in StrictSubsetOrdering(S))
  BY <1>1, WFMin
<1>3. \A r \in T : ~(r \subseteq s /\ r # s)
  BY <1>2 DEF StrictSubsetOrdering
<1> QED
  BY <1>3

-----------------------------------------------------------------------------
(* The recursion behind the sum.                                            *)

Pick(s) == CHOOSE x \in s : TRUE

\* it is the running sum that the definition of SumFunctionOnSet recurses on.
Sums(f, S, it) ==
    it = [s \in SUBSET S |-> IF s = {} THEN 0 ELSE f[Pick(s)] + it[s \ {Pick(s)}]]

\* The element taken first is an element.
LEMMA Picked ==
  ASSUME NEW s, s # {}
  PROVE  Pick(s) \in s
  BY DEF Pick

\* Two running sums agree where both are defined.
LEMMA SumsAgree ==
  ASSUME NEW S, IsFiniteSet(S), NEW T \in SUBSET S, NEW f, NEW g,
         \A x \in T : f[x] = g[x], NEW i, NEW j, Sums(f, S, i), Sums(g, T, j)
  PROVE  \A s \in SUBSET T : i[s] = j[s]
<1> DEFINE Bad == {s \in SUBSET T : i[s] # j[s]}
<1> SUFFICES ASSUME Bad # {} PROVE FALSE
  OBVIOUS
<1>1. PICK s \in Bad : \A r \in SUBSET s : r # s => r \notin Bad
  <2>1. Bad \in SUBSET SUBSET S
    OBVIOUS
  <2> HIDE DEF Bad
  <2> QED
    BY <2>1, LeastSet
<1>2. i[s] = IF s = {} THEN 0 ELSE f[Pick(s)] + i[s \ {Pick(s)}]
  BY DEF Sums
<1>3. j[s] = IF s = {} THEN 0 ELSE g[Pick(s)] + j[s \ {Pick(s)}]
  BY DEF Sums
<1>4. CASE s = {}
  BY <1>2, <1>3, <1>4
<1>5. CASE s # {}
  <2>1. Pick(s) \in s
    BY <1>5, Picked
  <2>2. i[s \ {Pick(s)}] = j[s \ {Pick(s)}]
    BY <1>1, <2>1
  <2> QED
    BY <1>2, <1>3, <1>5, <2>1, <2>2
<1> QED
  BY <1>4, <1>5

\* There is a running sum over every finite set.
LEMMA SumsExist ==
  ASSUME NEW f, NEW S, IsFiniteSet(S)
  PROVE  \E it : Sums(f, S, it)
<1> DEFINE Bad == {s \in SUBSET S : ~ \E it : Sums(f, s, it)}
<1> SUFFICES ASSUME Bad # {} PROVE FALSE
  BY Zenon
<1>1. PICK s \in Bad : \A r \in SUBSET s : r # s => r \notin Bad
  <2>1. Bad \in SUBSET SUBSET S
    OBVIOUS
  <2> HIDE DEF Bad
  <2> QED
    BY <2>1, LeastSet
<1>2. \A r \in SUBSET s : r # s => \E it : Sums(f, r, it)
  BY <1>1
<1> DEFINE Of(r) == CHOOSE it : Sums(f, r, it)
           rest(t) == t \ {Pick(t)}
           whole == [t \in SUBSET s |-> IF t = {} THEN 0 ELSE f[Pick(t)] + Of(rest(t))[rest(t)]]
<1>3. \A r \in SUBSET s : r # s => Sums(f, r, Of(r))
  BY <1>2
<1> HIDE DEF Of
<1>4. ASSUME NEW t \in SUBSET s, t # s PROVE whole[t] = Of(t)[t]
  <2>1. Of(t)[t] = IF t = {} THEN 0 ELSE f[Pick(t)] + Of(t)[rest(t)]
    BY <1>3, <1>4 DEF Sums
  <2>2. CASE t = {}
    BY <2>1, <2>2
  <2>3. CASE t # {}
    <3>1. rest(t) \in SUBSET t /\ rest(t) # s /\ rest(t) \in SUBSET s
      BY <2>3, Picked
    <3>2. IsFiniteSet(t)
      BY FS_Subset
    <3>3. Sums(f, t, Of(t)) /\ Sums(f, rest(t), Of(rest(t)))
      BY <1>3, <1>4, <3>1
    <3> HIDE DEF rest
    <3>4. \A u \in SUBSET rest(t) : Of(t)[u] = Of(rest(t))[u]
      BY <3>1, <3>2, <3>3, SumsAgree
    <3>5. Of(t)[rest(t)] = Of(rest(t))[rest(t)]
      BY <3>4
    <3> QED
      BY <2>1, <2>3, <3>5
  <2> QED
    BY <2>2, <2>3
<1>5. Sums(f, s, whole)
  <2>1. \A t \in SUBSET s : t # {} => rest(t) \in SUBSET s /\ rest(t) # s
    BY Picked
  <2>2. \A t \in SUBSET s : whole[t] = IF t = {} THEN 0 ELSE f[Pick(t)] + whole[rest(t)]
    BY <1>4, <2>1
  <2> QED
    BY <2>2 DEF Sums
<1> QED
  BY <1>1, <1>5

\* SumFunctionOnSet is the running sum of the whole set.
LEMMA SumIs ==
  ASSUME NEW f, NEW S, IsFiniteSet(S)
  PROVE  \E it : Sums(f, S, it) /\ SumFunctionOnSet(f, S) = it[S]
<1> DEFINE it == CHOOSE it : Sums(f, S, it)
<1>1. SumFunctionOnSet(f, S) = it[S]
  BY DEF SumFunctionOnSet, FoldFunctionOnSet, MapThenFoldSet, Sums, Pick
<1>2. Sums(f, S, it)
  <2>1. \E i : Sums(f, S, i)
    BY SumsExist
  <2> QED
    BY <2>1
<1> QED
  BY <1>1, <1>2

-----------------------------------------------------------------------------
(* The facts.                                                               *)

\* The empty sum.
LEMMA SumEmpty ==
  ASSUME NEW f
  PROVE  SumFunctionOnSet(f, {}) = 0
<1>1. PICK it : Sums(f, {}, it) /\ SumFunctionOnSet(f, {}) = it[{}]
  BY SumIs, FS_EmptySet
<1> QED
  BY <1>1 DEF Sums

\* It does not matter which element is taken first.
Orderless(f, S, it) ==
    \A s \in SUBSET S : it[s] \in Nat /\ \A x \in s : it[s] = f[x] + it[s \ {x}]

\* A running sum over naturals is the same in every order of its elements.
LEMMA AnyOrder ==
  ASSUME NEW S, IsFiniteSet(S), NEW f, \A x \in S : f[x] \in Nat, NEW it, Sums(f, S, it)
  PROVE  Orderless(f, S, it)
<1> DEFINE Good(s) == it[s] \in Nat /\ \A x \in s : it[s] = f[x] + it[s \ {x}]
           Bad == {s \in SUBSET S : ~Good(s)}
<1> SUFFICES ASSUME Bad # {} PROVE FALSE
  BY DEF Orderless
<1>1. PICK s \in Bad : \A r \in SUBSET s : r # s => r \notin Bad
  <2>1. Bad \in SUBSET SUBSET S
    OBVIOUS
  <2> HIDE DEF Bad
  <2> QED
    BY <2>1, LeastSet
<1>2. \A r \in SUBSET s : r # s => Good(r)
  BY <1>1
<1>3. it[s] = IF s = {} THEN 0 ELSE f[Pick(s)] + it[s \ {Pick(s)}]
  BY DEF Sums
<1>4. CASE s = {}
  BY <1>1, <1>3, <1>4
<1>5. CASE s # {}
  <2> DEFINE p == Pick(s)
  <2>1. p \in s
    BY <1>5, Picked
  <2> HIDE DEF p
  <2>2. it[s] = f[p] + it[s \ {p}]
    BY <1>3, <1>5 DEF p
  <2>3. it[s \ {p}] \in Nat /\ f[p] \in Nat
    BY <1>2, <2>1
  <2>4. ASSUME NEW x \in s, x # p PROVE it[s] = f[x] + it[s \ {x}]
    <3>1. it[s \ {p}] = f[x] + it[(s \ {p}) \ {x}]
      BY <1>2, <2>1, <2>4
    <3>2. it[s \ {x}] = f[p] + it[(s \ {x}) \ {p}]
      BY <1>2, <2>1, <2>4
    <3>3. (s \ {p}) \ {x} = (s \ {x}) \ {p}
      OBVIOUS
    <3>4. it[(s \ {x}) \ {p}] \in Nat /\ f[x] \in Nat
      <4>1. (s \ {x}) \ {p} \in SUBSET s /\ (s \ {x}) \ {p} # s
        BY <2>1
      <4> QED
        BY <1>2, <4>1, Zenon
    <3> DEFINE a == it[(s \ {x}) \ {p}]
    <3>5. it[s \ {p}] = f[x] + a /\ it[s \ {x}] = f[p] + a /\ a \in Nat
      BY <3>1, <3>2, <3>3, <3>4
    <3> HIDE DEF a, Bad, Good
    <3> QED
      BY <2>2, <2>3, <3>4, <3>5
  <2>5. it[s] \in Nat
    BY <2>2, <2>3
  <2>6. Good(s)
    BY <2>2, <2>4, <2>5, Zenon
  <2> QED
    BY <1>1, <2>6
<1> QED
  BY <1>4, <1>5

\* A sum is a natural number, and may be split off at any element.
LEMMA SumSplits ==
  ASSUME NEW S, IsFiniteSet(S), NEW f, \A x \in S : f[x] \in Nat
  PROVE  /\ SumFunctionOnSet(f, S) \in Nat
         /\ \A x \in S : SumFunctionOnSet(f, S) = f[x] + SumFunctionOnSet(f, S \ {x})
<1>1. PICK i : Sums(f, S, i) /\ SumFunctionOnSet(f, S) = i[S]
  BY SumIs
<1>2. Orderless(f, S, i)
  BY <1>1, AnyOrder
<1>3. ASSUME NEW x \in S PROVE i[S \ {x}] = SumFunctionOnSet(f, S \ {x})
  <2>1. S \ {x} \in SUBSET S /\ IsFiniteSet(S \ {x})
    BY FS_RemoveElement
  <2>2. PICK j : Sums(f, S \ {x}, j) /\ SumFunctionOnSet(f, S \ {x}) = j[S \ {x}]
    BY <2>1, SumIs
  <2>3. \A s \in SUBSET (S \ {x}) : i[s] = j[s]
    BY <1>1, <2>1, <2>2, SumsAgree
  <2> QED
    BY <2>2, <2>3
<1> QED
  BY <1>1, <1>2, <1>3 DEF Orderless

\* A sum depends only on the summands.
LEMMA SumSame ==
  ASSUME NEW S, IsFiniteSet(S), NEW f, NEW g, \A x \in S : f[x] = g[x]
  PROVE  SumFunctionOnSet(f, S) = SumFunctionOnSet(g, S)
<1>1. PICK i : Sums(f, S, i) /\ SumFunctionOnSet(f, S) = i[S]
  BY SumIs
<1>2. PICK j : Sums(g, S, j) /\ SumFunctionOnSet(g, S) = j[S]
  BY SumIs
<1>3. \A s \in SUBSET S : i[s] = j[s]
  BY <1>1, <1>2, SumsAgree
<1> QED
  BY <1>1, <1>2, <1>3

\* One more element adds its summand.
LEMMA SumAdds ==
  ASSUME NEW S, IsFiniteSet(S), NEW x, x \notin S, NEW f, \A y \in S \cup {x} : f[y] \in Nat
  PROVE  SumFunctionOnSet(f, S \cup {x}) = f[x] + SumFunctionOnSet(f, S)
<1>1. IsFiniteSet(S \cup {x}) /\ (S \cup {x}) \ {x} = S /\ x \in S \cup {x}
  BY FS_AddElement
<1> QED
  BY <1>1, SumSplits

\* Nothing comes of nothing.
LEMMA SumZero ==
  ASSUME NEW S, IsFiniteSet(S), NEW f, \A x \in S : f[x] = 0
  PROVE  SumFunctionOnSet(f, S) = 0
<1>1. PICK i : Sums(f, S, i) /\ SumFunctionOnSet(f, S) = i[S]
  BY SumIs
<1>2. Sums(f, S, [s \in SUBSET S |-> 0])
  <2>1. \A s \in SUBSET S : s # {} => Pick(s) \in s
    BY Picked
  <2> QED
    BY <2>1 DEF Sums
<1>3. \A s \in SUBSET S : i[s] = [t \in SUBSET S |-> 0][s]
  BY <1>1, <1>2, SumsAgree
<1> QED
  BY <1>1, <1>3

\* One summand changes.
LEMMA SumChanges ==
  ASSUME NEW S, IsFiniteSet(S), NEW f, NEW g, NEW x \in S,
         \A y \in S : f[y] \in Nat /\ g[y] \in Nat, \A y \in S \ {x} : f[y] = g[y]
  PROVE  SumFunctionOnSet(g, S) + f[x] = SumFunctionOnSet(f, S) + g[x]
<1>1. IsFiniteSet(S \ {x})
  BY FS_RemoveElement
<1>2. SumFunctionOnSet(f, S \ {x}) = SumFunctionOnSet(g, S \ {x})
  BY <1>1, SumSame
<1>3. SumFunctionOnSet(f, S \ {x}) \in Nat
  BY <1>1, SumSplits
<1>4. SumFunctionOnSet(f, S) = f[x] + SumFunctionOnSet(f, S \ {x})
  BY SumSplits
<1>5. SumFunctionOnSet(g, S) = g[x] + SumFunctionOnSet(g, S \ {x})
  BY SumSplits
<1> QED
  BY <1>2, <1>3, <1>4, <1>5

\* The summands may be renamed.
LEMMA SumRenamed ==
  ASSUME NEW S, IsFiniteSet(S), NEW T, IsFiniteSet(T), NEW p \in [S -> T],
         \A x, y \in S : p[x] = p[y] => x = y,
         NEW f, \A y \in T : f[y] \in Nat, NEW g, \A x \in S : g[x] = f[p[x]]
  PROVE  SumFunctionOnSet(g, S) = SumFunctionOnSet(f, {p[x] : x \in S})
<1> DEFINE Image(s) == {p[x] : x \in s}
           Bad == {s \in SUBSET S : SumFunctionOnSet(g, s) # SumFunctionOnSet(f, Image(s))}
<1> SUFFICES ASSUME Bad # {} PROVE FALSE
  OBVIOUS
<1>1. PICK s \in Bad : \A r \in SUBSET s : r # s => r \notin Bad
  <2>1. Bad \in SUBSET SUBSET S
    OBVIOUS
  <2> HIDE DEF Bad
  <2> QED
    BY <2>1, LeastSet
<1>2. CASE s = {}
  <2>1. Image(s) = {}
    BY <1>2
  <2>2. SumFunctionOnSet(g, s) = 0 /\ SumFunctionOnSet(f, Image(s)) = 0
    BY <1>2, <2>1, SumEmpty
  <2> QED
    BY <1>1, <2>2
<1>3. CASE s # {}
  <2>1. PICK x \in s : TRUE
    BY <1>3
  <2> DEFINE r == s \ {x}
  <2>2. r \in SUBSET s /\ r # s /\ s \in SUBSET S
    BY <2>1
  <2>3. SumFunctionOnSet(g, r) = SumFunctionOnSet(f, Image(r))
    BY <1>1, <2>2
  <2>4. Image(s) = Image(r) \cup {p[x]} /\ p[x] \notin Image(r) /\ p[x] \in T /\ Image(r) \subseteq T
    BY <2>1, <2>2
  <2>5. IsFiniteSet(s) /\ \A y \in s : g[y] \in Nat
    BY <2>2, FS_Subset
  <2> HIDE DEF Image, r, Bad
  <2>6. SumFunctionOnSet(g, s) = g[x] + SumFunctionOnSet(g, r)
    BY <2>1, <2>5, SumSplits DEF r
  <2>7. IsFiniteSet(Image(r)) /\ \A y \in Image(r) \cup {p[x]} : f[y] \in Nat
    BY <2>4, FS_Subset
  <2>8. SumFunctionOnSet(f, Image(r) \cup {p[x]}) = f[p[x]] + SumFunctionOnSet(f, Image(r))
    BY <2>4, <2>7, SumAdds
  <2>9. SumFunctionOnSet(g, s) = SumFunctionOnSet(f, Image(s))
    BY <2>2, <2>3, <2>4, <2>6, <2>8
  <2> QED
    BY <1>1, <2>9 DEF Bad
<1> QED
  BY <1>2, <1>3

-----------------------------------------------------------------------------
(* The loop of Canonicalize, as far as line n.                              *)

Start(id, lines) == [report |-> HeaderReport(id, lines), quantities |-> NoLines]

\* walk holds what the loop has after each of the first m lines.
Walks(id, lines, m, walk) ==
    walk = [n \in 0..m |-> IF n = 0 THEN Start(id, lines)
                           ELSE TakeLine(walk[n - 1], n, lines[n])]

\* The recursion of the loop has a solution.
LEMMA WalkExists ==
  ASSUME NEW id, NEW lines, NEW m \in Nat
  PROVE  \E walk : Walks(id, lines, m, walk)
<1> DEFINE Bad == {n \in Nat : ~ \E walk : Walks(id, lines, n, walk)}
<1> SUFFICES ASSUME Bad # {} PROVE FALSE
  BY Zenon
<1>1. PICK n \in Bad : \A k \in Bad : n <= k
  <2>1. Bad \in SUBSET Nat
    OBVIOUS
  <2> HIDE DEF Bad
  <2> QED
    BY <2>1, LeastNat
<1>2. CASE n = 0
  <2>1. Walks(id, lines, 0, [k \in 0..0 |-> Start(id, lines)])
    BY DEF Walks
  <2> QED
    BY <1>1, <1>2, <2>1
<1>3. CASE n # 0
  <2>1. n - 1 \in Nat /\ n - 1 \notin Bad
    BY <1>1, <1>3
  <2>2. PICK walk : Walks(id, lines, n - 1, walk)
    BY <2>1
  <2> DEFINE longer == [k \in 0..n |-> IF k < n THEN walk[k] ELSE TakeLine(walk[n - 1], n, lines[n])]
  <2>3. Walks(id, lines, n, longer)
    <3>1. \A k \in 0..n - 1 : longer[k] = walk[k]
      OBVIOUS
    <3>2. \A k \in 0..n - 1 : walk[k] = IF k = 0 THEN Start(id, lines)
                                        ELSE TakeLine(walk[k - 1], k, lines[k])
      BY <2>2 DEF Walks
    <3>3. \A k \in 0..n - 1 : k # 0 => longer[k - 1] = walk[k - 1]
      OBVIOUS
    <3>4. longer[n] = TakeLine(walk[n - 1], n, lines[n]) /\ longer[n - 1] = walk[n - 1]
      BY <1>3
    <3>5. ASSUME NEW k \in 0..n
          PROVE  longer[k] = IF k = 0 THEN Start(id, lines) ELSE TakeLine(longer[k - 1], k, lines[k])
      <4>1. CASE k = n
        BY <1>3, <3>4, <4>1
      <4>2. CASE k # n
        <5>1. k \in 0..n - 1
          BY <4>2
        <5> HIDE DEF longer
        <5> QED
          BY <5>1, <3>1, <3>2, <3>3
      <4> QED
        BY <4>1, <4>2
    <3> QED
      BY <3>5, Zenon DEF Walks
  <2> QED
    BY <1>1, <2>3
<1> QED
  BY <1>2, <1>3

End(id, lines, walk) ==
    IF Len(lines) > maxLines THEN Start(id, lines) ELSE walk[Len(lines)]

\* Canonicalize returns what the loop ends with, or stops before it.
LEMMA CanonicalizeIs ==
  ASSUME NEW id, NEW lines \in RawLines
  PROVE  \E walk :
            /\ Walks(id, lines, Len(lines), walk)
            /\ Canonicalize(id, lines).ok = (End(id, lines, walk).report.violations = <<>>)
            /\ Canonicalize(id, lines).ok =>
                  /\ Canonicalize(id, lines).order = ParseOrder[id]
                  /\ Canonicalize(id, lines).lines = End(id, lines, walk).quantities
<1> DEFINE walk == CHOOSE w : Walks(id, lines, Len(lines), w)
<1>1. Len(lines) \in Nat
  BY DEF RawLines
<1>2. Walks(id, lines, Len(lines), walk)
  <2>1. \E w : Walks(id, lines, Len(lines), w)
    BY <1>1, WalkExists
  <2> QED
    BY <2>1
<1> DEFINE end == End(id, lines, walk)
           ok == end.report.violations = <<>>
<1>3. Canonicalize(id, lines) = [ok     |-> ok,
                                 order  |-> IF ok THEN ParseOrder[id] ELSE NotAUUID,
                                 lines  |-> IF ok THEN end.quantities ELSE NoLines,
                                 report |-> end.report]
  BY DEF Canonicalize, Walks, Start, End
<1> HIDE DEF end
<1>4. Canonicalize(id, lines).ok = ok
  BY <1>3
<1>5. ok => /\ Canonicalize(id, lines).order = ParseOrder[id]
            /\ Canonicalize(id, lines).lines = end.quantities
  BY <1>3
<1> QED
  BY <1>2, <1>4, <1>5, Zenon DEF end

-----------------------------------------------------------------------------
(* What the first n lines ask for.                                          *)

Fine(line) == TrimSKU[line.sku] # Blank /\ line.quantity \in 1..maxLineQuantity

FineUpTo(lines, n) == \A k \in 1..n : Fine(lines[k])

Upto(lines, n, sku) ==
    SumFunctionOnSet([k \in DOMAIN lines |-> lines[k].quantity],
                     {k \in 1..n : TrimSKU[lines[k].sku] = sku})

\* Before the first line nothing is asked for.
LEMMA UptoStart ==
  ASSUME NEW lines, NEW sku
  PROVE  Upto(lines, 0, sku) = 0
<1>1. {k \in 1..0 : TrimSKU[lines[k].sku] = sku} = {}
  OBVIOUS
<1> QED
  BY <1>1, SumEmpty DEF Upto

\* Lines that break no rule ask for a natural number of each product.
LEMMA UptoNat ==
  ASSUME NEW lines \in RawLines, NEW n \in 0..Len(lines), FineUpTo(lines, n), NEW sku
  PROVE  Upto(lines, n, sku) \in Nat
<1> DEFINE S == {k \in 1..n : TrimSKU[lines[k].sku] = sku}
           f == [k \in DOMAIN lines |-> lines[k].quantity]
<1>1. IsFiniteSet(S)
  BY FS_Interval, FS_Subset DEF RawLines
<1>2. \A k \in S : f[k] \in Nat
  BY CanonicalAssumption DEF FineUpTo, Fine, RawLines
<1> HIDE DEF S, f
<1>3. SumFunctionOnSet(f, S) \in Nat
  BY <1>1, <1>2, SumSplits
<1> QED
  BY <1>3 DEF Upto, S, f

\* One more line adds its quantity to its product and to no other.
LEMMA UptoNext ==
  ASSUME NEW lines \in RawLines, NEW n \in Nat, n + 1 <= Len(lines), FineUpTo(lines, n + 1), NEW sku
  PROVE  Upto(lines, n + 1, sku) =
            Upto(lines, n, sku) + (IF TrimSKU[lines[n + 1].sku] = sku THEN lines[n + 1].quantity ELSE 0)
<1> DEFINE S == {k \in 1..n : TrimSKU[lines[k].sku] = sku}
           T == {k \in 1..(n + 1) : TrimSKU[lines[k].sku] = sku}
           f == [k \in DOMAIN lines |-> lines[k].quantity]
<1>1. Len(lines) \in Nat /\ DOMAIN lines = 1..Len(lines)
  BY DEF RawLines
<1>2. IsFiniteSet(S)
  <2>1. IsFiniteSet(1..n) /\ S \subseteq 1..n
    BY FS_Interval
  <2> HIDE DEF S
  <2> QED
    BY <2>1, FS_Subset
<1>3. FineUpTo(lines, n)
  BY DEF FineUpTo
<1>4. Upto(lines, n, sku) \in Nat
  BY <1>1, <1>3, UptoNat
<1>5. CASE TrimSKU[lines[n + 1].sku] = sku
  <2>1. T = S \cup {n + 1} /\ n + 1 \notin S
    BY <1>5
  <2>2. \A k \in T : f[k] \in Nat
    BY <1>1, CanonicalAssumption DEF FineUpTo, Fine
  <2>3. f[n + 1] = lines[n + 1].quantity
    BY <1>1
  <2>4. f[n + 1] \in Nat
    BY <2>1, <2>2
  <2> HIDE DEF S, T, f
  <2>5. SumFunctionOnSet(f, T) = f[n + 1] + SumFunctionOnSet(f, S)
    BY <1>2, <2>1, <2>2, SumAdds
  <2>6. Upto(lines, n + 1, sku) = SumFunctionOnSet(f, T) /\ Upto(lines, n, sku) = SumFunctionOnSet(f, S)
    BY DEF Upto, S, T, f
  <2> QED
    BY <1>4, <1>5, <2>3, <2>4, <2>5, <2>6
<1>6. CASE TrimSKU[lines[n + 1].sku] # sku
  <2>1. T = S
    BY <1>6
  <2>2. Upto(lines, n + 1, sku) = Upto(lines, n, sku)
    BY <2>1 DEF Upto
  <2> QED
    BY <1>4, <1>6, <2>2
<1> QED
  BY <1>5, <1>6

-----------------------------------------------------------------------------
(* The loop keeps count of what the first n lines ask for, as long as they *)
(* break no rule, and has reported something as soon as they do.           *)

HeaderFine(id, lines) == ParseOrder[id] # NotAUUID /\ Len(lines) \in 1..maxLines

CleanUpTo(id, lines, n) ==
    /\ HeaderFine(id, lines)
    /\ FineUpTo(lines, n)
    /\ \A sku \in SKUs : Upto(lines, n, sku) <= maxLineQuantity

Reports == [violations : Seq(Nat), omitted : Nat]

LoopInv(id, lines, n, walked) ==
    /\ walked \in [report : Reports, quantities : [SKUs -> Int]]
    /\ walked.report.violations = <<>> <=> CleanUpTo(id, lines, n)
    /\ CleanUpTo(id, lines, n) => walked.quantities = [sku \in SKUs |-> Upto(lines, n, sku)]

\* A report that something was added to is not empty, also at its limit.
LEMMA AddReports ==
  ASSUME NEW report \in Reports, NEW field \in Nat
  PROVE  add(report, field) \in Reports /\ add(report, field).violations # <<>>
<1>1. CASE Len(report.violations) >= maxReportedViolations
  <2>1. report.violations # <<>>
    BY <1>1, CanonicalAssumption DEF Reports
  <2> QED
    BY <1>1, <2>1 DEF add, Reports
<1>2. CASE ~(Len(report.violations) >= maxReportedViolations)
  <2>1. add(report, field) = [report EXCEPT !.violations = Append(report.violations, field)]
    BY <1>2 DEF add
  <2>2. Append(report.violations, field) \in Seq(Nat) /\ Append(report.violations, field) # <<>>
    BY DEF Reports
  <2> QED
    BY <2>1, <2>2 DEF Reports
<1> QED
  BY <1>1, <1>2

\* The header is reported on exactly when it breaks a rule.
LEMMA HeaderReports ==
  ASSUME NEW id, NEW lines \in RawLines
  PROVE  /\ HeaderReport(id, lines) \in Reports
         /\ HeaderReport(id, lines).violations = <<>> <=> HeaderFine(id, lines)
<1>1. EmptyReport \in Reports /\ EmptyReport.violations = <<>>
  BY DEF EmptyReport, Reports
<1>2. add(EmptyReport, 0) \in Reports /\ add(EmptyReport, 0).violations # <<>>
  BY <1>1, AddReports
<1>3. add(add(EmptyReport, 0), 0) \in Reports /\ add(add(EmptyReport, 0), 0).violations # <<>>
  BY <1>2, AddReports
<1>4. Len(lines) \in Nat
  BY DEF RawLines
<1> QED
  BY <1>1, <1>2, <1>3, <1>4, CanonicalAssumption DEF HeaderReport, HeaderFine

\* One turn of the loop.
LEMMA LoopStep ==
  ASSUME NEW id, NEW lines \in RawLines, NEW n \in Nat, n + 1 <= Len(lines), NEW walked,
         LoopInv(id, lines, n, walked)
  PROVE  LoopInv(id, lines, n + 1, TakeLine(walked, n + 1, lines[n + 1]))
<1> DEFINE line == lines[n + 1]
           sku == TrimSKU[line.sku]
           next == TakeLine(walked, n + 1, line)
<1>1. line \in [sku : DOMAIN TrimSKU, quantity : Int]
  <2>1. n + 1 \in 1..Len(lines) /\ lines \in Seq([sku : DOMAIN TrimSKU, quantity : Int])
    BY DEF RawLines
  <2> DEFINE Line == [sku : DOMAIN TrimSKU, quantity : Int]
  <2>2. lines \in Seq(Line)
    BY <2>1
  <2> HIDE DEF Line
  <2>3. lines[n + 1] \in Line
    BY <2>1, <2>2
  <2> QED
    BY <2>3 DEF Line
<1>2. sku \in SKUs \cup {Blank} /\ line.quantity \in Int
  BY <1>1, CanonicalAssumption
<1>3. n \in 0..Len(lines) /\ Len(lines) \in Nat
  BY DEF RawLines
<1>4. walked.report \in Reports /\ walked.quantities \in [SKUs -> Int]
  BY DEF LoopInv
<1>5. /\ FineUpTo(lines, n + 1) <=> FineUpTo(lines, n) /\ Fine(line)
      /\ Fine(line) => sku \in SKUs
  BY <1>2 DEF FineUpTo, Fine
<1>6. ASSUME FineUpTo(lines, n + 1), NEW s
      PROVE  /\ Upto(lines, n, s) \in Nat
             /\ Upto(lines, n + 1, s) = Upto(lines, n, s) + (IF sku = s THEN line.quantity ELSE 0)
  BY <1>3, <1>5, <1>6, UptoNat, UptoNext
<1>7. ASSUME CleanUpTo(id, lines, n + 1)
      PROVE  /\ CleanUpTo(id, lines, n)
             /\ ~Refused(walked.quantities, line)
  <2>1. FineUpTo(lines, n + 1) /\ FineUpTo(lines, n) /\ Fine(line) /\ HeaderFine(id, lines)
    BY <1>5, <1>7 DEF CleanUpTo
  <2>2. line.quantity \in 1..maxLineQuantity /\ sku # Blank /\ sku \in SKUs
    BY <1>5, <2>1 DEF Fine
  <2>3. ASSUME NEW s \in SKUs
        PROVE  Upto(lines, n, s) <= maxLineQuantity
    <3>1. /\ Upto(lines, n, s) \in Nat
          /\ Upto(lines, n + 1, s) = Upto(lines, n, s) + (IF sku = s THEN line.quantity ELSE 0)
      BY <1>6, <2>1
    <3>2. Upto(lines, n + 1, s) <= maxLineQuantity
      BY <1>7 DEF CleanUpTo
    <3> HIDE DEF line, sku
    <3> QED
      BY <2>2, <3>1, <3>2, CanonicalAssumption
  <2>4. CleanUpTo(id, lines, n)
    BY <2>1, <2>3 DEF CleanUpTo
  <2>5. walked.quantities[sku] = Upto(lines, n, sku)
    BY <2>2, <2>4 DEF LoopInv
  <2>6. /\ Upto(lines, n, sku) \in Nat
        /\ Upto(lines, n + 1, sku) = Upto(lines, n, sku) + line.quantity
    BY <1>6, <2>1
  <2>7. Upto(lines, n + 1, sku) <= maxLineQuantity
    BY <1>7, <2>2 DEF CleanUpTo
  <2> HIDE DEF line, sku
  <2>8. ~(walked.quantities[sku] > maxLineQuantity - line.quantity)
    BY <2>2, <2>5, <2>6, <2>7, CanonicalAssumption
  <2>9. ~Refused(walked.quantities, line)
    BY <2>2, <2>8, CanonicalAssumption DEF Refused, sku
  <2> QED
    BY <2>4, <2>9
<1>8. CASE Refused(walked.quantities, line)
  <2>1. next = [walked EXCEPT !.report = add(walked.report, n + 1)]
    BY <1>8 DEF TakeLine
  <2>2. add(walked.report, n + 1) \in Reports /\ add(walked.report, n + 1).violations # <<>>
    <3>1. n + 1 \in Nat
      OBVIOUS
    <3> QED
      BY <1>4, <3>1, AddReports
  <2>3. /\ next \in [report : Reports, quantities : [SKUs -> Int]]
        /\ next.report.violations # <<>>
    BY <2>1, <2>2 DEF LoopInv
  <2>4. ~CleanUpTo(id, lines, n + 1)
    BY <1>7, <1>8
  <2> QED
    BY <2>3, <2>4 DEF LoopInv
<1>9. CASE ~Refused(walked.quantities, line)
  <2>1. Fine(line) /\ ~(walked.quantities[sku] > maxLineQuantity - line.quantity)
    BY <1>2, <1>9, CanonicalAssumption DEF Refused, Fine
  <2>2. sku \in SKUs /\ line.quantity \in 1..maxLineQuantity
    BY <1>5, <2>1 DEF Fine
  <2>3. next = [walked EXCEPT !.quantities[sku] = walked.quantities[sku] + line.quantity]
    BY <1>9 DEF TakeLine
  <2>4. /\ next.report = walked.report
        /\ next.quantities = [walked.quantities EXCEPT ![sku] = walked.quantities[sku] + line.quantity]
        /\ next \in [report : Reports, quantities : [SKUs -> Int]]
    <3> DEFINE counted == [walked.quantities EXCEPT ![sku] = walked.quantities[sku] + line.quantity]
    <3>1. next = [walked EXCEPT !.quantities = counted]
      BY <2>3
    <3>2. walked \in [report : Reports, quantities : [SKUs -> Int]]
      BY DEF LoopInv
    <3>3. counted \in [SKUs -> Int]
      BY <1>2, <1>4, <2>2
    <3> HIDE DEF next, counted
    <3>4. /\ next.report = walked.report
          /\ next.quantities = counted
          /\ next \in [report : Reports, quantities : [SKUs -> Int]]
      BY <3>1, <3>2, <3>3
    <3> QED
      BY <3>4 DEF counted
  <2>5. ASSUME CleanUpTo(id, lines, n)
        PROVE  /\ CleanUpTo(id, lines, n + 1)
               /\ next.quantities = [s \in SKUs |-> Upto(lines, n + 1, s)]
    <3>1. FineUpTo(lines, n + 1)
      BY <1>5, <2>1, <2>5 DEF CleanUpTo
    <3>2. walked.quantities = [s \in SKUs |-> Upto(lines, n, s)]
      BY <2>5 DEF LoopInv
    <3>3. ASSUME NEW s \in SKUs
          PROVE  next.quantities[s] = Upto(lines, n + 1, s) /\ Upto(lines, n + 1, s) <= maxLineQuantity
      <4>1. /\ Upto(lines, n, s) \in Nat
            /\ Upto(lines, n + 1, s) = Upto(lines, n, s) + (IF sku = s THEN line.quantity ELSE 0)
        BY <1>6, <3>1
      <4>2. Upto(lines, n, s) <= maxLineQuantity
        BY <2>5 DEF CleanUpTo
      <4>3. walked.quantities[s] = Upto(lines, n, s)
        BY <3>2
      <4> HIDE DEF next, line, sku
      <4>4. CASE s = sku
        BY <1>4, <2>1, <2>2, <2>4, <4>1, <4>2, <4>3, <4>4, CanonicalAssumption
      <4>5. CASE s # sku
        BY <1>4, <2>2, <2>4, <4>1, <4>2, <4>3, <4>5
      <4> QED
        BY <4>4, <4>5
    <3>4. next.quantities \in [SKUs -> Int]
      BY <2>4
    <3> QED
      BY <2>5, <3>1, <3>3, <3>4 DEF CleanUpTo
  <2>6. CleanUpTo(id, lines, n + 1) <=> CleanUpTo(id, lines, n)
    BY <1>7, <2>5
  <2> QED
    BY <2>4, <2>5, <2>6 DEF LoopInv
<1> QED
  BY <1>8, <1>9

\* The loop over all lines.
LEMMA Loop ==
  ASSUME NEW id, NEW lines \in RawLines, NEW walk, Walks(id, lines, Len(lines), walk)
  PROVE  LoopInv(id, lines, Len(lines), walk[Len(lines)])
<1> DEFINE Bad == {n \in 0..Len(lines) : ~LoopInv(id, lines, n, walk[n])}
<1>1. Len(lines) \in Nat
  BY DEF RawLines
<1> SUFFICES ASSUME Bad # {} PROVE FALSE
  BY <1>1
<1>2. PICK n \in Bad : \A k \in Bad : n <= k
  <2>1. Bad \in SUBSET Nat
    OBVIOUS
  <2> HIDE DEF Bad
  <2> QED
    BY <2>1, LeastNat
<1>3. walk[n] = IF n = 0 THEN Start(id, lines) ELSE TakeLine(walk[n - 1], n, lines[n])
  BY DEF Walks
<1>4. CASE n = 0
  <2>1. FineUpTo(lines, 0) /\ \A sku \in SKUs : Upto(lines, 0, sku) = 0
    BY UptoStart DEF FineUpTo
  <2>2. CleanUpTo(id, lines, 0) <=> HeaderFine(id, lines)
    BY <2>1, CanonicalAssumption DEF CleanUpTo
  <2>3. NoLines \in [SKUs -> Int] /\ NoLines = [sku \in SKUs |-> Upto(lines, 0, sku)]
    BY <2>1 DEF NoLines
  <2>4. LoopInv(id, lines, 0, Start(id, lines))
    BY <2>2, <2>3, HeaderReports DEF LoopInv, Start
  <2> QED
    BY <1>2, <1>3, <1>4, <2>4
<1>5. CASE n # 0
  <2>1. n - 1 \in Nat /\ (n - 1) + 1 = n /\ n <= Len(lines) /\ n - 1 \in 0..Len(lines)
    BY <1>1, <1>5
  <2>2. LoopInv(id, lines, n - 1, walk[n - 1])
    BY <1>2, <2>1
  <2>3. LoopInv(id, lines, (n - 1) + 1, TakeLine(walk[n - 1], (n - 1) + 1, lines[(n - 1) + 1]))
    BY <2>1, <2>2, LoopStep
  <2> QED
    BY <1>2, <1>3, <1>5, <2>1, <2>3
<1> QED
  BY <1>4, <1>5

\* Canonicalize accepts exactly the well-formed requests and reduces their lines
\* to one total per product, for every request: in what order the lines come, how
\* a name is padded and how a quantity is split over lines make no difference,
\* although the loop leaves out the lines it reports and compares the running
\* total by subtraction.
THEOREM CanonicalizeExact ==
  ASSUME NEW id \in DOMAIN ParseOrder, NEW lines \in RawLines
  PROVE  CanonicalizeIsExact(id, lines)
<1>1. PICK walk :
         /\ Walks(id, lines, Len(lines), walk)
         /\ Canonicalize(id, lines).ok = (End(id, lines, walk).report.violations = <<>>)
         /\ Canonicalize(id, lines).ok =>
               /\ Canonicalize(id, lines).order = ParseOrder[id]
               /\ Canonicalize(id, lines).lines = End(id, lines, walk).quantities
  BY CanonicalizeIs
<1>2. LoopInv(id, lines, Len(lines), walk[Len(lines)])
  BY <1>1, Loop
<1>3. Len(lines) \in Nat /\ DOMAIN lines = 1..Len(lines) /\ maxLines \in Nat
  BY CanonicalAssumption DEF RawLines
<1>4. \A sku : Total(lines, sku) = Upto(lines, Len(lines), sku)
  BY <1>3 DEF Total, Upto, LinesOf
<1>5. WellFormed(id, lines) <=> CleanUpTo(id, lines, Len(lines))
  BY <1>3, <1>4 DEF WellFormed, CleanUpTo, HeaderFine, FineUpTo, Fine, LinesOf
<1> WellFormed(id, lines) \in BOOLEAN
  BY DEF WellFormed
<1>6. CASE Len(lines) > maxLines
  <2>1. ~HeaderFine(id, lines) /\ HeaderReport(id, lines).violations # <<>>
    BY <1>3, <1>6, HeaderReports DEF HeaderFine
  <2>2. ~WellFormed(id, lines)
    BY <1>5, <2>1 DEF CleanUpTo
  <2>3. End(id, lines, walk) = Start(id, lines)
    BY <1>6 DEF End
  <2>4. End(id, lines, walk).report.violations # <<>>
    BY <2>1, <2>3 DEF Start
  <2>5. Canonicalize(id, lines).ok = FALSE
    BY <1>1, <2>4
  <2> QED
    BY <2>2, <2>5 DEF CanonicalizeIsExact
<1>7. CASE ~(Len(lines) > maxLines)
  <2>1. End(id, lines, walk) = walk[Len(lines)]
    BY <1>7 DEF End
  <2>2. (End(id, lines, walk).report.violations = <<>>) <=> WellFormed(id, lines)
    BY <1>2, <1>5, <2>1 DEF LoopInv
  <2>3. Canonicalize(id, lines).ok = WellFormed(id, lines)
    BY <1>1, <2>2
  <2>4. ASSUME WellFormed(id, lines)
        PROVE  End(id, lines, walk).quantities = [sku \in SKUs |-> Total(lines, sku)]
    BY <1>2, <1>4, <1>5, <2>1, <2>4 DEF LoopInv
  <2> QED
    BY <1>1, <2>3, <2>4 DEF CanonicalizeIsExact
<1> QED
  BY <1>6, <1>7

\* What an accepted request is reduced to: an order id the uuid column takes, and
\* a natural number for every product.
LEMMA CanonicalType ==
  ASSUME NEW id \in DOMAIN ParseOrder, NEW lines \in RawLines
  PROVE  /\ Canonicalize(id, lines).ok \in BOOLEAN
         /\ Canonicalize(id, lines).ok =>
               /\ Canonicalize(id, lines).order \in Orders
               /\ Canonicalize(id, lines).lines \in [SKUs -> Nat]
<1>1. CanonicalizeIsExact(id, lines)
  BY CanonicalizeExact
<1>2. WellFormed(id, lines) \in BOOLEAN
  BY DEF WellFormed
<1>3. Canonicalize(id, lines).ok = WellFormed(id, lines)
  BY <1>1 DEF CanonicalizeIsExact
<1>4. ASSUME Canonicalize(id, lines).ok
      PROVE  /\ Canonicalize(id, lines).order \in Orders
             /\ Canonicalize(id, lines).lines \in [SKUs -> Nat]
  <2>1. WellFormed(id, lines)
    BY <1>3, <1>4
  <2>2. Canonicalize(id, lines).order \in Orders
    BY <1>1, <1>4, <2>1, CanonicalAssumption DEF CanonicalizeIsExact, WellFormed
  <2>3. FineUpTo(lines, Len(lines)) /\ Len(lines) \in Nat /\ DOMAIN lines = 1..Len(lines)
    BY <2>1 DEF WellFormed, FineUpTo, Fine, LinesOf, RawLines
  <2>4. \A sku : Total(lines, sku) = Upto(lines, Len(lines), sku)
    BY <2>3 DEF Total, Upto, LinesOf
  <2>5. \A sku : Total(lines, sku) \in Nat
    BY <2>3, <2>4, UptoNat
  <2> QED
    BY <1>1, <1>4, <2>2, <2>5 DEF CanonicalizeIsExact
<1> QED
  BY <1>2, <1>3, <1>4

-----------------------------------------------------------------------------
(* The order of the lines.                                                  *)

Shuffled(lines, p) == [n \in DOMAIN lines |-> lines[p[n]]]

\* Shuffled lines are lines, and as many.
LEMMA ShuffledType ==
  ASSUME NEW lines \in RawLines, NEW p \in Bijection(DOMAIN lines, DOMAIN lines)
  PROVE  /\ Shuffled(lines, p) \in RawLines
         /\ DOMAIN Shuffled(lines, p) = DOMAIN lines
         /\ Len(Shuffled(lines, p)) = Len(lines)
<1> DEFINE Line == [sku : DOMAIN TrimSKU, quantity : Int]
<1>1. lines \in Seq(Line)
  BY DEF RawLines
<1>2. p \in [DOMAIN lines -> DOMAIN lines]
  BY DEF Bijection, Injection
<1> HIDE DEF Line
<1>3. Len(lines) \in Nat /\ DOMAIN lines = 1..Len(lines) /\ \A n \in DOMAIN lines : lines[n] \in Line
  BY <1>1
<1>4. Shuffled(lines, p) \in [1..Len(lines) -> Line]
  BY <1>2, <1>3 DEF Shuffled
<1>5. Shuffled(lines, p) \in Seq(Line)
  BY <1>3, <1>4
<1>6. Len(Shuffled(lines, p)) = Len(lines)
  BY <1>3, <1>4, <1>5
<1> QED
  BY <1>5, <1>6 DEF RawLines, Line, Shuffled

\* Shuffled lines ask for the same of each product.
LEMMA ShuffledTotal ==
  ASSUME NEW lines \in RawLines, NEW p \in Bijection(DOMAIN lines, DOMAIN lines),
         \A n \in DOMAIN lines : lines[n].quantity \in Nat, NEW sku
  PROVE  Total(Shuffled(lines, p), sku) = Total(lines, sku)
<1> DEFINE other == Shuffled(lines, p)
           S == LinesOf(other, sku)
           T == LinesOf(lines, sku)
           f == [n \in DOMAIN lines |-> lines[n].quantity]
           g == [n \in DOMAIN other |-> other[n].quantity]
           q == [n \in S |-> p[n]]
<1>1. /\ p \in [DOMAIN lines -> DOMAIN lines]
      /\ \A m, n \in DOMAIN lines : p[m] = p[n] => m = n
      /\ \A n \in DOMAIN lines : \E m \in DOMAIN lines : p[m] = n
  BY DEF Bijection, Injection, Surjection, IsInjective
<1>2. DOMAIN other = DOMAIN lines /\ \A n \in DOMAIN lines : other[n] = lines[p[n]]
  BY DEF Shuffled
<1>3. S \subseteq DOMAIN lines /\ T \subseteq DOMAIN lines /\ \A n \in DOMAIN lines : n \in S <=> p[n] \in T
  BY <1>1, <1>2 DEF LinesOf
<1>4. IsFiniteSet(S) /\ IsFiniteSet(T)
  <2>1. Len(lines) \in Nat /\ DOMAIN lines = 1..Len(lines)
    BY DEF RawLines
  <2>2. IsFiniteSet(DOMAIN lines)
    BY <2>1, FS_Interval
  <2> HIDE DEF S, T
  <2> QED
    BY <1>3, <2>2, FS_Subset
<1>5. /\ \A n \in T : f[n] \in Nat
      /\ \A n \in S : g[n] = f[q[n]]
  BY <1>1, <1>2, <1>3
<1> HIDE DEF S, T, f, g, other
<1>6. q \in [S -> T] /\ \A m, n \in S : q[m] = q[n] => m = n
  BY <1>1, <1>3
<1>7. {q[n] : n \in S} = T
  BY <1>1, <1>3
<1> HIDE DEF q
<1>8. SumFunctionOnSet(g, S) = SumFunctionOnSet(f, {q[n] : n \in S})
  BY <1>4, <1>5, <1>6, SumRenamed
<1> QED
  BY <1>7, <1>8 DEF Total, S, T, f, g, other

\* A request whose lines come in another order gets the same verdict and the same
\* canonical form (TestCanonicalizeIsOrderIndependent, for every request and every
\* permutation), so a retry that rebuilds its basket is still the same request.
THEOREM OrderOfLinesIrrelevant ==
  ASSUME NEW id \in DOMAIN ParseOrder, NEW lines \in RawLines,
         NEW p \in Bijection(DOMAIN lines, DOMAIN lines)
  PROVE  /\ Canonicalize(id, Shuffled(lines, p)).ok = Canonicalize(id, lines).ok
         /\ Canonicalize(id, lines).ok =>
               /\ Canonicalize(id, Shuffled(lines, p)).order = Canonicalize(id, lines).order
               /\ Canonicalize(id, Shuffled(lines, p)).lines = Canonicalize(id, lines).lines
<1> DEFINE other == Shuffled(lines, p)
<1>1. /\ p \in [DOMAIN lines -> DOMAIN lines]
      /\ \A n \in DOMAIN lines : \E m \in DOMAIN lines : p[m] = n
  BY DEF Bijection, Injection, Surjection
<1>2. other \in RawLines /\ DOMAIN other = DOMAIN lines /\ Len(other) = Len(lines)
  BY ShuffledType
<1>3. \A n \in DOMAIN lines : other[n] = lines[p[n]]
  BY DEF Shuffled
<1>4. (\A n \in DOMAIN lines : lines[n].quantity \in Nat) =>
         \A sku : Total(other, sku) = Total(lines, sku)
  BY ShuffledTotal
<1> HIDE DEF other
<1>5. \A n \in DOMAIN lines : \E m \in DOMAIN other : other[m] = lines[n]
  <2> SUFFICES ASSUME NEW n \in DOMAIN lines PROVE \E m \in DOMAIN other : other[m] = lines[n]
    OBVIOUS
  <2>1. PICK m \in DOMAIN lines : p[m] = n
    BY <1>1
  <2> QED
    BY <1>2, <1>3, <2>1
<1>6. \A m \in DOMAIN other : \E n \in DOMAIN lines : other[m] = lines[n]
  BY <1>1, <1>2, <1>3
<1>7. LinesOf(other, Blank) = {} <=> LinesOf(lines, Blank) = {}
  <2>1. (\A m \in DOMAIN other : TrimSKU[other[m].sku] # Blank)
           <=> (\A n \in DOMAIN lines : TrimSKU[lines[n].sku] # Blank)
    BY <1>5, <1>6, SMT
  <2> QED
    BY <2>1 DEF LinesOf
<1>8. (\A n \in DOMAIN other : other[n].quantity \in 1..maxLineQuantity)
         <=> (\A n \in DOMAIN lines : lines[n].quantity \in 1..maxLineQuantity)
  BY <1>5, <1>6, Zenon
<1>9. (\A n \in DOMAIN lines : lines[n].quantity \in 1..maxLineQuantity) =>
         \A n \in DOMAIN lines : lines[n].quantity \in Nat
  BY CanonicalAssumption
<1>10. WellFormed(id, other) <=> WellFormed(id, lines)
  BY <1>2, <1>4, <1>7, <1>8, <1>9 DEF WellFormed
<1>11. WellFormed(id, lines) => \A sku : Total(other, sku) = Total(lines, sku)
  BY <1>4, <1>9 DEF WellFormed
<1>12. CanonicalizeIsExact(id, other) /\ CanonicalizeIsExact(id, lines)
  BY <1>2, CanonicalizeExact
<1>13. WellFormed(id, lines) \in BOOLEAN /\ WellFormed(id, other) \in BOOLEAN
  BY DEF WellFormed
<1> QED
  BY <1>10, <1>11, <1>12, <1>13 DEF CanonicalizeIsExact, other
=============================================================================
