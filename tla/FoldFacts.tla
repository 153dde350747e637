------------------------------ MODULE FoldFacts ------------------------------
(***************************************************************************)
(* Facts about folds, for any operator: the equation of MapThenFoldSet, and *)
(* the invariants that a fold over a set or over a list keeps.  A module    *)
(* with a fold to reason about instantiates this one with its operator Op,  *)
(* the Value of each index, the order Pick in which indices are taken, and  *)
(* what it claims of the result after so many of them, Inv.  The first      *)
(* argument of each, p, stands for everything else they depend on.          *)
(***************************************************************************)
EXTENDS Integers, Folds

CONSTANTS Op(_, _, _), Value(_, _), Pick(_), Inv(_, _, _)

Fold(p, base, S) ==
    MapThenFoldSet(LAMBDA x, y : Op(p, y, x), base,
                   LAMBDA i : Value(p, i), LAMBDA s : Pick(s), S)

(* The turn of a fold that ends with the set s, and a table of all turns.   *)
Turn(p, base, s, table) ==
    IF s = {} THEN base ELSE Op(p, table[s \ {Pick(s)}], Value(p, Pick(s)))
IsTable(p, base, D, table) == table = [s \in D |-> Turn(p, base, s, table)]

(* The turns of p and q do the same with what is in S.                      *)
Agree(p, q, S) ==
    \A i \in S : \A y : Op(p, y, Value(p, i)) = Op(q, y, Value(q, i))

(* What is picked from a subset of S is in it, and S is finite: of any       *)
(* subsets of it one has none of the others within.  This is what the       *)
(* induction over a fold rests on; it needs neither cardinalities nor the   *)
(* library's theorems, which every instance of this module would bring in.  *)
Picks(S) ==
    /\ \A s \in SUBSET S : s # {} => Pick(s) \in s
    /\ \A T \in SUBSET (SUBSET S) : T # {} =>
         \E s \in T : \A r \in T : r \subseteq s => r = s

LEMMA PicksWithin ==
    ASSUME NEW S, Picks(S), NEW R, R \subseteq S
    PROVE  Picks(R)
  <1>1. \A s \in SUBSET R : s \in SUBSET S
    OBVIOUS
  <1>2. \A T \in SUBSET (SUBSET R) : T \in SUBSET (SUBSET S)
    OBVIOUS
  <1> QED
    BY <1>1, <1>2 DEF Picks

(* Tables that agree on what they fold agree.                               *)
LEMMA TablesAgree ==
    ASSUME NEW p, NEW q, NEW base, NEW S, Picks(S), NEW R, S \subseteq R, NEW f, NEW g,
           IsTable(p, base, SUBSET R, f), IsTable(q, base, SUBSET S, g),
           Agree(p, q, S)
    PROVE  \A s \in SUBSET S : f[s] = g[s]
  <1> DEFINE T == {s \in SUBSET S : f[s] # g[s]}
  <1>1. SUFFICES ASSUME T # {} PROVE FALSE
    OBVIOUS
  <1>2. PICK r \in T : \A s \in T : s \subseteq r => s = r
    <2>1. T \in SUBSET (SUBSET S)
      OBVIOUS
    <2> HIDE DEF T
    <2> QED
      BY <1>1, <2>1 DEF Picks
  <1>3. r \in SUBSET S /\ f[r] # g[r]
    BY <1>2
  <1>4. f[r] = Turn(p, base, r, f) /\ g[r] = Turn(q, base, r, g)
    BY <1>3 DEF IsTable
  <1>5. r # {}
    BY <1>3, <1>4 DEF Turn
  <1> DEFINE u == r \ {Pick(r)}
  <1>6. Pick(r) \in r /\ u \in SUBSET S /\ u \subseteq r /\ u # r
    BY <1>3, <1>5 DEF Picks
  <1>7. f[u] = g[u]
    BY <1>2, <1>6
  <1>8. f[r] = g[r]
    BY <1>3, <1>4, <1>5, <1>6, <1>7 DEF Turn, Agree
  <1> QED
    BY <1>3, <1>8

(* The table of all turns exists: where it did not for a set, and did for   *)
(* each smaller one, those would fill it.                                   *)
LEMMA TablesExist ==
    ASSUME NEW p, NEW base, NEW S, Picks(S)
    PROVE  \E table : IsTable(p, base, SUBSET S, table)
  <1> DEFINE T == {s \in SUBSET S : ~\E table : IsTable(p, base, SUBSET s, table)}
  <1>1. SUFFICES ASSUME T # {} PROVE FALSE
    OBVIOUS
  <1>2. PICK s \in T : \A r \in T : r \subseteq s => r = s
    <2>1. T \in SUBSET (SUBSET S)
      OBVIOUS
    <2> HIDE DEF T
    <2> QED
      BY <1>1, <2>1 DEF Picks
  <1>3. s \in SUBSET S /\ ~\E table : IsTable(p, base, SUBSET s, table)
    BY <1>2
  <1> DEFINE Of(u) == CHOOSE table : IsTable(p, base, SUBSET u, table)
             Rest(u) == u \ {Pick(u)}
             table == [u \in SUBSET s |-> IF u = {} THEN base
                         ELSE Op(p, Of(Rest(u))[Rest(u)], Value(p, Pick(u)))]
  <1>4. ASSUME NEW u \in SUBSET s, u # s
        PROVE  IsTable(p, base, SUBSET u, Of(u))
    <2>1. u \in SUBSET S /\ u \notin T
      BY <1>2, <1>3, <1>4
    <2>2. \E t : IsTable(p, base, SUBSET u, t)
      BY <2>1
    <2> QED
      BY <2>2
  <1>5. ASSUME NEW u \in SUBSET s, u # {}
        PROVE  /\ Rest(u) \in SUBSET u /\ Rest(u) \in SUBSET s /\ Rest(u) # s
               /\ table[u] = Op(p, Of(Rest(u))[Rest(u)], Value(p, Pick(u)))
    <2>1. Pick(u) \in u
      BY <1>3, <1>5 DEF Picks
    <2> QED
      BY <1>5, <2>1
  <1>6. table[{}] = base
    OBVIOUS
  <1>7. table = [u \in SUBSET s |-> table[u]]
    OBVIOUS
  <1> HIDE DEF Of, T, table
  <1>8. ASSUME NEW v \in SUBSET s, v # s
        PROVE  table[v] = Of(v)[v]
    <2> DEFINE t == Of(v)
    <2>1. IsTable(p, base, SUBSET v, t)
      BY <1>4, <1>8
    <2>2. t[v] = Turn(p, base, v, t)
      BY <2>1 DEF IsTable
    <2> HIDE DEF t
    <2>3. CASE v = {}
      BY <1>6, <2>2, <2>3 DEF Turn, t
    <2>4. CASE v # {}
      <3> DEFINE w == Rest(v)
                 g == Of(w)
      <3>1. /\ w \in SUBSET v /\ w \in SUBSET s /\ w # s
            /\ table[v] = Op(p, g[w], Value(p, Pick(v)))
        BY <1>5, <2>4
      <3>2. t[v] = Op(p, t[w], Value(p, Pick(v)))
        BY <2>2, <2>4 DEF Turn
      <3> HIDE DEF w
      <3>3. IsTable(p, base, SUBSET w, g)
        BY <1>4, <3>1
      <3> HIDE DEF g
      <3>4. t[w] = g[w]
        <4>1. Picks(w) /\ w \subseteq v
          BY <1>3, <3>1, PicksWithin
        <4>2. Agree(p, p, w)
          BY DEF Agree
        <4>3. \A x \in SUBSET w : t[x] = g[x]
          BY <2>1, <3>3, <4>1, <4>2, TablesAgree
        <4> QED
          BY <4>3
      <3> QED
        BY <3>1, <3>2, <3>4 DEF t
    <2> QED
      BY <2>3, <2>4
  <1>9. ASSUME NEW u \in SUBSET s
        PROVE  table[u] = Turn(p, base, u, table)
    <2>1. CASE u = {}
      BY <1>6, <2>1 DEF Turn
    <2>2. CASE u # {}
      <3> DEFINE w == Rest(u)
      <3>1. /\ w \in SUBSET s /\ w # s
            /\ table[u] = Op(p, Of(w)[w], Value(p, Pick(u)))
        BY <1>5, <2>2
      <3>2. table[w] = Of(w)[w]
        <4> HIDE DEF w
        <4> QED
          BY <1>8, <3>1
      <3> QED
        BY <2>2, <3>1, <3>2 DEF Turn
    <2> QED
      BY <2>1, <2>2
  <1>10. IsTable(p, base, SUBSET s, table)
    BY <1>7, <1>9 DEF IsTable
  <1> QED
    BY <1>3, <1>10

(* The fold is the last turn of such a table.                               *)
LEMMA FoldIsLastTurn ==
    ASSUME NEW p, NEW base, NEW S, Picks(S)
    PROVE  \E table : /\ IsTable(p, base, SUBSET S, table)
                      /\ Fold(p, base, S) = table[S]
  <1> DEFINE table == CHOOSE g : IsTable(p, base, SUBSET S, g)
  <1>1. IsTable(p, base, SUBSET S, table)
    BY TablesExist
  <1>2. Fold(p, base, S) = table[S]
    BY DEF Fold, MapThenFoldSet, IsTable, Turn
  <1> QED
    BY <1>1, <1>2

-----------------------------------------------------------------------------
(* A fold over nothing is its base, and a fold over a set is one turn more  *)
(* than the fold over all but what is picked: the defining equation.        *)
LEMMA FoldEquation ==
    ASSUME NEW p, NEW base, NEW S, Picks(S)
    PROVE  Fold(p, base, S) =
             IF S = {} THEN base
             ELSE Op(p, Fold(p, base, S \ {Pick(S)}), Value(p, Pick(S)))
  <1>1. PICK f : IsTable(p, base, SUBSET S, f) /\ Fold(p, base, S) = f[S]
    BY FoldIsLastTurn
  <1>2. f[S] = Turn(p, base, S, f)
    BY <1>1 DEF IsTable
  <1>3. CASE S = {}
    BY <1>1, <1>2, <1>3 DEF Turn
  <1>4. CASE S # {}
    <2> DEFINE R == S \ {Pick(S)}
    <2>1. R \subseteq S /\ Picks(R)
      BY PicksWithin
    <2> HIDE DEF R
    <2>2. PICK g : IsTable(p, base, SUBSET R, g) /\ Fold(p, base, R) = g[R]
      BY <2>1, FoldIsLastTurn
    <2>3. Agree(p, p, R)
      BY DEF Agree
    <2>4. \A s \in SUBSET R : f[s] = g[s]
      BY <1>1, <2>1, <2>2, <2>3, TablesAgree
    <2>5. f[R] = Fold(p, base, R)
      BY <2>2, <2>4
    <2> QED
      BY <1>1, <1>2, <1>4, <2>5 DEF Turn, R
  <1> QED
    BY <1>3, <1>4

(* A fold depends on the values at the indices it folds and on nothing else.*)
LEMMA FoldSame ==
    ASSUME NEW p, NEW q, NEW base, NEW S, Picks(S), Agree(p, q, S)
    PROVE  Fold(p, base, S) = Fold(q, base, S)
  <1>1. PICK f : IsTable(p, base, SUBSET S, f) /\ Fold(p, base, S) = f[S]
    BY FoldIsLastTurn
  <1>2. PICK g : IsTable(q, base, SUBSET S, g) /\ Fold(q, base, S) = g[S]
    BY FoldIsLastTurn
  <1>3. \A s \in SUBSET S : f[s] = g[s]
    BY <1>1, <1>2, TablesAgree
  <1> QED
    BY <1>1, <1>2, <1>3

(* What holds of the base before anything is folded, and is kept by the turn *)
(* of what is picked from each set, holds of the fold.                      *)
LEMMA FoldKeeps ==
    ASSUME NEW p, NEW base, NEW S, Picks(S), Inv(p, {}, base),
           \A s \in SUBSET S : s # {} => \A y :
               Inv(p, s \ {Pick(s)}, y) => Inv(p, s, Op(p, y, Value(p, Pick(s))))
    PROVE  Inv(p, S, Fold(p, base, S))
  <1> DEFINE T == {s \in SUBSET S : ~Inv(p, s, Fold(p, base, s))}
  <1>1. SUFFICES ASSUME T # {} PROVE FALSE
    OBVIOUS
  <1>2. PICK s \in T : \A r \in T : r \subseteq s => r = s
    <2>1. T \in SUBSET (SUBSET S)
      OBVIOUS
    <2> HIDE DEF T
    <2> QED
      BY <1>1, <2>1 DEF Picks
  <1>3. s \in SUBSET S /\ ~Inv(p, s, Fold(p, base, s)) /\ Picks(s)
    BY <1>2, PicksWithin
  <1>4. CASE s = {}
    <2>1. Fold(p, base, s) = base
      BY <1>3, <1>4, FoldEquation
    <2> QED
      BY <1>3, <1>4, <2>1
  <1>5. CASE s # {}
    <2> DEFINE r == s \ {Pick(s)}
    <2>1. r \in SUBSET S /\ r \subseteq s /\ r # s
      BY <1>3, <1>5 DEF Picks
    <2>2. Inv(p, r, Fold(p, base, r))
      <3> HIDE DEF r
      <3> QED
        BY <1>2, <2>1
    <2>3. Fold(p, base, s) = Op(p, Fold(p, base, r), Value(p, Pick(s)))
      BY <1>3, <1>5, FoldEquation
    <2> QED
      BY <1>3, <1>5, <2>2, <2>3
  <1> QED
    BY <1>4, <1>5

(* A fold over the positions of a list, the last picked first: its turns    *)
(* follow the list.                                                         *)
LastPicked(n) == \A k \in 1 .. n : Pick(1 .. k) = k

LEMMA ListEquation ==
    ASSUME NEW p, NEW base, NEW n \in Nat, Picks(1 .. n), LastPicked(n)
    PROVE  Fold(p, base, 1 .. n) =
             IF n = 0 THEN base
             ELSE Op(p, Fold(p, base, 1 .. (n - 1)), Value(p, n))
  <1> DEFINE S == 1 .. n
  <1>1. Picks(S) /\ S = 1 .. n
    OBVIOUS
  <1>2. Fold(p, base, S) = IF S = {} THEN base
                           ELSE Op(p, Fold(p, base, S \ {Pick(S)}), Value(p, Pick(S)))
    <2> HIDE DEF S
    <2> QED
      BY <1>1, FoldEquation
  <1>3. CASE n = 0
    BY <1>2, <1>3
  <1>4. CASE n # 0
    <2>1. S # {} /\ Pick(S) = n
      BY <1>4 DEF LastPicked
    <2>2. S \ {n} = 1 .. (n - 1)
      BY <1>4
    <2> HIDE DEF S
    <2> QED
      BY <1>1, <1>2, <1>4, <2>1, <2>2
  <1> QED
    BY <1>3, <1>4

(* The first position, of those up to the n-th, that has a property.        *)
LEMMA FirstPosition ==
    ASSUME NEW n \in Nat, Picks(1 .. n), NEW T \in SUBSET (0 .. n), T # {}
    PROVE  \E k \in T : \A j \in T : k <= j
  <1> DEFINE U == {1 .. k : k \in T}
  <1>1. U \in SUBSET (SUBSET (1 .. n)) /\ U # {}
    <2>1. \A k \in T : 1 .. k \in SUBSET (1 .. n)
      OBVIOUS
    <2>2. \A s \in U : s \in SUBSET (1 .. n)
      BY <2>1
    <2>3. U # {}
      OBVIOUS
    <2> HIDE DEF U
    <2> QED
      BY <2>2, <2>3
  <1>2. PICK s \in U : \A r \in U : r \subseteq s => r = s
    <2> HIDE DEF U
    <2> QED
      BY <1>1 DEF Picks
  <1>3. PICK k \in T : s = 1 .. k
    BY <1>2
  <1>4. ASSUME NEW j \in T, j < k PROVE FALSE
    <2>1. k \in Nat /\ j \in Nat
      OBVIOUS
    <2>2. 1 .. j \in U /\ 1 .. j \subseteq s
      BY <1>3, <1>4, <2>1
    <2>3. 1 .. j = 1 .. k
      BY <1>2, <1>3, <2>2
    <2>4. k \in 1 .. k /\ k \notin 1 .. j
      BY <1>4, <2>1
    <2> QED
      BY <2>3, <2>4
  <1> QED
    BY <1>4

(* What holds before the first turn and is kept by the turn of each         *)
(* position, in their order, holds after the last.                          *)
LEMMA ListKeeps ==
    ASSUME NEW p, NEW base, NEW n \in Nat, Picks(1 .. n), LastPicked(n),
           Inv(p, 0, base),
           \A k \in 1 .. n : \A y :
               Inv(p, k - 1, y) => Inv(p, k, Op(p, y, Value(p, k)))
    PROVE  Inv(p, n, Fold(p, base, 1 .. n))
  <1> DEFINE T == {k \in 0 .. n : ~Inv(p, k, Fold(p, base, 1 .. k))}
  <1>1. SUFFICES ASSUME n \in T PROVE FALSE
    OBVIOUS
  <1>2. PICK k \in T : \A m \in T : k <= m
    <2>1. T \in SUBSET (0 .. n) /\ T # {}
      BY <1>1
    <2> HIDE DEF T
    <2> QED
      BY <2>1, FirstPosition
  <1>3. k \in Nat /\ k <= n /\ ~Inv(p, k, Fold(p, base, 1 .. k))
    BY <1>2
  <1>4. Picks(1 .. k) /\ LastPicked(k)
    <2>1. 1 .. k \subseteq 1 .. n
      BY <1>3
    <2> QED
      BY <2>1, PicksWithin DEF LastPicked
  <1>5. Fold(p, base, 1 .. k) = IF k = 0 THEN base
          ELSE Op(p, Fold(p, base, 1 .. (k - 1)), Value(p, k))
    BY <1>3, <1>4, ListEquation
  <1>6. CASE k = 0
    BY <1>3, <1>5, <1>6
  <1>7. CASE k # 0
    <2>1. k - 1 \in Nat /\ k - 1 <= n /\ k - 1 \notin T /\ k \in 1 .. n
      BY <1>2, <1>3, <1>7
    <2>2. Inv(p, k - 1, Fold(p, base, 1 .. (k - 1)))
      BY <2>1
    <2> HIDE DEF T
    <2> QED
      BY <1>3, <1>5, <1>7, <2>1, <2>2
  <1> QED
    BY <1>6, <1>7

(* A fold over a list goes on where the fold over its beginning ended.      *)
Adds(n, m, all) == all = n + m
LEMMA ListContinues ==
    ASSUME NEW p, NEW q, NEW base, NEW n \in Nat, NEW m \in Nat,
           NEW all, Adds(n, m, all), Picks(1 .. all), LastPicked(all),
           \A k \in 1 .. m : \A y : Op(q, y, Value(q, k)) = Op(p, y, Value(p, n + k))
    PROVE  Fold(p, base, 1 .. all) = Fold(q, Fold(p, base, 1 .. n), 1 .. m)
  <1> DEFINE first == Fold(p, base, 1 .. n)
             T == {k \in 0 .. m : Fold(p, base, 1 .. (n + k)) # Fold(q, first, 1 .. k)}
  <1>1. SUFFICES ASSUME m \in T PROVE FALSE
    BY DEF Adds
  <1>2. PICK k \in T : \A j \in T : k <= j
    <2>1. T \in SUBSET (0 .. m) /\ T # {}
      BY <1>1
    <2>2. Picks(1 .. m)
      <3>1. 1 .. m \subseteq 1 .. all
        BY DEF Adds
      <3> QED
        BY <3>1, PicksWithin
    <2> HIDE DEF T
    <2> QED
      BY <2>1, <2>2, FirstPosition
  <1>3. /\ k \in Nat /\ k <= m
        /\ Fold(p, base, 1 .. (n + k)) # Fold(q, first, 1 .. k)
    BY <1>2
  <1>4. Picks(1 .. k) /\ LastPicked(k) /\ Picks(1 .. (n + k)) /\ LastPicked(n + k)
    <2>1. 1 .. k \subseteq 1 .. all /\ 1 .. (n + k) \subseteq 1 .. all
      BY <1>3 DEF Adds
    <2> QED
      BY <2>1, PicksWithin DEF LastPicked
  <1>5. Fold(q, first, 1 .. k) = IF k = 0 THEN first
          ELSE Op(q, Fold(q, first, 1 .. (k - 1)), Value(q, k))
    <2> HIDE DEF first
    <2> QED
      BY <1>3, <1>4, ListEquation
  <1>6. CASE k = 0
    <2>1. n + k = n
      BY <1>6
    <2> QED
      BY <1>3, <1>5, <1>6, <2>1
  <1>7. CASE k # 0
    <2> DEFINE j == k - 1
               i == n + k
    <2>1. j \in Nat /\ j <= m /\ ~(k <= j) /\ k \in 1 .. m
          /\ i \in Nat /\ i # 0 /\ i - 1 = n + j
      BY <1>3, <1>7
    <2>2. Fold(p, base, 1 .. i) = IF i = 0 THEN base
            ELSE Op(p, Fold(p, base, 1 .. (i - 1)), Value(p, i))
      <3>1. Picks(1 .. i) /\ LastPicked(i)
        BY <1>4
      <3> HIDE DEF i
      <3> QED
        BY <2>1, <3>1, ListEquation
    <2>3. Fold(p, base, 1 .. (n + j)) = Fold(q, first, 1 .. j)
      <3> HIDE DEF j, first
      <3> QED
        BY <1>2, <2>1
    <2>4. Fold(p, base, 1 .. i) = Op(p, Fold(q, first, 1 .. j), Value(p, i))
      BY <2>1, <2>2, <2>3
    <2>5. Op(q, Fold(q, first, 1 .. j), Value(q, k))
            = Op(p, Fold(q, first, 1 .. j), Value(p, i))
      <3> HIDE DEF j, first
      <3> QED
        BY <2>1
    <2> QED
      BY <1>3, <1>5, <1>7, <2>4, <2>5
  <1> QED
    BY <1>6, <1>7

(* A fold over a list depends on its elements and on nothing else.          *)
LEMMA ListSame ==
    ASSUME NEW p, NEW q, NEW base, NEW n \in Nat, Picks(1 .. n),
           \A k \in 1 .. n : \A y : Op(p, y, Value(p, k)) = Op(q, y, Value(q, k))
    PROVE  Fold(p, base, 1 .. n) = Fold(q, base, 1 .. n)
  <1> DEFINE S == 1 .. n
  <1>1. Picks(S)
    OBVIOUS
  <1>2. Agree(p, q, S)
    BY DEF Agree
  <1> HIDE DEF S
  <1>3. Fold(p, base, S) = Fold(q, base, S)
    BY <1>1, <1>2, FoldSame
  <1> QED
    BY <1>3 DEF S
=============================================================================
