------------------------- MODULE ProjectPlanProofs -------------------------
(* Of ProjectPlan, for any number of items and saves: lone saves keep the  *)
(* dependencies free of cycles, the passes are enough to move every date,  *)
(* and an assistant's save replaces what it has seen.                      *)
EXTENDS ProjectPlan, FiniteSetTheorems, WellFoundedInduction, TLAPS

Ordered(d) ==
    \A S \in (SUBSET Items) \ {{}} : \E i \in S : Before(d, i) \cap S = {}

\* A save that is not outdated has checked dependencies that still include those
\* of now, so that its check holds of them too.
Checked(r) ==
    LET i == run[r].item
        after == run[r].input.after
    IN  /\ i \notin after
        /\ \A q \in after : ~HasDependencyPath(Others(deps, i), i, q)

IInv ==
    /\ run = [r \in Requests |-> run[r]]
    /\ deps \subseteq Items \X Items
    /\ \A r \in Requests : run[r] # Idle =>
          run[r].item \in Items /\ run[r].input.after \subseteq Items
    /\ \A r \in Requests : run[r] # Idle /\ r \notin outdated => Checked(r)
    /\ ~raced => Ordered(deps)

-----------------------------------------------------------------------------
(* Dependencies that become fewer.                                         *)

LEMMA FewerPaths ==
    ASSUME NEW d, NEW e, d \subseteq e, NEW i, NEW j, NEW k,
           HasDependencyPath(Others(d, k), i, j)
    PROVE  HasDependencyPath(Others(e, k), i, j)
BY DEF HasDependencyPath, Others

LEMMA FewerOrdered ==
    ASSUME NEW d, NEW e, d \subseteq e, Ordered(e)
    PROVE  Ordered(d)
BY DEF Ordered, Before

LEMMA FewerChecked ==
    ASSUME deps' \subseteq deps, NEW r \in Requests, run'[r] = run[r], Checked(r)
    PROVE  Checked(r)'
BY FewerPaths DEF Checked

-----------------------------------------------------------------------------
\* What the check for PLAN_DEPENDENCY_CYCLE is good for: predecessors to which no path
\* leads from the item close no cycle, when they take the place of its former ones.
LEMMA CheckKeepsOrder ==
    ASSUME NEW d, d \subseteq Items \X Items, Ordered(d), NEW i \in Items,
           NEW after \in SUBSET Items, i \notin after,
           \A q \in after : ~HasDependencyPath(Others(d, i), i, q)
    PROVE  Ordered(Others(d, i) \cup {<<q, i>> : q \in after})
<1> DEFINE e == Others(d, i) \cup {<<q, i>> : q \in after}
<1>1. Before(e, i) \subseteq after
  BY DEF Before, Others
<1>2. \A x \in Items : x # i => Before(e, x) \subseteq Before(d, x)
  BY DEF Before, Others
<1>3. SUFFICES ASSUME NEW S \in (SUBSET Items) \ {{}}
              PROVE  \E x \in S : Before(e, x) \cap S = {}
  BY DEF Ordered
<1>4. CASE i \notin S
  <2>1. PICK x \in S : Before(d, x) \cap S = {}
    BY DEF Ordered
  <2>2. QED BY <1>2, <1>4, <2>1
<1>5. CASE i \in S /\ after \cap S = {}
  BY <1>1, <1>5
<1>6. CASE i \in S /\ after \cap S # {}
  <2>1. PICK q \in after : q \in S
    BY <1>6
  <2>2. PICK T \in SUBSET Items : /\ i \in T /\ q \notin T
                                 /\ \A f \in Others(d, i) : f[1] \in T => f[2] \in T
    BY DEF HasDependencyPath
  <2>3. S \ T \in (SUBSET Items) \ {{}}
    BY <2>1, <2>2
  <2>4. PICK x \in S \ T : Before(d, x) \cap (S \ T) = {}
    BY <2>3 DEF Ordered
  <2>5. x # i
    BY <2>2
  <2>6. ASSUME NEW p \in Before(d, x) \cap T
        PROVE  FALSE
    <3>1. <<p, x>> \in Others(d, i)
      BY <2>5 DEF Before, Others
    <3>2. x \in T
      BY <2>2, <3>1
    <3>3. QED BY <3>2
  <2>7. QED BY <1>2, <2>4, <2>5, <2>6
<1>7. QED BY <1>4, <1>5, <1>6

-----------------------------------------------------------------------------
LEMMA InitIInv == Init => IInv
BY DEF Init, IInv, Ordered, Before

LEMMA NextIInv ==
    ASSUME IInv, [Next]_vars
    PROVE  IInv'
<1> USE DEF history
<1>1. ASSUME NEW r \in Requests, NEW i \in Items, NEW input \in Inputs,
             AskChange(r, i, input) \/ \E phase \in Phases : AskCreate(r, i, input, phase)
      PROVE  IInv'
  <2>1. PICK seen, expects :
           run' = [run EXCEPT ![r] =
                     [item |-> i, input |-> input, seen |-> seen, expects |-> expects]]
    BY <1>1 DEF AskChange, AskCreate
  <2>2. /\ run' = [s \in Requests |-> run'[s]]
        /\ run'[r].item = i /\ run'[r].input = input
        /\ \A s \in Requests : s # r => run'[s] = run[s]
    BY <2>1 DEF IInv
  <2>3. deps' = deps /\ outdated' = outdated /\ raced' = raced
    BY <1>1 DEF AskChange, AskCreate
  <2>4. Accepted(i, input.after) /\ input.after \subseteq Items
    BY <1>1 DEF AskChange, AskCreate, Inputs
  <2>5. Checked(r)'
    BY <2>2, <2>3, <2>4 DEF Checked, Accepted
  <2>6. \A s \in Requests : s # r /\ Checked(s) => Checked(s)'
    BY <2>2, <2>3, FewerChecked
  <2>7. \A s \in Requests : run'[s] # Idle =>
           run'[s].item \in Items /\ run'[s].input.after \subseteq Items
    BY <2>2, <2>4 DEF IInv
  <2>8. \A s \in Requests : run'[s] # Idle /\ s \notin outdated' => Checked(s)'
    <3>1. TAKE s \in Requests
    <3>2. CASE s = r
      BY <2>5, <3>2
    <3>3. CASE s # r
      BY <2>2, <2>3, <2>6, <3>3 DEF IInv
    <3>4. QED BY <3>2, <3>3
  <2>9. QED BY <2>2, <2>3, <2>7, <2>8 DEF IInv
<1>2. ASSUME NEW r \in Requests, Save(r)
      PROVE  IInv'
  <2> DEFINE i == run[r].item
             edges == Others(deps, i) \cup {<<q, i>> : q \in run[r].input.after}
  <2>1. /\ deps' = edges /\ run' = [run EXCEPT ![r] = Idle] /\ run[r] # Idle
        /\ outdated' = (IF edges \subseteq deps THEN outdated
                        ELSE {s \in Requests : run[s] # Idle}) \ {r}
        /\ raced' = (raced \/ r \in outdated)
    BY <1>2 DEF Save
  <2>2. /\ run' = [s \in Requests |-> run'[s]] /\ run'[r] = Idle
        /\ \A s \in Requests : s # r => run'[s] = run[s]
    BY <2>1 DEF IInv
  <2>3. ASSUME NEW s \in Requests, run'[s] # Idle, s \notin outdated'
        PROVE  Checked(s)'
    <3>1. s # r /\ run'[s] = run[s]
      BY <2>2, <2>3
    <3>2. edges \subseteq deps /\ s \notin outdated
      BY <2>1, <2>3, <3>1
    <3>3. Checked(s)
      BY <2>3, <3>1, <3>2 DEF IInv
    <3>4. QED BY <2>1, <3>1, <3>2, <3>3, FewerChecked
  <2>4. deps' \subseteq Items \X Items
    BY <2>1 DEF IInv, Others
  <2>5. ~raced' => Ordered(deps')
    <3>1. SUFFICES ASSUME ~raced' PROVE Ordered(deps')  OBVIOUS
    <3>2. Checked(r) /\ Ordered(deps)
      BY <2>1, <3>1 DEF IInv
    <3>3. QED BY <2>1, <3>2, CheckKeepsOrder DEF Checked, IInv
  <2>6. QED BY <2>2, <2>3, <2>4, <2>5 DEF IInv
<1>3. ASSUME NEW r \in Requests, SaveFails(r)
      PROVE  IInv'
  <2>1. /\ run' = [run EXCEPT ![r] = Idle] /\ deps' = deps /\ raced' = raced
        /\ outdated' = outdated \ {r}
    BY <1>3 DEF SaveFails
  <2>2. /\ run' = [s \in Requests |-> run'[s]] /\ run'[r] = Idle
        /\ \A s \in Requests : s # r => run'[s] = run[s]
    BY <2>1 DEF IInv
  <2>3. \A s \in Requests : s # r /\ Checked(s) => Checked(s)'
    BY <2>1, <2>2, FewerChecked
  <2>4. QED BY <2>1, <2>2, <2>3 DEF IInv
<1>4. ASSUME deps' \subseteq deps, UNCHANGED <<run, outdated, raced>>
      PROVE  IInv'
  <2>1. \A s \in Requests : Checked(s) => Checked(s)'
    BY <1>4, FewerChecked
  <2>2. Ordered(deps) => Ordered(deps')
    BY <1>4, FewerOrdered
  <2>3. QED BY <1>4, <2>1, <2>2 DEF IInv
<1>5. CASE \E i \in Items : Delete(i) \/ \E phase \in Phases : Reorder(i, phase)
  BY <1>4, <1>5 DEF Delete, Reorder
<1>6. CASE UNCHANGED vars
  BY <1>4, <1>6 DEF vars
<1>7. QED BY <1>1, <1>2, <1>3, <1>5, <1>6 DEF Next

LEMMA Invariant == Spec => []IInv
BY InitIInv, NextIInv, PTL DEF Spec

\* As long as no save takes effect whose check is older than a new dependency, the
\* dependencies have no cycle: the check of one save at a time is enough.
THEOREM LoneSavesAlwaysStayAcyclic == Spec => []LoneSavesStayAcyclic
<1>1. IInv => LoneSavesStayAcyclic
  BY DEF IInv, LoneSavesStayAcyclic, Acyclic, Ordered
<1>2. QED BY <1>1, Invariant, PTL

-----------------------------------------------------------------------------
(* What the proofs rest on: induction over a set of numbers, finite sets,      *)
(* and what a recursive function computes.                                     *)

LEMMA NaturalSteps ==
    ASSUME NEW S, 0 \in S, \A n \in Nat : n \in S => n + 1 \in S
    PROVE  Nat \subseteq S
<1> SUFFICES ASSUME Nat \ S # {} PROVE FALSE  OBVIOUS
<1>1. PICK n \in Nat \ S : \A m \in Nat \ S : <<m, n>> \notin OpToRel(<, Nat)
  BY NatLessThanWellFounded, WFMin
<1>2. \A m \in Nat \ S : ~(m < n)
  BY <1>1 DEF OpToRel
<1>3. n # 0
  OBVIOUS
<1>4. n - 1 \in Nat /\ n - 1 < n
  BY <1>3
<1>5. n - 1 \in S
  BY <1>2, <1>4
<1>6. (n - 1) + 1 \in S
  BY <1>4, <1>5
<1>7. QED BY <1>6

\* A finite set of numbers has a largest one.
LEMMA MaxOfFinite ==
    ASSUME NEW S \in SUBSET Nat, IsFiniteSet(S), S # {}
    PROVE  Max(S) \in S /\ \A x \in S : x <= Max(S)
<1> DEFINE G == {n \in Nat : \A T \in SUBSET Nat :
                    IsFiniteSet(T) /\ T # {} /\ Cardinality(T) = n
                        => \E x \in T : \A y \in T : x >= y}
<1>1. 0 \in G
  BY FS_EmptySet
<1>2. ASSUME NEW n \in Nat, n \in G
      PROVE  n + 1 \in G
  <2>1. SUFFICES ASSUME NEW T \in SUBSET Nat, IsFiniteSet(T), T # {}, Cardinality(T) = n + 1
                 PROVE  \E x \in T : \A y \in T : x >= y
    OBVIOUS
  <2>2. PICK t \in T : TRUE
    BY <2>1
  <2>3. IsFiniteSet(T \ {t}) /\ Cardinality(T \ {t}) = n /\ T \ {t} \in SUBSET Nat
    <3>1. IsFiniteSet(T \ {t}) /\ Cardinality(T \ {t}) = Cardinality(T) - 1
      BY <2>1, <2>2, FS_RemoveElement
    <3>2. QED BY <2>1, <3>1
  <2>4. CASE T \ {t} = {}
    BY <2>2, <2>4
  <2>5. CASE T \ {t} # {}
    <3>1. PICK x \in T \ {t} : \A y \in T \ {t} : x >= y
      BY <1>2, <2>3, <2>5
    <3>2. CASE x >= t
      BY <3>1, <3>2
    <3>3. CASE ~(x >= t)
      <4>1. \A y \in T : t >= y
        BY <2>1, <3>1, <3>3
      <4>2. QED BY <2>2, <4>1
    <3>4. QED BY <3>2, <3>3
  <2>6. QED BY <2>4, <2>5
<1>3. Cardinality(S) \in G
  <2> HIDE DEF G
  <2>1. Nat \subseteq G
    BY <1>1, <1>2, NaturalSteps
  <2>2. QED BY <2>1, FS_CardinalityType
<1>4. \E x \in S : \A y \in S : x >= y
  BY <1>3
<1>5. Max(S) \in S /\ \A y \in S : Max(S) >= y
  BY <1>4 DEF Max
<1>6. QED BY <1>5

\* The passes and the rows of a pass, unrolled.
LEMMA PassUnrolled ==
    ASSUME NEW state, NEW d, NEW order, Len(order) \in Nat
    PROVE  \E g : /\ g[0] = state
                  /\ \A k \in 1..Len(order) : g[k] = Move(g[k - 1], d, order[k])
                  /\ Pass(state, d, order) = g[Len(order)]
<1> DEFINE R(g, n) == g = [k \in 0..n |-> IF k = 0 THEN state
                                         ELSE Move(g[k - 1], d, order[k])]
           G == {n \in Nat : \E g : R(g, n)}
<1>1. 0 \in G
  <2>1. R([k \in 0..0 |-> state], 0)
    OBVIOUS
  <2>2. QED BY <2>1
<1>2. ASSUME NEW n \in Nat, n \in G
      PROVE  n + 1 \in G
  <2>1. PICK g : R(g, n)
    BY <1>2
  <2>2. DEFINE h == [k \in 0..(n + 1) |-> IF k = n + 1 THEN Move(g[n], d, order[n + 1])
                                        ELSE g[k]]
  <2>3. \A k \in 0..(n + 1) :
           h[k] = IF k = 0 THEN state ELSE Move(h[k - 1], d, order[k])
    <3>1. TAKE k \in 0..(n + 1)
    <3>2. CASE k = 0
      BY <2>1, <3>2
    <3>3. CASE k = n + 1
      <4>1. k # 0 /\ k - 1 = n /\ h[n] = g[n]
        BY <3>3
      <4>2. QED BY <3>3, <4>1
    <3>4. CASE k \in 1..n
      <4>1. k # 0 /\ k - 1 \in 0..n /\ h[k - 1] = g[k - 1] /\ h[k] = g[k]
        BY <3>4
      <4>2. g[k] = Move(g[k - 1], d, order[k])
        BY <2>1, <3>4, <4>1
      <4>3. QED BY <4>1, <4>2
    <3>5. QED BY <3>2, <3>3, <3>4
  <2>4. R(h, n + 1)
    <3> HIDE DEF h
    <3>1. h = [k \in 0..(n + 1) |-> h[k]]
      BY DEF h
    <3>2. [k \in 0..(n + 1) |-> h[k]]
            = [k \in 0..(n + 1) |-> IF k = 0 THEN state ELSE Move(h[k - 1], d, order[k])]
      BY <2>3
    <3>3. QED BY <3>1, <3>2
  <2> HIDE DEF h
  <2>5. \E f : R(f, n + 1)
    BY <2>4
  <2>6. QED BY <2>5
<1>3. PICK f : R(f, Len(order))
  <2> HIDE DEF G
  <2>1. Nat \subseteq G
    BY <1>1, <1>2, NaturalSteps
  <2>2. QED BY <2>1 DEF G
<1> DEFINE g == CHOOSE g : R(g, Len(order))
<1>4. R(g, Len(order))
  BY <1>3
<1>5. Pass(state, d, order) = g[Len(order)]
  BY DEF Pass
<1> HIDE DEF g
<1>6. g[0] = state
  BY <1>4
<1>7. \A k \in 1..Len(order) : g[k] = Move(g[k - 1], d, order[k])
  BY <1>4
<1>8. QED BY <1>5, <1>6, <1>7

-----------------------------------------------------------------------------
(* One move of autoScheduleProjectPlan, one pass, and all of them.            *)

Rows == [start : Nat, end : Nat, days : Nat, auto : BOOLEAN, phase : Phases \cup {0}]
States == [rows : [Items -> Rows], written : SUBSET Items]

\* The second state has come from the first by writing rows that are there.
Rewritten(s, t) ==
    /\ t \in States
    /\ There(t.rows) = There(s.rows)
    /\ s.written \subseteq t.written
    /\ \A j \in Items \ t.written : t.rows[j] = s.rows[j]

\* The items of A wait for no others, and have the dates that follow from theirs.
Settled(A, p, d) ==
    \A i \in A : /\ Before(d, i) \cap There(p) \subseteq A
                 /\ Movable(p, d, i) => InPlace(p, d, i)

\* Each item of the plan has its turn, and no other one.
Turns(order, S) ==
    /\ Len(order) \in Nat
    /\ \A k \in 1..Len(order) : order[k] \in S
    /\ \A i \in S : \E k \in 1..Len(order) : order[k] = i

LEMMA OrdersAreTurns ==
    ASSUME NEW S \in SUBSET Items, NEW order \in Orders[S]
    PROVE  Turns(order, S)
<1> DEFINE n == Cardinality(S)
<1>1. IsFiniteSet(S) /\ n \in Nat
  BY PlanAssumption, FS_Subset, FS_CardinalityType
<1>2. order \in [1..n -> S] /\ \A i, j \in 1..n : i # j => order[i] # order[j]
  BY DEF Orders, SetToSeqs
<1>3. Len(order) = n
  BY <1>1, <1>2
<1>4. IsFiniteSet(1..n) /\ Cardinality(1..n) = n
  BY <1>1, FS_Interval
<1>5. order \in Injection(1..n, S)
  BY <1>2 DEF Injection, IsInjective
<1>6. order \in Surjection(1..n, S)
  BY <1>1, <1>4, <1>5, FS_Injection
<1>7. \A i \in S : \E k \in 1..n : order[k] = i
  BY <1>6 DEF Surjection
<1>8. QED BY <1>1, <1>2, <1>3, <1>7 DEF Turns

LEMMA NextStartIsDay ==
    ASSUME NEW p \in [Items -> Rows], NEW d, NEW i \in Items, Movable(p, d, i)
    PROVE  NextStart(p, d, i) \in Nat /\ NextStart(p, d, i) >= 2
<1> DEFINE B == Before(d, i)
           f == [q \in B |-> p[q].end]
           S == {p[q].end : q \in B}
<1>1. B \in SUBSET Items /\ B # {} /\ \A q \in B : p[q].end # 0
  BY DEF Before, Movable
<1>2. IsFiniteSet(B)
  BY <1>1, PlanAssumption, FS_Subset
<1>3. \A q \in Items : p[q].end \in Nat
  BY DEF Rows
<1>4. S \in SUBSET Nat /\ S # {} /\ \A x \in S : x # 0
  BY <1>1, <1>3
<1>5. f \in Surjection(B, S)
  <2>1. f \in [B -> S]
    OBVIOUS
  <2>2. \A x \in S : \E q \in B : f[q] = x
    OBVIOUS
  <2>3. QED BY <2>1, <2>2 DEF Surjection
<1>6. IsFiniteSet(S)
  BY <1>2, <1>5, FS_Surjection
<1> HIDE DEF S, B, f
<1>7. PICK m \in S : m = Max(S)
  BY <1>4, <1>6, MaxOfFinite
<1>8. m \in Nat /\ m >= 1
  BY <1>4
<1>9. NextStart(p, d, i) = m + 1
  BY <1>7 DEF NextStart, S, B
<1>10. QED BY <1>8, <1>9

\* What a move does to the row whose turn it is.
LEMMA RowMoves ==
    ASSUME NEW state \in States, NEW d, NEW i \in Items,
           Movable(state.rows, d, i), ~InPlace(state.rows, d, i)
    PROVE  LET t == Move(state, d, i)
               p == state.rows
           IN /\ t \in States
              /\ t.written = state.written \cup {i}
              /\ \A j \in Items : j # i => t.rows[j] = p[j]
              /\ t.rows[i].start = NextStart(p, d, i)
              /\ t.rows[i].end = t.rows[i].start + t.rows[i].days - 1
              /\ t.rows[i].auto = p[i].auto
<1> DEFINE p == state.rows
           n == NextStart(p, d, i)
<1>1. p \in [Items -> Rows] /\ state.written \in SUBSET Items
  BY DEF States
<1>2. n \in Nat /\ n >= 2
  BY <1>1, NextStartIsDay
<1> HIDE DEF n
<1>3. PICK row : row = p[i]
  OBVIOUS
<1>4. row \in Rows
  BY <1>1, <1>3
<1>5. PICK new : new = [row EXCEPT !.start = n, !.end = n + row.days - 1]
  OBVIOUS
<1>6. /\ new \in Rows /\ new.start = n /\ new.end = n + new.days - 1
      /\ new.auto = row.auto
  <2>1. row.days \in Nat /\ row.auto \in BOOLEAN /\ row.phase \in Phases \cup {0}
    BY <1>4 DEF Rows
  <2>2. new = [start |-> n, end |-> n + row.days - 1, days |-> row.days,
               auto |-> row.auto, phase |-> row.phase]
    BY <1>4, <1>5 DEF Rows
  <2>3. n + row.days - 1 \in Nat
    BY <1>2, <2>1
  <2>4. QED BY <1>2, <2>1, <2>2, <2>3 DEF Rows
<1>7. Moved(p, d, i) = [p EXCEPT ![i] = new]
  BY <1>1, <1>3, <1>4, <1>5 DEF Moved, n, Rows
<1>8. PICK q : q = Moved(p, d, i)
  OBVIOUS
<1>9. q \in [Items -> Rows] /\ q[i] = new /\ \A j \in Items : j # i => q[j] = p[j]
  BY <1>1, <1>6, <1>7, <1>8
<1>10. Move(state, d, i) = [rows |-> q, written |-> state.written \cup {i}]
  BY <1>8 DEF Move
<1>11. QED BY <1>1, <1>3, <1>6, <1>9, <1>10 DEF States, n

\* The dates of an item depend on its own row and on those it comes after.
LEMMA SameDates ==
    ASSUME NEW p, NEW q, NEW d, NEW i, q[i] = p[i],
           \A b \in Before(d, i) : q[b] = p[b]
    PROVE  /\ Movable(q, d, i) <=> Movable(p, d, i)
           /\ NextStart(q, d, i) = NextStart(p, d, i)
           /\ InPlace(q, d, i) <=> InPlace(p, d, i)
<1>1. {q[b].end : b \in Before(d, i)} = {p[b].end : b \in Before(d, i)}
  OBVIOUS
<1>2. NextStart(q, d, i) = NextStart(p, d, i)
  BY <1>1 DEF NextStart
<1>3. QED BY <1>2 DEF Movable, InPlace

LEMMA RestingMove ==
    ASSUME NEW state, NEW d, NEW i, ~Movable(state.rows, d, i) \/ InPlace(state.rows, d, i)
    PROVE  Move(state, d, i) = state
BY DEF Move

LEMMA RewrittenItself ==
    ASSUME NEW s \in States
    PROVE  Rewritten(s, s)
BY DEF Rewritten

LEMMA RewrittenTwice ==
    ASSUME NEW s, NEW t, NEW u, Rewritten(s, t), Rewritten(t, u)
    PROVE  Rewritten(s, u)
BY DEF Rewritten

LEMMA MoveRewrites ==
    ASSUME NEW state \in States, NEW d, NEW i \in There(state.rows)
    PROVE  Rewritten(state, Move(state, d, i))
<1> DEFINE t == Move(state, d, i)
<1>0. i \in Items
  BY DEF There
<1>1. CASE ~Movable(state.rows, d, i) \/ InPlace(state.rows, d, i)
  BY <1>1, RestingMove, RewrittenItself
<1>2. CASE Movable(state.rows, d, i) /\ ~InPlace(state.rows, d, i)
  <2>1. /\ t \in States /\ t.written = state.written \cup {i}
        /\ \A j \in Items : j # i => t.rows[j] = state.rows[j]
        /\ t.rows[i].start = NextStart(state.rows, d, i)
    BY <1>0, <1>2, RowMoves
  <2>2. NextStart(state.rows, d, i) \in Nat /\ NextStart(state.rows, d, i) >= 2
    BY <1>0, <1>2, NextStartIsDay DEF States
  <2>3. t.rows[i] # Absent
    BY <2>1, <2>2 DEF Absent
  <2> HIDE DEF t
  <2>4. There(t.rows) = There(state.rows)
    BY <2>1, <2>3 DEF There
  <2>5. QED BY <2>1, <2>4 DEF Rewritten, t
<1>3. QED BY <1>1, <1>2

LEMMA MoveKeepsSettled ==
    ASSUME NEW state \in States, NEW d, NEW i \in There(state.rows),
           NEW A \in SUBSET There(state.rows), Settled(A, state.rows, d)
    PROVE  Settled(A, Move(state, d, i).rows, d)
<1> DEFINE t == Move(state, d, i)
<1>0. i \in Items /\ A \subseteq Items
  BY DEF There
<1>1. CASE ~Movable(state.rows, d, i) \/ InPlace(state.rows, d, i)
  BY <1>1, RestingMove
<1>2. CASE Movable(state.rows, d, i) /\ ~InPlace(state.rows, d, i)
  <2>1. \A j \in Items : j # i => t.rows[j] = state.rows[j]
    BY <1>0, <1>2, RowMoves
  <2>2. i \notin A
    BY <1>2 DEF Settled
  <2>3. There(t.rows) = There(state.rows)
    BY MoveRewrites DEF Rewritten
  <2> HIDE DEF t
  <2>4. ASSUME NEW j \in A
        PROVE  /\ Before(d, j) \cap There(t.rows) \subseteq A
               /\ Movable(t.rows, d, j) => InPlace(t.rows, d, j)
    <3>1. Before(d, j) \cap There(state.rows) \subseteq A
      BY DEF Settled
    <3>2. \A b \in Before(d, j) : b \in Items /\ b # i
      BY <2>2, <3>1 DEF Before
    <3>3. /\ t.rows[j] = state.rows[j]
          /\ \A b \in Before(d, j) : t.rows[b] = state.rows[b]
      BY <1>0, <2>1, <2>2, <3>2
    <3>4. /\ Movable(t.rows, d, j) <=> Movable(state.rows, d, j)
          /\ InPlace(t.rows, d, j) <=> InPlace(state.rows, d, j)
      BY <3>3, SameDates
    <3>5. QED BY <2>3, <3>1, <3>4 DEF Settled
  <2>5. QED BY <2>4 DEF Settled, t
<1>3. QED BY <1>1, <1>2

LEMMA MoveSettles ==
    ASSUME NEW state \in States, NEW d, NEW i \in There(state.rows),
           NEW A \in SUBSET There(state.rows), Settled(A, state.rows, d),
           Before(d, i) \cap There(state.rows) \subseteq A, i \notin Before(d, i)
    PROVE  Settled(A \cup {i}, Move(state, d, i).rows, d)
<1> DEFINE t == Move(state, d, i)
<1>0. i \in Items
  BY DEF There
<1>1. Settled(A, t.rows, d)
  BY MoveKeepsSettled
<1>2. There(t.rows) = There(state.rows)
  BY MoveRewrites DEF Rewritten
<1>3. Movable(t.rows, d, i) => InPlace(t.rows, d, i)
  <2>1. CASE ~Movable(state.rows, d, i) \/ InPlace(state.rows, d, i)
    BY <2>1, RestingMove
  <2>2. CASE Movable(state.rows, d, i) /\ ~InPlace(state.rows, d, i)
    <3>1. /\ \A j \in Items : j # i => t.rows[j] = state.rows[j]
          /\ t.rows[i].start = NextStart(state.rows, d, i)
          /\ t.rows[i].end = t.rows[i].start + t.rows[i].days - 1
      BY <1>0, <2>2, RowMoves
    <3> HIDE DEF t
    <3>2. \A b \in Before(d, i) : t.rows[b] = state.rows[b]
      BY <3>1 DEF Before
    <3>3. {t.rows[b].end : b \in Before(d, i)} = {state.rows[b].end : b \in Before(d, i)}
      BY <3>2
    <3>4. NextStart(t.rows, d, i) = NextStart(state.rows, d, i)
      BY <3>3 DEF NextStart
    <3>5. QED BY <3>1, <3>4 DEF InPlace
  <2>3. QED BY <2>1, <2>2
<1> HIDE DEF t
<1>4. QED BY <1>1, <1>2, <1>3 DEF Settled, t

-----------------------------------------------------------------------------
LEMMA PassRewrites ==
    ASSUME NEW state \in States, NEW d, NEW order, Turns(order, There(state.rows))
    PROVE  Rewritten(state, Pass(state, d, order))
<1> DEFINE n == Len(order)
<1>1. n \in Nat /\ \A k \in 1..n : order[k] \in There(state.rows)
  BY DEF Turns
<1>2. PICK g : /\ g[0] = state
               /\ \A k \in 1..n : g[k] = Move(g[k - 1], d, order[k])
               /\ Pass(state, d, order) = g[n]
  BY <1>1, PassUnrolled
<1> DEFINE G == {k \in Nat : k <= n => Rewritten(state, g[k])}
<1>3. 0 \in G
  BY <1>2, RewrittenItself
<1>4. ASSUME NEW k \in Nat, k \in G
      PROVE  k + 1 \in G
  <2>1. SUFFICES ASSUME k + 1 <= n PROVE Rewritten(state, g[k + 1])
    OBVIOUS
  <2>2. Rewritten(state, g[k])
    BY <1>1, <1>4, <2>1
  <2>3. g[k] \in States /\ order[k + 1] \in There(g[k].rows)
    BY <1>1, <2>1, <2>2 DEF Rewritten
  <2>4. k + 1 \in 1..n /\ (k + 1) - 1 = k
    BY <1>1, <2>1
  <2>5. g[k + 1] = Move(g[k], d, order[k + 1])
    BY <1>2, <2>4
  <2>6. Rewritten(g[k], g[k + 1])
    BY <2>3, <2>5, MoveRewrites
  <2>7. QED BY <2>2, <2>6, RewrittenTwice
<1> HIDE DEF G
<1>5. n \in G
  BY <1>1, <1>3, <1>4, NaturalSteps
<1>6. QED BY <1>1, <1>2, <1>5 DEF G

\* An item whose predecessors are settled is settled by the next pass.
LEMMA PassSettles ==
    ASSUME NEW state \in States, NEW d, NEW order, Turns(order, There(state.rows)),
           NEW A \in SUBSET There(state.rows), Settled(A, state.rows, d)
    PROVE  /\ Settled(A, Pass(state, d, order).rows, d)
           /\ \A i \in There(state.rows) :
                 Before(d, i) \cap There(state.rows) \subseteq A /\ i \notin Before(d, i)
                    => Settled(A \cup {i}, Pass(state, d, order).rows, d)
<1> DEFINE n == Len(order)
           T == There(state.rows)
<1>1. n \in Nat /\ \A k \in 1..n : order[k] \in T
  BY DEF Turns
<1>2. PICK g : /\ g[0] = state
               /\ \A k \in 1..n : g[k] = Move(g[k - 1], d, order[k])
               /\ Pass(state, d, order) = g[n]
  BY <1>1, PassUnrolled
<1> DEFINE G == {k \in Nat : k <= n =>
                    g[k] \in States /\ There(g[k].rows) = T /\ Settled(A, g[k].rows, d)}
<1>3. 0 \in G
  BY <1>2
<1>4. ASSUME NEW k \in Nat, k \in G
      PROVE  k + 1 \in G
  <2>1. SUFFICES ASSUME k + 1 <= n
                 PROVE  g[k + 1] \in States /\ There(g[k + 1].rows) = T
                        /\ Settled(A, g[k + 1].rows, d)
    OBVIOUS
  <2>2. g[k] \in States /\ There(g[k].rows) = T /\ Settled(A, g[k].rows, d)
    BY <1>1, <1>4, <2>1
  <2>3. k + 1 \in 1..n /\ (k + 1) - 1 = k
    BY <1>1, <2>1
  <2>4. g[k + 1] = Move(g[k], d, order[k + 1]) /\ order[k + 1] \in There(g[k].rows)
    BY <1>1, <1>2, <2>2, <2>3
  <2>5. Rewritten(g[k], g[k + 1])
    BY <2>2, <2>4, MoveRewrites
  <2>6. Settled(A, g[k + 1].rows, d)
    BY <2>2, <2>4, MoveKeepsSettled
  <2>7. QED BY <2>2, <2>5, <2>6 DEF Rewritten
<1>5. \A k \in 0..n : g[k] \in States /\ There(g[k].rows) = T /\ Settled(A, g[k].rows, d)
  <2> HIDE DEF G
  <2>1. Nat \subseteq G
    BY <1>3, <1>4, NaturalSteps
  <2>2. QED BY <1>1, <2>1 DEF G
<1>6. ASSUME NEW i \in T, Before(d, i) \cap T \subseteq A, i \notin Before(d, i)
      PROVE  Settled(A \cup {i}, g[n].rows, d)
  <2>1. PICK turn \in 1..n : order[turn] = i
    BY DEF Turns
  <2> DEFINE H == {k \in Nat : turn <= k /\ k <= n => Settled(A \cup {i}, g[k].rows, d)}
  <2>2. 0 \in H
    BY <2>1
  <2>3. ASSUME NEW k \in Nat, k \in H
        PROVE  k + 1 \in H
    <3>1. SUFFICES ASSUME turn <= k + 1, k + 1 <= n
                   PROVE  Settled(A \cup {i}, g[k + 1].rows, d)
      OBVIOUS
    <3>2. k \in 0..n /\ k + 1 \in 1..n /\ (k + 1) - 1 = k
      BY <1>1, <3>1
    <3>3. g[k + 1] = Move(g[k], d, order[k + 1]) /\ order[k + 1] \in T
      BY <1>1, <1>2, <3>2
    <3>4. g[k] \in States /\ There(g[k].rows) = T /\ Settled(A, g[k].rows, d)
      BY <1>5, <3>2
    <3>5. CASE turn = k + 1
      BY <1>6, <2>1, <3>3, <3>4, <3>5, MoveSettles
    <3>6. CASE turn # k + 1
      <4>1. turn <= k /\ k <= n
        BY <1>1, <2>1, <3>1, <3>6
      <4>2. Settled(A \cup {i}, g[k].rows, d) /\ A \cup {i} \in SUBSET There(g[k].rows)
        BY <2>3, <3>4, <4>1
      <4>3. QED BY <3>3, <3>4, <4>2, MoveKeepsSettled
    <3>7. QED BY <3>5, <3>6
  <2>4. n \in H
    <3> HIDE DEF H
    <3>1. QED BY <1>1, <2>2, <2>3, NaturalSteps
  <2>5. QED BY <1>1, <2>1, <2>4
<1>7. Settled(A, g[n].rows, d)
  BY <1>1, <1>5
<1>8. QED BY <1>2, <1>6, <1>7

LEMMA ScheduleUnrolled ==
    ASSUME NEW state, NEW d, NEW order, Passes(state.rows) \in Nat
    PROVE  \E g : /\ g[0] = state
                  /\ \A k \in 1..Passes(state.rows) : g[k] = Pass(g[k - 1], d, order)
                  /\ Schedule(state, d, order) = g[Passes(state.rows)]
<1> DEFINE R(g, n) == g = [k \in 0..n |-> IF k = 0 THEN state
                                         ELSE Pass(g[k - 1], d, order)]
           G == {n \in Nat : \E g : R(g, n)}
<1>1. 0 \in G
  <2>1. R([k \in 0..0 |-> state], 0)
    OBVIOUS
  <2>2. QED BY <2>1
<1>2. ASSUME NEW n \in Nat, n \in G
      PROVE  n + 1 \in G
  <2>1. PICK g : R(g, n)
    BY <1>2
  <2>2. DEFINE h == [k \in 0..(n + 1) |-> IF k = n + 1 THEN Pass(g[n], d, order)
                                        ELSE g[k]]
  <2>3. \A k \in 0..(n + 1) :
           h[k] = IF k = 0 THEN state ELSE Pass(h[k - 1], d, order)
    <3>1. TAKE k \in 0..(n + 1)
    <3>2. CASE k = 0
      BY <2>1, <3>2
    <3>3. CASE k = n + 1
      <4>1. k # 0 /\ k - 1 = n /\ h[n] = g[n]
        BY <3>3
      <4>2. QED BY <3>3, <4>1
    <3>4. CASE k \in 1..n
      <4>1. k # 0 /\ k - 1 \in 0..n /\ h[k - 1] = g[k - 1] /\ h[k] = g[k]
        BY <3>4
      <4>2. g[k] = Pass(g[k - 1], d, order)
        BY <2>1, <3>4, <4>1
      <4>3. QED BY <4>1, <4>2
    <3>5. QED BY <3>2, <3>3, <3>4
  <2>4. R(h, n + 1)
    <3> HIDE DEF h
    <3>1. h = [k \in 0..(n + 1) |-> h[k]]
      BY DEF h
    <3>2. [k \in 0..(n + 1) |-> h[k]]
            = [k \in 0..(n + 1) |-> IF k = 0 THEN state ELSE Pass(h[k - 1], d, order)]
      BY <2>3
    <3>3. QED BY <3>1, <3>2
  <2> HIDE DEF h
  <2>5. \E f : R(f, n + 1)
    BY <2>4
  <2>6. QED BY <2>5
<1>3. PICK f : R(f, Passes(state.rows))
  <2> HIDE DEF G
  <2>1. Nat \subseteq G
    BY <1>1, <1>2, NaturalSteps
  <2>2. QED BY <2>1 DEF G
<1> DEFINE g == CHOOSE g : R(g, Passes(state.rows))
<1>4. R(g, Passes(state.rows))
  BY <1>3
<1>5. Schedule(state, d, order) = g[Passes(state.rows)]
  BY DEF Schedule
<1> HIDE DEF g
<1>6. g[0] = state
  BY <1>4
<1>7. \A k \in 1..Passes(state.rows) : g[k] = Pass(g[k - 1], d, order)
  BY <1>4
<1>8. QED BY <1>5, <1>6, <1>7

LEMMA ScheduleRewrites ==
    ASSUME NEW state \in States, NEW d, NEW order, Turns(order, There(state.rows))
    PROVE  Rewritten(state, Schedule(state, d, order))
<1> DEFINE n == Passes(state.rows)
<1>1. n \in Nat
  BY PlanAssumption, FS_Subset, FS_CardinalityType DEF Passes, There
<1>2. PICK g : /\ g[0] = state
               /\ \A k \in 1..n : g[k] = Pass(g[k - 1], d, order)
               /\ Schedule(state, d, order) = g[n]
  BY <1>1, ScheduleUnrolled
<1> DEFINE G == {k \in Nat : k <= n => Rewritten(state, g[k])}
<1> HIDE DEF n
<1>3. 0 \in G
  BY <1>2, RewrittenItself
<1>4. ASSUME NEW k \in Nat, k \in G
      PROVE  k + 1 \in G
  <2>1. SUFFICES ASSUME k + 1 <= n PROVE Rewritten(state, g[k + 1])
    OBVIOUS
  <2>2. Rewritten(state, g[k])
    BY <1>1, <1>4, <2>1
  <2>3. g[k] \in States /\ Turns(order, There(g[k].rows))
    BY <2>2 DEF Rewritten
  <2>4. k + 1 \in 1..n /\ (k + 1) - 1 = k
    BY <1>1, <2>1
  <2>5. g[k + 1] = Pass(g[k], d, order)
    BY <1>2, <2>4
  <2>6. Rewritten(g[k], g[k + 1])
    BY <2>3, <2>5, PassRewrites
  <2>7. QED BY <2>2, <2>6, RewrittenTwice
<1> HIDE DEF G
<1>5. n \in G
  BY <1>1, <1>3, <1>4, NaturalSteps
<1>6. QED BY <1>1, <1>2, <1>5 DEF G

\* As many passes as there are items are enough, if the dependencies have no cycle:
\* every pass settles one item more, whatever the order of the rows.
LEMMA PassesAreEnough ==
    ASSUME NEW state \in States, NEW d, NEW order, Turns(order, There(state.rows)),
           Ordered(d)
    PROVE  Settled(There(state.rows), Schedule(state, d, order).rows, d)
<1> DEFINE n == Passes(state.rows)
           T == There(state.rows)
<1>1. n \in Nat /\ n = Cardinality(T) /\ IsFiniteSet(T) /\ T \in SUBSET Items
  BY PlanAssumption, FS_Subset, FS_CardinalityType DEF Passes, There
<1>2. PICK g : /\ g[0] = state
               /\ \A k \in 1..n : g[k] = Pass(g[k - 1], d, order)
               /\ Schedule(state, d, order) = g[n]
  BY <1>1, ScheduleUnrolled
<1> DEFINE Done(A, k) == Settled(A, g[k].rows, d) /\ Cardinality(A) >= k
           G == {k \in Nat : k <= n => /\ g[k] \in States /\ There(g[k].rows) = T
                                      /\ \E A \in SUBSET T : Done(A, k)}
<1> HIDE DEF n, T
<1>3. 0 \in G
  <2>1. Done({}, 0)
    BY FS_EmptySet DEF Settled
  <2>2. QED BY <1>2, <2>1 DEF T
<1>4. ASSUME NEW k \in Nat, k \in G
      PROVE  k + 1 \in G
  <2>1. SUFFICES ASSUME k + 1 <= n
                 PROVE  /\ g[k + 1] \in States /\ There(g[k + 1].rows) = T
                        /\ \E A \in SUBSET T : Done(A, k + 1)
    OBVIOUS
  <2>2. k <= n
    BY <1>1, <2>1
  <2>3. PICK A \in SUBSET T : Done(A, k)
    BY <1>4, <2>2
  <2>4. g[k] \in States /\ There(g[k].rows) = T /\ Turns(order, There(g[k].rows))
    BY <1>4, <2>2 DEF T
  <2>5. g[k + 1] = Pass(g[k], d, order)
    <3>1. k + 1 \in 1..n /\ (k + 1) - 1 = k
      BY <1>1, <2>1
    <3>2. QED BY <1>2, <3>1
  <2>6. g[k + 1] \in States /\ There(g[k + 1].rows) = T
    BY <2>4, <2>5, PassRewrites DEF Rewritten
  <2>7. IsFiniteSet(A) /\ Cardinality(A) \in Nat
    BY <1>1, FS_Subset, FS_CardinalityType
  <2>8. CASE A = T
    <3>1. Settled(T, g[k + 1].rows, d)
      BY <2>3, <2>4, <2>5, <2>8, PassSettles
    <3>2. QED BY <1>1, <2>1, <2>6, <3>1
  <2>9. CASE A # T
    <3>1. T \ A \in (SUBSET Items) \ {{}}
      BY <1>1, <2>9
    <3>2. PICK i \in T \ A : Before(d, i) \cap (T \ A) = {}
      BY <3>1 DEF Ordered
    <3>3. Before(d, i) \cap T \subseteq A /\ i \notin Before(d, i)
      BY <3>2
    <3>4. Settled(A \cup {i}, g[k + 1].rows, d)
      BY <2>3, <2>4, <2>5, <3>3, PassSettles
    <3>5. Cardinality(A \cup {i}) = Cardinality(A) + 1
      BY <2>7, <3>2, FS_AddElement
    <3>6. A \cup {i} \in SUBSET T /\ Done(A \cup {i}, k + 1)
      BY <2>3, <2>7, <3>4, <3>5
    <3>7. QED BY <2>6, <3>6
  <2>10. QED BY <2>8, <2>9
<1>5. n \in G
  <2> HIDE DEF G
  <2>1. QED BY <1>1, <1>3, <1>4, NaturalSteps
<1>6. PICK A \in SUBSET T : Done(A, n)
  BY <1>1, <1>5
<1>7. A = T
  <2>1. IsFiniteSet(A) /\ Cardinality(A) \in Nat /\ Cardinality(A) <= Cardinality(T)
    BY <1>1, FS_Subset, FS_CardinalityType
  <2>2. Cardinality(A) = Cardinality(T)
    BY <1>1, <1>6, <2>1
  <2>3. QED BY <1>1, <2>2, FS_Subset
<1>8. QED BY <1>2, <1>6, <1>7 DEF T

-----------------------------------------------------------------------------
(* Types, dates and versions along a behaviour.                               *)

Pending == [item : Items, input : Inputs, seen : Rows, expects : BOOLEAN]

Typed == plan \in [Items -> Rows] /\ run \in [Requests -> {Idle} \cup Pending]

\* An assistant's save whose item was not written since has seen it as it is.
Seen(r) ==
    run[r] # Idle /\ run[r].expects /\ r \notin newer
        => plan[run[r].item] \in {Absent, run[r].seen}
SeenInv == \A r \in Requests : Seen(r)

LEMMA FirstRows ==
    ASSUME NEW days \in Nat, NEW phase \in Phases
    PROVE  /\ Absent \in Rows
           /\ [Absent EXCEPT !.phase = phase] \in Rows
           /\ [Absent EXCEPT !.days = days, !.phase = phase] \in Rows
<1>1. PICK row : row = Absent
  OBVIOUS
<1>2. row \in Rows
  BY <1>1 DEF Absent, Rows
<1>3. [row EXCEPT !.phase = phase] \in Rows
  BY <1>2 DEF Rows
<1>4. [row EXCEPT !.days = days, !.phase = phase] \in Rows
  BY <1>2 DEF Rows
<1>5. QED BY <1>1, <1>2, <1>3, <1>4

LEMMA InitTyped == Init => Typed /\ SeenInv /\ PlanFollows
<1> SUFFICES ASSUME Init PROVE Typed /\ SeenInv /\ PlanFollows  OBVIOUS
<1>1. PICK days \in Lengths, phase \in Phases :
        plan = [i \in Items |-> IF i \in born
                                THEN [Absent EXCEPT !.days = days, !.phase = phase]
                                ELSE Absent]
  BY DEF Init
<1>2. days \in Nat
  BY PlanAssumption
<1>3. Absent \in Rows /\ [Absent EXCEPT !.days = days, !.phase = phase] \in Rows
  BY <1>2, FirstRows
<1>4. plan \in [Items -> Rows]
  BY <1>1, <1>3
<1>5. run = [r \in Requests |-> Idle] /\ deps = {}
  BY DEF Init
<1>6. PlanFollows
  BY <1>5 DEF PlanFollows, Movable, Before
<1>7. QED BY <1>4, <1>5, <1>6 DEF Typed, SeenInv, Seen

\* What a save writes: its row, and what the passes move after it.
LEMMA SaveWrites ==
    ASSUME Typed, NEW r \in Requests, Save(r)
    PROVE  /\ plan' \in [Items -> Rows]
           /\ \E written : /\ newer' = (newer \cup Renewed(written)) \ {r}
                           /\ \A j \in Items \ written : plan'[j] = plan[j]
           /\ Acyclic' => Settled(There(plan'), plan', deps')
<1> DEFINE i == run[r].item
           input == run[r].input
           edges == Others(deps, i) \cup {<<q, i>> : q \in input.after}
           state == [rows |-> [plan EXCEPT ![i] = RowOf(r)], written |-> {i}]
<1>1. run[r] \in Pending
  BY DEF Save, Typed
<1>2. i \in Items /\ input \in Inputs /\ run[r].seen \in Rows
  BY <1>1 DEF Pending
<1>3. RowOf(r) \in Rows
  <2>1. input.start \in Nat /\ input.days \in Nat \ {0} /\ input.auto \in BOOLEAN
    <3>1. input.start \in Starts \cup {0} /\ input.days \in Lengths /\ input.auto \in BOOLEAN
      BY <1>2 DEF Inputs
    <3>2. Starts \cup {0} \subseteq Nat /\ Lengths \subseteq Nat \ {0}
      BY PlanAssumption
    <3> HIDE DEF input
    <3>3. QED BY <3>1, <3>2
  <2>2. run[r].seen.phase \in Phases \cup {0}
    BY <1>2 DEF Rows
  <2>3. (IF input.start = 0 THEN 0 ELSE input.start + input.days - 1) \in Nat
    BY <2>1
  <2>4. QED BY <2>1, <2>2, <2>3 DEF RowOf, Rows
<1>4. state \in States
  BY <1>2, <1>3 DEF Typed, States
<1>5. deps' = edges
  BY DEF Save
<1>6. PICK order \in Orders[There(state.rows)] :
         /\ plan' = Schedule(state, edges, order).rows
         /\ newer' = (newer \cup Renewed(Schedule(state, edges, order).written)) \ {r}
  BY DEF Save
<1> HIDE DEF edges, state
<1>7. Turns(order, There(state.rows))
  BY OrdersAreTurns DEF There
<1>8. PICK done : done = Schedule(state, edges, order)
  OBVIOUS
<1>9. Rewritten(state, done)
  BY <1>4, <1>7, <1>8, ScheduleRewrites
<1>10. done.rows \in [Items -> Rows] /\ There(done.rows) = There(state.rows)
  BY <1>9 DEF Rewritten, States
<1>11. \A j \in Items \ done.written : done.rows[j] = plan[j]
  <2>1. i \in done.written
    BY <1>9 DEF Rewritten, state
  <2>2. \A j \in Items : j # i => state.rows[j] = plan[j]
    BY DEF state, Typed
  <2>3. QED BY <1>9, <2>1, <2>2 DEF Rewritten
<1>12. Acyclic' => Settled(There(done.rows), done.rows, deps')
  BY <1>4, <1>5, <1>7, <1>8, <1>10, PassesAreEnough DEF Acyclic, Ordered
<1>13. QED BY <1>6, <1>8, <1>10, <1>11, <1>12

LEMMA TypedStep ==
    ASSUME Typed, [Next]_vars
    PROVE  Typed'
<1> USE DEF history
<1>1. ASSUME NEW r \in Requests, NEW i \in Items, NEW input \in Inputs,
             AskChange(r, i, input) \/ \E phase \in Phases : AskCreate(r, i, input, phase)
      PROVE  Typed'
  <2>1. plan' = plan
    BY <1>1 DEF AskChange, AskCreate
  <2>2. \E y \in Pending : run' = [run EXCEPT ![r] = y]
    <3>1. CASE AskChange(r, i, input)
      <4>1. plan[i] \in Rows
        BY DEF Typed
      <4>2. [item |-> i, input |-> input, seen |-> plan[i], expects |-> r \in Assistants]
              \in Pending
        BY <4>1 DEF Pending
      <4>3. QED BY <3>1, <4>2 DEF AskChange
    <3>2. ASSUME NEW phase \in Phases, AskCreate(r, i, input, phase)
          PROVE  \E y \in Pending : run' = [run EXCEPT ![r] = y]
      <4>2. [Absent EXCEPT !.phase = phase] \in Rows
        BY FirstRows
      <4>3. [item |-> i, input |-> input, seen |-> [Absent EXCEPT !.phase = phase],
             expects |-> FALSE] \in Pending
        BY <4>2 DEF Pending
      <4>4. QED BY <3>2, <4>3 DEF AskCreate
    <3>3. QED BY <1>1, <3>1, <3>2
  <2>3. QED BY <2>1, <2>2 DEF Typed
<1>2. ASSUME NEW r \in Requests, Save(r)
      PROVE  Typed'
  <2>1. plan' \in [Items -> Rows]
    BY <1>2, SaveWrites
  <2>2. run' = [run EXCEPT ![r] = Idle]
    BY <1>2 DEF Save
  <2>3. QED BY <2>1, <2>2 DEF Typed
<1>3. ASSUME NEW r \in Requests, SaveFails(r)
      PROVE  Typed'
  BY <1>3 DEF SaveFails, Typed
<1>4. ASSUME NEW i \in Items, Delete(i)
      PROVE  Typed'
  <2>1. Absent \in Rows
    BY DEF Absent, Rows
  <2>2. QED BY <1>4, <2>1 DEF Delete, Typed
<1>5. ASSUME NEW i \in Items, NEW phase \in Phases, Reorder(i, phase)
      PROVE  Typed'
  <2>1. PICK row : row = [plan[i] EXCEPT !.phase = phase]
    OBVIOUS
  <2>2. row \in Rows
    BY <2>1 DEF Typed, Rows
  <2>3. plan' = [plan EXCEPT ![i] = row] /\ run' = run
    BY <1>5, <2>1 DEF Reorder
  <2>4. QED BY <2>2, <2>3 DEF Typed
<1>6. CASE UNCHANGED vars
  BY <1>6 DEF vars, Typed
<1>7. QED BY <1>1, <1>2, <1>3, <1>4, <1>5, <1>6 DEF Next

-----------------------------------------------------------------------------
(* An assistant's save replaces what it has seen.                             *)

LEMMA SeenStep ==
    ASSUME Typed, SeenInv, [Next]_vars
    PROVE  SeenInv'
<1> USE DEF history
<1>1. ASSUME NEW r \in Requests, NEW i \in Items, NEW input \in Inputs,
             AskChange(r, i, input) \/ \E phase \in Phases : AskCreate(r, i, input, phase)
      PROVE  SeenInv'
  <2>1. plan' = plan /\ newer' = newer
    BY <1>1 DEF AskChange, AskCreate
  <2>2. \A s \in Requests : s # r => run'[s] = run[s]
    BY <1>1 DEF AskChange, AskCreate, Typed
  <2>3. Seen(r)'
    <3>1. CASE AskChange(r, i, input)
      <4>1. run'[r] = [item |-> i, input |-> input, seen |-> plan[i],
                       expects |-> r \in Assistants]
        BY <3>1 DEF AskChange, Typed
      <4>2. run'[r].item = i /\ run'[r].seen = plan[i]
        BY <4>1
      <4>3. QED BY <2>1, <4>2 DEF Seen
    <3>2. ASSUME NEW phase \in Phases, AskCreate(r, i, input, phase)
          PROVE  Seen(r)'
      <4>1. run'[r] = [item |-> i, input |-> input,
                       seen |-> [Absent EXCEPT !.phase = phase], expects |-> FALSE]
        BY <3>2 DEF AskCreate, Typed
      <4>2. run'[r].expects = FALSE
        BY <4>1
      <4>3. QED BY <4>2 DEF Seen
    <3>3. QED BY <1>1, <3>1, <3>2
  <2>4. QED BY <2>1, <2>2, <2>3 DEF SeenInv, Seen
<1>2. ASSUME NEW r \in Requests, Save(r)
      PROVE  SeenInv'
  <2>1. run'[r] = Idle /\ \A s \in Requests : s # r => run'[s] = run[s]
    BY <1>2 DEF Save, Typed
  <2>2. PICK written : /\ newer' = (newer \cup Renewed(written)) \ {r}
                       /\ \A j \in Items \ written : plan'[j] = plan[j]
    BY <1>2, SaveWrites
  <2>3. ASSUME NEW s \in Requests, s # r, Seen(s)
        PROVE  Seen(s)'
    <3>1. run[s] # Idle => run[s].item \in Items
      BY DEF Typed, Pending
    <3>2. run[s] # Idle /\ run[s].item \in written => s \in newer'
      BY <2>2, <2>3 DEF Renewed
    <3>3. s \in newer => s \in newer'
      BY <2>2, <2>3
    <3>4. run[s] # Idle /\ run[s].item \notin written
            => plan'[run[s].item] = plan[run[s].item]
      BY <2>2, <3>1
    <3>5. QED BY <2>1, <2>3, <3>2, <3>3, <3>4 DEF Seen
  <2>4. QED BY <2>1, <2>3 DEF SeenInv, Seen
<1>3. ASSUME NEW r \in Requests, SaveFails(r)
      PROVE  SeenInv'
  <2>1. /\ run'[r] = Idle /\ \A s \in Requests : s # r => run'[s] = run[s]
        /\ newer' = newer \ {r} /\ plan' = plan
    BY <1>3 DEF SaveFails, Typed
  <2>2. QED BY <2>1 DEF SeenInv, Seen
<1>4. ASSUME NEW i \in Items, Delete(i)
      PROVE  SeenInv'
  <2>1. /\ run' = run /\ newer' = newer /\ plan' = [plan EXCEPT ![i] = Absent]
    BY <1>4 DEF Delete
  <2>2. ASSUME NEW s \in Requests, run[s] # Idle
        PROVE  plan'[run[s].item] \in {Absent, plan[run[s].item]}
    BY <2>1, <2>2 DEF Typed, Pending
  <2>3. QED BY <2>1, <2>2 DEF SeenInv, Seen
<1>5. ASSUME NEW i \in Items, NEW phase \in Phases, Reorder(i, phase)
      PROVE  SeenInv'
  <2>1. /\ run' = run /\ newer \cup Renewed({i}) \subseteq newer'
        /\ \A j \in Items : j # i => plan'[j] = plan[j]
    BY <1>5 DEF Reorder, Typed, Renewed
  <2>2. ASSUME NEW s \in Requests, run[s] # Idle, Seen(s)
        PROVE  Seen(s)'
    <3>1. run[s].item \in Items
      BY <2>2 DEF Typed, Pending
    <3>2. CASE run[s].item = i
      BY <2>1, <2>2, <3>2 DEF Renewed, Seen
    <3>3. CASE run[s].item # i
      BY <2>1, <2>2, <3>1, <3>3 DEF Seen
    <3>4. QED BY <3>2, <3>3
  <2>3. QED BY <2>1, <2>2 DEF SeenInv, Seen
<1>6. CASE UNCHANGED vars
  BY <1>6 DEF vars, SeenInv, Seen
<1>7. QED BY <1>1, <1>2, <1>3, <1>4, <1>5, <1>6 DEF Next

-----------------------------------------------------------------------------
(* Dates follow.                                                              *)

LEMMA FollowsStep ==
    ASSUME Typed, PlanFollows, [Next]_vars
    PROVE  PlanFollows'
<1> USE DEF history
<1>1. ASSUME NEW r \in Requests, Save(r)
      PROVE  PlanFollows'
  <2>1. Acyclic' => Settled(There(plan'), plan', deps')
    BY <1>1, SaveWrites
  <2>2. QED BY <2>1 DEF PlanFollows, Settled
<1>2. ASSUME UNCHANGED <<plan, deps, loosened>>
      PROVE  PlanFollows'
  BY <1>2 DEF PlanFollows, Acyclic
<1>3. ASSUME NEW i \in Items, Delete(i)
      PROVE  PlanFollows'
  BY <1>3 DEF Delete, PlanFollows
<1>4. ASSUME NEW i \in Items, NEW phase \in Phases, Reorder(i, phase)
      PROVE  PlanFollows'
  <2>1. PICK row : row = [plan[i] EXCEPT !.phase = phase]
    OBVIOUS
  <2>2. /\ row.start = plan[i].start /\ row.end = plan[i].end
        /\ row.days = plan[i].days /\ row.auto = plan[i].auto
    BY <2>1 DEF Typed, Rows
  <2>3. /\ plan' = [plan EXCEPT ![i] = row] /\ deps' = deps /\ loosened' = loosened
        /\ plan[i] # Absent
    BY <1>4, <2>1 DEF Reorder
  <2>4. \A j \in Items : /\ plan'[j].start = plan[j].start /\ plan'[j].end = plan[j].end
                        /\ plan'[j].days = plan[j].days /\ plan'[j].auto = plan[j].auto
    BY <2>2, <2>3 DEF Typed
  <2>5. There(plan') \subseteq There(plan)
    BY <2>3 DEF There, Typed
  <2>6. ASSUME NEW j \in Items
        PROVE  /\ Movable(plan', deps, j) <=> Movable(plan, deps, j)
               /\ InPlace(plan', deps, j) <=> InPlace(plan, deps, j)
    <3>1. \A b \in Before(deps, j) : plan'[b].end = plan[b].end
      BY <2>4 DEF Before
    <3>2. {plan'[b].end : b \in Before(deps, j)} = {plan[b].end : b \in Before(deps, j)}
      BY <3>1
    <3>3. NextStart(plan', deps, j) = NextStart(plan, deps, j)
      BY <3>2 DEF NextStart
    <3>4. QED BY <2>4, <3>1, <3>3 DEF Movable, InPlace
  <2>7. QED BY <2>3, <2>5, <2>6 DEF PlanFollows, Acyclic, There
<1>5. ASSUME NEW r \in Requests, NEW i \in Items, NEW input \in Inputs,
             AskChange(r, i, input) \/ \E phase \in Phases : AskCreate(r, i, input, phase)
      PROVE  PlanFollows'
  BY <1>2, <1>5 DEF AskChange, AskCreate
<1>6. ASSUME NEW r \in Requests, SaveFails(r)
      PROVE  PlanFollows'
  BY <1>2, <1>6 DEF SaveFails
<1>7. CASE UNCHANGED vars
  BY <1>2, <1>7 DEF vars
<1>8. QED BY <1>1, <1>3, <1>4, <1>5, <1>6, <1>7 DEF Next

\* The plan and the saves under way keep their types.
THEOREM TypeCorrect == Spec => []Typed
BY InitTyped, TypedStep, PTL DEF Spec

\* The update of an assistant replaces the item it has read, down to the dates that
\* other saves moved and the phase it was dragged to, for any number of items and saves.
THEOREM SeenIsAlwaysReplaced == Spec => SeenIsReplaced
<1>1. Typed /\ SeenInv =>
        \A r \in Requests :
           (/\ run[r] # Idle /\ run'[r] = Idle /\ run[r].expects
            /\ plan[run[r].item] \notin {Absent, run[r].seen}) => ~Save(r)
  BY DEF SeenInv, Seen, Save, Fits
<1>2. QED BY <1>1, InitTyped, TypedStep, SeenStep, PTL DEF Spec, SeenIsReplaced

\* As many passes as there are items bring every automatic item to the day after its
\* predecessors, however long the chain and whatever the order of the rows.
THEOREM PlanAlwaysFollows == Spec => []PlanFollows
BY InitTyped, TypedStep, FollowsStep, PTL DEF Spec

=============================================================================
