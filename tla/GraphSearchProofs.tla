------------------------- MODULE GraphSearchProofs -------------------------
(***************************************************************************)
(* Proofs about GraphSearch, for any entities, memories and edges.         *)
(***************************************************************************)
EXTENDS GraphSearch, FiniteSetTheorems, WellFoundedInduction, TLAPS

-----------------------------------------------------------------------------
(* Induction: a set of naturals that is not empty has a least member.      *)

LEMMA Least ==
    ASSUME NEW T, T \subseteq Nat, T # {}
    PROVE  \E n \in T : \A m \in T : n <= m
<1> DEFINE R == OpToRel(<, Nat)
<1>1. IsWellFoundedOn(R, Nat)
  BY NatLessThanWellFounded
<1>2. \A m, n \in Nat : <<m, n>> \in R <=> m < n
  BY DEF OpToRel
<1> HIDE DEF R
<1>3. PICK n \in T : \A m \in T : <<m, n>> \notin R
  BY <1>1, WFMin
<1>4. ASSUME NEW m \in T
      PROVE  n <= m
  <2>1. m \in Nat /\ n \in Nat /\ <<m, n>> \notin R
    BY <1>3
  <2>2. ~(m < n)
    BY <1>2, <2>1
  <2> QED
    BY <2>1, <2>2
<1> QED
  BY <1>4

\* A set of naturals with 0 and every successor of its members has all of them.
LEMMA Naturals ==
    ASSUME NEW T, 0 \in T, \A n \in Nat : n \in T => n + 1 \in T
    PROVE  Nat \subseteq T
<1> SUFFICES ASSUME Nat \ T # {} PROVE FALSE
  OBVIOUS
<1>1. PICK n \in Nat \ T : \A m \in Nat \ T : n <= m
  BY Least
<1>2. n # 0 /\ n - 1 \in Nat
  BY <1>1
<1>3. n - 1 \in T
  BY <1>1, <1>2
<1> QED
  BY <1>1, <1>2, <1>3

-----------------------------------------------------------------------------
(* What is within n steps.                                                 *)

\* The entities of S and those one step away from them.
Spread(E, S) == S \cup {s[2] : s \in StepsFrom(E, S, {})}

\* f counts the steps from S up to n, as Within does.
Reaches(E, S, n, f) ==
    f = [i \in 0..n |-> IF i = 0 THEN S ELSE f[i - 1] \cup {s[2] : s \in StepsFrom(E, f[i - 1], {})}]

LEMMA ReachesSteps ==
    ASSUME NEW E, NEW S, NEW n \in Nat, NEW f, Reaches(E, S, n, f)
    PROVE  /\ f[0] = S
           /\ \A i \in 0..n : i # 0 => f[i] = Spread(E, f[i - 1])
<1>1. \A i \in 0..n : f[i] = IF i = 0 THEN S ELSE f[i - 1] \cup {s[2] : s \in StepsFrom(E, f[i - 1], {})}
  BY DEF Reaches
<1>2. 0 \in 0..n
  OBVIOUS
<1> QED
  BY <1>1, <1>2 DEF Spread

LEMMA ReachesExists ==
    ASSUME NEW E, NEW S
    PROVE  \A n \in Nat : \E f : Reaches(E, S, n, f)
<1> DEFINE T == {n \in Nat : \E f : Reaches(E, S, n, f)}
<1>1. 0 \in T
  <2> DEFINE f == [i \in 0..0 |-> S]
  <2>1. Reaches(E, S, 0, f)
    BY DEF Reaches
  <2> QED
    BY <2>1
<1>2. ASSUME NEW n \in Nat, n \in T
      PROVE  n + 1 \in T
  <2>1. PICK f : Reaches(E, S, n, f)
    BY <1>2
  <2> DEFINE g == [i \in 0..(n + 1) |-> IF i = n + 1 THEN Spread(E, f[n]) ELSE f[i]]
  <2>2. f[0] = S /\ \A i \in 0..n : i # 0 => f[i] = Spread(E, f[i - 1])
    BY <2>1, ReachesSteps
  <2>3. ASSUME NEW i \in 0..(n + 1)
        PROVE  g[i] = IF i = 0 THEN S ELSE Spread(E, g[i - 1])
    <3>1. CASE i = 0
      BY <2>2, <3>1
    <3>2. CASE i # 0
      <4>1. i - 1 \in 0..(n + 1) /\ i - 1 # n + 1
        BY <3>2
      <4>2. g[i - 1] = f[i - 1]
        BY <4>1
      <4>3. CASE i = n + 1
        BY <4>2, <4>3
      <4>4. CASE i # n + 1
        BY <2>2, <3>2, <4>2, <4>4
      <4> QED
        BY <4>3, <4>4
    <3> QED
      BY <3>1, <3>2
  <2>4. g = [i \in 0..(n + 1) |-> g[i]]
    OBVIOUS
  <2> HIDE DEF g
  <2>5. Reaches(E, S, n + 1, g)
    BY <2>3, <2>4 DEF Reaches, Spread
  <2> QED
    BY <2>5
<1> HIDE DEF T
<1>3. Nat \subseteq T
  BY <1>1, <1>2, Naturals
<1> QED
  BY <1>3 DEF T

LEMMA ReachesUnique ==
    ASSUME NEW E, NEW S, NEW n \in Nat, NEW k \in Nat, NEW f, NEW g, Reaches(E, S, n, f), Reaches(E, S, k, g)
    PROVE  \A i \in Nat : i <= n /\ i <= k => f[i] = g[i]
<1> DEFINE T == {i \in Nat : i <= n /\ i <= k => f[i] = g[i]}
<1>a. f[0] = S /\ \A i \in 0..n : i # 0 => f[i] = Spread(E, f[i - 1])
  BY ReachesSteps
<1>b. g[0] = S /\ \A i \in 0..k : i # 0 => g[i] = Spread(E, g[i - 1])
  BY ReachesSteps
<1>1. 0 \in T
  BY <1>a, <1>b
<1>2. ASSUME NEW i \in Nat, i \in T
      PROVE  i + 1 \in T
  <2> SUFFICES ASSUME i + 1 <= n, i + 1 <= k PROVE f[i + 1] = g[i + 1]
    OBVIOUS
  <2>1. i + 1 \in 0..n /\ i + 1 \in 0..k /\ i + 1 # 0 /\ (i + 1) - 1 = i /\ i <= n /\ i <= k
    OBVIOUS
  <2>2. f[i] = g[i]
    BY <1>2, <2>1
  <2>3. f[i + 1] = Spread(E, f[i]) /\ g[i + 1] = Spread(E, g[i])
    BY <1>a, <1>b, <2>1
  <2> QED
    BY <2>2, <2>3
<1> HIDE DEF T
<1>3. Nat \subseteq T
  BY <1>1, <1>2, Naturals
<1> QED
  BY <1>3 DEF T

\* Within, step by step.
LEMMA WithinSteps ==
    ASSUME NEW E, NEW S
    PROVE  /\ Within(E, S, 0) = S
           /\ \A n \in Nat : Within(E, S, n + 1) = Spread(E, Within(E, S, n))
<1> DEFINE f(n) == CHOOSE f : Reaches(E, S, n, f)
<1>1. \A n \in Nat : Within(E, S, n) = f(n)[n]
  BY DEF Within, Reaches
<1>2. \A n \in Nat : Reaches(E, S, n, f(n))
  BY ReachesExists
<1> HIDE DEF f
<1>3. Within(E, S, 0) = S
  BY <1>1, <1>2, ReachesSteps
<1>4. ASSUME NEW n \in Nat
      PROVE  Within(E, S, n + 1) = Spread(E, Within(E, S, n))
  <2>1. n + 1 \in Nat /\ n + 1 \in 0..(n + 1) /\ n + 1 # 0 /\ (n + 1) - 1 = n /\ n <= n + 1 /\ n <= n
    OBVIOUS
  <2>2. f(n + 1)[n + 1] = Spread(E, f(n + 1)[n])
    BY <1>2, <2>1, ReachesSteps
  <2>3. f(n + 1)[n] = f(n)[n]
    BY <1>2, <2>1, ReachesUnique
  <2> QED
    BY <1>1, <2>1, <2>2, <2>3
<1> QED
  BY <1>3, <1>4

\* A set that contains S and that no step leaves contains all that is within any number of steps.
LEMMA WithinClosed ==
    ASSUME NEW E, NEW S, NEW D, S \subseteq D, Spread(E, D) \subseteq D
    PROVE  \A n \in Nat : Within(E, S, n) \subseteq D
<1> DEFINE T == {n \in Nat : Within(E, S, n) \subseteq D}
<1>1. 0 \in T
  BY WithinSteps
<1>2. ASSUME NEW n \in Nat, n \in T
      PROVE  n + 1 \in T
  <2>1. Spread(E, Within(E, S, n)) \subseteq Spread(E, D)
    BY <1>2 DEF Spread, StepsFrom
  <2>2. Within(E, S, n + 1) = Spread(E, Within(E, S, n))
    BY WithinSteps
  <2> QED
    BY <2>1, <2>2
<1> HIDE DEF T
<1>3. Nat \subseteq T
  BY <1>1, <1>2, Naturals
<1> QED
  BY <1>3 DEF T

\* More edges lead at least as far.
LEMMA WithinMoreEdges ==
    ASSUME NEW E, NEW F, E \subseteq F, NEW S
    PROVE  \A n \in Nat : Within(E, S, n) \subseteq Within(F, S, n)
<1> DEFINE T == {n \in Nat : Within(E, S, n) \subseteq Within(F, S, n)}
<1>1. 0 \in T
  BY WithinSteps
<1>2. ASSUME NEW n \in Nat, n \in T
      PROVE  n + 1 \in T
  <2>1. Spread(E, Within(E, S, n)) \subseteq Spread(F, Within(F, S, n))
    BY <1>2 DEF Spread, StepsFrom
  <2>2. Within(E, S, n + 1) = Spread(E, Within(E, S, n)) /\ Within(F, S, n + 1) = Spread(F, Within(F, S, n))
    BY WithinSteps
  <2> QED
    BY <2>1, <2>2
<1> HIDE DEF T
<1>3. Nat \subseteq T
  BY <1>1, <1>2, Naturals
<1> QED
  BY <1>3 DEF T

\* More steps lead at least as far.
LEMMA WithinGrows ==
    ASSUME NEW E, NEW S, NEW n \in Nat
    PROVE  Within(E, S, n) \subseteq Within(E, S, n + 1)
<1>1. Within(E, S, n + 1) = Spread(E, Within(E, S, n))
  BY WithinSteps
<1> QED
  BY <1>1 DEF Spread

-----------------------------------------------------------------------------
(* What an entity contributes.                                             *)

\* f is the iteration of step from base, n times.
Iterates(step, base, n, f) == f = [i \in 0..n |-> IF i = 0 THEN base ELSE step[f[i - 1]]]

LEMMA IteratesExists ==
    ASSUME NEW step, NEW base
    PROVE  \A n \in Nat : \E f : Iterates(step, base, n, f)
<1> DEFINE T == {n \in Nat : \E f : Iterates(step, base, n, f)}
<1>1. 0 \in T
  <2> DEFINE f == [i \in 0..0 |-> base]
  <2>1. Iterates(step, base, 0, f)
    BY DEF Iterates
  <2> QED
    BY <2>1
<1>2. ASSUME NEW n \in Nat, n \in T
      PROVE  n + 1 \in T
  <2>1. PICK f : Iterates(step, base, n, f)
    BY <1>2
  <2> DEFINE g == [i \in 0..(n + 1) |-> IF i = n + 1 THEN step[f[n]] ELSE f[i]]
  <2>2. f[0] = base /\ \A i \in 0..n : i # 0 => f[i] = step[f[i - 1]]
    BY <2>1 DEF Iterates
  <2>3. ASSUME NEW i \in 0..(n + 1)
        PROVE  g[i] = IF i = 0 THEN base ELSE step[g[i - 1]]
    <3>1. CASE i = 0
      BY <2>2, <3>1
    <3>2. CASE i # 0
      <4>1. i - 1 \in 0..(n + 1) /\ i - 1 # n + 1
        BY <3>2
      <4>2. g[i - 1] = f[i - 1]
        BY <4>1
      <4>3. CASE i = n + 1
        BY <4>2, <4>3
      <4>4. CASE i # n + 1
        BY <2>2, <3>2, <4>2, <4>4
      <4> QED
        BY <4>3, <4>4
    <3> QED
      BY <3>1, <3>2
  <2>4. g = [i \in 0..(n + 1) |-> g[i]]
    OBVIOUS
  <2> HIDE DEF g
  <2>5. Iterates(step, base, n + 1, g)
    BY <2>3, <2>4 DEF Iterates
  <2> QED
    BY <2>5
<1> HIDE DEF T
<1>3. Nat \subseteq T
  BY <1>1, <1>2, Naturals
<1> QED
  BY <1>3 DEF T

LEMMA IteratesUnique ==
    ASSUME NEW step, NEW base, NEW n \in Nat, NEW k \in Nat, NEW f, NEW g,
           Iterates(step, base, n, f), Iterates(step, base, k, g)
    PROVE  \A i \in Nat : i <= n /\ i <= k => f[i] = g[i]
<1> DEFINE T == {i \in Nat : i <= n /\ i <= k => f[i] = g[i]}
<1>1. f[0] = base /\ \A i \in 0..n : i # 0 => f[i] = step[f[i - 1]]
  BY DEF Iterates
<1>2. g[0] = base /\ \A i \in 0..k : i # 0 => g[i] = step[g[i - 1]]
  BY DEF Iterates
<1>3. 0 \in T
  BY <1>1, <1>2
<1>4. ASSUME NEW i \in Nat, i \in T
      PROVE  i + 1 \in T
  <2> SUFFICES ASSUME i + 1 <= n, i + 1 <= k PROVE f[i + 1] = g[i + 1]
    OBVIOUS
  <2>1. i + 1 \in 0..n /\ i + 1 \in 0..k /\ i + 1 # 0 /\ (i + 1) - 1 = i /\ i <= n /\ i <= k
    OBVIOUS
  <2>2. f[i] = g[i]
    BY <1>4, <2>1
  <2>3. f[i + 1] = step[f[i]] /\ g[i + 1] = step[g[i]]
    BY <1>1, <1>2, <2>1
  <2> QED
    BY <2>2, <2>3
<1> HIDE DEF T
<1>5. Nat \subseteq T
  BY <1>3, <1>4, Naturals
<1> QED
  BY <1>5 DEF T

\* f is the iteration of step from base, for ever.
Iteration(step, base, f) == f = [n \in Nat |-> IF n = 0 THEN base ELSE step[f[n - 1]]]

LEMMA IterationExists ==
    ASSUME NEW step, NEW base
    PROVE  \E f : Iteration(step, base, f)
<1> DEFINE upto(n) == CHOOSE f : Iterates(step, base, n, f)
           f == [n \in Nat |-> upto(n)[n]]
<1>1. \A n \in Nat : Iterates(step, base, n, upto(n))
  BY IteratesExists
<1> HIDE DEF upto
<1>2. ASSUME NEW n \in Nat
      PROVE  f[n] = IF n = 0 THEN base ELSE step[f[n - 1]]
  <2>1. upto(n)[0] = base /\ \A i \in 0..n : i # 0 => upto(n)[i] = step[upto(n)[i - 1]]
    BY <1>1 DEF Iterates
  <2>2. CASE n = 0
    BY <2>1, <2>2
  <2>3. CASE n # 0
    <3>1. n - 1 \in Nat /\ n - 1 <= n /\ n \in 0..n
      BY <2>3
    <3>2. upto(n)[n - 1] = upto(n - 1)[n - 1]
      BY <1>1, <3>1, IteratesUnique
    <3> QED
      BY <2>1, <2>3, <3>1, <3>2
  <2> QED
    BY <2>2, <2>3
<1>3. f = [n \in Nat |-> f[n]]
  OBVIOUS
<1> HIDE DEF f
<1>4. Iteration(step, base, f)
  BY <1>2, <1>3 DEF Iteration
<1> QED
  BY <1>4

LEMMA DecayedSteps ==
    /\ Decayed[0] = Unit
    /\ \A n \in Nat : Decayed[n + 1] = Decayed[n] \div 2
    /\ \A n \in Nat : Decayed[n] \in Nat
<1> DEFINE half == [k \in Nat |-> k \div 2]
<1> HIDE DEF half
<1>1. PICK f : Iteration(half, Unit, f)
  BY IterationExists
<1>2. Unit \in Nat
  BY NumberAssumption
<1>3. \A k \in Nat : half[k] = k \div 2 /\ half[k] \in Nat
  BY DEF half
<1>4. \A n \in Nat : f[n] = IF n = 0 THEN Unit ELSE half[f[n - 1]]
  BY <1>1 DEF Iteration
<1>5. \A n \in Nat : f[n] \in Nat
  <2> DEFINE T == {n \in Nat : f[n] \in Nat}
  <2>1. 0 \in T
    BY <1>2, <1>4
  <2>2. ASSUME NEW n \in Nat, n \in T
        PROVE  n + 1 \in T
    <3>1. f[n + 1] = half[f[n]]
      BY <1>4
    <3> QED
      BY <1>3, <2>2, <3>1
  <2> HIDE DEF T
  <2>3. Nat \subseteq T
    BY <2>1, <2>2, Naturals
  <2> QED
    BY <2>3 DEF T
<1>6. f = [n \in Nat |-> IF n = 0 THEN Unit ELSE f[n - 1] \div 2]
  <2>1. \A n \in Nat : n # 0 => half[f[n - 1]] = f[n - 1] \div 2
    BY <1>3, <1>5
  <2> QED
    BY <1>1, <2>1 DEF Iteration
<1>7. Decayed = [n \in Nat |-> IF n = 0 THEN Unit ELSE Decayed[n - 1] \div 2]
  BY <1>6 DEF Decayed
<1>8. \A n \in Nat : Decayed[n] = IF n = 0 THEN Unit ELSE Decayed[n - 1] \div 2
  BY <1>7
<1>9. Decayed[0] = Unit /\ \A n \in Nat : Decayed[n + 1] = Decayed[n] \div 2
  BY <1>8
<1>10. \A n \in Nat : Decayed[n] \in Nat
  <2> DEFINE T == {n \in Nat : Decayed[n] \in Nat}
  <2>1. 0 \in T
    BY <1>2, <1>9
  <2>2. ASSUME NEW n \in Nat, n \in T
        PROVE  n + 1 \in T
    BY <1>9, <2>2
  <2> HIDE DEF T
  <2>3. Nat \subseteq T
    BY <2>1, <2>2, Naturals
  <2> QED
    BY <2>3 DEF T
<1> QED
  BY <1>9, <1>10

\* An entity counts less the further it is.
LEMMA ShareDecreases ==
    /\ \A n \in Nat : Share(n) \in Nat
    /\ \A n, k \in Nat : n <= k => Share(k) <= Share(n)
<1>1. \A n \in Nat : Share(n) \in Nat
  <2>1. \A x \in Nat, d \in Nat \ {0} : x \div d \in Nat
    OBVIOUS
  <2>2. \A n \in Nat : n + 1 \in Nat \ {0}
    OBVIOUS
  <2> QED
    BY <2>1, <2>2, DecayedSteps DEF Share
<1>2. ASSUME NEW n \in Nat
      PROVE  Share(n + 1) <= Share(n)
  <2>1. Decayed[n] \in Nat /\ Decayed[n + 1] = Decayed[n] \div 2 /\ Decayed[n + 1] \in Nat
    BY DecayedSteps
  <2>2. Decayed[n + 1] <= Decayed[n]
    BY <2>1
  <2>3. \A x, y \in Nat, d, e \in Nat \ {0} : x <= y /\ e <= d => x \div d <= y \div e
    <3>1. \A x, y \in Nat, e \in Nat \ {0} : x <= y => x \div e <= y \div e
      OBVIOUS
    <3>2. \A x \in Nat, d, e \in Nat \ {0} : e <= d => x \div d <= x \div e
      OBVIOUS
    <3>3. \A x \in Nat, d \in Nat \ {0} : x \div d \in Nat
      OBVIOUS
    <3> SUFFICES ASSUME NEW x \in Nat, NEW y \in Nat, NEW d \in Nat \ {0}, NEW e \in Nat \ {0}, x <= y, e <= d
                 PROVE  x \div d <= y \div e
      OBVIOUS
    <3>4. x \div d <= x \div e /\ x \div e <= y \div e /\ x \div d \in Nat /\ x \div e \in Nat /\ y \div e \in Nat
      BY <3>1, <3>2, <3>3
    <3> QED
      BY <3>4
  <2>4. n + 1 \in Nat \ {0} /\ (n + 1) + 1 \in Nat \ {0} /\ n + 1 <= (n + 1) + 1
    OBVIOUS
  <2> QED
    BY <2>1, <2>2, <2>3, <2>4 DEF Share
<1>3. ASSUME NEW n \in Nat
      PROVE  \A k \in Nat : n <= k => Share(k) <= Share(n)
  <2> DEFINE T == {k \in Nat : n <= k => Share(k) <= Share(n)}
  <2>1. 0 \in T
    BY <1>1
  <2>2. ASSUME NEW k \in Nat, k \in T
        PROVE  k + 1 \in T
    BY <1>1, <1>2, <2>2
  <2> HIDE DEF T
  <2>3. Nat \subseteq T
    BY <2>1, <2>2, Naturals
  <2> QED
    BY <2>3 DEF T
<1> QED
  BY <1>1, <1>3

-----------------------------------------------------------------------------
(* Types.                                                                  *)

\* The strengthening that makes the types inductive: a path under way has its
\* ends, and its histories enclose the edges that are there.
PathSound ==
    path.at # "idle" =>
        /\ path.source \in Entities /\ path.target \in Entities
        /\ path.kept \subseteq edges /\ edges \subseteq path.ever

LEMMA NoPathType == NoPath \in PathStates /\ NoPath.frontier \subseteq Reached(NoPath) /\ Untrodden \in [Entities -> Seq(Entities)]
<1>1. Untrodden \in [Entities -> Seq(Entities)] /\ <<>> \in Seq(Entities)
  BY DEF Untrodden
<1> QED
  BY <1>1 DEF NoPath, PathStates

LEMMA NoWalkType == NoWalk \in WalkStates
BY DEF NoWalk, WalkStates

LEMMA InitTypeOK == InitSearch => TypeOKSearch
<1> SUFFICES ASSUME InitSearch PROVE TypeOKSearch
  OBVIOUS
<1>1. edges \subseteq Possible /\ mentions \subseteq Mentioned
  BY DEF InitSearch
<1>2. \A e \in Possible : Ends(e) \subseteq Entities
  BY EdgeAssumption DEF Ends
<1>3. known \subseteq Entities /\ (\A e \in edges : Ends(e) \subseteq known) /\ \A x \in mentions : x[2] \in known
  <2> DEFINE ends == UNION {Ends(e) : e \in edges}
             named == {x[2] : x \in mentions}
  <2>1. known = ends \cup named
    BY DEF InitSearch
  <2>a. \A n : n \in ends <=> \E e \in edges : n \in Ends(e)
    BY Zenon
  <2>b. \A n : n \in named <=> \E x \in mentions : n = x[2]
    BY Zenon
  <2> HIDE DEF ends, named
  <2>2. \A n \in known : (\E e \in edges : n \in Ends(e)) \/ \E x \in mentions : n = x[2]
    BY <2>1, <2>a, <2>b
  <2>3. \A x \in mentions : x[2] \in Entities
    BY <1>1, EdgeAssumption
  <2>4. (\A e \in edges : Ends(e) \subseteq known) /\ \A x \in mentions : x[2] \in known
    BY <2>1, <2>a, <2>b
  <2> QED
    BY <1>1, <1>2, <2>2, <2>3, <2>4
<1>4. changes \in 0..MaxChanges
  BY NumberAssumption DEF InitSearch
<1> QED
  BY <1>1, <1>3, <1>4, NoPathType, NoWalkType DEF InitSearch, TypeOKSearch

\* The histories of a search follow the changes of the graph.
LEMMA ChangeType ==
    ASSUME TypeOKSearch, NEW E \in SUBSET Possible, Change(E)
    PROVE  /\ edges' = E /\ changes' \in 0..MaxChanges
           /\ path' \in PathStates /\ path'.frontier \subseteq Reached(path')
           /\ walk' \in WalkStates
<1>1. changes' \in 0..MaxChanges /\ edges' = E
  BY NumberAssumption DEF Change, TypeOKSearch
<1>2. /\ path' \in PathStates /\ path'.frontier = path.frontier /\ path'.trail = path.trail
  BY DEF Change, Seen, Searching, TypeOKSearch, PathStates
<1>3. walk' \in WalkStates
  BY DEF Change, Seen, Searching, TypeOKSearch, WalkStates
<1> QED
  BY <1>1, <1>2, <1>3 DEF Reached, TypeOKSearch

LEMMA WritesType ==
    ASSUME TypeOKSearch,
           (\E x \in Mentioned : Mention(x[1], x[2])) \/ (\E e \in Possible : Relate(e)) \/ RebuildGraph
    PROVE  TypeOKSearch'
<1>1. CASE \E x \in Mentioned : Mention(x[1], x[2])
  <2>1. PICK x \in Mentioned : Mention(x[1], x[2])
    BY <1>1
  <2>2. x = <<x[1], x[2]>> /\ x[2] \in Entities
    BY EdgeAssumption
  <2>3. Change(edges) /\ edges \in SUBSET Possible
    BY <2>1 DEF Mention, TypeOKSearch
  <2>4. known' = known \cup {x[2]} /\ mentions' = mentions \cup {x} /\ edges' = edges
    BY <2>1, <2>2, <2>3, ChangeType DEF Mention
  <2>5. (\A y \in mentions' : y[2] \in known') /\ known' \subseteq Entities /\ mentions' \subseteq Mentioned
    BY <2>2, <2>4 DEF TypeOKSearch
  <2> QED
    BY <2>3, <2>4, <2>5, ChangeType DEF TypeOKSearch
<1>2. ASSUME NEW e \in Possible, Relate(e)
      PROVE  TypeOKSearch'
  <2>1. Change(edges \cup {e}) /\ edges \cup {e} \in SUBSET Possible
    BY <1>2 DEF Relate, TypeOKSearch
  <2> QED
    BY <1>2, <2>1, ChangeType DEF Relate, TypeOKSearch
<1>3. CASE RebuildGraph
  <2>1. PICK related \in SUBSET {e \in Possible : Ends(e) \subseteq known} : Change((edges \cap Typed) \cup related)
    BY <1>3 DEF RebuildGraph
  <2>2. (edges \cap Typed) \cup related \in SUBSET Possible
    BY DEF TypeOKSearch
  <2> QED
    BY <1>3, <2>1, <2>2, ChangeType DEF RebuildGraph, TypeOKSearch
<1> QED
  BY <1>1, <1>2, <1>3

\* What a step of FindPath leaves.
LEMMA ContinueType ==
    ASSUME TypeOKSearch, NEW p, Continue(p), p \in PathStates, p.frontier \subseteq Reached(p)
    PROVE  TypeOKSearch'
BY DEF Continue, TypeOKSearch

\* What a step that may miss rows leaves.
LEMMA RowsMissedType ==
    ASSUME TypeOKSearch, NEW lost, RowsMissed(lost)
    PROVE  changes' \in 0..MaxChanges /\ UNCHANGED <<edges, mentions, known>>
BY NumberAssumption DEF RowsMissed, TypeOKSearch

LEMMA FindPathType ==
    ASSUME TypeOKSearch, NEW s \in Entities, NEW t \in Entities, NEW depth \in Depths, FindPath(s, t, depth)
    PROVE  TypeOKSearch'
<1>1. OrDefault(depth, DefaultDepth) \in Nat
  BY NumberAssumption DEF OrDefault
<1>2. path' \in PathStates /\ path'.frontier = {}
  BY <1>1, NoPathType DEF FindPath, NoPath, PathStates, TypeOKSearch
<1> QED
  BY <1>2 DEF FindPath, TypeOKSearch

LEMMA ResolveType ==
    ASSUME TypeOKSearch, PathSound,
           ResolveSource \/ ResolveTarget \/ ResolveFails \/ NoneFound \/ ExpandFails \/ AnswerPath
    PROVE  TypeOKSearch'
<1>1. Found(path, <<>>) \in PathStates /\ Found(path, <<>>).frontier \subseteq Reached(Found(path, <<>>))
  BY NoPathType, <<>> \in Seq(Entities) DEF TypeOKSearch, PathStates, Found
<1>2. CASE ResolveSource
  <2>1. [path EXCEPT !.at = "target"] \in PathStates /\ [path EXCEPT !.at = "target"].frontier \subseteq Reached([path EXCEPT !.at = "target"])
    BY DEF TypeOKSearch, PathStates, Reached
  <2> QED
    BY <1>1, <1>2, <2>1, ContinueType DEF ResolveSource
<1>3. CASE ResolveTarget
  <2> DEFINE p == [path EXCEPT !.at = "hops", !.frontier = {path.source},
                               !.trail = [Untrodden EXCEPT ![path.source] = <<path.source>>]]
  <2>a. path.source \in Entities
    BY <1>3 DEF PathSound, ResolveTarget
  <2>1. CASE path.target \in known \ {path.source}
    <3>1. <<path.source>> \in Seq(Entities) /\ <<path.source>> # <<>>
      BY <2>a
    <3>2. p.trail \in [Entities -> Seq(Entities)] /\ p.trail[path.source] = <<path.source>>
      BY <2>a, <3>1, NoPathType DEF TypeOKSearch, PathStates
    <3>3. p \in PathStates /\ p.frontier \subseteq Reached(p)
      BY <2>a, <3>1, <3>2 DEF TypeOKSearch, PathStates, Reached
    <3> QED
      BY <1>3, <2>1, <3>3, ContinueType DEF ResolveTarget
  <2> QED
    BY <1>1, <1>3, <2>1, ContinueType DEF ResolveTarget
<1>4. CASE NoneFound
  BY <1>1, <1>4, ContinueType DEF NoneFound
<1>5. CASE ExpandFails \/ AnswerPath
  BY <1>5, NoPathType, ContinueType DEF ExpandFails, AnswerPath
<1>6. CASE ResolveFails
  <2> DEFINE p == Found([path EXCEPT !.kept = {}], <<>>)
  <2>1. p \in PathStates /\ p.frontier \subseteq Reached(p)
    BY NoPathType, <<>> \in Seq(Entities) DEF TypeOKSearch, PathStates, Found
  <2>2. Continue(p)
    BY <1>6 DEF ResolveFails
  <2> QED
    BY <2>1, <2>2, ContinueType
<1> QED
  BY <1>2, <1>3, <1>4, <1>5, <1>6

\* E joins a and b, in one direction or the other.
Joined(E, a, b) == <<a, b>> \in E \/ <<b, a>> \in E

LEMMA StepsJoin ==
    ASSUME NEW E, NEW S, NEW seen
    PROVE  /\ \A s \in StepsFrom(E, S, seen) :
                 s = <<s[1], s[2]>> /\ s[1] \in S /\ s[2] \in Entities \ seen /\ Joined(E, s[1], s[2])
           /\ \A a \in S, b \in Entities \ seen : Joined(E, a, b) => <<a, b>> \in StepsFrom(E, S, seen)
<1>1. \A s \in S \X (Entities \ seen) : s = <<s[1], s[2]>> /\ s[1] \in S /\ s[2] \in Entities \ seen
  OBVIOUS
<1>2. \A s \in StepsFrom(E, S, seen) : s \in S \X (Entities \ seen) /\ (s \in E \/ <<s[2], s[1]>> \in E)
  BY DEF StepsFrom
<1>3. ASSUME NEW s \in StepsFrom(E, S, seen)
      PROVE  s = <<s[1], s[2]>> /\ s[1] \in S /\ s[2] \in Entities \ seen /\ Joined(E, s[1], s[2])
  BY <1>1, <1>2 DEF Joined
<1>4. ASSUME NEW a \in S, NEW b \in Entities \ seen, Joined(E, a, b)
      PROVE  <<a, b>> \in StepsFrom(E, S, seen)
  BY <1>4 DEF StepsFrom, Joined
<1> QED
  BY <1>3, <1>4

\* The entities new are reached from the frontier along E, each from the entity it has in from.
Extends(E, new, from) ==
    /\ new \subseteq Entities \ Reached(path)
    /\ from \in [new -> path.frontier]
    /\ \A e \in new : Joined(E, from[e], e)
    /\ \A a \in path.frontier, e \in Entities \ Reached(path) : Joined(E, a, e) => e \in new

Trailing(new, from) ==
    [e \in Entities |-> IF e \in new THEN Append(path.trail[from[e]], e) ELSE path.trail[e]]

\* The search, a depth further on.
Deeper(lost, new, from) ==
  LET p == [path EXCEPT !.hop = @ + 1, !.kept = @ \ lost]
  IN  IF path.target \in new
      THEN Found(p, Trailing(new, from)[path.target])
      ELSE [p EXCEPT !.frontier = new, !.trail = Trailing(new, from)]

\* One depth of a search, in these words.
LEMMA ExpandSteps ==
    ASSUME NEW lost, Expand(lost)
    PROVE  \E new, from : Extends(edges \ lost, new, from) /\ path' = Deeper(lost, new, from)
<1> DEFINE rows == edges \ lost
           steps == StepsFrom(rows, path.frontier, Reached(path))
           new == {s[2] : s \in steps}
<1>1. PICK from \in {f \in [new -> path.frontier] : \A e \in new : <<f[e], e>> \in steps} : path' = Deeper(lost, new, from)
  BY DEF Expand, Trailing, Deeper
<1>2. \A e : e \in new <=> \E s \in steps : e = s[2]
  BY Zenon
<1> HIDE DEF rows
<1>3. /\ \A s \in steps : s[1] \in path.frontier /\ s[2] \in Entities \ Reached(path) /\ Joined(rows, s[1], s[2])
      /\ \A a \in path.frontier, b \in Entities \ Reached(path) : Joined(rows, a, b) => <<a, b>> \in steps
  BY StepsJoin
<1> HIDE DEF new, steps
<1>4. new \subseteq Entities \ Reached(path)
  BY <1>2, <1>3
<1>5. from \in [new -> path.frontier] /\ \A e \in new : <<from[e], e>> \in steps
  BY <1>1
<1>6. ASSUME NEW e \in new
      PROVE  Joined(rows, from[e], e)
  <2>1. <<from[e], e>>[1] = from[e] /\ <<from[e], e>>[2] = e
    OBVIOUS
  <2> QED
    BY <1>3, <1>5, <2>1
<1>7. ASSUME NEW a \in path.frontier, NEW e \in Entities \ Reached(path), Joined(rows, a, e)
      PROVE  e \in new
  <2>1. <<a, e>> \in steps /\ <<a, e>>[2] = e
    BY <1>3, <1>7
  <2> QED
    BY <1>2, <2>1
<1>8. Extends(rows, new, from)
  BY <1>4, <1>5, <1>6, <1>7 DEF Extends
<1>9. Extends(edges \ lost, new, from)
  BY <1>8 DEF rows
<1> QED
  BY <1>1, <1>9

LEMMA TrailingType ==
    ASSUME TypeOKSearch, NEW E, NEW new, NEW from, Extends(E, new, from)
    PROVE  /\ Trailing(new, from) \in [Entities -> Seq(Entities)]
           /\ \A e \in new : Trailing(new, from)[e] # <<>>
           /\ \A e \in Entities \ new : Trailing(new, from)[e] = path.trail[e]
<1>1. path.trail \in [Entities -> Seq(Entities)] /\ path.frontier \subseteq Entities
  BY DEF TypeOKSearch, PathStates
<1>2. ASSUME NEW e \in new
      PROVE  /\ Trailing(new, from)[e] = Append(path.trail[from[e]], e)
             /\ Append(path.trail[from[e]], e) \in Seq(Entities) /\ Append(path.trail[from[e]], e) # <<>>
  <2>1. e \in Entities /\ from[e] \in Entities
    BY <1>1 DEF Extends
  <2>2. path.trail[from[e]] \in Seq(Entities)
    BY <1>1, <2>1
  <2> QED
    BY <2>1, <2>2 DEF Trailing
<1>3. \A e \in Entities \ new : Trailing(new, from)[e] = path.trail[e]
  BY DEF Trailing
<1>4. Trailing(new, from) \in [Entities -> Seq(Entities)]
  BY <1>1, <1>2, <1>3 DEF Trailing
<1> QED
  BY <1>2, <1>3, <1>4

LEMMA ExpandType ==
    ASSUME TypeOKSearch, PathSound, NEW lost, Expand(lost)
    PROVE  TypeOKSearch'
<1>1. PICK new, from : Extends(edges \ lost, new, from) /\ path' = Deeper(lost, new, from)
  BY ExpandSteps
<1>2. /\ Trailing(new, from) \in [Entities -> Seq(Entities)]
      /\ \A e \in new : Trailing(new, from)[e] # <<>>
      /\ new \subseteq Entities
  <2>1. new \subseteq Entities
    BY <1>1 DEF Extends
  <2> QED
    BY <1>1, <2>1, TrailingType
<1>3. path.target \in Entities
  BY DEF PathSound, Expand
<1> DEFINE q == [path EXCEPT !.hop = path.hop + 1, !.kept = path.kept \ lost]
<1>4. q \in PathStates
  <2>1. path \in PathStates /\ path.hop + 1 \in Nat /\ path.kept \ lost \in SUBSET Possible
    BY DEF TypeOKSearch, PathStates
  <2>2. \A v \in PathStates, n \in Nat, K \in SUBSET Possible : [v EXCEPT !.hop = n, !.kept = K] \in PathStates
    BY DEF PathStates
  <2> QED
    BY <2>1, <2>2
<1>5. path' \in PathStates /\ path'.frontier \subseteq Reached(path')
  <2>1. CASE path.target \in new
    <3>1. Trailing(new, from)[path.target] \in Seq(Entities)
      BY <1>2, <1>3
    <3>2. path' = Found(q, Trailing(new, from)[path.target])
      BY <1>1, <2>1 DEF Deeper
    <3> HIDE DEF q
    <3> QED
      BY <1>4, <3>1, <3>2, NoPathType DEF PathStates, Found
  <2>2. CASE path.target \notin new
    <3>1. path' = [q EXCEPT !.frontier = new, !.trail = Trailing(new, from)]
      BY <1>1, <2>2 DEF Deeper
    <3> HIDE DEF q
    <3>2. path' \in PathStates /\ path'.frontier = new /\ path'.trail = Trailing(new, from)
      BY <1>2, <1>4, <3>1 DEF PathStates
    <3> QED
      BY <1>2, <3>2 DEF Reached
  <2> QED
    BY <2>1, <2>2
<1>6. changes' \in 0..MaxChanges /\ UNCHANGED <<edges, mentions, known, walk>>
  BY RowsMissedType DEF Expand
<1> QED
  BY <1>5, <1>6 DEF TypeOKSearch

\* What a step of Traverse leaves.
LEMMA ProceedType ==
    ASSUME TypeOKSearch, NEW w, Proceed(w), w \in WalkStates
    PROVE  TypeOKSearch'
BY DEF Proceed, TypeOKSearch, Reached

LEMMA WalkType ==
    ASSUME TypeOKSearch,
           \/ \E seeds \in SUBSET Entities, depth \in Depths, limit \in Limits : Traverse(seeds, depth, limit)
           \/ \E d \in walk.todo : ReadMemories(d) \/ ReadFails(d)
           \/ (\E lost \in SUBSET edges : ReadEdges(lost)) \/ EdgesFail \/ Rank \/ AnswerWalk
    PROVE  TypeOKSearch'
<1>1. ASSUME NEW seeds \in SUBSET Entities, NEW depth \in Depths, NEW limit \in Limits, Traverse(seeds, depth, limit)
      PROVE  TypeOKSearch'
  <2>1. OrDefault(depth, DefaultDepth) \in Nat /\ OrDefault(limit, DefaultLimit) \in Nat
    BY NumberAssumption DEF OrDefault
  <2>2. {<<e, e>> : e \in seeds} \in SUBSET (Entities \X Entities)
    OBVIOUS
  <2>3. edges \in SUBSET Possible /\ mentions \in SUBSET Mentioned
    BY DEF TypeOKSearch
  <2>4. walk' \in WalkStates
    BY <1>1, <2>1, <2>2, <2>3, NoWalkType DEF Traverse, WalkStates
  <2> QED
    BY <1>1, <2>4 DEF Traverse, TypeOKSearch, Reached
<1>2. ASSUME NEW d \in walk.todo
      PROVE  d[2] \in Entities /\ Once(walk.todo, d) \in SUBSET (Entities \X Entities)
  BY DEF TypeOKSearch, WalkStates, Once
<1>3. ASSUME NEW d \in walk.todo, ReadMemories(d)
      PROVE  TypeOKSearch'
  <2> DEFINE mine == {m \in Notes : <<m, d[2]>> \in mentions}
             tally == [m \in Notes |-> IF m \in mine THEN walk.score[m] + Share(walk.hop) ELSE walk.score[m]]
             w == [walk EXCEPT !.todo = Once(walk.todo, d), !.visited = walk.visited \cup {d[2]}, !.score = tally]
  <2>1. walk \in WalkStates /\ walk.hop \in Nat /\ walk.score \in [Notes -> Nat]
    BY DEF TypeOKSearch, WalkStates
  <2>2. tally \in [Notes -> Nat]
    BY <2>1, ShareDecreases
  <2>3. Proceed(w)
    BY <1>3 DEF ReadMemories
  <2> HIDE DEF tally
  <2>4. w \in WalkStates
    BY <1>2, <2>1, <2>2 DEF WalkStates
  <2> QED
    BY <2>3, <2>4, ProceedType
<1>4. ASSUME NEW d \in walk.todo, ReadFails(d)
      PROVE  TypeOKSearch'
  <2>1. PICK some \in SUBSET {m \in Notes : <<m, d[2]>> \in mentions} :
           Proceed([walk EXCEPT !.todo = Once(@, d), !.visited = @ \cup {d[2]}, !.skipped = @ \cup {d[2]},
                                !.score = [m \in Notes |-> IF m \in some THEN @[m] + Share(walk.hop) ELSE @[m]]])
    BY <1>4 DEF ReadFails
  <2> DEFINE tally == [m \in Notes |-> IF m \in some THEN walk.score[m] + Share(walk.hop) ELSE walk.score[m]]
             w == [walk EXCEPT !.todo = Once(walk.todo, d), !.visited = walk.visited \cup {d[2]},
                               !.skipped = walk.skipped \cup {d[2]}, !.score = tally]
  <2>2. walk \in WalkStates /\ walk.hop \in Nat /\ walk.score \in [Notes -> Nat]
    BY DEF TypeOKSearch, WalkStates
  <2>3. tally \in [Notes -> Nat]
    BY <2>2, ShareDecreases
  <2>4. Proceed(w)
    BY <2>1
  <2> HIDE DEF tally
  <2>5. w \in WalkStates
    BY <1>2, <2>2, <2>3 DEF WalkStates
  <2> QED
    BY <2>4, <2>5, ProceedType
<1>5. ASSUME NEW lost, ReadEdges(lost)
      PROVE  TypeOKSearch'
  <2> DEFINE steps == StepsFrom(edges \ lost, walk.frontier, walk.visited)
             reached == {s[2] : s \in steps}
             w == [walk EXCEPT !.hop = walk.hop + 1, !.frontier = reached, !.todo = steps, !.kept = walk.kept \ lost]
  <2>1. walk \in WalkStates /\ walk.frontier \subseteq Entities
    BY DEF TypeOKSearch, WalkStates
  <2>2. steps \in SUBSET (Entities \X Entities)
    BY <2>1 DEF StepsFrom
  <2>3. reached \subseteq Entities
    <3>1. \A s \in Entities \X Entities : s[2] \in Entities
      OBVIOUS
    <3> HIDE DEF steps
    <3> QED
      BY <2>2, <3>1
  <2>4. walk' = w /\ UNCHANGED path
    BY <1>5 DEF ReadEdges
  <2> HIDE DEF steps, reached
  <2>5. w \in WalkStates
    <3>1. walk.hop + 1 \in Nat /\ reached \in SUBSET Entities /\ walk.kept \ lost \in SUBSET Possible
      BY <2>1, <2>3 DEF WalkStates
    <3>2. \A v \in WalkStates, n \in Nat, F \in SUBSET Entities, D \in SUBSET (Entities \X Entities), K \in SUBSET Possible :
             [v EXCEPT !.hop = n, !.frontier = F, !.todo = D, !.kept = K] \in WalkStates
      BY DEF WalkStates
    <3> QED
      BY <2>1, <2>2, <3>1, <3>2
  <2> HIDE DEF w
  <2>6. changes' \in 0..MaxChanges /\ UNCHANGED <<edges, mentions, known>>
    BY <1>5, RowsMissedType DEF ReadEdges
  <2> QED
    BY <2>4, <2>5, <2>6 DEF TypeOKSearch, Reached
<1>6. CASE EdgesFail \/ AnswerWalk
  BY <1>6, NoWalkType, ProceedType DEF EdgesFail, AnswerWalk
<1>7. CASE Rank
  <2>1. [walk EXCEPT !.at = "answer"] \in WalkStates
    BY DEF TypeOKSearch, WalkStates
  <2> QED
    BY <1>7, <2>1, ProceedType DEF Rank
<1> QED
  BY <1>1, <1>3, <1>4, <1>5, <1>6, <1>7

\* What a step leaves of the path and the edges.
LEMMA PathSoundStep ==
    ASSUME TypeOKSearch, PathSound, [NextSearch]_graphVars
    PROVE  PathSound'
<1>1. ASSUME NEW E, Change(E)
      PROVE  PathSound'
  BY <1>1 DEF Change, Seen, Searching, PathSound, TypeOKSearch, PathStates
<1>2. CASE (\E x \in Mentioned : Mention(x[1], x[2])) \/ (\E e \in Possible : Relate(e)) \/ RebuildGraph
  BY <1>1, <1>2 DEF Mention, Relate, RebuildGraph
<1>3. ASSUME NEW s \in Entities, NEW t \in Entities, NEW depth \in Depths, FindPath(s, t, depth)
      PROVE  PathSound'
  BY <1>3 DEF FindPath, NoPath, PathSound
<1>4. CASE UNCHANGED <<edges, path>>
  BY <1>4 DEF PathSound
<1>5. CASE ResolveFails
  BY <1>5 DEF ResolveFails, Continue, PathSound, Found, TypeOKSearch, PathStates
<1>6. CASE ResolveSource \/ NoneFound \/ ExpandFails \/ AnswerPath
  <2>1. Found(path, <<>>).source = path.source /\ Found(path, <<>>).target = path.target
        /\ Found(path, <<>>).kept = path.kept /\ Found(path, <<>>).ever = path.ever
    BY DEF Found, TypeOKSearch, PathStates
  <2> QED
    <3>1. CASE ResolveSource \/ NoneFound
      <4>1. path.at # "idle" /\ edges' = edges
        BY <3>1 DEF ResolveSource, NoneFound, Continue
      <4>2. path' = [path EXCEPT !.at = "target"] \/ path' = Found(path, <<>>)
        BY <3>1 DEF ResolveSource, NoneFound, Continue
      <4>3. path'.source = path.source /\ path'.target = path.target /\ path'.kept = path.kept /\ path'.ever = path.ever
        BY <2>1, <4>2 DEF TypeOKSearch, PathStates
      <4> QED
        BY <4>1, <4>3 DEF PathSound
    <3>2. CASE ExpandFails \/ AnswerPath
      BY <3>2 DEF ExpandFails, AnswerPath, Continue, PathSound, NoPath
    <3> QED
      BY <1>6, <3>1, <3>2
<1>7. CASE ResolveTarget
  BY <1>7 DEF ResolveTarget, Continue, PathSound, Found, TypeOKSearch, PathStates
<1>8. ASSUME NEW lost, Expand(lost)
      PROVE  PathSound'
  <2>1. PICK new, from : Extends(edges \ lost, new, from) /\ path' = Deeper(lost, new, from)
    BY <1>8, ExpandSteps
  <2>2. /\ path'.source = path.source /\ path'.target = path.target
        /\ path'.kept = path.kept \ lost /\ path'.ever = path.ever
    BY <2>1 DEF Deeper, Found, TypeOKSearch, PathStates
  <2>3. edges' = edges /\ path.at # "idle"
    BY <1>8 DEF Expand, RowsMissed
  <2> QED
    BY <2>2, <2>3 DEF PathSound
<1>9. CASE \/ \E seeds \in SUBSET Entities, depth \in Depths, limit \in Limits : Traverse(seeds, depth, limit)
           \/ \E d \in walk.todo : ReadMemories(d) \/ ReadFails(d)
           \/ (\E lost \in SUBSET edges : ReadEdges(lost)) \/ EdgesFail \/ Rank \/ AnswerWalk
  BY <1>4, <1>9 DEF Traverse, ReadMemories, ReadFails, ReadEdges, RowsMissed, EdgesFail, Rank, AnswerWalk, Proceed
<1> QED
  BY <1>2, <1>3, <1>4, <1>5, <1>6, <1>7, <1>8, <1>9 DEF NextSearch, graphVars

LEMMA TypeOKStep ==
    ASSUME TypeOKSearch, PathSound, [NextSearch]_graphVars
    PROVE  TypeOKSearch'
<1>1. CASE UNCHANGED graphVars
  BY <1>1 DEF graphVars, TypeOKSearch, Reached
<1> QED
  BY <1>1, WritesType, FindPathType, ResolveType, ExpandType, WalkType DEF NextSearch

\* The rows and the two searches always have their types, and an edge or a mention
\* only ever leads to a node that is stored, whatever is written between the
\* SELECTs of a search and whichever of them fail (path.go:51-138, traverse.go:75-185).
THEOREM SearchTypeCorrect == SpecSearch => []TypeOKSearch
<1>1. InitSearch => TypeOKSearch /\ PathSound
  BY InitTypeOK DEF InitSearch, PathSound, NoPath
<1>2. TypeOKSearch /\ PathSound /\ [NextSearch]_graphVars => TypeOKSearch' /\ PathSound'
  BY TypeOKStep, PathSoundStep
<1> QED
  BY <1>1, <1>2, PTL DEF SpecSearch

-----------------------------------------------------------------------------
(* Paths are shortest.                                                     *)

\* More steps lead at least as far.
LEMMA WithinMonotone ==
    ASSUME NEW E, NEW S, NEW n \in Nat
    PROVE  \A k \in Nat : n <= k => Within(E, S, n) \subseteq Within(E, S, k)
<1> DEFINE T == {k \in Nat : n <= k => Within(E, S, n) \subseteq Within(E, S, k)}
<1>1. 0 \in T
  BY WithinSteps
<1>2. ASSUME NEW k \in Nat, k \in T
      PROVE  k + 1 \in T
  <2>1. Within(E, S, k) \subseteq Within(E, S, k + 1)
    BY WithinGrows
  <2>2. CASE n <= k
    BY <1>2, <2>1, <2>2
  <2>3. CASE ~(n <= k)
    <3>1. n <= k + 1 => n = k + 1
      BY <2>3
    <3> QED
      BY <3>1
  <2> QED
    BY <2>2, <2>3
<1> HIDE DEF T
<1>3. Nat \subseteq T
  BY <1>1, <1>2, Naturals
<1> QED
  BY <1>3 DEF T

LEMMA SpreadJoined ==
    ASSUME NEW E, NEW S, NEW b
    PROVE  b \in Spread(E, S) <=> b \in S \/ (b \in Entities /\ \E a \in S : Joined(E, a, b))
<1>1. /\ \A s \in StepsFrom(E, S, {}) :
            s = <<s[1], s[2]>> /\ s[1] \in S /\ s[2] \in Entities \ {} /\ Joined(E, s[1], s[2])
      /\ \A x \in S, y \in Entities \ {} : Joined(E, x, y) => <<x, y>> \in StepsFrom(E, S, {})
  BY StepsJoin
<1>2. b \in Spread(E, S) <=> b \in S \/ \E s \in StepsFrom(E, S, {}) : b = s[2]
  BY Zenon DEF Spread
<1>3. ASSUME NEW a \in S, b \in Entities, Joined(E, a, b)
      PROVE  \E s \in StepsFrom(E, S, {}) : b = s[2]
  <2>1. <<a, b>> \in StepsFrom(E, S, {}) /\ <<a, b>>[2] = b
    BY <1>1, <1>3
  <2> QED
    BY <2>1
<1>4. ASSUME NEW s \in StepsFrom(E, S, {}), b = s[2]
      PROVE  b \in Entities /\ \E a \in S : Joined(E, a, b)
  BY <1>1, <1>4
<1> QED
  BY <1>2, <1>3, <1>4

\* p leads from the source to e over edges of E, without a repetition.
Route(p, source, e, E) ==
    /\ p \in Seq(Entities) /\ Len(p) >= 1 /\ p[1] = source /\ p[Len(p)] = e
    /\ \A i, j \in 1..Len(p) : p[i] = p[j] => i = j
    /\ \A i \in 1..(Len(p) - 1) : Joined(E, p[i], p[i + 1])

LEMMA RouteGoesOn ==
    ASSUME NEW p, NEW source, NEW a, NEW E, Route(p, source, a, E),
           NEW e \in Entities, \A i \in 1..Len(p) : p[i] # e, Joined(E, a, e)
    PROVE  /\ Route(Append(p, e), source, e, E)
           /\ Len(Append(p, e)) = Len(p) + 1
           /\ \A i \in 1..Len(p) : Append(p, e)[i] = p[i]
           /\ Append(p, e)[Len(p) + 1] = e
<1> DEFINE q == Append(p, e)
<1>1. p \in Seq(Entities) /\ Len(p) \in Nat /\ Len(p) >= 1
  BY DEF Route
<1>2. q \in Seq(Entities) /\ Len(q) = Len(p) + 1 /\ q[Len(p) + 1] = e /\ \A i \in 1..Len(p) : q[i] = p[i]
  BY <1>1
<1> HIDE DEF q
<1>3. q[1] = source /\ q[Len(q)] = e
  BY <1>1, <1>2 DEF Route
<1>4. ASSUME NEW i \in 1..Len(q), NEW j \in 1..Len(q), q[i] = q[j]
      PROVE  i = j
  <2>1. CASE i \in 1..Len(p) /\ j \in 1..Len(p)
    BY <1>2, <1>4, <2>1 DEF Route
  <2>2. CASE i = Len(p) + 1 \/ j = Len(p) + 1
    BY <1>1, <1>2, <1>4, <2>2
  <2> QED
    BY <1>1, <1>2, <2>1, <2>2
<1>5. ASSUME NEW i \in 1..(Len(q) - 1)
      PROVE  Joined(E, q[i], q[i + 1])
  <2>1. CASE i = Len(p)
    BY <1>1, <1>2, <2>1 DEF Route
  <2>2. CASE i # Len(p)
    <3>1. i \in 1..(Len(p) - 1) /\ i \in 1..Len(p) /\ i + 1 \in 1..Len(p)
      BY <1>1, <1>2, <2>2
    <3> QED
      BY <1>2, <3>1 DEF Route
  <2> QED
    BY <2>1, <2>2
<1> QED
  BY <1>1, <1>2, <1>3, <1>4, <1>5 DEF Route, q

LEMMA RouteMoreEdges ==
    ASSUME NEW p, NEW source, NEW e, NEW E, NEW F, E \subseteq F, Route(p, source, e, E)
    PROVE  Route(p, source, e, F)
BY DEF Route, Joined

LEMMA RouteOfOne ==
    ASSUME NEW e \in Entities, NEW E
    PROVE  Route(<<e>>, e, e, E)
BY DEF Route

\* What holds between the depths of a search: the entities reached are those of
\* at most hop steps along edges that stayed, each has a route of that length,
\* and what lies beyond the frontier has been read.
Explored ==
    path.at = "hops" =>
        /\ path.source \in Reached(path) /\ path.target \notin Reached(path)
        /\ path.hop <= path.depth
        /\ \A e \in Reached(path) :
              /\ Route(path.trail[e], path.source, e, path.ever)
              /\ Len(path.trail[e]) <= path.hop + 1
              /\ \A i \in 1..Len(path.trail[e]) : path.trail[e][i] \in Reached(path)
        /\ Within(path.kept, {path.source}, path.hop) \subseteq Reached(path)
        /\ \A a \in Reached(path) \ path.frontier, b \in Entities : Joined(path.kept, a, b) => b \in Reached(path)

Unstarted == path.at \in {"source", "target"} => path.hop = 0

\* A path that is found has two ends.
TwoEnds == path.at = "answer" /\ path.answer # <<>> => Len(path.answer) >= 2

Shortest == Explored /\ Unstarted /\ TwoEnds /\ PathIsShortest

\* Nobody is within reach of an entity that no edge joins.
LEMMA Unjoined ==
    ASSUME NEW E, NEW s \in Entities, NEW t \in Entities, s # t,
           (\A b \in Entities : ~Joined(E, s, b)) \/ (\A a \in Entities : ~Joined(E, a, t))
    PROVE  \A n \in Nat : t \notin Within(E, {s}, n)
<1>1. CASE \A b \in Entities : ~Joined(E, s, b)
  <2>1. Spread(E, {s}) \subseteq {s}
    BY <1>1, SpreadJoined
  <2>2. \A n \in Nat : Within(E, {s}, n) \subseteq {s}
    BY <2>1, WithinClosed
  <2> QED
    BY <2>2
<1>2. CASE \A a \in Entities : ~Joined(E, a, t)
  <2>1. Spread(E, Entities \ {t}) \subseteq Entities \ {t}
    BY <1>2, SpreadJoined
  <2>2. \A n \in Nat : Within(E, {s}, n) \subseteq Entities \ {t}
    BY <2>1, WithinClosed
  <2> QED
    BY <2>2
<1> QED
  BY <1>1, <1>2

LEMMA ChangeShortest ==
    ASSUME TypeOKSearch, Shortest, NEW E \in SUBSET Possible, Change(E)
    PROVE  Shortest'
<1>1. CASE ~Searching(path)
  <2>1. path' = path /\ path.at = "idle"
    BY <1>1 DEF Change, Searching
  <2> QED
    BY <2>1 DEF Shortest, Explored, Unstarted, TwoEnds, PathIsShortest
<1>2. CASE Searching(path)
  <2>1. path' = [path EXCEPT !.ever = path.ever \cup E, !.kept = path.kept \cap E]
    BY <1>2 DEF Change, Seen
  <2>2. /\ path'.at = path.at /\ path'.source = path.source /\ path'.target = path.target /\ path'.hop = path.hop
        /\ path'.depth = path.depth /\ path'.frontier = path.frontier /\ path'.trail = path.trail
        /\ path'.answer = path.answer
        /\ path.ever \subseteq path'.ever /\ path'.kept \subseteq path.kept
        /\ path.hop \in Nat /\ path.depth \in Nat /\ path.answer \in Seq(Entities)
    BY <2>1 DEF TypeOKSearch, PathStates
  <2>3. \A n \in Nat : \A S : Within(path'.kept, S, n) \subseteq Within(path.kept, S, n)
    BY <2>2, WithinMoreEdges
  <2>4. \A a, b : Joined(path'.kept, a, b) => Joined(path.kept, a, b)
    BY <2>2 DEF Joined
  <2>5. Explored'
    <3> SUFFICES ASSUME path.at = "hops" PROVE Explored'
      BY <2>2 DEF Explored
    <3>1. Reached(path') = Reached(path)
      BY <2>2 DEF Reached
    <3>2. \A e \in Reached(path) : Route(path.trail[e], path.source, e, path'.ever)
      BY <2>2, RouteMoreEdges DEF Shortest, Explored
    <3>3. Within(path'.kept, {path.source}, path.hop) \subseteq Reached(path)
      BY <2>2, <2>3 DEF Shortest, Explored
    <3> QED
      BY <2>2, <2>4, <3>1, <3>2, <3>3 DEF Shortest, Explored
  <2>6. PathIsShortest'
    <3> DEFINE p == path.answer
    <3> SUFFICES ASSUME path.at = "answer" PROVE PathIsShortest'
      BY <2>2 DEF PathIsShortest
    <3>1. CASE p = <<>>
      <4>1. path.source # path.target => path.target \notin Within(path'.kept, {path.source}, path.depth)
        BY <2>2, <2>3, <3>1 DEF Shortest, PathIsShortest
      <4> QED
        BY <2>2, <3>1, <4>1 DEF PathIsShortest
    <3>2. CASE p # <<>>
      <4>1. /\ p[1] = path.source /\ p[Len(p)] = path.target
            /\ \A i, j \in DOMAIN p : p[i] = p[j] => i = j
            /\ \A i \in 1..(Len(p) - 1) : <<p[i], p[i + 1]>> \in path.ever \/ <<p[i + 1], p[i]>> \in path.ever
            /\ Len(p) - 1 <= path.depth
            /\ path.target \notin Within(path.kept, {path.source}, Len(p) - 2)
        BY <3>2 DEF Shortest, PathIsShortest
      <4>2. path.target \notin Within(path'.kept, {path.source}, Len(p) - 2)
        <5>1. Len(p) - 2 \in Nat
          BY <2>2, <3>2 DEF Shortest, TwoEnds
        <5> QED
          BY <2>3, <4>1, <5>1
      <4> QED
        BY <2>2, <3>2, <4>1, <4>2 DEF PathIsShortest
    <3> QED
      BY <3>1, <3>2
  <2> QED
    BY <2>2, <2>5, <2>6 DEF Shortest, Unstarted, TwoEnds
<1> QED
  BY <1>1, <1>2

\* A search without an answer gives none while the target is out of reach.
LEMMA NoneShortest ==
    ASSUME TypeOKSearch, Continue(Found(path, <<>>)),
           path.source # path.target => path.target \notin Within(path.kept, {path.source}, path.depth)
    PROVE  Shortest'
<1>1. /\ path'.at = "answer" /\ path'.answer = <<>> /\ path'.source = path.source /\ path'.target = path.target
      /\ path'.kept = path.kept /\ path'.depth = path.depth
  BY DEF Continue, Found, TypeOKSearch, PathStates
<1> QED
  BY <1>1 DEF Shortest, Explored, Unstarted, TwoEnds, PathIsShortest

LEMMA ResolveShortest ==
    ASSUME TypeOKSearch, PathSound, Shortest, ResolveSource \/ ResolveTarget \/ ResolveFails
    PROVE  Shortest'
<1>1. /\ path.source \in Entities /\ path.target \in Entities /\ path.kept \subseteq edges /\ path.depth \in Nat
      /\ path.hop = 0
  BY DEF PathSound, ResolveSource, ResolveTarget, ResolveFails, TypeOKSearch, PathStates, Shortest, Unstarted
<1>2. \A a, b \in Entities : Joined(path.kept, a, b) => a \in known /\ b \in known
  BY <1>1 DEF Joined, TypeOKSearch, Ends
<1>3. CASE ResolveSource
  <2>1. CASE path.source \in known
    <3>1. path'.at = "target" /\ path'.hop = 0
      BY <1>1, <1>3, <2>1 DEF ResolveSource, Continue, TypeOKSearch, PathStates
    <3> QED
      BY <3>1 DEF Shortest, Explored, Unstarted, TwoEnds, PathIsShortest
  <2>2. CASE path.source \notin known
    <3>1. \A b \in Entities : ~Joined(path.kept, path.source, b)
      BY <1>1, <1>2, <2>2
    <3>2. path.source # path.target => path.target \notin Within(path.kept, {path.source}, path.depth)
      BY <1>1, <3>1, Unjoined
    <3>3. Continue(Found(path, <<>>))
      BY <1>3, <2>2 DEF ResolveSource
    <3> QED
      BY <3>2, <3>3, NoneShortest
  <2> QED
    BY <2>1, <2>2
<1>4. CASE ResolveTarget /\ path.target \notin known \ {path.source}
  <2>1. path.source # path.target => path.target \notin Within(path.kept, {path.source}, path.depth)
    <3>1. ASSUME path.source # path.target
          PROVE  \A a \in Entities : ~Joined(path.kept, a, path.target)
      BY <1>1, <1>2, <1>4, <3>1
    <3> QED
      BY <1>1, <3>1, Unjoined
  <2>2. Continue(Found(path, <<>>))
    BY <1>4 DEF ResolveTarget
  <2> QED
    BY <2>1, <2>2, NoneShortest
<1>5. CASE ResolveTarget /\ path.target \in known \ {path.source}
  <2> DEFINE s == path.source
  <2>1. /\ path'.at = "hops" /\ path'.source = s /\ path'.target = path.target /\ path'.hop = 0
        /\ path'.depth = path.depth /\ path'.frontier = {s} /\ path'.kept = path.kept /\ path'.ever = path.ever
        /\ path'.trail = [Untrodden EXCEPT ![s] = <<s>>]
    BY <1>1, <1>5 DEF ResolveTarget, Continue, TypeOKSearch, PathStates
  <2>2. \A e \in Entities : path'.trail[e] = IF e = s THEN <<s>> ELSE <<>>
    BY <1>1, <2>1 DEF Untrodden
  <2>3. Reached(path') = {s}
    BY <1>1, <2>2 DEF Reached
  <2>4. Route(<<s>>, s, s, path'.ever) /\ Len(<<s>>) = 1 /\ <<s>>[1] = s
    BY <1>1, RouteOfOne
  <2>5. Within(path'.kept, {s}, 0) = {s}
    BY WithinSteps
  <2>6. ASSUME NEW e \in {s}
        PROVE  /\ Route(path'.trail[e], s, e, path'.ever)
               /\ Len(path'.trail[e]) <= 0 + 1
               /\ \A i \in 1..Len(path'.trail[e]) : path'.trail[e][i] \in {s}
    <3>1. e = s /\ path'.trail[e] = <<s>>
      BY <1>1, <2>2
    <3> QED
      BY <2>4, <3>1
  <2>7. path.target # s /\ {s} \ {s} = {} /\ 0 <= path.depth
    BY <1>1, <1>5
  <2>8. Explored'
    BY <2>1, <2>3, <2>5, <2>6, <2>7 DEF Explored
  <2> QED
    BY <2>1, <2>8 DEF Shortest, Unstarted, TwoEnds, PathIsShortest
<1>6. CASE ResolveFails
  <2>1. /\ path'.at = "answer" /\ path'.answer = <<>> /\ path'.source = path.source /\ path'.target = path.target
        /\ path'.kept = {} /\ path'.depth = path.depth
    BY <1>6 DEF ResolveFails, Continue, Found, TypeOKSearch, PathStates
  <2>2. \A b \in Entities : ~Joined({}, path.source, b)
    BY DEF Joined
  <2>3. path.source # path.target => path.target \notin Within({}, {path.source}, path.depth)
    BY <1>1, <2>2, Unjoined
  <2> QED
    BY <2>1, <2>3 DEF Shortest, Explored, Unstarted, TwoEnds, PathIsShortest
<1> QED
  BY <1>3, <1>4, <1>5, <1>6

\* When there is nowhere to go on the target is out of reach.
LEMMA NoneFoundShortest ==
    ASSUME TypeOKSearch, PathSound, Shortest, NoneFound
    PROVE  Shortest'
<1>1. /\ path.at = "hops" /\ (path.hop < path.depth => path.frontier = {})
      /\ path.hop \in Nat /\ path.depth \in Nat /\ path.source \in Entities
  BY DEF NoneFound, MayGoOn, TypeOKSearch, PathStates, PathSound
<1>2. path.target \notin Within(path.kept, {path.source}, path.depth)
  <2>1. CASE path.hop = path.depth
    BY <1>1, <2>1 DEF Shortest, Explored
  <2>2. CASE path.hop # path.depth
    <3>1. path.frontier = {} /\ path.source \in Reached(path) /\ path.target \notin Reached(path)
      BY <1>1, <2>2 DEF NoneFound, MayGoOn, Shortest, Explored
    <3>2. \A a \in Reached(path), b \in Entities : Joined(path.kept, a, b) => b \in Reached(path)
      BY <1>1, <3>1 DEF Shortest, Explored
    <3>3. Spread(path.kept, Reached(path)) \subseteq Reached(path)
      BY <3>2, SpreadJoined
    <3>4. Within(path.kept, {path.source}, path.depth) \subseteq Reached(path)
      BY <1>1, <3>1, <3>3, WithinClosed
    <3> QED
      BY <3>1, <3>4
  <2> QED
    BY <2>1, <2>2
<1>3. Continue(Found(path, <<>>))
  BY DEF NoneFound
<1> QED
  BY <1>2, <1>3, NoneShortest

\* What the next depth reaches.
LEMMA ExploredFurther ==
    ASSUME TypeOKSearch, PathSound, Shortest, path.at = "hops", MayGoOn(path.hop, path.depth),
           NEW lost, NEW new, NEW from, Extends(edges \ lost, new, from)
    PROVE  LET trail == Trailing(new, from)
               beyond == Reached(path) \cup new
               kept == path.kept \ lost
           IN  /\ \A e \in beyond : /\ Route(trail[e], path.source, e, path.ever)
                                    /\ Len(trail[e]) <= path.hop + 2
                                    /\ \A i \in 1..Len(trail[e]) : trail[e][i] \in beyond
               /\ Within(kept, {path.source}, path.hop + 1) \subseteq beyond
               /\ \A a \in Reached(path), b \in Entities : Joined(kept, a, b) => b \in beyond
<1> DEFINE trail == Trailing(new, from)
           beyond == Reached(path) \cup new
           kept == path.kept \ lost
<1>1. /\ new \subseteq Entities /\ new \cap Reached(path) = {} /\ Reached(path) \subseteq Entities
      /\ path.frontier \subseteq Reached(path) /\ path.hop \in Nat
      /\ \A e \in new : from[e] \in path.frontier /\ Joined(edges \ lost, from[e], e)
  BY DEF Extends, TypeOKSearch, PathStates, Reached
<1>2. path.kept \subseteq edges /\ edges \subseteq path.ever
  BY DEF PathSound
<1>3. /\ \A e \in Reached(path) :
            /\ Route(path.trail[e], path.source, e, path.ever)
            /\ Len(path.trail[e]) <= path.hop + 1
            /\ \A i \in 1..Len(path.trail[e]) : path.trail[e][i] \in Reached(path)
      /\ Within(path.kept, {path.source}, path.hop) \subseteq Reached(path)
      /\ \A a \in Reached(path) \ path.frontier, b \in Entities : Joined(path.kept, a, b) => b \in Reached(path)
  BY DEF Shortest, Explored
<1>4. ASSUME NEW e \in Reached(path)
      PROVE  /\ Route(trail[e], path.source, e, path.ever)
             /\ Len(trail[e]) <= path.hop + 2
             /\ \A i \in 1..Len(trail[e]) : trail[e][i] \in beyond
  <2>1. trail[e] = path.trail[e]
    BY <1>1 DEF Trailing
  <2> HIDE DEF trail
  <2>2. Len(path.trail[e]) \in Nat
    BY <1>3 DEF Route
  <2> QED
    BY <1>1, <1>3, <2>1, <2>2
<1>5. ASSUME NEW e \in new
      PROVE  /\ Route(trail[e], path.source, e, path.ever)
             /\ Len(trail[e]) <= path.hop + 2
             /\ \A i \in 1..Len(trail[e]) : trail[e][i] \in beyond
  <2> DEFINE a == from[e]
             p == path.trail[a]
  <2>1. a \in Reached(path) /\ e \in Entities /\ trail[e] = Append(p, e)
    BY <1>1 DEF Trailing
  <2>2. Joined(path.ever, a, e)
    BY <1>1, <1>2 DEF Joined
  <2>3. Route(p, path.source, a, path.ever) /\ Len(p) <= path.hop + 1 /\ \A i \in 1..Len(p) : p[i] \in Reached(path)
    BY <1>3, <2>1
  <2>4. Len(p) \in Nat
    BY <2>3 DEF Route
  <2> HIDE DEF trail, a, p
  <2>5. \A i \in 1..Len(p) : p[i] # e
    BY <1>1, <2>3
  <2>6. /\ Route(Append(p, e), path.source, e, path.ever)
        /\ Len(Append(p, e)) = Len(p) + 1
        /\ \A i \in 1..Len(p) : Append(p, e)[i] = p[i]
        /\ Append(p, e)[Len(p) + 1] = e
    BY <2>1, <2>2, <2>3, <2>5, RouteGoesOn
  <2>7. Len(trail[e]) <= path.hop + 2
    BY <1>1, <2>1, <2>3, <2>4, <2>6
  <2>8. ASSUME NEW i \in 1..Len(trail[e])
        PROVE  trail[e][i] \in beyond
    <3>1. CASE i = Len(p) + 1
      BY <2>1, <2>6, <3>1
    <3>2. CASE i # Len(p) + 1
      <4>1. i \in 1..Len(p)
        BY <2>1, <2>4, <2>6, <3>2
      <4> QED
        BY <2>1, <2>3, <2>6, <4>1
    <3> QED
      BY <3>1, <3>2
  <2> QED
    BY <2>1, <2>6, <2>7, <2>8
<1>6. ASSUME NEW a \in Reached(path), NEW b \in Entities, Joined(kept, a, b)
      PROVE  b \in beyond
  <2>1. Joined(edges \ lost, a, b)
    BY <1>2, <1>6 DEF Joined
  <2>2. a \in path.frontier /\ b \notin Reached(path) => b \in new
    BY <2>1 DEF Extends
  <2>3. Joined(path.kept, a, b)
    BY <1>6 DEF Joined
  <2> QED
    BY <1>3, <2>2, <2>3
<1>7. Within(kept, {path.source}, path.hop + 1) \subseteq beyond
  <2>1. Within(kept, {path.source}, path.hop + 1) = Spread(kept, Within(kept, {path.source}, path.hop))
    BY <1>1, WithinSteps
  <2>2. ASSUME NEW b \in Spread(kept, Within(kept, {path.source}, path.hop))
        PROVE  b \in beyond
    <3>1. \/ b \in Within(kept, {path.source}, path.hop)
          \/ b \in Entities /\ \E a \in Within(kept, {path.source}, path.hop) : Joined(kept, a, b)
      BY SpreadJoined
    <3>2. Within(kept, {path.source}, path.hop) \subseteq Reached(path)
      BY <1>1, <1>3, WithinMoreEdges
    <3> QED
      BY <1>6, <3>1, <3>2
  <2> QED
    BY <2>1, <2>2
<1> HIDE DEF trail, beyond
<1>8. \A e \in beyond : e \in Reached(path) \/ e \in new
  BY DEF beyond
<1>9. \A e \in beyond : /\ Route(trail[e], path.source, e, path.ever)
                        /\ Len(trail[e]) <= path.hop + 2
                        /\ \A i \in 1..Len(trail[e]) : trail[e][i] \in beyond
  BY <1>4, <1>5, <1>8
<1> QED
  BY <1>6, <1>7, <1>9 DEF trail, beyond, kept

LEMMA ExpandShortest ==
    ASSUME TypeOKSearch, PathSound, Shortest, NEW lost, Expand(lost)
    PROVE  Shortest'
<1>1. PICK new, from : Extends(edges \ lost, new, from) /\ path' = Deeper(lost, new, from)
  BY ExpandSteps
<1> DEFINE trail == Trailing(new, from)
           beyond == Reached(path) \cup new
           kept == path.kept \ lost
<1>2. /\ path.at = "hops" /\ MayGoOn(path.hop, path.depth) /\ path.hop + 1 <= path.depth
      /\ path.hop \in Nat /\ path.depth \in Nat
  BY DEF Expand, MayGoOn, TypeOKSearch, PathStates
<1>3. /\ \A e \in beyond : /\ Route(trail[e], path.source, e, path.ever)
                           /\ Len(trail[e]) <= path.hop + 2
                           /\ \A i \in 1..Len(trail[e]) : trail[e][i] \in beyond
      /\ Within(kept, {path.source}, path.hop + 1) \subseteq beyond
      /\ \A a \in Reached(path), b \in Entities : Joined(kept, a, b) => b \in beyond
  BY <1>1, <1>2, ExploredFurther
<1>4. /\ path.source \in Reached(path) /\ path.target \notin Reached(path)
      /\ Within(kept, {path.source}, path.hop) \subseteq Reached(path)
  <2>1. Within(kept, {path.source}, path.hop) \subseteq Within(path.kept, {path.source}, path.hop)
    BY <1>2, WithinMoreEdges
  <2> QED
    BY <1>2, <2>1 DEF Shortest, Explored
<1>5. new \cap Reached(path) = {}
  BY <1>1 DEF Extends
<1>6. /\ trail \in [Entities -> Seq(Entities)] /\ \A e \in new : trail[e] # <<>>
      /\ \A e \in Entities \ new : trail[e] = path.trail[e]
  BY <1>1, TrailingType
<1>7. CASE path.target \in new
  <2> DEFINE p == trail[path.target]
  <2>1. /\ path'.at = "answer" /\ path'.answer = p /\ path'.source = path.source /\ path'.target = path.target
        /\ path'.kept = kept /\ path'.ever = path.ever /\ path'.depth = path.depth
    BY <1>1, <1>7 DEF Deeper, Found, TypeOKSearch, PathStates
  <2>2. Route(p, path.source, path.target, path.ever) /\ Len(p) <= path.hop + 2
    BY <1>3, <1>7
  <2> HIDE DEF p, trail, kept
  <2>3. Len(p) \in Nat /\ p # <<>> /\ p \in Seq(Entities) /\ Len(p) >= 2
    <3>1. Len(p) \in Nat /\ Len(p) >= 1 /\ p[1] = path.source /\ p[Len(p)] = path.target /\ p \in Seq(Entities)
      BY <2>2 DEF Route
    <3>2. path.source # path.target
      BY <1>4
    <3>3. Len(p) # 1
      BY <3>1, <3>2
    <3>4. Len(p) \in Nat /\ Len(p) >= 1
      BY <3>1
    <3>a. \A n \in Nat : n >= 1 /\ n # 1 => n >= 2
      OBVIOUS
    <3>5. Len(p) >= 2
      BY <3>3, <3>4, <3>a, Zenon
    <3>6. p # <<>>
      BY <3>4
    <3> QED
      BY <3>1, <3>4, <3>5, <3>6
  <2>4. path.target \notin Within(kept, {path.source}, Len(p) - 2)
    <3>1. Len(p) - 2 \in Nat /\ Len(p) - 2 <= path.hop
      BY <1>2, <2>2, <2>3
    <3>2. Within(kept, {path.source}, Len(p) - 2) \subseteq Within(kept, {path.source}, path.hop)
      BY <1>2, <3>1, WithinMonotone
    <3> QED
      BY <1>4, <3>2
  <2>5. Len(p) - 1 <= path.depth
    BY <1>2, <2>2, <2>3
  <2>6. PathIsShortest'
    <3>1. DOMAIN p = 1..Len(p)
      BY <2>3
    <3>2. /\ p[1] = path.source /\ p[Len(p)] = path.target
          /\ \A i, j \in DOMAIN p : p[i] = p[j] => i = j
          /\ \A i \in 1..(Len(p) - 1) : <<p[i], p[i + 1]>> \in path.ever \/ <<p[i + 1], p[i]>> \in path.ever
      BY <2>2, <3>1 DEF Route, Joined
    <3>3. path'.answer # <<>>
      BY <2>1, <2>3
    <3> QED
      BY <2>1, <2>4, <2>5, <3>2, <3>3 DEF PathIsShortest
  <2> QED
    BY <2>1, <2>3, <2>6 DEF Shortest, Explored, Unstarted, TwoEnds
<1>8. CASE path.target \notin new
  <2>1. /\ path'.at = "hops" /\ path'.source = path.source /\ path'.target = path.target
        /\ path'.kept = kept /\ path'.ever = path.ever /\ path'.depth = path.depth
        /\ path'.hop = path.hop + 1 /\ path'.frontier = new /\ path'.trail = trail
    BY <1>1, <1>8, <1>2, <1>6 DEF Deeper, TypeOKSearch, PathStates
  <2> HIDE DEF trail
  <2>2. Reached(path') = beyond
    <3>1. \A e \in Entities : trail[e] # <<>> <=> e \in beyond
      BY <1>6 DEF Reached
    <3>2. beyond \subseteq Entities
      BY <1>1 DEF Reached, Extends
    <3> HIDE DEF beyond
    <3> QED
      BY <2>1, <3>1, <3>2 DEF Reached
  <2>3. beyond \ new = Reached(path) /\ path.source \in beyond /\ path.target \notin beyond
    BY <1>4, <1>5, <1>8
  <2> HIDE DEF beyond
  <2>4. (path.hop + 1) + 1 = path.hop + 2
    BY <1>2
  <2>5. Explored'
    BY <1>2, <1>3, <2>1, <2>2, <2>3, <2>4 DEF Explored
  <2> QED
    BY <2>1, <2>5 DEF Shortest, Unstarted, TwoEnds, PathIsShortest
<1> QED
  BY <1>7, <1>8

LEMMA ShortestStep ==
    ASSUME TypeOKSearch, PathSound, Shortest, [NextSearch]_graphVars
    PROVE  Shortest'
<1>1. CASE UNCHANGED path
  BY <1>1 DEF Shortest, Explored, Unstarted, TwoEnds, PathIsShortest, Reached
<1>2. CASE (\E x \in Mentioned : Mention(x[1], x[2])) \/ (\E e \in Possible : Relate(e)) \/ RebuildGraph
  <2>1. \E E \in SUBSET Possible : Change(E)
    <3>1. ASSUME NEW x \in Mentioned, Mention(x[1], x[2])
          PROVE  edges \in SUBSET Possible /\ Change(edges)
      BY <3>1 DEF Mention, TypeOKSearch
    <3>2. ASSUME NEW e \in Possible, Relate(e)
          PROVE  edges \cup {e} \in SUBSET Possible /\ Change(edges \cup {e})
      BY <3>2 DEF Relate, TypeOKSearch
    <3>3. ASSUME RebuildGraph
          PROVE  \E E \in SUBSET Possible : Change(E)
      <4>1. PICK related \in SUBSET {e \in Possible : Ends(e) \subseteq known} : Change((edges \cap Typed) \cup related)
        BY <3>3 DEF RebuildGraph
      <4>2. (edges \cap Typed) \cup related \in SUBSET Possible
        BY DEF TypeOKSearch
      <4> QED
        BY <4>1, <4>2
    <3> QED
      BY <1>2, <3>1, <3>2, <3>3
  <2> QED
    BY <2>1, ChangeShortest
<1>3. ASSUME NEW s \in Entities, NEW t \in Entities, NEW depth \in Depths, FindPath(s, t, depth)
      PROVE  Shortest'
  <2>1. path'.at = "source" /\ path'.hop = 0
    BY <1>3 DEF FindPath, NoPath
  <2> QED
    BY <2>1 DEF Shortest, Explored, Unstarted, TwoEnds, PathIsShortest
<1>4. CASE ExpandFails \/ AnswerPath
  <2>1. path'.at = "idle"
    BY <1>4 DEF ExpandFails, AnswerPath, Continue, NoPath
  <2> QED
    BY <2>1 DEF Shortest, Explored, Unstarted, TwoEnds, PathIsShortest
<1>5. CASE \/ \E seeds \in SUBSET Entities, depth \in Depths, limit \in Limits : Traverse(seeds, depth, limit)
           \/ \E d \in walk.todo : ReadMemories(d) \/ ReadFails(d)
           \/ (\E lost \in SUBSET edges : ReadEdges(lost)) \/ EdgesFail \/ Rank \/ AnswerWalk
  BY <1>1, <1>5 DEF Traverse, ReadMemories, ReadFails, ReadEdges, EdgesFail, Rank, AnswerWalk, Proceed
<1> QED
  BY <1>1, <1>2, <1>3, <1>4, <1>5, ResolveShortest, ExpandShortest, NoneFoundShortest DEF NextSearch, graphVars

\* For any graph, any writes between the SELECTs and whichever rows an error cuts
\* off, a path that FindPath answers runs from the source to the target without a
\* repetition over edges of the time, within the depth, and no path of edges that
\* stayed and were read is shorter; there is none of these when it answers none,
\* unless the SELECT of an end failed, which gives that answer too (path.go:36-138).
THEOREM PathsAreShortest == SpecSearch => []PathIsShortest
<1>1. InitSearch => TypeOKSearch /\ PathSound /\ Shortest
  BY InitTypeOK DEF InitSearch, PathSound, NoPath, Shortest, Explored, Unstarted, TwoEnds, PathIsShortest
<1>2. TypeOKSearch /\ PathSound /\ Shortest /\ [NextSearch]_graphVars => TypeOKSearch' /\ PathSound' /\ Shortest'
  BY TypeOKStep, PathSoundStep, ShortestStep
<1>3. Shortest => PathIsShortest
  BY DEF Shortest
<1> QED
  BY <1>1, <1>2, <1>3, PTL DEF SpecSearch

-----------------------------------------------------------------------------
(* Sums over finite sets: SumFunctionOnSet picks the indices in an order of  *)
(* its own, which does not matter.                                           *)

Adds(w, s, f) ==
    IF s = {} THEN 0 ELSE LET x == CHOOSE x \in s : TRUE IN w[x] + f[s \ {x}]

\* f sums w over every subset of S, as SumFunctionOnSet does.
Sums(w, S, f) == f = [s \in SUBSET S |-> Adds(w, s, f)]

LEMMA SumChoice ==
    ASSUME NEW w, NEW S
    PROVE  SumFunctionOnSet(w, S) = (CHOOSE f : Sums(w, S, f))[S]
BY DEF SumFunctionOnSet, FoldFunctionOnSet, MapThenFoldSet, Sums, Adds

\* f does so for subsets of up to n members.
SumsUpTo(w, S, n, f) == \A s \in SUBSET S : Cardinality(s) <= n => f[s] = Adds(w, s, f)

LEMMA Removed ==
    ASSUME NEW S, IsFiniteSet(S), NEW s \in SUBSET S, s # {}, NEW x \in s
    PROVE  /\ s \ {x} \in SUBSET S /\ IsFiniteSet(s) /\ IsFiniteSet(s \ {x})
           /\ Cardinality(s) \in Nat /\ Cardinality(s \ {x}) \in Nat
           /\ Cardinality(s) = Cardinality(s \ {x}) + 1
<1>1. IsFiniteSet(s)
  BY FS_Subset
<1>2. IsFiniteSet(s \ {x}) /\ Cardinality(s \ {x}) = Cardinality(s) - 1
  BY <1>1, FS_RemoveElement
<1>3. Cardinality(s) \in Nat /\ Cardinality(s \ {x}) \in Nat
  BY <1>1, <1>2, FS_CardinalityType
<1> QED
  BY <1>1, <1>2, <1>3

LEMMA SumsExist ==
    ASSUME NEW w, NEW S, IsFiniteSet(S)
    PROVE  \E f : Sums(w, S, f)
<1> DEFINE T == {n \in Nat : \E f : SumsUpTo(w, S, n, f)}
<1>0. \A s \in SUBSET S : IsFiniteSet(s) /\ Cardinality(s) \in Nat /\ (Cardinality(s) = 0 <=> s = {})
  BY FS_Subset, FS_CardinalityType, FS_EmptySet
<1>1. 0 \in T
  <2> DEFINE f == [s \in SUBSET S |-> 0]
  <2>1. ASSUME NEW s \in SUBSET S, Cardinality(s) <= 0
        PROVE  f[s] = Adds(w, s, f)
    <3>1. s = {}
      BY <1>0, <2>1
    <3> QED
      BY <3>1 DEF Adds
  <2> HIDE DEF f
  <2>2. SumsUpTo(w, S, 0, f)
    BY <2>1 DEF SumsUpTo
  <2> QED
    BY <2>2
<1>2. ASSUME NEW n \in Nat, n \in T
      PROVE  n + 1 \in T
  <2>1. PICK f : SumsUpTo(w, S, n, f)
    BY <1>2
  <2> DEFINE g == [s \in SUBSET S |-> IF Cardinality(s) = n + 1 THEN Adds(w, s, f) ELSE f[s]]
  <2>2. ASSUME NEW s \in SUBSET S, Cardinality(s) <= n + 1
        PROVE  g[s] = Adds(w, s, g)
    <3>1. g[s] = Adds(w, s, f)
      <4>1. Cardinality(s) = n + 1 \/ Cardinality(s) <= n
        BY <1>0, <2>2
      <4>2. Cardinality(s) <= n => Cardinality(s) # n + 1
        BY <1>0
      <4> QED
        BY <2>1, <4>1, <4>2 DEF SumsUpTo
    <3>2. ASSUME s # {}
          PROVE  Adds(w, s, f) = Adds(w, s, g)
      <4> DEFINE x == CHOOSE x \in s : TRUE
      <4>1. x \in s
        BY <3>2
      <4>2. \A y \in s : s \ {y} \in SUBSET S /\ Cardinality(s \ {y}) \in Nat /\ Cardinality(s) = Cardinality(s \ {y}) + 1
        BY <3>2, Removed
      <4> HIDE DEF x
      <4>3. s \ {x} \in SUBSET S /\ Cardinality(s \ {x}) # n + 1
        BY <2>2, <4>1, <4>2
      <4>4. g[s \ {x}] = f[s \ {x}]
        BY <4>3
      <4> HIDE DEF g
      <4> QED
        BY <4>4 DEF Adds, x
    <3>3. s = {} => Adds(w, s, f) = Adds(w, s, g)
      BY DEF Adds
    <3> QED
      BY <3>1, <3>2, <3>3
  <2> HIDE DEF g
  <2>3. SumsUpTo(w, S, n + 1, g)
    BY <2>2 DEF SumsUpTo
  <2> QED
    BY <2>3
<1> HIDE DEF T
<1>3. Nat \subseteq T
  BY <1>1, <1>2, Naturals
<1>4. Cardinality(S) \in T
  BY <1>3, FS_CardinalityType
<1>5. PICK f : SumsUpTo(w, S, Cardinality(S), f)
  BY <1>4 DEF T
<1> DEFINE g == [s \in SUBSET S |-> f[s]]
<1>6. ASSUME NEW s \in SUBSET S
      PROVE  f[s] = Adds(w, s, g)
  <2>1. f[s] = Adds(w, s, f)
    BY <1>5, FS_Subset DEF SumsUpTo
  <2>2. ASSUME s # {}
        PROVE  Adds(w, s, f) = Adds(w, s, g)
    <3> DEFINE x == CHOOSE x \in s : TRUE
    <3>1. g[s \ {x}] = f[s \ {x}]
      OBVIOUS
    <3> HIDE DEF g
    <3> QED
      BY <3>1 DEF Adds
  <2>3. s = {} => Adds(w, s, f) = Adds(w, s, g)
    BY DEF Adds
  <2> QED
    BY <2>1, <2>2, <2>3
<1>7. g = [s \in SUBSET S |-> Adds(w, s, g)]
  BY <1>6
<1> HIDE DEF g
<1>8. Sums(w, S, g)
  BY <1>7 DEF Sums
<1> QED
  BY <1>8

LEMMA SumsUnique ==
    ASSUME NEW w, NEW S, NEW R, IsFiniteSet(S), IsFiniteSet(R), NEW f, NEW g, Sums(w, S, f), Sums(w, R, g)
    PROVE  \A s \in (SUBSET S) \cap (SUBSET R) : f[s] = g[s]
<1> DEFINE T == {n \in Nat : \A s \in (SUBSET S) \cap (SUBSET R) : Cardinality(s) = n => f[s] = g[s]}
<1>0. \A s \in SUBSET S : IsFiniteSet(s) /\ Cardinality(s) \in Nat /\ (Cardinality(s) = 0 <=> s = {})
  BY FS_Subset, FS_CardinalityType, FS_EmptySet
<1>a. \A s \in (SUBSET S) \cap (SUBSET R) : f[s] = Adds(w, s, f) /\ g[s] = Adds(w, s, g)
  BY DEF Sums
<1>1. 0 \in T
  <2>1. ASSUME NEW s \in (SUBSET S) \cap (SUBSET R), Cardinality(s) = 0
        PROVE  f[s] = g[s]
    <3>1. s = {}
      BY <1>0, <2>1
    <3> QED
      BY <1>a, <3>1 DEF Adds
  <2> QED
    BY <2>1
<1>2. ASSUME NEW n \in Nat, n \in T
      PROVE  n + 1 \in T
  <2>1. ASSUME NEW s \in (SUBSET S) \cap (SUBSET R), Cardinality(s) = n + 1
        PROVE  f[s] = g[s]
    <3> DEFINE x == CHOOSE x \in s : TRUE
    <3>1. s # {}
      BY <1>0, <2>1
    <3>2. x \in s
      BY <3>1
    <3>a. \A y \in s : s \ {y} \in SUBSET S /\ Cardinality(s \ {y}) \in Nat /\ Cardinality(s) = Cardinality(s \ {y}) + 1
      BY <3>1, Removed
    <3> HIDE DEF x
    <3>3. s \ {x} \in (SUBSET S) \cap (SUBSET R) /\ Cardinality(s \ {x}) = n
      BY <2>1, <3>2, <3>a
    <3>4. f[s \ {x}] = g[s \ {x}]
      BY <1>2, <3>3
    <3>5. Adds(w, s, f) = w[x] + f[s \ {x}] /\ Adds(w, s, g) = w[x] + g[s \ {x}]
      BY <3>1 DEF Adds, x
    <3> QED
      BY <1>a, <3>4, <3>5
  <2> QED
    BY <2>1
<1> HIDE DEF T
<1>3. Nat \subseteq T
  BY <1>1, <1>2, Naturals
<1> QED
  BY <1>0, <1>3 DEF T

\* A sum, one chosen index after the other.
LEMMA SumSteps ==
    ASSUME NEW w, NEW S, IsFiniteSet(S)
    PROVE  /\ S = {} => SumFunctionOnSet(w, S) = 0
           /\ S # {} => LET x == CHOOSE x \in S : TRUE
                        IN  x \in S /\ SumFunctionOnSet(w, S) = w[x] + SumFunctionOnSet(w, S \ {x})
<1> DEFINE f(R) == CHOOSE f : Sums(w, R, f)
<1>1. \A R : IsFiniteSet(R) => Sums(w, R, f(R))
  BY SumsExist
<1>2. \A R : SumFunctionOnSet(w, R) = f(R)[R]
  BY SumChoice
<1> HIDE DEF f
<1>3. f(S)[S] = Adds(w, S, f(S))
  <2>1. Sums(w, S, f(S))
    BY <1>1
  <2> QED
    BY <2>1 DEF Sums
<1>4. CASE S = {}
  BY <1>2, <1>3, <1>4 DEF Adds
<1>5. CASE S # {}
  <2> DEFINE x == CHOOSE x \in S : TRUE
  <2>1. x \in S
    BY <1>5
  <2>2. IsFiniteSet(S \ {x})
    BY FS_RemoveElement
  <2>3. f(S)[S \ {x}] = f(S \ {x})[S \ {x}]
    <3>1. Sums(w, S, f(S)) /\ Sums(w, S \ {x}, f(S \ {x}))
      BY <1>1, <2>2
    <3>2. S \ {x} \in (SUBSET S) \cap (SUBSET (S \ {x}))
      OBVIOUS
    <3> QED
      BY <2>2, <3>1, <3>2, SumsUnique
  <2>4. f(S)[S] = w[x] + f(S)[S \ {x}]
    BY <1>3, <1>5 DEF Adds
  <2> QED
    BY <1>2, <1>5, <2>1, <2>3, <2>4
<1> QED
  BY <1>4, <1>5

\* Induction over the subsets of a finite set.
LEMMA Subsets ==
    ASSUME NEW S, IsFiniteSet(S), NEW P, {} \in P,
           \A s \in SUBSET S : s # {} /\ (\A x \in s : s \ {x} \in P) => s \in P
    PROVE  SUBSET S \subseteq P
<1> DEFINE T == {n \in Nat : \A s \in SUBSET S : Cardinality(s) = n => s \in P}
<1>0. \A s \in SUBSET S : IsFiniteSet(s) /\ Cardinality(s) \in Nat /\ (Cardinality(s) = 0 <=> s = {})
  BY FS_Subset, FS_CardinalityType, FS_EmptySet
<1>1. 0 \in T
  BY <1>0
<1>2. ASSUME NEW n \in Nat, n \in T
      PROVE  n + 1 \in T
  <2>1. ASSUME NEW s \in SUBSET S, Cardinality(s) = n + 1
        PROVE  s \in P
    <3>1. s # {}
      BY <1>0, <2>1
    <3>2. \A x \in s : s \ {x} \in SUBSET S /\ Cardinality(s \ {x}) \in Nat /\ Cardinality(s) = Cardinality(s \ {x}) + 1
      BY <3>1, Removed
    <3>3. \A x \in s : s \ {x} \in SUBSET S /\ Cardinality(s \ {x}) = n
      BY <2>1, <3>2
    <3>4. \A x \in s : s \ {x} \in P
      BY <1>2, <3>3
    <3> QED
      BY <3>1, <3>4
  <2> QED
    BY <2>1
<1> HIDE DEF T
<1>3. Nat \subseteq T
  BY <1>1, <1>2, Naturals
<1> QED
  BY <1>0, <1>3 DEF T

LEMMA SumType ==
    ASSUME NEW w, NEW S, IsFiniteSet(S), \A e \in S : w[e] \in Nat
    PROVE  \A s \in SUBSET S : SumFunctionOnSet(w, s) \in Nat
<1> DEFINE P == {s \in SUBSET S : SumFunctionOnSet(w, s) \in Nat}
<1>1. {} \in P
  <2>1. SumFunctionOnSet(w, {}) = 0
    BY SumSteps, FS_EmptySet
  <2> QED
    BY <2>1
<1>2. ASSUME NEW s \in SUBSET S, s # {}, \A x \in s : s \ {x} \in P
      PROVE  s \in P
  <2> DEFINE x == CHOOSE x \in s : TRUE
  <2>1. IsFiniteSet(s)
    BY FS_Subset
  <2>2. x \in s /\ SumFunctionOnSet(w, s) = w[x] + SumFunctionOnSet(w, s \ {x})
    BY <1>2, <2>1, SumSteps
  <2> HIDE DEF x
  <2>3. SumFunctionOnSet(w, s \ {x}) \in Nat /\ w[x] \in Nat
    BY <1>2, <2>2
  <2> QED
    BY <2>2, <2>3
<1> HIDE DEF P
<1>3. SUBSET S \subseteq P
  BY <1>1, <1>2, Subsets
<1> QED
  BY <1>3 DEF P

\* Whichever index comes first.
LEMMA SumAny ==
    ASSUME NEW w, NEW S, IsFiniteSet(S), \A e \in S : w[e] \in Nat
    PROVE  \A s \in SUBSET S : \A e \in s : SumFunctionOnSet(w, s) = w[e] + SumFunctionOnSet(w, s \ {e})
<1> DEFINE sum(s) == SumFunctionOnSet(w, s)
           P == {s \in SUBSET S : \A e \in s : sum(s) = w[e] + sum(s \ {e})}
<1>a. \A s \in SUBSET S : sum(s) \in Nat
  BY SumType
<1>1. {} \in P
  OBVIOUS
<1>2. ASSUME NEW s \in SUBSET S, s # {}, \A x \in s : s \ {x} \in P
      PROVE  s \in P
  <2> DEFINE x == CHOOSE x \in s : TRUE
  <2>1. IsFiniteSet(s)
    BY FS_Subset
  <2>2. x \in s /\ sum(s) = w[x] + sum(s \ {x})
    BY <1>2, <2>1, SumSteps
  <2> HIDE DEF x, sum
  <2>3. ASSUME NEW e \in s, e # x
        PROVE  sum(s) = w[e] + sum(s \ {e})
    <3>1. e \in s \ {x} /\ x \in s \ {e}
      BY <2>2, <2>3
    <3>2. sum(s \ {x}) = w[e] + sum((s \ {x}) \ {e})
      BY <1>2, <2>2, <3>1
    <3>3. sum(s \ {e}) = w[x] + sum((s \ {e}) \ {x})
      BY <1>2, <3>1
    <3>4. (s \ {x}) \ {e} = (s \ {e}) \ {x} /\ (s \ {e}) \ {x} \in SUBSET S
      OBVIOUS
    <3>5. sum((s \ {e}) \ {x}) \in Nat /\ w[e] \in Nat /\ w[x] \in Nat
      BY <1>a, <2>2, <3>4
    <3> QED
      BY <2>2, <3>2, <3>3, <3>4, <3>5
  <2> QED
    BY <2>2, <2>3
<1> HIDE DEF P
<1>3. SUBSET S \subseteq P
  BY <1>1, <1>2, Subsets
<1> QED
  BY <1>3 DEF P

LEMMA SumAdd ==
    ASSUME NEW w, NEW S, IsFiniteSet(S), NEW e, e \notin S, w[e] \in Nat, \A x \in S : w[x] \in Nat
    PROVE  SumFunctionOnSet(w, S \cup {e}) = w[e] + SumFunctionOnSet(w, S)
<1>1. IsFiniteSet(S \cup {e}) /\ (S \cup {e}) \ {e} = S /\ e \in S \cup {e} /\ S \cup {e} \in SUBSET (S \cup {e})
  BY FS_AddElement
<1>2. \A x \in S \cup {e} : w[x] \in Nat
  OBVIOUS
<1> QED
  BY <1>1, <1>2, SumAny

\* More indices that count more sum up to more.
LEMMA SumMonotone ==
    ASSUME NEW w, NEW v, NEW A, NEW B, IsFiniteSet(B), A \subseteq B,
           \A e \in A : w[e] \in Nat /\ w[e] <= v[e], \A e \in B : v[e] \in Nat
    PROVE  SumFunctionOnSet(w, A) <= SumFunctionOnSet(v, B)
<1> DEFINE P == {s \in SUBSET B : SumFunctionOnSet(w, s \cap A) <= SumFunctionOnSet(v, s)}
<1>a. IsFiniteSet(A)
  BY FS_Subset
<1>b. \A s \in SUBSET A : SumFunctionOnSet(w, s) \in Nat
  BY <1>a, SumType
<1>c. \A s \in SUBSET B : SumFunctionOnSet(v, s) \in Nat
  BY SumType
<1>1. {} \in P
  <2>1. {} \cap A = {} /\ SumFunctionOnSet(w, {}) = 0 /\ SumFunctionOnSet(v, {}) = 0
    BY SumSteps, FS_EmptySet
  <2> QED
    BY <2>1
<1>2. ASSUME NEW s \in SUBSET B, s # {}, \A x \in s : s \ {x} \in P
      PROVE  s \in P
  <2>1. PICK x \in s : TRUE
    BY <1>2
  <2>2. SumFunctionOnSet(w, (s \ {x}) \cap A) <= SumFunctionOnSet(v, s \ {x})
    BY <1>2
  <2>3. SumFunctionOnSet(v, s) = v[x] + SumFunctionOnSet(v, s \ {x})
    BY SumAny
  <2>4. SumFunctionOnSet(v, s \ {x}) \in Nat /\ v[x] \in Nat
    BY <1>c
  <2>5. CASE x \in A
    <3>1. s \cap A \in SUBSET A /\ x \in s \cap A /\ (s \cap A) \ {x} = (s \ {x}) \cap A /\ (s \ {x}) \cap A \in SUBSET A
      BY <2>5
    <3>2. SumFunctionOnSet(w, s \cap A) = w[x] + SumFunctionOnSet(w, (s \cap A) \ {x})
      BY <1>a, <3>1, SumAny
    <3>3. SumFunctionOnSet(w, (s \ {x}) \cap A) \in Nat /\ w[x] \in Nat /\ w[x] <= v[x]
      BY <1>b, <2>5, <3>1
    <3> QED
      BY <2>2, <2>3, <2>4, <3>1, <3>2, <3>3
  <2>6. CASE x \notin A
    <3>1. (s \ {x}) \cap A = s \cap A /\ s \cap A \in SUBSET A
      BY <2>6
    <3>2. SumFunctionOnSet(w, s \cap A) \in Nat
      BY <1>b, <3>1
    <3> QED
      BY <2>2, <2>3, <2>4, <3>1, <3>2
  <2> QED
    BY <2>5, <2>6
<1> HIDE DEF P
<1>3. SUBSET B \subseteq P
  BY <1>1, <1>2, Subsets
<1>4. B \cap A = A /\ B \in P
  BY <1>3
<1> QED
  BY <1>4 DEF P

LEMMA SumSame ==
    ASSUME NEW w, NEW v, NEW A, IsFiniteSet(A), \A e \in A : w[e] \in Nat /\ v[e] = w[e]
    PROVE  SumFunctionOnSet(v, A) = SumFunctionOnSet(w, A)
<1>1. \A e \in A : w[e] \in Nat /\ v[e] \in Nat /\ w[e] <= v[e] /\ v[e] <= w[e]
  OBVIOUS
<1>2. SumFunctionOnSet(w, A) <= SumFunctionOnSet(v, A) /\ SumFunctionOnSet(v, A) <= SumFunctionOnSet(w, A)
  BY <1>1, SumMonotone
<1>3. SumFunctionOnSet(w, A) \in Nat /\ SumFunctionOnSet(v, A) \in Nat
  BY <1>1, SumType
<1> QED
  BY <1>2, <1>3

-----------------------------------------------------------------------------
(* Every entity counts once.                                               *)

\* Entities whose memories are still to be read, and all that have been met.
Pending == {e \in Entities : \E s \in walk.todo : s[2] = e}
Met == walk.visited \cup Pending

Weights(d) == [e \in Entities |-> Share(d[e])]

\* d is the depth at which an entity was met, A[m] the entities whose memories
\* included m when they were read: d lies between the distances over edges that
\* stayed and over all edges of the time, and the score of m sums A[m] up.
Counted(d, A) ==
    /\ d \in [Entities -> Nat] /\ A \in [Notes -> SUBSET Entities]
    /\ \A e \in Met : d[e] <= walk.hop /\ e \in Within(walk.ever, walk.seeds, d[e])
    /\ \A e \in Pending : d[e] = walk.hop
    /\ \A n \in Nat : n <= walk.hop =>
          \A e \in Within(walk.kept, walk.seeds, n) : e \in Met /\ d[e] <= n
    /\ \A m \in Notes :
          /\ A[m] \subseteq Met \ Pending
          /\ \A e \in A[m] : <<m, e>> \in mentions
          /\ \A e \in Met \ Pending : <<m, e>> \in walk.mentioned /\ e \notin walk.skipped => e \in A[m]
          /\ walk.score[m] = SumFunctionOnSet(Weights(d), A[m])

WalkSound ==
    /\ walk.at = "idle" => walk.todo = {}
    /\ walk.at # "idle" =>
        /\ walk.kept \subseteq edges /\ edges \subseteq walk.ever /\ walk.mentioned \subseteq mentions
        /\ walk.seeds \subseteq Met /\ walk.frontier \subseteq Met /\ walk.hop <= walk.depth
        /\ \A a \in Met \ walk.frontier, b \in Entities : Joined(walk.kept, a, b) => b \in Met
        /\ walk.at = "answer" => walk.todo = {} /\ Within(walk.kept, walk.seeds, walk.depth) \subseteq Met
        /\ \E d, A : Counted(d, A)

LEMMA MinLeast ==
    ASSUME NEW T, T \subseteq Nat, T # {}
    PROVE  Min(T) \in T /\ \A n \in T : Min(T) <= n
BY Least DEF Min

LEMMA WithinEntities ==
    ASSUME NEW E, NEW S, S \subseteq Entities
    PROVE  \A n \in Nat : Within(E, S, n) \subseteq Entities
<1>1. Spread(E, Entities) \subseteq Entities
  BY SpreadJoined
<1> QED
  BY <1>1, WithinClosed

\* The distances that Reckoned goes by.
Measured(E, S, depth) ==
    /\ Within(E, S, depth) \subseteq Entities
    /\ \A e \in Within(E, S, depth) :
          /\ Distance(e, E, S, depth) \in 0..depth /\ e \in Within(E, S, Distance(e, E, S, depth))
          /\ \A n \in 0..depth : e \in Within(E, S, n) => Distance(e, E, S, depth) <= n
          /\ Shares(E, S, depth)[e] = Share(Distance(e, E, S, depth))

LEMMA Distances ==
    ASSUME NEW E, NEW S, S \subseteq Entities, NEW depth \in Nat
    PROVE  Measured(E, S, depth)
<1>1. Within(E, S, depth) \subseteq Entities
  BY WithinEntities
<1>2. ASSUME NEW e \in Within(E, S, depth)
      PROVE  /\ Distance(e, E, S, depth) \in 0..depth /\ e \in Within(E, S, Distance(e, E, S, depth))
             /\ \A n \in 0..depth : e \in Within(E, S, n) => Distance(e, E, S, depth) <= n
  <2> DEFINE T == {i \in 0..depth : e \in Within(E, S, i)}
  <2>1. T \subseteq Nat /\ depth \in T
    OBVIOUS
  <2>2. Min(T) \in T /\ \A n \in T : Min(T) <= n
    BY <2>1, MinLeast
  <2> QED
    BY <2>2 DEF Distance
<1>3. \A e \in Within(E, S, depth) : Shares(E, S, depth)[e] = Share(Distance(e, E, S, depth))
  BY DEF Shares
<1> QED
  BY <1>1, <1>2, <1>3 DEF Measured

LEMMA CountedOnce ==
    ASSUME TypeOKSearch, WalkSound
    PROVE  EntitiesCountOnce
<1> SUFFICES ASSUME walk.at = "answer", NEW m \in Notes
             PROVE  /\ walk.score[m] <= Reckoned(m, walk.ever, mentions, walk.seeds, walk.depth, {})
                    /\ walk.score[m] >= Reckoned(m, walk.kept, walk.mentioned, walk.seeds, walk.depth, walk.skipped)
  BY DEF EntitiesCountOnce
<1>1. /\ walk.seeds \subseteq Entities /\ walk.hop \in Nat /\ walk.depth \in Nat /\ walk.hop <= walk.depth
      /\ walk.todo = {} /\ Within(walk.kept, walk.seeds, walk.depth) \subseteq Met
      /\ Pending = {} /\ Met \subseteq Entities
  BY DEF WalkSound, TypeOKSearch, WalkStates, Pending, Met
<1>2. PICK d, A : Counted(d, A)
  BY DEF WalkSound
<1> DEFINE w == Weights(d)
<1>3. /\ A[m] \subseteq Met /\ A[m] \subseteq Entities
      /\ \A e \in A[m] : <<m, e>> \in mentions /\ d[e] \in Nat /\ d[e] <= walk.hop /\ e \in Within(walk.ever, walk.seeds, d[e])
      /\ \A e \in Met : <<m, e>> \in walk.mentioned /\ e \notin walk.skipped => e \in A[m]
      /\ walk.score[m] = SumFunctionOnSet(w, A[m])
      /\ \A e \in Entities : w[e] = Share(d[e]) /\ d[e] \in Nat
      /\ \A e \in Met : d[e] <= walk.hop
      /\ \A n \in Nat : n <= walk.hop => \A e \in Within(walk.kept, walk.seeds, n) : d[e] <= n
  BY <1>1, <1>2 DEF Counted, Weights
<1> HIDE DEF w
<1>4. \A S \in SUBSET Entities : IsFiniteSet(S)
  BY EntityAssumption, FS_Subset
<1>5. walk.score[m] <= Reckoned(m, walk.ever, mentions, walk.seeds, walk.depth, {})
  <2> DEFINE W == Within(walk.ever, walk.seeds, walk.depth)
             first(e) == Distance(e, walk.ever, walk.seeds, walk.depth)
             share == Shares(walk.ever, walk.seeds, walk.depth)
             B == {e \in W \ {} : <<m, e>> \in mentions}
  <2>1. /\ W \subseteq Entities
        /\ \A e \in W : /\ first(e) \in 0..walk.depth
                        /\ \A n \in 0..walk.depth : e \in Within(walk.ever, walk.seeds, n) => first(e) <= n
                        /\ share[e] = Share(first(e))
    <3>1. Measured(walk.ever, walk.seeds, walk.depth)
      BY <1>1, Distances
    <3> QED
      BY <3>1 DEF Measured
  <2>2. Reckoned(m, walk.ever, mentions, walk.seeds, walk.depth, {}) = SumFunctionOnSet(share, B)
    BY DEF Reckoned
  <2>3. B = {e \in W : <<m, e>> \in mentions}
    OBVIOUS
  <2> HIDE DEF first, share, B
  <2>4. ASSUME NEW e \in A[m]
        PROVE  e \in W /\ e \in B /\ w[e] <= share[e] /\ w[e] \in Nat
    <3>a. d[e] \in Nat /\ d[e] <= walk.hop /\ e \in Within(walk.ever, walk.seeds, d[e]) /\ e \in Entities
      BY <1>3
    <3>1. d[e] \in 0..walk.depth /\ e \in Within(walk.ever, walk.seeds, d[e]) /\ e \in Entities
      BY <1>1, <3>a
    <3>2. e \in W
      BY <1>1, <3>1, WithinMonotone
    <3>3. first(e) \in Nat /\ first(e) <= d[e] /\ share[e] = Share(first(e))
      BY <2>1, <3>1, <3>2
    <3>4. Share(d[e]) <= Share(first(e)) /\ Share(d[e]) \in Nat
      BY <3>1, <3>3, ShareDecreases
    <3> QED
      BY <1>3, <2>3, <3>1, <3>2, <3>3, <3>4
  <2>5. \A e \in B : share[e] \in Nat
    <3>1. \A e \in W : first(e) \in Nat /\ share[e] = Share(first(e))
      BY <2>1
    <3> QED
      BY <2>3, <3>1, ShareDecreases
  <2>6. IsFiniteSet(B) /\ A[m] \subseteq B
    BY <1>4, <2>1, <2>3, <2>4
  <2>7. SumFunctionOnSet(w, A[m]) <= SumFunctionOnSet(share, B)
    BY <2>4, <2>5, <2>6, SumMonotone
  <2> QED
    BY <1>3, <2>2, <2>7
<1>6. walk.score[m] >= Reckoned(m, walk.kept, walk.mentioned, walk.seeds, walk.depth, walk.skipped)
  <2> DEFINE W == Within(walk.kept, walk.seeds, walk.depth)
             first(e) == Distance(e, walk.kept, walk.seeds, walk.depth)
             share == Shares(walk.kept, walk.seeds, walk.depth)
             B == {e \in W \ walk.skipped : <<m, e>> \in walk.mentioned}
  <2>1. /\ W \subseteq Entities
        /\ \A e \in W : /\ first(e) \in 0..walk.depth /\ e \in Within(walk.kept, walk.seeds, first(e))
                        /\ share[e] = Share(first(e))
    <3>1. Measured(walk.kept, walk.seeds, walk.depth)
      BY <1>1, Distances
    <3> QED
      BY <3>1 DEF Measured
  <2>2. Reckoned(m, walk.kept, walk.mentioned, walk.seeds, walk.depth, walk.skipped) = SumFunctionOnSet(share, B)
    BY DEF Reckoned
  <2>3. B = {e \in W \ walk.skipped : <<m, e>> \in walk.mentioned}
    OBVIOUS
  <2> HIDE DEF first, share, B
  <2>4. ASSUME NEW e \in B
        PROVE  e \in A[m] /\ share[e] <= w[e] /\ share[e] \in Nat
    <3>1. e \in W /\ e \notin walk.skipped /\ <<m, e>> \in walk.mentioned
      BY <2>3
    <3>2. e \in Met /\ e \in A[m] /\ e \in Entities
      BY <1>1, <1>3, <3>1
    <3>3. first(e) \in Nat /\ share[e] = Share(first(e)) /\ e \in Within(walk.kept, walk.seeds, first(e))
      BY <2>1, <3>1
    <3>4. d[e] <= first(e) /\ d[e] \in Nat
      <4>1. d[e] \in Nat /\ d[e] <= walk.hop
        BY <1>3, <3>2
      <4>2. CASE first(e) <= walk.hop
        BY <1>3, <3>3, <4>1, <4>2
      <4>3. CASE ~(first(e) <= walk.hop)
        BY <1>1, <3>3, <4>1, <4>3
      <4> QED
        BY <4>2, <4>3, <4>1
    <3>5. Share(first(e)) <= Share(d[e]) /\ Share(first(e)) \in Nat
      BY <3>3, <3>4, ShareDecreases
    <3> QED
      BY <1>3, <3>2, <3>3, <3>5
  <2>5. \A e \in A[m] : w[e] \in Nat
    BY <1>3, ShareDecreases
  <2>6. IsFiniteSet(A[m]) /\ B \subseteq A[m]
    BY <1>3, <1>4, <2>4
  <2>7. SumFunctionOnSet(share, B) <= SumFunctionOnSet(w, A[m])
    BY <2>4, <2>5, <2>6, SumMonotone
  <2>8. SumFunctionOnSet(w, A[m]) \in Nat /\ SumFunctionOnSet(share, B) \in Nat
    <3>1. IsFiniteSet(B)
      BY <2>6, FS_Subset
    <3> QED
      BY <2>4, <2>5, <2>6, <3>1, SumType
  <2> QED
    BY <1>3, <2>2, <2>7, <2>8
<1> QED
  BY <1>5, <1>6

\* What a step leaves of the searches; the steps of a traversal follow.
LEMMA ChangeSound ==
    ASSUME TypeOKSearch, WalkSound, NEW E \in SUBSET Possible, Change(E), mentions \subseteq mentions'
    PROVE  WalkSound'
<1>1. CASE ~Searching(walk)
  BY <1>1 DEF Change, Searching, WalkSound
<1>2. CASE Searching(walk)
  <2>1. walk' = [walk EXCEPT !.ever = walk.ever \cup E, !.kept = walk.kept \cap E] /\ edges' = E /\ walk.at # "idle"
    BY <1>2 DEF Change, Seen, Searching
  <2>2. /\ walk'.at = walk.at /\ walk'.seeds = walk.seeds /\ walk'.depth = walk.depth /\ walk'.hop = walk.hop
        /\ walk'.frontier = walk.frontier /\ walk'.visited = walk.visited /\ walk'.todo = walk.todo
        /\ walk'.score = walk.score /\ walk'.mentioned = walk.mentioned /\ walk'.skipped = walk.skipped
        /\ walk'.ever = walk.ever \cup E /\ walk'.kept = walk.kept \cap E
        /\ walk.depth \in Nat /\ walk.hop \in Nat
    BY <2>1 DEF TypeOKSearch, WalkStates
  <2>3. Pending' = Pending /\ Met' = Met
    BY <2>2 DEF Pending, Met
  <2>4. /\ \A n \in Nat : Within(walk'.kept, walk.seeds, n) \subseteq Within(walk.kept, walk.seeds, n)
        /\ \A n \in Nat : Within(walk.ever, walk.seeds, n) \subseteq Within(walk'.ever, walk.seeds, n)
    BY <2>2, WithinMoreEdges
  <2>5. \A a, b : Joined(walk'.kept, a, b) => Joined(walk.kept, a, b)
    BY <2>2 DEF Joined
  <2>6. PICK d, A : Counted(d, A)
    BY <2>1 DEF WalkSound
  <2>7. Counted(d, A)'
    <3>1. \A e \in Met : d[e] \in Nat
      BY <2>6 DEF Counted, TypeOKSearch, WalkStates, Met, Pending
    <3>2. \A e \in Met : d[e] <= walk.hop /\ e \in Within(walk'.ever, walk.seeds, d[e])
      BY <2>4, <2>6, <3>1 DEF Counted
    <3>3. \A n \in Nat : n <= walk.hop =>
             \A e \in Within(walk'.kept, walk.seeds, n) : e \in Met /\ d[e] <= n
      BY <2>4, <2>6 DEF Counted
    <3>4. \A m \in Notes : \A e \in A[m] : <<m, e>> \in mentions'
      BY <2>6 DEF Counted
    <3> QED
      BY <2>2, <2>3, <2>6, <3>2, <3>3, <3>4 DEF Counted
  <2>8. \E f, B : Counted(f, B)'
    BY <2>7
  <2>9. /\ walk'.kept \subseteq edges' /\ edges' \subseteq walk'.ever /\ walk'.mentioned \subseteq mentions'
        /\ walk'.seeds \subseteq Met' /\ walk'.frontier \subseteq Met' /\ walk'.hop <= walk'.depth
        /\ \A a \in Met' \ walk'.frontier, b \in Entities : Joined(walk'.kept, a, b) => b \in Met'
    BY <2>1, <2>2, <2>3, <2>5 DEF WalkSound
  <2>10. walk'.at = "answer" => walk'.todo = {} /\ Within(walk'.kept, walk'.seeds, walk'.depth) \subseteq Met'
    BY <2>1, <2>2, <2>3, <2>4 DEF WalkSound
  <2> QED
    BY <2>1, <2>2, <2>8, <2>9, <2>10 DEF WalkSound
<1> QED
  BY <1>1, <1>2

\* A traversal starts at its seeds.
LEMMA TraverseSound ==
    ASSUME TypeOKSearch, NEW seeds \in SUBSET Entities, NEW depth \in Depths, NEW limit \in Limits,
           Traverse(seeds, depth, limit)
    PROVE  WalkSound'
<1> DEFINE d == [e \in Entities |-> 0]
           A == [m \in Notes |-> {}]
<1>1. /\ walk'.at = "hops" /\ walk'.seeds = seeds /\ walk'.visited = seeds /\ walk'.frontier = seeds
      /\ walk'.todo = {<<e, e>> : e \in seeds} /\ walk'.ever = edges /\ walk'.kept = edges
      /\ walk'.mentioned = mentions /\ walk'.hop = 0 /\ walk'.skipped = {}
      /\ walk'.score = [m \in Notes |-> 0] /\ walk'.depth = OrDefault(depth, DefaultDepth)
      /\ edges' = edges /\ mentions' = mentions
  BY DEF Traverse, NoWalk
<1>2. OrDefault(depth, DefaultDepth) \in Nat
  BY NumberAssumption DEF OrDefault
<1>3. Pending' = seeds /\ Met' = seeds
  <2>1. \A e : (\E s \in {<<x, x>> : x \in seeds} : s[2] = e) <=> e \in seeds
    <3> DEFINE diagonal == {<<x, x>> : x \in seeds}
    <3>1. \A s : s \in diagonal <=> \E x \in seeds : s = <<x, x>>
      BY Zenon
    <3>2. \A x : <<x, x>>[2] = x
      OBVIOUS
    <3> HIDE DEF diagonal
    <3>3. \A e \in seeds : <<e, e>> \in diagonal
      BY <3>1, Zenon
    <3>4. \A s \in diagonal : s[2] \in seeds
      BY <3>1, <3>2
    <3>5. \A e : (\E s \in diagonal : s[2] = e) <=> e \in seeds
      BY <3>2, <3>3, <3>4, Zenon
    <3> QED
      BY <3>5 DEF diagonal
  <2> QED
    BY <1>1, <2>1 DEF Pending, Met
<1>4. Within(edges, seeds, 0) = seeds
  BY WithinSteps
<1>5. SumFunctionOnSet(Weights(d), {}) = 0
  BY SumSteps, FS_EmptySet
<1>6. /\ d \in [Entities -> Nat] /\ A \in [Notes -> SUBSET Entities]
      /\ \A e \in Entities : d[e] = 0
      /\ \A m \in Notes : A[m] = {}
  OBVIOUS
<1> HIDE DEF d, A
<1>7. \A n \in Nat : n <= 0 => n = 0
  OBVIOUS
<1>8. Counted(d, A)'
  BY <1>1, <1>3, <1>4, <1>5, <1>6, <1>7 DEF Counted, Weights
<1>9. \E f, B : Counted(f, B)'
  BY <1>8
<1> QED
  BY <1>1, <1>2, <1>3, <1>9 DEF WalkSound

\* An entity's memories are read, those of mine, or they are skipped, and the
\* entity counts from then on.
LEMMA ReadSound ==
    ASSUME TypeOKSearch, WalkSound, NEW x \in walk.todo, NEW mine \in SUBSET Notes, NEW skipped,
           walk.skipped \subseteq skipped,
           \A m \in mine : <<m, x[2]>> \in mentions,
           \A m \in Notes \ mine : x[2] \in skipped \/ <<m, x[2]>> \notin walk.mentioned,
           NEW score, score = [m \in Notes |-> IF m \in mine THEN walk.score[m] + Share(walk.hop) ELSE walk.score[m]],
           Proceed([walk EXCEPT !.todo = Once(walk.todo, x), !.visited = walk.visited \cup {x[2]},
                                !.score = score, !.skipped = skipped])
    PROVE  WalkSound'
<1> DEFINE e == x[2]
<1>1. /\ walk \in WalkStates /\ walk.at # "idle" /\ e \in Entities /\ e \in Pending
      /\ walk.hop \in Nat /\ walk.score \in [Notes -> Nat]
      /\ Met \subseteq Entities /\ Pending \subseteq Met
  <2>1. walk \in WalkStates
    BY DEF TypeOKSearch
  <2>2. x[2] \in Entities /\ walk.at # "idle"
    BY <2>1 DEF WalkStates, WalkSound
  <2> QED
    BY <2>1, <2>2 DEF WalkStates, Pending, Met
<1>2. /\ walk'.at = walk.at /\ walk'.seeds = walk.seeds /\ walk'.depth = walk.depth /\ walk'.hop = walk.hop
      /\ walk'.frontier = walk.frontier /\ walk'.visited = walk.visited \cup {e} /\ walk'.todo = Once(walk.todo, x)
      /\ walk'.score = score /\ walk'.mentioned = walk.mentioned /\ walk'.skipped = skipped
      /\ walk'.ever = walk.ever /\ walk'.kept = walk.kept
      /\ edges' = edges /\ mentions' = mentions
  BY <1>1 DEF Proceed, WalkStates
<1>3. Pending' = Pending \ {e}
  <2>1. \A s : s \in Once(walk.todo, x) <=> s \in walk.todo /\ s[2] # e
    BY DEF Once
  <2> QED
    BY <1>2, <2>1 DEF Pending
<1>4. Met' = Met
  BY <1>1, <1>2, <1>3 DEF Met
<1>5. walk.at = "hops"
  BY <1>1 DEF WalkSound, WalkStates
<1>6. PICK d, A : Counted(d, A)
  BY <1>1 DEF WalkSound
<1> DEFINE B == [m \in Notes |-> IF m \in mine THEN A[m] \cup {e} ELSE A[m]]
<1>7. /\ d \in [Entities -> Nat] /\ A \in [Notes -> SUBSET Entities] /\ d[e] = walk.hop
      /\ \A m \in Notes : A[m] \subseteq Met \ Pending /\ walk.score[m] = SumFunctionOnSet(Weights(d), A[m])
  BY <1>1, <1>6 DEF Counted
<1>8. B \in [Notes -> SUBSET Entities]
  BY <1>1, <1>7
<1>9. ASSUME NEW m \in Notes
      PROVE  /\ B[m] \subseteq Met \ (Pending \ {e})
             /\ \A f \in B[m] : <<m, f>> \in mentions
             /\ \A f \in Met \ (Pending \ {e}) : <<m, f>> \in walk.mentioned /\ f \notin skipped => f \in B[m]
             /\ score[m] = SumFunctionOnSet(Weights(d), B[m])
  <2>1. /\ A[m] \subseteq Met \ Pending /\ \A f \in A[m] : <<m, f>> \in mentions
        /\ \A f \in Met \ Pending : <<m, f>> \in walk.mentioned /\ f \notin walk.skipped => f \in A[m]
    BY <1>6 DEF Counted
  <2>2. B[m] = IF m \in mine THEN A[m] \cup {e} ELSE A[m]
    OBVIOUS
  <2> HIDE DEF B
  <2>3. B[m] \subseteq Met \ (Pending \ {e})
    BY <1>1, <2>1, <2>2
  <2>4. \A f \in B[m] : <<m, f>> \in mentions
    BY <2>1, <2>2
  <2>5. ASSUME NEW f \in Met \ (Pending \ {e}), <<m, f>> \in walk.mentioned, f \notin skipped
        PROVE  f \in B[m]
    <3>1. CASE f = e
      BY <2>2, <2>5, <3>1
    <3>2. CASE f # e
      BY <2>1, <2>2, <2>5, <3>2
    <3> QED
      BY <3>1, <3>2
  <2>6. score[m] = SumFunctionOnSet(Weights(d), B[m])
    <3>1. CASE m \notin mine
      BY <1>7, <2>2, <3>1
    <3>2. CASE m \in mine
      <4>1. \A f \in Entities : Weights(d)[f] = Share(d[f]) /\ Weights(d)[f] \in Nat
        BY <1>7, ShareDecreases DEF Weights
      <4>2. A[m] \subseteq Entities /\ IsFiniteSet(A[m]) /\ e \notin A[m]
        BY <1>1, <2>1, EntityAssumption, FS_Subset
      <4>3. Weights(d)[e] = Share(walk.hop) /\ Weights(d)[e] \in Nat /\ \A f \in A[m] : Weights(d)[f] \in Nat
        BY <1>1, <1>7, <4>1, <4>2
      <4>4. SumFunctionOnSet(Weights(d), A[m] \cup {e}) = Weights(d)[e] + SumFunctionOnSet(Weights(d), A[m])
        BY <4>2, <4>3, SumAdd
      <4>5. score[m] = walk.score[m] + Share(walk.hop) /\ walk.score[m] \in Nat
        BY <1>1, <3>2
      <4> QED
        BY <1>7, <2>2, <3>2, <4>3, <4>4, <4>5
    <3> QED
      BY <3>1, <3>2
  <2> QED
    BY <2>3, <2>4, <2>5, <2>6
<1> HIDE DEF B, e
<1>10. Counted(d, B)'
  BY <1>1, <1>2, <1>3, <1>4, <1>6, <1>8, <1>9 DEF Counted
<1>11. \E f, C : Counted(f, C)'
  BY <1>10
<1> QED
  BY <1>1, <1>2, <1>4, <1>5, <1>11 DEF WalkSound

LEMMA ReadsSound ==
    ASSUME TypeOKSearch, WalkSound, NEW x \in walk.todo, ReadMemories(x) \/ ReadFails(x)
    PROVE  WalkSound'
<1>1. walk \in WalkStates /\ walk.score \in [Notes -> Nat]
  BY DEF TypeOKSearch, WalkStates
<1>2. CASE ReadMemories(x)
  <2> DEFINE mine == {m \in Notes : <<m, x[2]>> \in mentions}
             score == [m \in Notes |-> IF m \in mine THEN walk.score[m] + Share(walk.hop) ELSE walk.score[m]]
  <2>1. Proceed([walk EXCEPT !.todo = Once(walk.todo, x), !.visited = walk.visited \cup {x[2]}, !.score = score])
    BY <1>2 DEF ReadMemories
  <2>2. [walk EXCEPT !.todo = Once(walk.todo, x), !.visited = walk.visited \cup {x[2]}, !.score = score]
        = [walk EXCEPT !.todo = Once(walk.todo, x), !.visited = walk.visited \cup {x[2]},
                       !.score = score, !.skipped = walk.skipped]
    BY <1>1 DEF WalkStates
  <2>3. walk.mentioned \subseteq mentions
    BY <1>1 DEF WalkSound, WalkStates
  <2>4. /\ mine \in SUBSET Notes /\ \A m \in mine : <<m, x[2]>> \in mentions
        /\ \A m \in Notes \ mine : x[2] \in walk.skipped \/ <<m, x[2]>> \notin walk.mentioned
    BY <2>3
  <2> HIDE DEF mine
  <2>5. Proceed([walk EXCEPT !.todo = Once(walk.todo, x), !.visited = walk.visited \cup {x[2]},
                       !.score = score, !.skipped = walk.skipped])
    BY <2>1, <2>2
  <2> QED
    BY <2>4, <2>5, ReadSound
<1>3. CASE ReadFails(x)
  <2>1. PICK some \in SUBSET {m \in Notes : <<m, x[2]>> \in mentions} :
           Proceed([walk EXCEPT !.todo = Once(@, x), !.visited = @ \cup {x[2]}, !.skipped = @ \cup {x[2]},
                                !.score = [m \in Notes |-> IF m \in some THEN @[m] + Share(walk.hop) ELSE @[m]]])
    BY <1>3 DEF ReadFails
  <2> DEFINE skipped == walk.skipped \cup {x[2]}
             score == [m \in Notes |-> IF m \in some THEN walk.score[m] + Share(walk.hop) ELSE walk.score[m]]
  <2>2. Proceed([walk EXCEPT !.todo = Once(walk.todo, x), !.visited = walk.visited \cup {x[2]}, !.skipped = skipped,
                             !.score = score])
    BY <2>1
  <2>3. [walk EXCEPT !.todo = Once(walk.todo, x), !.visited = walk.visited \cup {x[2]}, !.skipped = skipped, !.score = score]
        = [walk EXCEPT !.todo = Once(walk.todo, x), !.visited = walk.visited \cup {x[2]},
                       !.score = score, !.skipped = skipped]
    BY <1>1 DEF WalkStates
  <2>4. Proceed([walk EXCEPT !.todo = Once(walk.todo, x), !.visited = walk.visited \cup {x[2]},
                       !.score = score, !.skipped = skipped])
    BY <2>2, <2>3
  <2>5. some \in SUBSET Notes /\ (\A m \in some : <<m, x[2]>> \in mentions) /\ walk.skipped \subseteq skipped /\ x[2] \in skipped
    BY <2>1
  <2> HIDE DEF skipped
  <2> QED
    BY <2>4, <2>5, ReadSound
<1> QED
  BY <1>2, <1>3

\* The next depth of a traversal.
LEMMA ReadEdgesSound ==
    ASSUME TypeOKSearch, WalkSound, NEW lost, ReadEdges(lost)
    PROVE  WalkSound'
<1> DEFINE rows == edges \ lost
           kept == walk.kept \ lost
           steps == StepsFrom(rows, walk.frontier, walk.visited)
           new == {s[2] : s \in steps}
<1>1. /\ walk \in WalkStates /\ walk.at = "hops" /\ walk.todo = {} /\ walk.hop + 1 <= walk.depth
      /\ walk.hop \in Nat /\ walk.depth \in Nat /\ walk.visited \subseteq Entities
  BY DEF ReadEdges, MoreEntities, TypeOKSearch, WalkStates
<1>2. walk' = [walk EXCEPT !.hop = @ + 1, !.frontier = new, !.todo = steps, !.kept = kept] /\ UNCHANGED <<edges, mentions>>
  BY DEF ReadEdges, RowsMissed
<1>3. \A e : e \in new <=> \E s \in steps : s[2] = e
  BY Zenon
<1> HIDE DEF rows, kept
<1>4. /\ \A s \in steps : s[1] \in walk.frontier /\ s[2] \in Entities \ walk.visited /\ Joined(rows, s[1], s[2])
      /\ \A a \in walk.frontier, b \in Entities \ walk.visited : Joined(rows, a, b) => <<a, b>> \in steps
  BY StepsJoin
<1> HIDE DEF new, steps
<1>5. /\ walk'.at = walk.at /\ walk'.seeds = walk.seeds /\ walk'.depth = walk.depth /\ walk'.hop = walk.hop + 1
      /\ walk'.frontier = new /\ walk'.visited = walk.visited /\ walk'.todo = steps
      /\ walk'.score = walk.score /\ walk'.mentioned = walk.mentioned /\ walk'.skipped = walk.skipped
      /\ walk'.ever = walk.ever /\ walk'.kept = kept
      /\ edges' = edges /\ mentions' = mentions
  BY <1>1, <1>2 DEF WalkStates
<1>6. Pending = {} /\ Met = walk.visited
  BY <1>1 DEF Pending, Met
<1>7. new \subseteq Entities /\ new \cap Met = {}
  BY <1>3, <1>4, <1>6
<1>8. Pending' = new /\ Met' = Met \cup new
  <2>1. Pending' = new
    BY <1>3, <1>5, <1>7 DEF Pending
  <2> QED
    BY <1>5, <1>6, <2>1 DEF Met
<1>9. /\ walk.kept \subseteq edges /\ edges \subseteq walk.ever /\ walk.mentioned \subseteq mentions
      /\ walk.seeds \subseteq Met /\ walk.frontier \subseteq Met
      /\ \A a \in Met \ walk.frontier, b \in Entities : Joined(walk.kept, a, b) => b \in Met
  BY <1>1 DEF WalkSound
<1>b. kept \subseteq rows /\ rows \subseteq edges /\ kept \subseteq walk.kept
  BY <1>9 DEF rows, kept
<1>c. \A a, b : Joined(kept, a, b) => Joined(walk.kept, a, b) /\ Joined(rows, a, b)
  BY <1>b DEF Joined
<1>10. ASSUME NEW a \in Met, NEW b \in Entities, Joined(kept, a, b)
       PROVE  b \in Met \cup new
  <2>1. CASE a \notin walk.frontier
    BY <1>9, <1>10, <1>c, <2>1
  <2>2. CASE a \in walk.frontier /\ b \notin Met
    <3>1. Joined(rows, a, b)
      BY <1>10, <1>c
    <3>2. <<a, b>> \in steps /\ <<a, b>>[2] = b
      BY <1>4, <1>6, <2>2, <3>1
    <3> QED
      BY <1>3, <3>2
  <2> QED
    BY <2>1, <2>2
<1>11. PICK d, A : Counted(d, A)
  BY <1>1 DEF WalkSound
<1>12. /\ d \in [Entities -> Nat] /\ A \in [Notes -> SUBSET Entities]
       /\ \A e \in Met : d[e] <= walk.hop /\ e \in Within(walk.ever, walk.seeds, d[e])
       /\ \A n \in Nat : n <= walk.hop => \A e \in Within(walk.kept, walk.seeds, n) : e \in Met /\ d[e] <= n
       /\ \A m \in Notes : /\ A[m] \subseteq Met
                           /\ \A e \in A[m] : <<m, e>> \in mentions
                           /\ \A e \in Met : <<m, e>> \in walk.mentioned /\ e \notin walk.skipped => e \in A[m]
                           /\ walk.score[m] = SumFunctionOnSet(Weights(d), A[m])
  BY <1>6, <1>11 DEF Counted
<1>a. PICK f : f = [e \in Entities |-> IF e \in new THEN walk.hop + 1 ELSE d[e]]
  OBVIOUS
<1>13. /\ f \in [Entities -> Nat] /\ \A e \in new : f[e] = walk.hop + 1
       /\ \A e \in Met : f[e] = d[e] /\ d[e] \in Nat
  BY <1>1, <1>6, <1>7, <1>12, <1>a
<1>14. ASSUME NEW e \in Met \cup new
       PROVE  f[e] <= walk.hop + 1 /\ e \in Within(walk.ever, walk.seeds, f[e])
  <2>1. CASE e \in Met
    <3>1. f[e] = d[e] /\ d[e] <= walk.hop /\ d[e] \in Nat
      BY <1>12, <1>13, <2>1
    <3> QED
      BY <1>1, <1>12, <2>1, <3>1
  <2>2. CASE e \in new
    <3>1. PICK s \in steps : s[2] = e
      BY <1>3, <2>2
    <3> DEFINE a == s[1]
    <3>2. a \in Met /\ Joined(rows, a, e) /\ e \in Entities
      BY <1>4, <1>9, <3>1
    <3> HIDE DEF a
    <3>3. d[a] \in Nat /\ d[a] <= walk.hop /\ a \in Within(walk.ever, walk.seeds, d[a])
      BY <1>12, <1>13, <3>2
    <3>4. a \in Within(walk.ever, walk.seeds, walk.hop)
      BY <1>1, <3>3, WithinMonotone
    <3>5. Joined(walk.ever, a, e)
      BY <1>9, <1>b, <3>2 DEF Joined
    <3>6. e \in Spread(walk.ever, Within(walk.ever, walk.seeds, walk.hop))
      BY <3>2, <3>4, <3>5, SpreadJoined
    <3>a. walk.hop \in Nat
      BY <1>1
    <3>b. Within(walk.ever, walk.seeds, walk.hop + 1) = Spread(walk.ever, Within(walk.ever, walk.seeds, walk.hop))
      BY <3>a, WithinSteps, Zenon
    <3>7. e \in Within(walk.ever, walk.seeds, walk.hop + 1)
      BY <3>6, <3>b
    <3>8. f[e] = walk.hop + 1
      BY <1>13, <2>2
    <3> QED
      BY <1>1, <3>7, <3>8
  <2> QED
    BY <2>1, <2>2
<1>d. \A n \in Nat : Within(kept, walk.seeds, n) \subseteq Within(walk.kept, walk.seeds, n)
  BY <1>b, WithinMoreEdges
<1>15. ASSUME NEW n \in Nat, n <= walk.hop + 1, NEW e \in Within(kept, walk.seeds, n)
       PROVE  e \in Met \cup new /\ f[e] <= n
  <2>1. CASE n <= walk.hop
    BY <1>12, <1>13, <1>15, <1>d, <2>1
  <2>2. CASE ~(n <= walk.hop)
    <3>1. n = walk.hop + 1
      BY <1>1, <1>15, <2>2
    <3>2. e \in Spread(kept, Within(kept, walk.seeds, walk.hop))
      BY <1>1, <3>1, WithinSteps
    <3>3. e \in Met \cup new
      <4>1. \A a \in Within(kept, walk.seeds, walk.hop) : a \in Met
        BY <1>1, <1>12, <1>d
      <4>2. \/ e \in Within(kept, walk.seeds, walk.hop)
            \/ e \in Entities /\ \E a \in Within(kept, walk.seeds, walk.hop) : Joined(kept, a, e)
        BY <3>2, SpreadJoined
      <4> QED
        BY <1>10, <4>1, <4>2
    <3> QED
      BY <1>14, <3>1, <3>3
  <2> QED
    BY <2>1, <2>2
<1>16. ASSUME NEW m \in Notes
       PROVE  walk.score[m] = SumFunctionOnSet(Weights(f), A[m])
  <2>1. A[m] \subseteq Met /\ A[m] \subseteq Entities
    BY <1>12
  <2>2. IsFiniteSet(A[m])
    BY <2>1, EntityAssumption, FS_Subset
  <2>3. \A e \in A[m] : Weights(d)[e] \in Nat /\ Weights(f)[e] = Weights(d)[e]
    <3>1. \A e \in A[m] : Weights(d)[e] = Share(d[e]) /\ Weights(f)[e] = Share(f[e])
      BY <2>1 DEF Weights
    <3>2. \A e \in A[m] : f[e] = d[e] /\ d[e] \in Nat
      BY <1>13, <2>1
    <3> QED
      BY <3>1, <3>2, ShareDecreases
  <2>4. SumFunctionOnSet(Weights(f), A[m]) = SumFunctionOnSet(Weights(d), A[m])
    BY <2>2, <2>3, SumSame
  <2> QED
    BY <1>12, <2>4
<1>17. (Met \cup new) \ new = Met
  BY <1>7
<1>18. Counted(f, A)'
  <2>1. \A e \in Met' : f[e] <= walk'.hop /\ e \in Within(walk'.ever, walk'.seeds, f[e])
    BY <1>5, <1>8, <1>14
  <2>2. \A e \in Pending' : f[e] = walk'.hop
    BY <1>5, <1>8, <1>13
  <2>3. \A n \in Nat : n <= walk'.hop => \A e \in Within(walk'.kept, walk'.seeds, n) : e \in Met' /\ f[e] <= n
    BY <1>5, <1>8, <1>15
  <2>4. \A m \in Notes :
           /\ A[m] \subseteq Met' \ Pending'
           /\ \A e \in A[m] : <<m, e>> \in mentions'
           /\ \A e \in Met' \ Pending' : <<m, e>> \in walk'.mentioned /\ e \notin walk'.skipped => e \in A[m]
           /\ walk'.score[m] = SumFunctionOnSet(Weights(f), A[m])
    <3>1. Met' \ Pending' = Met
      BY <1>8, <1>17
    <3> QED
      BY <1>5, <1>12, <1>16, <3>1
  <2> QED
    BY <1>12, <1>13, <2>1, <2>2, <2>3, <2>4 DEF Counted
<1>19. \E g, B : Counted(g, B)'
  BY <1>18
<1> QED
  <2>1. walk'.kept \subseteq edges' /\ edges' \subseteq walk'.ever /\ walk'.mentioned \subseteq mentions'
    BY <1>5, <1>9, <1>b
  <2>2. walk'.seeds \subseteq Met' /\ walk'.frontier \subseteq Met' /\ walk'.hop <= walk'.depth
    BY <1>1, <1>5, <1>8, <1>9
  <2>3. \A a \in Met' \ walk'.frontier, b \in Entities : Joined(walk'.kept, a, b) => b \in Met'
    BY <1>5, <1>8, <1>10, <1>17
  <2> QED
    BY <1>1, <1>5, <1>19, <2>1, <2>2, <2>3 DEF WalkSound

\* When there is nowhere to go on, every entity within reach has been met.
LEMMA RankSound ==
    ASSUME TypeOKSearch, WalkSound, Rank
    PROVE  WalkSound'
<1>1. /\ walk.at = "hops" /\ walk.todo = {} /\ ~MoreEntities /\ walk.hop <= walk.depth
      /\ walk.hop \in Nat /\ walk.depth \in Nat
  BY DEF Rank, WalkSound, TypeOKSearch, WalkStates
<1>2. /\ walk'.at = "answer" /\ walk'.seeds = walk.seeds /\ walk'.depth = walk.depth /\ walk'.hop = walk.hop
      /\ walk'.frontier = walk.frontier /\ walk'.visited = walk.visited /\ walk'.todo = walk.todo
      /\ walk'.score = walk.score /\ walk'.mentioned = walk.mentioned /\ walk'.skipped = walk.skipped
      /\ walk'.ever = walk.ever /\ walk'.kept = walk.kept
      /\ edges' = edges /\ mentions' = mentions
  BY DEF Rank, Proceed, TypeOKSearch, WalkStates
<1>3. Pending' = Pending /\ Met' = Met
  BY <1>2 DEF Pending, Met
<1>4. PICK d, A : Counted(d, A)
  BY <1>1 DEF WalkSound
<1>5. Counted(d, A)'
  BY <1>2, <1>3, <1>4 DEF Counted
<1>6. Within(walk.kept, walk.seeds, walk.depth) \subseteq Met
  <2>1. CASE walk.hop = walk.depth
    BY <1>1, <1>4, <2>1 DEF Counted
  <2>2. CASE walk.hop # walk.depth
    <3>1. walk.frontier = {}
      BY <1>1, <2>2 DEF MoreEntities
    <3>2. /\ walk.seeds \subseteq Met
          /\ \A a \in Met, b \in Entities : Joined(walk.kept, a, b) => b \in Met
      BY <1>1, <3>1 DEF WalkSound
    <3>3. Spread(walk.kept, Met) \subseteq Met
      BY <3>2, SpreadJoined
    <3> QED
      BY <1>1, <3>2, <3>3, WithinClosed
  <2> QED
    BY <2>1, <2>2
<1>7. \E f, B : Counted(f, B)'
  BY <1>5
<1>8. /\ walk.kept \subseteq edges /\ edges \subseteq walk.ever /\ walk.mentioned \subseteq mentions
      /\ walk.seeds \subseteq Met /\ walk.frontier \subseteq Met
      /\ \A a \in Met \ walk.frontier, b \in Entities : Joined(walk.kept, a, b) => b \in Met
  BY <1>1 DEF WalkSound
<1> QED
  BY <1>1, <1>2, <1>3, <1>6, <1>7, <1>8 DEF WalkSound

LEMMA WalkSoundStep ==
    ASSUME TypeOKSearch, WalkSound, [NextSearch]_graphVars
    PROVE  WalkSound'
<1>1. CASE UNCHANGED <<walk, edges, mentions>>
  <2>1. Pending' = Pending /\ Met' = Met
    BY <1>1 DEF Pending, Met
  <2>2. \A d, A : Counted(d, A)' <=> Counted(d, A)
    BY <1>1, <2>1 DEF Counted
  <2>3. (\E d, A : Counted(d, A))' <=> \E d, A : Counted(d, A)
    BY <2>2
  <2> QED
    BY <1>1, <2>1, <2>3 DEF WalkSound
<1>2. CASE (\E x \in Mentioned : Mention(x[1], x[2])) \/ (\E e \in Possible : Relate(e)) \/ RebuildGraph
  <2>1. \E E \in SUBSET Possible : Change(E) /\ mentions \subseteq mentions'
    <3>1. ASSUME NEW x \in Mentioned, Mention(x[1], x[2])
          PROVE  edges \in SUBSET Possible /\ Change(edges) /\ mentions \subseteq mentions'
      BY <3>1 DEF Mention, TypeOKSearch
    <3>2. ASSUME NEW e \in Possible, Relate(e)
          PROVE  edges \cup {e} \in SUBSET Possible /\ Change(edges \cup {e}) /\ mentions \subseteq mentions'
      BY <3>2 DEF Relate, TypeOKSearch
    <3>3. ASSUME RebuildGraph
          PROVE  \E E \in SUBSET Possible : Change(E) /\ mentions \subseteq mentions'
      <4>1. PICK related \in SUBSET {e \in Possible : Ends(e) \subseteq known} : Change((edges \cap Typed) \cup related)
        BY <3>3 DEF RebuildGraph
      <4>2. (edges \cap Typed) \cup related \in SUBSET Possible /\ mentions \subseteq mentions'
        BY <3>3 DEF TypeOKSearch, RebuildGraph
      <4> QED
        BY <4>1, <4>2
    <3> QED
      BY <1>2, <3>1, <3>2, <3>3
  <2> QED
    BY <2>1, ChangeSound
<1>3. CASE (\E s, t \in Entities, depth \in Depths : FindPath(s, t, depth))
           \/ ResolveSource \/ ResolveTarget \/ ResolveFails \/ NoneFound \/ ExpandFails \/ AnswerPath
           \/ \E lost \in SUBSET edges : Expand(lost)
  <2>1. UNCHANGED <<walk, edges, mentions>>
    BY <1>3 DEF FindPath, ResolveSource, ResolveTarget, ResolveFails, Expand, RowsMissed, NoneFound, ExpandFails,
                AnswerPath, Continue
  <2> QED
    BY <1>1, <2>1
<1>4. CASE EdgesFail \/ AnswerWalk
  <2>1. walk'.at = "idle" /\ walk'.todo = {}
    BY <1>4 DEF EdgesFail, AnswerWalk, Proceed, NoWalk
  <2> QED
    BY <2>1 DEF WalkSound
<1>5. CASE \E seeds \in (SUBSET Entities) \ {{}}, depth \in Depths, limit \in Limits :
             Cardinality(seeds) <= MaxSeeds /\ Traverse(seeds, depth, limit)
  BY <1>5, TraverseSound
<1>6. CASE UNCHANGED graphVars
  BY <1>1, <1>6 DEF graphVars
<1> QED
  BY <1>2, <1>3, <1>4, <1>5, <1>6, ReadsSound, ReadEdgesSound, RankSound DEF NextSearch

\* For any graph, any seeds, any writes between the SELECTs and whichever rows an
\* error cuts off, a memory that Traverse answers has counted every entity that
\* mentions it once, no less than the edges that stayed and were read tell and no
\* more than all edges of the time (traverse.go:75-185).
THEOREM EntitiesAreCountedOnce == SpecSearch => []EntitiesCountOnce
<1>1. InitSearch => TypeOKSearch /\ PathSound /\ WalkSound
  BY InitTypeOK DEF InitSearch, PathSound, NoPath, WalkSound, NoWalk
<1>2. TypeOKSearch /\ PathSound /\ WalkSound /\ [NextSearch]_graphVars => TypeOKSearch' /\ PathSound' /\ WalkSound'
  BY TypeOKStep, PathSoundStep, WalkSoundStep
<1>3. TypeOKSearch /\ WalkSound => EntitiesCountOnce
  BY CountedOnce
<1> QED
  BY <1>1, <1>2, <1>3, PTL DEF SpecSearch
=============================================================================
