-------------------------- MODULE ConfigEditProofs --------------------------
(***************************************************************************)
(* Theorems about ConfigEdit for any scopes, env files, variables and      *)
(* sessions: what a person did in the editor is what the summary says and  *)
(* what can be saved, a scope declares a variable once, a value is in      *)
(* clear only where a person marked it, and a session without a change     *)
(* writes nothing but what it read, and that only where the text was not   *)
(* as rendered.  What lies behind them is that Ordered orders, and that    *)
(* each of the editor's operations takes one declaration away and gives    *)
(* one at most.                                                            *)
(***************************************************************************)
EXTENDS ConfigEdit, FiniteSetTheorems, SequenceTheorems, TLAPS

-----------------------------------------------------------------------------
(* Orders.                                                                 *)

\* before is a strict total order of S.
TotalOrder(S, before) ==
    /\ \A x \in S : <<x, x>> \notin before
    /\ \A x, y, z \in S : <<x, y>> \in before /\ <<y, z>> \in before => <<x, z>> \in before
    /\ \A x, y \in S : x = y \/ <<x, y>> \in before \/ <<y, x>> \in before

Rank(S, before, x) == Cardinality({y \in S : <<y, x>> \in before})

\* What is before has fewer before it, and nothing has all of S before it.
LEMMA RankGrows ==
    ASSUME NEW S, IsFiniteSet(S), NEW before, TotalOrder(S, before), NEW x \in S
    PROVE  /\ Rank(S, before, x) \in 0 .. Cardinality(S) - 1
           /\ \A y \in S : <<x, y>> \in before => Rank(S, before, x) < Rank(S, before, y)
<1> DEFINE Below(y) == {z \in S : <<z, y>> \in before}
<1>1. /\ IsFiniteSet(Below(x)) /\ IsFiniteSet(Below(x) \cup {x})
      /\ Cardinality(Below(x)) \in Nat
      /\ Cardinality(Below(x) \cup {x}) = Cardinality(Below(x)) + 1
  <2>1. Below(x) \in SUBSET S /\ x \notin Below(x)
    BY DEF TotalOrder
  <2>2. IsFiniteSet(Below(x))
    BY <2>1, FS_Subset
  <2> HIDE DEF Below
  <2> QED
    BY <2>1, <2>2, FS_AddElement, FS_CardinalityType
<1>2. Cardinality(Below(x)) + 1 <= Cardinality(S) /\ Cardinality(S) \in Nat
  <2>1. Below(x) \cup {x} \in SUBSET S
    OBVIOUS
  <2>2. Cardinality(Below(x) \cup {x}) <= Cardinality(S)
    BY <2>1, FS_Subset
  <2>3. Cardinality(S) \in Nat
    BY FS_CardinalityType
  <2> HIDE DEF Below
  <2> QED
    BY <2>2, <2>3, <1>1
<1>3. ASSUME NEW y \in S, <<x, y>> \in before
      PROVE  Cardinality(Below(x)) < Cardinality(Below(y))
  <2>1. Below(x) \cup {x} \in SUBSET Below(y) /\ Below(y) \in SUBSET S
    BY <1>3 DEF TotalOrder
  <2>2. IsFiniteSet(Below(y))
    BY <2>1, FS_Subset
  <2>3. Cardinality(Below(y)) \in Nat /\ Cardinality(Below(x) \cup {x}) <= Cardinality(Below(y))
    BY <2>1, <2>2, FS_Subset, FS_CardinalityType
  <2> HIDE DEF Below
  <2> QED
    BY <1>1, <2>3
<1>4. \A y \in S : Rank(S, before, y) = Cardinality(Below(y))
  BY DEF Rank
<1> HIDE DEF Below
<1>5. Rank(S, before, x) \in 0 .. Cardinality(S) - 1
  BY <1>1, <1>2, <1>4
<1> QED
  BY <1>3, <1>4, <1>5

\* So every rank below the number of elements is taken, and Ordered is S in order.
LEMMA OrderedOrders ==
    ASSUME NEW S, IsFiniteSet(S), NEW before, TotalOrder(S, before)
    PROVE  LET order == Ordered(S, before)
           IN  /\ Cardinality(S) \in Nat
               /\ order \in [1 .. Cardinality(S) -> S]
               /\ \A n \in 1 .. Cardinality(S) : Rank(S, before, order[n]) = n - 1
               /\ \A m, n \in 1 .. Cardinality(S) : m < n => <<order[m], order[n]>> \in before
               /\ \A x \in S : \E n \in 1 .. Cardinality(S) : order[n] = x
<1> DEFINE N == Cardinality(S)
           rank == [x \in S |-> Rank(S, before, x) + 1]
           order == Ordered(S, before)
<1>1. N \in Nat
  BY FS_CardinalityType
<1>2. \A x \in S : Rank(S, before, x) \in 0 .. N - 1
  BY RankGrows
<1>3. \A x, y \in S : Rank(S, before, x) = Rank(S, before, y) => x = y
  <2> SUFFICES ASSUME NEW x \in S, NEW y \in S, x # y
               PROVE  Rank(S, before, x) # Rank(S, before, y)
    OBVIOUS
  <2>1. <<x, y>> \in before \/ <<y, x>> \in before
    BY DEF TotalOrder
  <2>2. Rank(S, before, x) < Rank(S, before, y) \/ Rank(S, before, y) < Rank(S, before, x)
    BY <2>1, RankGrows
  <2> QED
    BY <1>1, <1>2, <2>2
<1> HIDE DEF N
<1>4. rank \in Injection(S, 1 .. N)
  <2>1. rank \in [S -> 1 .. N]
    BY <1>1, <1>2
  <2>2. \A x, y \in S : rank[x] = rank[y] => x = y
    BY <1>1, <1>2, <1>3
  <2> QED
    BY <2>1, <2>2 DEF Injection, IsInjective
<1>5. IsFiniteSet(1 .. N) /\ Cardinality(1 .. N) = N
  BY <1>1, FS_Interval
<1>6. rank \in Surjection(S, 1 .. N)
  <2> HIDE DEF rank
  <2> QED
    BY <1>4, <1>5, FS_Injection DEF N
<1>7. \A n \in 1 .. N : \E x \in S : Rank(S, before, x) = n - 1
  <2> SUFFICES ASSUME NEW n \in 1 .. N
               PROVE  \E x \in S : Rank(S, before, x) = n - 1
    OBVIOUS
  <2>1. PICK x \in S : rank[x] = n
    BY <1>6 DEF Surjection
  <2> QED
    BY <1>1, <1>2, <2>1
<1>8. order = [n \in 1 .. N |-> CHOOSE x \in S : Rank(S, before, x) = n - 1]
  BY DEF Ordered, Rank, N
<1> HIDE DEF order, rank
<1>9. \A n \in 1 .. N : order[n] \in S /\ Rank(S, before, order[n]) = n - 1
  <2> SUFFICES ASSUME NEW n \in 1 .. N
               PROVE  order[n] \in S /\ Rank(S, before, order[n]) = n - 1
    OBVIOUS
  <2>1. order[n] = CHOOSE x \in S : Rank(S, before, x) = n - 1
    BY <1>8
  <2> QED
    BY <1>7, <2>1
<1>10. order \in [1 .. N -> S]
  BY <1>8, <1>9
<1>11. ASSUME NEW m \in 1 .. N, NEW n \in 1 .. N, m < n
       PROVE  <<order[m], order[n]>> \in before
  <2>1. order[m] # order[n] /\ ~(<<order[n], order[m]>> \in before)
    <3>1. Rank(S, before, order[m]) < Rank(S, before, order[n])
      BY <1>1, <1>9, <1>11
    <3>2. ~(Rank(S, before, order[n]) < Rank(S, before, order[m]))
      BY <1>1, <1>9, <1>11
    <3>3. order[m] \in S /\ order[n] \in S
      BY <1>9
    <3> QED
      BY <1>1, <1>9, <1>11, <3>1, <3>2, <3>3, RankGrows
  <2> QED
    BY <1>9, <2>1 DEF TotalOrder
<1>12. ASSUME NEW x \in S
       PROVE  \E n \in 1 .. N : order[n] = x
  <2>1. Rank(S, before, x) + 1 \in 1 .. N
    BY <1>1, <1>2
  <2>2. Rank(S, before, order[Rank(S, before, x) + 1]) = Rank(S, before, x)
    BY <1>1, <1>2, <1>9, <2>1
  <2>3. order[Rank(S, before, x) + 1] = x
    BY <1>3, <1>9, <2>1, <2>2
  <2> QED
    BY <2>1, <2>3
<1> QED
  BY <1>1, <1>9, <1>10, <1>11, <1>12 DEF N, order
-----------------------------------------------------------------------------
(* Declarations in order.                                                  *)

\* The order in which declarations are rendered, which has each of them once.
InOrder(declarations) ==
    \A k, m \in DOMAIN declarations :
        k < m => Place[declarations[k].var] < Place[declarations[m].var]

LEMMA Places == \A v \in Variables : Place[v] \in Nat
BY VariablesAssumption

LEMMA DeclarationFields ==
    ASSUME NEW d \in Declaration
    PROVE  /\ d.var \in Variables /\ d.sensitive \in BOOLEAN
           /\ d.clear \in Short \cup Long \cup {None} /\ Place[d.var] \in Nat
BY Places DEF Declaration

LEMMA UpTo ==
    \A n \in Nat : IsFiniteSet(1 .. n) /\ Cardinality(1 .. n) = n
BY FS_Interval

\* sortedVariableDeclarations has the same declarations, and in order if it is
\* given each variable once.
LEMMA SortedIsInOrder ==
    ASSUME NEW ds \in Seq(Declaration)
    PROVE  /\ Sorted(ds) \in Seq(Declaration)
           /\ \A n \in DOMAIN Sorted(ds) : \E k \in DOMAIN ds : Sorted(ds)[n] = ds[k]
           /\ (\A k, m \in DOMAIN ds : ds[k].var = ds[m].var => k = m) => InOrder(Sorted(ds))
<1> DEFINE N == Len(ds)
           places == DOMAIN ds
           before == {p \in places \X places :
                        LET d == ds[p[1]]
                            e == ds[p[2]]
                        IN  Place[d.var] < Place[e.var] \/ (d.var = e.var /\ p[1] < p[2])}
           order == Ordered(places, before)
<1>1. N \in Nat /\ places = 1 .. N /\ \A k \in places : ds[k] \in Declaration
  OBVIOUS
<1>2. \A k \in places : k \in Nat /\ ds[k].var \in Variables /\ Place[ds[k].var] \in Nat
  BY <1>1, DeclarationFields
<1>3. \A k, m \in places :
        <<k, m>> \in before <=>
          \/ Place[ds[k].var] < Place[ds[m].var]
          \/ ds[k].var = ds[m].var /\ k < m
  OBVIOUS
<1>4. \A k, m \in places : Place[ds[k].var] = Place[ds[m].var] => ds[k].var = ds[m].var
  BY <1>2, VariablesAssumption
<1>5. IsFiniteSet(places) /\ Cardinality(places) = N
  BY <1>1, UpTo
<1>6. Sorted(ds) = [n \in DOMAIN order |-> ds[order[n]]]
  BY DEF Sorted
<1> HIDE DEF before, places
<1>7. TotalOrder(places, before)
  <2>1. \A x \in places : <<x, x>> \notin before
    BY <1>2, <1>3
  <2>2. ASSUME NEW x \in places, NEW y \in places, NEW z \in places,
               <<x, y>> \in before, <<y, z>> \in before
        PROVE  <<x, z>> \in before
    <3> DEFINE u == ds[x].var
               v == ds[y].var
               w == ds[z].var
    <3>1. Place[u] \in Nat /\ Place[v] \in Nat /\ Place[w] \in Nat
          /\ x \in Nat /\ y \in Nat /\ z \in Nat
      BY <1>2
    <3>2. /\ Place[u] < Place[v] \/ (u = v /\ x < y)
          /\ Place[v] < Place[w] \/ (v = w /\ y < z)
      BY <1>3, <2>2
    <3>3. <<x, z>> \in before <=> Place[u] < Place[w] \/ (u = w /\ x < z)
      BY <1>3
    <3> HIDE DEF u, v, w
    <3> QED
      BY <3>1, <3>2, <3>3
  <2>3. ASSUME NEW x \in places, NEW y \in places
        PROVE  x = y \/ <<x, y>> \in before \/ <<y, x>> \in before
    BY <1>2, <1>3, <1>4
  <2> QED
    BY <2>1, <2>2, <2>3 DEF TotalOrder
<1>8. /\ order \in [1 .. N -> places]
      /\ \A m, n \in 1 .. N : m < n => <<order[m], order[n]>> \in before
  BY <1>5, <1>7, OrderedOrders
<1> HIDE DEF order
<1>9. Sorted(ds) = [n \in 1 .. N |-> ds[order[n]]]
  BY <1>6, <1>8
<1>10. Sorted(ds) \in Seq(Declaration)
  BY <1>1, <1>8, <1>9
<1>11. \A n \in DOMAIN Sorted(ds) : \E k \in DOMAIN ds : Sorted(ds)[n] = ds[k]
  BY <1>8, <1>9 DEF places
<1>12. ASSUME \A k, m \in DOMAIN ds : ds[k].var = ds[m].var => k = m
       PROVE  InOrder(Sorted(ds))
  <2> SUFFICES ASSUME NEW m \in 1 .. N, NEW n \in 1 .. N, m < n
               PROVE  Place[ds[order[m]].var] < Place[ds[order[n]].var]
    BY <1>9 DEF InOrder
  <2>1. order[m] \in places /\ order[n] \in places /\ <<order[m], order[n]>> \in before
    BY <1>8
  <2>2. ~(ds[order[m]].var = ds[order[n]].var /\ order[m] < order[n])
    BY <1>2, <1>12, <2>1 DEF places
  <2> QED
    BY <1>3, <2>1, <2>2
<1> QED
  BY <1>10, <1>11, <1>12

\* What is in order stays as it is.
LEMMA SortedKeepsOrder ==
    ASSUME NEW ds \in Seq(Declaration), InOrder(ds)
    PROVE  Sorted(ds) = ds
<1> DEFINE N == Len(ds)
           places == DOMAIN ds
           before == {p \in places \X places :
                        LET d == ds[p[1]]
                            e == ds[p[2]]
                        IN  Place[d.var] < Place[e.var] \/ (d.var = e.var /\ p[1] < p[2])}
           order == Ordered(places, before)
<1>1. N \in Nat /\ places = 1 .. N /\ \A k \in places : ds[k] \in Declaration
  OBVIOUS
<1>2. \A k \in places : k \in Nat /\ ds[k].var \in Variables /\ Place[ds[k].var] \in Nat
  BY <1>1, DeclarationFields
<1>3. \A k, m \in places : <<k, m>> \in before <=> k < m
  <2> SUFFICES ASSUME NEW k \in places, NEW m \in places
               PROVE  <<k, m>> \in before <=> k < m
    OBVIOUS
  <2>1. <<k, m>> \in before <=>
          \/ Place[ds[k].var] < Place[ds[m].var]
          \/ ds[k].var = ds[m].var /\ k < m
    OBVIOUS
  <2>2. k \in Nat /\ m \in Nat /\ Place[ds[k].var] \in Nat /\ Place[ds[m].var] \in Nat
    BY <1>2
  <2>3. k < m => Place[ds[k].var] < Place[ds[m].var]
    BY DEF InOrder
  <2>4. m < k => Place[ds[m].var] < Place[ds[k].var]
    BY DEF InOrder
  <2> HIDE DEF before, places
  <2>5. CASE k = m
    BY <2>1, <2>2, <2>5
  <2>6. CASE k < m
    BY <2>1, <2>3, <2>6
  <2>7. CASE m < k
    <3>1. ds[k].var # ds[m].var /\ ~(Place[ds[k].var] < Place[ds[m].var]) /\ ~(k < m)
      BY <2>2, <2>4, <2>7
    <3> QED
      BY <2>1, <3>1
  <2> QED
    BY <2>2, <2>5, <2>6, <2>7
<1>4. IsFiniteSet(places) /\ Cardinality(places) = N
  BY <1>1, UpTo
<1>5. Sorted(ds) = [n \in DOMAIN order |-> ds[order[n]]]
  BY DEF Sorted
<1> HIDE DEF before
<1>6. TotalOrder(places, before)
  BY <1>1, <1>3 DEF TotalOrder
<1>7. order \in [1 .. N -> places] /\ \A n \in 1 .. N : Rank(places, before, order[n]) = n - 1
  BY <1>4, <1>6, OrderedOrders
<1>8. \A k \in 1 .. N : Rank(places, before, k) = k - 1
  <2> SUFFICES ASSUME NEW k \in 1 .. N
               PROVE  Rank(places, before, k) = k - 1
    OBVIOUS
  <2>1. {y \in places : <<y, k>> \in before} = 1 .. k - 1
    BY <1>1, <1>3
  <2>2. Cardinality(1 .. k - 1) = k - 1
    BY <1>1, FS_Interval
  <2> QED
    BY <2>1, <2>2 DEF Rank
<1> HIDE DEF order, places
<1>9. \A n \in 1 .. N : order[n] = n
  <2> SUFFICES ASSUME NEW n \in 1 .. N
               PROVE  order[n] = n
    OBVIOUS
  <2>1. order[n] \in 1 .. N
    BY <1>1, <1>7
  <2>2. Rank(places, before, order[n]) = order[n] - 1 /\ Rank(places, before, order[n]) = n - 1
    BY <1>7, <1>8, <2>1
  <2> QED
    BY <2>1, <2>2
<1>10. Sorted(ds) = [n \in 1 .. N |-> ds[n]]
  BY <1>5, <1>7, <1>9
<1> QED
  BY <1>1, <1>10

\* The declarations without one of them.
LEMMA RemoveAtLeaves ==
    ASSUME NEW T, NEW s \in Seq(T), NEW i \in DOMAIN s
    PROVE  RemoveAt(s, i) = [k \in 1 .. Len(s) - 1 |-> IF k < i THEN s[k] ELSE s[k + 1]]
<1> DEFINE front == SubSeq(s, 1, i - 1)
           back == SubSeq(s, i + 1, Len(s))
<1>1. i \in 1 .. Len(s) /\ Len(s) \in Nat
  OBVIOUS
<1>2. front \in Seq(T) /\ Len(front) = i - 1 /\ \A k \in 1 .. i - 1 : front[k] = s[k]
  BY <1>1
<1>3. back \in Seq(T) /\ Len(back) = Len(s) - i /\ \A k \in 1 .. Len(s) - i : back[k] = s[k + i]
  BY <1>1
<1> HIDE DEF front, back
<1>4. /\ front \o back \in Seq(T) /\ Len(front \o back) = Len(s) - 1
      /\ \A k \in 1 .. Len(s) - 1 :
            (front \o back)[k] = IF k < i THEN front[k] ELSE back[k - (i - 1)]
  <2>1. front \o back \in Seq(T) /\ Len(front \o back) = Len(front) + Len(back)
    BY <1>2, <1>3, ConcatProperties
  <2>2. \A k \in 1 .. Len(front) + Len(back) :
          (front \o back)[k] = IF k <= Len(front) THEN front[k] ELSE back[k - Len(front)]
    BY <1>2, <1>3, ConcatProperties
  <2>3. Len(front) + Len(back) = Len(s) - 1
    BY <1>1, <1>2, <1>3
  <2>4. \A k \in 1 .. Len(s) - 1 : k <= Len(front) <=> k < i
    BY <1>1, <1>2
  <2> QED
    BY <1>2, <2>1, <2>2, <2>3, <2>4
<1>5. \A k \in 1 .. Len(s) - 1 : (front \o back)[k] = IF k < i THEN s[k] ELSE s[k + 1]
  <2> SUFFICES ASSUME NEW k \in 1 .. Len(s) - 1
               PROVE  (front \o back)[k] = IF k < i THEN s[k] ELSE s[k + 1]
    OBVIOUS
  <2>1. CASE k < i
    BY <1>1, <1>2, <1>4, <2>1
  <2>2. CASE ~(k < i)
    <3>1. k - (i - 1) \in 1 .. Len(s) - i /\ (k - (i - 1)) + i = k + 1
      BY <1>1, <2>2
    <3> QED
      BY <1>3, <1>4, <2>2, <3>1
  <2> QED
    BY <2>1, <2>2
<1>6. RemoveAt(s, i) = front \o back
  BY DEF RemoveAt, front, back
<1> DEFINE all == front \o back
<1>7. all \in [1 .. Len(s) - 1 -> T]
  BY <1>4, LenProperties
<1> QED
  BY <1>5, <1>6, <1>7
-----------------------------------------------------------------------------
(* The inductive invariant.                                                *)

Distinct(project) ==
    \A i, k \in DOMAIN project : project[i].name = project[k].name => i = k

\* What is sensitive is not in clear.
Hidden(project) ==
    \A i \in DOMAIN project : \A k \in DOMAIN project[i].vars :
        project[i].vars[k].sensitive => project[i].vars[k].clear = None

Arranged(project) == \A i \in DOMAIN project : InOrder(project[i].vars)

\* What is not sensitive is among these scopes and variables.
ShownIn(project, places) ==
    \A i \in DOMAIN project : \A k \in DOMAIN project[i].vars :
        ~project[i].vars[k].sensitive => <<project[i].name, project[i].vars[k].var>> \in places

\* What Save takes for marked.
Noted(changes) ==
    {<<c.to, c.var>> : c \in {x \in Range(changes) : x.to # None /\ ~x.sensitive}}

Stored(project) ==
    /\ Distinct(project) /\ Hidden(project) /\ Once(project)
    /\ ShownIn(project, marked)

\* What is rendered is in order; what a person has written need not be.
FilesStored ==
    /\ Stored(file) /\ (asRendered => Arranged(file))
    /\ push # None => Stored(push) /\ Arranged(push)

\* The editor holds what can be rendered and is shown as the changes say, and
\* the place it is at is there.
EditorHolds ==
    editor # None =>
        /\ Stored(editor.read) /\ (editor.asRendered => Arranged(editor.read))
        /\ Distinct(editor.project) /\ Hidden(editor.project) /\ Once(editor.project)
        /\ ShownIn(editor.project, marked \cup Noted(editor.changes))
        /\ editor.changes = <<>> => editor.project = editor.read
        /\ AllMapped(editor.read) => AllMapped(editor.project)
        /\ editor.screen # "variables" =>
              /\ editor.scope \in DOMAIN editor.project
              /\ editor.variable \in DOMAIN editor.project[editor.scope].vars

EditInv == EditTypeOK /\ FilesStored /\ EditorHolds /\ SummaryTellsTheEdits

-----------------------------------------------------------------------------
(* What the operations of the editor do to a project.                      *)

\* q is p without the declaration at place k of scope s, and with those given,
\* each in a scope.
Replaces(p, q, s, k, given) ==
    /\ q \in Seq(Scope) /\ DOMAIN q = DOMAIN p
    /\ \A j \in DOMAIN p : q[j].name = p[j].name /\ p[j].files \subseteq q[j].files
    /\ \A j \in DOMAIN p : \A m \in DOMAIN q[j].vars :
          \/ \E n \in DOMAIN p[j].vars : <<j, n>> # <<s, k>> /\ q[j].vars[m] = p[j].vars[n]
          \/ <<j, q[j].vars[m]>> \in given
    /\ \A j \in DOMAIN p : \A n \in DOMAIN p[j].vars :
          <<j, n>> # <<s, k>> => \E m \in DOMAIN q[j].vars : q[j].vars[m] = p[j].vars[n]
    /\ \A g \in given :
          g[1] \in DOMAIN p /\ \E m \in DOMAIN q[g[1]].vars : q[g[1]].vars[m] = g[2]
    /\ Once(q)

LEMMA ScopeFields ==
    ASSUME NEW p \in Seq(Scope), NEW i \in DOMAIN p
    PROVE  /\ i \in 1 .. Len(p) /\ p[i] \in Scope
           /\ p[i].name \in ScopeNames /\ p[i].files \in SUBSET Files
           /\ p[i].vars \in Seq(Declaration)
           /\ DOMAIN p[i].vars = 1 .. Len(p[i].vars) /\ Len(p[i].vars) \in Nat
           /\ \A k \in DOMAIN p[i].vars :
                 p[i].vars[k] \in Declaration /\ p[i].vars[k].var \in Variables
<1>1. i \in 1 .. Len(p) /\ p[i] \in Scope
  OBVIOUS
<1>2. p[i].name \in ScopeNames /\ p[i].files \in SUBSET Files /\ p[i].vars \in Seq(Declaration)
  BY <1>1 DEF Scope
<1>3. \A k \in DOMAIN p[i].vars : p[i].vars[k] \in Declaration
  BY <1>2
<1> QED
  BY <1>1, <1>2, <1>3, DeclarationFields

\* p with other files and declarations in scope s.
With(p, s, fs, vs) == [p EXCEPT ![s] = [name |-> p[s].name, files |-> fs, vars |-> vs]]

LEMMA WithScope ==
    ASSUME NEW p \in Seq(Scope), NEW s \in DOMAIN p,
           NEW fs \in SUBSET Files, NEW vs \in Seq(Declaration)
    PROVE  LET q == With(p, s, fs, vs)
           IN  /\ q \in Seq(Scope) /\ DOMAIN q = DOMAIN p
               /\ q[s].name = p[s].name /\ q[s].files = fs /\ q[s].vars = vs
               /\ \A j \in DOMAIN p : j # s => q[j] = p[j]
<1> DEFINE r == [name |-> p[s].name, files |-> fs, vars |-> vs]
           q == With(p, s, fs, vs)
<1>1. r \in Scope
  BY ScopeFields DEF Scope
<1>2. r.name = p[s].name /\ r.files = fs /\ r.vars = vs
  OBVIOUS
<1> HIDE DEF r
<1>3. q = [p EXCEPT ![s] = r]
  BY DEF With, r
<1> HIDE DEF q
<1>4. /\ q \in Seq(Scope) /\ DOMAIN q = DOMAIN p /\ q[s] = r
      /\ \A j \in DOMAIN p : j # s => q[j] = p[j]
  BY <1>1, <1>3
<1> QED
  BY <1>2, <1>4 DEF q

LEMMA OtherVars ==
    ASSUME NEW r \in Scope, NEW vs
    PROVE  [r EXCEPT !.vars = vs] = [name |-> r.name, files |-> r.files, vars |-> vs]
BY DEF Scope

WithTheVars(p, s, vs) == [p EXCEPT ![s].vars = vs]

LEMMA WithVars ==
    ASSUME NEW p \in Seq(Scope), NEW s \in DOMAIN p, NEW vs
    PROVE  WithTheVars(p, s, vs) = With(p, s, p[s].files, vs)
<1>1. p[s] \in Scope
  BY ScopeFields
<1> QED
  BY <1>1, OtherVars DEF With, WithTheVars

One(s, d) == {<<s, d>>}

InPlace(p, s, k, d) == [p EXCEPT ![s].vars[k] = d]

LEMMA ReplacedInPlace ==
    ASSUME NEW p \in Seq(Scope), NEW s \in DOMAIN p, NEW k \in DOMAIN p[s].vars,
           NEW d \in Declaration, d.var = p[s].vars[k].var, Once(p)
    PROVE  Replaces(p, InPlace(p, s, k, d), s, k, One(s, d))
<1> DEFINE q == InPlace(p, s, k, d)
           ws == [p[s].vars EXCEPT ![k] = d]
<1>1. /\ ws \in Seq(Declaration) /\ DOMAIN ws = DOMAIN p[s].vars /\ ws[k] = d
      /\ \A m \in DOMAIN ws : m # k => ws[m] = p[s].vars[m]
  BY ScopeFields
<1>2. q = With(p, s, p[s].files, ws) /\ p[s].files \in SUBSET Files
  <2>1. q = WithTheVars(p, s, ws)
    BY DEF InPlace, WithTheVars
  <2> HIDE DEF q, ws
  <2>2. s \in DOMAIN p /\ p[s].files \in SUBSET Files
    BY ScopeFields
  <2>3. WithTheVars(p, s, ws) = With(p, s, p[s].files, ws)
    BY WithVars
  <2> QED
    BY <2>1, <2>2, <2>3
<1> HIDE DEF ws, q
<1>3. q \in Seq(Scope) /\ DOMAIN q = DOMAIN p
  <2>1. ws \in Seq(Declaration)
    BY <1>1
  <2> QED
    BY <1>2, <2>1, WithScope
<1>4. /\ q[s].name = p[s].name /\ q[s].files = p[s].files /\ q[s].vars = ws
      /\ \A j \in DOMAIN p : j # s => q[j] = p[j]
  BY <1>1, <1>2, WithScope
<1>5. \A j \in DOMAIN p : q[j].name = p[j].name /\ p[j].files \subseteq q[j].files
  BY <1>4
<1>6. ASSUME NEW j \in DOMAIN p, NEW m \in DOMAIN q[j].vars
      PROVE  \/ \E n \in DOMAIN p[j].vars : <<j, n>> # <<s, k>> /\ q[j].vars[m] = p[j].vars[n]
             \/ <<j, q[j].vars[m]>> \in {<<s, d>>}
  BY <1>1, <1>4
<1>7. ASSUME NEW j \in DOMAIN p, NEW n \in DOMAIN p[j].vars, <<j, n>> # <<s, k>>
      PROVE  \E m \in DOMAIN q[j].vars : q[j].vars[m] = p[j].vars[n]
  BY <1>1, <1>4, <1>7
<1>8. ASSUME NEW g \in {<<s, d>>}
      PROVE  g[1] \in DOMAIN p /\ \E m \in DOMAIN q[g[1]].vars : q[g[1]].vars[m] = g[2]
  BY <1>1, <1>4
<1>9. Once(q)
  <2>1. \A m \in DOMAIN ws : ws[m].var = p[s].vars[m].var
    BY <1>1
  <2>2. \A j \in DOMAIN p : \A m \in DOMAIN q[j].vars :
          m \in DOMAIN p[j].vars /\ q[j].vars[m].var = p[j].vars[m].var
    BY <1>1, <1>4, <2>1
  <2> QED
    BY <1>3, <2>2 DEF Once
<1> QED
  BY <1>3, <1>5, <1>6, <1>7, <1>8, <1>9 DEF Replaces, One, q

\* The places that stay and where they go.
LEMMA Left ==
    ASSUME NEW vs \in Seq(Declaration), NEW k \in DOMAIN vs
    PROVE  LET ws == RemoveAt(vs, k)
           IN  /\ ws \in Seq(Declaration) /\ DOMAIN ws = 1 .. Len(vs) - 1
               /\ \A m \in DOMAIN ws : \E n \in DOMAIN vs : n # k /\ ws[m] = vs[n]
               /\ \A n \in DOMAIN vs : n # k => \E m \in DOMAIN ws : ws[m] = vs[n]
               /\ (\A m, n \in DOMAIN vs : vs[m].var = vs[n].var => m = n) =>
                     \A m, n \in DOMAIN ws : ws[m].var = ws[n].var => m = n
<1> DEFINE ws == RemoveAt(vs, k)
           to(m) == IF m < k THEN m ELSE m + 1
<1>1. ws = [m \in 1 .. Len(vs) - 1 |-> IF m < k THEN vs[m] ELSE vs[m + 1]]
  BY RemoveAtLeaves
<1>2. DOMAIN vs = 1 .. Len(vs) /\ Len(vs) \in Nat /\ k \in 1 .. Len(vs)
  OBVIOUS
<1> HIDE DEF ws
<1>3. DOMAIN ws = 1 .. Len(vs) - 1
  BY <1>1
<1>4. \A m \in DOMAIN ws : to(m) \in DOMAIN vs /\ to(m) # k /\ ws[m] = vs[to(m)]
  BY <1>1, <1>2
<1>5. \A m, n \in DOMAIN ws : to(m) = to(n) => m = n
  BY <1>2, <1>3
<1>6. ASSUME NEW n \in DOMAIN vs, n # k
      PROVE  \E m \in DOMAIN ws : ws[m] = vs[n]
  <2>1. CASE n < k
    BY <1>1, <1>2, <2>1
  <2>2. CASE ~(n < k)
    <3>1. n - 1 \in DOMAIN ws /\ ~(n - 1 < k) /\ (n - 1) + 1 = n
      BY <1>2, <1>3, <1>6, <2>2
    <3> QED
      BY <1>1, <1>3, <3>1
  <2> QED
    BY <2>1, <2>2
<1>7. ws \in Seq(Declaration)
  <2>1. Len(vs) - 1 \in Nat
    BY <1>2
  <2>2. \A m \in 1 .. Len(vs) - 1 : ws[m] \in Declaration
    BY <1>3, <1>4
  <2> QED
    BY <1>1, <2>1, <2>2
<1>8. ASSUME \A m, n \in DOMAIN vs : vs[m].var = vs[n].var => m = n,
             NEW m \in DOMAIN ws, NEW n \in DOMAIN ws, ws[m].var = ws[n].var
      PROVE  m = n
  <2>1. to(m) \in DOMAIN vs /\ to(n) \in DOMAIN vs /\ vs[to(m)].var = vs[to(n)].var
    BY <1>4, <1>8
  <2> HIDE DEF to
  <2>2. to(m) = to(n)
    BY <1>8, <2>1
  <2> QED
    BY <1>5, <2>2
<1> HIDE DEF to
<1> QED
  BY <1>3, <1>4, <1>6, <1>7, <1>8 DEF ws

Without(p, s, k) == [p EXCEPT ![s].vars = RemoveAt(@, k)]

LEMMA ReplacedByNone ==
    ASSUME NEW p \in Seq(Scope), NEW s \in DOMAIN p, NEW k \in DOMAIN p[s].vars, Once(p)
    PROVE  Replaces(p, Without(p, s, k), s, k, {})
<1> DEFINE q == Without(p, s, k)
           ws == RemoveAt(p[s].vars, k)
<1>1. /\ ws \in Seq(Declaration)
      /\ \A m \in DOMAIN ws : \E n \in DOMAIN p[s].vars : n # k /\ ws[m] = p[s].vars[n]
      /\ \A n \in DOMAIN p[s].vars : n # k => \E m \in DOMAIN ws : ws[m] = p[s].vars[n]
      /\ \A m, n \in DOMAIN ws : ws[m].var = ws[n].var => m = n
  BY ScopeFields, Left DEF Once
<1>2. q = With(p, s, p[s].files, ws) /\ p[s].files \in SUBSET Files
  <2>1. q = WithTheVars(p, s, ws)
    BY DEF Without, WithTheVars
  <2> HIDE DEF q, ws
  <2>2. s \in DOMAIN p /\ p[s].files \in SUBSET Files
    BY ScopeFields
  <2>3. WithTheVars(p, s, ws) = With(p, s, p[s].files, ws)
    BY WithVars
  <2> QED
    BY <2>1, <2>2, <2>3
<1> HIDE DEF ws, q
<1>4. q \in Seq(Scope) /\ DOMAIN q = DOMAIN p
  BY <1>1, <1>2, WithScope
<1>5. /\ q[s].name = p[s].name /\ q[s].files = p[s].files /\ q[s].vars = ws
      /\ \A j \in DOMAIN p : j # s => q[j] = p[j]
  BY <1>1, <1>2, WithScope
<1>6. \A j \in DOMAIN p : q[j].name = p[j].name /\ p[j].files \subseteq q[j].files
  BY <1>5
<1>7. ASSUME NEW j \in DOMAIN p, NEW m \in DOMAIN q[j].vars
      PROVE  \E n \in DOMAIN p[j].vars : <<j, n>> # <<s, k>> /\ q[j].vars[m] = p[j].vars[n]
  BY <1>1, <1>5
<1>8. ASSUME NEW j \in DOMAIN p, NEW n \in DOMAIN p[j].vars, <<j, n>> # <<s, k>>
      PROVE  \E m \in DOMAIN q[j].vars : q[j].vars[m] = p[j].vars[n]
  BY <1>1, <1>5, <1>8
<1>9. Once(q)
  BY <1>1, <1>4, <1>5 DEF Once
<1> QED
  BY <1>4, <1>6, <1>7, <1>8, <1>9 DEF Replaces, q

Elsewhere(p, s, k, t) ==
    [p EXCEPT ![s].vars = RemoveAt(@, k), ![t].vars = Append(@, p[s].vars[k]),
              ![t].files = @ \cup {FileOf[p[s].vars[k].var]}]

LEMMA ReplacedElsewhere ==
    ASSUME NEW p \in Seq(Scope), NEW s \in DOMAIN p, NEW k \in DOMAIN p[s].vars,
           NEW t \in DOMAIN p, t # s, Once(p), ~Holds(p[t], p[s].vars[k].var)
    PROVE  /\ Replaces(p, Elsewhere(p, s, k, t), s, k, One(t, p[s].vars[k]))
           /\ FileOf[p[s].vars[k].var] \in Elsewhere(p, s, k, t)[t].files
<1> DEFINE d == p[s].vars[k]
           q == Elsewhere(p, s, k, t)
           ws == RemoveAt(p[s].vars, k)
           us == Append(p[t].vars, d)
           fs == p[t].files \cup {FileOf[d.var]}
<1>1. /\ ws \in Seq(Declaration)
      /\ \A m \in DOMAIN ws : \E n \in DOMAIN p[s].vars : n # k /\ ws[m] = p[s].vars[n]
      /\ \A n \in DOMAIN p[s].vars : n # k => \E m \in DOMAIN ws : ws[m] = p[s].vars[n]
      /\ \A m, n \in DOMAIN ws : ws[m].var = ws[n].var => m = n
  BY ScopeFields, Left DEF Once
<1>2. /\ p[t].vars \in Seq(Declaration) /\ d \in Declaration /\ FileOf[d.var] \in Files
      /\ p[t].files \in SUBSET Files
  BY ScopeFields, VariablesAssumption
<1>3. /\ us \in Seq(Declaration) /\ DOMAIN us = 1 .. Len(p[t].vars) + 1
      /\ DOMAIN p[t].vars = 1 .. Len(p[t].vars) /\ Len(p[t].vars) \in Nat
      /\ us[Len(p[t].vars) + 1] = d
      /\ \A m \in DOMAIN p[t].vars : us[m] = p[t].vars[m]
  BY <1>2
<1> DEFINE r == With(p, s, p[s].files, ws)
<1>4. q = With(r, t, fs, us)
  <2>1. r = [p EXCEPT ![s].vars = ws]
    <3> HIDE DEF ws
    <3> QED
      BY WithVars DEF WithTheVars
  <2>2. q = [[p EXCEPT ![s].vars = ws] EXCEPT ![t] = [p[t] EXCEPT !.vars = us, !.files = fs]]
    BY DEF Elsewhere
  <2>3. p[t] \in Scope
    BY ScopeFields
  <2>4. [p[t] EXCEPT !.vars = us, !.files = fs] = [name |-> p[t].name, files |-> fs, vars |-> us]
    <3> HIDE DEF d, q, us, fs, ws, r
    <3> DEFINE o == [p[t] EXCEPT !.vars = us]
    <3>1. o = [name |-> p[t].name, files |-> p[t].files, vars |-> us]
      BY <2>3, OtherVars
    <3>2. [p[t] EXCEPT !.vars = us, !.files = fs] = [o EXCEPT !.files = fs]
      OBVIOUS
    <3> HIDE DEF o
    <3>3. [o EXCEPT !.files = fs] = [name |-> p[t].name, files |-> fs, vars |-> us]
      BY <3>1
    <3> QED
      BY <3>2, <3>3
  <2>5. r[t].name = p[t].name
    BY DEF With
  <2> HIDE DEF r, q, us, fs, ws
  <2> QED
    BY <2>1, <2>2, <2>4, <2>5 DEF With
<1>5. \A m \in DOMAIN p[t].vars : p[t].vars[m].var # d.var
  BY DEF Holds
<1> HIDE DEF ws, us, q
<1>6. /\ r \in Seq(Scope) /\ DOMAIN r = DOMAIN p
      /\ r[s].name = p[s].name /\ r[s].files = p[s].files /\ r[s].vars = ws
      /\ \A j \in DOMAIN p : j # s => r[j] = p[j]
  BY <1>1, ScopeFields, WithScope
<1>0. fs \in SUBSET Files
  BY <1>2
<1> HIDE DEF r, fs, d
<1>7. q \in Seq(Scope) /\ DOMAIN q = DOMAIN p
  <2>1. us \in Seq(Declaration) /\ t \in DOMAIN r /\ DOMAIN r = DOMAIN p /\ r \in Seq(Scope)
    BY <1>3, <1>6
  <2>2. With(r, t, fs, us) \in Seq(Scope)
    BY <1>0, <2>1, WithScope
  <2>3. DOMAIN With(r, t, fs, us) = DOMAIN r
    BY <1>0, <2>1, WithScope
  <2> QED
    BY <1>4, <2>1, <2>2, <2>3
<1>8. /\ q[s].name = p[s].name /\ q[s].files = p[s].files /\ q[s].vars = ws
      /\ q[t].name = p[t].name /\ q[t].files = fs /\ q[t].vars = us
      /\ \A j \in DOMAIN p : j # s /\ j # t => q[j] = p[j]
  BY <1>0, <1>3, <1>4, <1>6, WithScope
<1>9. \A j \in DOMAIN p : q[j].name = p[j].name /\ p[j].files \subseteq q[j].files
  BY <1>8 DEF fs
<1>10. ASSUME NEW j \in DOMAIN p, NEW m \in DOMAIN q[j].vars
       PROVE  \/ \E n \in DOMAIN p[j].vars : <<j, n>> # <<s, k>> /\ q[j].vars[m] = p[j].vars[n]
              \/ <<j, q[j].vars[m]>> \in {<<t, d>>}
  <2>1. CASE j = t
    <3>0. m \in DOMAIN us
      BY <1>8, <2>1
    <3>1. m \in DOMAIN p[t].vars \/ m = Len(p[t].vars) + 1
      BY <1>3, <3>0
    <3>2. CASE m \in DOMAIN p[t].vars
      <4>1. q[t].vars[m] = p[t].vars[m]
        BY <1>3, <1>8, <3>2
      <4>2. <<t, m>> # <<s, k>>
        OBVIOUS
      <4> QED
        BY <2>1, <3>2, <4>1, <4>2
    <3>3. CASE m = Len(p[t].vars) + 1
      <4>1. q[t].vars[m] = d
        BY <1>3, <1>8, <3>3
      <4> QED
        BY <2>1, <4>1
    <3> QED
      BY <3>1, <3>2, <3>3
  <2>2. CASE j # t
    <3>1. CASE j = s
      <4>1. q[j].vars = ws
        BY <1>8, <3>1
      <4>2. PICK n \in DOMAIN p[s].vars : n # k /\ ws[m] = p[s].vars[n]
        BY <1>1, <4>1
      <4>3. <<s, n>> # <<s, k>>
        BY <4>2
      <4> QED
        BY <3>1, <4>1, <4>2, <4>3
    <3>2. CASE j # s
      <4>1. q[j] = p[j] /\ <<j, m>> # <<s, k>>
        BY <1>8, <2>2, <3>2
      <4> QED
        BY <4>1
    <3> QED
      BY <3>1, <3>2
  <2> QED
    BY <2>1, <2>2
<1>11. ASSUME NEW j \in DOMAIN p, NEW n \in DOMAIN p[j].vars, <<j, n>> # <<s, k>>
       PROVE  \E m \in DOMAIN q[j].vars : q[j].vars[m] = p[j].vars[n]
  <2>1. CASE j = t
    <3>1. n \in DOMAIN us
      BY <1>3, <2>1
    <3> QED
      BY <1>3, <1>8, <2>1, <3>1
  <2>2. CASE j # t
    BY <1>1, <1>8, <1>11, <2>2
  <2> QED
    BY <2>1, <2>2
<1>12. \E m \in DOMAIN q[t].vars : q[t].vars[m] = d
  <2>1. Len(p[t].vars) + 1 \in DOMAIN us
    BY <1>3
  <2> QED
    BY <1>3, <1>8, <2>1
<1>13. Once(q)
  <2> SUFFICES ASSUME NEW j \in DOMAIN p, NEW m \in DOMAIN q[j].vars, NEW n \in DOMAIN q[j].vars,
                      q[j].vars[m].var = q[j].vars[n].var
               PROVE  m = n
    BY <1>7 DEF Once
  <2>1. CASE j = t
    <3>0. m \in DOMAIN us /\ n \in DOMAIN us
      BY <1>8, <2>1
    <3>1. /\ m \in DOMAIN p[t].vars \/ m = Len(p[t].vars) + 1
          /\ n \in DOMAIN p[t].vars \/ n = Len(p[t].vars) + 1
      BY <1>3, <3>0
    <3>2. us[m].var = us[n].var
      BY <1>8, <2>1
    <3>3. CASE m \in DOMAIN p[t].vars /\ n \in DOMAIN p[t].vars
      <4>1. p[t].vars[m].var = p[t].vars[n].var
        BY <1>3, <3>2, <3>3
      <4> QED
        BY <3>3, <4>1 DEF Once
    <3>4. CASE m \in DOMAIN p[t].vars /\ n = Len(p[t].vars) + 1
      <4>1. p[t].vars[m].var = d.var
        BY <1>3, <3>2, <3>4
      <4> QED
        BY <1>5, <3>4, <4>1
    <3>5. CASE n \in DOMAIN p[t].vars /\ m = Len(p[t].vars) + 1
      <4>1. p[t].vars[n].var = d.var
        BY <1>3, <3>2, <3>5
      <4> QED
        BY <1>5, <3>5, <4>1
    <3> QED
      BY <3>1, <3>3, <3>4, <3>5
  <2>2. CASE j # t
    BY <1>1, <1>8, <2>2 DEF Once
  <2> QED
    BY <2>1, <2>2
<1>14. Replaces(p, q, s, k, One(t, d))
  <2>1. \A g \in {<<t, d>>} :
          g[1] \in DOMAIN p /\ \E m \in DOMAIN q[g[1]].vars : q[g[1]].vars[m] = g[2]
    BY <1>12
  <2> QED
    BY <1>7, <1>9, <1>10, <1>11, <1>13, <2>1 DEF Replaces, One
<1>15. FileOf[d.var] \in q[t].files
  BY <1>8 DEF fs
<1> QED
  BY <1>14, <1>15 DEF q, d

\* What is declared, and where.
LEMMA DeclaredMember ==
    ASSUME NEW p
    PROVE  \A x : x \in Declared(p) <=>
              \E i \in DOMAIN p : \E k \in DOMAIN p[i].vars :
                  x = <<p[i].name, p[i].vars[k].var, p[i].vars[k].sensitive>>
BY DEF Declared

\* A line of the summary describes what the project lost and was given.
Describes(c, p, s, k, given) ==
    /\ c \in Change
    /\ c.from = p[s].name /\ c.var = p[s].vars[k].var
    /\ c.to = None <=> given = {}
    /\ \A g \in given :
          /\ g[2].var = c.var /\ g[2].sensitive = c.sensitive /\ c.to = p[g[1]].name
          /\ g[2].sensitive => g[2].clear = None

LEMMA OneGiven ==
    ASSUME NEW p, NEW s, NEW k, NEW t, NEW d, NEW c \in Change, c.to # None,
           c.from = p[s].name, c.var = p[s].vars[k].var, c.to = p[t].name,
           d.var = c.var, d.sensitive = c.sensitive, d.sensitive => d.clear = None
    PROVE  Describes(c, p, s, k, One(t, d))
<1>1. ASSUME NEW g \in {<<t, d>>}
      PROVE  /\ g[2].var = c.var /\ g[2].sensitive = c.sensitive /\ c.to = p[g[1]].name
             /\ g[2].sensitive => g[2].clear = None
  <2>1. g[1] = t /\ g[2] = d
    OBVIOUS
  <2> QED
    BY <2>1, Zenon
<1>2. {<<t, d>>} # {}
  OBVIOUS
<1> QED
  BY <1>1, <1>2, Zenon DEF Describes, One

LEMMA NoneGiven ==
    ASSUME NEW p, NEW s, NEW k, NEW c \in Change, c.to = None,
           c.from = p[s].name, c.var = p[s].vars[k].var
    PROVE  Describes(c, p, s, k, {})
BY DEF Describes

LEMMA ReplacedIsDescribed ==
    ASSUME NEW p \in Seq(Scope), NEW q, NEW s \in DOMAIN p, NEW k \in DOMAIN p[s].vars,
           NEW given, NEW c, Replaces(p, q, s, k, given), Describes(c, p, s, k, given),
           Distinct(p), Once(p)
    PROVE  Declared(q) = {x \in Declared(p) : ~Takes(c, x)}
                            \cup (IF c.to = None THEN {} ELSE {Gives(c)})
<1> DEFINE now == {x \in Declared(p) : ~Takes(c, x)}
                      \cup (IF c.to = None THEN {} ELSE {Gives(c)})
<1>1. ASSUME NEW x \in Declared(q)
      PROVE  x \in now
  <2>0. PICK j \in DOMAIN q : \E m \in DOMAIN q[j].vars :
           x = <<q[j].name, q[j].vars[m].var, q[j].vars[m].sensitive>>
    BY DeclaredMember
  <2>1. PICK m \in DOMAIN q[j].vars :
           x = <<q[j].name, q[j].vars[m].var, q[j].vars[m].sensitive>>
    BY <2>0
  <2>2. j \in DOMAIN p /\ q[j].name = p[j].name
    BY DEF Replaces
  <2>3. CASE \E n \in DOMAIN p[j].vars : <<j, n>> # <<s, k>> /\ q[j].vars[m] = p[j].vars[n]
    <3>1. PICK n \in DOMAIN p[j].vars : <<j, n>> # <<s, k>> /\ q[j].vars[m] = p[j].vars[n]
      BY <2>3
    <3>2. x = <<p[j].name, p[j].vars[n].var, p[j].vars[n].sensitive>>
      BY <2>1, <2>2, <3>1
    <3>3. x \in Declared(p)
      BY <2>2, <3>2, DeclaredMember
    <3>4. ~Takes(c, x)
      <4>1. ASSUME p[j].name = p[s].name, p[j].vars[n].var = p[s].vars[k].var
            PROVE  FALSE
        <5>1. j = s
          BY <2>2, <4>1 DEF Distinct
        <5>2. n = k
          BY <4>1, <5>1 DEF Once
        <5> QED
          BY <3>1, <5>1, <5>2
      <4> QED
        BY <3>2, <4>1 DEF Takes, Describes
    <3> QED
      BY <3>3, <3>4
  <2>4. CASE <<j, q[j].vars[m]>> \in given
    <3>1. q[j].vars[m].var = c.var /\ q[j].vars[m].sensitive = c.sensitive /\ c.to = p[j].name
      BY <2>4 DEF Describes
    <3>2. c.to # None
      BY <2>4 DEF Describes
    <3>3. x = Gives(c)
      BY <2>1, <2>2, <3>1 DEF Gives
    <3> QED
      BY <3>2, <3>3
  <2> QED
    BY <2>2, <2>3, <2>4 DEF Replaces
<1>2. ASSUME NEW x \in Declared(p), ~Takes(c, x)
      PROVE  x \in Declared(q)
  <2>0. PICK j \in DOMAIN p : \E n \in DOMAIN p[j].vars :
           x = <<p[j].name, p[j].vars[n].var, p[j].vars[n].sensitive>>
    BY DeclaredMember
  <2>1. PICK n \in DOMAIN p[j].vars :
           x = <<p[j].name, p[j].vars[n].var, p[j].vars[n].sensitive>>
    BY <2>0
  <2>2. <<j, n>> # <<s, k>>
    <3> SUFFICES ASSUME j = s, n = k
                 PROVE  FALSE
      OBVIOUS
    <3>1. x[1] = c.from /\ x[2] = c.var
      BY <2>1 DEF Describes
    <3> QED
      BY <1>2, <3>1 DEF Takes
  <2>3. PICK m \in DOMAIN q[j].vars : q[j].vars[m] = p[j].vars[n]
    BY <2>2 DEF Replaces
  <2>4. j \in DOMAIN q /\ q[j].name = p[j].name
    BY DEF Replaces
  <2>5. x = <<q[j].name, q[j].vars[m].var, q[j].vars[m].sensitive>>
    BY <2>1, <2>3, <2>4
  <2> QED
    BY <2>4, <2>5, DeclaredMember
<1>3. ASSUME c.to # None
      PROVE  Gives(c) \in Declared(q)
  <2>1. PICK g \in given : TRUE
    BY <1>3 DEF Describes
  <2>2. /\ g[2].var = c.var /\ g[2].sensitive = c.sensitive /\ c.to = p[g[1]].name
    BY DEF Describes
  <2>3. g[1] \in DOMAIN p
    BY DEF Replaces
  <2>4. PICK m \in DOMAIN q[g[1]].vars : q[g[1]].vars[m] = g[2]
    BY DEF Replaces
  <2>5. g[1] \in DOMAIN q /\ q[g[1]].name = p[g[1]].name
    BY <2>3 DEF Replaces
  <2>6. Gives(c) = <<q[g[1]].name, q[g[1]].vars[m].var, q[g[1]].vars[m].sensitive>>
    BY <2>2, <2>4, <2>5 DEF Gives
  <2> QED
    BY <2>4, <2>5, <2>6, DeclaredMember
<1> QED
  BY <1>1, <1>2, <1>3

\* What is rendered stays so: nothing sensitive comes to be in clear, and what
\* is not sensitive was so or is noted.
LEMMA ReplacedIsTidy ==
    ASSUME NEW p \in Seq(Scope), NEW q, NEW s \in DOMAIN p, NEW k \in DOMAIN p[s].vars,
           NEW given, NEW c, Replaces(p, q, s, k, given), Describes(c, p, s, k, given),
           Distinct(p), Hidden(p), NEW shown, NEW more, ShownIn(p, shown), shown \subseteq more,
           c.to # None /\ ~c.sensitive => <<c.to, c.var>> \in more
    PROVE  Distinct(q) /\ Hidden(q) /\ ShownIn(q, more)
<1>1. Distinct(q)
  BY DEF Replaces, Distinct
<1>2. ASSUME NEW j \in DOMAIN q, NEW m \in DOMAIN q[j].vars
      PROVE  /\ q[j].vars[m].sensitive => q[j].vars[m].clear = None
             /\ ~q[j].vars[m].sensitive => <<q[j].name, q[j].vars[m].var>> \in more
  <2>1. j \in DOMAIN p /\ q[j].name = p[j].name
    BY DEF Replaces
  <2>2. CASE \E n \in DOMAIN p[j].vars : <<j, n>> # <<s, k>> /\ q[j].vars[m] = p[j].vars[n]
    <3>1. PICK n \in DOMAIN p[j].vars : q[j].vars[m] = p[j].vars[n]
      BY <2>2
    <3> QED
      BY <2>1, <3>1 DEF Hidden, ShownIn
  <2>3. CASE <<j, q[j].vars[m]>> \in given
    <3>1. /\ q[j].vars[m].var = c.var /\ q[j].vars[m].sensitive = c.sensitive
          /\ c.to = p[j].name
          /\ q[j].vars[m].sensitive => q[j].vars[m].clear = None
      BY <2>3 DEF Describes
    <3>2. c.to # None
      BY <2>3 DEF Describes
    <3> QED
      BY <2>1, <3>1, <3>2
  <2> QED
    BY <2>1, <2>2, <2>3 DEF Replaces
<1> QED
  BY <1>1, <1>2 DEF Hidden, ShownIn

LEMMA ReplacedIsMapped ==
    ASSUME NEW p \in Seq(Scope), NEW q, NEW s, NEW k, NEW given, Replaces(p, q, s, k, given),
           AllMapped(p), \A g \in given : FileOf[g[2].var] \in q[g[1]].files
    PROVE  AllMapped(q)
<1> SUFFICES ASSUME NEW j \in DOMAIN q, NEW m \in DOMAIN q[j].vars
             PROVE  FileOf[q[j].vars[m].var] \in q[j].files
  BY DEF AllMapped
<1>1. j \in DOMAIN p /\ p[j].files \subseteq q[j].files
  BY DEF Replaces
<1>2. CASE \E n \in DOMAIN p[j].vars : <<j, n>> # <<s, k>> /\ q[j].vars[m] = p[j].vars[n]
  <2>1. PICK n \in DOMAIN p[j].vars : q[j].vars[m] = p[j].vars[n]
    BY <1>2
  <2>2. FileOf[p[j].vars[n].var] \in p[j].files
    BY <1>1 DEF AllMapped
  <2> QED
    BY <1>1, <2>1, <2>2
<1>3. CASE <<j, q[j].vars[m]>> \in given
  BY <1>3
<1> QED
  BY <1>1, <1>2, <1>3 DEF Replaces

\* One more line in the summary.
LEMMA OneMore ==
    ASSUME NEW cs \in Seq(Change), NEW c \in Change
    PROVE  /\ Append(cs, c) \in Seq(Change) /\ Append(cs, c) # <<>>
           /\ Noted(cs) \subseteq Noted(Append(cs, c))
           /\ c.to # None /\ ~c.sensitive => <<c.to, c.var>> \in Noted(Append(cs, c))
           /\ \A declared : Replayed(declared, Append(cs, c)) =
                {x \in Replayed(declared, cs) : ~Takes(c, x)}
                    \cup (IF c.to = None THEN {} ELSE {Gives(c)})
<1> DEFINE ds == Append(cs, c)
           N == Len(cs)
<1>1. /\ ds \in Seq(Change) /\ Len(ds) = N + 1 /\ DOMAIN ds = 1 .. N + 1 /\ N \in Nat
      /\ DOMAIN cs = 1 .. N /\ ds[N + 1] = c /\ \A n \in 1 .. N : ds[n] = cs[n]
  OBVIOUS
<1> HIDE DEF ds
<1>2. ds # <<>>
  BY <1>1
<1>3. \A d \in Range(cs) : d \in Range(ds)
  BY <1>1 DEF Range
<1>4. c \in Range(ds)
  <2>1. N + 1 \in DOMAIN ds
    BY <1>1
  <2> QED
    BY <1>1, <2>1 DEF Range
<1>5. Noted(cs) \subseteq Noted(ds)
  BY <1>3 DEF Noted
<1>6. c.to # None /\ ~c.sensitive => <<c.to, c.var>> \in Noted(ds)
  BY <1>4 DEF Noted
<1>7. ASSUME NEW declared
      PROVE  Replayed(declared, ds) = {x \in Replayed(declared, cs) : ~Takes(c, x)}
                                        \cup (IF c.to = None THEN {} ELSE {Gives(c)})
  <2> DEFINE Stands(es, m) ==
               /\ es[m].to # None
               /\ \A later \in m + 1 .. Len(es) : ~Takes(es[later], Gives(es[m]))
  <2>1. \A es, x : x \in Replayed(declared, es) <=>
           \/ x \in declared /\ \A n \in DOMAIN es : ~Takes(es[n], x)
           \/ \E m \in DOMAIN es : Stands(es, m) /\ x = Gives(es[m])
    BY DEF Replayed
  <2>2. \A x : (\A n \in DOMAIN ds : ~Takes(ds[n], x)) <=>
                  (\A n \in DOMAIN cs : ~Takes(cs[n], x)) /\ ~Takes(c, x)
    BY <1>1
  <2>3. ASSUME NEW m \in 1 .. N
        PROVE  Stands(ds, m) <=> Stands(cs, m) /\ ~Takes(c, Gives(cs[m]))
    <3>1. \A later : later \in m + 1 .. N + 1 <=> later \in m + 1 .. N \/ later = N + 1
      BY <1>1
    <3>2. \A later \in m + 1 .. N : ds[later] = cs[later]
      BY <1>1
    <3>3. ds[m] = cs[m]
      BY <1>1
    <3> QED
      BY <1>1, <3>1, <3>2, <3>3
  <2>4. Stands(ds, N + 1) <=> c.to # None
    BY <1>1
  <2> HIDE DEF Stands
  <2>5. \A x : (\E m \in DOMAIN ds : Stands(ds, m) /\ x = Gives(ds[m])) <=>
           \/ (\E m \in DOMAIN cs : Stands(cs, m) /\ x = Gives(cs[m])) /\ ~Takes(c, x)
           \/ c.to # None /\ x = Gives(c)
    <3> SUFFICES ASSUME NEW x
                 PROVE  (\E m \in DOMAIN ds : Stands(ds, m) /\ x = Gives(ds[m])) <=>
                           \/ (\E m \in DOMAIN cs : Stands(cs, m) /\ x = Gives(cs[m])) /\ ~Takes(c, x)
                           \/ c.to # None /\ x = Gives(c)
      OBVIOUS
    <3>1. ASSUME NEW m \in DOMAIN ds, Stands(ds, m), x = Gives(ds[m])
          PROVE  \/ (\E n \in DOMAIN cs : Stands(cs, n) /\ x = Gives(cs[n])) /\ ~Takes(c, x)
                 \/ c.to # None /\ x = Gives(c)
      <4>1. m \in 1 .. N \/ m = N + 1
        BY <1>1
      <4>2. CASE m \in 1 .. N
        BY <1>1, <2>3, <3>1, <4>2
      <4>3. CASE m = N + 1
        BY <1>1, <2>4, <3>1, <4>3
      <4> QED
        BY <4>1, <4>2, <4>3
    <3>2. ASSUME NEW m \in DOMAIN cs, Stands(cs, m), x = Gives(cs[m]), ~Takes(c, x)
          PROVE  \E n \in DOMAIN ds : Stands(ds, n) /\ x = Gives(ds[n])
      <4>1. m \in 1 .. N /\ m \in DOMAIN ds /\ ds[m] = cs[m]
        BY <1>1
      <4> QED
        BY <2>3, <3>2, <4>1
    <3>3. ASSUME c.to # None, x = Gives(c)
          PROVE  \E n \in DOMAIN ds : Stands(ds, n) /\ x = Gives(ds[n])
      <4>1. N + 1 \in DOMAIN ds
        BY <1>1
      <4> QED
        BY <1>1, <2>4, <3>3, <4>1
    <3> QED
      BY <3>1, <3>2, <3>3
  <2>6. \A x : x \in Replayed(declared, ds) <=>
           \/ x \in Replayed(declared, cs) /\ ~Takes(c, x)
           \/ c.to # None /\ x = Gives(c)
    BY <2>1, <2>2, <2>5
  <2> QED
    BY <2>6
<1> QED
  BY <1>1, <1>2, <1>5, <1>6, <1>7 DEF ds
-----------------------------------------------------------------------------
(* What is written.                                                        *)

LEMMA RenderedScopes ==
    ASSUME NEW p \in Seq(Scope)
    PROVE  /\ Rendered(p) \in Seq(Scope) /\ DOMAIN Rendered(p) = DOMAIN p
           /\ \A i \in DOMAIN p : /\ Rendered(p)[i].name = p[i].name
                                  /\ Rendered(p)[i].files = p[i].files
                                  /\ Rendered(p)[i].vars = Sorted(p[i].vars)
<1>1. DOMAIN Rendered(p) = DOMAIN p /\ DOMAIN p = 1 .. Len(p) /\ Len(p) \in Nat
  BY DEF Rendered
<1>2. ASSUME NEW i \in DOMAIN p
      PROVE  /\ Rendered(p)[i] \in Scope
             /\ Rendered(p)[i].name = p[i].name
             /\ Rendered(p)[i].files = p[i].files
             /\ Rendered(p)[i].vars = Sorted(p[i].vars)
  <2> DEFINE vs == Sorted(p[i].vars)
  <2>1. p[i] \in Scope /\ p[i].name \in ScopeNames /\ p[i].files \in SUBSET Files
    BY ScopeFields
  <2>2. vs \in Seq(Declaration)
    BY ScopeFields, SortedIsInOrder
  <2>3. Rendered(p)[i] = [p[i] EXCEPT !.vars = vs]
    BY DEF Rendered
  <2> HIDE DEF vs
  <2>4. Rendered(p)[i] = [name |-> p[i].name, files |-> p[i].files, vars |-> vs]
    BY <2>1, <2>3, OtherVars
  <2>5. [name |-> p[i].name, files |-> p[i].files, vars |-> vs] \in Scope
    BY <2>1, <2>2 DEF Scope
  <2> QED
    BY <2>4, <2>5 DEF vs
<1>3. Rendered(p) \in Seq(Scope)
  <2> DEFINE r == Rendered(p)
  <2>1. r = [i \in 1 .. Len(p) |-> r[i]]
    BY <1>1 DEF Rendered
  <2> HIDE DEF r
  <2>2. \A i \in 1 .. Len(p) : r[i] \in Scope
    BY <1>1, <1>2 DEF r
  <2> QED
    BY <1>1, <2>1, <2>2 DEF r
<1> QED
  BY <1>1, <1>2, <1>3

\* What is in order has each variable once.
LEMMA ArrangedOnce ==
    ASSUME NEW p \in Seq(Scope), Arranged(p)
    PROVE  Once(p)
<1> SUFFICES ASSUME NEW i \in DOMAIN p, NEW k \in DOMAIN p[i].vars, NEW m \in DOMAIN p[i].vars,
                    p[i].vars[k].var = p[i].vars[m].var
             PROVE  k = m
  BY DEF Once
<1>1. k \in Nat /\ m \in Nat /\ Place[p[i].vars[k].var] \in Nat
  BY ScopeFields, Places
<1>2. ~(k < m) /\ ~(m < k)
  BY <1>1 DEF Arranged, InOrder
<1> QED
  BY <1>1, <1>2

LEMMA RenderedIsTidy ==
    ASSUME NEW p \in Seq(Scope), Distinct(p), Hidden(p), Once(p), NEW shown, ShownIn(p, shown)
    PROVE  /\ Distinct(Rendered(p)) /\ Hidden(Rendered(p)) /\ Arranged(Rendered(p))
           /\ Once(Rendered(p)) /\ ShownIn(Rendered(p), shown)
<1> DEFINE r == Rendered(p)
<1>1. /\ DOMAIN r = DOMAIN p
      /\ \A i \in DOMAIN p : r[i].name = p[i].name /\ r[i].vars = Sorted(p[i].vars)
  BY RenderedScopes
<1> HIDE DEF r
<1>2. Distinct(r)
  BY <1>1 DEF Distinct
<1>3. Arranged(r)
  <2> SUFFICES ASSUME NEW i \in DOMAIN p
               PROVE  InOrder(Sorted(p[i].vars))
    BY <1>1 DEF Arranged
  <2>1. p[i].vars \in Seq(Declaration)
    BY ScopeFields
  <2>2. \A k, m \in DOMAIN p[i].vars : p[i].vars[k].var = p[i].vars[m].var => k = m
    BY DEF Once
  <2> QED
    BY <2>1, <2>2, SortedIsInOrder
<1>4. ASSUME NEW i \in DOMAIN r, NEW n \in DOMAIN r[i].vars
      PROVE  \E k \in DOMAIN p[i].vars : r[i].vars[n] = p[i].vars[k]
  BY <1>1, ScopeFields, SortedIsInOrder
<1>5. Hidden(r)
  BY <1>1, <1>4 DEF Hidden
<1>6. ShownIn(r, shown)
  BY <1>1, <1>4 DEF ShownIn
<1>7. Once(r)
  BY <1>3, RenderedScopes, ArrangedOnce DEF r
<1> QED
  BY <1>2, <1>3, <1>5, <1>6, <1>7 DEF r

\* ConfigModified: what is in order is rendered as it is.
LEMMA RenderedAsRead ==
    ASSUME NEW p \in Seq(Scope), Arranged(p)
    PROVE  Rendered(p) = p
<1>1. ASSUME NEW i \in DOMAIN p
      PROVE  [p[i] EXCEPT !.vars = Sorted(@)] = p[i]
  <2>1. p[i] \in Scope
    BY ScopeFields
  <2>2. Sorted(p[i].vars) = p[i].vars
    BY ScopeFields, SortedKeepsOrder DEF Arranged
  <2>3. [p[i] EXCEPT !.vars = Sorted(@)] = [p[i] EXCEPT !.vars = p[i].vars]
    BY <2>2
  <2>4. [p[i] EXCEPT !.vars = p[i].vars] =
          [name |-> p[i].name, files |-> p[i].files, vars |-> p[i].vars]
    BY <2>1, OtherVars
  <2>5. p[i] = [name |-> p[i].name, files |-> p[i].files, vars |-> p[i].vars]
    BY <2>1 DEF Scope
  <2> QED
    BY <2>3, <2>4, <2>5
<1>2. Rendered(p) = [i \in DOMAIN p |-> p[i]]
  BY <1>1 DEF Rendered
<1> QED
  BY <1>2

\* What an env push declares is in order, has its sensitive values hidden, and
\* is sensitive unless it was not before.
LEMMA RedeclaredIsTidy ==
    ASSUME env \in [Variables -> Short \cup Long \cup {Absent, Twice}],
           NEW scope \in Scope, NEW gone \in SUBSET Variables, NEW shown,
           \A v \in Variables : FileOf[v] \in scope.files => env[v] # Twice,
           \A k \in DOMAIN scope.vars :
               /\ scope.vars[k].sensitive => scope.vars[k].clear = None
               /\ ~scope.vars[k].sensitive => <<scope.name, scope.vars[k].var>> \in shown
    PROVE  LET vs == Redeclared(scope, gone)
           IN  /\ vs \in Seq(Declaration) /\ InOrder(vs)
               /\ \A n \in DOMAIN vs :
                     /\ vs[n].sensitive => vs[n].clear = None
                     /\ ~vs[n].sensitive => <<scope.name, vs[n].var>> \in shown
<1> DEFINE here == {v \in Variables : FileOf[v] \in scope.files /\ env[v] # Absent}
           kept == {v \in Variables : Holds(scope, v) /\ v \notin gone}
           before == {p \in Variables \X Variables : Place[p[1]] < Place[p[2]]}
           keys == Ordered(here \cup kept, before)
           N == Cardinality(here \cup kept)
           vs == Redeclared(scope, gone)
<1>1. scope.vars \in Seq(Declaration) /\ scope.name \in ScopeNames
  BY DEF Scope
<1>2. \A k \in DOMAIN scope.vars : scope.vars[k] \in Declaration
  BY <1>1
<1>3. here \subseteq Variables /\ kept \subseteq Variables
  OBVIOUS
<1>4. \A v, w \in Variables : <<v, w>> \in before <=> Place[v] < Place[w]
  OBVIOUS
<1>5. \A v \in Variables :
         Holds(scope, v) => /\ Of(scope, v) \in Declaration /\ Of(scope, v).var = v
                            /\ \E k \in DOMAIN scope.vars : Of(scope, v) = scope.vars[k]
  BY <1>2 DEF Holds, Of
<1>6. vs = [n \in DOMAIN keys |->
              IF keys[n] \in here
              THEN DeclarationFor(scope, keys[n], Sensitivity(scope, keys[n]))
              ELSE Of(scope, keys[n])]
  BY DEF Redeclared
<1>7. \A v \in here : env[v] \in Short \cup Long
  <2> SUFFICES ASSUME NEW v \in here
               PROVE  env[v] \in Short \cup Long
    OBVIOUS
  <2>1. v \in Variables /\ env[v] # Absent /\ env[v] # Twice
    OBVIOUS
  <2> QED
    BY <2>1
<1>8. \A v \in kept : Holds(scope, v)
  OBVIOUS
<1> HIDE DEF before, here, kept, vs
<1>9. TotalOrder(here \cup kept, before)
  <2> SUFFICES ASSUME NEW S, S \subseteq Variables
               PROVE  TotalOrder(S, before)
    BY <1>3
  <2>1. \A x \in S : <<x, x>> \notin before
    BY <1>4, Places
  <2>2. \A x, y, z \in S : <<x, y>> \in before /\ <<y, z>> \in before => <<x, z>> \in before
    BY <1>4, Places
  <2>3. ASSUME NEW x \in S, NEW y \in S
        PROVE  x = y \/ <<x, y>> \in before \/ <<y, x>> \in before
    <3>1. x \in Variables /\ y \in Variables /\ Place[x] \in Nat /\ Place[y] \in Nat
      BY Places
    <3>2. Place[x] = Place[y] => x = y
      BY <3>1, VariablesAssumption
    <3> QED
      BY <1>4, <3>1, <3>2
  <2> QED
    BY <2>1, <2>2, <2>3 DEF TotalOrder
<1>10. IsFiniteSet(here \cup kept)
  BY <1>3, VariablesAssumption, FS_Subset
<1>11. /\ N \in Nat /\ keys \in [1 .. N -> here \cup kept]
       /\ \A m, n \in 1 .. N : m < n => <<keys[m], keys[n]>> \in before
  BY <1>9, <1>10, OrderedOrders
<1> HIDE DEF keys, N
<1>12. ASSUME NEW n \in 1 .. N
       PROVE  /\ keys[n] \in Variables /\ vs[n] \in Declaration /\ vs[n].var = keys[n]
              /\ vs[n].sensitive => vs[n].clear = None
              /\ ~vs[n].sensitive => <<scope.name, vs[n].var>> \in shown
  <2> DEFINE v == keys[n]
  <2>1. v \in here \cup kept /\ v \in Variables
    BY <1>3, <1>11
  <2>2. CASE v \in here
    <3> DEFINE x == Sensitivity(scope, v)
    <3>1. vs[n] = DeclarationFor(scope, v, x)
      BY <1>6, <1>11, <2>2
    <3>2. x \in BOOLEAN /\ (~x => Holds(scope, v) /\ ~Of(scope, v).sensitive)
      BY DEF Sensitivity
    <3>3. env[v] \in Short \cup Long
      BY <1>7, <2>2
    <3> HIDE DEF v, x
    <3>4. /\ vs[n].var = v /\ vs[n].sensitive = x
          /\ vs[n].clear = IF x THEN None ELSE env[v]
      BY <3>1 DEF DeclarationFor
    <3>5. vs[n] \in Declaration
      BY <1>1, <2>1, <3>1, <3>2, <3>3 DEF Declaration, DeclarationFor
    <3>6. ~x => <<scope.name, v>> \in shown
      BY <1>5, <2>1, <3>2
    <3> QED
      BY <2>1, <3>4, <3>5, <3>6 DEF v
  <2>3. CASE v \notin here
    <3>1. vs[n] = Of(scope, v)
      BY <1>6, <1>11, <2>3
    <3>2. Holds(scope, v)
      BY <1>8, <2>1, <2>3
    <3> QED
      BY <1>5, <2>1, <3>1, <3>2
  <2> QED
    BY <2>2, <2>3
<1>13. DOMAIN vs = 1 .. N
  BY <1>6, <1>11
<1>14. vs \in Seq(Declaration)
  <2>1. vs = [n \in 1 .. N |-> vs[n]]
    BY <1>6, <1>11
  <2>2. \A n \in 1 .. N : vs[n] \in Declaration
    BY <1>12
  <2>3. N \in Nat
    BY <1>11
  <2> QED
    BY <2>1, <2>2, <2>3
<1>15. InOrder(vs)
  BY <1>4, <1>11, <1>12, <1>13 DEF InOrder
<1> QED
  BY <1>12, <1>13, <1>14, <1>15 DEF vs
-----------------------------------------------------------------------------
(* The steps.                                                              *)

LEMMA EditorFields ==
    ASSUME EditTypeOK, editor # None
    PROVE  /\ editor \in Editor
           /\ editor.read \in Seq(Scope) /\ editor.project \in Seq(Scope)
           /\ editor.screen \in {"variables", "variable", "scopes", "confirm"}
           /\ editor.scope \in Nat /\ editor.variable \in Nat
           /\ editor.changes \in Seq(Change)
<1>1. editor \in Editor
  BY DEF EditTypeOK
<1> QED
  BY <1>1 DEF Editor

LEMMA ShownMore ==
    ASSUME NEW p, NEW shown, NEW more, ShownIn(p, shown), shown \subseteq more
    PROVE  ShownIn(p, more)
BY DEF ShownIn

\* The changes of the editor, without the file: the type of what stays.
LEMMA EditingKeeps ==
    ASSUME EditInv, Editing, editor' = None \/ editor' \in Editor
    PROVE  EditTypeOK' /\ FilesStored'
<1>1. EditTypeOK'
  BY DEF EditInv, EditTypeOK, Editing
<1>2. (Stored(file) /\ (asRendered => Arranged(file)))'
  BY DEF EditInv, FilesStored, Editing, Stored
<1>3. (push # None => Stored(push) /\ Arranged(push))'
  BY DEF EditInv, FilesStored, Editing, Stored
<1> QED
  BY <1>1, <1>2, <1>3 DEF FilesStored

\* Another screen or another place, with the same project.
LEMMA LookKeeps ==
    ASSUME EditInv, editor # None, Editing, editor' \in Editor,
           editor'.read = editor.read, editor'.asRendered = editor.asRendered,
           editor'.project = editor.project, editor'.changes = editor.changes,
           editor'.screen # "variables" =>
               /\ editor'.scope \in DOMAIN editor.project
               /\ editor'.variable \in DOMAIN editor.project[editor'.scope].vars
    PROVE  EditInv'
<1>1. EditTypeOK' /\ FilesStored'
  BY EditingKeeps
<1>2. marked' = marked
  BY DEF Editing
<1>3. Stored(editor.read)'
  BY <1>2 DEF EditInv, EditorHolds, Stored
<1>4. EditorHolds'
  BY <1>2, <1>3 DEF EditInv, EditorHolds
<1>5. SummaryTellsTheEdits'
  BY DEF EditInv, SummaryTellsTheEdits
<1> QED
  BY <1>1, <1>4, <1>5 DEF EditInv

\* One operation of the editor: its project with a declaration replaced, and
\* a line in the summary that describes it.
LEMMA MakeKeeps ==
    ASSUME EditInv, editor # None, editor.screen # "variables", Editing,
           NEW q, NEW screen \in {"variables", "variable"},
           NEW to \in ScopeNames \cup {None}, NEW sensitive \in BOOLEAN,
           Make(q, screen, to, sensitive), NEW given,
           Replaces(editor.project, q, editor.scope, editor.variable, given),
           Describes([var |-> Current.var, from |-> CurrentScope.name, to |-> to,
                      sensitive |-> sensitive],
                     editor.project, editor.scope, editor.variable, given),
           AllMapped(editor.project) => \A g \in given : FileOf[g[2].var] \in q[g[1]].files,
           screen = "variable" => editor.variable \in DOMAIN q[editor.scope].vars
    PROVE  EditInv'
<1> DEFINE p == editor.project
           s == editor.scope
           k == editor.variable
           cs == editor.changes
           c == [var |-> Current.var, from |-> CurrentScope.name, to |-> to,
                 sensitive |-> sensitive]
           ds == Append(cs, c)
<1>1. /\ p \in Seq(Scope) /\ editor.read \in Seq(Scope) /\ cs \in Seq(Change)
      /\ s \in DOMAIN p /\ k \in DOMAIN p[s].vars /\ editor \in Editor
  BY EditorFields DEF EditInv, EditorHolds
<1>2. /\ Distinct(p) /\ Hidden(p) /\ Once(p) /\ ShownIn(p, marked \cup Noted(cs))
      /\ AllMapped(editor.read) => AllMapped(p)
      /\ Stored(editor.read) /\ (editor.asRendered => Arranged(editor.read))
  BY DEF EditInv, EditorHolds
<1>3. Declared(p) = Replayed(Declared(editor.read), cs)
  BY DEF EditInv, SummaryTellsTheEdits
<1>4. Replaces(p, q, s, k, given) /\ Describes(c, p, s, k, given) /\ c \in Change
  BY DEF Describes
<1>5. editor' = [editor EXCEPT !.project = q, !.screen = screen, !.changes = ds]
  BY DEF Make
<1>6. /\ q \in Seq(Scope) /\ DOMAIN q = DOMAIN p /\ Once(q)
  BY <1>4 DEF Replaces
<1>7. c.to = to
  OBVIOUS
<1> HIDE DEF c
<1>8. /\ ds \in Seq(Change) /\ ds # <<>> /\ Noted(cs) \subseteq Noted(ds)
      /\ c.to # None /\ ~c.sensitive => <<c.to, c.var>> \in Noted(ds)
      /\ \A declared : Replayed(declared, ds) =
           {x \in Replayed(declared, cs) : ~Takes(c, x)}
               \cup (IF c.to = None THEN {} ELSE {Gives(c)})
  BY <1>1, <1>4, OneMore
<1> HIDE DEF ds
<1>9. /\ editor' \in Editor
      /\ editor'.read = editor.read /\ editor'.asRendered = editor.asRendered
      /\ editor'.project = q /\ editor'.changes = ds
      /\ editor'.screen = screen /\ editor'.scope = s /\ editor'.variable = k
  BY <1>1, <1>5, <1>6, <1>8 DEF Editor
<1>10. EditTypeOK' /\ FilesStored'
  BY <1>9, EditingKeeps
<1>11. marked' = marked
  BY DEF Editing
<1>12. Distinct(q) /\ Hidden(q) /\ ShownIn(q, marked \cup Noted(ds))
  <2> DEFINE shown == marked \cup Noted(cs)
             more == marked \cup Noted(ds)
  <2>1. shown \subseteq more /\ ShownIn(p, shown)
    BY <1>2, <1>8
  <2>2. c.to # None /\ ~c.sensitive => <<c.to, c.var>> \in more
    BY <1>8
  <2> HIDE DEF shown, more, p, s, k, cs
  <2> QED
    BY <1>1, <1>2, <1>4, <2>1, <2>2, ReplacedIsTidy DEF more
<1>13. AllMapped(editor.read) => AllMapped(q)
  BY <1>1, <1>2, <1>4, ReplacedIsMapped
<1>14. Declared(q) = Replayed(Declared(editor.read), ds)
  <2> DEFINE declared == Declared(editor.read)
  <2> HIDE DEF p, s, k, cs, declared
  <2>1. Declared(q) = {x \in Declared(p) : ~Takes(c, x)}
                         \cup (IF c.to = None THEN {} ELSE {Gives(c)})
    BY <1>1, <1>2, <1>4, ReplacedIsDescribed
  <2>2. Replayed(declared, ds) = {x \in Replayed(declared, cs) : ~Takes(c, x)}
                                    \cup (IF c.to = None THEN {} ELSE {Gives(c)})
    BY <1>8
  <2>3. Declared(p) = Replayed(declared, cs)
    BY <1>3 DEF declared
  <2> QED
    BY <2>1, <2>2, <2>3 DEF declared
<1>15. EditorHolds'
  <2>1. (Stored(editor.read) /\ (editor.asRendered => Arranged(editor.read)))'
    BY <1>2, <1>9, <1>11 DEF Stored
  <2>2. screen # "variables" => s \in DOMAIN q /\ k \in DOMAIN q[s].vars
    BY <1>1, <1>6
  <2> HIDE DEF p, s, k, cs
  <2> QED
    BY <1>6, <1>8, <1>9, <1>11, <1>12, <1>13, <2>1, <2>2 DEF EditorHolds
<1>16. SummaryTellsTheEdits'
  BY <1>9, <1>14 DEF SummaryTellsTheEdits
<1> QED
  BY <1>10, <1>15, <1>16 DEF EditInv

LEMMA NothingReplayed == \A declared : Replayed(declared, <<>>) = declared
<1>1. DOMAIN <<>> = {}
  OBVIOUS
<1> QED
  BY <1>1 DEF Replayed

LEMMA EditInitially == Init => EditInv
<1> SUFFICES ASSUME Init PROVE EditInv
  OBVIOUS
<1>1. /\ file \in Seq(Scope) /\ Distinct(file) /\ Once(file)
      /\ \A i \in DOMAIN file : \A k \in DOMAIN file[i].vars :
            file[i].vars[k].sensitive /\ file[i].vars[k].clear = None
  BY ImportedAssumption DEF Init, Distinct, Once
<1>2. EditTypeOK
  BY <1>1, BoundAssumption DEF Init, EditTypeOK
<1>3. FilesStored
  <2>1. Hidden(file) /\ ShownIn(file, marked)
    BY <1>1 DEF Hidden, ShownIn
  <2>2. asRendered => Arranged(file)
    BY <1>1, <2>1, RenderedIsTidy DEF Init
  <2> QED
    BY <1>1, <2>1, <2>2 DEF Init, FilesStored, Stored
<1>4. EditorHolds /\ SummaryTellsTheEdits
  BY DEF Init, EditorHolds, SummaryTellsTheEdits
<1> QED
  BY <1>2, <1>3, <1>4 DEF EditInv

LEMMA OpenKeeps ==
    ASSUME EditInv, Open
    PROVE  EditInv'
<1>1. /\ editor' = [read |-> file, asRendered |-> asRendered, project |-> file,
                    screen |-> "variables", scope |-> 0, variable |-> 0, changes |-> <<>>]
      /\ file' = file /\ asRendered' = asRendered /\ env' = env /\ push' = push /\ marked' = marked
      /\ begun' = begun + 1 /\ begun < MaxCommands
  BY DEF Open, Begin
<1>2. EditTypeOK'
  <2>1. begun' \in 0 .. MaxCommands
    BY <1>1, BoundAssumption DEF EditInv, EditTypeOK
  <2>2. file \in Seq(Scope) /\ asRendered \in BOOLEAN /\ <<>> \in Seq(Change)
    BY DEF EditInv, EditTypeOK
  <2>3. editor' \in Editor
    BY <1>1, <2>2 DEF Editor
  <2> QED
    BY <1>1, <2>1, <2>3 DEF EditInv, EditTypeOK
<1>3. FilesStored'
  BY <1>1 DEF EditInv, FilesStored, Stored
<1>4. EditorHolds'
  <2>1. Stored(file) /\ file \in Seq(Scope) /\ (asRendered => Arranged(file))
    BY DEF EditInv, FilesStored, EditTypeOK
  <2>2. Once(file) /\ ShownIn(file, marked \cup Noted(<<>>))
    BY <2>1, ShownMore DEF Stored
  <2> QED
    BY <1>1, <2>1, <2>2 DEF EditorHolds, Stored
<1>5. SummaryTellsTheEdits'
  BY <1>1, NothingReplayed DEF SummaryTellsTheEdits
<1> QED
  BY <1>2, <1>3, <1>4, <1>5 DEF EditInv

LEMMA SelectKeeps ==
    ASSUME EditInv, Select
    PROVE  EditInv'
<1>1. editor # None /\ editor \in Editor /\ editor.project \in Seq(Scope)
  BY EditorFields DEF EditInv, Select, On
<1>2. PICK i \in DOMAIN editor.project : \E k \in DOMAIN editor.project[i].vars :
         editor' = [editor EXCEPT !.screen = "variable", !.scope = i, !.variable = k]
  BY DEF Select
<1>3. PICK k \in DOMAIN editor.project[i].vars :
         editor' = [editor EXCEPT !.screen = "variable", !.scope = i, !.variable = k]
  BY <1>2
<1>4. i \in Nat /\ k \in Nat
  BY <1>1, ScopeFields
<1>5. /\ editor' \in Editor /\ editor'.read = editor.read /\ editor'.project = editor.project
      /\ editor'.asRendered = editor.asRendered
      /\ editor'.changes = editor.changes /\ editor'.scope = i /\ editor'.variable = k
  BY <1>1, <1>3, <1>4 DEF Editor
<1> QED
  BY <1>1, <1>5, LookKeeps DEF Select

LEMMA ShowKeeps ==
    ASSUME EditInv, editor # None, editor.screen # "variables", Editing,
           NEW screen \in {"variables", "variable", "scopes", "confirm"}, Show(screen)
    PROVE  EditInv'
<1>1. editor \in Editor
  BY EditorFields DEF EditInv
<1>2. /\ editor' \in Editor /\ editor'.read = editor.read /\ editor'.project = editor.project
      /\ editor'.asRendered = editor.asRendered
      /\ editor'.changes = editor.changes /\ editor'.scope = editor.scope
      /\ editor'.variable = editor.variable
  BY <1>1 DEF Show, Editor
<1>3. /\ editor.scope \in DOMAIN editor.project
      /\ editor.variable \in DOMAIN editor.project[editor.scope].vars
  BY DEF EditInv, EditorHolds
<1> QED
  BY <1>2, <1>3, LookKeeps

LEMMA TurnKeeps ==
    ASSUME EditInv, Turn
    PROVE  EditInv'
<1>1. Editing /\ editor # None /\ editor.screen # "variables"
  BY DEF Turn, On
<1>2. \E screen \in {"variables", "variable", "scopes", "confirm"} : Show(screen)
  BY DEF Turn
<1> QED
  BY <1>1, <1>2, ShowKeeps

\* Where the editor is: a declaration of a scope.
LEMMA AtVariable ==
    ASSUME EditInv, editor # None, editor.screen # "variables"
    PROVE  /\ editor.project \in Seq(Scope) /\ Once(editor.project) /\ Hidden(editor.project)
           /\ editor.scope \in DOMAIN editor.project
           /\ editor.variable \in DOMAIN editor.project[editor.scope].vars
           /\ Current \in Declaration /\ Current.var \in Variables /\ Current.sensitive \in BOOLEAN
           /\ Current.sensitive => Current.clear = None
           /\ CurrentScope.name \in ScopeNames
<1>1. /\ editor.project \in Seq(Scope) /\ Once(editor.project) /\ Hidden(editor.project)
      /\ editor.scope \in DOMAIN editor.project
      /\ editor.variable \in DOMAIN editor.project[editor.scope].vars
  BY EditorFields DEF EditInv, EditorHolds
<1>2. Current \in Declaration /\ CurrentScope.name \in ScopeNames
  BY <1>1, ScopeFields DEF Current, CurrentScope
<1>3. Current.sensitive => Current.clear = None
  BY <1>1 DEF Hidden, Current
<1> QED
  BY <1>1, <1>2, <1>3, DeclarationFields

LEMMA ToggleKeeps ==
    ASSUME EditInv, Toggle
    PROVE  EditInv'
<1> DEFINE p == editor.project
           s == editor.scope
           k == editor.variable
           d == Toggled(Current)
           q == InPlace(p, s, k, d)
           given == One(s, d)
           to == CurrentScope.name
           sensitive == ~Current.sensitive
           c == [var |-> Current.var, from |-> CurrentScope.name, to |-> to,
                 sensitive |-> sensitive]
<1>1. Editing /\ editor # None /\ editor.screen # "variables"
  BY DEF Toggle, On
<1>2. /\ p \in Seq(Scope) /\ Once(p) /\ s \in DOMAIN p /\ k \in DOMAIN p[s].vars
      /\ Current \in Declaration /\ Current.var \in Variables /\ Current.sensitive \in BOOLEAN
      /\ to \in ScopeNames
  BY <1>1, AtVariable
<1>3. Current = p[s].vars[k] /\ CurrentScope = p[s]
  BY DEF Current, CurrentScope
<1>4. /\ d \in Declaration /\ d.var = Current.var /\ d.sensitive = sensitive
      /\ d.sensitive => d.clear = None
  <2>1. Current.sensitive => env[Current.var] \in Short
    BY DEF Toggle
  <2> HIDE DEF p, s, k
  <2> QED
    BY <1>2, <2>1 DEF Toggled, Declaration
<1>5. Make(q, "variable", to, sensitive)
  BY <1>3 DEF Toggle, InPlace
<1>6. Replaces(p, q, s, k, given)
  <2> HIDE DEF p, s, k, d
  <2> QED
    BY <1>2, <1>3, <1>4, ReplacedInPlace DEF given, q
<1>7. Describes(c, p, s, k, given)
  <2>1. c \in Change
    BY <1>2 DEF Change
  <2>2. /\ c.from = p[s].name /\ c.var = p[s].vars[k].var /\ c.to = p[s].name
        /\ c.sensitive = sensitive
    BY <1>3
  <2>3. c.to # None
    BY <1>2, NoneAssumption
  <2>4. d.var = c.var /\ d.sensitive = c.sensitive
      /\ (d.sensitive => d.clear = None)
    BY <1>4
  <2> HIDE DEF c, p, s, k, d, sensitive
  <2> QED
    BY <2>1, <2>2, <2>3, <2>4, OneGiven DEF given
<1>8. AllMapped(p) => \A g \in given : FileOf[g[2].var] \in q[g[1]].files
  <2>1. q[s].files = p[s].files
    <3>1. q[s] = [p[s] EXCEPT !.vars = [p[s].vars EXCEPT ![k] = d]]
      BY <1>2 DEF InPlace
    <3>2. p[s] \in Scope
      BY <1>2, ScopeFields
    <3> HIDE DEF q, d, p, s, k
    <3> QED
      BY <3>1, <3>2, OtherVars
  <2> HIDE DEF q, d, p, s, k
  <2> QED
    BY <1>2, <1>3, <1>4, <2>1 DEF AllMapped, One
<1>9. k \in DOMAIN q[s].vars
  <2>1. q[s] = [p[s] EXCEPT !.vars = [p[s].vars EXCEPT ![k] = d]]
    BY <1>2 DEF InPlace
  <2>2. p[s] \in Scope
    BY <1>2, ScopeFields
  <2> HIDE DEF q, d, p, s, k
  <2>3. q[s].vars = [p[s].vars EXCEPT ![k] = d]
    BY <2>1, <2>2, OtherVars
  <2> QED
    BY <1>2, <2>3
<1>10. to \in ScopeNames \cup {None} /\ sensitive \in BOOLEAN
  BY <1>2
<1> HIDE DEF q, d, given, to, sensitive
<1> QED
  BY <1>1, <1>5, <1>6, <1>7, <1>8, <1>9, <1>10, MakeKeeps

LEMMA MoveVariableKeeps ==
    ASSUME EditInv, MoveVariable
    PROVE  EditInv'
<1>1. Editing /\ editor # None /\ editor.screen # "variables"
  BY DEF MoveVariable, On
<1>2. PICK i \in DOMAIN editor.project :
         \/ ~MayMoveTo(i) /\ Show("variable")
         \/ MayMoveTo(i) /\ Make(Moved(i), "variables", editor.project[i].name, Current.sensitive)
  BY DEF MoveVariable
<1>3. CASE Show("variable")
  BY <1>1, <1>3, ShowKeeps
<1>4. CASE MayMoveTo(i) /\ Make(Moved(i), "variables", editor.project[i].name, Current.sensitive)
  <2> DEFINE p == editor.project
             s == editor.scope
             k == editor.variable
             d == p[s].vars[k]
             q == Elsewhere(p, s, k, i)
             given == One(i, d)
             to == p[i].name
             sensitive == Current.sensitive
             c == [var |-> Current.var, from |-> CurrentScope.name, to |-> to,
                   sensitive |-> sensitive]
  <2>1. /\ p \in Seq(Scope) /\ Once(p) /\ s \in DOMAIN p /\ k \in DOMAIN p[s].vars
        /\ Current \in Declaration /\ Current.var \in Variables /\ Current.sensitive \in BOOLEAN
        /\ Current.sensitive => Current.clear = None
        /\ CurrentScope.name \in ScopeNames
    BY <1>1, AtVariable
  <2>2. Current = d /\ CurrentScope = p[s]
    BY DEF Current, CurrentScope
  <2>3. to \in ScopeNames
    BY <2>1, ScopeFields
  <2>4. Moved(i) = q
    BY <2>2 DEF Moved, Elsewhere
  <2>5. Replaces(p, q, s, k, given) /\ FileOf[d.var] \in q[i].files
    <3>1. i \in DOMAIN p /\ i # s /\ ~Holds(p[i], d.var)
      BY <1>4, <2>2 DEF MayMoveTo
    <3> HIDE DEF p, s, k
    <3> QED
      BY <2>1, <3>1, ReplacedElsewhere DEF given, q, d
  <2>6. Describes(c, p, s, k, given)
    <3>1. c \in Change
      BY <2>1, <2>3 DEF Change
    <3>2. c.from = p[s].name /\ c.var = d.var /\ c.to = p[i].name /\ c.sensitive = d.sensitive
      BY <2>2
    <3>3. c.to # None
      BY <2>3, NoneAssumption
    <3>4. d.sensitive => d.clear = None
      BY <2>1, <2>2
    <3>5. c.var = p[s].vars[k].var
      BY <3>2
    <3> HIDE DEF c, p, s, k, d, sensitive
    <3> QED
      BY <3>1, <3>2, <3>3, <3>4, <3>5, OneGiven DEF given, d
  <2>7. Make(q, "variables", to, sensitive)
    BY <1>4, <2>4
  <2>8. \A g \in given : FileOf[g[2].var] \in q[g[1]].files
    <3> HIDE DEF q, d
    <3> QED
      BY <2>5 DEF One
  <2>9. to \in ScopeNames \cup {None} /\ sensitive \in BOOLEAN
    BY <2>1, <2>3
  <2> HIDE DEF q, d, given, to, sensitive
  <2> QED
    BY <1>1, <2>5, <2>6, <2>7, <2>8, <2>9, MakeKeeps
<1> QED
  BY <1>2, <1>3, <1>4

LEMMA RemoveVariableKeeps ==
    ASSUME EditInv, RemoveVariable
    PROVE  EditInv'
<1> DEFINE p == editor.project
           s == editor.scope
           k == editor.variable
           q == Without(p, s, k)
           given == {}
           sensitive == Current.sensitive
           c == [var |-> Current.var, from |-> CurrentScope.name, to |-> None,
                 sensitive |-> sensitive]
<1>1. Editing /\ editor # None /\ editor.screen # "variables"
  BY DEF RemoveVariable, On
<1>2. /\ p \in Seq(Scope) /\ Once(p) /\ s \in DOMAIN p /\ k \in DOMAIN p[s].vars
      /\ Current.var \in Variables /\ sensitive \in BOOLEAN /\ CurrentScope.name \in ScopeNames
  BY <1>1, AtVariable
<1>3. Make(q, "variables", None, sensitive)
  BY DEF RemoveVariable, Without
<1>4. Replaces(p, q, s, k, given)
  <2> HIDE DEF p, s, k
  <2> QED
    BY <1>2, ReplacedByNone
<1>5. Describes(c, p, s, k, given)
  <2>1. c \in Change
    BY <1>2 DEF Change
  <2>2. c.from = p[s].name /\ c.var = p[s].vars[k].var /\ c.to = None
    BY DEF Current, CurrentScope
  <2> HIDE DEF c, p, s, k, sensitive
  <2> QED
    BY <2>1, <2>2, NoneGiven
<1>6. /\ None \in ScopeNames \cup {None}
      /\ "variables" \in {"variables", "variable"} /\ "variables" # "variable"
  OBVIOUS
<1>7. AllMapped(p) => \A g \in given : FileOf[g[2].var] \in q[g[1]].files
  OBVIOUS
<1>8. sensitive \in BOOLEAN
  BY <1>2
<1> HIDE DEF q, sensitive, given
<1> QED
  BY <1>1, <1>3, <1>4, <1>5, <1>6, <1>7, <1>8, MakeKeeps

\* Save: the changes of a session are of scopes and variables there are.
LEMMA NotedPlaces ==
    ASSUME NEW cs \in Seq(Change)
    PROVE  Noted(cs) \subseteq ScopeNames \X Variables
<1> SUFFICES ASSUME NEW x \in Range(cs), x.to # None
             PROVE  <<x.to, x.var>> \in ScopeNames \X Variables
  BY DEF Noted
<1>1. x \in Change
  BY DEF Range
<1> QED
  BY <1>1 DEF Change

LEMMA SaveKeeps ==
    ASSUME EditInv, Save
    PROVE  EditInv'
<1>1. /\ editor # None /\ editor' = None
      /\ env' = env /\ push' = push /\ begun' = begun
  BY DEF Save, On
<1>2. EditorHolds' /\ SummaryTellsTheEdits'
  BY <1>1 DEF EditorHolds, SummaryTellsTheEdits
<1> DEFINE p == editor.project
           shown == marked \cup Noted(editor.changes)
<1>3. CASE file' = Rendered(p) /\ asRendered' = TRUE /\ marked' = shown
  <2>1. /\ p \in Seq(Scope) /\ Distinct(p) /\ Hidden(p) /\ Once(p) /\ ShownIn(p, shown)
        /\ editor.changes \in Seq(Change)
    BY <1>1, EditorFields DEF EditInv, EditorHolds
  <2>2. file' \in Seq(Scope) /\ marked' \subseteq ScopeNames \X Variables
    BY <1>3, <2>1, RenderedScopes, NotedPlaces DEF EditInv, EditTypeOK
  <2>3. EditTypeOK'
    BY <1>1, <1>3, <2>2 DEF EditInv, EditTypeOK
  <2>4. (Stored(file) /\ Arranged(file))'
    <3> HIDE DEF p, shown
    <3>1. /\ Distinct(Rendered(p)) /\ Hidden(Rendered(p)) /\ Arranged(Rendered(p))
          /\ Once(Rendered(p)) /\ ShownIn(Rendered(p), shown)
      BY <2>1, RenderedIsTidy
    <3> QED
      BY <1>3, <3>1 DEF Stored
  <2>5. (push # None => Stored(push) /\ Arranged(push))'
    <3> SUFFICES ASSUME push # None
                 PROVE  (Stored(push) /\ Arranged(push))'
      BY <1>1
    <3>1. Stored(push) /\ Arranged(push) /\ marked \subseteq marked'
      BY <1>3 DEF EditInv, FilesStored
    <3>2. ShownIn(push, marked')
      BY <3>1, ShownMore DEF Stored
    <3> QED
      BY <1>1, <3>1, <3>2 DEF Stored
  <2> QED
    BY <1>2, <2>3, <2>4, <2>5 DEF EditInv, FilesStored
<1>4. CASE UNCHANGED <<file, asRendered, marked>>
  <2>1. Editing
    BY <1>1, <1>4 DEF Editing
  <2> QED
    BY <1>1, <1>2, <2>1, EditingKeeps DEF EditInv
<1> QED
  BY <1>3, <1>4 DEF Save, Noted

LEMMA CancelKeeps ==
    ASSUME EditInv, Cancel
    PROVE  EditInv'
BY EditingKeeps DEF Cancel, EditInv, EditorHolds, SummaryTellsTheEdits

\* The other commands leave the editor as it is.
LEMMA EditorStays ==
    ASSUME EditInv, editor' = editor, marked' = marked
    PROVE  EditorHolds' /\ SummaryTellsTheEdits'
<1>1. EditorHolds'
  BY DEF EditInv, EditorHolds, Stored
<1>2. SummaryTellsTheEdits'
  BY DEF EditInv, SummaryTellsTheEdits
<1> QED
  BY <1>1, <1>2

LEMMA BeginBegins ==
    ASSUME EditInv, Begin
    PROVE  begun' \in 0 .. MaxCommands
BY BoundAssumption DEF EditInv, EditTypeOK, Begin

LEMMA ScopeCreateKeeps ==
    ASSUME EditInv, ScopeCreate
    PROVE  EditInv'
<1>1. /\ env' = env /\ editor' = editor /\ push' = push /\ marked' = marked
      /\ asRendered' = TRUE /\ begun' \in 0 .. MaxCommands
  BY BeginBegins DEF ScopeCreate
<1>2. PICK name \in ScopeNames \ Names(file) :
         \E files \in SUBSET Files :
            file' = Append(Rendered(file), [name |-> name, files |-> files, vars |-> <<>>])
  BY DEF ScopeCreate
<1>3. PICK files \in SUBSET Files :
         file' = Append(Rendered(file), [name |-> name, files |-> files, vars |-> <<>>])
  BY <1>2
<1> DEFINE r == [name |-> name, files |-> files, vars |-> <<>>]
           p == Rendered(file)
           N == Len(p)
           q == Append(p, r)
<1>4. r \in Scope /\ r.name = name /\ r.vars = <<>>
  BY DEF Scope
<1>5. /\ p \in Seq(Scope) /\ Distinct(p) /\ Hidden(p) /\ Arranged(p) /\ Once(p)
      /\ ShownIn(p, marked)
  <2>1. file \in Seq(Scope) /\ Stored(file)
    BY DEF EditInv, EditTypeOK, FilesStored
  <2>2. Distinct(file) /\ Hidden(file) /\ Once(file) /\ ShownIn(file, marked)
    BY <2>1 DEF Stored
  <2> HIDE DEF p
  <2> QED
    BY <2>1, <2>2, RenderedScopes, RenderedIsTidy DEF p
<1>6. \A i \in DOMAIN p : p[i].name # name
  <2>1. DOMAIN p = DOMAIN file /\ \A i \in DOMAIN file : p[i].name = file[i].name
    BY RenderedScopes DEF EditInv, EditTypeOK
  <2> HIDE DEF p
  <2> QED
    BY <2>1 DEF Names
<1> HIDE DEF r, p
<1>7. /\ N \in Nat /\ q \in Seq(Scope) /\ DOMAIN p = 1 .. N /\ DOMAIN q = 1 .. N + 1
      /\ q[N + 1] = r /\ \A i \in DOMAIN p : q[i] = p[i]
  BY <1>4, <1>5
<1>8. \A i \in DOMAIN q : i \in DOMAIN p \/ i = N + 1
  BY <1>7
<1> HIDE DEF q, N
<1>9. Distinct(q)
  <2> SUFFICES ASSUME NEW i \in DOMAIN q, NEW k \in DOMAIN q, q[i].name = q[k].name
               PROVE  i = k
    BY DEF Distinct
  <2>1. CASE i \in DOMAIN p /\ k \in DOMAIN p
    BY <1>5, <1>7, <2>1 DEF Distinct
  <2> QED
    BY <1>4, <1>6, <1>7, <1>8, <2>1
<1>10. Hidden(q) /\ Arranged(q) /\ Once(q) /\ ShownIn(q, marked)
  <2>1. DOMAIN q[N + 1].vars = {} /\ InOrder(q[N + 1].vars)
    BY <1>4, <1>7 DEF InOrder
  <2>2. Hidden(q)
    BY <1>5, <1>7, <1>8, <2>1 DEF Hidden
  <2>3. Arranged(q)
    BY <1>5, <1>7, <1>8, <2>1 DEF Arranged
  <2>4. Once(q)
    BY <1>7, <2>3, ArrangedOnce
  <2>5. ShownIn(q, marked)
    BY <1>5, <1>7, <1>8, <2>1 DEF ShownIn
  <2> QED
    BY <2>2, <2>3, <2>4, <2>5
<1>11. file' = q
  BY <1>3 DEF q, p, r
<1>12. EditTypeOK'
  BY <1>1, <1>7, <1>11 DEF EditInv, EditTypeOK
<1>13. FilesStored'
  <2>1. (Stored(file) /\ Arranged(file))'
    BY <1>1, <1>9, <1>10, <1>11 DEF Stored
  <2>2. (push # None => Stored(push) /\ Arranged(push))'
    BY <1>1 DEF EditInv, FilesStored, Stored
  <2> QED
    BY <2>1, <2>2 DEF FilesStored
<1> QED
  BY <1>1, <1>12, <1>13, EditorStays DEF EditInv

\* env push: one scope is declared anew.
LEMMA PushScopeKeeps ==
    ASSUME EditInv, PushScope
    PROVE  EditInv'
<1>1. /\ file' = file /\ asRendered' = asRendered /\ env' = env /\ editor' = editor /\ marked' = marked
      /\ begun' \in 0 .. MaxCommands
  BY BeginBegins DEF PushScope
<1>2. PICK i \in DOMAIN file : \E gone \in SUBSET Variables :
         /\ \A v \in Variables : FileOf[v] \in file[i].files => env[v] # Twice
         /\ push' = [Rendered(file) EXCEPT ![i].vars = Redeclared(file[i], gone)]
  BY DEF PushScope
<1>3. PICK gone \in SUBSET Variables :
         /\ \A v \in Variables : FileOf[v] \in file[i].files => env[v] # Twice
         /\ push' = [Rendered(file) EXCEPT ![i].vars = Redeclared(file[i], gone)]
  BY <1>2
<1> DEFINE vs == Redeclared(file[i], gone)
           p == Rendered(file)
           q == With(p, i, p[i].files, vs)
<1>4. file \in Seq(Scope) /\ Stored(file)
  BY DEF EditInv, EditTypeOK, FilesStored
<1>5. /\ p \in Seq(Scope) /\ DOMAIN p = DOMAIN file /\ p[i].name = file[i].name
      /\ p[i].files = file[i].files
      /\ Distinct(p) /\ Hidden(p) /\ Arranged(p) /\ ShownIn(p, marked)
  <2>1. Distinct(file) /\ Hidden(file) /\ Once(file) /\ ShownIn(file, marked)
    BY <1>4 DEF Stored
  <2> HIDE DEF p
  <2> QED
    BY <1>4, <2>1, RenderedScopes, RenderedIsTidy DEF p
<1>6. file[i] \in Scope /\ file[i].files \in SUBSET Files
  BY <1>4, ScopeFields
<1>7. /\ vs \in Seq(Declaration) /\ InOrder(vs)
      /\ \A n \in DOMAIN vs :
            /\ vs[n].sensitive => vs[n].clear = None
            /\ ~vs[n].sensitive => <<file[i].name, vs[n].var>> \in marked
  <2>1. \A k \in DOMAIN file[i].vars :
           /\ file[i].vars[k].sensitive => file[i].vars[k].clear = None
           /\ ~file[i].vars[k].sensitive => <<file[i].name, file[i].vars[k].var>> \in marked
    BY <1>4 DEF Stored, Hidden, ShownIn
  <2>2. env \in [Variables -> Short \cup Long \cup {Absent, Twice}]
    BY DEF EditInv, EditTypeOK
  <2> QED
    BY <1>3, <1>6, <2>1, <2>2, RedeclaredIsTidy
<1> HIDE DEF vs, p, q
<1>8. push' = q
  <2>1. p \in Seq(Scope) /\ i \in DOMAIN p
    BY <1>5
  <2>2. WithTheVars(p, i, vs) = With(p, i, p[i].files, vs)
    BY <2>1, WithVars
  <2>3. push' = WithTheVars(p, i, vs)
    BY <1>3 DEF vs, p, WithTheVars
  <2> QED
    BY <2>2, <2>3 DEF q
<1>9. /\ q \in Seq(Scope) /\ DOMAIN q = DOMAIN p
      /\ q[i].name = p[i].name /\ q[i].vars = vs
      /\ \A j \in DOMAIN p : j # i => q[j] = p[j]
  <2>1. vs \in Seq(Declaration) /\ p \in Seq(Scope) /\ i \in DOMAIN p
    BY <1>5, <1>7
  <2>2. p[i].files \in SUBSET Files
    BY <1>5, <1>6
  <2>3. LET w == With(p, i, p[i].files, vs)
        IN  /\ w \in Seq(Scope) /\ DOMAIN w = DOMAIN p
            /\ w[i].name = p[i].name /\ w[i].files = p[i].files /\ w[i].vars = vs
            /\ \A j \in DOMAIN p : j # i => w[j] = p[j]
    BY <2>1, <2>2, WithScope
  <2> QED
    BY <2>3 DEF q
<1>10. Distinct(q)
  BY <1>5, <1>9 DEF Distinct
<1>11. Arranged(q) /\ Once(q)
  <2>1. Arranged(q)
    BY <1>5, <1>7, <1>9 DEF Arranged
  <2> QED
    BY <1>9, <2>1, ArrangedOnce
<1>12. Hidden(q)
  <2> SUFFICES ASSUME NEW j \in DOMAIN q, NEW k \in DOMAIN q[j].vars, q[j].vars[k].sensitive
               PROVE  q[j].vars[k].clear = None
    BY DEF Hidden
  <2>1. CASE j = i
    BY <1>7, <1>9, <2>1
  <2>2. CASE j # i
    BY <1>5, <1>9, <2>2 DEF Hidden
  <2> QED
    BY <2>1, <2>2
<1>13. ShownIn(q, marked)
  <2> SUFFICES ASSUME NEW j \in DOMAIN q, NEW k \in DOMAIN q[j].vars, ~q[j].vars[k].sensitive
               PROVE  <<q[j].name, q[j].vars[k].var>> \in marked
    BY DEF ShownIn
  <2>1. CASE j = i
    BY <1>5, <1>7, <1>9, <2>1
  <2>2. CASE j # i
    BY <1>5, <1>9, <2>2 DEF ShownIn
  <2> QED
    BY <2>1, <2>2
<1>14. EditTypeOK'
  BY <1>1, <1>8, <1>9 DEF EditInv, EditTypeOK
<1>15. FilesStored'
  <2>1. (Stored(file) /\ (asRendered => Arranged(file)))'
    BY <1>1 DEF EditInv, FilesStored, Stored
  <2>2. (Stored(push) /\ Arranged(push))'
    BY <1>1, <1>8, <1>10, <1>11, <1>12, <1>13 DEF Stored
  <2> QED
    BY <2>1, <2>2 DEF FilesStored
<1> QED
  BY <1>1, <1>14, <1>15, EditorStays DEF EditInv

LEMMA WritePushedKeeps ==
    ASSUME EditInv, WritePushed
    PROVE  EditInv'
<1>1. /\ push # None /\ file' = push /\ asRendered' = TRUE /\ push' = None
      /\ env' = env /\ editor' = editor /\ begun' = begun /\ marked' = marked
  BY DEF WritePushed
<1>2. EditTypeOK'
  BY <1>1 DEF EditInv, EditTypeOK
<1>3. FilesStored'
  BY <1>1 DEF EditInv, FilesStored, Stored
<1> QED
  BY <1>1, <1>2, <1>3, EditorStays DEF EditInv

LEMMA FailPushKeeps ==
    ASSUME EditInv, FailPush
    PROVE  EditInv'
<1>1. /\ push' = None
      /\ file' = file /\ asRendered' = asRendered /\ env' = env /\ editor' = editor
      /\ begun' = begun /\ marked' = marked
  BY DEF FailPush
<1>2. EditTypeOK'
  BY <1>1 DEF EditInv, EditTypeOK
<1>3. FilesStored'
  BY <1>1 DEF EditInv, FilesStored, Stored
<1> QED
  BY <1>1, <1>2, <1>3, EditorStays DEF EditInv

LEMMA EditEnvKeeps ==
    ASSUME EditInv, EditEnv
    PROVE  EditInv'
<1>1. /\ file' = file /\ asRendered' = asRendered /\ editor' = editor /\ push' = push
      /\ begun' = begun /\ marked' = marked
  BY DEF EditEnv
<1>2. env' \in [Variables -> Short \cup Long \cup {Absent, Twice}]
  BY DEF EditInv, EditTypeOK, EditEnv
<1>3. EditTypeOK'
  BY <1>1, <1>2 DEF EditInv, EditTypeOK
<1>4. FilesStored'
  BY <1>1 DEF EditInv, FilesStored, Stored
<1> QED
  BY <1>1, <1>3, <1>4, EditorStays DEF EditInv

LEMMA LayOutKeeps ==
    ASSUME EditInv, LayOut
    PROVE  EditInv'
<1>1. /\ asRendered' = FALSE
      /\ file' = file /\ env' = env /\ editor' = editor /\ push' = push
      /\ begun' = begun /\ marked' = marked
  BY DEF LayOut
<1>2. EditTypeOK' /\ FilesStored'
  BY <1>1 DEF EditInv, EditTypeOK, FilesStored, Stored
<1> QED
  BY <1>1, <1>2, EditorStays DEF EditInv

-----------------------------------------------------------------------------
(* The theorems.                                                           *)

LEMMA EditNext == EditInv /\ [Next]_vars => EditInv'
<1> SUFFICES ASSUME EditInv, [Next]_vars
             PROVE  EditInv'
  OBVIOUS
<1>1. CASE Open
  BY <1>1, OpenKeeps
<1>2. CASE Select
  BY <1>2, SelectKeeps
<1>3. CASE Toggle
  BY <1>3, ToggleKeeps
<1>4. CASE MoveVariable
  BY <1>4, MoveVariableKeeps
<1>5. CASE RemoveVariable
  BY <1>5, RemoveVariableKeeps
<1>6. CASE Turn
  BY <1>6, TurnKeeps
<1>7. CASE Save
  BY <1>7, SaveKeeps
<1>8. CASE Cancel
  BY <1>8, CancelKeeps
<1>9. CASE ScopeCreate
  BY <1>9, ScopeCreateKeeps
<1>10. CASE PushScope
  BY <1>10, PushScopeKeeps
<1>11. CASE WritePushed
  BY <1>11, WritePushedKeeps
<1>12. CASE FailPush
  BY <1>12, FailPushKeeps
<1>13. CASE EditEnv
  BY <1>13, EditEnvKeeps
<1>14. CASE LayOut
  BY <1>14, LayOutKeeps
<1>15. CASE UNCHANGED vars
  <2>1. /\ file' = file /\ asRendered' = asRendered /\ env' = env /\ editor' = editor /\ push' = push
        /\ begun' = begun /\ marked' = marked
    BY <1>15 DEF vars
  <2>2. EditTypeOK' /\ FilesStored'
    BY <2>1 DEF EditInv, EditTypeOK, FilesStored, Stored
  <2> QED
    BY <2>1, <2>2, EditorStays DEF EditInv
<1> QED
  BY <1>1, <1>2, <1>3, <1>4, <1>5, <1>6, <1>7, <1>8, <1>9, <1>10, <1>11, <1>12, <1>13, <1>14,
     <1>15 DEF Next

LEMMA EditInvariance == Spec => []EditInv
BY EditInitially, EditNext, PTL DEF Spec

\* The state of the commands has its type, whatever commands overlap.
THEOREM EditTypeCorrect == Spec => []EditTypeOK
<1>1. EditInv => EditTypeOK
  BY DEF EditInv
<1> QED
  BY <1>1, EditInvariance, PTL

\* ConfigEdit.EditsCanBeSaved: whatever a person does on the screens of config
\* edit, what it holds can be rendered, if what it read lists its env files.
THEOREM EditsStaySavable == Spec => []EditsCanBeSaved
<1>1. EditInv => EditsCanBeSaved
  BY DEF EditInv, EditorHolds, EditsCanBeSaved, Valid, Hidden, AllMapped
<1> QED
  BY <1>1, EditInvariance, PTL

\* ConfigEdit.DeclaredOnce: a scope declares a variable once, in the file and in
\* the editor, with moves, pushes and scope create in any order.
THEOREM DeclarationsAreSingle == Spec => []DeclaredOnce
<1>1. EditInv => DeclaredOnce
  BY DEF EditInv, FilesStored, Stored, EditorHolds, DeclaredOnce
<1> QED
  BY <1>1, EditInvariance, PTL

\* ConfigEdit.SummaryTellsTheEdits: the changes a person is shown, made one after
\* the other, lead from what was read to what the editor holds.
THEOREM SummaryIsTrue == Spec => []SummaryTellsTheEdits
<1>1. EditInv => SummaryTellsTheEdits
  BY DEF EditInv
<1> QED
  BY <1>1, EditInvariance, PTL

\* ConfigEdit.InClearAsMarked: a value is in propagate.yaml in clear only where a
\* person marked its variable non_sensitive, or moved it there as such.
THEOREM ClearIsMarked == Spec => []InClearAsMarked
<1>1. EditInv => InClearAsMarked
  BY DEF EditInv, FilesStored, Stored, Hidden, ShownIn, InClearAsMarked
<1> QED
  BY <1>1, EditInvariance, PTL

\* Without a change the editor holds what was read, which is rendered as it is if
\* it was rendered, and in order if not.
LEMMA UntouchedStep ==
    ASSUME EditInv, Next, editor # None, editor' = None, editor.changes = <<>>
    PROVE  \/ UNCHANGED <<file, asRendered>>
           \/ ~editor.asRendered /\ file' = Rendered(editor.read)
<1>1. /\ editor.read \in Seq(Scope) /\ editor.project = editor.read
      /\ editor.asRendered => Arranged(editor.read)
  BY EditorFields DEF EditInv, EditorHolds
<1>2. Modified => ~editor.asRendered
  BY <1>1, RenderedAsRead DEF Modified
<1>3. CASE Save
  BY <1>1, <1>2, <1>3 DEF Save
<1>4. CASE Select \/ Toggle \/ MoveVariable \/ RemoveVariable \/ Turn \/ Cancel
  BY <1>4 DEF Select, Toggle, MoveVariable, RemoveVariable, Turn, Cancel, Editing
<1>5. CASE Open \/ ScopeCreate \/ PushScope \/ WritePushed \/ FailPush \/ EditEnv \/ LayOut
  BY <1>5 DEF Open, ScopeCreate, PushScope, WritePushed, FailPush, EditEnv, LayOut
<1> QED
  BY <1>3, <1>4, <1>5 DEF Next

\* ConfigEdit.UntouchedUnlessLaidOut: a session of config edit without a change
\* writes only where the text it read was not as rendered, whatever the other
\* commands wrote meanwhile, and then no more than what it read.
THEOREM UntouchedStays == Spec => UntouchedUnlessLaidOut
<1>1. EditInv /\ [Next]_vars =>
        [editor # None /\ editor' = None /\ editor.changes = <<>> =>
            \/ UNCHANGED <<file, asRendered>>
            \/ ~editor.asRendered /\ file' = Rendered(editor.read)]_vars
  BY UntouchedStep
<1> QED
  BY <1>1, EditInvariance, PTL DEF Spec, UntouchedUnlessLaidOut
=============================================================================
