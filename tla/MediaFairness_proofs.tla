------------------------ MODULE MediaFairness_proofs ------------------------
(***************************************************************************)
(* Theorems about MediaFairness, for all tenants, jobs, limits and numbers *)
(* of overlapping dispatches: the types; what the choice keeps to; that no *)
(* tenant has more tasks in flight than its limits allow; and that the     *)
(* round robin chooses what the reference does.                            *)
(***************************************************************************)
EXTENDS MediaFairness, SequenceTheorems, FiniteSetTheorems, WellFoundedInduction, TLAPS

-----------------------------------------------------------------------------
(* Induction, stated with sets of numbers *)

LEMMA LeastNumber ==
    ASSUME NEW T \in SUBSET Nat, T # {}
    PROVE  \E m \in T : \A k \in T : m <= k
<1> DEFINE R == {ss \in Nat \X Nat : ss[1] < ss[2]}
<1>1. IsWellFoundedOn(R, Nat)
  BY NatLessThanWellFounded DEF OpToRel
<1>2. \E x \in T : \A y \in T : ~(<<y, x>> \in R)
  <2> HIDE DEF R
  <2> QED
    BY <1>1, WFMin
<1>3. ASSUME NEW x \in T, NEW y \in T, ~(<<y, x>> \in R)
      PROVE  x <= y
  <2>1. <<y, x>> \in Nat \X Nat /\ <<y, x>>[1] = y /\ <<y, x>>[2] = x
    OBVIOUS
  <2> QED
    BY <1>3, <2>1
<1> QED
  BY <1>2, <1>3, Zenon

\* A set of numbers that has 0 and is closed under the successor has them all.
LEMMA SetInduction ==
    ASSUME NEW T, 0 \in T, \A n \in Nat : n \in T => n + 1 \in T
    PROVE  Nat \subseteq T
<1> SUFFICES ASSUME Nat \ T # {}
             PROVE  FALSE
  OBVIOUS
<1>1. PICK m \in Nat \ T : \A k \in Nat \ T : m <= k
  BY LeastNumber
<1>2. m - 1 \in Nat /\ m - 1 \in T
  BY <1>1
<1>3. (m - 1) + 1 \in T
  BY <1>2
<1> QED
  BY <1>1, <1>3

-----------------------------------------------------------------------------
(* The oldest row, and the heads *)

LEMMA OldestIs ==
    ASSUME NEW order \in [Jobs -> Nat], NEW rows \in SUBSET Jobs, rows # {}
    PROVE  /\ Oldest(rows, order) \in rows
           /\ \A k \in rows : order[Oldest(rows, order)] <= order[k]
<1> DEFINE T == {order[j] : j \in rows}
<1>1. T \in SUBSET Nat /\ T # {}
  OBVIOUS
<1>2. PICK m \in T : \A n \in T : m <= n
  <2> HIDE DEF T
  <2> QED
    BY <1>1, LeastNumber
<1>3. \E j \in rows : \A k \in rows : order[j] <= order[k]
  BY <1>2
<1> QED
  BY <1>3 DEF Oldest

LEMMA HeadsExist ==
    ASSUME NEW order \in [Jobs -> Nat], NEW rows \in SUBSET Jobs, rows # {}
    PROVE  Heads(rows, order) \in SUBSET rows /\ Heads(rows, order) # {}
<1>1. Oldest(rows, order) \in Heads(rows, order)
  BY OldestIs DEF Heads, Of
<1> QED
  BY <1>1 DEF Heads

LEMMA NextHeadIs ==
    ASSUME NEW order \in [Jobs -> Nat], NEW heads \in SUBSET Jobs, heads # {}, NEW h \in heads
    PROVE  NextHead(heads, h, order) \in heads
<1> DEFINE later == {k \in heads : order[k] > order[h]}
           S == IF later = {} THEN heads ELSE later
<1>1. S \in SUBSET Jobs /\ S # {} /\ S \subseteq heads
  OBVIOUS
<1>2. NextHead(heads, h, order) = Oldest(S, order)
  BY DEF NextHead
<1> HIDE DEF S
<1> QED
  BY <1>1, <1>2, OldestIs

-----------------------------------------------------------------------------
(* Sequences of jobs *)

\* What a sequence of jobs names.
Picked(s) == {s[n] : n \in 1 .. Len(s)}

LEMMA PickedEmpty == Picked(<<>>) = {}
BY DEF Picked

LEMMA PickedAppend ==
    ASSUME NEW s \in Seq(Jobs), NEW j \in Jobs
    PROVE  /\ Append(s, j) \in Seq(Jobs)
           /\ Len(Append(s, j)) = Len(s) + 1
           /\ Picked(Append(s, j)) = Picked(s) \cup {j}
<1>1. /\ Append(s, j) \in Seq(Jobs)
      /\ Len(s) \in Nat
      /\ Len(Append(s, j)) = Len(s) + 1
      /\ \A n \in 1 .. Len(s) : Append(s, j)[n] = s[n]
      /\ Append(s, j)[Len(s) + 1] = j
  BY AppendProperties
<1>2. 1 .. Len(s) + 1 = (1 .. Len(s)) \cup {Len(s) + 1}
  BY <1>1
<1> QED
  BY <1>1, <1>2, Zenon DEF Picked

LEMMA PickedHead ==
    ASSUME NEW s \in Seq(Jobs), s # <<>>
    PROVE  /\ Head(s) \in Picked(s) /\ Head(s) \in Jobs
           /\ Tail(s) \in Seq(Jobs)
           /\ Picked(s) = Picked(Tail(s)) \cup {Head(s)}
<1>1. /\ Len(s) \in Nat /\ Len(s) > 0
      /\ Head(s) = s[1] /\ Head(s) \in Jobs
      /\ Tail(s) \in Seq(Jobs)
      /\ Len(Tail(s)) = Len(s) - 1
      /\ \A n \in 1 .. Len(s) - 1 : Tail(s)[n] = s[n + 1]
  BY EmptySeq, HeadTailProperties, LenProperties
<1>2. 1 \in 1 .. Len(s) /\ s[1] \in Picked(s)
  BY <1>1 DEF Picked
<1>3. ASSUME NEW j \in Picked(s), j # Head(s)
      PROVE  j \in Picked(Tail(s))
  <2>1. PICK n \in 1 .. Len(s) : j = s[n]
    BY DEF Picked
  <2>2. n - 1 \in 1 .. Len(s) - 1 /\ s[(n - 1) + 1] = j
    BY <1>1, <1>3, <2>1
  <2>3. Tail(s)[n - 1] = j /\ n - 1 \in 1 .. Len(Tail(s))
    BY <1>1, <2>2
  <2> QED
    BY <2>3 DEF Picked
<1>4. ASSUME NEW j \in Picked(Tail(s))
      PROVE  j \in Picked(s)
  <2>1. PICK n \in 1 .. Len(Tail(s)) : j = Tail(s)[n]
    BY DEF Picked
  <2>2. n + 1 \in 1 .. Len(s) /\ s[n + 1] = j
    BY <1>1, <2>1
  <2> QED
    BY <2>2 DEF Picked
<1> QED
  BY <1>1, <1>2, <1>3, <1>4

LEMMA PickedType ==
    ASSUME NEW s \in Seq(Jobs)
    PROVE  Picked(s) \subseteq Jobs
BY ElementOfSeq DEF Picked

-----------------------------------------------------------------------------
(* _choose_fair_jobs *)

\* The local state of the loop.
Round(rows, order) ==
    [left     : SUBSET rows,
     active   : [Tenants -> Nat],
     heads    : {Heads(rows, order)},
     turn     : Heads(rows, order),
     selected : Seq(Jobs)]

\* The slots a choice takes: none, or no more than the limit of the tenant.
Slots(s, before, now, perTenant) ==
    \A t \in Tenants :
        \/ Of(Picked(s), t) = {} /\ now[t] = before[t]
        \/ now[t] = before[t] + Cardinality(Of(Picked(s), t)) /\ now[t] <= perTenant

\* Nobody is chosen before an older row of the same tenant.
OldestFirst(s, rows, order) ==
    \A j \in Picked(s), k \in rows :
        TenantOf[k] = TenantOf[j] /\ order[k] < order[j] => k \in Picked(s)

\* What the loop keeps true.
Within(c, rows, order, active, limit, perTenant) ==
    /\ Len(c.selected) <= limit
    /\ Len(c.selected) = Cardinality(Picked(c.selected))
    /\ Picked(c.selected) = rows \ c.left
    /\ Slots(c.selected, active, c.active, perTenant)
    /\ OldestFirst(c.selected, rows, order)

LEMMA TurnKeeps ==
    ASSUME NEW rows \in SUBSET Jobs, NEW order \in [Jobs -> Nat], NEW active \in [Tenants -> Nat],
           NEW limit \in Nat, NEW perTenant \in Nat,
           NEW c \in Round(rows, order), rows # {},
           Within(c, rows, order, active, limit, perTenant)
    PROVE  /\ Turn(c, order, limit, perTenant) \in Round(rows, order)
           /\ Within(Turn(c, order, limit, perTenant), rows, order, active, limit, perTenant)
<1> DEFINE t == TenantOf[c.turn]
           h == NextHead(c.heads, c.turn, order)
           next == [c EXCEPT !.turn = h]
           mine == Of(c.left, t)
           j == Oldest(mine, order)
           took == [next EXCEPT !.left = @ \ {j}, !.active[t] = @ + 1, !.selected = Append(@, j)]
<1>1. /\ c.left \in SUBSET rows
      /\ c.active \in [Tenants -> Nat]
      /\ c.heads = Heads(rows, order)
      /\ c.turn \in Heads(rows, order)
      /\ c.selected \in Seq(Jobs)
  BY DEF Round
<1>2. h \in Heads(rows, order) /\ t \in Tenants
  BY <1>1, HeadsExist, NextHeadIs, JobsAssumption
<1>3. /\ next \in Round(rows, order)
      /\ next.left = c.left /\ next.active = c.active /\ next.selected = c.selected
  BY <1>2 DEF Round
<1>4. CASE Len(c.selected) >= limit \/ c.active[t] >= perTenant \/ mine = {}
  <2>1. Turn(c, order, limit, perTenant) = next
    BY <1>4 DEF Turn
  <2> HIDE DEF next
  <2> QED
    BY <1>3, <2>1 DEF Within
<1>5. CASE ~(Len(c.selected) >= limit \/ c.active[t] >= perTenant \/ mine = {})
  <2>1. Turn(c, order, limit, perTenant) = took
    BY <1>5 DEF Turn
  <2>2. mine \in SUBSET Jobs /\ mine \subseteq c.left
    BY <1>1 DEF Of
  <2>3. j \in mine /\ \A k \in mine : order[j] <= order[k]
    <3> HIDE DEF mine
    <3> QED
      BY <1>5, <2>2, OldestIs
  <2>4. j \in c.left /\ j \in Jobs /\ TenantOf[j] = t
    BY <2>2, <2>3 DEF Of
  <2>5. \A k \in c.left : TenantOf[k] = t => order[j] <= order[k]
    BY <2>3 DEF Of
  <2> DEFINE s == Append(c.selected, j)
  <2> HIDE DEF j, mine, t, h
  <2>6. /\ s \in Seq(Jobs)
        /\ Len(s) = Len(c.selected) + 1
        /\ Picked(s) = Picked(c.selected) \cup {j}
        /\ Len(c.selected) \in Nat
    BY <1>1, <2>4, PickedAppend, LenProperties
  <2>7. /\ took.left = c.left \ {j}
        /\ took.active = [c.active EXCEPT ![t] = @ + 1]
        /\ took.selected = s
        /\ took \in Round(rows, order)
    <3> HIDE DEF next, s
    <3>1. next \in Round(rows, order) /\ t \in Tenants /\ j \in Jobs
      BY <1>2, <1>3, <2>4
    <3>2. Append(next.selected, j) = s
      BY <1>3 DEF s
    <3>3. /\ took.left = next.left \ {j}
          /\ took.active = [next.active EXCEPT ![t] = @ + 1]
          /\ took.selected = s
      BY <3>1, <3>2 DEF Round
    <3>4. took \in Round(rows, order)
      <4> DEFINE x == next.left \ {j}
                 v == next.active[t] + 1
      <4>1. took = [next EXCEPT !.left = x, !.active[t] = v, !.selected = s]
        BY <3>2
      <4>2. x \in SUBSET rows /\ v \in Nat
        BY <3>1 DEF Round
      <4> HIDE DEF took, x, v
      <4> QED
        BY <2>6, <3>1, <4>1, <4>2 DEF Round
    <3> QED
      BY <1>3, <3>3, <3>4
  <2> HIDE DEF took, s, next
  <2>8. Len(s) <= limit
    BY <1>5, <2>6
  <2>9. Picked(c.selected) = rows \ c.left /\ j \notin Picked(c.selected)
    BY <2>4 DEF Within
  <2>10. Picked(s) = rows \ took.left
    BY <1>1, <2>4, <2>6, <2>7, <2>9
  <2>11. IsFiniteSet(Picked(c.selected)) /\ Picked(c.selected) \in SUBSET Jobs
    BY <1>1, PickedType, FS_Subset, JobsAssumption
  <2>12. Len(s) = Cardinality(Picked(s))
    <3>1. Len(c.selected) = Cardinality(Picked(c.selected))
      BY DEF Within
    <3>2. Cardinality(Picked(c.selected) \cup {j}) = Cardinality(Picked(c.selected)) + 1
      BY <2>9, <2>11, FS_AddElement
    <3> QED
      BY <2>6, <3>1, <3>2
  <2>13. Slots(s, active, took.active, perTenant)
    <3> SUFFICES ASSUME NEW u \in Tenants
                 PROVE  \/ Of(Picked(s), u) = {} /\ took.active[u] = active[u]
                        \/ /\ took.active[u] = active[u] + Cardinality(Of(Picked(s), u))
                           /\ took.active[u] <= perTenant
      BY DEF Slots
    <3>1. \/ Of(Picked(c.selected), u) = {} /\ c.active[u] = active[u]
          \/ /\ c.active[u] = active[u] + Cardinality(Of(Picked(c.selected), u))
             /\ c.active[u] <= perTenant
      BY DEF Within, Slots
    <3>2. CASE u # t
      <4>1. Of(Picked(s), u) = Of(Picked(c.selected), u)
        BY <2>4, <2>6, <3>2 DEF Of
      <4>2. took.active[u] = c.active[u]
        BY <1>1, <2>7, <3>2
      <4> QED
        BY <3>1, <4>1, <4>2
    <3>3. CASE u = t
      <4> DEFINE P == Of(Picked(c.selected), t)
      <4>1. Of(Picked(s), t) = P \cup {j} /\ j \notin P /\ IsFiniteSet(P)
        BY <2>4, <2>6, <2>9, <2>11, FS_Subset DEF Of
      <4>2. took.active[t] = c.active[t] + 1 /\ c.active[t] \in Nat /\ active[t] \in Nat
        BY <1>1, <1>2, <2>7
      <4> HIDE DEF P
      <4>3. Cardinality(P \cup {j}) = Cardinality(P) + 1 /\ Cardinality(P) \in Nat
        BY <4>1, FS_AddElement, FS_CardinalityType
      <4>4. c.active[t] + 1 <= perTenant
        BY <1>5, <4>2
      <4>5. c.active[t] = active[t] + Cardinality(P)
        BY <3>1, <3>3, <4>2, FS_EmptySet DEF P
      <4> QED
        BY <3>3, <4>1, <4>2, <4>3, <4>4, <4>5
    <3> QED
      BY <3>2, <3>3
  <2>14. OldestFirst(s, rows, order)
    <3> SUFFICES ASSUME NEW i \in Picked(s), NEW k \in rows,
                        TenantOf[k] = TenantOf[i], order[k] < order[i]
                 PROVE  k \in Picked(s)
      BY DEF OldestFirst
    <3>1. CASE i \in Picked(c.selected)
      BY <2>6, <3>1 DEF Within, OldestFirst
    <3>2. CASE i = j
      <4>1. k \notin c.left
        <5>1. order[k] \in Nat /\ order[j] \in Nat
          BY <2>4
        <5> QED
          BY <2>4, <2>5, <3>2, <5>1
      <4> QED
        BY <2>6, <2>9, <4>1
    <3> QED
      BY <2>6, <3>1, <3>2
  <2> QED
    BY <2>1, <2>7, <2>8, <2>10, <2>12, <2>13, <2>14 DEF Within
<1> QED
  BY <1>4, <1>5

LEMMA TurnOnce ==
    ASSUME NEW x, NEW order, NEW limit, NEW perTenant
    PROVE  (CHOOSE c \in {Turn(b, order, limit, perTenant) : b \in {x}} : TRUE)
              = Turn(x, order, limit, perTenant)
<1>1. {Turn(b, order, limit, perTenant) : b \in {x}} = {Turn(x, order, limit, perTenant)}
  OBVIOUS
<1> QED
  BY <1>1

\* The turns one after the other: the function that Turns computes its result with.
TurnByTurn(first, last, after, rows, order, active, limit, perTenant) ==
    /\ first = [left |-> rows, active |-> active, heads |-> Heads(rows, order),
                turn |-> Oldest(Heads(rows, order), order), selected |-> <<>>]
    /\ last \in Nat /\ last = limit * Cardinality(Heads(rows, order))
    /\ Turns(rows, order, active, limit, perTenant) = after[last]
    /\ \A n \in 0 .. last :
          after[n] = IF n = 0 THEN first ELSE Turn(after[n - 1], order, limit, perTenant)

LEMMA TurnsLoop ==
    ASSUME NEW rows \in SUBSET Jobs, NEW order \in [Jobs -> Nat], NEW active, NEW limit \in Nat,
           NEW perTenant
    PROVE  \E first, last, after :
              TurnByTurn(first, last, after, rows, order, active, limit, perTenant)
<1> DEFINE start == [left |-> rows, active |-> active, heads |-> Heads(rows, order),
                     turn |-> Oldest(Heads(rows, order), order), selected |-> <<>>]
           end == limit * Cardinality(start.heads)
           step(x) == CHOOSE c \in {Turn(b, order, limit, perTenant) : b \in {x}} : TRUE
           Loop(f) == f = [n \in 0 .. end |->
                              IF n = 0 THEN start
                              ELSE CHOOSE c \in {Turn(b, order, limit, perTenant) : b \in {f[n - 1]}} :
                                      TRUE]
           after == CHOOSE f : Loop(f)
<1>1. Turns(rows, order, active, limit, perTenant) = after[end]
  BY DEF Turns
<1>2. start = [left |-> rows, active |-> active, heads |-> Heads(rows, order),
               turn |-> Oldest(Heads(rows, order), order), selected |-> <<>>]
  OBVIOUS
<1>3. end \in Nat /\ end = limit * Cardinality(Heads(rows, order))
  <2>1. IsFiniteSet(Heads(rows, order))
    BY FS_Subset, JobsAssumption DEF Heads
  <2>2. Cardinality(Heads(rows, order)) \in Nat
    BY <2>1, FS_CardinalityType
  <2>3. start.heads = Heads(rows, order)
    OBVIOUS
  <2> HIDE DEF start
  <2> QED
    BY <2>2, <2>3
<1> HIDE DEF start, end
<1> DEFINE T == {m \in Nat : \E f : f = [n \in 0 .. m |-> IF n = 0 THEN start ELSE step(f[n - 1])]}
<1> HIDE DEF step
<1>4. 0 \in T
  <2> DEFINE f == [n \in 0 .. 0 |-> start]
  <2>1. f = [n \in 0 .. 0 |-> IF n = 0 THEN start ELSE step(f[n - 1])]
    OBVIOUS
  <2> QED
    BY <2>1
<1>5. ASSUME NEW m \in Nat, m \in T
      PROVE  m + 1 \in T
  <2>1. PICK f : f = [n \in 0 .. m |-> IF n = 0 THEN start ELSE step(f[n - 1])]
    BY <1>5
  <2> DEFINE g == [n \in 0 .. m + 1 |-> IF n = m + 1 THEN step(f[m]) ELSE f[n]]
  <2>2. \A n \in 0 .. m + 1 : g[n] = IF n = 0 THEN start ELSE step(g[n - 1])
    <3> SUFFICES ASSUME NEW n \in 0 .. m + 1
                 PROVE  g[n] = IF n = 0 THEN start ELSE step(g[n - 1])
      OBVIOUS
    <3>1. CASE n = m + 1
      BY <3>1
    <3>2. CASE n # m + 1
      <4>1. n \in 0 .. m /\ g[n] = f[n]
        BY <3>2
      <4>2. f[n] = IF n = 0 THEN start ELSE step(f[n - 1])
        BY <2>1, <4>1
      <4>3. n # 0 => n - 1 \in 0 .. m /\ g[n - 1] = f[n - 1]
        BY <4>1
      <4> QED
        BY <4>1, <4>2, <4>3
    <3> QED
      BY <3>1, <3>2
  <2>3. g = [n \in 0 .. m + 1 |-> g[n]]
    OBVIOUS
  <2> HIDE DEF g
  <2>4. g = [n \in 0 .. m + 1 |-> IF n = 0 THEN start ELSE step(g[n - 1])]
    BY <2>2, <2>3
  <2> QED
    BY <2>4
<1>6. end \in T
  <2> HIDE DEF T
  <2> QED
    BY <1>3, <1>4, <1>5, SetInduction
<1>7. \E f : f = [n \in 0 .. end |-> IF n = 0 THEN start ELSE step(f[n - 1])]
  BY <1>6
<1>8. \E f : Loop(f)
  BY <1>7 DEF step
<1>9. Loop(after)
  <2> HIDE DEF Loop
  <2> QED
    BY <1>8
<1> HIDE DEF after
<1>10. \A n \in 0 .. end : after[n] = IF n = 0 THEN start
                                      ELSE Turn(after[n - 1], order, limit, perTenant)
  <2> SUFFICES ASSUME NEW n \in 0 .. end
               PROVE  after[n] = IF n = 0 THEN start
                                 ELSE Turn(after[n - 1], order, limit, perTenant)
    OBVIOUS
  <2>1. after[n] = IF n = 0 THEN start
                   ELSE CHOOSE c \in {Turn(b, order, limit, perTenant) : b \in {after[n - 1]}} : TRUE
    BY <1>9
  <2> QED
    BY <2>1, TurnOnce
<1> QED
  BY <1>1, <1>2, <1>3, <1>10 DEF TurnByTurn

\* Before the first turn.
LEMMA StartWithin ==
    ASSUME NEW rows \in SUBSET Jobs, NEW order \in [Jobs -> Nat], NEW active \in [Tenants -> Nat],
           NEW limit \in Nat, NEW perTenant \in Nat, rows # {}, NEW first,
           first = [left |-> rows, active |-> active, heads |-> Heads(rows, order),
                    turn |-> Oldest(Heads(rows, order), order), selected |-> <<>>]
    PROVE  first \in Round(rows, order) /\ Within(first, rows, order, active, limit, perTenant)
<1>1. Oldest(Heads(rows, order), order) \in Heads(rows, order)
  BY HeadsExist, OldestIs
<1>2. first \in Round(rows, order)
  BY <1>1 DEF Round
<1>3. first.left = rows /\ first.active = active /\ first.selected = <<>>
  OBVIOUS
<1> DEFINE s == first.selected
<1>4. Len(s) = 0 /\ Picked(s) = {}
  BY <1>3, PickedEmpty
<1> HIDE DEF s
<1>5. Cardinality({}) = 0 /\ \A t : Of({}, t) = {}
  BY FS_EmptySet DEF Of
<1>6. Slots(s, active, first.active, perTenant)
  BY <1>3, <1>4, <1>5, Zenon DEF Slots
<1>7. OldestFirst(s, rows, order)
  BY <1>4, Zenon DEF OldestFirst
<1>8. Len(s) <= limit /\ Len(s) = Cardinality(Picked(s)) /\ Picked(s) = rows \ first.left
  BY <1>3, <1>4, <1>5
<1> QED
  BY <1>2, <1>6, <1>7, <1>8 DEF Within, s

LEMMA TurnsWithin ==
    ASSUME NEW rows \in SUBSET Jobs, NEW order \in [Jobs -> Nat], NEW active \in [Tenants -> Nat],
           NEW limit \in Nat, NEW perTenant \in Nat, rows # {}
    PROVE  /\ Turns(rows, order, active, limit, perTenant) \in Round(rows, order)
           /\ Within(Turns(rows, order, active, limit, perTenant),
                     rows, order, active, limit, perTenant)
<1>0. PICK first, last, after :
         TurnByTurn(first, last, after, rows, order, active, limit, perTenant)
  BY TurnsLoop
<1>1. /\ first = [left |-> rows, active |-> active, heads |-> Heads(rows, order),
                  turn |-> Oldest(Heads(rows, order), order), selected |-> <<>>]
      /\ last \in Nat
      /\ Turns(rows, order, active, limit, perTenant) = after[last]
      /\ \A n \in 0 .. last :
            after[n] = IF n = 0 THEN first ELSE Turn(after[n - 1], order, limit, perTenant)
  BY <1>0 DEF TurnByTurn
<1>2. /\ first \in Round(rows, order)
      /\ Within(first, rows, order, active, limit, perTenant)
  BY <1>1, StartWithin
<1> DEFINE T == {n \in Nat : n <= last => /\ after[n] \in Round(rows, order)
                                          /\ Within(after[n], rows, order, active, limit, perTenant)}
<1>3. 0 \in T
  BY <1>1, <1>2
<1>4. ASSUME NEW n \in Nat, n \in T
      PROVE  n + 1 \in T
  <2> SUFFICES ASSUME n + 1 <= last
               PROVE  /\ after[n + 1] \in Round(rows, order)
                      /\ Within(after[n + 1], rows, order, active, limit, perTenant)
    OBVIOUS
  <2>1. after[n + 1] = Turn(after[n], order, limit, perTenant)
    <3>1. n + 1 \in 0 .. last /\ n + 1 # 0 /\ (n + 1) - 1 = n
      BY <1>1
    <3> QED
      BY <1>1, <3>1
  <2>2. /\ after[n] \in Round(rows, order)
        /\ Within(after[n], rows, order, active, limit, perTenant)
    BY <1>1, <1>4
  <2> QED
    BY <2>1, <2>2, TurnKeeps
<1>5. last \in T
  <2> HIDE DEF T
  <2> QED
    BY <1>1, <1>3, <1>4, SetInduction
<1> QED
  BY <1>1, <1>5

KeepsLimits(s, rows, order, active, limit, perTenant) ==
    /\ s \in Seq(Jobs)
    /\ Len(s) <= limit
    /\ Len(s) = Cardinality(Picked(s))
    /\ Picked(s) \subseteq rows
    /\ \A t \in Tenants :
          Of(Picked(s), t) = {} \/ active[t] + Cardinality(Of(Picked(s), t)) <= perTenant
    /\ OldestFirst(s, rows, order)

\* _choose_fair_jobs chooses different rows, no more than the limit, of each
\* tenant no more than it has free slots, and the oldest of them: for whatever
\* was read, and every limit.
THEOREM ChoiceKeepsLimits ==
    ASSUME NEW rows \in SUBSET Jobs, NEW order \in [Jobs -> Nat], NEW active \in [Tenants -> Nat],
           NEW limit \in Nat, NEW perTenant \in Nat
    PROVE  KeepsLimits(Choose(rows, order, active, limit, perTenant),
                       rows, order, active, limit, perTenant)
<1> DEFINE s == Choose(rows, order, active, limit, perTenant)
<1>1. CASE rows = {}
  <2>1. s = <<>> /\ <<>> \in Seq(Jobs) /\ Len(<<>>) = 0
    BY <1>1 DEF Choose
  <2> HIDE DEF s
  <2>2. Picked(s) = {} /\ Cardinality({}) = 0 /\ \A t : Of({}, t) = {}
    BY <2>1, PickedEmpty, FS_EmptySet DEF Of
  <2>3. OldestFirst(s, rows, order) /\ Picked(s) \subseteq rows
    BY <2>2 DEF OldestFirst
  <2>4. s \in Seq(Jobs) /\ Len(s) = 0
    BY <2>1
  <2>5. \A t \in Tenants : Of(Picked(s), t) = {}
    BY <2>2
  <2>6. Len(s) <= limit /\ Len(s) = Cardinality(Picked(s))
    BY <2>2, <2>4
  <2> QED
    BY <2>3, <2>4, <2>5, <2>6 DEF KeepsLimits, s
<1>2. CASE rows # {}
  <2> DEFINE c == Turns(rows, order, active, limit, perTenant)
  <2>1. c \in Round(rows, order) /\ Within(c, rows, order, active, limit, perTenant)
    BY <1>2, TurnsWithin
  <2>2. s = c.selected
    BY <1>2 DEF Choose
  <2> HIDE DEF c, s
  <2>3. s \in Seq(Jobs) /\ c.left \in SUBSET rows
    BY <2>1, <2>2 DEF Round
  <2>4. /\ Len(s) <= limit
        /\ Len(s) = Cardinality(Picked(s))
        /\ Picked(s) = rows \ c.left
        /\ OldestFirst(s, rows, order)
    BY <2>1, <2>2 DEF Within
  <2>5. \A t \in Tenants :
           Of(Picked(s), t) = {} \/ active[t] + Cardinality(Of(Picked(s), t)) <= perTenant
    <3> SUFFICES ASSUME NEW t \in Tenants, Of(Picked(s), t) # {}
                 PROVE  active[t] + Cardinality(Of(Picked(s), t)) <= perTenant
      OBVIOUS
    <3>1. Slots(s, active, c.active, perTenant)
      BY <2>1, <2>2 DEF Within
    <3>2. /\ c.active[t] = active[t] + Cardinality(Of(Picked(s), t))
          /\ c.active[t] <= perTenant
      BY <3>1 DEF Slots
    <3> QED
      BY <3>2
  <2> QED
    BY <2>3, <2>4, <2>5 DEF KeepsLimits, s
<1> QED
  BY <1>1, <1>2

-----------------------------------------------------------------------------
(* The rows *)

\* created_at numbers the rows.
RowsInv ==
    /\ row \in [Jobs -> Statuses]
    /\ made \in [Jobs -> 0 .. Cardinality(Jobs)]
    /\ \A j \in Jobs : made[j] = 0 <=> row[j] = "absent"
    /\ \A j, k \in Jobs : made[j] = made[k] => j = k \/ made[j] = 0
    /\ \A j \in Jobs : made[j] <= Total

LEMMA TotalIs ==
    /\ IsFiniteSet({k \in Jobs : row[k] # "absent"})
    /\ Total \in Nat
    /\ Total <= Cardinality(Jobs)
    /\ Cardinality(Jobs) \in Nat
<1> DEFINE S == {k \in Jobs : row[k] # "absent"}
<1>1. S \subseteq Jobs
  OBVIOUS
<1> HIDE DEF S
<1>2. IsFiniteSet(S) /\ Cardinality(S) <= Cardinality(Jobs)
  BY <1>1, FS_Subset, JobsAssumption
<1>3. Cardinality(S) \in Nat /\ Cardinality(Jobs) \in Nat
  BY <1>2, FS_CardinalityType, JobsAssumption
<1> QED
  BY <1>2, <1>3 DEF Total, S

LEMMA RowMoves ==
    ASSUME RowsInv, NEW j \in Jobs, row[j] # "absent", NEW s \in Statuses \ {"absent"},
           row' = [row EXCEPT ![j] = s], UNCHANGED made
    PROVE  RowsInv' /\ \A k \in Jobs : row[k] # "absent" => row'[k] # "absent"
<1>1. /\ row' \in [Jobs -> Statuses]
      /\ \A k \in Jobs : row'[k] = "absent" <=> row[k] = "absent"
  BY DEF RowsInv
<1>2. {k \in Jobs : row'[k] # "absent"} = {k \in Jobs : row[k] # "absent"}
  BY <1>1
<1>3. Total' = Total
  BY <1>2 DEF Total
<1> QED
  BY <1>1, <1>3 DEF RowsInv

LEMMA RowsStay ==
    ASSUME RowsInv, UNCHANGED row, UNCHANGED made
    PROVE  RowsInv' /\ \A k \in Jobs : row[k] # "absent" => row'[k] # "absent"
BY DEF RowsInv, Total

LEMMA IngestRows ==
    ASSUME RowsInv, NEW j \in Jobs, Ingest(j)
    PROVE  RowsInv' /\ \A k \in Jobs : row[k] # "absent" => row'[k] # "absent"
<1> DEFINE S == {k \in Jobs : row[k] # "absent"}
<1>1. /\ row[j] = "absent"
      /\ row' = [row EXCEPT ![j] = "queued"]
      /\ made' = [made EXCEPT ![j] = Total + 1]
  BY DEF Ingest
<1>2. /\ row' \in [Jobs -> Statuses]
      /\ \A k \in Jobs : row'[k] = "absent" <=> row[k] = "absent" /\ k # j
  BY <1>1 DEF RowsInv, Statuses
<1>3. {k \in Jobs : row'[k] # "absent"} = S \cup {j} /\ j \notin S /\ S \cup {j} \subseteq Jobs
  BY <1>1, <1>2
<1>4. IsFiniteSet(S) /\ Total \in Nat /\ Cardinality(Jobs) \in Nat
  BY TotalIs
<1>5. Total = Cardinality(S) /\ Total' = Cardinality(S \cup {j})
  BY <1>3 DEF Total
<1> HIDE DEF S
<1>6. Cardinality(S \cup {j}) = Cardinality(S) + 1
  BY <1>3, <1>4, FS_AddElement
<1>7. Cardinality(S \cup {j}) <= Cardinality(Jobs)
  BY <1>3, FS_Subset, JobsAssumption
<1>8. Total' = Total + 1 /\ Total + 1 \in 1 .. Cardinality(Jobs)
  BY <1>4, <1>5, <1>6, <1>7
<1>9. /\ made' \in [Jobs -> 0 .. Cardinality(Jobs)]
      /\ \A k \in Jobs : made'[k] = IF k = j THEN Total + 1 ELSE made[k]
  BY <1>1, <1>8 DEF RowsInv
<1>10. \A k \in Jobs : made[k] <= Total /\ made[k] \in Nat /\ (made[k] = 0 <=> row[k] = "absent")
  BY DEF RowsInv
<1>11. \A k \in Jobs : made'[k] = 0 <=> row'[k] = "absent"
  BY <1>2, <1>4, <1>9, <1>10
<1>12. \A k, l \in Jobs : made'[k] = made'[l] => k = l \/ made'[k] = 0
  BY <1>4, <1>9, <1>10 DEF RowsInv
<1>13. \A k \in Jobs : made'[k] <= Total'
  BY <1>4, <1>8, <1>9, <1>10
<1> QED
  BY <1>2, <1>9, <1>11, <1>12, <1>13 DEF RowsInv

LEMMA ResetRows ==
    ASSUME RowsInv, NEW j \in Jobs, row[j] # "absent", Reset(j)
    PROVE  RowsInv' /\ \A k \in Jobs : row[k] # "absent" => row'[k] # "absent"
<1> DEFINE m == made[j]
<1>1. /\ row' = [row EXCEPT ![j] = "queued"]
      /\ made' = [k \in Jobs |-> IF k = j THEN Total
                                ELSE IF made[k] > m THEN made[k] - 1 ELSE made[k]]
  BY DEF Reset
<1>2. /\ row' \in [Jobs -> Statuses]
      /\ \A k \in Jobs : row'[k] = "absent" <=> row[k] = "absent"
  BY <1>1 DEF RowsInv, Statuses
<1>3. {k \in Jobs : row'[k] # "absent"} = {k \in Jobs : row[k] # "absent"}
  BY <1>2
<1>4. Total' = Total
  BY <1>3 DEF Total
<1>5. Total \in Nat /\ Total <= Cardinality(Jobs) /\ Cardinality(Jobs) \in Nat
  BY TotalIs
<1>6. \A k \in Jobs : /\ made[k] \in Nat /\ made[k] <= Total
                      /\ made[k] = 0 <=> row[k] = "absent"
                      /\ made[k] = m => k = j
  BY DEF RowsInv
<1>7. m \in Nat /\ 1 <= m /\ m <= Total
  BY <1>6
<1> HIDE DEF m
<1>8. \A k \in Jobs : made'[k] = IF k = j THEN Total
                                 ELSE IF made[k] > m THEN made[k] - 1 ELSE made[k]
  BY <1>1
<1>9. \A k \in Jobs : /\ made'[k] \in 0 .. Cardinality(Jobs) /\ made'[k] <= Total
                      /\ made'[k] = 0 <=> row[k] = "absent"
  BY <1>5, <1>6, <1>7, <1>8
<1>10. made' \in [Jobs -> 0 .. Cardinality(Jobs)]
  BY <1>1, <1>9
<1>11. \A k, l \in Jobs : made'[k] = made'[l] => k = l \/ made'[k] = 0
  <2> SUFFICES ASSUME NEW k \in Jobs, NEW l \in Jobs, made'[k] = made'[l], k # l
               PROVE  made'[k] = 0
    OBVIOUS
  <2>1. made[k] = made[l] => made[k] = 0
    BY DEF RowsInv
  <2>2. k = j => made'[l] < Total
    BY <1>5, <1>6, <1>7, <1>8
  <2>3. l = j => made'[k] < Total
    BY <1>5, <1>6, <1>7, <1>8
  <2>4. CASE k # j /\ l # j
    BY <1>6, <1>7, <1>8, <2>1, <2>4
  <2> QED
    BY <1>5, <1>8, <2>2, <2>3, <2>4
<1> QED
  BY <1>2, <1>4, <1>9, <1>10, <1>11 DEF RowsInv

-----------------------------------------------------------------------------
(* The runs of the dispatcher *)

\* What a run has read, and what it is about to enqueue.
TodoOf(r) == {j \in Jobs : r.order[j] > 0} \cup Picked(r.chosen)
Todo(d) == TodoOf(disp[d])

\* What belongs to each point of a run.
Fits(r) ==
    /\ r.pc = "idle" => r = Idle
    /\ r.pc \in {"count", "inspect"} => /\ r.rest # {}
                                        /\ \A j \in r.rest : r.order[j] > 0
                                        /\ r.chosen = <<>>
    /\ r.pc = "put" => r.chosen # <<>> /\ r.order = Idle.order

RunsInv == disp \in [Dispatchers -> Dispatch] /\ \A d \in Dispatchers : Fits(disp[d])

OldInv == old \in [Jobs -> SUBSET Dispatchers]

LEMMA IdleFits == Idle \in Dispatch /\ Fits(Idle) /\ TodoOf(Idle) = {} /\ Idle.pc = "idle"
<1>1. <<>> \in Seq(Jobs)
  OBVIOUS
<1>2. /\ Idle.pc = "idle" /\ Idle.order = [j \in Jobs |-> 0] /\ Idle.chosen = <<>>
      /\ Idle.active = [t \in Tenants |-> 0] /\ Idle.rest = {} /\ Idle.seen = {}
  BY DEF Idle
<1>3. Idle \in Dispatch
  BY <1>1 DEF Idle, Dispatch
<1>4. Fits(Idle)
  BY <1>2, Zenon DEF Fits
<1>5. TodoOf(Idle) = {}
  BY <1>2, PickedEmpty DEF TodoOf
<1> QED
  BY <1>2, <1>3, <1>4, <1>5

LEMMA RunMoves ==
    ASSUME RunsInv, NEW d \in Dispatchers, NEW r \in Dispatch, Fits(r),
           disp' = [disp EXCEPT ![d] = r]
    PROVE  RunsInv' /\ \A e \in Dispatchers : disp'[e] = IF e = d THEN r ELSE disp[e]
<1>1. /\ disp' \in [Dispatchers -> Dispatch]
      /\ \A e \in Dispatchers : disp'[e] = IF e = d THEN r ELSE disp[e]
  BY DEF RunsInv
<1>2. \A e \in Dispatchers : Fits(disp'[e])
  BY <1>1 DEF RunsInv
<1> QED
  BY <1>1, <1>2 DEF RunsInv

\* What a run of the dispatcher may become; when it has nothing left, it is over.
Becomes(d, r) == r \in Dispatch /\ Fits(r) /\ disp' = [disp EXCEPT ![d] = r]
Closes(d, r) == UNCHANGED old \/ (Over(d) /\ TodoOf(r) = {})

LEMMA ReadIs ==
    ASSUME RowsInv, NEW d \in Dispatchers, ReadPending(d)
    PROVE  \E r : /\ Becomes(d, r)
                  /\ r.pc = "count" /\ r.rest = Pending /\ r.chosen = <<>>
                  /\ TodoOf(r) = Pending
<1>1. /\ Pending # {}
      /\ disp' = [disp EXCEPT ![d] =
                     [Idle EXCEPT !.pc = "count", !.rest = Pending,
                                  !.order = [j \in Jobs |-> IF j \in Pending THEN made[j] ELSE 0]]]
  BY DEF ReadPending
<1>2. Pending \in SUBSET Jobs /\ \A j \in Pending : made[j] > 0
  <2>1. \A j \in Jobs : made[j] \in Nat /\ (made[j] = 0 <=> row[j] = "absent")
    BY DEF RowsInv
  <2>2. \A j \in Pending : j \in Jobs /\ row[j] # "absent"
    BY DEF Pending, Dispatchable
  <2> QED
    BY <2>1, <2>2
<1> DEFINE o == [j \in Jobs |-> IF j \in Pending THEN made[j] ELSE 0]
           r == [Idle EXCEPT !.pc = "count", !.rest = Pending, !.order = o]
<1>3. o \in [Jobs -> Nat] /\ \A j \in Jobs : o[j] > 0 <=> j \in Pending
  BY <1>2 DEF RowsInv
<1>4. disp' = [disp EXCEPT ![d] = r]
  BY <1>1
<1> HIDE DEF o
<1>5. /\ r.pc = "count" /\ r.rest = Pending /\ r.order = o /\ r.chosen = <<>>
      /\ r \in Dispatch
  BY <1>2, <1>3, IdleFits DEF Idle, Dispatch
<1> HIDE DEF r
<1>6. TodoOf(r) = Pending
  BY <1>2, <1>3, <1>5, PickedEmpty DEF TodoOf
<1>7. Fits(r)
  BY <1>1, <1>2, <1>3, <1>5 DEF Fits
<1> QED
  BY <1>4, <1>5, <1>6, <1>7 DEF Becomes

LEMMA CountIs ==
    ASSUME RunsInv, NEW d \in Dispatchers, CountActive(d)
    PROVE  \E r : /\ Becomes(d, r)
                  /\ r.pc = "inspect" /\ r.rest = disp[d].rest /\ r.chosen = <<>>
                  /\ TodoOf(r) = Todo(d)
                  /\ \A t \in Tenants :
                        r.active[t] = Cardinality({j \in Of(Jobs, t) : row[j] = "processing"})
<1> DEFINE a == [t \in Tenants |-> Cardinality({j \in Of(Jobs, t) : row[j] = "processing"})]
           c == disp[d]
           r == [c EXCEPT !.pc = "inspect", !.active = a]
<1>1. c \in Dispatch /\ Fits(c) /\ c.pc = "count"
  BY DEF RunsInv, CountActive
<1>2. disp' = [disp EXCEPT ![d] = r]
  BY DEF CountActive
<1>3. a \in [Tenants -> Nat]
  <2> SUFFICES ASSUME NEW t \in Tenants
               PROVE  Cardinality({j \in Of(Jobs, t) : row[j] = "processing"}) \in Nat
    OBVIOUS
  <2>1. {j \in Of(Jobs, t) : row[j] = "processing"} \subseteq Jobs
    BY DEF Of
  <2> QED
    BY <2>1, FS_Subset, FS_CardinalityType, JobsAssumption
<1>4. \A t \in Tenants :
         a[t] = Cardinality({j \in Of(Jobs, t) : row[j] = "processing"})
  OBVIOUS
<1>0. c = disp[d]
  OBVIOUS
<1> HIDE DEF a, c
<1>5. /\ r.pc = "inspect" /\ r.rest = c.rest /\ r.order = c.order /\ r.chosen = c.chosen
      /\ r.active = a /\ r \in Dispatch
  BY <1>1, <1>3 DEF Dispatch
<1> HIDE DEF r
<1>6. Fits(r) /\ r.chosen = <<>>
  BY <1>1, <1>5 DEF Fits
<1>7. TodoOf(r) = Todo(d)
  BY <1>0, <1>5 DEF Todo, TodoOf
<1> QED
  BY <1>0, <1>2, <1>4, <1>5, <1>6, <1>7 DEF Becomes

\* A run that goes on with what is chosen.
LEMMA ProceedIs ==
    ASSUME NEW d \in Dispatchers, NEW s \in Seq(Jobs), Proceed(d, s)
    PROVE  \E r : /\ Becomes(d, r)
                  /\ r.pc \in {"idle", "put"} /\ r.chosen = s
                  /\ TodoOf(r) = Picked(s)
                  /\ Closes(d, r)
<1>1. CASE s = <<>>
  <2>1. disp' = [disp EXCEPT ![d] = Idle] /\ Over(d)
    BY <1>1 DEF Proceed
  <2>2. Idle.chosen = s /\ TodoOf(Idle) = Picked(s)
    BY <1>1, IdleFits, PickedEmpty DEF Idle
  <2> QED
    BY <2>1, <2>2, IdleFits DEF Becomes, Closes
<1>2. CASE s # <<>>
  <2> DEFINE r == [Idle EXCEPT !.pc = "put", !.chosen = s]
  <2>1. disp' = [disp EXCEPT ![d] = r] /\ UNCHANGED old
    BY <1>2 DEF Proceed
  <2>2. /\ r.pc = "put" /\ r.chosen = s /\ r.order = [j \in Jobs |-> 0]
        /\ r.order = Idle.order
        /\ r \in Dispatch
    BY IdleFits DEF Idle, Dispatch
  <2> HIDE DEF r
  <2>3. TodoOf(r) = Picked(s)
    BY <2>2 DEF TodoOf
  <2>4. Fits(r)
    BY <1>2, <2>2 DEF Fits
  <2> QED
    BY <2>1, <2>2, <2>3, <2>4 DEF Becomes, Closes
<1> QED
  BY <1>1, <1>2

LEMMA PutIs ==
    ASSUME RunsInv, NEW d \in Dispatchers, Put(d)
    PROVE  \E j \in Picked(disp[d].chosen) : \E r :
              /\ j \in Jobs
              /\ arq' = [arq EXCEPT ![j] = IF @ = "none" THEN "queued" ELSE @]
              /\ Becomes(d, r)
              /\ r.pc \in {"idle", "put"}
              /\ TodoOf(r) = Picked(r.chosen)
              /\ Picked(r.chosen) \subseteq Picked(disp[d].chosen)
              /\ Closes(d, r)
<1> DEFINE s == disp[d].chosen
<1>1. disp[d] \in Dispatch /\ Fits(disp[d]) /\ disp[d].pc = "put"
  BY DEF RunsInv, Put
<1>2. s \in Seq(Jobs) /\ s # <<>>
  BY <1>1 DEF Dispatch, Fits
<1>3. /\ arq' = [arq EXCEPT ![Head(s)] = IF @ = "none" THEN "queued" ELSE @]
      /\ Proceed(d, Tail(s))
  BY DEF Put
<1>0. s = disp[d].chosen
  OBVIOUS
<1> HIDE DEF s
<1>4. /\ Head(s) \in Picked(s) /\ Head(s) \in Jobs
      /\ Tail(s) \in Seq(Jobs)
      /\ Picked(Tail(s)) \subseteq Picked(s)
  BY <1>2, PickedHead
<1>5. PICK r : /\ Becomes(d, r)
               /\ r.pc \in {"idle", "put"} /\ r.chosen = Tail(s)
               /\ TodoOf(r) = Picked(Tail(s))
               /\ Closes(d, r)
  BY <1>3, <1>4, ProceedIs
<1> QED
  BY <1>0, <1>3, <1>4, <1>5

-----------------------------------------------------------------------------
(* The candidate that ARQ is asked about *)

\* Not the last one, with act the counts that include it; or the last one, and
\* then the choice.
GoesOn(d, r, j, act) ==
    /\ r.pc = "inspect" /\ r.rest = disp[d].rest \ {j} /\ r.chosen = <<>>
    /\ r.active = act
    /\ TodoOf(r) = Todo(d)
    /\ UNCHANGED old

Decides(d, r, j, act) ==
    /\ disp[d].rest = {j}
    /\ r.pc \in {"idle", "put"}
    /\ TodoOf(r) = Picked(r.chosen)
    /\ Picked(r.chosen) \subseteq Todo(d)
    /\ \A t \in Tenants : \/ Of(Picked(r.chosen), t) = {}
                          \/ act[t] + Cardinality(Of(Picked(r.chosen), t)) <= PerTenant
    /\ Closes(d, r)

LEMMA InspectedIs ==
    ASSUME RunsInv, NEW d \in Dispatchers, disp[d].pc = "inspect", NEW active \in BOOLEAN,
           Inspected(d, active)
    PROVE  \E r, act :
              /\ Becomes(d, r)
              /\ Asked(d) \in disp[d].rest /\ Asked(d) \in Jobs
              /\ act \in [Tenants -> Nat]
              /\ \A t \in Tenants : act[t] = IF active /\ t = TenantOf[Asked(d)]
                                             THEN disp[d].active[t] + 1 ELSE disp[d].active[t]
              /\ GoesOn(d, r, Asked(d), act) \/ Decides(d, r, Asked(d), act)
<1> DEFINE c == disp[d]
           j == Asked(d)
           t == TenantOf[j]
           v == IF active THEN c.active[t] + 1 ELSE c.active[t]
           z == IF active THEN c.seen \cup {j} ELSE c.seen
           r0 == [c EXCEPT !.rest = @ \ {j}, !.active[t] = v, !.seen = z]
           act == [c.active EXCEPT ![t] = v]
<1>1. c \in Dispatch /\ Fits(c) /\ c.pc = "inspect"
  BY DEF RunsInv
<1>2. /\ c.rest \in SUBSET Jobs /\ c.rest # {} /\ c.order \in [Jobs -> Nat]
      /\ c.active \in [Tenants -> Nat] /\ c.seen \in SUBSET Jobs
      /\ c.chosen = <<>>
      /\ \A k \in c.rest : c.order[k] > 0
  BY <1>1 DEF Fits, Dispatch
<1>3. j \in c.rest /\ j \in Jobs
  <2>1. Oldest(c.rest, c.order) \in c.rest
    <3> HIDE DEF c
    <3> QED
      BY <1>2, OldestIs
  <2> QED
    BY <1>2, <2>1 DEF Asked
<1>4. t \in Tenants
  BY <1>3, JobsAssumption
<1>5. /\ v \in Nat /\ z \in SUBSET Jobs
      /\ act \in [Tenants -> Nat]
      /\ \A u \in Tenants : act[u] = IF active /\ u = t THEN c.active[u] + 1 ELSE c.active[u]
  BY <1>2, <1>3, <1>4
<1>6. IF r0.rest # {} THEN disp' = [disp EXCEPT ![d] = r0] /\ UNCHANGED old
      ELSE Proceed(d, Choose(Found(d) \ r0.seen, r0.order, r0.active, Limit, PerTenant))
  BY DEF Inspected
<1>7. c = disp[d] /\ j = Asked(d) /\ t = TenantOf[j]
  OBVIOUS
<1>8. Found(d) = {k \in Jobs : c.order[k] > 0}
  BY DEF Found
<1> DEFINE x == c.rest \ {j}
<1>9. act = [c.active EXCEPT ![t] = v] /\ x = c.rest \ {j} /\ x \in SUBSET Jobs
  BY <1>2
<1> HIDE DEF c, j, t, v, z, act
<1>10. /\ r0 \in Dispatch
       /\ r0.pc = "inspect" /\ r0.rest = x /\ r0.order = c.order /\ r0.seen = z
       /\ r0.chosen = c.chosen
       /\ r0.active = [c.active EXCEPT ![t] = v]
  <2> HIDE DEF x
  <2>1. r0 = [c EXCEPT !.rest = x, !.active[t] = v, !.seen = z]
    BY <1>9
  <2> QED
    BY <1>1, <1>4, <1>5, <1>9, <2>1 DEF Dispatch
<1> HIDE DEF r0, x
<1>11. CASE r0.rest # {}
  <2>1. Fits(r0)
    BY <1>2, <1>9, <1>10, <1>11 DEF Fits
  <2>2. TodoOf(r0) = Todo(d)
    BY <1>7, <1>10 DEF TodoOf, Todo
  <2>3. GoesOn(d, r0, j, act) /\ Becomes(d, r0)
    BY <1>2, <1>6, <1>7, <1>9, <1>10, <1>11, <2>1, <2>2 DEF GoesOn, Becomes
  <2> QED
    BY <1>3, <1>5, <1>7, <2>3
<1>12. CASE r0.rest = {}
  <2> DEFINE rows == Found(d) \ z
             s == Choose(rows, c.order, act, Limit, PerTenant)
  <2>1. rows \in SUBSET Jobs /\ Limit \in Nat /\ PerTenant \in Nat
    BY <1>8, SettingsAssumption
  <2>2. KeepsLimits(s, rows, c.order, act, Limit, PerTenant)
    <3> HIDE DEF rows
    <3> QED
      BY <1>2, <1>5, <2>1, ChoiceKeepsLimits
  <2>3. Proceed(d, s)
    BY <1>6, <1>9, <1>10, <1>12
  <2>4. rows \subseteq Todo(d)
    BY <1>7, <1>8 DEF Todo, TodoOf
  <2>5. c.rest = {j}
    BY <1>3, <1>9, <1>10, <1>12
  <2> HIDE DEF s, rows
  <2>6. /\ s \in Seq(Jobs) /\ Picked(s) \subseteq rows
        /\ \A u \in Tenants :
              Of(Picked(s), u) = {} \/ act[u] + Cardinality(Of(Picked(s), u)) <= PerTenant
    BY <2>2 DEF KeepsLimits
  <2>7. PICK r : /\ Becomes(d, r)
                 /\ r.pc \in {"idle", "put"} /\ r.chosen = s
                 /\ TodoOf(r) = Picked(s)
                 /\ Closes(d, r)
    BY <2>3, <2>6, ProceedIs
  <2>8. Picked(r.chosen) \subseteq Todo(d)
    BY <2>4, <2>6, <2>7
  <2>9. Decides(d, r, j, act)
    BY <1>7, <2>5, <2>6, <2>7, <2>8 DEF Decides
  <2> QED
    BY <1>3, <1>5, <1>7, <2>7, <2>9
<1> QED
  BY <1>11, <1>12

-----------------------------------------------------------------------------
(* The types, and that what anybody holds is a row *)

KnownRows ==
    \A j \in Jobs :
        j \in cron \/ arq[j] # "none" \/ (\E d \in Dispatchers : j \in Todo(d)) => row[j] # "absent"

OddInv == odd \subseteq Odd /\ Cardinality(odd) <= MaxOdd

TypeInv ==
    /\ RowsInv /\ RunsInv /\ OldInv /\ OddInv
    /\ arq \in [Jobs -> ArqStates]
    /\ cron \in SUBSET Jobs /\ Cardinality(cron) <= 1
    /\ KnownRows

RunStep(d) ==
    \/ ReadPending(d) \/ CountActive(d) \/ Inspect(d) \/ Put(d)
    \/ InspectError(d) \/ DispatchDies(d)

JobStep(j) ==
    \/ Start(j) \/ Complete(j) \/ Fail(j) \/ Defer(j) \/ Return(j) \/ Due(j) \/ ForgetResult(j)
    \/ Abandon(j) \/ Lose(j) \/ Ingest(j) \/ Cancel(j) \/ Retry(j) \/ CheckStale(j) \/ Reset(j)

LEMMA NextCases ==
    ASSUME Next
    PROVE  (\E d \in Dispatchers : RunStep(d)) \/ (\E j \in Jobs : JobStep(j))
BY Zenon DEF Next, DispatchStep, TaskStep, TimePasses, CronStep, RunStep, JobStep

LEMMA OddIsFinite == IsFiniteSet(Odd) /\ \A S \in SUBSET Odd : IsFiniteSet(S)
<1>1. Odd = {"overlap"} \cup {"cancel"} \cup {"failure"} \cup {"defer"} \cup {"stale"} \cup {"fault"}
  BY DEF Odd
<1>2. IsFiniteSet(Odd)
  BY <1>1, FS_Singleton, FS_Union
<1> QED
  BY <1>2, FS_Subset

LEMMA HappensIs ==
    ASSUME OddInv, NEW k \in Odd, Happens(k)
    PROVE  OddInv' /\ odd \subseteq odd' /\ k \in odd'
<1>1. odd' = odd \cup {k} /\ k \notin odd /\ Cardinality(odd) < MaxOdd
  BY DEF Happens
<1>2. IsFiniteSet(odd) /\ Cardinality(odd) \in Nat
  BY OddIsFinite, FS_CardinalityType DEF OddInv
<1>3. Cardinality(odd \cup {k}) = Cardinality(odd) + 1
  BY <1>1, <1>2, FS_AddElement
<1> QED
  BY <1>1, <1>2, <1>3, SettingsAssumption DEF OddInv

LEMMA OddGrows ==
    ASSUME OddInv, Next
    PROVE  OddInv' /\ odd \subseteq odd'
<1>1. \/ UNCHANGED odd
      \/ \E k \in {"overlap", "cancel", "failure", "defer", "stale", "fault"} : Happens(k)
  <2>1. ASSUME NEW d \in Dispatchers, RunStep(d)
        PROVE  \/ UNCHANGED odd
               \/ \E k \in {"overlap", "fault"} : Happens(k)
    BY <2>1 DEF RunStep, ReadPending, CountActive, Inspect, Put, InspectError, DispatchDies
  <2>2. ASSUME NEW j \in Jobs, JobStep(j)
        PROVE  \/ UNCHANGED odd
               \/ \E k \in {"cancel", "failure", "defer", "stale", "fault"} : Happens(k)
    BY <2>2 DEF JobStep, Start, Complete, Fail, Defer, End, Return, Due, ForgetResult, Abandon, Lose,
                Ingest, Cancel, Retry, CheckStale, Reset
  <2> QED
    BY <2>1, <2>2, NextCases
<1> QED
  BY <1>1, HappensIs DEF OddInv, Odd

LEMMA OverKeeps ==
    ASSUME OldInv, NEW d \in Dispatchers, UNCHANGED old \/ Over(d)
    PROVE  /\ OldInv'
           /\ \A j \in Jobs, e \in Dispatchers : e # d => (e \in old'[j] <=> e \in old[j])
<1>1. CASE UNCHANGED old
  BY <1>1 DEF OldInv
<1>2. CASE Over(d)
  BY <1>2 DEF OldInv, Over
<1> QED
  BY <1>1, <1>2

\* What a dispatcher's step does, whatever the step.
LEMMA RunStepIs ==
    ASSUME TypeInv, NEW d \in Dispatchers, RunStep(d)
    PROVE  /\ UNCHANGED <<row, made, cron>>
           /\ \E r : /\ Becomes(d, r) /\ Closes(d, r)
                    /\ \A j \in TodoOf(r) : j \in Pending \/ j \in Todo(d)
           /\ \/ UNCHANGED arq
              \/ \E j \in Jobs : /\ j \in Todo(d)
                                 /\ arq' = [arq EXCEPT ![j] = IF @ = "none" THEN "queued" ELSE @]
<1> USE DEF TypeInv
<1>1. CASE ReadPending(d)
  <2>1. UNCHANGED <<row, made, cron, arq, old>>
    BY <1>1 DEF ReadPending
  <2> QED
    BY <1>1, <2>1, ReadIs DEF Closes
<1>2. CASE CountActive(d)
  <2>1. UNCHANGED <<row, made, cron, arq, old>>
    BY <1>2 DEF CountActive
  <2> QED
    BY <1>2, <2>1, CountIs DEF Closes
<1>3. CASE Inspect(d) \/ InspectError(d)
  <2>1. /\ disp[d].pc = "inspect"
        /\ UNCHANGED <<row, made, arq, cron>>
        /\ \E active \in BOOLEAN : Inspected(d, active)
    <3>1. ArqActive(Asked(d)) \in BOOLEAN
      BY DEF ArqActive
    <3> QED
      BY <1>3, <3>1 DEF Inspect, InspectError
  <2>2. PICK r, act : Becomes(d, r) /\ (GoesOn(d, r, Asked(d), act) \/ Decides(d, r, Asked(d), act))
    BY <2>1, InspectedIs
  <2>3. Closes(d, r)
    BY <2>2 DEF GoesOn, Decides, Closes
  <2>4. TodoOf(r) \subseteq Todo(d)
    BY <2>2 DEF GoesOn, Decides
  <2> QED
    BY <2>1, <2>2, <2>3, <2>4
<1>4. CASE Put(d)
  <2>1. UNCHANGED <<row, made, cron>>
    BY <1>4 DEF Put
  <2>2. Picked(disp[d].chosen) \subseteq Todo(d)
    BY DEF Todo, TodoOf
  <2> QED
    BY <1>4, <2>1, <2>2, PutIs
<1>5. CASE DispatchDies(d)
  <2>1. /\ UNCHANGED <<row, made, arq, cron>>
        /\ Over(d)
        /\ disp' = [disp EXCEPT ![d] = Idle]
    BY <1>5 DEF DispatchDies
  <2> QED
    BY <2>1, IdleFits DEF Becomes, Closes
<1> QED
  BY <1>1, <1>2, <1>3, <1>4, <1>5 DEF RunStep

LEMMA RunStepTypes ==
    ASSUME TypeInv, NEW d \in Dispatchers, RunStep(d), OddInv'
    PROVE  TypeInv'
<1>1. /\ UNCHANGED <<row, made, cron>>
      /\ \/ UNCHANGED arq
         \/ \E j \in Jobs : /\ j \in Todo(d)
                            /\ arq' = [arq EXCEPT ![j] = IF @ = "none" THEN "queued" ELSE @]
  BY RunStepIs
<1>2. PICK r : /\ Becomes(d, r) /\ Closes(d, r)
               /\ \A j \in TodoOf(r) : j \in Pending \/ j \in Todo(d)
  BY RunStepIs
<1>3. RowsInv' /\ OldInv'
  BY <1>1, <1>2, RowsStay, OverKeeps DEF TypeInv, Closes
<1>4. RunsInv' /\ \A e \in Dispatchers : disp'[e] = IF e = d THEN r ELSE disp[e]
  BY <1>2, RunMoves DEF TypeInv, Becomes
<1>5. arq' \in [Jobs -> ArqStates]
  BY <1>1 DEF TypeInv, ArqStates
<1>6. \A j \in Jobs : arq'[j] # "none" => arq[j] # "none" \/ j \in Todo(d)
  BY <1>1 DEF TypeInv
<1>7. \A e \in Dispatchers : \A j \in Todo(e)' : j \in Pending \/ \E f \in Dispatchers : j \in Todo(f)
  <2> SUFFICES ASSUME NEW e \in Dispatchers, NEW j \in TodoOf(disp'[e])
               PROVE  j \in Pending \/ \E f \in Dispatchers : j \in Todo(f)
    BY DEF Todo, TodoOf
  <2>1. CASE e = d
    BY <1>2, <1>4, <2>1
  <2>2. CASE e # d
    BY <1>4, <2>2 DEF Todo
  <2> QED
    BY <2>1, <2>2
<1>8. \A j \in Pending : row[j] # "absent"
  BY DEF Pending, Dispatchable
<1>9. KnownRows'
  BY <1>1, <1>6, <1>7, <1>8 DEF KnownRows, TypeInv
<1> QED
  BY <1>1, <1>3, <1>4, <1>5, <1>9 DEF TypeInv

-----------------------------------------------------------------------------
(* The tasks, the requests and the cron *)

\* The row of a task, or of a request, changes its status.
Moves(j) ==
    /\ row[j] # "absent"
    /\ \E s \in Statuses \ {"absent"} : row' = [row EXCEPT ![j] = s]
    /\ UNCHANGED made

LEMMA EndIs ==
    ASSUME TypeInv, NEW j \in Jobs, NEW s \in Statuses \ {"absent"}, End(j, s)
    PROVE  /\ Moves(j)
           /\ arq' = [arq EXCEPT ![j] = "ending"]
           /\ UNCHANGED <<old, disp, cron>>
<1>1. /\ arq[j] = "running" /\ row' = [row EXCEPT ![j] = s]
      /\ arq' = [arq EXCEPT ![j] = "ending"]
      /\ UNCHANGED <<made, old, disp, cron>>
  BY DEF End
<1>2. row[j] # "absent"
  BY <1>1 DEF TypeInv, KnownRows
<1> QED
  BY <1>1, <1>2 DEF Moves

LEMMA JobStepRows ==
    ASSUME TypeInv, NEW j \in Jobs, JobStep(j)
    PROVE  \/ Moves(j)
           \/ UNCHANGED row /\ UNCHANGED made
           \/ Ingest(j)
           \/ row[j] # "absent" /\ Reset(j)
<1>1. CASE Complete(j) \/ Fail(j) \/ Defer(j)
  <2>1. PICK s \in {"completed", "failed", "waiting"} : End(j, s)
    BY <1>1 DEF Complete, Fail, Defer
  <2>2. s \in Statuses \ {"absent"}
    BY DEF Statuses
  <2> QED
    BY <2>1, <2>2, EndIs
<1>2. CASE Start(j) \/ Abandon(j)
  <2>1. /\ arq[j] # "none"
        /\ \E s \in {"processing", "cancelled"} : row' = [row EXCEPT ![j] = s]
        /\ UNCHANGED made
    BY <1>2 DEF Start, Abandon
  <2>2. row[j] # "absent"
    BY <2>1 DEF TypeInv, KnownRows
  <2> QED
    BY <2>1, <2>2 DEF Moves, Statuses
<1>3. CASE Due(j) \/ Cancel(j) \/ Retry(j)
  <2>1. /\ row[j] # "absent"
        /\ \E s \in {"due", "cancelled", "queued"} : row' = [row EXCEPT ![j] = s]
        /\ UNCHANGED made
    BY <1>3 DEF Due, Cancel, Retry
  <2> QED
    BY <2>1 DEF Moves, Statuses
<1>4. CASE Return(j) \/ ForgetResult(j) \/ Lose(j) \/ CheckStale(j)
  BY <1>4 DEF Return, ForgetResult, Lose, CheckStale
<1>5. CASE Reset(j)
  BY <1>5 DEF Reset, TypeInv, KnownRows
<1> QED
  BY <1>1, <1>2, <1>3, <1>4, <1>5 DEF JobStep

LEMMA JobStepOthers ==
    ASSUME TypeInv, NEW j \in Jobs, JobStep(j)
    PROVE  /\ UNCHANGED disp
           /\ OldInv'
           /\ arq' \in [Jobs -> ArqStates]
           /\ \A k \in Jobs : arq'[k] # "none" => arq[k] # "none"
           /\ cron' = cron \/ cron' = {} \/ (cron' = {j} /\ row[j] # "absent")
<1> USE DEF TypeInv, OldInv, ArqStates
<1>1. CASE Complete(j) \/ Fail(j) \/ Defer(j)
  <2>1. PICK s \in {"completed", "failed", "waiting"} : End(j, s)
    BY <1>1 DEF Complete, Fail, Defer
  <2>2. s \in Statuses \ {"absent"}
    BY DEF Statuses
  <2>3. arq' = [arq EXCEPT ![j] = "ending"] /\ UNCHANGED <<old, disp, cron>>
    BY <2>1, <2>2, EndIs
  <2>4. arq[j] = "running"
    BY <2>1 DEF End
  <2> QED
    BY <2>3, <2>4
<1>2. CASE Start(j)
  BY <1>2 DEF Start
<1>3. CASE Abandon(j)
  <2>1. /\ arq[j] = "running" /\ UNCHANGED <<disp, cron, old>>
        /\ \E next \in {"queued", "ending"} : arq' = [arq EXCEPT ![j] = next]
    BY <1>3 DEF Abandon
  <2> QED
    BY <2>1
<1>4. CASE Lose(j)
  <2>1. /\ arq[j] # "none" /\ UNCHANGED <<disp, cron, old>>
        /\ \E next \in {"queued", "none"} : arq' = [arq EXCEPT ![j] = next]
    BY <1>4 DEF Lose, ArqActive
  <2> QED
    BY <2>1
<1>5. CASE Due(j) \/ Cancel(j) \/ Retry(j) \/ Ingest(j)
  BY <1>5 DEF Due, Cancel, Retry, Ingest
<1>6. CASE ForgetResult(j)
  BY <1>6 DEF ForgetResult
<1>7. CASE CheckStale(j) \/ Reset(j)
  BY <1>7 DEF CheckStale, Reset
<1>8. CASE Return(j)
  BY <1>8 DEF Return
<1> QED
  BY <1>1, <1>2, <1>3, <1>4, <1>5, <1>6, <1>7, <1>8 DEF JobStep

LEMMA JobStepTypes ==
    ASSUME TypeInv, NEW j \in Jobs, JobStep(j), OddInv'
    PROVE  TypeInv'
<1>1. /\ UNCHANGED disp
      /\ OldInv'
      /\ arq' \in [Jobs -> ArqStates]
      /\ \A k \in Jobs : arq'[k] # "none" => arq[k] # "none"
      /\ cron' = cron \/ cron' = {} \/ (cron' = {j} /\ row[j] # "absent")
  BY JobStepOthers
<1>2. RowsInv' /\ \A k \in Jobs : row[k] # "absent" => row'[k] # "absent"
  <2>1. RowsInv
    BY DEF TypeInv
  <2>2. CASE Moves(j)
    BY <2>1, <2>2, RowMoves DEF Moves
  <2>3. CASE UNCHANGED row /\ UNCHANGED made
    BY <2>1, <2>3, RowsStay
  <2>4. CASE Ingest(j) \/ (row[j] # "absent" /\ Reset(j))
    BY <2>1, <2>4, IngestRows, ResetRows
  <2> QED
    BY <2>2, <2>3, <2>4, JobStepRows
<1>3. RunsInv'
  BY <1>1 DEF TypeInv, RunsInv
<1>4. cron' \in SUBSET Jobs /\ Cardinality(cron') <= 1
  <2>1. Cardinality({}) = 0 /\ Cardinality({j}) = 1
    BY FS_EmptySet, FS_Singleton
  <2> QED
    BY <1>1, <2>1 DEF TypeInv
<1>5. \A d \in Dispatchers : Todo(d)' = Todo(d)
  BY <1>1 DEF Todo, TodoOf
<1>6. KnownRows'
  BY <1>1, <1>2, <1>5 DEF TypeInv, KnownRows
<1> QED
  BY <1>1, <1>2, <1>3, <1>4, <1>6 DEF TypeInv

LEMMA TypeInit == Init => TypeInv
<1> SUFFICES ASSUME Init
             PROVE  TypeInv
  OBVIOUS
<1>1. /\ row = [j \in Jobs |-> "absent"] /\ made = [j \in Jobs |-> 0]
      /\ arq = [j \in Jobs |-> "none"] /\ old = [j \in Jobs |-> {}]
      /\ disp = [d \in Dispatchers |-> Idle]
      /\ cron = {} /\ odd = {}
  BY DEF Init
<1>2. Cardinality({}) = 0
  BY FS_EmptySet
<1>3. RowsInv
  BY <1>1, TotalIs DEF RowsInv, Statuses
<1>4. RunsInv /\ \A d \in Dispatchers : Todo(d) = {}
  BY <1>1, IdleFits DEF RunsInv, Todo
<1> QED
  BY <1>1, <1>2, <1>3, <1>4, SettingsAssumption DEF TypeInv, OldInv, OddInv, ArqStates, KnownRows

LEMMA TypeStep == TypeInv /\ [Next]_vars => TypeInv'
<1> SUFFICES ASSUME TypeInv, [Next]_vars
             PROVE  TypeInv'
  OBVIOUS
<1>1. CASE Next
  <2>1. OddInv'
    BY <1>1, OddGrows DEF TypeInv
  <2> QED
    BY <1>1, <2>1, NextCases, RunStepTypes, JobStepTypes
<1>2. CASE UNCHANGED vars
  <2>1. /\ UNCHANGED row /\ UNCHANGED made /\ UNCHANGED arq /\ UNCHANGED old
        /\ UNCHANGED disp /\ UNCHANGED cron /\ UNCHANGED odd
    BY <1>2 DEF vars
  <2>2. RowsInv' /\ RunsInv' /\ OldInv' /\ OddInv'
    BY <2>1 DEF TypeInv, RowsInv, Total, RunsInv, OldInv, OddInv
  <2>3. KnownRows'
    BY <2>1 DEF TypeInv, KnownRows, Todo, TodoOf
  <2> QED
    BY <2>1, <2>2, <2>3 DEF TypeInv
<1> QED
  BY <1>1, <1>2

LEMMA TypeInvariant == Spec => []TypeInv
BY TypeInit, TypeStep, PTL DEF Spec

\* Rows, queue and runs keep their types, and created_at numbers the rows without
\* ties, however ingestion, retries and the cron's resets follow one another.
THEOREM MediaTypes == Spec => []TypeOK
<1>1. TypeInv => TypeOK
  BY DEF TypeInv, RowsInv, RunsInv, OldInv, OddInv, TypeOK
<1> QED
  BY <1>1, TypeInvariant, PTL

-----------------------------------------------------------------------------
(* Rows, queue and runs while nothing is cancelled, lost or reset *)

Processing(t) == {j \in Of(Jobs, t) : row[j] = "processing"}

\* A job in the queue is waiting, and a task's row is processing.
FlightFits ==
    \A j \in Jobs : /\ arq[j] = "queued" => Dispatchable(j)
                    /\ arq[j] = "running" <=> row[j] = "processing"

\* What a run has read is still waiting, or was started and perhaps has ended; then
\* its result outlasts the run.
TodoFits ==
    \A d \in Dispatchers : \A j \in Todo(d) :
        \/ Dispatchable(j) \/ arq[j] \in {"running", "ending"}
        \/ arq[j] = "result" /\ d \in old[j]

Alone == "overlap" \notin odd => \A d \in Dispatchers : d # 1 => disp[d].pc = "idle"

Facts == cron = {} /\ FlightFits /\ TodoFits /\ Alone

\* The steps that are left, and what the tasks and the requests do.
CalmRun(d) == ReadPending(d) \/ CountActive(d) \/ Inspect(d) \/ Put(d)
CalmJob(j) ==
    \/ Start(j) \/ Complete(j) \/ Fail(j) \/ Defer(j) \/ Return(j) \/ Due(j) \/ ForgetResult(j)
    \/ Ingest(j) \/ Retry(j)

\* Waiting for a worker, or working on its row.
AtWork(j) == arq[j] \in {"queued", "running"}

LEMMA CalmStep ==
    ASSUME TypeInv, Next, Undisturbed'
    PROVE  /\ Undisturbed
           /\ odd \subseteq odd'
           /\ Facts => \/ \E d \in Dispatchers : CalmRun(d)
                       \/ \E j \in Jobs : CalmJob(j)
<1>1. odd \subseteq odd' /\ Undisturbed
  BY OddGrows DEF TypeInv, Undisturbed
<1>2. ASSUME NEW k \in {"cancel", "stale", "fault"}
      PROVE  ~Happens(k)
  BY DEF Undisturbed, Happens
<1>3. ~Happens("cancel") /\ ~Happens("stale") /\ ~Happens("fault")
  BY <1>2
<1>4. ASSUME Facts, NEW d \in Dispatchers, RunStep(d)
      PROVE  CalmRun(d)
  BY <1>3, <1>4 DEF RunStep, CalmRun, InspectError, DispatchDies
<1>5. ASSUME Facts, NEW j \in Jobs, JobStep(j)
      PROVE  CalmJob(j)
  <2>1. ~Abandon(j) /\ ~Lose(j) /\ ~Cancel(j)
    BY <1>3 DEF Abandon, Lose, Cancel
  <2>2. ~CheckStale(j) /\ ~Reset(j)
    BY <1>3, <1>5 DEF CheckStale, Reset, Facts, FlightFits
  <2> QED
    BY <1>5, <2>1, <2>2 DEF JobStep, CalmJob
<1> QED
  BY <1>1, <1>4, <1>5, NextCases

LEMMA ShowsAll ==
    ASSUME QueryShowsAll, NEW j \in Jobs, Dispatchable(j)
    PROVE  j \in Pending
<1> DEFINE ready == {k \in Jobs : Dispatchable(k)}
           S == {k \in Of(ready, TenantOf[j]) : made[k] <= made[j]}
<1>1. S \subseteq Of(Jobs, TenantOf[j]) /\ Of(Jobs, TenantOf[j]) \subseteq Jobs
  BY DEF Of
<1> HIDE DEF S
<1>2. IsFiniteSet(Of(Jobs, TenantOf[j]))
  BY <1>1, FS_Subset, JobsAssumption
<1>3. IsFiniteSet(S) /\ Cardinality(S) <= Cardinality(Of(Jobs, TenantOf[j]))
  BY <1>1, <1>2, FS_Subset
<1>4. TenantOf[j] \in Tenants
  BY JobsAssumption
<1>5. Cardinality(Of(Jobs, TenantOf[j])) <= Candidates
  BY <1>4 DEF QueryShowsAll
<1>6. Cardinality(S) \in Nat /\ Cardinality(Of(Jobs, TenantOf[j])) \in Nat /\ Candidates \in Nat
  BY <1>2, <1>3, FS_CardinalityType, SettingsAssumption
<1>7. Cardinality(S) <= Candidates
  BY <1>3, <1>5, <1>6
<1> QED
  BY <1>7 DEF Pending, S

LEMMA FactsRun ==
    ASSUME TypeInv, Facts, NEW d \in Dispatchers, CalmRun(d), odd \subseteq odd'
    PROVE  Facts'
<1>1. RunStep(d)
  BY DEF CalmRun, RunStep
<1>2. /\ UNCHANGED <<row, made, cron>>
      /\ \/ UNCHANGED arq
         \/ \E j \in Jobs : /\ j \in Todo(d)
                            /\ arq' = [arq EXCEPT ![j] = IF @ = "none" THEN "queued" ELSE @]
  BY <1>1, RunStepIs
<1>3. PICK r : /\ Becomes(d, r) /\ Closes(d, r)
               /\ \A j \in TodoOf(r) : j \in Pending \/ j \in Todo(d)
  BY <1>1, RunStepIs
<1>4. \A e \in Dispatchers : disp'[e] = IF e = d THEN r ELSE disp[e]
  BY <1>3, RunMoves DEF TypeInv, Becomes
<1>5. /\ arq \in [Jobs -> ArqStates] /\ row \in [Jobs -> Statuses]
      /\ \A j \in Jobs : Dispatchable(j)' = Dispatchable(j)
  BY <1>2 DEF TypeInv, RowsInv, Dispatchable
<1>6. \A j \in Jobs : \/ arq'[j] = arq[j]
                      \/ arq[j] = "none" /\ arq'[j] = "queued" /\ j \in Todo(d)
  BY <1>2, <1>5
<1>7. FlightFits'
  <2> SUFFICES ASSUME NEW j \in Jobs
               PROVE  /\ arq'[j] = "queued" => Dispatchable(j)'
                      /\ arq'[j] = "running" <=> row'[j] = "processing"
    BY DEF FlightFits
  <2>1. CASE arq'[j] = arq[j]
    BY <1>2, <1>5, <2>1 DEF Facts, FlightFits
  <2>2. CASE arq[j] = "none" /\ arq'[j] = "queued" /\ j \in Todo(d)
    BY <1>2, <1>5, <2>2 DEF Facts, FlightFits, TodoFits
  <2> QED
    BY <1>6, <2>1, <2>2
<1>8. TodoFits'
  <2> SUFFICES ASSUME NEW e \in Dispatchers, NEW j \in TodoOf(disp'[e])
               PROVE  \/ Dispatchable(j)' \/ arq'[j] \in {"running", "ending"}
                      \/ arq'[j] = "result" /\ e \in old'[j]
    BY DEF TodoFits, Todo, TodoOf
  <2>1. j \in Jobs
    <3>1. disp'[e] \in Dispatch
      BY <1>3, <1>4 DEF TypeInv, RunsInv, Becomes
    <3> HIDE DEF Dispatch
    <3>2. disp'[e].chosen \in Seq(Jobs)
      BY <3>1 DEF Dispatch
    <3> QED
      BY <3>2, PickedType DEF TodoOf
  <2>2. CASE e # d
    <3>1. j \in Todo(e)
      BY <1>4, <2>2 DEF Todo
    <3>2. e \in old'[j] <=> e \in old[j]
      BY <1>3, <2>1, <2>2, OverKeeps DEF Closes, TypeInv
    <3> QED
      BY <1>5, <1>6, <2>1, <3>1, <3>2 DEF Facts, TodoFits
  <2>3. CASE e = d /\ j \in Pending
    BY <1>5, <2>1, <2>3 DEF Pending
  <2>4. CASE e = d /\ j \in Todo(d)
    <3>1. UNCHANGED old
      BY <1>3, <1>4, <2>4 DEF Closes
    <3> QED
      BY <1>5, <1>6, <2>1, <2>4, <3>1 DEF Facts, TodoFits
  <2> QED
    BY <1>3, <1>4, <2>2, <2>3, <2>4
<1>9. Alone'
  <2> SUFFICES ASSUME "overlap" \notin odd', NEW e \in Dispatchers, e # 1
               PROVE  disp'[e].pc = "idle"
    BY DEF Alone
  <2>1. "overlap" \notin odd
    OBVIOUS
  <2>2. disp[e].pc = "idle"
    BY <2>1 DEF Facts, Alone
  <2>3. CASE e # d
    BY <1>4, <2>2, <2>3
  <2>4. CASE e = d
    <3>1. ReadPending(d)
      BY <2>2, <2>4 DEF CalmRun, CountActive, Inspect, Put
    <3>2. 1 \in 1 .. d - 1 /\ 1 \in Dispatchers
      BY <2>4, SettingsAssumption DEF Dispatchers
    <3>3. "overlap" \in odd'
      BY <3>1, <3>2 DEF ReadPending, Happens
    <3> QED
      BY <3>3
  <2> QED
    BY <2>3, <2>4
<1> QED
  BY <1>2, <1>7, <1>8, <1>9 DEF Facts

\* What a task or a request changes in the queue, and in the rows of the others.
LEMMA FactsJob ==
    ASSUME TypeInv, Facts, NEW j \in Jobs, CalmJob(j), odd \subseteq odd'
    PROVE  /\ Facts'
           /\ UNCHANGED disp
           /\ \A k \in Jobs : AtWork(k)' => /\ AtWork(k)
                                            /\ row[k] = "processing" => row'[k] = "processing"
<1>1. UNCHANGED disp /\ arq \in [Jobs -> ArqStates] /\ row \in [Jobs -> Statuses] /\ OldInv
  BY JobStepOthers DEF TypeInv, RowsInv, CalmJob, JobStep
<1>2. cron' = {}
  BY DEF CalmJob, Start, Complete, Fail, Defer, End, Return, Due, ForgetResult, Ingest, Retry, Facts
<1>3. Alone'
  BY <1>1 DEF Facts, Alone
<1>4. \A d \in Dispatchers : Todo(d)' = Todo(d) /\ (Todo(d) # {} => disp[d].pc # "idle")
  BY <1>1, IdleFits DEF Todo, TodoOf, TypeInv, RunsInv, Fits
<1>5. \A d \in Dispatchers : Todo(d) \subseteq Jobs
  <2> SUFFICES ASSUME NEW d \in Dispatchers
               PROVE  Todo(d) \subseteq Jobs
    OBVIOUS
  <2>1. disp[d].chosen \in Seq(Jobs)
    BY DEF TypeInv, RunsInv, Dispatch
  <2> QED
    BY <2>1, PickedType DEF Todo, TodoOf
<1> USE DEF Dispatchable, AtWork
<1>6. CASE Start(j)
  <2>1. /\ arq[j] = "queued" /\ UNCHANGED old
        /\ \A k \in Jobs : /\ arq'[k] = IF k = j THEN "running" ELSE arq[k]
                           /\ row'[k] = IF k = j THEN "processing" ELSE row[k]
    BY <1>1, <1>6 DEF Start
  <2>2. FlightFits'
    BY <2>1 DEF Facts, FlightFits
  <2>3. TodoFits'
    BY <1>4, <1>5, <2>1 DEF Facts, TodoFits
  <2> QED
    BY <1>1, <1>2, <1>3, <2>1, <2>2, <2>3 DEF Facts
<1>7. CASE Complete(j) \/ Fail(j) \/ Defer(j)
  <2>1. PICK s \in {"completed", "failed", "waiting"} : End(j, s)
    BY <1>7 DEF Complete, Fail, Defer
  <2>2. /\ arq[j] = "running"
        /\ \A k \in Jobs : /\ arq'[k] = IF k = j THEN "ending" ELSE arq[k]
                           /\ row'[k] = IF k = j THEN s ELSE row[k]
        /\ UNCHANGED old
    BY <1>1, <2>1 DEF End
  <2>3. FlightFits'
    BY <2>2 DEF Facts, FlightFits
  <2>4. TodoFits'
    BY <1>4, <1>5, <2>2 DEF Facts, TodoFits
  <2> QED
    BY <1>1, <1>2, <1>3, <2>2, <2>3, <2>4 DEF Facts
<1>8. CASE Due(j) \/ Ingest(j) \/ Retry(j)
  <2>1. /\ UNCHANGED arq /\ UNCHANGED old
        /\ row[j] # "processing"
        /\ \E s \in {"due", "queued"} : \A k \in Jobs : row'[k] = IF k = j THEN s ELSE row[k]
    BY <1>1, <1>8 DEF Due, Ingest, Retry
  <2>2. FlightFits'
    BY <2>1 DEF Facts, FlightFits
  <2>3. TodoFits'
    BY <1>4, <1>5, <2>1 DEF Facts, TodoFits
  <2> QED
    BY <1>1, <1>2, <1>3, <2>1, <2>2, <2>3 DEF Facts
<1>9. CASE ForgetResult(j)
  <2>1. /\ UNCHANGED row /\ UNCHANGED old
        /\ arq[j] = "result" /\ old[j] = {}
        /\ \A k \in Jobs : arq'[k] = IF k = j THEN "none" ELSE arq[k]
    BY <1>1, <1>9 DEF ForgetResult
  <2>2. FlightFits'
    BY <2>1 DEF Facts, FlightFits
  <2>3. TodoFits'
    BY <1>4, <1>5, <2>1 DEF Facts, TodoFits
  <2> QED
    BY <1>1, <1>2, <1>3, <2>1, <2>2, <2>3 DEF Facts
<1>10. CASE Return(j)
  <2>1. /\ UNCHANGED row /\ arq[j] = "ending"
        /\ \A k \in Jobs : /\ arq'[k] = IF k = j THEN "result" ELSE arq[k]
                           /\ old'[k] = IF k = j THEN {d \in Dispatchers : disp[d].pc # "idle"}
                                        ELSE old[k]
    BY <1>1, <1>10 DEF Return, OldInv
  <2>2. FlightFits'
    BY <2>1 DEF Facts, FlightFits
  <2>3. TodoFits'
    BY <1>4, <1>5, <2>1 DEF Facts, TodoFits
  <2> QED
    BY <1>1, <1>2, <1>3, <2>1, <2>2, <2>3 DEF Facts
<1> QED
  BY <1>6, <1>7, <1>8, <1>9, <1>10 DEF CalmJob

-----------------------------------------------------------------------------
(* The slots: each run answers for some jobs of a tenant *)

\* What a run answers for: no more than the limit, what it is about to enqueue among
\* it, and what of it is in flight will be seen or has been counted.
Answers(r, x, t) ==
    /\ Cardinality(x) <= PerTenant
    /\ Of(Picked(r.chosen), t) \subseteq x
    /\ r.pc = "count" => x \cap InFlight(t) \subseteq r.rest \cup Processing(t)
    /\ r.pc = "inspect" => Cardinality((x \cap InFlight(t)) \ r.rest) <= r.active[t]

\* Between them the runs answer for all that is in flight.
Cover(X, t) ==
    /\ \A d \in Dispatchers : /\ Answers(disp[d], X[d], t)
                              /\ "overlap" \notin odd /\ d # 1 => X[d] = {}
    /\ \A j \in InFlight(t) : \E d \in Dispatchers : j \in X[d]

Covered(t) == \E X \in [Dispatchers -> SUBSET Of(Jobs, t)] : Cover(X, t)

LEMMA OfFinite ==
    ASSUME NEW t, NEW x \in SUBSET Of(Jobs, t)
    PROVE  /\ IsFiniteSet(x) /\ Cardinality(x) \in Nat
           /\ x \subseteq Jobs
           /\ \A y \in SUBSET x : Cardinality(y) \in Nat /\ Cardinality(y) <= Cardinality(x)
<1>1. x \subseteq Jobs
  BY DEF Of
<1>2. IsFiniteSet(x)
  BY <1>1, FS_Subset, JobsAssumption
<1> QED
  BY <1>1, <1>2, FS_Subset, FS_CardinalityType

LEMMA CoverShrinks ==
    ASSUME TypeInv, NEW t \in Tenants, Covered(t), UNCHANGED disp, odd \subseteq odd',
           \A k \in Jobs : AtWork(k)' => /\ AtWork(k)
                                         /\ row[k] = "processing" => row'[k] = "processing"
    PROVE  Covered(t)'
<1>1. PICK X \in [Dispatchers -> SUBSET Of(Jobs, t)] : Cover(X, t)
  BY DEF Covered
<1>2. InFlight(t)' \subseteq InFlight(t) /\ InFlight(t) \subseteq Jobs
  BY DEF InFlight, AtWork, Of
<1>3. InFlight(t)' \cap Processing(t) \subseteq Processing(t)'
  BY DEF InFlight, AtWork, Processing, Of
<1>4. ASSUME NEW d \in Dispatchers
      PROVE  Answers(disp[d], X[d], t)' /\ ("overlap" \notin odd' /\ d # 1 => X[d] = {})
  <2>1. Answers(disp[d], X[d], t) /\ ("overlap" \notin odd /\ d # 1 => X[d] = {})
    BY <1>1 DEF Cover
  <2>2. X[d] \in SUBSET Of(Jobs, t)
    OBVIOUS
  <2>3. disp[d].pc = "inspect" =>
           Cardinality((X[d] \cap InFlight(t)') \ disp[d].rest) <= disp[d].active[t]
    <3> SUFFICES ASSUME disp[d].pc = "inspect"
                 PROVE  Cardinality((X[d] \cap InFlight(t)') \ disp[d].rest) <= disp[d].active[t]
      OBVIOUS
    <3> DEFINE small == (X[d] \cap InFlight(t)') \ disp[d].rest
               big == (X[d] \cap InFlight(t)) \ disp[d].rest
    <3>1. small \in SUBSET big /\ big \in SUBSET Of(Jobs, t)
      BY <1>2, <2>2
    <3>2. Cardinality(big) <= disp[d].active[t]
      BY <2>1 DEF Answers
    <3>3. disp[d].active[t] \in Nat
      BY DEF TypeInv, RunsInv, Dispatch
    <3> HIDE DEF small, big
    <3>4. Cardinality(small) <= Cardinality(big) /\ Cardinality(small) \in Nat /\ Cardinality(big) \in Nat
      BY <3>1, OfFinite
    <3>5. Cardinality(small) <= disp[d].active[t]
      BY <3>2, <3>3, <3>4
    <3> QED
      BY <3>5 DEF small
  <2>4. disp[d].pc = "count" => X[d] \cap InFlight(t)' \subseteq disp[d].rest \cup Processing(t)'
    BY <1>2, <1>3, <2>1 DEF Answers
  <2> QED
    BY <2>1, <2>3, <2>4 DEF Answers
<1>5. \A j \in InFlight(t)' : \E d \in Dispatchers : j \in X[d]
  BY <1>1, <1>2 DEF Cover
<1>6. Cover(X, t)'
  BY <1>4, <1>5 DEF Cover
<1> QED
  BY <1>6 DEF Covered

\* A run moves on, and answers for x now; the queue stays.
LEMMA CoverRun ==
    ASSUME RunsInv, NEW t \in Tenants, NEW X \in [Dispatchers -> SUBSET Of(Jobs, t)], Cover(X, t),
           NEW d \in Dispatchers, NEW r, Becomes(d, r), UNCHANGED row, UNCHANGED arq,
           odd \subseteq odd',
           NEW x \in SUBSET Of(Jobs, t), Answers(r, x, t), X[d] \cap InFlight(t) \subseteq x,
           "overlap" \notin odd' /\ d # 1 => x = {}
    PROVE  Covered(t)'
<1> DEFINE Y == [X EXCEPT ![d] = x]
<1>1. Y \in [Dispatchers -> SUBSET Of(Jobs, t)]
  OBVIOUS
<1>2. \A e \in Dispatchers : Y[e] = IF e = d THEN x ELSE X[e]
  OBVIOUS
<1>3. \A e \in Dispatchers : disp'[e] = IF e = d THEN r ELSE disp[e]
  BY RunMoves DEF Becomes
<1>4. InFlight(t)' = InFlight(t) /\ Processing(t)' = Processing(t)
  BY DEF InFlight, ArqActive, Processing
<1> HIDE DEF Y
<1>5. ASSUME NEW e \in Dispatchers
      PROVE  Answers(disp'[e], Y[e], t) /\ ("overlap" \notin odd' /\ e # 1 => Y[e] = {})
  <2>1. CASE e = d
    BY <1>2, <1>3, <2>1
  <2>2. CASE e # d
    BY <1>2, <1>3, <2>2 DEF Cover
  <2> QED
    BY <2>1, <2>2
<1>6. \A e \in Dispatchers : Answers(disp[e], Y[e], t)'
  BY <1>4, <1>5 DEF Answers
<1>7. \A j \in InFlight(t)' : \E e \in Dispatchers : j \in Y[e]
  BY <1>2, <1>4 DEF Cover
<1>8. Cover(Y, t)'
  BY <1>5, <1>6, <1>7 DEF Cover
<1> QED
  BY <1>1, <1>8 DEF Covered

LEMMA CoverRead ==
    ASSUME TypeInv, Facts, Facts', QueryShowsAll, NEW t \in Tenants, Covered(t), odd \subseteq odd',
           NEW d \in Dispatchers, ReadPending(d)
    PROVE  Covered(t)'
<1>1. PICK X \in [Dispatchers -> SUBSET Of(Jobs, t)] : Cover(X, t)
  BY DEF Covered
<1>2. PICK r : /\ Becomes(d, r)
               /\ r.pc = "count" /\ r.rest = Pending /\ r.chosen = <<>>
  BY ReadIs DEF TypeInv
<1>3. UNCHANGED row /\ UNCHANGED arq
  BY DEF ReadPending
<1>4. InFlight(t) \subseteq Pending \cup Processing(t)
  BY ShowsAll DEF InFlight, ArqActive, Of, Processing, Facts, FlightFits
<1>5. Of(Picked(r.chosen), t) = {}
  BY <1>2, PickedEmpty DEF Of
<1>6. Answers(r, X[d], t)
  BY <1>1, <1>2, <1>4, <1>5 DEF Answers, Cover
<1>7. disp'[d] = r
  BY <1>2 DEF Becomes, TypeInv, RunsInv
<1>8. "overlap" \notin odd' => d = 1
  BY <1>2, <1>7 DEF Facts, Alone
<1> QED
  BY <1>1, <1>2, <1>3, <1>6, <1>8, CoverRun DEF TypeInv

LEMMA CoverCount ==
    ASSUME TypeInv, NEW t \in Tenants, Covered(t), odd \subseteq odd',
           NEW d \in Dispatchers, CountActive(d)
    PROVE  Covered(t)'
<1>1. PICK X \in [Dispatchers -> SUBSET Of(Jobs, t)] : Cover(X, t)
  BY DEF Covered
<1>2. PICK r : /\ Becomes(d, r)
               /\ r.pc = "inspect" /\ r.rest = disp[d].rest /\ r.chosen = <<>>
               /\ r.active[t] = Cardinality({j \in Of(Jobs, t) : row[j] = "processing"})
  BY CountIs DEF TypeInv
<1>3. UNCHANGED row /\ UNCHANGED arq /\ UNCHANGED odd /\ disp[d].pc = "count"
  BY DEF CountActive
<1>4. Answers(disp[d], X[d], t) /\ ("overlap" \notin odd /\ d # 1 => X[d] = {})
  BY <1>1 DEF Cover
<1>5. (X[d] \cap InFlight(t)) \ r.rest \subseteq Processing(t)
  BY <1>2, <1>3, <1>4 DEF Answers
<1>6. Processing(t) \in SUBSET Of(Jobs, t) /\ r.active[t] = Cardinality(Processing(t))
  BY <1>2 DEF Processing
<1>7. Cardinality((X[d] \cap InFlight(t)) \ r.rest) <= r.active[t]
  BY <1>5, <1>6, OfFinite
<1>8. Of(Picked(r.chosen), t) = {}
  BY <1>2, PickedEmpty DEF Of
<1>9. Answers(r, X[d], t)
  BY <1>2, <1>4, <1>7, <1>8 DEF Answers
<1> QED
  BY <1>1, <1>2, <1>3, <1>4, <1>9, CoverRun DEF TypeInv

\* ARQ's answer about a candidate keeps the count.
LEMMA CountKept ==
    ASSUME NEW t \in Tenants, NEW x \in SUBSET Of(Jobs, t), NEW rest, NEW j \in Jobs,
           NEW n \in Nat, NEW m \in Nat,
           Cardinality((x \cap InFlight(t)) \ rest) <= n,
           m = IF ArqActive(j) /\ t = TenantOf[j] THEN n + 1 ELSE n
    PROVE  Cardinality((x \cap InFlight(t)) \ (rest \ {j})) <= m
<1> DEFINE before == (x \cap InFlight(t)) \ rest
           after == (x \cap InFlight(t)) \ (rest \ {j})
<1>1. before \in SUBSET Of(Jobs, t) /\ after \in SUBSET Of(Jobs, t)
  OBVIOUS
<1>2. after \subseteq before \cup {j}
  OBVIOUS
<1>3. j \in after => ArqActive(j) /\ TenantOf[j] = t
  BY DEF InFlight, ArqActive, Of
<1> HIDE DEF before, after
<1>4. /\ IsFiniteSet(before) /\ Cardinality(before) \in Nat /\ Cardinality(before) <= n
      /\ IsFiniteSet(after) /\ Cardinality(after) \in Nat
  BY <1>1, OfFinite DEF before
<1>5. CASE j \in after
  <2>1. m = n + 1
    BY <1>3, <1>5
  <2>2. IsFiniteSet(before \cup {j}) /\ Cardinality(before \cup {j}) <= Cardinality(before) + 1
        /\ Cardinality(before \cup {j}) \in Nat
    <3>1. IsFiniteSet(before \cup {j})
      BY <1>4, FS_AddElement
    <3>2. Cardinality(before \cup {j}) \in {Cardinality(before), Cardinality(before) + 1}
      BY <1>4, FS_AddElement
    <3> QED
      BY <1>4, <3>1, <3>2
  <2>3. Cardinality(after) <= Cardinality(before \cup {j})
    BY <1>2, <2>2, FS_Subset
  <2>4. Cardinality(after) <= m
    BY <1>4, <2>1, <2>2, <2>3
  <2> QED
    BY <2>4 DEF after
<1>6. CASE j \notin after
  <2>1. after \subseteq before
    BY <1>2, <1>6
  <2>2. Cardinality(after) <= Cardinality(before)
    BY <1>4, <2>1, FS_Subset
  <2>3. Cardinality(after) <= m
    BY <1>4, <2>2
  <2> QED
    BY <2>3 DEF after
<1> QED
  BY <1>5, <1>6

LEMMA CoverInspect ==
    ASSUME TypeInv, Facts, NEW t \in Tenants, Covered(t), odd \subseteq odd',
           NEW d \in Dispatchers, Inspect(d)
    PROVE  Covered(t)'
<1> DEFINE j == Asked(d)
<1>1. PICK X \in [Dispatchers -> SUBSET Of(Jobs, t)] : Cover(X, t)
  BY DEF Covered
<1>2. /\ disp[d].pc = "inspect" /\ UNCHANGED row /\ UNCHANGED arq /\ UNCHANGED odd
      /\ ArqActive(j) \in BOOLEAN /\ Inspected(d, ArqActive(j))
  BY DEF Inspect, ArqActive
<1>3. PICK r, act :
         /\ Becomes(d, r)
         /\ j \in disp[d].rest /\ j \in Jobs
         /\ act \in [Tenants -> Nat]
         /\ \A u \in Tenants : act[u] = IF ArqActive(j) /\ u = TenantOf[j]
                                        THEN disp[d].active[u] + 1 ELSE disp[d].active[u]
         /\ GoesOn(d, r, j, act) \/ Decides(d, r, j, act)
  BY <1>2, InspectedIs DEF TypeInv
<1> HIDE DEF j
<1> DEFINE in == X[d] \cap InFlight(t)
<1>4. Answers(disp[d], X[d], t) /\ ("overlap" \notin odd /\ d # 1 => X[d] = {})
  BY <1>1 DEF Cover
<1>5. /\ Cardinality(in \ disp[d].rest) <= disp[d].active[t]
      /\ Cardinality(X[d]) <= PerTenant
      /\ X[d] \in SUBSET Of(Jobs, t)
      /\ disp[d].active[t] \in Nat /\ act[t] \in Nat
  BY <1>2, <1>3, <1>4 DEF Answers, TypeInv, RunsInv, Dispatch
<1>6. Cardinality(in \ (disp[d].rest \ {j})) <= act[t]
  BY <1>3, <1>5, CountKept
<1>7. CASE GoesOn(d, r, j, act)
  <2>1. Of(Picked(r.chosen), t) = {}
    BY <1>7, PickedEmpty DEF GoesOn, Of
  <2>2. Answers(r, X[d], t)
    BY <1>5, <1>6, <1>7, <2>1 DEF GoesOn, Answers
  <2> QED
    BY <1>1, <1>2, <1>3, <1>4, <2>2, CoverRun DEF TypeInv
<1>8. CASE Decides(d, r, j, act)
  <2> DEFINE mine == Of(Picked(r.chosen), t)
             x == IF mine = {} THEN X[d] ELSE in \cup mine
  <2>1. r.pc \in {"idle", "put"} /\ (mine = {} \/ act[t] + Cardinality(mine) <= PerTenant)
    BY <1>8 DEF Decides
  <2>2. mine \in SUBSET Of(Jobs, t)
    <3>1. r.chosen \in Seq(Jobs)
      BY <1>3 DEF Becomes, Dispatch
    <3> QED
      BY <3>1, PickedType DEF Of
  <2>3. in \in SUBSET Of(Jobs, t) /\ in \subseteq X[d]
    OBVIOUS
  <2>4. disp[d].rest \ {j} = {}
    BY <1>8 DEF Decides
  <2>5. Cardinality(in) <= act[t]
    <3>1. in \ (disp[d].rest \ {j}) = in
      BY <2>4
    <3> QED
      BY <1>6, <3>1
  <2>6. x \in SUBSET Of(Jobs, t) /\ mine \subseteq x /\ in \subseteq x
    BY <2>2, <2>3
  <2>7. Cardinality(x) <= PerTenant
    <3>1. CASE mine = {}
      BY <1>5, <3>1
    <3>2. CASE mine # {}
      <4> HIDE DEF in, mine
      <4>1. /\ IsFiniteSet(in) /\ IsFiniteSet(mine)
            /\ Cardinality(in) \in Nat /\ Cardinality(mine) \in Nat
        BY <2>2, <2>3, OfFinite
      <4>2. /\ Cardinality(in \cup mine) = Cardinality(in) + Cardinality(mine) - Cardinality(in \cap mine)
            /\ Cardinality(in \cap mine) \in Nat
        BY <4>1, FS_Union, FS_Intersection, FS_CardinalityType
      <4>3. Cardinality(in \cup mine) <= PerTenant
        BY <1>5, <2>1, <2>5, <3>2, <4>1, <4>2, SettingsAssumption
      <4> QED
        BY <3>2, <4>3
    <3> QED
      BY <3>1, <3>2
  <2> HIDE DEF x
  <2>8. Answers(r, x, t)
    BY <2>1, <2>6, <2>7 DEF Answers
  <2>9. "overlap" \notin odd' => d = 1
    BY <1>2 DEF Facts, Alone
  <2> QED
    BY <1>1, <1>2, <1>3, <2>6, <2>8, <2>9, CoverRun DEF TypeInv
<1> QED
  BY <1>3, <1>7, <1>8

LEMMA CoverPut ==
    ASSUME TypeInv, NEW t \in Tenants, Covered(t), odd \subseteq odd',
           NEW d \in Dispatchers, Put(d)
    PROVE  Covered(t)'
<1>1. PICK X \in [Dispatchers -> SUBSET Of(Jobs, t)] : Cover(X, t)
  BY DEF Covered
<1>0. PICK j \in Picked(disp[d].chosen) : \E r :
            /\ j \in Jobs
            /\ arq' = [arq EXCEPT ![j] = IF @ = "none" THEN "queued" ELSE @]
            /\ Becomes(d, r)
            /\ r.pc \in {"idle", "put"}
            /\ Picked(r.chosen) \subseteq Picked(disp[d].chosen)
  BY PutIs DEF TypeInv
<1>2. PICK r :
         /\ j \in Jobs
         /\ arq' = [arq EXCEPT ![j] = IF @ = "none" THEN "queued" ELSE @]
         /\ Becomes(d, r)
         /\ r.pc \in {"idle", "put"}
         /\ Picked(r.chosen) \subseteq Picked(disp[d].chosen)
  BY <1>0
<1>3. UNCHANGED row /\ UNCHANGED odd /\ disp[d].pc = "put"
  BY DEF Put
<1>4. \A e \in Dispatchers : disp'[e] = IF e = d THEN r ELSE disp[e]
  BY <1>2, RunMoves DEF TypeInv, Becomes
<1>5. Processing(t)' = Processing(t)
  BY <1>3 DEF Processing
<1>6. InFlight(t)' \subseteq InFlight(t) \cup {j} /\ InFlight(t) \subseteq Jobs
  BY <1>2 DEF InFlight, ArqActive, Of, TypeInv
<1>7. j \in Of(Jobs, t) => j \in X[d]
  BY <1>1, <1>2 DEF Cover, Answers, Of
<1>8. PICK Y \in [Dispatchers -> SUBSET Of(Jobs, t)] :
         \A e \in Dispatchers : Y[e] = IF disp[e].pc = "put" THEN X[e] ELSE X[e] \ {j}
  <2> DEFINE Z == [e \in Dispatchers |-> IF disp[e].pc = "put" THEN X[e] ELSE X[e] \ {j}]
  <2>1. /\ Z \in [Dispatchers -> SUBSET Of(Jobs, t)]
        /\ \A e \in Dispatchers : Z[e] = IF disp[e].pc = "put" THEN X[e] ELSE X[e] \ {j}
    OBVIOUS
  <2> HIDE DEF Z
  <2> QED
    BY <2>1
<1>9. ASSUME NEW e \in Dispatchers
      PROVE  Answers(disp[e], Y[e], t)'
  <2>0. Answers(disp[e], X[e], t)
    BY <1>1 DEF Cover
  <2>1. CASE e = d
    <3>1. Of(Picked(r.chosen), t) \subseteq X[d]
      BY <1>2, <2>0, <2>1 DEF Answers, Of
    <3> QED
      BY <1>2, <1>3, <1>4, <1>8, <2>0, <2>1, <3>1 DEF Answers
  <2>2. CASE e # d /\ disp[e].pc = "put"
    BY <1>4, <1>8, <2>0, <2>2 DEF Answers
  <2>3. CASE e # d /\ disp[e].pc # "put"
    <3>1. Y[e] = X[e] \ {j} /\ disp'[e] = disp[e] /\ Y[e] \cap InFlight(t)' \subseteq X[e] \cap InFlight(t)
      BY <1>4, <1>6, <1>8, <2>3
    <3>2. X[e] \in SUBSET Of(Jobs, t) /\ PerTenant \in Nat
      BY SettingsAssumption
    <3>3. Cardinality(Y[e]) <= PerTenant
      <4>1. Y[e] \in SUBSET X[e] /\ Cardinality(X[e]) <= PerTenant
        BY <2>0, <3>1 DEF Answers
      <4>2. Cardinality(Y[e]) <= Cardinality(X[e]) /\ Cardinality(Y[e]) \in Nat /\ Cardinality(X[e]) \in Nat
        BY <3>2, <4>1, OfFinite
      <4> QED
        BY <3>2, <4>1, <4>2
    <3>4. Of(Picked(disp[e].chosen), t) = {}
      <4>1. disp[e].chosen = <<>>
        BY <2>3 DEF TypeInv, RunsInv, Fits, Idle, Dispatch
      <4> QED
        BY <4>1, PickedEmpty DEF Of
    <3>5. disp[e].pc = "count" => Y[e] \cap InFlight(t)' \subseteq disp[e].rest \cup Processing(t)'
      BY <1>5, <2>0, <3>1 DEF Answers
    <3>6. disp[e].pc = "inspect" =>
             Cardinality((Y[e] \cap InFlight(t)') \ disp[e].rest) <= disp[e].active[t]
      <4> SUFFICES ASSUME disp[e].pc = "inspect"
                   PROVE  Cardinality((Y[e] \cap InFlight(t)') \ disp[e].rest) <= disp[e].active[t]
        OBVIOUS
      <4> DEFINE small == (Y[e] \cap InFlight(t)') \ disp[e].rest
                 big == (X[e] \cap InFlight(t)) \ disp[e].rest
      <4>1. small \in SUBSET big /\ big \in SUBSET Of(Jobs, t)
        BY <3>1, <3>2
      <4>2. Cardinality(big) <= disp[e].active[t] /\ disp[e].active[t] \in Nat
        BY <2>0 DEF Answers, TypeInv, RunsInv, Dispatch
      <4> HIDE DEF small, big
      <4>3. Cardinality(small) <= Cardinality(big) /\ Cardinality(small) \in Nat /\ Cardinality(big) \in Nat
        BY <4>1, OfFinite
      <4>4. Cardinality(small) <= disp[e].active[t]
        BY <4>2, <4>3
      <4> QED
        BY <4>4 DEF small
    <3> QED
      BY <3>1, <3>3, <3>4, <3>5, <3>6 DEF Answers
  <2> QED
    BY <2>1, <2>2, <2>3
<1>10. \A e \in Dispatchers : "overlap" \notin odd' /\ e # 1 => Y[e] = {}
  BY <1>1, <1>3, <1>8 DEF Cover
<1>11. \A k \in InFlight(t)' : \E e \in Dispatchers : k \in Y[e]
  <2> SUFFICES ASSUME NEW k \in InFlight(t)'
               PROVE  \E e \in Dispatchers : k \in Y[e]
    OBVIOUS
  <2>1. CASE k = j
    <3>1. j \in Of(Jobs, t)
      BY <2>1 DEF InFlight
    <3> QED
      BY <1>3, <1>7, <1>8, <2>1, <3>1
  <2>2. CASE k # j
    BY <1>1, <1>6, <1>8, <2>2 DEF Cover
  <2> QED
    BY <2>1, <2>2
<1>12. Cover(Y, t)'
  BY <1>9, <1>10, <1>11 DEF Cover
<1> QED
  BY <1>8, <1>12 DEF Covered

-----------------------------------------------------------------------------
(* No more in flight than the slots *)

FlightInv == Undisturbed /\ QueryShowsAll => Facts /\ \A t \in Tenants : Covered(t)

LEMMA FlightInit == Init => FlightInv
<1> SUFFICES ASSUME Init
             PROVE  FlightInv
  OBVIOUS
<1>1. /\ row = [j \in Jobs |-> "absent"] /\ arq = [j \in Jobs |-> "none"]
      /\ disp = [d \in Dispatchers |-> Idle] /\ cron = {}
  BY DEF Init
<1>2. \A d \in Dispatchers : disp[d] = Idle /\ Todo(d) = {}
  BY <1>1, IdleFits DEF Todo
<1>3. Facts
  BY <1>1, <1>2, IdleFits DEF Facts, FlightFits, TodoFits, Alone
<1>4. ASSUME NEW t \in Tenants
      PROVE  Covered(t)
  <2> DEFINE X == [d \in Dispatchers |-> {}]
  <2>1. X \in [Dispatchers -> SUBSET Of(Jobs, t)] /\ \A d \in Dispatchers : X[d] = {}
    OBVIOUS
  <2>2. InFlight(t) = {}
    BY <1>1 DEF InFlight, ArqActive, Of
  <2>3. Cardinality({}) = 0 /\ Of(Picked(Idle.chosen), t) = {}
    BY FS_EmptySet, PickedEmpty DEF Idle, Of
  <2> HIDE DEF X
  <2>4. \A d \in Dispatchers : Answers(disp[d], X[d], t)
    BY <1>2, <2>1, <2>3, IdleFits, SettingsAssumption DEF Answers
  <2>5. Cover(X, t)
    BY <2>1, <2>2, <2>4 DEF Cover
  <2> QED
    BY <2>1, <2>5 DEF Covered
<1> QED
  BY <1>3, <1>4 DEF FlightInv

LEMMA FlightStep == TypeInv /\ FlightInv /\ [Next]_vars => FlightInv'
<1> SUFFICES ASSUME TypeInv, FlightInv, [Next]_vars, Undisturbed', QueryShowsAll
             PROVE  Facts' /\ \A t \in Tenants : Covered(t)'
  BY DEF FlightInv, QueryShowsAll
<1>1. CASE Next
  <2>1. odd \subseteq odd' /\ Facts /\ \A t \in Tenants : Covered(t)
    BY <1>1, CalmStep DEF FlightInv
  <2>2. (\E d \in Dispatchers : CalmRun(d)) \/ (\E j \in Jobs : CalmJob(j))
    BY <1>1, <2>1, CalmStep
  <2>3. ASSUME NEW d \in Dispatchers, CalmRun(d)
        PROVE  Facts' /\ \A t \in Tenants : Covered(t)'
    <3>1. Facts'
      BY <2>1, <2>3, FactsRun
    <3>2. ASSUME NEW t \in Tenants
          PROVE  Covered(t)'
      <4>1. CASE ReadPending(d)
        BY <2>1, <3>1, <4>1, CoverRead
      <4>2. CASE CountActive(d)
        BY <2>1, <4>2, CoverCount
      <4>3. CASE Inspect(d)
        BY <2>1, <4>3, CoverInspect
      <4>4. CASE Put(d)
        BY <2>1, <4>4, CoverPut
      <4> QED
        BY <2>3, <4>1, <4>2, <4>3, <4>4 DEF CalmRun
    <3> QED
      BY <3>1, <3>2
  <2>4. ASSUME NEW j \in Jobs, CalmJob(j)
        PROVE  Facts' /\ \A t \in Tenants : Covered(t)'
    <3>1. /\ Facts'
          /\ UNCHANGED disp
          /\ \A k \in Jobs : AtWork(k)' => /\ AtWork(k)
                                           /\ row[k] = "processing" => row'[k] = "processing"
      BY <2>1, <2>4, FactsJob
    <3> QED
      BY <2>1, <3>1, CoverShrinks
  <2> QED
    BY <2>2, <2>3, <2>4
<1>2. CASE UNCHANGED vars
  <2>1. /\ UNCHANGED row /\ UNCHANGED made /\ UNCHANGED arq /\ UNCHANGED old
        /\ UNCHANGED disp /\ UNCHANGED cron /\ UNCHANGED odd
    BY <1>2 DEF vars
  <2>2. Facts /\ \A t \in Tenants : Covered(t)
    BY <2>1 DEF FlightInv, Undisturbed
  <2>3. Facts'
    BY <2>1, <2>2 DEF Facts, FlightFits, Dispatchable, TodoFits, Todo, TodoOf, Alone
  <2>4. ASSUME NEW t \in Tenants
        PROVE  Covered(t)'
    BY <2>1, <2>2, CoverShrinks DEF AtWork
  <2> QED
    BY <2>3, <2>4
<1> QED
  BY <1>1, <1>2

\* Sets of no more than PerTenant each, one for each run.
LEMMA SlotsAddUp ==
    ASSUME NEW t \in Tenants, NEW X \in [Dispatchers -> SUBSET Of(Jobs, t)],
           \A d \in Dispatchers : Cardinality(X[d]) <= PerTenant
    PROVE  Cardinality(UNION {X[d] : d \in Dispatchers}) <= PerTenant * MaxRuns
<1> DEFINE U(n) == UNION {X[d] : d \in {e \in Dispatchers : e <= n}}
           T == {n \in Nat : Cardinality(U(n)) <= PerTenant * n}
<1>1. PerTenant \in Nat /\ MaxRuns \in Nat /\ Dispatchers = 1 .. MaxRuns
  BY SettingsAssumption DEF Dispatchers
<1>2. \A n \in Nat : U(n) \in SUBSET Of(Jobs, t)
  OBVIOUS
<1>3. 0 \in T
  <2>1. U(0) = {} /\ Cardinality({}) = 0 /\ PerTenant * 0 = 0
    BY <1>1, FS_EmptySet
  <2> HIDE DEF U
  <2> QED
    BY <2>1
<1>4. ASSUME NEW n \in Nat, n \in T
      PROVE  n + 1 \in T
  <2> DEFINE x == IF n + 1 \in Dispatchers THEN X[n + 1] ELSE {}
  <2>1. U(n + 1) = U(n) \cup x
    BY <1>1
  <2>2. x \in SUBSET Of(Jobs, t) /\ Cardinality(x) <= PerTenant
    BY <1>1, FS_EmptySet
  <2> HIDE DEF x, U
  <2>3. /\ IsFiniteSet(x) /\ Cardinality(x) \in Nat
        /\ IsFiniteSet(U(n)) /\ Cardinality(U(n)) \in Nat
    BY <1>2, <2>2, OfFinite
  <2>4. /\ Cardinality(U(n) \cup x) = Cardinality(U(n)) + Cardinality(x) - Cardinality(U(n) \cap x)
        /\ Cardinality(U(n) \cap x) \in Nat
    BY <2>3, FS_Union, FS_Intersection, FS_CardinalityType
  <2>5. PerTenant * (n + 1) = PerTenant * n + PerTenant /\ PerTenant * n \in Nat
    BY <1>1
  <2>6. Cardinality(U(n)) <= PerTenant * n
    BY <1>4
  <2> DEFINE a == PerTenant * n
             b == PerTenant * (n + 1)
  <2>7. Cardinality(U(n)) <= a /\ b = a + PerTenant /\ a \in Nat
    BY <2>5, <2>6
  <2> HIDE DEF a, b
  <2>8. Cardinality(U(n + 1)) <= b
    <3>1. PerTenant \in Nat
      BY <1>1
    <3>2. Cardinality(U(n) \cup x) <= Cardinality(U(n)) + Cardinality(x)
      BY <2>3, <2>4
    <3>3. Cardinality(U(n) \cup x) \in Nat
      BY <2>3, FS_Union, FS_CardinalityType
    <3>4. Cardinality(U(n) \cup x) <= b
      BY <2>2, <2>3, <2>7, <3>1, <3>2, <3>3
    <3> QED
      BY <2>1, <3>4
  <2> QED
    BY <2>8 DEF b
<1>5. MaxRuns \in T
  <2> HIDE DEF T
  <2> QED
    BY <1>1, <1>3, <1>4, SetInduction
<1>6. U(MaxRuns) = UNION {X[d] : d \in Dispatchers}
  BY <1>1
<1> HIDE DEF U
<1> QED
  BY <1>5, <1>6

\* While nothing is cancelled, lost or reset, a tenant's tasks in flight keep to its
\* limit, or to its limit for each of the runs that overlap: of
\* dispatch_tenant_fair_media_jobs, whose readings are stale when it enqueues.
THEOREM TasksInFlightAreBounded == Spec => []InFlightIsBounded
<1>1. TypeInv /\ FlightInv => InFlightIsBounded
  <2> SUFFICES ASSUME TypeInv, FlightInv, Undisturbed, QueryShowsAll, NEW t \in Tenants
               PROVE  Cardinality(InFlight(t)) <=
                         PerTenant * (IF "overlap" \in odd THEN MaxRuns ELSE 1)
    BY DEF InFlightIsBounded
  <2>1. PICK X \in [Dispatchers -> SUBSET Of(Jobs, t)] : Cover(X, t)
    BY DEF FlightInv, Covered
  <2>2. \A d \in Dispatchers : Cardinality(X[d]) <= PerTenant
    BY <2>1 DEF Cover, Answers
  <2>3. PerTenant \in Nat /\ MaxRuns \in Nat /\ 1 \in Dispatchers
    BY SettingsAssumption DEF Dispatchers
  <2>4. CASE "overlap" \in odd
    <3> DEFINE U == UNION {X[d] : d \in Dispatchers}
    <3>1. InFlight(t) \in SUBSET U /\ U \in SUBSET Of(Jobs, t)
      BY <2>1 DEF Cover
    <3>2. Cardinality(U) <= PerTenant * MaxRuns
      BY <2>2, SlotsAddUp
    <3> HIDE DEF U
    <3>3. /\ Cardinality(InFlight(t)) <= Cardinality(U)
          /\ Cardinality(InFlight(t)) \in Nat /\ Cardinality(U) \in Nat
      BY <3>1, OfFinite
    <3>4. PerTenant * MaxRuns \in Nat
      BY <2>3
    <3>5. Cardinality(InFlight(t)) <= PerTenant * MaxRuns
      BY <3>2, <3>3, <3>4
    <3> QED
      BY <2>4, <3>5
  <2>5. CASE "overlap" \notin odd
    <3>1. InFlight(t) \in SUBSET X[1] /\ X[1] \in SUBSET Of(Jobs, t)
      BY <2>1, <2>3, <2>5 DEF Cover
    <3>2. /\ Cardinality(InFlight(t)) <= Cardinality(X[1])
          /\ Cardinality(InFlight(t)) \in Nat /\ Cardinality(X[1]) \in Nat
      BY <3>1, OfFinite
    <3>3. Cardinality(InFlight(t)) <= PerTenant
      BY <2>2, <2>3, <3>2
    <3> QED
      BY <2>3, <2>5, <3>3
  <2> QED
    BY <2>4, <2>5
<1> QED
  BY <1>1, TypeInvariant, FlightInit, FlightStep, PTL DEF Spec

-----------------------------------------------------------------------------
(* The round robin serves the rows in the order of the reference *)

\* Row j is the Rank-th of its tenant, and its tenant has the Place-th turn of each
\* round: the turn that serves j, if any does, has the number Slot.
Elders(j, rows, order) == {k \in Of(rows, TenantOf[j]) : order[k] < order[j]}
Rank(j, rows, order) == Cardinality(Elders(j, rows, order))
HeadOf(j, rows, order) == Oldest(Of(rows, TenantOf[j]), order)
Place(h, rows, order) == Cardinality({k \in Heads(rows, order) : order[k] < order[h]})
Width(rows, order) == Cardinality(Heads(rows, order))
Slot(j, rows, order) ==
    Rank(j, rows, order) * Width(rows, order) + Place(HeadOf(j, rows, order), rows, order)

Distinct(rows, order) == \A j, k \in rows : order[j] = order[k] => j = k

LEMMA Lexical ==
    ASSUME NEW m \in Nat, NEW a \in Nat, NEW b \in Nat, NEW p \in Nat, NEW r \in Nat, p < m, r < m
    PROVE  /\ a * m \in Nat /\ (a + 1) * m = a * m + m
           /\ a < b => a * m + p < b * m + r
           /\ a * m + p = b * m + r => a = b /\ p = r
           /\ a * m + p < (b + 1) * m + p => a <= b
<1>1. ASSUME NEW x \in Nat, NEW y \in Nat, x < y
      PROVE  x * m + m <= y * m
  <2>1. PICK e \in Nat : y = (x + 1) + e
    <3>1. y - (x + 1) \in Nat /\ y = (x + 1) + (y - (x + 1))
      BY <1>1
    <3> QED
      BY <3>1
  <2>2. y * m = (x * m + m) + e * m
    BY <2>1
  <2>3. e * m \in Nat /\ x * m \in Nat
    OBVIOUS
  <2> QED
    BY <2>2, <2>3
<1>2. a * m \in Nat /\ b * m \in Nat /\ (a + 1) * m = a * m + m /\ (b + 1) * m = b * m + m
  OBVIOUS
<1>3. a < b => a * m + m <= b * m
  BY <1>1
<1>4. b < a => b * m + m <= a * m
  BY <1>1
<1>5. b + 1 < a \/ b + 1 = a => (b + 1) * m <= a * m
  <2>1. b + 1 < a => (b + 1) * m + m <= a * m
    BY <1>1
  <2> QED
    BY <1>2, <2>1
<1>6. a < b => a * m + p < b * m + r
  BY <1>2, <1>3
<1>7. a * m + p = b * m + r => a = b /\ p = r
  BY <1>2, <1>3, <1>4
<1>8. a * m + p < (b + 1) * m + p => a <= b
  BY <1>2, <1>5
<1> QED
  BY <1>2, <1>6, <1>7, <1>8

\* Places of the heads, and whose turn is next.
LEMMA PlaceIs ==
    ASSUME NEW rows \in SUBSET Jobs, NEW order \in [Jobs -> Nat], Distinct(rows, order), rows # {}
    PROVE  LET heads == Heads(rows, order)
           IN  /\ Width(rows, order) \in Nat \ {0}
               /\ \A h \in heads : /\ Place(h, rows, order) \in Nat
                                   /\ Place(h, rows, order) < Width(rows, order)
               /\ \A h, g \in heads :
                     order[h] < order[g] <=> Place(h, rows, order) < Place(g, rows, order)
               /\ Place(Oldest(heads, order), rows, order) = 0
               /\ \A h \in heads :
                     \/ Place(NextHead(heads, h, order), rows, order) = Place(h, rows, order) + 1
                     \/ /\ Place(NextHead(heads, h, order), rows, order) = 0
                        /\ Place(h, rows, order) + 1 = Width(rows, order)
<1> DEFINE heads == Heads(rows, order)
           B(h) == {k \in heads : order[k] < order[h]}
<1>1. heads \in SUBSET rows /\ heads \in SUBSET Jobs /\ heads # {} /\ IsFiniteSet(heads)
  BY HeadsExist, FS_Subset, JobsAssumption
<1>2. \A h \in heads : order[h] \in Nat
  BY <1>1
<1>3. \A h, g \in heads : order[h] = order[g] => h = g
  BY <1>1 DEF Distinct
<1>4. Width(rows, order) = Cardinality(heads) /\ \A h : Place(h, rows, order) = Cardinality(B(h))
  BY DEF Width, Place
<1>5. \A h \in heads : B(h) \subseteq heads
  OBVIOUS
<1>6. Oldest(heads, order) \in heads /\ \A k \in heads : order[Oldest(heads, order)] <= order[k]
  <2> HIDE DEF heads
  <2> QED
    BY <1>1, OldestIs
<1>7. \A h \in heads : IsFiniteSet(B(h)) /\ Cardinality(B(h)) \in Nat
  <2> SUFFICES ASSUME NEW h \in heads
               PROVE  IsFiniteSet(B(h)) /\ Cardinality(B(h)) \in Nat
    OBVIOUS
  <2> HIDE DEF heads, B
  <2>1. IsFiniteSet(B(h))
    BY <1>1, <1>5, FS_Subset
  <2> QED
    BY <2>1, FS_CardinalityType
<1>8. ASSUME NEW h \in heads
      PROVE  /\ IsFiniteSet(B(h) \cup {h})
             /\ Cardinality(B(h) \cup {h}) = Cardinality(B(h)) + 1
  <2>1. h \notin B(h)
    BY <1>2
  <2> HIDE DEF heads, B
  <2> QED
    BY <1>7, <2>1, FS_AddElement
<1>9. ASSUME NEW h \in heads, NEW g \in heads, order[h] < order[g]
      PROVE  Cardinality(B(h)) < Cardinality(B(g))
  <2>1. B(h) \cup {h} \subseteq B(g)
    BY <1>2, <1>9
  <2> HIDE DEF heads, B
  <2>2. Cardinality(B(h) \cup {h}) <= Cardinality(B(g))
    BY <1>7, <2>1, FS_Subset
  <2> QED
    BY <1>7, <1>8, <2>2
<1>10. ASSUME NEW h \in heads
       PROVE  Cardinality(B(h)) < Cardinality(heads)
  <2>1. B(h) \cup {h} \subseteq heads
    OBVIOUS
  <2> HIDE DEF heads, B
  <2>2. Cardinality(B(h) \cup {h}) <= Cardinality(heads)
    BY <1>1, <2>1, FS_Subset
  <2>3. Cardinality(heads) \in Nat /\ Cardinality(B(h)) \in Nat
    BY <1>1, <1>7, FS_CardinalityType
  <2>4. Cardinality(B(h) \cup {h}) = Cardinality(B(h)) + 1
    BY <1>8
  <2> QED
    BY <2>2, <2>3, <2>4
<1>11. Cardinality(B(Oldest(heads, order))) = 0
  <2>1. B(Oldest(heads, order)) = {}
    BY <1>2, <1>6
  <2> QED
    BY <2>1, FS_EmptySet
<1>12. ASSUME NEW h \in heads
       PROVE  LET g == NextHead(heads, h, order)
              IN  \/ Cardinality(B(g)) = Cardinality(B(h)) + 1
                  \/ Cardinality(B(g)) = 0 /\ Cardinality(B(h)) + 1 = Cardinality(heads)
  <2> DEFINE later == {k \in heads : order[k] > order[h]}
  <2>1. CASE later = {}
    <3>1. NextHead(heads, h, order) = Oldest(heads, order)
      BY <2>1 DEF NextHead
    <3>2. heads = B(h) \cup {h}
      BY <1>2, <1>3, <2>1
    <3>3. Cardinality(heads) = Cardinality(B(h)) + 1
      <4> HIDE DEF heads, B
      <4> QED
        BY <1>8, <3>2
    <3> QED
      BY <1>11, <3>1, <3>3
  <2>2. CASE later # {}
    <3> DEFINE g == Oldest(later, order)
    <3>1. NextHead(heads, h, order) = g
      BY <2>2 DEF NextHead
    <3>2. g \in later /\ \A k \in later : order[g] <= order[k]
      <4>1. later \in SUBSET Jobs
        BY <1>1
      <4> HIDE DEF later
      <4> QED
        BY <2>2, <4>1, OldestIs
    <3>3. B(g) = B(h) \cup {h}
      <4>1. g \in heads /\ order[h] < order[g]
        BY <3>2
      <4>2. ASSUME NEW k \in heads
            PROVE  order[k] < order[g] <=> order[k] < order[h] \/ k = h
        <5>1. order[k] > order[h] => order[g] <= order[k]
          BY <3>2
        <5> HIDE DEF g
        <5> QED
          BY <1>2, <1>3, <4>1, <5>1
      <4> HIDE DEF g
      <4> QED
        BY <4>2
    <3> QED
      BY <1>8, <3>1, <3>3
  <2> QED
    BY <2>1, <2>2
<1>13. Cardinality(heads) \in Nat \ {0}
  <2> HIDE DEF heads
  <2> QED
    BY <1>1, FS_CardinalityType, FS_EmptySet
<1>14. \A h, g \in heads : order[h] < order[g] <=> Cardinality(B(h)) < Cardinality(B(g))
  <2> SUFFICES ASSUME NEW h \in heads, NEW g \in heads
               PROVE  order[h] < order[g] <=> Cardinality(B(h)) < Cardinality(B(g))
    OBVIOUS
  <2>1. Cardinality(B(h)) \in Nat /\ Cardinality(B(g)) \in Nat
    BY <1>7
  <2>2. order[g] < order[h] => Cardinality(B(g)) < Cardinality(B(h))
    BY <1>9
  <2>3. order[h] < order[g] => Cardinality(B(h)) < Cardinality(B(g))
    BY <1>9
  <2>4. order[h] = order[g] => h = g
    BY <1>3
  <2>5. order[h] \in Nat /\ order[g] \in Nat
    BY <1>2
  <2> HIDE DEF B, heads
  <2> QED
    BY <2>1, <2>2, <2>3, <2>4, <2>5
<1> HIDE DEF B, heads
<1>15. /\ Width(rows, order) \in Nat \ {0}
       /\ \A h \in heads : /\ Place(h, rows, order) \in Nat
                           /\ Place(h, rows, order) < Width(rows, order)
       /\ \A h, g \in heads :
             order[h] < order[g] <=> Place(h, rows, order) < Place(g, rows, order)
       /\ Place(Oldest(heads, order), rows, order) = 0
       /\ \A h \in heads :
             \/ Place(NextHead(heads, h, order), rows, order) = Place(h, rows, order) + 1
             \/ /\ Place(NextHead(heads, h, order), rows, order) = 0
                /\ Place(h, rows, order) + 1 = Width(rows, order)
  BY <1>4, <1>7, <1>10, <1>11, <1>12, <1>13, <1>14
<1> QED
  BY <1>15 DEF heads

-----------------------------------------------------------------------------
(* Slots *)

LEMMA RankIs ==
    ASSUME NEW rows \in SUBSET Jobs, NEW order \in [Jobs -> Nat], Distinct(rows, order), rows # {}
    PROVE  /\ \A j \in rows : /\ Rank(j, rows, order) \in Nat
                              /\ IsFiniteSet(Elders(j, rows, order))
                              /\ HeadOf(j, rows, order) \in Heads(rows, order)
                              /\ TenantOf[HeadOf(j, rows, order)] = TenantOf[j]
                              /\ Slot(j, rows, order) \in Nat
           /\ \A j, k \in rows : TenantOf[j] = TenantOf[k] =>
                 /\ HeadOf(j, rows, order) = HeadOf(k, rows, order)
                 /\ order[j] < order[k] => Rank(j, rows, order) < Rank(k, rows, order)
           /\ \A h \in Heads(rows, order) : h \in rows /\ HeadOf(h, rows, order) = h
<1>1. \A j \in rows : j \in Jobs /\ order[j] \in Nat
  OBVIOUS
<1>2. ASSUME NEW j \in rows
      PROVE  /\ IsFiniteSet(Elders(j, rows, order)) /\ Rank(j, rows, order) \in Nat
             /\ j \notin Elders(j, rows, order)
             /\ Cardinality(Elders(j, rows, order) \cup {j}) = Rank(j, rows, order) + 1
  <2>1. Elders(j, rows, order) \subseteq Jobs /\ j \notin Elders(j, rows, order)
    BY <1>1 DEF Elders, Of
  <2>2. IsFiniteSet(Elders(j, rows, order))
    BY <2>1, FS_Subset, JobsAssumption
  <2> QED
    BY <2>1, <2>2, FS_CardinalityType, FS_AddElement DEF Rank
<1>3. ASSUME NEW j \in rows
      PROVE  /\ HeadOf(j, rows, order) \in Heads(rows, order)
             /\ HeadOf(j, rows, order) \in rows
             /\ TenantOf[HeadOf(j, rows, order)] = TenantOf[j]
  <2> DEFINE mine == Of(rows, TenantOf[j])
             h == Oldest(mine, order)
  <2>1. mine \in SUBSET Jobs /\ mine # {}
    BY DEF Of
  <2>2. h \in mine /\ \A k \in mine : order[h] <= order[k]
    <3> HIDE DEF mine
    <3> QED
      BY <2>1, OldestIs
  <2> HIDE DEF h
  <2>3. h \in rows /\ TenantOf[h] = TenantOf[j]
    BY <2>2 DEF Of
  <2>4. h \in Heads(rows, order)
    BY <2>2, <2>3 DEF Heads
  <2> QED
    BY <2>3, <2>4 DEF HeadOf, h
<1>4. ASSUME NEW j \in rows
      PROVE  Slot(j, rows, order) \in Nat
  <2> DEFINE r == Rank(j, rows, order)
             p == Place(HeadOf(j, rows, order), rows, order)
             m == Width(rows, order)
  <2>1. r \in Nat /\ p \in Nat /\ m \in Nat
    BY <1>2, <1>3, PlaceIs
  <2>2. Slot(j, rows, order) = r * m + p
    BY DEF Slot
  <2> HIDE DEF r, p, m
  <2> QED
    BY <2>1, <2>2
<1>5. ASSUME NEW j \in rows, NEW k \in rows, TenantOf[j] = TenantOf[k]
      PROVE  /\ HeadOf(j, rows, order) = HeadOf(k, rows, order)
             /\ order[j] < order[k] => Rank(j, rows, order) < Rank(k, rows, order)
  <2>1. HeadOf(j, rows, order) = HeadOf(k, rows, order)
    BY <1>5 DEF HeadOf
  <2>2. ASSUME order[j] < order[k]
        PROVE  Rank(j, rows, order) < Rank(k, rows, order)
    <3>1. Elders(j, rows, order) \cup {j} \subseteq Elders(k, rows, order)
      BY <1>1, <1>5, <2>2 DEF Elders, Of
    <3>2. Cardinality(Elders(j, rows, order) \cup {j}) <= Cardinality(Elders(k, rows, order))
      BY <1>2, <3>1, FS_Subset
    <3>3. /\ Rank(j, rows, order) \in Nat /\ Rank(k, rows, order) \in Nat
          /\ Cardinality(Elders(j, rows, order) \cup {j}) = Rank(j, rows, order) + 1
          /\ Cardinality(Elders(k, rows, order)) = Rank(k, rows, order)
      BY <1>2 DEF Rank
    <3> QED
      BY <3>2, <3>3
  <2> QED
    BY <2>1, <2>2
<1>6. ASSUME NEW h \in Heads(rows, order)
      PROVE  h \in rows /\ HeadOf(h, rows, order) = h
  <2> DEFINE g == HeadOf(h, rows, order)
  <2>1. h \in rows /\ \A k \in Of(rows, TenantOf[h]) : order[h] <= order[k]
    BY DEF Heads
  <2>2. g \in rows /\ TenantOf[g] = TenantOf[h] /\ \A k \in Of(rows, TenantOf[g]) : order[g] <= order[k]
    BY <1>3, <2>1 DEF Heads
  <2> HIDE DEF g
  <2>3. order[g] <= order[h] /\ order[h] <= order[g]
    BY <2>1, <2>2 DEF Of
  <2>4. order[g] = order[h]
    BY <1>1, <2>1, <2>2, <2>3
  <2> QED
    BY <2>1, <2>2, <2>4 DEF Distinct, g
<1> QED
  BY <1>2, <1>3, <1>4, <1>5, <1>6

\* The order of the reference.
Before(j, k, rows, order) ==
    \/ Rank(j, rows, order) < Rank(k, rows, order)
    \/ /\ Rank(j, rows, order) = Rank(k, rows, order)
       /\ order[HeadOf(j, rows, order)] < order[HeadOf(k, rows, order)]

\* Slots are what the reference orders the rows by, and no two rows have the same.
LEMMA SlotIs ==
    ASSUME NEW rows \in SUBSET Jobs, NEW order \in [Jobs -> Nat], Distinct(rows, order), rows # {},
           NEW j \in rows, NEW k \in rows
    PROVE  /\ Slot(j, rows, order) = Slot(k, rows, order) => j = k
           /\ Slot(j, rows, order) < Slot(k, rows, order) <=> Before(j, k, rows, order)
<1> DEFINE m == Width(rows, order)
           a == Rank(j, rows, order)
           b == Rank(k, rows, order)
           g == HeadOf(j, rows, order)
           h == HeadOf(k, rows, order)
           p == Place(g, rows, order)
           r == Place(h, rows, order)
<1>1. a \in Nat /\ b \in Nat /\ g \in Heads(rows, order) /\ h \in Heads(rows, order)
  BY RankIs
<1>2. m \in Nat /\ p \in Nat /\ r \in Nat /\ p < m /\ r < m
  BY <1>1, PlaceIs
<1>3. /\ order[g] < order[h] <=> p < r
      /\ order[h] < order[g] <=> r < p
  BY <1>1, PlaceIs
<1>4. Slot(j, rows, order) = a * m + p /\ Slot(k, rows, order) = b * m + r
  BY DEF Slot
<1>5. g \in rows /\ h \in rows /\ order[g] \in Nat /\ order[h] \in Nat
  BY <1>1, RankIs
<1>6. TenantOf[g] = TenantOf[j] /\ TenantOf[h] = TenantOf[k]
  <2>1. \A i \in rows : /\ Rank(i, rows, order) \in Nat
                        /\ IsFiniteSet(Elders(i, rows, order))
                        /\ HeadOf(i, rows, order) \in Heads(rows, order)
                        /\ TenantOf[HeadOf(i, rows, order)] = TenantOf[i]
                        /\ Slot(i, rows, order) \in Nat
    BY RankIs
  <2> QED
    BY <2>1
<1>7. g = h => TenantOf[j] = TenantOf[k]
  BY <1>6
<1>8. TenantOf[j] = TenantOf[k] /\ a = b => j = k
  <2> SUFFICES ASSUME TenantOf[j] = TenantOf[k], a = b
               PROVE  j = k
    OBVIOUS
  <2>1. ~(order[j] < order[k]) /\ ~(order[k] < order[j])
    BY <1>1, RankIs
  <2>2. order[j] \in Nat /\ order[k] \in Nat
    OBVIOUS
  <2>3. order[j] = order[k]
    BY <2>1, <2>2
  <2> QED
    BY <2>3 DEF Distinct
<1>9. p = r => g = h
  <2>1. p = r => order[g] = order[h]
    <3> HIDE DEF g, h, p, r
    <3> QED
      BY <1>2, <1>3, <1>5
  <2> QED
    BY <1>5, <2>1 DEF Distinct
<1>10. Before(j, k, rows, order) <=> a < b \/ (a = b /\ order[g] < order[h])
  BY DEF Before
<1> HIDE DEF m, a, b, g, h, p, r
<1>11. /\ a < b => a * m + p < b * m + r
       /\ a * m + p = b * m + r => a = b /\ p = r
  BY <1>1, <1>2, Lexical
<1>12. b < a => b * m + r < a * m + p
  BY <1>1, <1>2, Lexical
<1>13. a * m \in Nat /\ b * m \in Nat
  BY <1>1, <1>2
<1>14. Slot(j, rows, order) = Slot(k, rows, order) => j = k
  BY <1>4, <1>7, <1>8, <1>9, <1>11
<1>15. a = b => (a * m + p < b * m + r <=> p < r)
  BY <1>2, <1>13
<1>16. a * m + p < b * m + r <=> a < b \/ (a = b /\ p < r)
  <2> DEFINE u == a * m
             v == b * m
  <2>1. u \in Nat /\ v \in Nat /\ (a < b => u + p < v + r) /\ (b < a => v + r < u + p)
        /\ (a = b => (u + p < v + r <=> p < r))
    BY <1>11, <1>12, <1>13, <1>15
  <2> HIDE DEF u, v
  <2>2. u + p < v + r <=> a < b \/ (a = b /\ p < r)
    BY <1>1, <1>2, <2>1
  <2> QED
    BY <2>2 DEF u, v
<1> QED
  BY <1>3, <1>4, <1>10, <1>14, <1>16

-----------------------------------------------------------------------------
(* Every turn serves the row of its number *)

Entitled(rows, order, active, perTenant) ==
    {j \in rows : active[TenantOf[j]] + Rank(j, rows, order) < perTenant}

\* After n turns: what is selected, in which order, and where the next rows are.
Served(c, n, rows, order, active, limit, perTenant) ==
    LET picked == Picked(c.selected)
        entitled == Entitled(rows, order, active, perTenant)
    IN  /\ \A j \in picked : j \in entitled /\ Slot(j, rows, order) < n
        /\ \A j \in entitled :
              Slot(j, rows, order) < n => j \in picked \/ Len(c.selected) = limit
        /\ \A j \in picked, k \in entitled :
              Slot(k, rows, order) < Slot(j, rows, order) => k \in picked
        /\ \A x, y \in 1 .. Len(c.selected) :
              Slot(c.selected[x], rows, order) < Slot(c.selected[y], rows, order) => x < y
        /\ \A j \in rows :
              Cardinality(Of(picked, TenantOf[j])) * Width(rows, order)
                 + Place(HeadOf(j, rows, order), rows, order) < n + Width(rows, order)
        /\ \E q \in Nat : n = q * Width(rows, order) + Place(c.turn, rows, order)

\* The turn of a tenant that takes its oldest row, and of one that does not.
Takes(c, order, limit, perTenant) ==
    ~(\/ Len(c.selected) >= limit \/ c.active[TenantOf[c.turn]] >= perTenant
      \/ Of(c.left, TenantOf[c.turn]) = {})

\* The oldest row that is left of the tenant whose turn it is.
IsNext(j, c, order) ==
    /\ j \in Of(c.left, TenantOf[c.turn])
    /\ \A k \in Of(c.left, TenantOf[c.turn]) : order[j] <= order[k]

LEMMA TurnIs ==
    ASSUME NEW rows \in SUBSET Jobs, NEW order \in [Jobs -> Nat], NEW limit \in Nat,
           NEW perTenant \in Nat, NEW c \in Round(rows, order), rows # {}
    PROVE  LET d == Turn(c, order, limit, perTenant)
               j == Oldest(Of(c.left, TenantOf[c.turn]), order)
           IN  /\ d.turn = NextHead(Heads(rows, order), c.turn, order)
               /\ Takes(c, order, limit, perTenant) =>
                     /\ j \in Of(c.left, TenantOf[c.turn]) /\ j \in rows
                     /\ \A k \in Of(c.left, TenantOf[c.turn]) : order[j] <= order[k]
                     /\ d.selected = Append(c.selected, j)
               /\ ~Takes(c, order, limit, perTenant) => d.selected = c.selected
<1> DEFINE t == TenantOf[c.turn]
           h == NextHead(c.heads, c.turn, order)
           next == [c EXCEPT !.turn = h]
           mine == Of(c.left, t)
           j == Oldest(mine, order)
           took == [next EXCEPT !.left = @ \ {j}, !.active[t] = @ + 1, !.selected = Append(@, j)]
           d == Turn(c, order, limit, perTenant)
<1>1. c.left \in SUBSET rows /\ c.heads = Heads(rows, order)
  BY DEF Round
<1>2. next.turn = h /\ next.selected = c.selected
  BY DEF Round
<1>3. Takes(c, order, limit, perTenant) => d = took /\ mine # {}
  BY DEF Turn, Takes
<1>4. ~Takes(c, order, limit, perTenant) => d = next
  BY DEF Turn, Takes
<1>5. took.turn = h /\ took.selected = Append(c.selected, j)
  <2> HIDE DEF j, h, t
  <2> QED
    BY DEF Round
<1>6. mine # {} => j \in mine /\ j \in rows /\ \A k \in mine : order[j] <= order[k]
  <2>1. mine \in SUBSET Jobs /\ mine \subseteq rows
    BY <1>1 DEF Of
  <2> HIDE DEF mine
  <2> QED
    BY <2>1, OldestIs
<1>7. h = NextHead(Heads(rows, order), c.turn, order)
  BY <1>1
<1> HIDE DEF took, next, h, mine, t, j, d
<1>8. /\ d.turn = NextHead(Heads(rows, order), c.turn, order)
      /\ Takes(c, order, limit, perTenant) =>
            /\ j \in mine /\ j \in rows
            /\ \A k \in mine : order[j] <= order[k]
            /\ d.selected = Append(c.selected, j)
      /\ ~Takes(c, order, limit, perTenant) => d.selected = c.selected
  BY <1>2, <1>3, <1>4, <1>5, <1>6, <1>7
<1> QED
  BY <1>8 DEF d, j, mine, t

\* Where the next turn is.
LEMMA NextPlace ==
    ASSUME NEW rows \in SUBSET Jobs, NEW order \in [Jobs -> Nat], Distinct(rows, order), rows # {},
           NEW h \in Heads(rows, order), NEW n \in Nat, NEW q \in Nat,
           n = q * Width(rows, order) + Place(h, rows, order)
    PROVE  \E r \in Nat : n + 1 = r * Width(rows, order)
                                     + Place(NextHead(Heads(rows, order), h, order), rows, order)
<1> DEFINE m == Width(rows, order)
           p == Place(h, rows, order)
           s == Place(NextHead(Heads(rows, order), h, order), rows, order)
<1>1. m \in Nat /\ p \in Nat /\ p < m /\ (s = p + 1 \/ (s = 0 /\ p + 1 = m))
  BY PlaceIs
<1>2. n = q * m + p
  OBVIOUS
<1> HIDE DEF m, p, s
<1>3. q * m \in Nat /\ (q + 1) * m = q * m + m
  BY <1>1
<1>4. n + 1 = q * m + s \/ n + 1 = (q + 1) * m + s
  BY <1>1, <1>2, <1>3
<1>5. \E r \in Nat : n + 1 = r * m + s
  BY <1>4
<1> QED
  BY <1>5 DEF m, s

\* What a tenant takes in its turn is the row whose slot has the number of the turn.
LEMMA TakesItsSlot ==
    ASSUME NEW rows \in SUBSET Jobs, NEW order \in [Jobs -> Nat], NEW active \in [Tenants -> Nat],
           NEW limit \in Nat, NEW perTenant \in Nat, NEW c \in Round(rows, order), NEW n \in Nat,
           Distinct(rows, order), rows # {}, Within(c, rows, order, active, limit, perTenant),
           Served(c, n, rows, order, active, limit, perTenant),
           Takes(c, order, limit, perTenant),
           NEW j \in rows, IsNext(j, c, order)
    PROVE  /\ Slot(j, rows, order) = n
           /\ j \in Entitled(rows, order, active, perTenant)
           /\ Rank(j, rows, order) = Cardinality(Of(Picked(c.selected), TenantOf[j]))
<1> DEFINE t == TenantOf[c.turn]
           S == Picked(c.selected)
           m == Width(rows, order)
           p == Place(c.turn, rows, order)
           a == Rank(j, rows, order)
<1>1. /\ c.left \in SUBSET rows /\ c.active \in [Tenants -> Nat]
      /\ c.turn \in Heads(rows, order) /\ c.turn \in rows /\ t \in Tenants
  <2>1. c.turn \in Heads(rows, order) /\ c.turn \in rows
    BY RankIs DEF Round
  <2> QED
    BY <2>1, JobsAssumption DEF Round
<1>2. /\ TenantOf[j] = t /\ j \in c.left
      /\ \A k \in Of(c.left, t) : order[j] <= order[k]
  BY DEF IsNext, Of
<1>3. S = rows \ c.left /\ OldestFirst(c.selected, rows, order)
      /\ Slots(c.selected, active, c.active, perTenant)
  BY DEF Within
<1>4. Elders(j, rows, order) = Of(S, t)
  <2>1. ASSUME NEW k \in rows, TenantOf[k] = t
        PROVE  k \in S <=> order[k] < order[j]
    <3>1. order[k] \in Nat /\ order[j] \in Nat
      OBVIOUS
    <3>2. CASE k \in S
      <4>1. ~(order[j] < order[k])
        BY <1>2, <1>3, <2>1, <3>2 DEF OldestFirst
      <4>2. order[j] # order[k]
        BY <1>2, <1>3, <3>2 DEF Distinct
      <4> QED
        BY <3>1, <3>2, <4>1, <4>2
    <3>3. CASE k \notin S
      <4>1. k \in Of(c.left, t)
        BY <1>3, <2>1, <3>3 DEF Of
      <4>2. order[j] <= order[k]
        BY <1>2, <4>1
      <4> QED
        BY <3>1, <3>3, <4>2
    <3> QED
      BY <3>2, <3>3
  <2>2. S \subseteq rows
    BY <1>3
  <2> HIDE DEF S, t
  <2> QED
    BY <1>2, <2>1, <2>2 DEF Elders, Of
<1>5. a = Cardinality(Of(S, t)) /\ a \in Nat
  BY <1>4, RankIs DEF Rank
<1>6. HeadOf(j, rows, order) = c.turn
  <2>1. HeadOf(c.turn, rows, order) = c.turn
    BY <1>1, RankIs
  <2>2. HeadOf(j, rows, order) = HeadOf(c.turn, rows, order)
    BY <1>2 DEF HeadOf
  <2> QED
    BY <2>1, <2>2
<1>7. m \in Nat /\ p \in Nat /\ p < m
  BY <1>1, PlaceIs
<1>8. Slot(j, rows, order) = a * m + p
  BY <1>6 DEF Slot
<1>9. c.active[t] = active[t] + a /\ c.active[t] < perTenant /\ Len(c.selected) < limit
  <2>1. \/ Of(S, t) = {} /\ c.active[t] = active[t]
        \/ c.active[t] = active[t] + Cardinality(Of(S, t)) /\ c.active[t] <= perTenant
    BY <1>1, <1>3 DEF Slots
  <2>2. Of(S, t) = {} => a = 0
    BY <1>5, FS_EmptySet
  <2>3. c.active[t] \in Nat /\ active[t] \in Nat /\ Len(c.selected) \in Nat
    <3>1. c.selected \in Seq(Jobs)
      BY DEF Round
    <3> QED
      BY <1>1, <3>1, LenProperties
  <2>4. ~(Len(c.selected) >= limit) /\ ~(c.active[t] >= perTenant)
    BY DEF Takes
  <2> HIDE DEF a, t, S
  <2> QED
    BY <1>5, <2>1, <2>2, <2>3, <2>4
<1>10. j \in Entitled(rows, order, active, perTenant)
  BY <1>2, <1>9 DEF Entitled
<1>11. a * m + p < n + m
  <2>1. Cardinality(Of(S, TenantOf[j])) * m + Place(HeadOf(j, rows, order), rows, order) < n + m
    BY DEF Served
  <2> QED
    BY <1>2, <1>5, <1>6, <2>1
<1>12. PICK q \in Nat : n = q * m + p
  BY DEF Served
<1>13. ~(Slot(j, rows, order) < n)
  <2>1. j \notin S /\ Len(c.selected) # limit
    <3>1. Len(c.selected) \in Nat
      BY LenProperties DEF Round
    <3> QED
      BY <1>2, <1>3, <1>9, <3>1
  <2> QED
    BY <1>10, <2>1 DEF Served
<1> HIDE DEF a, m, p
<1>14. a <= q
  <2>1. (q + 1) * m = q * m + m /\ q * m \in Nat
    BY <1>7
  <2>2. a * m + p < (q + 1) * m + p
    BY <1>7, <1>11, <1>12, <2>1
  <2> QED
    BY <1>5, <1>7, <2>2, Lexical
<1>15. a < q => a * m + p < q * m + p
  BY <1>5, <1>7, Lexical
<1>16. a = q
  BY <1>5, <1>8, <1>12, <1>13, <1>14, <1>15
<1>17. a = Cardinality(Of(S, TenantOf[j]))
  BY <1>2, <1>5
<1> QED
  BY <1>8, <1>10, <1>12, <1>16, <1>17 DEF a

-----------------------------------------------------------------------------
(* Turn after turn *)

\* The counts of a choice that grows by one row.
LEMMA PickedGrows ==
    ASSUME NEW S \in SUBSET Jobs, NEW j \in Jobs, j \notin S, NEW t \in Tenants
    PROVE  /\ Cardinality(Of(S, t)) \in Nat
           /\ TenantOf[j] = t => Cardinality(Of(S \cup {j}, t)) = Cardinality(Of(S, t)) + 1
           /\ TenantOf[j] # t => Of(S \cup {j}, t) = Of(S, t)
<1>1. IsFiniteSet(Of(S, t)) /\ j \notin Of(S, t)
  BY FS_Subset, JobsAssumption DEF Of
<1>2. /\ TenantOf[j] = t => Of(S \cup {j}, t) = Of(S, t) \cup {j}
      /\ TenantOf[j] # t => Of(S \cup {j}, t) = Of(S, t)
  BY DEF Of
<1>3. /\ Cardinality(Of(S, t)) \in Nat
      /\ Cardinality(Of(S, t) \cup {j}) = Cardinality(Of(S, t)) + 1
  BY <1>1, FS_CardinalityType, FS_AddElement
<1> QED
  BY <1>2, <1>3

LEMMA ServedTake ==
    ASSUME NEW rows \in SUBSET Jobs, NEW order \in [Jobs -> Nat], NEW active \in [Tenants -> Nat],
           NEW limit \in Nat, NEW perTenant \in Nat, NEW c \in Round(rows, order), NEW n \in Nat,
           Distinct(rows, order), rows # {}, Within(c, rows, order, active, limit, perTenant),
           Served(c, n, rows, order, active, limit, perTenant),
           Takes(c, order, limit, perTenant)
    PROVE  Served(Turn(c, order, limit, perTenant), n + 1, rows, order, active, limit, perTenant)
<1> DEFINE t == TenantOf[c.turn]
           d == Turn(c, order, limit, perTenant)
           j == Oldest(Of(c.left, t), order)
           S == Picked(c.selected)
           E == Entitled(rows, order, active, perTenant)
           m == Width(rows, order)
<1>1. /\ d.turn = NextHead(Heads(rows, order), c.turn, order)
      /\ j \in Of(c.left, t) /\ j \in rows
      /\ \A k \in Of(c.left, t) : order[j] <= order[k]
      /\ d.selected = Append(c.selected, j)
  BY TurnIs
<1> HIDE DEF j
<1>2. /\ Slot(j, rows, order) = n
      /\ j \in E
      /\ Rank(j, rows, order) = Cardinality(Of(S, TenantOf[j]))
  <2>1. j \in rows /\ IsNext(j, c, order)
    BY <1>1 DEF IsNext
  <2> HIDE DEF d, t
  <2> QED
    BY <2>1, TakesItsSlot
<1>3. c.selected \in Seq(Jobs) /\ c.turn \in Heads(rows, order) /\ Len(c.selected) \in Nat
  BY LenProperties DEF Round
<1>4. /\ S = rows \ c.left /\ S \in SUBSET rows /\ j \notin S /\ Len(c.selected) < limit
  <2>1. j \in c.left /\ S = rows \ c.left
    BY <1>1 DEF Of, Within
  <2> QED
    BY <1>3, <2>1 DEF Takes
<1>5. /\ Len(d.selected) = Len(c.selected) + 1
      /\ Picked(d.selected) = S \cup {j}
      /\ \A x \in 1 .. Len(c.selected) : d.selected[x] = c.selected[x]
      /\ d.selected[Len(c.selected) + 1] = j
  BY <1>1, <1>3, PickedAppend, AppendProperties
<1>6. \A k \in rows : /\ Slot(k, rows, order) \in Nat
                      /\ Slot(k, rows, order) = n => k = j
  <2> SUFFICES ASSUME NEW k \in rows
               PROVE  /\ Slot(k, rows, order) \in Nat
                      /\ Slot(k, rows, order) = n => k = j
    OBVIOUS
  <2>1. Slot(k, rows, order) \in Nat
    BY RankIs
  <2> QED
    BY <1>1, <1>2, <2>1, SlotIs
<1>7. E \subseteq rows
  BY DEF Entitled
<1> HIDE DEF d, S, E, m, t
<1>8. /\ \A k \in S : k \in E /\ Slot(k, rows, order) < n
      /\ \A k \in E : Slot(k, rows, order) < n => k \in S \/ Len(c.selected) = limit
      /\ \A i \in S, k \in E : Slot(k, rows, order) < Slot(i, rows, order) => k \in S
      /\ \A x, y \in 1 .. Len(c.selected) :
            Slot(c.selected[x], rows, order) < Slot(c.selected[y], rows, order) => x < y
      /\ \A i \in rows : Cardinality(Of(S, TenantOf[i])) * m
                            + Place(HeadOf(i, rows, order), rows, order) < n + m
  BY DEF Served, S, E, m
<1>9. \A k \in E : Slot(k, rows, order) < n => k \in S
  BY <1>3, <1>4, <1>8
<1>10. \A k \in Picked(d.selected) : k \in E /\ Slot(k, rows, order) < n + 1
  BY <1>2, <1>4, <1>5, <1>6, <1>8
<1>11. \A k \in E : Slot(k, rows, order) < n + 1 => k \in Picked(d.selected)
  BY <1>5, <1>6, <1>7, <1>9
<1>12. \A i \in Picked(d.selected), k \in E :
          Slot(k, rows, order) < Slot(i, rows, order) => k \in Picked(d.selected)
  BY <1>2, <1>4, <1>5, <1>6, <1>7, <1>8, <1>9
<1>13. \A x, y \in 1 .. Len(d.selected) :
          Slot(d.selected[x], rows, order) < Slot(d.selected[y], rows, order) => x < y
  <2> SUFFICES ASSUME NEW x \in 1 .. Len(d.selected), NEW y \in 1 .. Len(d.selected),
                      Slot(d.selected[x], rows, order) < Slot(d.selected[y], rows, order)
               PROVE  x < y
    OBVIOUS
  <2>1. CASE x \in 1 .. Len(c.selected) /\ y \in 1 .. Len(c.selected)
    BY <1>5, <1>8, <2>1
  <2>2. CASE x = Len(c.selected) + 1
    <3>1. Slot(d.selected[x], rows, order) = n
      BY <1>2, <1>5, <2>2
    <3>2. CASE y = Len(c.selected) + 1
      BY <1>2, <1>5, <3>1, <3>2
    <3>3. CASE y \in 1 .. Len(c.selected)
      <4>1. d.selected[y] = c.selected[y] /\ c.selected[y] \in S
        BY <1>5, <3>3 DEF S, Picked
      <4>2. Slot(d.selected[y], rows, order) < n /\ Slot(d.selected[y], rows, order) \in Nat
        BY <1>4, <1>6, <1>8, <4>1
      <4> QED
        BY <3>1, <4>2
    <3> QED
      BY <1>3, <1>5, <3>2, <3>3
  <2>3. CASE x \in 1 .. Len(c.selected) /\ y = Len(c.selected) + 1
    BY <1>3, <2>3
  <2> QED
    BY <1>3, <1>5, <2>1, <2>2, <2>3
<1>14. \A i \in rows : Cardinality(Of(Picked(d.selected), TenantOf[i])) * m
                          + Place(HeadOf(i, rows, order), rows, order) < (n + 1) + m
  <2> SUFFICES ASSUME NEW i \in rows
               PROVE  Cardinality(Of(Picked(d.selected), TenantOf[i])) * m
                         + Place(HeadOf(i, rows, order), rows, order) < (n + 1) + m
    OBVIOUS
  <2> DEFINE a == Cardinality(Of(S, TenantOf[i]))
             b == Cardinality(Of(S \cup {j}, TenantOf[i]))
             p == Place(HeadOf(i, rows, order), rows, order)
  <2>1. TenantOf[i] \in Tenants /\ S \in SUBSET Jobs /\ j \in Jobs
    BY <1>1, <1>4, JobsAssumption
  <2>2. /\ a \in Nat
        /\ TenantOf[j] = TenantOf[i] => b = a + 1
        /\ TenantOf[j] # TenantOf[i] => b = a
    <3>1. TenantOf[j] # TenantOf[i] => Of(S \cup {j}, TenantOf[i]) = Of(S, TenantOf[i])
      BY <1>4, <2>1, PickedGrows
    <3> QED
      BY <1>4, <2>1, <3>1, PickedGrows
  <2>3. p \in Nat /\ m \in Nat
    <3>1. HeadOf(i, rows, order) \in Heads(rows, order)
      BY RankIs
    <3> QED
      BY <3>1, PlaceIs DEF m
  <2>4. a * m + p < n + m
    BY <1>8
  <2>5. TenantOf[j] = TenantOf[i] => a * m + p = n
    <3> SUFFICES ASSUME TenantOf[j] = TenantOf[i]
                 PROVE  a * m + p = n
      OBVIOUS
    <3>1. HeadOf(j, rows, order) = HeadOf(i, rows, order)
      BY DEF HeadOf
    <3>2. Rank(j, rows, order) = a
      BY <1>2 DEF S
    <3> QED
      BY <1>2, <3>1, <3>2 DEF Slot, m
  <2> HIDE DEF a, b, p
  <2>6. a * m \in Nat /\ (a + 1) * m = a * m + m
    BY <2>2, <2>3
  <2>7. b * m + p < (n + 1) + m
    <3>1. CASE TenantOf[j] = TenantOf[i]
      <4>1. b * m = a * m + m
        BY <2>2, <2>6, <3>1
      <4>2. b * m + p = n + m
        BY <2>3, <2>5, <2>6, <3>1, <4>1
      <4> QED
        BY <2>3, <4>2
    <3>2. CASE TenantOf[j] # TenantOf[i]
      BY <2>2, <2>3, <2>4, <2>6, <3>2
    <3> QED
      BY <3>1, <3>2
  <2> QED
    BY <1>5, <2>7 DEF b, p
<1>15. \E q \in Nat : n + 1 = q * m + Place(d.turn, rows, order)
  <2>1. PICK q \in Nat : n = q * Width(rows, order) + Place(c.turn, rows, order)
    BY DEF Served
  <2> QED
    BY <1>1, <1>3, <2>1, NextPlace DEF m
<1>16. Len(d.selected) \in Nat
  BY <1>3, <1>5
<1> QED
  BY <1>10, <1>11, <1>12, <1>13, <1>14, <1>15 DEF Served, d, S, E, m

LEMMA ServedPass ==
    ASSUME NEW rows \in SUBSET Jobs, NEW order \in [Jobs -> Nat], NEW active \in [Tenants -> Nat],
           NEW limit \in Nat, NEW perTenant \in Nat, NEW c \in Round(rows, order), NEW n \in Nat,
           Distinct(rows, order), rows # {}, Within(c, rows, order, active, limit, perTenant),
           Served(c, n, rows, order, active, limit, perTenant),
           ~Takes(c, order, limit, perTenant)
    PROVE  Served(Turn(c, order, limit, perTenant), n + 1, rows, order, active, limit, perTenant)
<1> DEFINE t == TenantOf[c.turn]
           d == Turn(c, order, limit, perTenant)
           S == Picked(c.selected)
           E == Entitled(rows, order, active, perTenant)
           m == Width(rows, order)
           p == Place(c.turn, rows, order)
<1>1. d.turn = NextHead(Heads(rows, order), c.turn, order) /\ d.selected = c.selected
  BY TurnIs
<1>2. /\ c.selected \in Seq(Jobs) /\ c.turn \in Heads(rows, order) /\ Len(c.selected) \in Nat
      /\ c.turn \in rows /\ t \in Tenants
  <2>1. c.turn \in Heads(rows, order) /\ c.turn \in rows
    BY RankIs DEF Round
  <2> QED
    BY <2>1, JobsAssumption, LenProperties DEF Round
<1>3. /\ S = rows \ c.left /\ OldestFirst(c.selected, rows, order) /\ Len(c.selected) <= limit
      /\ Slots(c.selected, active, c.active, perTenant)
  BY DEF Within
<1>4. PICK q \in Nat : n = q * m + p
  BY DEF Served
<1>5. E \subseteq rows /\ \A k \in rows : Slot(k, rows, order) \in Nat
  <2>1. \A k \in rows : Slot(k, rows, order) \in Nat
    BY RankIs
  <2> QED
    BY <2>1 DEF Entitled
\* An entitled row whose turn it is waits only because the limit is reached.
<1>6. ASSUME NEW k \in E, Slot(k, rows, order) = n, k \notin S
      PROVE  Len(c.selected) = limit
  <2> SUFFICES ASSUME Len(c.selected) < limit
               PROVE  FALSE
    BY <1>2, <1>3
  <2> DEFINE a == Rank(k, rows, order)
             r == Place(HeadOf(k, rows, order), rows, order)
  <2>1. a \in Nat /\ HeadOf(k, rows, order) \in Heads(rows, order)
    BY <1>5, RankIs
  <2>2. m \in Nat /\ p \in Nat /\ p < m /\ r \in Nat /\ r < m
    BY <1>2, <2>1, PlaceIs
  <2>3. a * m + r = q * m + p
    BY <1>4, <1>6 DEF Slot
  <2>4. r = p
    <3> HIDE DEF a, r, m, p
    <3> QED
      BY <2>1, <2>2, <2>3, Lexical
  <2>5. HeadOf(k, rows, order) = c.turn
    <3> DEFINE g == HeadOf(k, rows, order)
    <3>1. g \in rows /\ g \in Heads(rows, order)
      BY <2>1, RankIs
    <3>2. /\ order[g] < order[c.turn] <=> r < p
          /\ order[c.turn] < order[g] <=> p < r
      BY <1>2, <3>1, PlaceIs
    <3>3. order[g] \in Nat /\ order[c.turn] \in Nat
      BY <1>2, <3>1
    <3> HIDE DEF g, r, p
    <3>4. order[g] = order[c.turn]
      BY <2>2, <2>4, <3>2, <3>3
    <3>5. g = c.turn
      BY <1>2, <3>1, <3>4 DEF Distinct
    <3> QED
      BY <3>5 DEF g
  <2>6. TenantOf[k] = t
    <3>1. \A i \in rows : /\ Rank(i, rows, order) \in Nat
                          /\ IsFiniteSet(Elders(i, rows, order))
                          /\ HeadOf(i, rows, order) \in Heads(rows, order)
                          /\ TenantOf[HeadOf(i, rows, order)] = TenantOf[i]
                          /\ Slot(i, rows, order) \in Nat
      BY RankIs
    <3> QED
      BY <1>5, <2>5, <3>1
  <2>7. k \in Of(c.left, t)
    BY <1>3, <1>5, <1>6, <2>6 DEF Of
  <2>8. c.active[t] >= perTenant
    BY <2>7, <1>2 DEF Takes
  <2>9. Of(S, t) \subseteq Elders(k, rows, order)
    <3> SUFFICES ASSUME NEW i \in Of(S, t)
                 PROVE  i \in Elders(k, rows, order)
      OBVIOUS
    <3>1. i \in rows /\ i \in S /\ TenantOf[i] = TenantOf[k]
      BY <1>3, <2>6 DEF Of
    <3>2. ~(order[k] < order[i])
      BY <1>3, <1>5, <1>6, <3>1 DEF OldestFirst
    <3>3. order[k] # order[i]
      BY <1>5, <1>6, <3>1 DEF Distinct
    <3>4. order[i] < order[k]
      <4>1. order[i] \in Nat /\ order[k] \in Nat
        BY <1>5, <3>1
      <4> QED
        BY <3>2, <3>3, <4>1
    <3> QED
      BY <3>1, <3>4 DEF Elders, Of
  <2>10. Cardinality(Of(S, t)) <= a /\ Cardinality(Of(S, t)) \in Nat
    <3>1. IsFiniteSet(Elders(k, rows, order))
      BY <1>5, RankIs
    <3> QED
      BY <2>9, <3>1, FS_Subset, FS_CardinalityType DEF Rank
  <2>11. active[t] + a < perTenant
    BY <2>6 DEF Entitled
  <2>12. \/ c.active[t] = active[t]
         \/ c.active[t] = active[t] + Cardinality(Of(S, t))
    BY <1>2, <1>3 DEF Slots
  <2>13. active[t] \in Nat
    BY <1>2
  <2> HIDE DEF a, t, S
  <2> QED
    BY <2>1, <2>8, <2>10, <2>11, <2>12, <2>13
<1>7. \E r \in Nat : n + 1 = r * m + Place(d.turn, rows, order)
  BY <1>1, <1>2, <1>4, NextPlace
<1>8. \A k \in E : Slot(k, rows, order) < n + 1 => k \in S \/ Len(c.selected) = limit
  <2> SUFFICES ASSUME NEW k \in E, Slot(k, rows, order) < n + 1
               PROVE  k \in S \/ Len(c.selected) = limit
    OBVIOUS
  <2>1. CASE Slot(k, rows, order) = n
    BY <1>6, <2>1
  <2>2. CASE Slot(k, rows, order) < n
    BY <2>2 DEF Served
  <2>3. Slot(k, rows, order) \in Nat
    BY <1>5
  <2> QED
    BY <2>1, <2>2, <2>3
<1>9. \A k \in S : k \in E /\ Slot(k, rows, order) < n + 1
  <2> SUFFICES ASSUME NEW k \in S
               PROVE  k \in E /\ Slot(k, rows, order) < n + 1
    OBVIOUS
  <2>1. k \in E /\ Slot(k, rows, order) < n
    BY DEF Served
  <2>2. Slot(k, rows, order) \in Nat
    BY <1>5, <2>1
  <2> HIDE DEF S, E
  <2> QED
    BY <2>1, <2>2
<1>10. \A i \in rows : Cardinality(Of(S, TenantOf[i])) * m
                          + Place(HeadOf(i, rows, order), rows, order) < (n + 1) + m
  <2> SUFFICES ASSUME NEW i \in rows
               PROVE  Cardinality(Of(S, TenantOf[i])) * m
                         + Place(HeadOf(i, rows, order), rows, order) < (n + 1) + m
    OBVIOUS
  <2> DEFINE a == Cardinality(Of(S, TenantOf[i]))
             r == Place(HeadOf(i, rows, order), rows, order)
  <2>1. a * m + r < n + m
    BY DEF Served
  <2>2. r \in Nat /\ m \in Nat
    <3>1. HeadOf(i, rows, order) \in Heads(rows, order)
      BY RankIs
    <3> QED
      BY <3>1, PlaceIs
  <2>3. a \in Nat
    <3>1. IsFiniteSet(Of(S, TenantOf[i]))
      BY <1>3, FS_Subset, JobsAssumption DEF Of
    <3> QED
      BY <3>1, FS_CardinalityType
  <2> HIDE DEF a, r, m
  <2>4. a * m \in Nat
    BY <2>2, <2>3
  <2>5. a * m + r < (n + 1) + m
    BY <2>1, <2>2, <2>4
  <2> QED
    BY <2>5 DEF a, r
<1>11. /\ \A i \in S, k \in E : Slot(k, rows, order) < Slot(i, rows, order) => k \in S
       /\ \A x, y \in 1 .. Len(c.selected) :
             Slot(c.selected[x], rows, order) < Slot(c.selected[y], rows, order) => x < y
  BY DEF Served
<1>12. Picked(d.selected) = S /\ Len(d.selected) = Len(c.selected)
  BY <1>1
<1> HIDE DEF d, p
<1> QED
  BY <1>1, <1>7, <1>8, <1>9, <1>10, <1>11, <1>12 DEF Served, d

-----------------------------------------------------------------------------
(* The round robin makes the choice of the reference *)

LEMMA TurnsServe ==
    ASSUME NEW rows \in SUBSET Jobs, NEW order \in [Jobs -> Nat], NEW active \in [Tenants -> Nat],
           NEW limit \in Nat, NEW perTenant \in Nat, Distinct(rows, order), rows # {}
    PROVE  /\ Turns(rows, order, active, limit, perTenant) \in Round(rows, order)
           /\ Within(Turns(rows, order, active, limit, perTenant),
                     rows, order, active, limit, perTenant)
           /\ Served(Turns(rows, order, active, limit, perTenant), limit * Width(rows, order),
                     rows, order, active, limit, perTenant)
<1>0. PICK first, last, after :
         TurnByTurn(first, last, after, rows, order, active, limit, perTenant)
  BY TurnsLoop
<1>1. /\ first = [left |-> rows, active |-> active, heads |-> Heads(rows, order),
                  turn |-> Oldest(Heads(rows, order), order), selected |-> <<>>]
      /\ last \in Nat /\ last = limit * Width(rows, order)
      /\ Turns(rows, order, active, limit, perTenant) = after[last]
      /\ \A n \in 0 .. last :
            after[n] = IF n = 0 THEN first ELSE Turn(after[n - 1], order, limit, perTenant)
  BY <1>0 DEF TurnByTurn, Width
<1>2. first \in Round(rows, order) /\ Within(first, rows, order, active, limit, perTenant)
  BY <1>1, StartWithin
<1>3. Served(first, 0, rows, order, active, limit, perTenant)
  <2> DEFINE m == Width(rows, order)
  <2>1. Picked(first.selected) = {} /\ Len(first.selected) = 0
    BY <1>1, PickedEmpty
  <2>2. Cardinality({}) = 0 /\ \A u : Of({}, u) = {}
    BY FS_EmptySet DEF Of
  <2>3. m \in Nat /\ \A h \in Heads(rows, order) : Place(h, rows, order) \in Nat
                                                  /\ Place(h, rows, order) < m
    BY PlaceIs
  <2>4. Place(first.turn, rows, order) = 0
    <3>1. first.turn = Oldest(Heads(rows, order), order)
      BY <1>1
    <3> QED
      BY <3>1, PlaceIs
  <2>5. \A j \in rows : Slot(j, rows, order) \in Nat
    BY RankIs
  <2>6. \A j \in rows : 0 * m + Place(HeadOf(j, rows, order), rows, order) < 0 + m
    <3> SUFFICES ASSUME NEW j \in rows
                 PROVE  0 * m + Place(HeadOf(j, rows, order), rows, order) < 0 + m
      OBVIOUS
    <3>1. HeadOf(j, rows, order) \in Heads(rows, order)
      BY RankIs
    <3> HIDE DEF m
    <3> QED
      BY <2>3, <3>1
  <2>7. 0 = 0 * m + Place(first.turn, rows, order)
    <3> HIDE DEF m
    <3> QED
      BY <2>3, <2>4
  <2>8. Entitled(rows, order, active, perTenant) \subseteq rows
    BY DEF Entitled
  <2>9. \A j \in Entitled(rows, order, active, perTenant) : ~(Slot(j, rows, order) < 0)
    BY <2>5, <2>8
  <2>10. \A j \in rows : Cardinality(Of({}, TenantOf[j])) = 0
    BY <2>2
  <2>11. 1 .. Len(first.selected) = {}
    BY <2>1
  <2>12. \E q \in Nat : 0 = q * m + Place(first.turn, rows, order)
    BY <2>7
  <2> DEFINE s == first.selected
             E == Entitled(rows, order, active, perTenant)
  <2> HIDE DEF s, m, E
  <2>13. /\ \A j \in Picked(s) : j \in E /\ Slot(j, rows, order) < 0
         /\ \A j \in Picked(s), k \in E :
               Slot(k, rows, order) < Slot(j, rows, order) => k \in Picked(s)
    BY <2>1 DEF s
  <2>14. \A j \in E : Slot(j, rows, order) < 0 => j \in Picked(s) \/ Len(s) = limit
    BY <2>9 DEF E
  <2>15. \A x, y \in 1 .. Len(s) : Slot(s[x], rows, order) < Slot(s[y], rows, order) => x < y
    BY <2>11 DEF s
  <2>16. \A j \in rows : Cardinality(Of(Picked(s), TenantOf[j])) * m
                            + Place(HeadOf(j, rows, order), rows, order) < 0 + m
    BY <2>1, <2>6, <2>10 DEF s
  <2> QED
    BY <2>12, <2>13, <2>14, <2>15, <2>16 DEF Served, s, m, E
<1> DEFINE T == {n \in Nat : n <= last =>
                    /\ after[n] \in Round(rows, order)
                    /\ Within(after[n], rows, order, active, limit, perTenant)
                    /\ Served(after[n], n, rows, order, active, limit, perTenant)}
<1>4. 0 \in T
  BY <1>1, <1>2, <1>3
<1>5. ASSUME NEW n \in Nat, n \in T
      PROVE  n + 1 \in T
  <2> SUFFICES ASSUME n + 1 <= last
               PROVE  /\ after[n + 1] \in Round(rows, order)
                      /\ Within(after[n + 1], rows, order, active, limit, perTenant)
                      /\ Served(after[n + 1], n + 1, rows, order, active, limit, perTenant)
    OBVIOUS
  <2>1. after[n + 1] = Turn(after[n], order, limit, perTenant)
    <3>1. n + 1 \in 0 .. last /\ n + 1 # 0 /\ (n + 1) - 1 = n
      BY <1>1
    <3> QED
      BY <1>1, <3>1
  <2>2. /\ after[n] \in Round(rows, order)
        /\ Within(after[n], rows, order, active, limit, perTenant)
        /\ Served(after[n], n, rows, order, active, limit, perTenant)
    BY <1>1, <1>5
  <2> QED
    BY <2>1, <2>2, TurnKeeps, ServedTake, ServedPass
<1>6. last \in T
  <2> HIDE DEF T
  <2> QED
    BY <1>1, <1>4, <1>5, SetInduction
<1> QED
  BY <1>1, <1>6

\* What the limit cuts off is behind everything that is chosen.
LEMMA ChosenAreFirst ==
    ASSUME NEW rows \in SUBSET Jobs, NEW order \in [Jobs -> Nat], NEW active \in [Tenants -> Nat],
           NEW limit \in Nat, NEW perTenant \in Nat, NEW c, Distinct(rows, order), rows # {},
           c \in Round(rows, order),
           Within(c, rows, order, active, limit, perTenant),
           Served(c, limit * Width(rows, order), rows, order, active, limit, perTenant)
    PROVE  LET E == Entitled(rows, order, active, perTenant)
           IN  Picked(c.selected) =
                  {j \in E : Cardinality({k \in E : Before(k, j, rows, order)}) < limit}
<1> DEFINE S == Picked(c.selected)
           E == Entitled(rows, order, active, perTenant)
           B(j) == {k \in E : Before(k, j, rows, order)}
           m == Width(rows, order)
<1>1. /\ S \in SUBSET rows /\ IsFiniteSet(S)
      /\ Len(c.selected) = Cardinality(S) /\ Cardinality(S) <= limit /\ Cardinality(S) \in Nat
  <2>1. S = rows \ c.left /\ Len(c.selected) = Cardinality(S) /\ Len(c.selected) <= limit
    BY DEF Within
  <2>2. S \in SUBSET rows /\ S \subseteq Jobs
    BY <2>1
  <2> HIDE DEF S
  <2>3. IsFiniteSet(S) /\ Cardinality(S) \in Nat
    BY <2>2, FS_Subset, FS_CardinalityType, JobsAssumption
  <2> QED
    BY <2>1, <2>2, <2>3
<1>2. /\ E \subseteq rows
      /\ \A j \in E : j \in rows /\ active[TenantOf[j]] + Rank(j, rows, order) < perTenant
  BY DEF Entitled
<1>3. /\ \A j \in S : j \in E
      /\ \A j \in E : Slot(j, rows, order) < limit * m => j \in S \/ Len(c.selected) = limit
      /\ \A j \in S, k \in E : Slot(k, rows, order) < Slot(j, rows, order) => k \in S
  BY DEF Served
<1>4. \A j \in E : B(j) \subseteq Jobs /\ IsFiniteSet(B(j)) /\ Cardinality(B(j)) \in Nat
  <2> SUFFICES ASSUME NEW j \in E
               PROVE  B(j) \subseteq Jobs /\ IsFiniteSet(B(j)) /\ Cardinality(B(j)) \in Nat
    OBVIOUS
  <2>1. B(j) \subseteq Jobs
    BY <1>2
  <2> HIDE DEF B
  <2> QED
    BY <2>1, FS_Subset, FS_CardinalityType, JobsAssumption
<1>5. \A j, k \in rows : /\ Slot(k, rows, order) < Slot(j, rows, order) <=> Before(k, j, rows, order)
                         /\ Slot(k, rows, order) = Slot(j, rows, order) => j = k
                         /\ Slot(k, rows, order) \in Nat
  <2>1. \A k \in rows : Slot(k, rows, order) \in Nat
    BY RankIs
  <2> QED
    BY <2>1, SlotIs
<1>6. ASSUME NEW j \in S
      PROVE  j \in E /\ Cardinality(B(j)) < limit
  <2>1. j \in E /\ j \in rows
    BY <1>1, <1>3
  <2>2. B(j) \subseteq S \ {j}
    <3>1. ASSUME NEW k \in B(j)
          PROVE  k \in S /\ k # j
      <4>1. k \in E /\ k \in rows /\ Slot(k, rows, order) < Slot(j, rows, order)
        BY <1>2, <1>5, <2>1
      <4>2. Slot(j, rows, order) \in Nat
        BY <1>5, <2>1
      <4> QED
        BY <1>3, <4>1, <4>2
    <3> QED
      BY <3>1
  <2> HIDE DEF S, B
  <2>3. IsFiniteSet(S \ {j}) /\ Cardinality(S \ {j}) = Cardinality(S) - 1
    BY <1>1, FS_RemoveElement
  <2>4. Cardinality(B(j)) <= Cardinality(S \ {j})
    BY <2>2, <2>3, FS_Subset
  <2>5. Cardinality(B(j)) \in Nat
    BY <1>4, <2>1
  <2> QED
    BY <1>1, <2>1, <2>3, <2>4, <2>5
<1>7. ASSUME NEW j \in E, j \notin S
      PROVE  ~(Cardinality(B(j)) < limit)
  <2>1. j \in rows
    BY <1>2
  <2>2. CASE Len(c.selected) = limit
    <3>1. S \subseteq B(j)
      <4> SUFFICES ASSUME NEW i \in S
                   PROVE  i \in B(j)
        OBVIOUS
      <4>1. i \in E /\ i \in rows /\ i # j
        BY <1>1, <1>3, <1>7
      <4>2. ~(Slot(j, rows, order) < Slot(i, rows, order))
        BY <1>3, <1>7
      <4>3. Slot(i, rows, order) # Slot(j, rows, order)
        BY <1>5, <2>1, <4>1
      <4>4. Slot(i, rows, order) \in Nat /\ Slot(j, rows, order) \in Nat
        BY <1>5, <2>1, <4>1
      <4>5. Slot(i, rows, order) < Slot(j, rows, order)
        BY <4>2, <4>3, <4>4
      <4> QED
        BY <1>5, <2>1, <4>1, <4>5
    <3>2. Cardinality(S) <= Cardinality(B(j))
      <4> HIDE DEF S, B
      <4> QED
        BY <1>4, <3>1, FS_Subset
    <3>3. Cardinality(B(j)) \in Nat
      BY <1>4
    <3> HIDE DEF S, B
    <3> QED
      BY <1>1, <2>2, <3>2, <3>3
  <2>3. CASE Len(c.selected) # limit
    <3> DEFINE a == Rank(j, rows, order)
               p == Place(HeadOf(j, rows, order), rows, order)
    <3>1. a \in Nat /\ HeadOf(j, rows, order) \in Heads(rows, order)
      BY <2>1, RankIs
    <3>2. m \in Nat /\ p \in Nat /\ p < m /\ 0 \in Nat /\ 0 < m
      <4>1. m \in Nat /\ p \in Nat /\ p < m
        BY <3>1, PlaceIs
      <4> HIDE DEF m, p
      <4> QED
        BY <4>1
    <3>3. ~(Slot(j, rows, order) < limit * m)
      BY <1>3, <1>7, <2>3
    <3>4. ~(a * m + p < limit * m + 0)
      <4>1. Slot(j, rows, order) = a * m + p
        BY DEF Slot
      <4>2. limit * m \in Nat
        BY <3>2
      <4> QED
        BY <3>3, <4>1, <4>2
    <3>5. ~(a < limit)
      <4> HIDE DEF a, p, m
      <4> QED
        BY <3>1, <3>2, <3>4, Lexical
    <3>6. Elders(j, rows, order) \subseteq B(j)
      <4> SUFFICES ASSUME NEW k \in Elders(j, rows, order)
                   PROVE  k \in B(j)
        OBVIOUS
      <4>1. k \in rows /\ TenantOf[k] = TenantOf[j] /\ order[k] < order[j]
        BY DEF Elders, Of
      <4>2. Rank(k, rows, order) < Rank(j, rows, order)
        BY <2>1, <4>1, RankIs
      <4>3. Rank(k, rows, order) \in Nat /\ active[TenantOf[j]] \in Nat
        <5>1. Rank(k, rows, order) \in Nat
          BY <4>1, RankIs
        <5>2. TenantOf[j] \in Tenants
          BY <2>1, JobsAssumption
        <5> QED
          BY <5>1, <5>2
      <4>4. active[TenantOf[k]] + Rank(k, rows, order) < perTenant
        <5>1. active[TenantOf[j]] + Rank(j, rows, order) < perTenant
          BY <1>2
        <5> HIDE DEF E
        <5> QED
          BY <3>1, <4>1, <4>2, <4>3, <5>1
      <4> QED
        BY <4>1, <4>2, <4>4 DEF Entitled, Before
    <3>7. Cardinality(Elders(j, rows, order)) <= Cardinality(B(j))
      <4> HIDE DEF B
      <4> QED
        BY <1>4, <3>6, FS_Subset
    <3>8. Cardinality(B(j)) \in Nat /\ a = Cardinality(Elders(j, rows, order))
      BY <1>4 DEF Rank
    <3> HIDE DEF a, B
    <3> QED
      BY <3>1, <3>5, <3>7, <3>8
  <2> QED
    BY <2>2, <2>3
<1> HIDE DEF S, E
<1>8. S = {j \in E : Cardinality(B(j)) < limit}
  <2> HIDE DEF B
  <2> QED
    BY <1>3, <1>6, <1>7
<1> QED
  BY <1>8 DEF S, E

\* FairChoice, with its local definitions named.
LEMMA FairChoiceIs ==
    ASSUME NEW rows \in SUBSET Jobs, NEW order \in [Jobs -> Nat], NEW active, NEW limit,
           NEW perTenant, NEW s \in Seq(Jobs), Picked(s) \subseteq rows,
           LET E == Entitled(rows, order, active, perTenant)
           IN  Picked(s) = {j \in E : Cardinality({k \in E : Before(k, j, rows, order)}) < limit},
           Len(s) = Cardinality(Picked(s)),
           \A x, y \in 1 .. Len(s) : Before(s[x], s[y], rows, order) => x < y
    PROVE  FairChoice(s, rows, order, active, limit, perTenant)
<1> DEFINE elders == [j \in rows |-> {k \in Of(rows, TenantOf[j]) : order[k] < order[j]}]
           rank == [j \in rows |-> Cardinality(elders[j])]
           head == [j \in rows |-> Oldest(Of(rows, TenantOf[j]), order)]
           entitled == {j \in rows : active[TenantOf[j]] + rank[j] < perTenant}
           before(j, k) ==
              rank[j] < rank[k] \/ (rank[j] = rank[k] /\ order[head[j]] < order[head[k]])
           E == Entitled(rows, order, active, perTenant)
           first == {j \in entitled : Cardinality({k \in entitled : before(k, j)}) < limit}
<1>1. \A j \in rows : rank[j] = Rank(j, rows, order) /\ head[j] = HeadOf(j, rows, order)
  BY DEF Rank, Elders, HeadOf
<1> HIDE DEF rank, head
<1>2. entitled = E
  BY <1>1 DEF Entitled
<1>3. \A j, k \in rows : before(j, k) <=> Before(j, k, rows, order)
  BY <1>1 DEF Before
<1>4. E \subseteq rows
  BY DEF Entitled
<1> HIDE DEF entitled, before, E
<1>5. first = {j \in E : Cardinality({k \in E : Before(k, j, rows, order)}) < limit}
  <2>1. \A j \in E : {k \in E : before(k, j)} = {k \in E : Before(k, j, rows, order)}
    BY <1>3, <1>4
  <2> QED
    BY <1>2, <2>1
<1>6. Picked(s) = first
  BY <1>5 DEF E
<1> HIDE DEF first
<1>7. \A x \in 1 .. Len(s) : s[x] \in rows
  BY DEF Picked
<1>8. \A x, y \in 1 .. Len(s) : before(s[x], s[y]) => x < y
  BY <1>3, <1>7
<1>9. /\ {s[x] : x \in 1 .. Len(s)} = first
      /\ Len(s) = Cardinality(first)
      /\ \A x, y \in 1 .. Len(s) : before(s[x], s[y]) => x < y
  BY <1>6, <1>8 DEF Picked
<1> USE DEF first, entitled, before, rank, head
<1> QED
  BY <1>9 DEF FairChoice

-----------------------------------------------------------------------------
(* What a run reads has no ties, and so its choice is the reference's *)

\* For whatever was read without ties, and every limit.
THEOREM RoundRobinIsFair ==
    ASSUME NEW rows \in SUBSET Jobs, NEW order \in [Jobs -> Nat], NEW active \in [Tenants -> Nat],
           NEW limit \in Nat, NEW perTenant \in Nat, Distinct(rows, order)
    PROVE  FairChoice(Choose(rows, order, active, limit, perTenant),
                      rows, order, active, limit, perTenant)
<1> DEFINE E == Entitled(rows, order, active, perTenant)
           s == Choose(rows, order, active, limit, perTenant)
           first == {j \in E : Cardinality({k \in E : Before(k, j, rows, order)}) < limit}
<1>1. CASE rows = {}
  <2>1. s = <<>> /\ s \in Seq(Jobs) /\ Len(s) = 0
    BY <1>1 DEF Choose
  <2> HIDE DEF s
  <2>2. Picked(s) = {} /\ Len(s) = Cardinality(Picked(s)) /\ 1 .. Len(s) = {}
    <3>1. Picked(s) = {}
      BY <2>1, PickedEmpty
    <3>2. Cardinality({}) = 0
      BY FS_EmptySet
    <3>3. 1 .. Len(s) = {}
      BY <2>1
    <3> QED
      BY <2>1, <3>1, <3>2, <3>3
  <2>3. Picked(s) = first
    BY <1>1, <2>2 DEF Entitled
  <2>4. FairChoice(s, rows, order, active, limit, perTenant)
    BY <2>1, <2>2, <2>3, FairChoiceIs
  <2> QED
    BY <2>4 DEF s
<1>2. CASE rows # {}
  <2> DEFINE c == Turns(rows, order, active, limit, perTenant)
  <2>1. /\ c \in Round(rows, order)
        /\ Within(c, rows, order, active, limit, perTenant)
        /\ Served(c, limit * Width(rows, order), rows, order, active, limit, perTenant)
    BY <1>2, TurnsServe
  <2>2. s = c.selected
    BY <1>2 DEF Choose
  <2> HIDE DEF c, s
  <2>3. s \in Seq(Jobs)
    BY <2>1, <2>2 DEF Round
  <2>4. Picked(s) = first
    BY <1>2, <2>1, <2>2, ChosenAreFirst
  <2>5. Len(s) = Cardinality(Picked(s))
    BY <2>1, <2>2 DEF Within
  <2>6. Picked(s) \subseteq rows
    BY <2>4 DEF Entitled
  <2>7. \A x, y \in 1 .. Len(s) : Before(s[x], s[y], rows, order) => x < y
    <3> SUFFICES ASSUME NEW x \in 1 .. Len(s), NEW y \in 1 .. Len(s),
                        Before(s[x], s[y], rows, order)
                 PROVE  x < y
      OBVIOUS
    <3>1. s[x] \in rows /\ s[y] \in rows
      BY <2>6 DEF Picked
    <3>2. Slot(s[x], rows, order) < Slot(s[y], rows, order)
      BY <1>2, <3>1, SlotIs
    <3>3. \A u, v \in 1 .. Len(s) :
             Slot(s[u], rows, order) < Slot(s[v], rows, order) => u < v
      BY <2>1, <2>2 DEF Served
    <3> QED
      BY <3>2, <3>3
  <2>8. FairChoice(s, rows, order, active, limit, perTenant)
    BY <2>3, <2>4, <2>5, <2>6, <2>7, FairChoiceIs
  <2> QED
    BY <2>8 DEF s
<1> QED
  BY <1>1, <1>2

TieFree(order) == \A j, k \in Jobs : order[j] = order[k] => j = k \/ order[j] = 0
ReadsAreTieFree == \A d \in Dispatchers : TieFree(disp[d].order)

LEMMA ReadIsTieFree ==
    ASSUME TypeInv, ReadsAreTieFree, NEW d \in Dispatchers, RunStep(d)
    PROVE  \E r : disp' = [disp EXCEPT ![d] = r] /\ TieFree(r.order)
<1>1. /\ disp[d] \in Dispatch /\ TieFree(disp[d].order)
      /\ TieFree(Idle.order)
  BY DEF TypeInv, RunsInv, ReadsAreTieFree, TieFree, Idle
<1>2. CASE ReadPending(d)
  <2> DEFINE o == [j \in Jobs |-> IF j \in Pending THEN made[j] ELSE 0]
             r == [Idle EXCEPT !.pc = "count", !.rest = Pending, !.order = o]
  <2>1. disp' = [disp EXCEPT ![d] = r]
    BY <1>2 DEF ReadPending
  <2>2. TieFree(o)
    BY DEF TieFree, TypeInv, RowsInv
  <2> HIDE DEF o
  <2>3. r.order = o
    BY DEF Idle
  <2> HIDE DEF r
  <2> QED
    BY <2>1, <2>2, <2>3
<1>3. CASE CountActive(d)
  <2> DEFINE a == [t \in Tenants |-> Cardinality({j \in Of(Jobs, t) : row[j] = "processing"})]
             r == [disp[d] EXCEPT !.pc = "inspect", !.active = a]
  <2>1. disp' = [disp EXCEPT ![d] = r]
    BY <1>3 DEF CountActive
  <2> HIDE DEF a
  <2>2. r.order = disp[d].order
    BY <1>1 DEF Dispatch
  <2> HIDE DEF r
  <2> QED
    BY <1>1, <2>1, <2>2
\* A run that has chosen forgets what it has read.
<1>4. ASSUME NEW s, Proceed(d, s)
      PROVE  \E r : disp' = [disp EXCEPT ![d] = r] /\ TieFree(r.order)
  <2> DEFINE r == [Idle EXCEPT !.pc = "put", !.chosen = s]
  <2>1. disp' = [disp EXCEPT ![d] = Idle] \/ disp' = [disp EXCEPT ![d] = r]
    BY <1>4 DEF Proceed
  <2>2. r.order = Idle.order
    BY DEF Idle
  <2> HIDE DEF r
  <2> QED
    BY <1>1, <2>1, <2>2
<1>5. CASE Inspect(d) \/ InspectError(d)
  <2>1. PICK active : Inspected(d, active)
    BY <1>5 DEF Inspect, InspectError
  <2> DEFINE c == disp[d]
             j == Asked(d)
             v == IF active THEN c.active[TenantOf[j]] + 1 ELSE c.active[TenantOf[j]]
             z == IF active THEN c.seen \cup {j} ELSE c.seen
             r == [c EXCEPT !.rest = @ \ {j}, !.active[TenantOf[j]] = v, !.seen = z]
  <2>2. IF r.rest # {} THEN disp' = [disp EXCEPT ![d] = r]
        ELSE Proceed(d, Choose(Found(d) \ r.seen, r.order, r.active, Limit, PerTenant))
    BY <2>1 DEF Inspected
  <2> HIDE DEF j, v, z
  <2>3. r.order = disp[d].order
    BY <1>1 DEF Dispatch
  <2> HIDE DEF r
  <2>4. CASE r.rest # {}
    BY <1>1, <2>2, <2>3, <2>4
  <2>5. CASE r.rest = {}
    BY <1>4, <2>2, <2>5
  <2> QED
    BY <2>4, <2>5
<1>6. CASE Put(d)
  BY <1>4, <1>6 DEF Put
<1>7. CASE DispatchDies(d)
  BY <1>1, <1>7 DEF DispatchDies
<1> QED
  BY <1>2, <1>3, <1>5, <1>6, <1>7 DEF RunStep

\* The round robin is fair: whatever a dispatch has read, and whatever ARQ has said
\* of it, _choose_fair_jobs serves the tenants in the order of the reference.
THEOREM TheChoiceIsFair == Spec => []ChoiceIsFair
<1>1. Init => ReadsAreTieFree
  BY DEF Init, Idle, ReadsAreTieFree, TieFree
<1>2. TypeInv /\ ReadsAreTieFree /\ [Next]_vars => ReadsAreTieFree'
  <2> SUFFICES ASSUME TypeInv, ReadsAreTieFree, [Next]_vars
               PROVE  ReadsAreTieFree'
    OBVIOUS
  <2>1. ASSUME NEW d \in Dispatchers, RunStep(d)
        PROVE  ReadsAreTieFree'
    <3>1. PICK r : disp' = [disp EXCEPT ![d] = r] /\ TieFree(r.order)
      BY <2>1, ReadIsTieFree
    <3>2. \A e \in Dispatchers : disp'[e] = IF e = d THEN r ELSE disp[e]
      BY <3>1 DEF TypeInv, RunsInv
    <3> QED
      BY <3>1, <3>2 DEF ReadsAreTieFree, TieFree
  <2>2. ASSUME NEW j \in Jobs, JobStep(j)
        PROVE  ReadsAreTieFree'
    <3>1. UNCHANGED disp
      BY <2>2, JobStepOthers
    <3> QED
      BY <3>1 DEF ReadsAreTieFree, TieFree
  <2>3. CASE UNCHANGED vars
    BY <2>3 DEF vars, ReadsAreTieFree, TieFree
  <2> QED
    BY <2>1, <2>2, <2>3, NextCases
<1>3. TypeInv /\ ReadsAreTieFree => ChoiceIsFair
  <2> SUFFICES ASSUME TypeInv, ReadsAreTieFree, NEW d \in Dispatchers,
                      NEW limit \in 1 .. Limit, NEW perTenant \in 1 .. PerTenant + 1
               PROVE  FairChoice(Choose(Found(d) \ disp[d].seen, disp[d].order, disp[d].active,
                                        limit, perTenant),
                                 Found(d) \ disp[d].seen, disp[d].order, disp[d].active,
                                 limit, perTenant)
    BY DEF ChoiceIsFair
  <2> DEFINE rows == Found(d) \ disp[d].seen
             order == disp[d].order
             active == disp[d].active
  <2>1. order \in [Jobs -> Nat] /\ active \in [Tenants -> Nat]
    BY DEF TypeInv, RunsInv, Dispatch
  <2>2. rows \in SUBSET Jobs
    BY DEF Found
  <2>3. Distinct(rows, order)
    BY DEF Distinct, ReadsAreTieFree, TieFree, Found
  <2>4. limit \in Nat /\ perTenant \in Nat
    BY SettingsAssumption
  <2> HIDE DEF rows, order, active
  <2>5. FairChoice(Choose(rows, order, active, limit, perTenant),
                   rows, order, active, limit, perTenant)
    BY <2>1, <2>2, <2>3, <2>4, RoundRobinIsFair
  <2> QED
    BY <2>5 DEF rows, order, active
<1> QED
  BY <1>1, <1>2, <1>3, TypeInvariant, PTL DEF Spec

=============================================================================
