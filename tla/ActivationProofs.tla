-------------------------- MODULE ActivationProofs --------------------------
(***************************************************************************)
(* Proofs about ActivationClosure, for every grid, routing and set of      *)
(* locked tiles: when the multi-pass loop stops, what it has activated is  *)
(* the least closed set, so it implements LeastActivation.                 *)
(***************************************************************************)
EXTENDS ActivationClosure, TLAPS

\* What a pass that has activated nothing so far has already established.
Swept ==
  (pc = "scan" /\ ~changed) =>
    \A t \in active \cap locked : t < cursor => Children(net, t) \subseteq active

\* Once the flag stays down over a whole pass the set is closed.
Settled ==
  (pc \in {"test", "done"} /\ ~changed) => Closed(net, locked, active)

DoneUnchanged == pc = "done" => ~changed

IInv ==
  /\ TypeOK
  /\ net.busR \subseteq active
  /\ NothingExtra
  /\ Swept
  /\ Settled
  /\ DoneUnchanged

-----------------------------------------------------------------------------
\* A child is always a tile of the field, whatever the routing says: this is
\* what the edge guards of the activation loop are for.
LEMMA ChildrenInField ==
  ASSUME NEW c, NEW t
  PROVE  Children(c, t) \subseteq Field(c)
BY DEF Children, HasChild

\* A closed set contains the children of each of its locked members.
LEMMA ClosedStep ==
  ASSUME NEW c, NEW L, NEW S, Closed(c, L, S), NEW t \in S, t \in L
  PROVE  Children(c, t) \subseteq S
BY DEF Closed

\* A closed part of the field that lies inside every closed set is the
\* least one.
LEMMA LeastIsActiveSet ==
  ASSUME NEW c, NEW L, NEW A \in SUBSET Field(c), Closed(c, L, A),
         \A S \in SUBSET Field(c) : Closed(c, L, S) => A \subseteq S
  PROVE  A = ActiveSet(c, L)
<1>1. A \subseteq ActiveSet(c, L)
  BY DEF ActiveSet
<1>2. ActiveSet(c, L) \subseteq A
  BY DEF ActiveSet
<1>3. QED
  BY <1>1, <1>2

-----------------------------------------------------------------------------
\* The loop starts from the BUS_R tiles, which lie in every closed set.
LEMMA InitIInv == Init => IInv
<1> SUFFICES ASSUME Init PROVE IInv
  OBVIOUS
<1>1. /\ net.n \in Nat \ {0}
      /\ net.busR \in SUBSET Field(net)
  BY NetsAssumption DEF Init
<1>2. TypeOK
  BY <1>1 DEF Init, TypeOK
<1>3. NothingExtra
  BY <1>1 DEF Init, NothingExtra, Closed
<1>4. QED
  BY <1>2, <1>3 DEF Init, IInv, Swept, Settled, DoneUnchanged

\* Each step of the loop preserves the invariant.
LEMMA NextIInv == IInv /\ [Next]_vars => IInv'
<1> SUFFICES ASSUME IInv, [Next]_vars PROVE IInv'
  OBVIOUS
<1> USE DEF IInv
<1>n. /\ net.n \in Nat \ {0}
      /\ net.busR \in SUBSET Field(net)
  BY NetsAssumption DEF TypeOK
<1>1. CASE StartPass
  <2>1. TypeOK'
    <3>1. 0 \in 0 .. net.n
      BY <1>n
    <3>2. QED
      BY <1>1, <3>1 DEF StartPass, TypeOK, Field
  <2>2. NothingExtra' /\ (net.busR \subseteq active)'
    BY <1>1 DEF StartPass, NothingExtra, Closed
  <2>3. Swept'
    <3> SUFFICES ASSUME NEW t \in active', t < cursor' PROVE FALSE
      BY DEF Swept
    <3>1. t \in 0 .. net.n - 1 /\ t < 0
      BY <1>1 DEF StartPass, TypeOK, Field
    <3>2. QED
      BY <3>1, <1>n
  <2>4. QED
    BY <1>1, <2>1, <2>2, <2>3 DEF StartPass, Settled, DoneUnchanged
<1>2. CASE Visit
  <2> DEFINE C == Children(net, cursor)
  <2>1. C \subseteq Field(net)
    BY ChildrenInField
  <2>2. cursor \in Field(net)
    BY <1>2, <1>n DEF Visit, TypeOK, Field
  <2>3. TypeOK'
    BY <1>2, <1>n, <2>1 DEF Visit, TypeOK, Activated
  <2>4. NothingExtra'
    <3> SUFFICES ASSUME NEW S \in SUBSET Field(net), Closed(net, locked, S)
                 PROVE  active' \subseteq S
      BY <1>2 DEF Visit, NothingExtra, Closed
    <3>1. active \subseteq S
      BY DEF NothingExtra
    <3>2. Activated(cursor) \subseteq S
      BY <3>1, ClosedStep DEF Activated
    <3>3. QED
      BY <1>2, <3>1, <3>2 DEF Visit
  <2>5. Swept'
    <3> SUFFICES ASSUME ~changed', NEW t \in active' \cap locked', t < cursor'
                 PROVE  Children(net, t)' \subseteq active'
      BY DEF Swept
    <3>1. /\ active' = active /\ ~changed
          /\ Activated(cursor) \subseteq active
          /\ net' = net /\ locked' = locked /\ cursor' = cursor + 1
          /\ pc = "scan"
      BY <1>2 DEF Visit
    <3>2. CASE t < cursor
      BY <3>1, <3>2 DEF Swept, Children, HasChild, Neighbour, Field
    <3>3. CASE t = cursor
      BY <3>1, <3>3 DEF Activated, Children, HasChild, Neighbour, Field
    <3>4. t < cursor \/ t = cursor
      BY <3>1 DEF TypeOK, Field
    <3>5. QED
      BY <3>2, <3>3, <3>4
  <2>6. QED
    BY <1>2, <2>3, <2>4, <2>5 DEF Visit, Settled, DoneUnchanged
<1>3. CASE EndPass
  <2>1. Settled'
    <3> SUFFICES ASSUME ~changed PROVE Closed(net, locked, active)
      BY <1>3 DEF EndPass, Settled, Closed, Children, HasChild, Neighbour, Field
    <3>1. \A t \in active \cap locked : t < cursor
      BY <1>3, <1>n DEF EndPass, TypeOK, Field
    <3>2. QED
      BY <1>3, <3>1 DEF EndPass, Swept, Closed
  <2>2. QED
    BY <1>3, <2>1 DEF EndPass, TypeOK, NothingExtra, Closed, Swept, DoneUnchanged
<1>4. CASE Finish
  <2>1. Closed(net, locked, active)
    BY <1>4 DEF Finish, Settled
  <2>2. Settled'
    BY <1>4, <2>1 DEF Finish, Settled, Closed, Children, HasChild, Neighbour, Field
  <2>3. QED
    BY <1>4, <2>2 DEF Finish, TypeOK, NothingExtra, Closed, Swept, DoneUnchanged
<1>5. CASE UNCHANGED vars
  BY <1>5 DEF vars, TypeOK, NothingExtra, Swept, Settled, DoneUnchanged,
              Closed, Children, HasChild, Neighbour, Field
<1>6. QED
  BY <1>1, <1>2, <1>3, <1>4, <1>5 DEF Next

LEMMA AlwaysIInv == Spec => []IInv
BY InitIInv, NextIInv, PTL DEF Spec

\* The loop variables keep their types on every net.
THEOREM TypeCorrect == Spec => []TypeOK
<1>1. IInv => TypeOK
  BY DEF IInv
<1>2. QED
  BY AlwaysIInv, <1>1, PTL

\* No pass ever activates a tile that some closed set leaves out.
THEOREM ActivatesNothingExtra == Spec => []NothingExtra
<1>1. IInv => NothingExtra
  BY DEF IInv
<1>2. QED
  BY AlwaysIInv, <1>1, PTL

\* The loop cannot stop with an active locked tile whose child is inactive.
THEOREM ActivatesNothingMissing == Spec => []NothingMissing
<1>1. IInv => NothingMissing
  BY DEF IInv, NothingMissing, Settled, DoneUnchanged
<1>2. QED
  BY AlwaysIInv, <1>1, PTL

-----------------------------------------------------------------------------
\* Refinement: the last step of the loop yields the least fixed point of
\* docs/CONTRACT_v02.md 6.1, every other step is invisible.
THEOREM LoopImplementsLeast == Spec => ImplementsLeast
<1>1. Init => Least!Init
  BY DEF Init, Least!Init, Field, Least!Field
<1>2. IInv /\ [Next]_vars => [Least!Activate]_(Least!vars)
  <2> SUFFICES ASSUME IInv, [Next]_vars
               PROVE  [Least!Activate]_(Least!vars)
    OBVIOUS
  <2>1. CASE Finish
    <3>1. active = ActiveSet(net, locked)
      BY <2>1, LeastIsActiveSet
      DEF Finish, IInv, TypeOK, Settled, NothingExtra
    <3>2. QED
      BY <2>1, <3>1 DEF Finish, Least!Activate, Least!ActiveSet, Least!Closed,
        Least!Children, Least!HasChild, Least!Field, Least!Neighbour,
        Least!DX, Least!DY, Least!East, Least!West, Least!North, Least!South,
        ActiveSet, Closed, Children, HasChild, Field, Neighbour,
        DX, DY, East, West, North, South
  <2>2. CASE StartPass
    BY <2>2 DEF StartPass, Least!vars
  <2>3. CASE Visit
    BY <2>3 DEF Visit, Least!vars
  <2>4. CASE EndPass
    BY <2>4 DEF EndPass, Least!vars
  <2>5. CASE UNCHANGED vars
    BY <2>5 DEF vars, Least!vars
  <2>6. QED
    BY <2>1, <2>2, <2>3, <2>4, <2>5 DEF Next
<1>3. QED
  BY <1>1, <1>2, AlwaysIInv, PTL DEF Spec, ImplementsLeast, Least!Spec
-----------------------------------------------------------------------------
(* Two sets of edge guards                                                 *)

\* A tile lies in its row.
LEMMA Place ==
  ASSUME NEW w \in Nat \ {0}, NEW a \in Int
  PROVE  /\ a % w \in 0 .. w - 1
         /\ \E q \in Int : a = w * q + (a % w)
<1>1. a = w * (a \div w) + (a % w) /\ a \div w \in Int /\ a % w \in 0 .. w - 1
  OBVIOUS
<1>2. QED
  BY <1>1

\* And in one column of it.
LEMMA Column ==
  ASSUME NEW w \in Nat \ {0}, NEW q \in Int, NEW x \in 0 .. w - 1
  PROVE  (w * q + x) % w = x
<1> DEFINE a == w * q + x
           y == a % w
<1>1. a \in Int
  OBVIOUS
<1>2. PICK p \in Int : a = w * p + y
  BY <1>1, Place
<1>3. y \in 0 .. w - 1
  BY <1>1, Place
<1> HIDE DEF y
<1>4. w * (q - p) = y - x
  BY <1>2, <1>3
<1>5. CASE q - p >= 1
  <2>1. w * (q - p) >= w * 1
    BY <1>5
  <2>2. QED
    BY <1>3, <1>4, <2>1
<1>6. CASE q - p <= -1
  <2>1. w * (q - p) <= w * (-1)
    BY <1>6
  <2>2. QED
    BY <1>3, <1>4, <2>1
<1>7. CASE q - p = 0
  <2>1. y = x
    BY <1>3, <1>4, <1>7
  <2>2. QED
    BY <2>1 DEF y, a
<1>8. QED
  BY <1>5, <1>6, <1>7

Step == {-1, 0, 1}

LEMMA DirSteps ==
  ASSUME NEW d \in Dirs
  PROVE  /\ DX(d) \in Step /\ DY(d) \in Step
         /\ Opposite[d] \in Dirs /\ Opposite[Opposite[d]] = d
         /\ DX(Opposite[d]) = -DX(d) /\ DY(Opposite[d]) = -DY(d)
         /\ North(d) <=> DY(d) = -1
         /\ South(d) <=> DY(d) = 1
         /\ West(d) <=> DX(d) = -1
         /\ East(d) <=> DX(d) = 1
BY DEF Dirs, DX, DY, Step, Opposite, North, South, East, West

\* A step from column x of row q changes row and column as it says.
MovesAsItSays(w, q, x, dx, dy) ==
  /\ (w * q + x) + dx + w * dy = w * (q + dy) + (x + dx)
  /\ ((w * q + x) + dx + w * dy) % w = x + dx

LEMMA Moves ==
  ASSUME NEW w \in Nat \ {0}, NEW q \in Int, NEW x \in 0 .. w - 1,
         NEW dx \in Step, NEW dy \in Step, x + dx \in 0 .. w - 1
  PROVE  MovesAsItSays(w, q, x, dx, dy)
<1>1. w * (q + dy) = w * q + w * dy /\ q + dy \in Int /\ w * q \in Int /\ w * dy \in Int
  BY DEF Step
<1>2. (w * q + x) + dx + w * dy = w * (q + dy) + (x + dx)
  BY <1>1 DEF Step
<1>3. ((w * q + x) + dx + w * dy) % w = x + dx
  BY <1>1, <1>2, Column
<1>4. QED
  BY <1>2, <1>3 DEF MovesAsItSays

\* On a field without a partial row, t leads to u exactly when u sees t.
LEMMA SeenByChild ==
  ASSUME NEW c, c.n \in Nat \ {0}, c.w \in Nat \ {0}, c.n % c.w = 0,
         NEW d \in Dirs, NEW t \in Field(c), HasChild(c, d, t)
  PROVE  LET u == Neighbour(c, d, t)
             e == Opposite[d]
         IN  Neighbour(c, e, u) = t /\ SeesNeighbour(c, e, u)
<1> DEFINE w == c.w
           n == c.n
           x == t % w
           dx == DX(d)
           dy == DY(d)
           u == Neighbour(c, d, t)
           e == Opposite[d]
<1>1. w \in Nat \ {0} /\ n \in Nat \ {0} /\ n % w = 0 /\ t \in 0 .. n - 1 /\ t \in Nat
  BY DEF Field
<1>2. /\ dx \in Step /\ dy \in Step /\ DX(e) = -dx /\ DY(e) = -dy /\ e \in Dirs
      /\ North(e) <=> dy = 1
      /\ South(e) <=> dy = -1
      /\ West(e) <=> dx = 1
      /\ East(e) <=> dx = -1
  BY DirSteps DEF Step
<1>3. x + dx \in 0 .. w - 1 /\ u \in 0 .. n - 1 /\ u = t + dx + w * dy
  BY DEF HasChild, Field, Neighbour
<1>4. x \in 0 .. w - 1 /\ \E q \in Int : t = w * q + x
  <2> HIDE DEF w, n
  <2>1. w \in Nat \ {0} /\ t \in Int
    BY <1>1
  <2>2. t % w \in 0 .. w - 1 /\ \E q \in Int : t = w * q + (t % w)
    BY <2>1, Place, Zenon
  <2>3. QED
    BY <2>2
<1>5. \E m \in Int : n = w * m + (n % w)
  <2> HIDE DEF w, n
  <2>1. w \in Nat \ {0} /\ n \in Int
    BY <1>1
  <2>2. QED
    BY <2>1, Place, Zenon
<1>6. Neighbour(c, e, u) = u - dx - w * dy
  BY <1>1, <1>2 DEF Neighbour, Step
<1> HIDE DEF u, x, dx, dy, e, w, n
<1>7. PICK q \in Int : t = w * q + x
  BY <1>4
<1>8. PICK m \in Int : n = w * m
  BY <1>1, <1>5
<1>9. u = w * (q + dy) + (x + dx) /\ u % w = x + dx
  <2>0. /\ w \in Nat \ {0} /\ q \in Int /\ x \in 0 .. w - 1
        /\ dx \in Step /\ dy \in Step /\ x + dx \in 0 .. w - 1
    BY <1>1, <1>2, <1>3, <1>4, <1>7
  <2>1. MovesAsItSays(w, q, x, dx, dy)
    BY <2>0, Moves
  <2>2. u = (w * q + x) + dx + w * dy
    BY <1>3, <1>7
  <2>3. QED
    BY <2>1, <2>2 DEF MovesAsItSays
<1>10. w * dy \in Int /\ w * q \in Int /\ w * m \in Int /\ q + dy \in Int /\ w * (q + dy) \in Int
       /\ w * (q + dy) = w * q + w * dy
  BY <1>1, <1>2 DEF Step
<1>11. Neighbour(c, e, u) = t
  BY <1>1, <1>2, <1>3, <1>6, <1>10 DEF Step
<1>12. ASSUME NEW a \in Int, NEW y \in 0 .. w - 1, w * a + y < n
       PROVE  w * a + w <= n
  <2>1. a < m
    <3> SUFFICES ASSUME a >= m PROVE FALSE
      OBVIOUS
    <3>1. w * a >= w * m
      BY <1>1
    <3>2. QED
      BY <1>1, <1>8, <1>10, <1>12, <3>1
  <2>2. w * m >= w * (a + 1) /\ w * (a + 1) = w * a + w
    BY <1>1, <2>1
  <2>3. QED
    BY <1>8, <2>2
<1>13. w * q + w <= n /\ w * (q + dy) + w <= n
  <2>1. w * q + w <= n
    <3>1. w * q + x < n
      BY <1>1, <1>7
    <3>2. QED
      BY <1>4, <1>12, <3>1
  <2>2. w * (q + dy) + w <= n
    <3>1. w * (q + dy) + (x + dx) < n
      BY <1>1, <1>3, <1>9
    <3>2. QED
      BY <1>3, <1>10, <1>12, <3>1
  <2>3. QED
    BY <2>1, <2>2
<1>14. /\ North(e) => u >= w
       /\ South(e) => u + w < n
  <2>1. ASSUME dy = 1 PROVE u >= w
    <3>1. u = t + dx + w /\ t + dx >= 0
      <4>1. w * dy = w
        BY <1>1, <2>1
      <4>2. w * q >= 0
        <5>1. q >= 0
          <6> SUFFICES ASSUME q <= -1 PROVE FALSE
            OBVIOUS
          <6>1. w * q <= w * (-1)
            BY <1>1
          <6>2. QED
            BY <1>1, <1>4, <1>7, <1>10, <6>1
        <5>2. QED
          BY <1>1, <5>1
      <4>3. QED
        BY <1>1, <1>2, <1>3, <1>4, <1>7, <1>10, <4>1, <4>2 DEF Step
    <3>2. QED
      BY <1>1, <1>2, <3>1 DEF Step
  <2>2. ASSUME dy = -1 PROVE u + w < n
    <3>1. u + w = w * q + (x + dx)
      <4>1. w * dy = -w
        BY <1>1, <2>2
      <4>2. QED
        BY <1>1, <1>2, <1>4, <1>9, <1>10, <4>1 DEF Step
    <3>2. QED
      BY <1>1, <1>2, <1>3, <1>4, <1>10, <1>13, <3>1 DEF Step
  <2>3. QED
    BY <1>2, <2>1, <2>2
<1>15. /\ West(e) => u % w > 0
       /\ East(e) => (u % w) + 1 < w /\ u + 1 < n
  <2>1. ASSUME dx = 1 PROVE u % w > 0
    BY <1>4, <1>9, <2>1
  <2>2. ASSUME dx = -1 PROVE (u % w) + 1 < w /\ u + 1 < n
    BY SMTT(30), <1>1, <1>4, <1>9, <1>10, <1>13, <2>2
  <2>3. QED
    BY <1>2, <2>1, <2>2
<1>16. Neighbour(c, e, u) < n
  BY <1>1, <1>11
<1>17. QED
  BY <1>11, <1>14, <1>15, <1>16 DEF SeesNeighbour, u, e, n, w

\* Whoever sees a neighbour is led to by it, on every field.
LEMMA LedToBySeen ==
  ASSUME NEW c, c.n \in Nat \ {0}, c.w \in Nat \ {0},
         NEW e \in Dirs, NEW u \in Field(c), SeesNeighbour(c, e, u)
  PROVE  LET t == Neighbour(c, e, u)
             d == Opposite[e]
         IN  t \in Field(c) /\ HasChild(c, d, t) /\ Neighbour(c, d, t) = u
<1> DEFINE w == c.w
           n == c.n
           y == u % w
           ex == DX(e)
           ey == DY(e)
           t == Neighbour(c, e, u)
           d == Opposite[e]
<1>1. w \in Nat \ {0} /\ n \in Nat \ {0} /\ u \in 0 .. n - 1 /\ u \in Nat
  BY DEF Field
<1>2. ex \in Step /\ ey \in Step /\ DX(d) = -ex /\ DY(d) = -ey /\ d \in Dirs
  BY DirSteps DEF Step
<1>3. /\ ey = -1 => u >= w
      /\ ex = -1 => y > 0
      /\ ex = 1 => y + 1 < w
      /\ t < n /\ t = u + ex + w * ey
  BY DirSteps DEF SeesNeighbour, Neighbour
<1>4. y \in 0 .. w - 1 /\ \E q \in Int : u = w * q + y
  <2> HIDE DEF w, n
  <2>1. w \in Nat \ {0} /\ u \in Int
    BY <1>1
  <2>2. u % w \in 0 .. w - 1 /\ \E q \in Int : u = w * q + (u % w)
    BY <2>1, Place, Zenon
  <2>3. QED
    BY <2>2
<1>5. Neighbour(c, d, t) = t - ex - w * ey
  BY <1>1, <1>2 DEF Neighbour, Step
<1> HIDE DEF t, y, ex, ey, d, w, n
<1>6. PICK q \in Int : u = w * q + y
  BY <1>4
<1>7. y + ex \in 0 .. w - 1
  BY <1>1, <1>2, <1>3, <1>4 DEF Step
<1>8. t = w * (q + ey) + (y + ex) /\ t % w = y + ex
  <2>0. /\ w \in Nat \ {0} /\ q \in Int /\ y \in 0 .. w - 1
        /\ ex \in Step /\ ey \in Step /\ y + ex \in 0 .. w - 1
    BY <1>1, <1>2, <1>4, <1>6, <1>7
  <2>1. MovesAsItSays(w, q, y, ex, ey)
    BY <2>0, Moves
  <2>2. t = (w * q + y) + ex + w * ey
    BY <1>3, <1>6
  <2>3. QED
    BY <2>1, <2>2 DEF MovesAsItSays
<1>9. w * ey \in Int /\ w * q \in Int /\ q + ey \in Int /\ w * (q + ey) \in Int
       /\ w * (q + ey) = w * q + w * ey
  BY <1>1, <1>2 DEF Step
<1>10. Neighbour(c, d, t) = u
  BY <1>1, <1>2, <1>3, <1>5, <1>9 DEF Step
<1>11. q >= 0
  <2> SUFFICES ASSUME q <= -1 PROVE FALSE
    OBVIOUS
  <2>1. w * q <= w * (-1)
    BY <1>1
  <2>2. QED
    BY <1>1, <1>4, <1>6, <1>9, <2>1
<1>12. q + ey >= 0
  <2> SUFFICES ASSUME q = 0, ey = -1 PROVE FALSE
    BY <1>2, <1>11 DEF Step
  <2>1. w * q = 0
    BY <1>1
  <2>2. QED
    BY <1>1, <1>3, <1>4, <1>6, <2>1
<1>13. w * (q + ey) >= 0
  BY <1>1, <1>9, <1>12
<1>14. t \in 0 .. n - 1
  BY <1>1, <1>3, <1>7, <1>8, <1>9, <1>13
<1>15. (t % w) + DX(d) \in 0 .. w - 1
  BY <1>1, <1>2, <1>4, <1>8 DEF Step
<1>16. QED
  BY <1>1, <1>10, <1>14, <1>15 DEF HasChild, Field, t, d, w, n

\* A tile of the field is a child of t exactly when t is one of those that let
\* it write.
LEMMA ChildrenSeeParents ==
  ASSUME NEW c, c.n \in Nat \ {0}, c.w \in Nat \ {0}, c.n % c.w = 0,
         c.mask \in [Field(c) -> SUBSET Dirs], NEW t \in Field(c), NEW u \in Field(c)
  PROVE  u \in Children(c, t) <=> t \in WriteParents(c, u)
<1>1. ASSUME u \in Children(c, t) PROVE t \in WriteParents(c, u)
  <2>1. PICK d \in c.mask[t] : HasChild(c, d, t) /\ u = Neighbour(c, d, t)
    BY <1>1 DEF Children
  <2>2. d \in Dirs
    OBVIOUS
  <2> DEFINE e == Opposite[d]
  <2>3. Neighbour(c, e, u) = t /\ SeesNeighbour(c, e, u)
    BY <2>1, <2>2, SeenByChild
  <2>4. e \in Dirs /\ Opposite[e] = d
    BY <2>2, DirSteps
  <2> HIDE DEF e
  <2>5. QED
    BY <2>1, <2>3, <2>4 DEF WriteParents
<1>2. ASSUME t \in WriteParents(c, u) PROVE u \in Children(c, t)
  <2>1. PICK e \in Dirs : /\ SeesNeighbour(c, e, u) /\ t = Neighbour(c, e, u)
                          /\ Opposite[e] \in c.mask[Neighbour(c, e, u)]
    BY <1>2 DEF WriteParents
  <2> DEFINE d == Opposite[e]
  <2>2. HasChild(c, d, t) /\ Neighbour(c, d, t) = u /\ d \in c.mask[t]
    BY <2>1, LedToBySeen
  <2> HIDE DEF d
  <2>3. QED
    BY <2>2 DEF Children
<1>3. QED
  BY <1>1, <1>2

LEMMA ParentsInField ==
  ASSUME NEW c, c.n \in Nat \ {0}, c.w \in Nat \ {0}, NEW u \in Field(c)
  PROVE  WriteParents(c, u) \subseteq Field(c)
BY LedToBySeen DEF WriteParents

LEMMA DoneIsFed == IInv => ActiveMeansFed
<1> DEFINE Fed == {u \in Field(net) : WriteParents(net, u) \cap active \cap locked # {}}
<1> SUFFICES ASSUME IInv, pc = "done", net.n % net.w = 0
             PROVE  active = net.busR \cup Fed
  BY DEF ActiveMeansFed
<1>1. /\ net.n \in Nat \ {0} /\ net.w \in Nat \ {0} /\ net.mask \in [Field(net) -> SUBSET Dirs]
      /\ net.busR \in SUBSET Field(net)
  BY NetsAssumption DEF IInv, TypeOK
<1>2. Closed(net, locked, active) /\ active \in SUBSET Field(net) /\ net.busR \subseteq active
  BY DEF IInv, Settled, DoneUnchanged, TypeOK
<1>3. ASSUME NEW t \in Field(net), NEW u \in Field(net)
      PROVE  u \in Children(net, t) <=> t \in WriteParents(net, u)
  BY <1>1, ChildrenSeeParents
<1>4. Fed \subseteq active
  <2> SUFFICES ASSUME NEW u \in Field(net), NEW t \in WriteParents(net, u) \cap active \cap locked
               PROVE  u \in active
    OBVIOUS
  <2>1. Children(net, t) \subseteq active
    BY <1>2, ClosedStep
  <2>2. QED
    BY <1>2, <1>3, <2>1
<1> DEFINE S == active \cap (net.busR \cup Fed)
<1>5. Closed(net, locked, S)
  <2>1. net.busR \cap Field(net) \subseteq S
    BY <1>2
  <2>2. ASSUME NEW t \in S \cap locked, NEW u \in Children(net, t) PROVE u \in S
    <3>1. Children(net, t) \subseteq active /\ t \in active \cap locked
      BY <1>2, <2>2, ClosedStep
    <3>2. u \in active /\ u \in Field(net) /\ t \in Field(net)
      BY <1>2, <2>2, <3>1
    <3>3. t \in WriteParents(net, u)
      BY <1>3, <2>2, <3>2
    <3>4. QED
      BY <3>1, <3>2, <3>3
  <2> HIDE DEF S
  <2>3. QED
    BY <2>1, <2>2 DEF Closed
<1>6. active \subseteq S
  <2>1. S \in SUBSET Field(net)
    BY <1>2
  <2> HIDE DEF S
  <2>2. QED
    BY <1>5, <2>1 DEF IInv, NothingExtra
<1>7. QED
  BY <1>2, <1>4, <1>6

\* The loop of the flash and has_locked_write_source agree, on every field
\* without a partial row, about who leads to whom: the edge guards of the one
\* are those of the other, and what the loop has activated is what is fed.
THEOREM ActivatedIsFed == Spec => []ActiveMeansFed
BY DoneIsFed, AlwaysIInv, PTL
=============================================================================
