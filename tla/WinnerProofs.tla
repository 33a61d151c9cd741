---------------------------- MODULE WinnerProofs ----------------------------
(***************************************************************************)
(* Proofs about WinnerScan, for every number of tiles, every set of        *)
(* domains and every choice of parameters: the one-pass election is the    *)
(* arg-max of docs/CONTRACT_v02.md section 10, and the counters count.     *)
(***************************************************************************)
EXTENDS WinnerScan, FiniteSetTheorems, TLAPS

\* Two tiles cannot both beat all others: the order is strict.
LEMMA UniqueWinner ==
  ASSUME NEW q, NEW F \in SUBSET Tiles, \A t \in Tiles : q[t].prio \in Nat,
         NEW d, NEW t \in F, NEW u \in F,
         IsWinner(q, F, d, t), IsWinner(q, F, d, u)
  PROVE  t = u
<1> SUFFICES ASSUME t # u PROVE FALSE
  OBVIOUS
<1>1. Beats(q, t, u) /\ Beats(q, u, t)
  BY DEF IsWinner
<1>2. t \in Int /\ u \in Int /\ q[t].prio \in Int /\ q[u].prio \in Int
  BY CountAssumption DEF Tiles
<1>3. QED
  BY <1>1, <1>2 DEF Beats

LEMMA WinnerIs ==
  ASSUME NEW q, NEW F \in SUBSET Tiles, \A t \in Tiles : q[t].prio \in Nat,
         NEW d, NEW t \in F, IsWinner(q, F, d, t)
  PROVE  Winner(q, F, d) = t
BY UniqueWinner DEF Winner

\* A domain without contenders has no winner.
LEMMA NobodyWins ==
  ASSUME NEW q, NEW F, NEW d, Contenders(q, F, d) = {}
  PROVE  Winner(q, F, d) = NoTile
BY DEF Winner, IsWinner

-----------------------------------------------------------------------------
\* What the scan has established for domain d.
Holds(d) ==
  \/ winner[d] = NoTile /\ Contenders(par, Passed, d) = {}
  \/ winner[d] \in Passed /\ IsWinner(par, Passed, d, winner[d])

IInv ==
  /\ TypeOK
  /\ \A d \in Domains : Holds(d)
  /\ RunningCount

LEMMA ContendersFinite ==
  ASSUME NEW q, NEW F \in SUBSET Tiles, NEW d
  PROVE  IsFiniteSet(Contenders(q, F, d))
<1>1. IsFiniteSet(Tiles)
  BY FS_Interval, CountAssumption DEF Tiles
<1>2. QED
  BY <1>1, FS_Subset DEF Contenders

LEMMA InitIInv == Init => IInv
<1> SUFFICES ASSUME Init PROVE IInv
  OBVIOUS
<1>1. TypeOK
  BY CountAssumption DEF Init, TypeOK
<1>2. \A d \in Domains : Contenders(par, Passed, d) = {}
  <2>1. \A t \in Tiles : ~(t < 0)
    BY CountAssumption DEF Tiles
  <2>2. Passed = {}
    BY <2>1 DEF Init, Passed
  <2>3. QED
    BY <2>2 DEF Contenders
<1>3. \A d \in Domains : Cardinality(Contenders(par, Passed, d)) = 0
  BY <1>2, FS_EmptySet
<1>4. RunningCount
  BY <1>3 DEF Init, RunningCount, Collisions
<1>5. QED
  BY <1>1, <1>2, <1>4 DEF Init, IInv, Holds

\* A tile that takes no part changes no domain's contenders.
LEMMA SkipIInv ==
  ASSUME IInv, Skip
  PROVE  IInv'
<1>1. \A d \in Domains : Contenders(par, Passed', d) = Contenders(par, Passed, d)
  <2> SUFFICES ASSUME NEW d \in Domains, NEW t
               PROVE t \in Contenders(par, Passed', d) <=> t \in Contenders(par, Passed, d)
    OBVIOUS
  <2>1. t \in fire => t \in Int /\ cursor \in Int /\ (t < cursor + 1 <=> t < cursor \/ t = cursor)
    BY CountAssumption DEF IInv, TypeOK, Tiles
  <2>2. QED
    BY <2>1 DEF Skip, Contenders, Passed
<1>2. TypeOK'
  BY CountAssumption DEF Skip, IInv, TypeOK
<1>3. \A d \in Domains : Holds(d)'
  <2> SUFFICES ASSUME NEW d \in Domains PROVE Holds(d)'
    OBVIOUS
  <2>1. Holds(d) /\ winner' = winner /\ par' = par
    BY DEF IInv, Skip
  <2>2. Passed \subseteq Passed'
    <3>1. \A t \in fire : t < cursor => t < cursor + 1
      BY CountAssumption DEF IInv, TypeOK, Tiles
    <3>2. QED
      BY <3>1 DEF Skip, Passed
  <2>3. QED
    BY <1>1, <2>1, <2>2 DEF Holds, IsWinner
<1>4. RunningCount'
  BY <1>1 DEF Skip, IInv, RunningCount, Collisions
<1>5. QED
  BY <1>2, <1>3, <1>4 DEF IInv

\* An elected or rejected contender leaves the arg-max of the longer prefix.
LEMMA ElectIInv ==
  ASSUME IInv, Elect
  PROVE  IInv'
<1> DEFINE e == par[cursor].dom
<1>c. /\ cursor \in Tiles /\ cursor \in fire /\ cursor # NoTile
      /\ e \in Domains /\ par[cursor].pat # 0
      /\ par' = par /\ fire' = fire /\ cursor' = cursor + 1
      /\ fire \subseteq Tiles
      /\ \A t \in Tiles : par[t].prio \in Nat
  BY CountAssumption, FabricsAssumption DEF Elect, IInv, TypeOK, Tiles
<1>p. /\ Passed' = Passed \cup {cursor}
      /\ cursor \notin Passed
      /\ Passed \subseteq Tiles
      /\ \A t \in Passed : t < cursor
  <2>1. \A t \in fire : t < cursor + 1 <=> t < cursor \/ t = cursor
    BY <1>c, CountAssumption DEF Tiles
  <2>2. ~(cursor < cursor)
    BY <1>c, CountAssumption DEF Tiles
  <2>3. QED
    BY <1>c, <2>1, <2>2 DEF Passed
<1>e. /\ Contenders(par, Passed', e) = Contenders(par, Passed, e) \cup {cursor}
      /\ cursor \notin Contenders(par, Passed, e)
  BY <1>c, <1>p DEF Contenders
<1>o. \A d \in Domains \ {e} :
        Contenders(par, Passed', d) = Contenders(par, Passed, d)
  BY <1>c, <1>p DEF Contenders
<1>1. TypeOK'
  BY <1>c, CountAssumption DEF Elect, IInv, TypeOK, Tiles
<1>2. \A d \in Domains : Holds(d)'
  <2> SUFFICES ASSUME NEW d \in Domains PROVE Holds(d)'
    OBVIOUS
  <2>1. Holds(d)
    BY DEF IInv
  <2>2. CASE d # e
    <3>1. winner'[d] = winner[d]
      BY <2>2, <1>c DEF Elect, IInv, TypeOK
    <3>2. QED
      BY <2>1, <2>2, <3>1, <1>o, <1>p, <1>c DEF Holds, IsWinner
  <2>3. CASE d = e /\ Takes(cursor, e)
    <3>1. winner'[e] = cursor
      BY <2>3, <1>c DEF Elect, IInv, TypeOK
    <3>2. ASSUME NEW u \in Contenders(par, Passed, e)
          PROVE  Beats(par, cursor, u)
      <4>1. /\ winner[e] \in Passed
            /\ IsWinner(par, Passed, e, winner[e])
        BY <2>1, <2>3, <3>2 DEF Holds
      <4>2. winner[e] # NoTile
        BY <4>1, <1>p, CountAssumption DEF Tiles
      <4>3. par[cursor].prio > par[winner[e]].prio
        <5>1. ~(cursor < winner[e])
          <6>1. winner[e] < cursor /\ winner[e] \in Tiles
            BY <4>1, <1>p
          <6>2. winner[e] \in Int /\ cursor \in Int
            BY <6>1, <1>c, CountAssumption DEF Tiles
          <6>3. QED
            BY <6>1, <6>2
        <5>2. QED
          BY <2>3, <4>2, <5>1 DEF Takes
      <4>4. u = winner[e] \/ par[winner[e]].prio >= par[u].prio
        <5>1. u # winner[e] => Beats(par, winner[e], u)
          BY <4>1, <3>2 DEF IsWinner
        <5>2. u \in Tiles /\ winner[e] \in Tiles
          BY <4>1, <1>p, <3>2 DEF Contenders
        <5>3. QED
          BY <5>1, <5>2, <1>c DEF Beats
      <4>5. u \in Tiles /\ winner[e] \in Tiles
        BY <4>1, <1>p, <3>2 DEF Contenders
      <4>6. par[cursor].prio > par[u].prio
        BY <4>3, <4>4, <4>5, <1>c
      <4>7. QED
        BY <4>6 DEF Beats
    <3>3. QED
      BY <2>3, <3>1, <3>2, <1>e, <1>p, <1>c DEF Holds, IsWinner
  <2>4. CASE d = e /\ ~Takes(cursor, e)
    <3>1. winner'[e] = winner[e]
      BY <2>4, <1>c DEF Elect
    <3>2. /\ winner[e] \in Passed
          /\ IsWinner(par, Passed, e, winner[e])
      BY <2>1, <2>4 DEF Holds, Takes
    <3>3. Beats(par, winner[e], cursor)
      <4>1. /\ winner[e] \in Tiles /\ winner[e] < cursor
            /\ par[winner[e]].prio \in Nat /\ par[cursor].prio \in Nat
        BY <3>2, <1>p, <1>c
      <4>2. QED
        BY <2>4, <4>1 DEF Takes, Beats
    <3>4. QED
      BY <2>4, <3>1, <3>2, <3>3, <1>e, <1>p, <1>c DEF Holds, IsWinner
  <2>5. QED
    BY <2>2, <2>3, <2>4
<1>3. RunningCount'
  <2>1. IsFiniteSet(Contenders(par, Passed, e))
    BY <1>p, ContendersFinite
  <2>2. Cardinality(Contenders(par, Passed', e)) = Cardinality(Contenders(par, Passed, e)) + 1
    BY <2>1, <1>e, FS_AddElement
  <2>3. cnt[e] = Cardinality(Contenders(par, Passed, e))
    BY <1>c DEF IInv, RunningCount
  <2>4. \A d \in Domains : cnt'[d] = Cardinality(Contenders(par, Passed', d))
    <3> SUFFICES ASSUME NEW d \in Domains
                 PROVE  cnt'[d] = Cardinality(Contenders(par, Passed', d))
      OBVIOUS
    <3>1. CASE d = e
      BY <3>1, <2>2, <2>3, <1>c DEF Elect, IInv, TypeOK
    <3>2. CASE d # e
      <4>1. cnt'[d] = cnt[d]
        BY <3>2, <1>c DEF Elect, IInv, TypeOK
      <4>2. QED
        BY <4>1, <3>2, <1>o DEF IInv, RunningCount
    <3>3. QED
      BY <3>1, <3>2
  <2>5. collide' = Collisions(par, Passed')
    <3>1. \A d \in Domains \ {e} : d \in collide' <=> d \in Collisions(par, Passed')
      BY <1>o, <1>c DEF Elect, IInv, RunningCount, Collisions
    <3>2. e \in collide' <=> e \in Collisions(par, Passed')
      <4>1. cnt[e] \in Nat
        BY <1>c DEF IInv, TypeOK
      <4>2. e \in collide' <=> e \in collide \/ cnt[e] + 1 >= 2
        BY DEF Elect
      <4>3. e \in collide => cnt[e] >= 2
        BY <2>3 DEF IInv, RunningCount, Collisions
      <4>4. e \in Collisions(par, Passed') <=> cnt[e] + 1 >= 2
        BY <2>2, <2>3, <1>c DEF Collisions
      <4>5. QED
        BY <4>1, <4>2, <4>3, <4>4
    <3>3. collide' \subseteq Domains /\ Collisions(par, Passed') \subseteq Domains
      BY <1>1 DEF TypeOK, Collisions
    <3>4. QED
      BY <3>1, <3>2, <3>3
  <2>6. QED
    BY <2>4, <2>5, <1>c DEF RunningCount
<1>4. QED
  BY <1>1, <1>2, <1>3 DEF IInv

LEMMA AlwaysIInv == Spec => []IInv
<1>1. IInv /\ [Next]_vars => IInv'
  <2> SUFFICES ASSUME IInv, [Next]_vars PROVE IInv'
    OBVIOUS
  <2>1. CASE UNCHANGED vars
    BY <2>1 DEF vars, IInv, TypeOK, Holds, RunningCount, Passed, Contenders,
                Collisions, IsWinner, Beats
  <2>2. QED
    BY <2>1, SkipIInv, ElectIInv DEF Next
<1>2. QED
  BY InitIInv, <1>1, PTL DEF Spec

\* The code's running winner is, after every tile, the arg-max of the tiles
\* passed; at the end of the scan it is the winner of the domain.
THEOREM ScanElectsArgMax == Spec => []RunningWinner
<1>1. IInv => RunningWinner
  <2> SUFFICES ASSUME IInv, NEW d \in Domains
               PROVE  winner[d] = Winner(par, Passed, d)
    BY DEF RunningWinner
  <2>1. Holds(d)
    BY DEF IInv
  <2>2. /\ Passed \in SUBSET Tiles
        /\ \A t \in Tiles : par[t].prio \in Nat
    BY FabricsAssumption DEF IInv, TypeOK, Passed
  <2>3. QED
    BY <2>1, <2>2, WinnerIs, NobodyWins DEF Holds
<1>2. QED
  BY AlwaysIInv, <1>1, PTL

\* A domain is reported as colliding exactly when two of its tiles fired.
THEOREM ScanCountsContenders == Spec => []RunningCount
<1>1. IInv => RunningCount
  BY DEF IInv
<1>2. QED
  BY AlwaysIInv, <1>1, PTL
=============================================================================
