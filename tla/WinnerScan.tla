----------------------------- MODULE WinnerScan -----------------------------
(***************************************************************************)
(* The election loop of the interphase (src/src/swarm.c), one tile per     *)
(* step: it keeps one running winner and one counter per domain.  What it  *)
(* ends with is compared with the declarative election of Arbitration.     *)
(***************************************************************************)
EXTENDS Arbitration

CONSTANTS Count,       \* active_tile_count
          Fabrics      \* the parameters the tiles may have, [Tiles -> record]

Tiles == 0 .. Count - 1

ASSUME CountAssumption == Count \in Nat /\ Count < NoTile

ASSUME FabricsAssumption ==
  \A par \in Fabrics : \A t \in Tiles : par[t].prio \in Nat

VARIABLES
  par, fire,
  cursor,    \* the loop variable t
  cnt,       \* fired_cnt
  winner,    \* snapshot.winner_tile_id
  collide    \* snapshot.collide_mask16

vars == <<par, fire, cursor, cnt, winner, collide>>

Init ==
  /\ par \in Fabrics
  /\ fire \in SUBSET Tiles
  /\ cursor = 0
  /\ cnt = [d \in Domains |-> 0]
  /\ winner = [d \in Domains |-> NoTile]
  /\ collide = {}

\* A bug the properties catch: the later of two equals wins.
TakesTie(t, d) == winner[d] = NoTile \/ par[t].prio >= par[winner[d]].prio

\* A tile takes a domain nobody holds, or one whose holder it beats.
Takes(t, d) ==
  \/ winner[d] = NoTile
  \/ par[t].prio > par[winner[d]].prio
  \/ par[t].prio = par[winner[d]].prio /\ t < winner[d]

Skip ==
  /\ cursor < Count
  /\ \/ cursor \notin fire
     \/ par[cursor].pat = 0
     \/ par[cursor].dom \notin Domains
  /\ cursor' = cursor + 1
  /\ UNCHANGED <<par, fire, cnt, winner, collide>>

\* A bug the properties catch: the collision is noticed at the third tile.
ElectThird ==
  /\ cursor < Count /\ cursor \in fire
  /\ par[cursor].pat # 0 /\ par[cursor].dom \in Domains
  /\ LET d == par[cursor].dom
     IN  /\ cnt' = [cnt EXCEPT ![d] = @ + 1]
         /\ collide' = IF cnt[d] >= 2 THEN collide \cup {d} ELSE collide
         /\ winner' = IF Takes(cursor, d) THEN [winner EXCEPT ![d] = cursor] ELSE winner
  /\ cursor' = cursor + 1
  /\ UNCHANGED <<par, fire>>

Elect ==
  /\ cursor < Count
  /\ cursor \in fire
  /\ par[cursor].pat # 0
  /\ par[cursor].dom \in Domains
  /\ LET d == par[cursor].dom
     IN  /\ cnt' = [cnt EXCEPT ![d] = @ + 1]
         /\ collide' = IF cnt[d] + 1 >= 2 THEN collide \cup {d} ELSE collide
         /\ winner' = IF Takes(cursor, d) THEN [winner EXCEPT ![d] = cursor]
                                          ELSE winner
  /\ cursor' = cursor + 1
  /\ UNCHANGED <<par, fire>>

Next == Skip \/ Elect

Spec == Init /\ [][Next]_vars

-----------------------------------------------------------------------------
TypeOK ==
  /\ par \in Fabrics
  /\ fire \in SUBSET Tiles
  /\ cursor \in 0 .. Count
  /\ cnt \in [Domains -> Nat]
  /\ winner \in [Domains -> Tiles \cup {NoTile}]
  /\ collide \in SUBSET Domains

\* The tiles the scan has already passed.
Passed == {t \in fire : t < cursor}

\* After any prefix of the scan each running winner is the arg-max, by
\* (priority, -tile_id), of the tiles passed: docs/CONTRACT_v02.md section 10.
RunningWinner == \A d \in Domains : winner[d] = Winner(par, Passed, d)

\* The counter and the collision mask agree with the tiles passed: a domain
\* collides exactly when two of its tiles fired.
RunningCount ==
  /\ \A d \in Domains : cnt[d] = Cardinality(Contenders(par, Passed, d))
  /\ collide = Collisions(par, Passed)
=============================================================================
