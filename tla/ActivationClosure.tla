-------------------------- MODULE ActivationClosure -------------------------
(***************************************************************************)
(* The multi-pass activation loop of flash_impl (src/src/swarm.c), one     *)
(* visited tile per step.  Passes over all tiles in ascending order are    *)
(* repeated until one adds nothing; a child behind the cursor (W, N, NW,   *)
(* NE) is therefore acted on in the next pass only.                        *)
(*                                                                         *)
(* bus_r_allowed is written exactly where active is written, with the same *)
(* value, so it has no variable of its own.                                *)
(***************************************************************************)
EXTENDS Fabric

CONSTANT Nets     \* the nets (see Fabric) the loop is run on

ASSUME NetsAssumption ==
  \A c \in Nets : /\ c.n \in Nat \ {0}
                  /\ c.w \in Nat \ {0}
                  /\ c.mask \in [Field(c) -> SUBSET Dirs]
                  /\ c.busR \in SUBSET Field(c)

VARIABLES
  net,      \* the baked routing of this flash
  locked,   \* locked_before, the locks when the flash began
  active,   \* the tiles activated so far
  cursor,   \* the loop variable t
  changed,  \* the loop's flag: this pass activated something
  pc

vars == <<net, locked, active, cursor, changed, pc>>

Init ==
  /\ net \in Nets
  /\ locked \in SUBSET Field(net)
  /\ active = net.busR
  /\ cursor = 0
  /\ changed = TRUE
  /\ pc = "test"

\* A bug the properties catch: the lock of the activating tile is not tested.
ActivatedUnlocked(t) == IF t \in active THEN Children(net, t) ELSE {}

\* What the loop adds to `active' when it visits tile t.
Activated(t) == IF t \in active \cap locked THEN Children(net, t) ELSE {}

\* A bug the properties catch: the flag is never cleared.
StartPassChanged ==
  /\ pc = "test" /\ changed
  /\ pc' = "scan"
  /\ cursor' = 0
  /\ UNCHANGED <<net, locked, active, changed>>

StartPass ==
  /\ pc = "test" /\ changed
  /\ pc' = "scan"
  /\ cursor' = 0
  /\ changed' = FALSE
  /\ UNCHANGED <<net, locked, active>>

Visit ==
  /\ pc = "scan" /\ cursor < net.n
  /\ active' = active \cup Activated(cursor)
  /\ changed' = (changed \/ ~(Activated(cursor) \subseteq active))
  /\ cursor' = cursor + 1
  /\ UNCHANGED <<net, locked, pc>>

\* A bug the properties catch: one pass, as if every route led forwards.
EndOnlyPass ==
  /\ pc = "scan" /\ cursor >= net.n
  /\ pc' = "done"
  /\ UNCHANGED <<net, locked, active, cursor, changed>>

EndPass ==
  /\ pc = "scan" /\ cursor >= net.n
  /\ pc' = "test"
  /\ UNCHANGED <<net, locked, active, cursor, changed>>

Finish ==
  /\ pc = "test" /\ ~changed
  /\ pc' = "done"
  /\ UNCHANGED <<net, locked, active, cursor, changed>>

Next == StartPass \/ Visit \/ EndPass \/ Finish

Spec == Init /\ [][Next]_vars

\* The loop runs to its end: nothing in it waits for anything.
FairSpec == Spec /\ WF_vars(Next)

-----------------------------------------------------------------------------
TypeOK ==
  /\ net \in Nets
  /\ locked \in SUBSET Field(net)
  /\ active \in SUBSET Field(net)
  /\ cursor \in 0 .. net.n
  /\ changed \in BOOLEAN
  /\ pc \in {"test", "scan", "done"}

\* The loop never activates a tile that some closed set leaves out: every
\* activated tile is reached from a BUS_R root through tiles that were locked
\* when the flash began, whatever the order in which tiles are visited.
NothingExtra ==
  \A S \in SUBSET Field(net) : Closed(net, locked, S) => active \subseteq S

\* When the loop stops, the children of every active locked tile are active,
\* those that lie behind it in scan order included.
NothingMissing == pc = "done" => Closed(net, locked, active)

\* On a field without a partial row the loop and has_locked_write_source see
\* the same edges, though each has edge guards of its own: when the loop stops,
\* a tile is active exactly when it is a BUS_R root or some active locked tile
\* is one of those that let it write to the bus.
ActiveMeansFed ==
  pc = "done" /\ net.n % net.w = 0 =>
    active = net.busR \cup
             {t \in Field(net) : WriteParents(net, t) \cap active \cap locked # {}}

\* The abstract specification: one step that yields the least fixed point.
Least == INSTANCE LeastActivation
           WITH result <- IF pc = "done" THEN active ELSE {},
                ready  <- pc = "done"

\* The loop implements that one step (docs/CONTRACT_v02.md, 6.1).
ImplementsLeast == Least!Spec

\* The loop of flash_impl always stops, routing cycles included.
Termination == <>(pc = "done")
=============================================================================
