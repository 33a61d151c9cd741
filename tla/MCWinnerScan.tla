----------------------------- MODULE MCWinnerScan ---------------------------
(* Four tiles over two domains, a third domain number out of range.          *)
EXTENDS WinnerScan

MCFabrics ==
  [Tiles -> {[pat |-> 0, dom |-> 0, prio |-> 2]} \cup
            [pat : {1}, dom : {0, 1}, prio : {0, 1, 2}] \cup
            {[pat |-> 1, dom |-> 16, prio |-> 2]}]
=============================================================================
