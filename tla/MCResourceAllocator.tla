------------------------ MODULE MCResourceAllocator ------------------------
(* Values for the constants of ResourceAllocator: the engines, the uuids   *)
(* and what is offered.                                                    *)
EXTENDS ResourceAllocator, TLC

CONSTANTS u1, u2, u3, ev, n1, n2

Opp(e, a, event, nodes, directional, far) ==
  [engine |-> e, amount |-> a, event |-> event, nodes |-> nodes,
   directional |-> directional, far |-> far]

SYNC == "SYNC_NODE"
ORACLE == "ORACLE_NODE"
ROUTER == "ROUTER_NODE"
MCEngines == {SYNC, ORACLE, ROUTER}
MCPaper == {SYNC, ORACLE}

\* Shares of a paper world of 3: 2 for SYNC and 3 for ORACLE.
MCPct == [e \in MCEngines |-> IF e = SYNC THEN 70 ELSE 100]
MCConcurrent == [e \in MCEngines |-> CASE e = SYNC -> 1 [] e = ORACLE -> 2 [] OTHER -> 3]

\* Every cap is the only one that stops some of the paper opportunities: the share
\* ORACLE 2 + 2, the cap of 1 on ev ORACLE 1 + 1, the one place of SYNC 1 + 1,
\* the two places of the world SYNC 1 + ORACLE 1 + ORACLE 2, and the standby
\* ORACLE 1 once 2 of its 3 unlock late.  Live, a balance of 1 or the cap of 1 per
\* node stops ROUTER 1 + 1.
MCPaperOpportunities ==
  { Opp(SYNC, 1, NoEvent, {}, FALSE, FALSE),
    Opp(ORACLE, 1, ev, {}, FALSE, FALSE),
    Opp(ORACLE, 2, NoEvent, {}, FALSE, TRUE) }
MCLiveOpportunities ==
  { Opp(ROUTER, 1, NoEvent, {n1, n2}, TRUE, FALSE) }
MCOpportunities == MCPaperOpportunities \cup MCLiveOpportunities

\* Two paper engines are enough to fill and to drain: shares of 40% and 60% of a
\* world of 5.
MCDrainPct == [e \in MCPaper |-> IF e = SYNC THEN 40 ELSE 60]
MCDrainConcurrent == [e \in MCPaper |-> IF e = SYNC THEN 3 ELSE 1]
MCDrainOpportunities == { Opp(SYNC, 1, NoEvent, {}, FALSE, FALSE),
                          Opp(ORACLE, 2, ev, {}, FALSE, FALSE) }

=============================================================================
