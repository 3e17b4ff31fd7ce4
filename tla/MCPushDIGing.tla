----------------------------- MODULE MCPushDIGing -----------------------------
(***************************************************************************)
(* PushDIGing instantiated for TLC.                                        *)
(***************************************************************************)
EXTENDS PushDIGing

\* Before set_topology the ranks form a one-way ring.
MCInitialGraph ==
    [out |-> [r \in Rank |-> IF Size = 1 THEN <<>> ELSE <<(r + 1) % Size>>],
     undirected |-> FALSE]

\* 1.0 as (outdegree + 1)^(Size * maxite) units: a share of the weight is
\* divided at most once per rank and iteration, so every division of the
\* model is exact.
MCOne == (Len(PowerTwoRingGraph(Size).out[0]) + 1) ^ (Size * maxite)

=============================================================================
