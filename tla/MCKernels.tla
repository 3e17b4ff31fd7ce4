------------------------------ MODULE MCKernels ------------------------------
(***************************************************************************)
(* Kernels instantiated for TLC.                                           *)
(***************************************************************************)
EXTENDS Kernels, SequencesExt

\* After bf.init() the ranks form a one-way ring: a rank averages its own
\* tensor with that of one neighbor.
MCInitialGraph ==
    [out |-> [r \in Rank |-> IF Size = 1 THEN <<>> ELSE <<(r + 1) % Size>>],
     undirected |-> FALSE]

\* topology_util.PowerTwoRingGraph(size): rank r sends to r + 1, r + 2,
\* r + 4, ... (mod size), itself excluded.
MCPushGraph ==
    [out |-> [r \in Rank |->
                SetToSortSeq({(r + 2^k) % Size : k \in {j \in 0 .. Size : 2^j < Size}}, <)],
     undirected |-> FALSE]

\* 1.0 as an integer that every division of a run leaves whole: by StepDen
\* for the step size, by 2 in every iteration for the average with one
\* neighbor, by Size for the allreduce, and by Size in every push of any
\* rank for the shares, which travel on from rank to rank.
MCOne == StepDen * 2 ^ maxite * Size ^ (Size * maxite + 1)

\* The gradient of one loss.backward(): down, or up, by 1.0.
MCGradients == {-MCOne, MCOne}

=============================================================================
