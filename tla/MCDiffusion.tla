----------------------------- MODULE MCDiffusion -----------------------------
(***************************************************************************)
(* Diffusion instantiated for TLC.                                         *)
(***************************************************************************)
EXTENDS Diffusion

\* After bf.init() the ranks form a one-way ring: a rank aggregates one
\* neighbor and can run ahead of the rank it sends to.
MCInitialGraph ==
    [out |-> [r \in Rank |-> IF Size = 1 THEN <<>> ELSE <<(r + 1) % Size>>],
     undirected |-> FALSE]


=============================================================================
