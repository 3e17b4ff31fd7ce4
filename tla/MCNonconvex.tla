----------------------------- MODULE MCNonconvex -----------------------------
(***************************************************************************)
(* Nonconvex instantiated for TLC.                                         *)
(***************************************************************************)
EXTENDS Nonconvex

\* After bf.init() the ranks form a one-way ring.
MCInitialGraph ==
    [out |-> [r \in Rank |-> IF Size = 1 THEN <<>> ELSE <<(r + 1) % Size>>],
     undirected |-> FALSE]

\* The out-degree of a rank on the power-two ring: the powers of two below
\* Size.
MCOutdegree == Cardinality({k \in 0 .. Size : 2^k < Size})

\* 1.0 as (outdegree + 1)^(Size * maxite) units: every division of the
\* model is exact.
MCOne == (MCOutdegree + 1) ^ (Size * maxite)

\* --method 0, 1, 2 and a number that names no method, each with and
\* without --plot-interactive.
MCArgs == [method : 0 .. 3, plot_interactive : BOOLEAN]

=============================================================================
