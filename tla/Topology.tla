------------------------------ MODULE Topology ------------------------------
(***************************************************************************)
(* The communication graph over the ranks: bf.set_topology(graph),         *)
(* bf.in_neighbor_ranks() and bf.out_neighbor_ranks().  Each rank holds    *)
(* its own snapshot of the graph, replaced wholesale by set_topology; the  *)
(* engines read the neighbor lists of the calling rank's snapshot.         *)
(*                                                                         *)
(* A graph description gives, for every rank, the ordered list of ranks it *)
(* sends to, and says whether the graph is declared undirected.  The       *)
(* manager is not part of src/; it is written from its contract.           *)
(***************************************************************************)
EXTENDS Naturals, Sequences, FiniteSets, SequencesExt

CONSTANTS
    Rank    \* the ranks of the world, 0 .. size()-1

VARIABLES
    topology    \* [Rank -> graph description]: the snapshot of each rank

topoVars == <<topology>>

\* The ranks that s sends to in g, and the ranks that send to r in g.
OutSet(g, s) == Range(g.out[s])
InSet(g, r) == {s \in Rank : r \in OutSet(g, s)}

\* What set_topology checks before it replaces the snapshot: every listed
\* neighbor is a rank of the world, no list names a rank twice, and a graph
\* declared undirected has the same in- and out-neighbors at every rank.
IsValidTopology(g) ==
    /\ \A r \in Rank : OutSet(g, r) \subseteq Rank
    /\ \A r \in Rank : IsInjective(g.out[r])
    /\ g.undirected => \A r \in Rank : InSet(g, r) = OutSet(g, r)

TopoTypeOK ==
    \A r \in Rank :
        /\ topology[r].undirected \in BOOLEAN
        /\ DOMAIN topology[r].out = Rank
        /\ IsValidTopology(topology[r])

\* set_topology(g) on rank r.  An invalid graph is refused (InvalidTopology)
\* and the snapshot stays as it was.
SetTopology(r, g) ==
    /\ IsValidTopology(g)
    /\ topology' = [topology EXCEPT ![r] = g]

\* The neighbor queries on rank r: out_neighbor_ranks() as the list it
\* returns and as a set, and the set of in_neighbor_ranks().  An empty
\* answer is legal.
OutNeighborRanks(r) == topology[r].out[r]
OutNeighbors(r) == OutSet(topology[r], r)
InNeighbors(r) == InSet(topology[r], r)

=============================================================================
