------------------------------ MODULE Logistic ------------------------------
(***************************************************************************)
(* src/examples/pytorch_logistic_regression.py as a whole, run by every    *)
(* rank: the three diffusion sections (module Diffusion, lines 46-193),    *)
(* the Push-DIGing section (module PushDIGing, lines 209-257) and the      *)
(* statements that close the program (lines 259-277): one more allreduce   *)
(* under the name 'gradient' and the last plot on rank 0.                  *)
(*                                                                         *)
(* The sections follow each other on every rank, but nothing makes the     *)
(* ranks change section together: a rank sets the topology of Push-DIGing  *)
(* and creates its window while another is still in gradient tracking or   *)
(* at its plot.  The statements are those of the two modules, over one     *)
(* program counter; what a section does not use it leaves unchanged.       *)
(***************************************************************************)
EXTENDS Naturals, Sequences, FiniteSets

CONSTANTS
    Size,           \* bf.size()
    maxite,         \* iterations of each loop (2000 in the source)
    BarrierPeriod,  \* a barrier every so many iterations (10 in the source)
    One,            \* the integer that stands for w[-1] = 1.0
    InitialGraph,   \* the topology the ranks have after bf.init()
    Free            \* the holder of a mutex nobody holds

VARIABLES
    pc, blocked, ite, outdegree,
    topology, pending, result, failed,
    barrierCalls, barrierPassed, mutexHolder,
    winState, localSnapshot, inbox, version, channel, phase, fetched

D == INSTANCE Diffusion
P == INSTANCE PushDIGing

Rank == 0 .. Size - 1

\* The statements that close the program, and every label of it.
Closing == {"pd_final", "pd_plot"}
AllLabels == D!Labels \cup P!Labels \cup Closing
Tensor == (D!Statements \cup Closing) \X (0 .. maxite)

Coll == INSTANCE Collective WITH Name <- D!Name
Win == INSTANCE WindowManager
Sync == INSTANCE Synchronizer WITH MutexName <- Rank
Topo == INSTANCE Topology

\* What the statements of Push-DIGing leave alone, and what those of the
\* diffusion sections do.
collVars == <<blocked, pending, result, failed>>
pushVars == <<outdegree, barrierCalls, barrierPassed, mutexHolder,
              winState, localSnapshot, inbox, version, channel, phase, fetched>>
vars == <<pc, ite, topology, collVars, pushVars>>

TypeOK ==
    /\ pc \in [Rank -> AllLabels]
    /\ blocked \in [Rank -> BOOLEAN]
    /\ ite \in [Rank -> 0 .. maxite]
    /\ outdegree \in [Rank -> 0 .. Size]
    /\ Coll!CollTypeOK
    /\ Win!WinTypeOK
    /\ Sync!SyncTypeOK
    /\ Topo!TopoTypeOK

\* bf.init(): the program starts at the loop of line 49 on every rank.
Init ==
    /\ D!Init
    /\ outdegree = [r \in Rank |-> 0]
    /\ Sync!SyncInit
    /\ Win!WinInit

-----------------------------------------------------------------------------
\* A = X.clone(); b = y.clone(): the rank enters the Push-DIGing section.
CloneData(r) ==
    /\ pc[r] = "pd"
    /\ D!Goto(r, "set_topology", 0)
    /\ UNCHANGED <<topology, pending, result, failed>>

\* The allreduce of line 262 is indented under `if bf.rank() == 0:`.
PDFinalRankZeroOnly(r) ==
    IF r = 0 THEN D!Calls(r, "pd_final", "allreduce", "gradient")
    ELSE /\ pc[r] = "pd_final"
         /\ D!Goto(r, "pd_plot", 0)
         /\ UNCHANGED <<topology, pending, result, failed>>

\* grad = bf.allreduce(x.grad.data, name='gradient')
PDFinal(r) == D!Calls(r, "pd_final", "allreduce", "gradient")

\* The two prints.
PDFinalReturn(r) ==
    D!Returns(r, "pd_final", "allreduce", "gradient", "pd_plot", 0)

\* if bf.rank() == 0: plt.semilogy(mse_pd); plt.show()
PDPlot(r) == D!Plots(r, "pd_plot", "done")

PDWindowClosed(r) == D!WindowClosed(r, "pd_plot", "done")

\* The statements of rank r, in program order.
Program(r) ==
    \/ /\ D!Program(r) \/ CloneData(r) \/ PDFinal(r) \/ PDFinalReturn(r) \/ PDPlot(r)
       /\ UNCHANGED pushVars
    \/ /\ P!Section(r, "pd_final")
       /\ UNCHANGED collVars

\* What the user at rank r's display does.
User(r) ==
    /\ D!User(r) \/ PDWindowClosed(r)
    /\ UNCHANGED pushVars

\* The engine's background service of the requests queued from s to d.
Service(s, d) ==
    /\ P!Service(s, d)
    /\ UNCHANGED collVars

\* Every rank has run the program to its end or has failed.
Terminated ==
    /\ \A r \in Rank : pc[r] \in {"done", "raised"}
    /\ UNCHANGED vars

Next ==
    \/ \E r \in Rank : Program(r) \/ User(r)
    \/ \E s, d \in Rank : Service(s, d)
    \/ Terminated

Spec == Init /\ [][Next]_vars

\* One worker thread per rank runs its program, and the background service
\* runs for as long as the windows exist.  Nothing is assumed of the user.
FairSpec ==
    /\ Spec
    /\ \A r \in Rank : WF_vars(Program(r))
    /\ \A s, d \in Rank : WF_vars(Service(s, d))

-----------------------------------------------------------------------------
(* Properties *)

\* The names of the neighbor_allreduce calls (lines 101, 159 and 168).
NeighborName == {"local variable", "local variable w", "local variable q"}

\* A neighbor_allreduce is in flight: a tensor has been sent under its name
\* that its receiver has not aggregated yet.
RoundInFlight ==
    \E n \in NeighborName : \E s, d \in Rank : pending[n][s][d] # <<>>

\* The topology is replaced between rounds only: when a rank calls
\* bf.set_topology (line 209), no neighbor_allreduce of gradient tracking
\* is in flight on any rank, although no barrier stands between the
\* sections.  What makes it so is the allreduce of line 178: a rank
\* returns from it only when every rank has called it, that is, has left
\* the loop of lines 157-173.
SwapBetweenRounds ==
    [][topology' # topology => ~RoundInFlight]_vars

\* The rank waits at its display for the user.
AtDisplay(r) == blocked[r] /\ pc[r] \in {"ed_plot", "gt_plot", "pd_plot"}

\* The program ends on every rank, and in the same way: either every rank
\* runs it to the end or every rank raises.  A Timeout ends the program of
\* the rank that met it and of no other (nothing is caught, line 159), so
\* that no rank waits forever for one that has failed, in a collective, at
\* a barrier or in win_create, and that none finishes a collective the
\* others have failed in, is what fail-together gives.  Only while the user
\* keeps a window open does the rank at the display stay behind; the
\* others then have finished or failed, or wait for its window in
\* win_create (line 226).
EndsTogether ==
    <>[](\/ \A r \in Rank : pc[r] = "done"
         \/ \A r \in Rank : pc[r] = "raised"
         \/ \E r \in Rank :
               /\ AtDisplay(r)
               /\ \A q \in Rank \ {r} : pc[q] \in {"done", "raised", "win_create_wait"})

=============================================================================
