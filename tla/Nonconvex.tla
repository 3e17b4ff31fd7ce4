------------------------------ MODULE Nonconvex ------------------------------
(***************************************************************************)
(* src/examples/pytorch_nonconvex_logitReg.py: the command line (lines     *)
(* 23-36), finalize_plot (39-43), the distributed gradient section         *)
(* (83-111), and the sections chosen with --method: exact diffusion        *)
(* (125-167), gradient tracking (189-242) and Push-DIGing (255-332).       *)
(*                                                                         *)
(* The sections make the calls of the sections of                          *)
(* pytorch_logistic_regression.py, so their statements are those of        *)
(* modules Diffusion, PushDIGing and Logistic.  What differs is what       *)
(* follows a section: the three `if args.method == k:` in place of running *)
(* all of them, and finalize_plot(), which shows the plot only with        *)
(* --plot-interactive.                                                     *)
(* Every rank is started with the same command line, so args is one        *)
(* record for the world.  The plot file that finalize_plot saves is left   *)
(* out.                                                                    *)
(***************************************************************************)
EXTENDS Naturals, Sequences, FiniteSets

CONSTANTS
    Size,           \* bf.size()
    maxite,         \* iterations of each loop (2000 in the source)
    BarrierPeriod,  \* a barrier every so many iterations (10 in the source)
    One,            \* the integer that stands for w[-1] = 1.0
    InitialGraph,   \* the topology the ranks have after bf.init()
    Free,           \* the holder of a mutex nobody holds
    Args            \* the parsed command lines: [method, plot_interactive]

VARIABLES
    args,       \* the record parser.parse_args() returned
    pc, blocked, ite, outdegree,
    topology, pending, result, failed,
    barrierCalls, barrierPassed, mutexHolder,
    winState, localSnapshot, inbox, version, channel, phase, fetched

D == INSTANCE Diffusion
P == INSTANCE PushDIGing
L == INSTANCE Logistic

Rank == 0 .. Size - 1
engineVars == <<topology, pending, result, failed>>
collVars == <<blocked, pending, result, failed>>
pushVars == <<outdegree, barrierCalls, barrierPassed, mutexHolder,
              winState, localSnapshot, inbox, version, channel, phase, fetched>>
vars == <<args, pc, ite, topology, collVars, pushVars>>

TypeOK ==
    /\ args \in Args
    /\ L!TypeOK

-----------------------------------------------------------------------------
\* Where a section starts.
Entry(method) ==
    CASE method = 0 -> D!LoopEntry(0, "ed_neighbor_allreduce", "ed_final")
      [] method = 1 -> D!LoopEntry(0, "gt_w", "gt_final")
      [] method = 2 -> "pd"

\* `if args.method >= k:`: a section runs for its own number and for every
\* greater one.
DispatchAtLeast(k) ==
    IF k <= 2 /\ args.method >= k THEN Entry(k) ELSE "done"

\* Where the program goes on from the k-th of the statements
\* `if args.method == 0:`, `if args.method == 1:`, `if args.method == 2:`.
Dispatch(k) ==
    IF args.method \in k .. 2 THEN Entry(args.method) ELSE "done"

\* args = parser.parse_args(); bf.init()
Init ==
    /\ args \in Args
    /\ L!Init

\* if bf.rank() == 0: plt.semilogy(...); finalize_plot(), where
\* finalize_plot is: savefig; if args.plot_interactive: plt.show(); close
FinalizePlot(r, at, next) ==
    IF args.plot_interactive THEN D!Plots(r, at, next)
    ELSE /\ pc[r] = at
         /\ ~blocked[r]
         /\ D!Goto(r, next, 0)
         /\ UNCHANGED engineVars

-----------------------------------------------------------------------------
\* Distributed gradient descent: the loop with its allreduce, the allreduce
\* after it, and on to the first `if args.method`.
DistributedGradient(r) ==
    \/ D!DGAllreduce(r)
    \/ D!DGAllreduceReturn(r)
    \/ D!DGFinal(r)
    \/ D!Returns(r, "dg_final", "allreduce", "gradient", Dispatch(0), 0)

\* The allreduce of line 150 is indented under `if bf.rank() == 0:`.
EDFinalRankZeroOnly(r) ==
    IF r = 0 THEN D!EDFinal(r)
    ELSE /\ pc[r] = "ed_final"
         /\ D!Goto(r, "ed_plot", 0)
         /\ UNCHANGED engineVars

\* grad = bf.allreduce(w.grad.data, name='gradient')
EDFinal(r) == D!EDFinal(r)

\* if args.method == 0: the loop with its neighbor_allreduce, the
\* allreduce after it, and the plot on rank 0.
ExactDiffusion(r) ==
    \/ D!EDNeighborAllreduce(r)
    \/ D!EDNeighborAllreduceReturn(r)
    \/ EDFinal(r)
    \/ D!EDFinalReturn(r)
    \/ FinalizePlot(r, "ed_plot", Dispatch(1))

\* if args.method == 1: the loop with its two neighbor_allreduce, the
\* allreduce after it, and the plot on rank 0.
GradientTracking(r) ==
    \/ D!GTNeighborAllreduceW(r)
    \/ D!GTNeighborAllreduceWReturn(r)
    \/ D!GTNeighborAllreduceQ(r)
    \/ D!GTNeighborAllreduceQReturn(r)
    \/ D!GTFinal(r)
    \/ D!GTFinalReturn(r)
    \/ FinalizePlot(r, "gt_plot", Dispatch(2))

\* if args.method == 2: the Push-DIGing section, the allreduce after it,
\* and the plot on rank 0.
PushDIGing(r) ==
    \/ /\ \/ L!CloneData(r)
          \/ L!PDFinal(r)
          \/ L!PDFinalReturn(r)
          \/ FinalizePlot(r, "pd_plot", "done")
       /\ UNCHANGED pushVars
    \/ /\ P!Section(r, "pd_final")
       /\ UNCHANGED collVars

\* The statements of rank r, in program order.
Program(r) ==
    /\ \/ /\ DistributedGradient(r) \/ ExactDiffusion(r) \/ GradientTracking(r)
          /\ UNCHANGED pushVars
       \/ PushDIGing(r)
    /\ UNCHANGED args

\* The user closes the window and plt.show() returns.
User(r) ==
    /\ \/ D!WindowClosed(r, "ed_plot", Dispatch(1))
       \/ D!WindowClosed(r, "gt_plot", Dispatch(2))
       \/ D!WindowClosed(r, "pd_plot", "done")
    /\ UNCHANGED <<args, pushVars>>

\* The engine's background service of the requests queued from s to d.
Service(s, d) == L!Service(s, d) /\ UNCHANGED args

\* Every rank has left the program.
Terminated ==
    /\ \A r \in Rank : pc[r] \in {"done", "raised"}
    /\ UNCHANGED vars

Next ==
    \/ \E r \in Rank : Program(r) \/ User(r)
    \/ \E s, d \in Rank : Service(s, d)
    \/ Terminated

Spec == Init /\ [][Next]_vars

\* The worker thread of a rank runs its next statement whenever it is not
\* blocked, and the background service runs for as long as the windows
\* exist.  Nothing is assumed of the user.
FairSpec ==
    /\ Spec
    /\ \A r \in Rank : WF_vars(Program(r))
    /\ \A s, d \in Rank : WF_vars(Service(s, d))

-----------------------------------------------------------------------------
(* Properties *)

\* The rank is through with the program, and: it waits at the display.
Finished(r) == pc[r] = "done"
AtDisplay(r) == blocked[r] /\ pc[r] \in {"ed_plot", "gt_plot", "pd_plot"}

\* No call fails, with or without --plot-interactive: rank 0 may sit in
\* plt.show() for as long as the user likes, because the three
\* `if args.method == k:` (lines 125, 189 and 255) let one section run and
\* the plot is the last thing it does, so no rank waits in a collective
\* for a rank that is at the display; and no call of the Push-DIGing
\* branch meets a window that is not there.
NoRankRaises ==
    \A r \in Rank : pc[r] # "raised"

\* The pushes of the Push-DIGing branch conserve the push-sum weight w[-1]
\* (lines 286-315): what the ranks hold, what lies in their windows and
\* what is queued for the service add up to 1.0 for every window, with
\* three iterations that the ranks run at their own pace, so that pushes
\* of different iterations are queued together.
WeightConserved == P!MassConserved

\* The barrier of every BarrierPeriod-th iteration (lines 301-302) bounds
\* how far the ranks of the Push-DIGing branch drift apart: no rank is more
\* than BarrierPeriod iterations ahead of another.
DriftBounded ==
    \A a, b \in Rank :
        {pc[a], pc[b]} \subseteq P!Labels \ {"done", "raised"}
            => ite[a] <= ite[b] + BarrierPeriod

\* Every rank runs the program to its end, whichever --method is given,
\* one of the three or none of them; only with --plot-interactive may a
\* rank stay at the display instead, and no other rank waits for it.  No
\* rank waits forever in a collective, at a barrier or for a window that
\* another rank does not come to.
RunsToTheEnd ==
    <>[](\A r \in Rank : Finished(r) \/ (args.plot_interactive /\ AtDisplay(r)))

=============================================================================
