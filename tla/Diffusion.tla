------------------------------ MODULE Diffusion ------------------------------
(***************************************************************************)
(* The first three sections of src/examples/pytorch_logistic_regression.py *)
(* (lines 46-193), run by every rank over the collective engines:          *)
(*   DG  distributed gradient descent: an allreduce per iteration;         *)
(*   ED  exact diffusion: a neighbor_allreduce per iteration;              *)
(*   GT  gradient tracking: two neighbor_allreduce per iteration.          *)
(* Each section ends with an allreduce of the gradient, under the name     *)
(* 'gradient' in all of them, and ED and GT then plot on rank 0, where     *)
(* plt.show() holds the rank until the user closes the window.             *)
(*                                                                         *)
(* pc[r] is the statement rank r is at and blocked[r] says that it is      *)
(* inside the call of that statement.  A tensor is abstracted to where it  *)
(* comes from, the statement and the iteration that passed it; the         *)
(* arithmetic between the calls is local to a rank and left out.           *)
(***************************************************************************)
EXTENDS Naturals, Sequences, FiniteSets

CONSTANTS
    Size,           \* bf.size()
    maxite,         \* iterations of each loop (2000 in the source)
    InitialGraph    \* the topology the ranks have after bf.init()

ASSUME /\ Size \in Nat \ {0}
       /\ maxite \in Nat

Rank == 0 .. Size - 1

Statements ==
    {"dg_allreduce", "dg_final",
     "ed_neighbor_allreduce", "ed_final", "ed_plot",
     "gt_w", "gt_q", "gt_final", "gt_plot"}
\* "pd": the rank has come to the Push-DIGing section (module PushDIGing);
\* "done": its program has ended; "raised": an exception has ended it.
Labels == Statements \cup {"pd", "done", "raised"}

Name == {"gradient", "local variable", "local variable w", "local variable q"}
Tensor == Statements \X (0 .. maxite)

VARIABLES
    pc,         \* [Rank -> Labels]: the statement each rank is at
    blocked,    \* [Rank -> BOOLEAN]: the rank is inside the call of pc[r]
    ite,        \* [Rank -> 0 .. maxite]: the loop variable i
    topology, pending, result, failed

Coll == INSTANCE Collective
Topo == INSTANCE Topology

clientVars == <<pc, blocked, ite>>
collVars == <<pending, result, failed>>
engineVars == <<topology, collVars>>
vars == <<clientVars, engineVars>>

TypeOK ==
    /\ pc \in [Rank -> Labels]
    /\ blocked \in [Rank -> BOOLEAN]
    /\ ite \in [Rank -> 0 .. maxite]
    /\ Coll!CollTypeOK
    /\ Topo!TopoTypeOK

-----------------------------------------------------------------------------
\* `range(maxite + 1)`: the loop runs once more than it should.
LoopEntryOneMore(n, body, exit) == IF n <= maxite THEN body ELSE exit

\* Where the loop header `for i in range(maxite)` goes with i = n.
LoopEntry(n, body, exit) == IF n < maxite THEN body ELSE exit

\* bf.init(): the program starts at the loop of line 49 on every rank.
Init ==
    /\ pc = [r \in Rank |-> LoopEntry(0, "dg_allreduce", "dg_final")]
    /\ blocked = [r \in Rank |-> FALSE]
    /\ ite = [r \in Rank |-> 0]
    /\ topology = [r \in Rank |-> InitialGraph]
    /\ Coll!CollInit

\* Rank r goes on at `label` with i = n.
Goto(r, label, n) ==
    /\ pc' = [pc EXCEPT ![r] = label]
    /\ ite' = [ite EXCEPT ![r] = n]
    /\ blocked' = [blocked EXCEPT ![r] = FALSE]

\* An engine call fails: the exception is not caught and ends the program
\* of that rank.
Raise(r) == Goto(r, "raised", ite[r])

\* The ranks that will not make a call within any deadline: their program
\* has ended, or they wait for the user in plt.show().
Away ==
    {r \in Rank : \/ pc[r] \in {"done", "raised"}
                  \/ pc[r] \in {"ed_plot", "gt_plot"} /\ blocked[r]}

\* Rank r at statement `at` calls the collective and blocks in it.
Calls(r, at, op, name) ==
    /\ pc[r] = at
    /\ ~blocked[r]
    /\ \/ /\ Coll!Call(r, op, name, <<at, ite[r]>>)
          /\ blocked' = [blocked EXCEPT ![r] = TRUE]
          /\ UNCHANGED <<pc, ite>>
       \/ /\ Coll!Outcome(name) # "OK"
          /\ Raise(r)
          /\ UNCHANGED engineVars

\* The call returns and rank r goes on at `next` with i = n, or the call
\* fails with Timeout.
Returns(r, at, op, name, next, n) ==
    /\ pc[r] = at
    /\ blocked[r]
    /\ \/ /\ Coll!Return(r, op, name)
          /\ Goto(r, next, n)
       \/ /\ Coll!Timeout(r, op, name, Away)
          /\ Raise(r)

\* if bf.rank() == 0: plt.semilogy(...); plt.show()
Plots(r, at, next) ==
    /\ pc[r] = at
    /\ ~blocked[r]
    /\ IF r = 0 THEN /\ blocked' = [blocked EXCEPT ![r] = TRUE]
                     /\ UNCHANGED <<pc, ite>>
                ELSE Goto(r, next, 0)
    /\ UNCHANGED engineVars

\* The user closes the window and plt.show() returns.
WindowClosed(r, at, next) ==
    /\ pc[r] = at
    /\ blocked[r]
    /\ Goto(r, next, 0)
    /\ UNCHANGED engineVars

-----------------------------------------------------------------------------
(* Distributed gradient descent, lines 46-71 *)

\* grad = bf.allreduce(w_opt.grad.data, name='gradient'), in the loop
DGAllreduce(r) == Calls(r, "dg_allreduce", "allreduce", "gradient")

\* `if torch.norm(w_opt.grad.data) < tol: break`: a rank leaves the loop
\* when its own gradient is small.
DGAllreduceReturnOrBreak(r) ==
    \E exit \in {LoopEntry(ite[r] + 1, "dg_allreduce", "dg_final"), "dg_final"} :
        Returns(r, "dg_allreduce", "allreduce", "gradient", exit, ite[r] + 1)

\* The gradient step, and the loop header of the next iteration.
DGAllreduceReturn(r) ==
    Returns(r, "dg_allreduce", "allreduce", "gradient",
            LoopEntry(ite[r] + 1, "dg_allreduce", "dg_final"), ite[r] + 1)

\* grad = bf.allreduce(w_opt.grad.data, name='gradient'), after the loop
DGFinal(r) == Calls(r, "dg_final", "allreduce", "gradient")

\* The two prints, the set-up of exact diffusion and its loop header.
DGFinalReturn(r) ==
    Returns(r, "dg_final", "allreduce", "gradient",
            LoopEntry(0, "ed_neighbor_allreduce", "ed_final"), 0)

-----------------------------------------------------------------------------
(* Exact diffusion, lines 89-126 *)

\* w.data = bf.neighbor_allreduce(phi, name='local variable')
EDNeighborAllreduce(r) ==
    Calls(r, "ed_neighbor_allreduce", "neighbor_allreduce", "local variable")

\* bf.neighbor_allreduce_nonblocking(...) and no bf.wait(): the rank goes on
\* without what its in-neighbors send.
EDNeighborAllreduceNoWait(r) ==
    /\ pc[r] = "ed_neighbor_allreduce"
    /\ blocked[r]
    /\ Goto(r, LoopEntry(ite[r] + 1, "ed_neighbor_allreduce", "ed_final"), ite[r] + 1)
    /\ UNCHANGED engineVars

\* psi_prev = psi, and the loop header of the next iteration.
EDNeighborAllreduceReturn(r) ==
    Returns(r, "ed_neighbor_allreduce", "neighbor_allreduce", "local variable",
            LoopEntry(ite[r] + 1, "ed_neighbor_allreduce", "ed_final"), ite[r] + 1)

\* grad = bf.allreduce(w.grad.data, name='gradient')
EDFinal(r) == Calls(r, "ed_final", "allreduce", "gradient")

EDFinalReturn(r) ==
    Returns(r, "ed_final", "allreduce", "gradient", "ed_plot", 0)

\* if bf.rank() == 0: plt.semilogy(mse); plt.show()
EDPlot(r) == Plots(r, "ed_plot", LoopEntry(0, "gt_w", "gt_final"))

EDWindowClosed(r) == WindowClosed(r, "ed_plot", LoopEntry(0, "gt_w", "gt_final"))

-----------------------------------------------------------------------------
(* Gradient tracking, lines 148-193 *)

\* w.data = bf.neighbor_allreduce(w.data, name='local variable w') - ...
GTNeighborAllreduceW(r) ==
    Calls(r, "gt_w", "neighbor_allreduce", "local variable w")

GTNeighborAllreduceWReturn(r) ==
    Returns(r, "gt_w", "neighbor_allreduce", "local variable w", "gt_q", ite[r])

\* q = bf.neighbor_allreduce(q, name='local variable q') + grad - grad_prev
GTNeighborAllreduceQ(r) ==
    Calls(r, "gt_q", "neighbor_allreduce", "local variable q")

GTNeighborAllreduceQReturn(r) ==
    Returns(r, "gt_q", "neighbor_allreduce", "local variable q",
            LoopEntry(ite[r] + 1, "gt_w", "gt_final"), ite[r] + 1)

\* grad = bf.allreduce(w.grad.data, name='gradient')
GTFinal(r) == Calls(r, "gt_final", "allreduce", "gradient")

\* bf.allreduce_nonblocking(...) and no bf.wait(): the rank goes on without
\* the gradients of the others.
GTFinalReturnNoWait(r) ==
    /\ pc[r] = "gt_final"
    /\ blocked[r]
    /\ Goto(r, "gt_plot", 0)
    /\ UNCHANGED engineVars

\* The two prints.
GTFinalReturn(r) ==
    Returns(r, "gt_final", "allreduce", "gradient", "gt_plot", 0)

\* if bf.rank() == 0: plt.semilogy(mse_gt); plt.show()
GTPlot(r) == Plots(r, "gt_plot", "pd")

GTWindowClosed(r) == WindowClosed(r, "gt_plot", "pd")

-----------------------------------------------------------------------------
\* The statements of rank r, in program order.
Program(r) ==
    \/ DGAllreduce(r) \/ DGAllreduceReturn(r) \/ DGFinal(r) \/ DGFinalReturn(r)
    \/ EDNeighborAllreduce(r) \/ EDNeighborAllreduceReturn(r)
    \/ EDFinal(r) \/ EDFinalReturn(r) \/ EDPlot(r)
    \/ GTNeighborAllreduceW(r) \/ GTNeighborAllreduceWReturn(r)
    \/ GTNeighborAllreduceQ(r) \/ GTNeighborAllreduceQReturn(r)
    \/ GTFinal(r) \/ GTFinalReturn(r) \/ GTPlot(r)

\* What the user at rank r's display does.
User(r) == EDWindowClosed(r) \/ GTWindowClosed(r)

\* Every rank has come to the Push-DIGing section or has failed.
Terminated ==
    /\ \A r \in Rank : pc[r] \in {"pd", "done", "raised"}
    /\ UNCHANGED vars

Next ==
    \/ \E r \in Rank : Program(r) \/ User(r)
    \/ Terminated

Spec == Init /\ [][Next]_vars

-----------------------------------------------------------------------------
(* Properties *)

\* Every call aggregates tensors of one statement and one iteration: what
\* a rank gets back from bf.allreduce or bf.neighbor_allreduce was passed
\* by its senders at the same line and with the same i as its own.  The
\* calls are matched by name and order only, while a rank runs up to Size
\* iterations ahead of a neighbor (LeadBounded): tensors of several
\* iterations wait under 'local variable' (line 101), and under 'local
\* variable w' and 'local variable q' (lines 159 and 168), when the
\* receiver makes its call, and it must get the one of its own iteration.
CollectivesMatch ==
    \A r \in Rank : \A s \in DOMAIN result[r] : result[r][s] = result[r][r]

\* A rank is never more than Size calls ahead of a rank it sends to: under
\* every name, at most Size tensors of one sender wait for one receiver.
\* neighbor_allreduce (lines 101, 159, 168) returns when the in-neighbors
\* of the caller have delivered, not when its out-neighbors have taken
\* what it sent, so a rank runs ahead of the ranks behind it; what holds it
\* back is the path on which the graph leads from them to it again.
LeadBounded ==
    \A n \in Name : \A s, d \in Rank : Len(pending[n][s][d]) <= Size

\* No call of the sections fails: each rank is expected to run the three
\* algorithms to the end and to converge to the global solution (lines
\* 26-29).
NoRankRaises ==
    \A r \in Rank : pc[r] # "raised"

=============================================================================
