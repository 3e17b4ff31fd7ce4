------------------------------- MODULE Kernels -------------------------------
(***************************************************************************)
(* The recursions of src/examples/pytorch_logistic_regression.py with the  *)
(* tensors they compute: distributed gradient descent (lines 46-61), exact *)
(* diffusion (89-111) and gradient tracking (148-178), run by every rank   *)
(* over the collective engines, and Push-DIGing (209-262) over the window. *)
(* Modules Diffusion and PushDIGing have the same statements with a tensor *)
(* abstracted to where it comes from; here a tensor is a number, and what  *)
(* a collective returns is averaged.  The window exchange is taken as      *)
(* module PushSum states it, a push being one step: PushDIGing is shown to *)
(* implement that.  Of w = (u, y, v) this module keeps the tracker y: v is *)
(* in PushDIGing, and u enters only x, of which the gradient is taken.     *)
(*                                                                         *)
(* A tensor of n entries is abstracted to one entry, an integer in units   *)
(* of 1/One; the step size 1e-1 is 1/StepDen.  The loss is abstracted to   *)
(* the gradient loss.backward() adds to w.grad: any member of Gradients.   *)
(* The sections do not use each other's tensors, so a behavior runs one    *)
(* of them.  Plots and deadlines are left to Diffusion.                    *)
(*                                                                         *)
(* t[r] holds the tensors of rank r by the name the program first gives    *)
(* them.  Names are bound to tensors, not to values: qIs[r] is the tensor  *)
(* the name q refers to, which after `q = w.grad.data` is w.grad itself.   *)
(***************************************************************************)
EXTENDS Integers, Sequences, FiniteSets, Functions, TLC

CONSTANTS
    Size,           \* bf.size()
    maxite,         \* iterations of each loop (2000 in the source)
    InitialGraph,   \* the topology the ranks have after bf.init()
    One,            \* the integer that stands for 1.0
    StepDen,        \* alpha = alpha_ed = alpha_gt = 1 / StepDen
    BarrierPeriod,  \* Push-DIGing: a barrier every so many iterations (10)
    PushGraph,      \* Push-DIGing: topology_util.PowerTwoRingGraph(bf.size())
    Gradients       \* what one loss.backward() can add to w.grad

Rank == 0 .. Size - 1
Name == {"gradient", "local variable", "local variable w", "local variable q"}
Tensor == Int

Sections == {"dg", "ed", "gt", "pd"}
Cells == {"w", "w.grad", "psi", "psi_prev", "q", "grad", "grad_prev", "y"}
Labels ==
    {"dg_allreduce", "ed_neighbor_allreduce", "gt_backward", "gt_q0", "gt_w",
     "gt_q", "pd_start", "pd_push", "pd_collect", "pd_final", "final", "done"}

VARIABLES
    section,    \* the section this behavior runs
    pc,         \* [Rank -> Labels]: the statement each rank is at
    blocked,    \* [Rank -> BOOLEAN]: the rank is inside the call of pc[r]
    ite,        \* [Rank -> 0 .. maxite]: the loop variable i
    t,          \* [Rank -> [Cells -> Int]]: the tensors
    qIs,        \* [Rank -> {"q", "w.grad"}]: the tensor the name q is bound to
    mail,       \* [Rank -> Int]: the shares of y pushed to a rank's window
                \* that it has not collected yet
    topology, pending, result, failed

Coll == INSTANCE Collective

engineVars == <<topology, pending, result, failed>>
vars == <<section, pc, blocked, ite, t, qIs, mail, engineVars>>

TypeOK ==
    /\ section \in Sections
    /\ pc \in [Rank -> Labels]
    /\ blocked \in [Rank -> BOOLEAN]
    /\ ite \in [Rank -> 0 .. maxite]
    /\ t \in [Rank -> [Cells -> Int]]
    /\ qIs \in [Rank -> {"q", "w.grad"}]
    /\ mail \in [Rank -> Int]
    /\ Coll!CollTypeOK

-----------------------------------------------------------------------------
\* The head of the loop of each section, and where the loop leaves to.
LoopHead ==
    [dg |-> "dg_allreduce", ed |-> "ed_neighbor_allreduce", gt |-> "gt_w",
     pd |-> "pd_push"]
LoopExit == [dg |-> "final", ed |-> "final", gt |-> "final", pd |-> "pd_final"]

\* `range(maxite + 1)`: the loop runs once more than it should.
LoopEntryOneMore(n) == IF n <= maxite THEN LoopHead[section] ELSE LoopExit[section]

\* for i in range(maxite)
LoopEntry(n) == IF n < maxite THEN LoopHead[section] ELSE LoopExit[section]

\* Where each section starts: gradient tracking and Push-DIGing take a
\* gradient before the loop.
Entry ==
    [dg |-> LoopEntry(0), ed |-> LoopEntry(0), gt |-> "gt_backward",
     pd |-> "pd_start"]

\* w = Variable(torch.zeros(n, 1)); phi, psi, psi_prev = w.clone(), ...
Init ==
    /\ section \in Sections
    /\ pc = [r \in Rank |-> Entry[section]]
    /\ blocked = [r \in Rank |-> FALSE]
    /\ ite = [r \in Rank |-> 0]
    /\ t = [r \in Rank |-> [c \in Cells |-> 0]]
    /\ qIs = [r \in Rank |-> "q"]
    /\ mail = [r \in Rank |-> 0]
    /\ topology = [r \in Rank |-> InitialGraph]
    /\ Coll!CollInit

\* The tensor the name q refers to on rank r.
Q(r) == t[r][qIs[r]]

\* Rank r assigns the tensors named in `new`.
Store(r, new) == t' = [t EXCEPT ![r] = new @@ @]

\* The zero_() is left out: the next loss.backward() adds to this gradient.
NotZeroed(r) == "w.grad" :> t[r]["w.grad"]

\* w.grad.data.zero_()
Zeroed(r) == "w.grad" :> 0

\* alpha * tensor
Step(tensor) == tensor \div StepDen

\* What a collective gives for the contributions it has aggregated: their
\* average, with the same weight for every sender.
Average(contributions) ==
    SumFunction(contributions) \div Cardinality(DOMAIN contributions)

\* Rank r at `at` passes `tensor` to the collective and blocks in it.
Calls(r, at, op, name, tensor) ==
    /\ pc[r] = at
    /\ ~blocked[r]
    /\ Coll!Call(r, op, name, tensor)
    /\ blocked' = [blocked EXCEPT ![r] = TRUE]
    /\ UNCHANGED <<section, pc, ite, qIs, mail>>

\* The call at `at` returns; rank r goes on at `next` with i = n.
Returns(r, at, op, name, next, n) ==
    /\ pc[r] = at
    /\ blocked[r]
    /\ Coll!Return(r, op, name)
    /\ pc' = [pc EXCEPT ![r] = next]
    /\ ite' = [ite EXCEPT ![r] = n]
    /\ blocked' = [blocked EXCEPT ![r] = FALSE]
    /\ UNCHANGED <<section, mail>>

-----------------------------------------------------------------------------
(* Distributed gradient descent, lines 46-61 *)

\* loss.backward(); grad = bf.allreduce(w_opt.grad.data, name='gradient')
DGAllreduce(r) ==
    \E g \in Gradients :
        /\ Calls(r, "dg_allreduce", "allreduce", "gradient", t[r]["w.grad"] + g)
        /\ Store(r, "w.grad" :> t[r]["w.grad"] + g)

\* `alpha*w_opt.grad.data`: the step follows the gradient of the rank's own
\* data.
DGStepLocal(r) == Step(t[r]["w.grad"])

\* alpha*grad, of the grad that bf.allreduce has returned
DGStep(r) == Step(Average(result'[r]))

\* w_opt.data = w_opt.data - alpha*grad; w_opt.grad.data.zero_()
DGAllreduceReturn(r) ==
    /\ Returns(r, "dg_allreduce", "allreduce", "gradient",
               LoopEntry(ite[r] + 1), ite[r] + 1)
    /\ Store(r, ("w" :> t[r].w - DGStep(r)) @@ Zeroed(r))
    /\ UNCHANGED qIs

-----------------------------------------------------------------------------
(* Exact diffusion, lines 89-111 *)

\* `phi = psi + w.data`: the correction by psi_prev is left out.
PhiUncorrected(r, psi) == psi + t[r].w

\* phi = psi + w.data - psi_prev
Phi(r, psi) == psi + t[r].w - t[r].psi_prev

\* loss.backward(); psi = w - alpha_ed * w.grad.data; phi = ...;
\* bf.neighbor_allreduce(phi, ...)
EDNeighborAllreduce(r) ==
    \E g \in Gradients :
        LET psi == t[r].w - Step(t[r]["w.grad"] + g)
        IN  /\ Calls(r, "ed_neighbor_allreduce", "neighbor_allreduce",
                     "local variable", Phi(r, psi))
            /\ Store(r, ("w.grad" :> t[r]["w.grad"] + g) @@ ("psi" :> psi))

\* w.data = bf.neighbor_allreduce(...); psi_prev = psi; w.grad.data.zero_()
EDNeighborAllreduceReturn(r) ==
    /\ Returns(r, "ed_neighbor_allreduce", "neighbor_allreduce", "local variable",
               LoopEntry(ite[r] + 1), ite[r] + 1)
    /\ Store(r, ("w" :> Average(result'[r])) @@ ("psi_prev" :> t[r].psi)
                @@ Zeroed(r))
    /\ UNCHANGED qIs

-----------------------------------------------------------------------------
(* Gradient tracking, lines 148-178 *)

\* w = Variable(torch.zeros(n, 1)); loss.backward()
GTBackward(r) ==
    /\ pc[r] = "gt_backward"
    /\ \E g \in Gradients : Store(r, "w.grad" :> t[r]["w.grad"] + g)
    /\ pc' = [pc EXCEPT ![r] = "gt_q0"]
    /\ UNCHANGED <<section, blocked, ite, qIs, mail, engineVars>>

\* q = w.grad.data; w.grad.data.zero_(); grad_prev = q.clone(): q is the
\* tensor w.grad, which is then set to zero in place.
GTStart(r) ==
    LET zeroed == Zeroed(r) @@ t[r]
    IN  /\ pc[r] = "gt_q0"
        /\ qIs' = [qIs EXCEPT ![r] = "w.grad"]
        /\ Store(r, ("grad_prev" :> zeroed[qIs'[r]]) @@ zeroed)
        /\ pc' = [pc EXCEPT ![r] = LoopEntry(0)]
        /\ UNCHANGED <<section, blocked, ite, mail, engineVars>>

\* bf.neighbor_allreduce(w.data, name='local variable w')
GTW(r) ==
    /\ Calls(r, "gt_w", "neighbor_allreduce", "local variable w", t[r].w)
    /\ UNCHANGED t

\* w.data = ... - alpha_gt * q; loss.backward(); grad = w.grad.data.clone();
\* w.grad.data.zero_()
GTWReturn(r) ==
    /\ Returns(r, "gt_w", "neighbor_allreduce", "local variable w", "gt_q", ite[r])
    /\ \E g \in Gradients :
          Store(r, ("w" :> Average(result'[r]) - Step(Q(r)))
                   @@ ("grad" :> t[r]["w.grad"] + g) @@ Zeroed(r))
    /\ UNCHANGED qIs

\* bf.neighbor_allreduce(q, name='local variable q')
GTQ(r) ==
    /\ Calls(r, "gt_q", "neighbor_allreduce", "local variable q", Q(r))
    /\ UNCHANGED t

\* `+ grad`: the gradient of the step before is not taken out again.
GradientChangeNoPrev(r, grad) == grad

\* + grad - grad_prev
GradientChange(r, grad) == grad - t[r].grad_prev

\* q = ... + grad - grad_prev; grad_prev = grad: q is a new tensor.
GTQReturn(r) ==
    /\ Returns(r, "gt_q", "neighbor_allreduce", "local variable q",
               LoopEntry(ite[r] + 1), ite[r] + 1)
    /\ qIs' = [qIs EXCEPT ![r] = "q"]
    /\ Store(r, ("q" :> Average(result'[r]) + GradientChange(r, t[r].grad))
                @@ ("grad_prev" :> t[r].grad))

-----------------------------------------------------------------------------
(* Push-DIGing, lines 209-257 *)

\* bf.out_neighbor_ranks() after the set_topology of line 209.
Out(r) == Coll!Topo!OutNeighbors(r)

\* bf.barrier(): every rank has come as far as rank r.
BarrierOpen(r) ==
    \A s \in Rank : pc[s] # "pd_start" /\ ite[s] >= ite[r]

\* Rank r goes on at `next` with i = n; no collective is called.
Local(r, next, n) ==
    /\ pc' = [pc EXCEPT ![r] = next]
    /\ ite' = [ite EXCEPT ![r] = n]
    /\ UNCHANGED <<section, blocked, qIs, pending, result, failed>>

\* bf.set_topology(...); loss.backward(); w[n:2*n] = grad;
\* grad_prev = w[n:2*n].clone(); bf.win_create(w, ...)
PDStart(r) ==
    /\ pc[r] = "pd_start"
    /\ Coll!Topo!SetTopology(r, PushGraph)
    /\ \E g \in Gradients : Store(r, ("y" :> g) @@ ("grad_prev" :> g))
    /\ Local(r, LoopEntry(0), 0)
    /\ UNCHANGED mail

\* `1.0 / outdegree`: the share the sender keeps is not counted.
PushedNoSelf(r) == t[r].y \div Cardinality(Out(r))

\* What win_accumulate adds to the window of an out-neighbor: w with the
\* weight 1.0 / (outdegree + 1).
Pushed(r) == t[r].y \div (Cardinality(Out(r)) + 1)

\* if i % 10 == 0: bf.barrier(); bf.win_accumulate(w, dst_weights=...);
\* w.div_(1+outdegree)
PDPush(r) ==
    /\ pc[r] = "pd_push"
    /\ \A d \in Out(r) : pc[d] # "pd_start"
    /\ ite[r] % BarrierPeriod = 0 => BarrierOpen(r)
    /\ mail' = [d \in Rank |-> mail[d] + IF d \in Out(r) THEN Pushed(r) ELSE 0]
    /\ Store(r, "y" :> t[r].y \div (1 + Cardinality(Out(r))))
    /\ Local(r, "pd_collect", ite[r])
    /\ UNCHANGED topology

\* w = bf.win_sync_then_collect(...); loss.backward();
\* w[n:2*n] += grad - grad_prev; grad_prev = grad
PDCollect(r) ==
    /\ pc[r] = "pd_collect"
    /\ \E g \in Gradients :
          Store(r, ("y" :> t[r].y + mail[r] + GradientChange(r, g))
                   @@ ("grad_prev" :> g))
    /\ mail' = [mail EXCEPT ![r] = 0]
    /\ Local(r, LoopEntry(ite[r] + 1), ite[r] + 1)
    /\ UNCHANGED topology

\* bf.barrier(); w = bf.win_sync_then_collect(name="w_buff")
PDFinalCollect(r) ==
    /\ pc[r] = "pd_final"
    /\ BarrierOpen(r)
    /\ Store(r, "y" :> t[r].y + mail[r])
    /\ mail' = [mail EXCEPT ![r] = 0]
    /\ Local(r, "final", ite[r])
    /\ UNCHANGED topology

-----------------------------------------------------------------------------
(* The end of every section, lines 59-61, 109-111, 176-178 and 259-262 *)

\* loss.backward(); grad = bf.allreduce(w.grad.data, name='gradient')
Final(r) ==
    \E g \in Gradients :
        /\ Calls(r, "final", "allreduce", "gradient", t[r]["w.grad"] + g)
        /\ Store(r, "w.grad" :> t[r]["w.grad"] + g)

\* The global gradient is printed; w.grad.data.zero_() (not in DG).
FinalReturn(r) ==
    /\ Returns(r, "final", "allreduce", "gradient", "done", ite[r])
    /\ section # "dg" => Store(r, Zeroed(r))
    /\ section = "dg" => UNCHANGED t
    /\ UNCHANGED qIs

-----------------------------------------------------------------------------
Program(r) ==
    \/ DGAllreduce(r) \/ DGAllreduceReturn(r)
    \/ EDNeighborAllreduce(r) \/ EDNeighborAllreduceReturn(r)
    \/ GTBackward(r) \/ GTStart(r)
    \/ GTW(r) \/ GTWReturn(r) \/ GTQ(r) \/ GTQReturn(r)
    \/ PDStart(r) \/ PDPush(r) \/ PDCollect(r) \/ PDFinalCollect(r)
    \/ Final(r) \/ FinalReturn(r)

\* Every rank has run the section to its end.
Terminated ==
    /\ \A r \in Rank : pc[r] = "done"
    /\ UNCHANGED vars

Next == (\E r \in Rank : Program(r)) \/ Terminated

Spec == Init /\ [][Next]_vars

-----------------------------------------------------------------------------
(* Properties *)

\* Every rank is about to start the same iteration, or has left the loop.
Aligned ==
    \A r \in Rank : /\ ~blocked[r]
                    /\ pc[r] \in {LoopHead[section], "final", "done"}
                    /\ ite[r] = ite[0]

\* The sum over the ranks of the tensor each rank has in cell c.
Total(c) == SumFunction([r \in Rank |-> t[r][c]])

\* The gradient a rank holds is of one loss.backward(): backward adds to
\* w.grad, so on every path round a loop, and from a loop to the allreduce
\* after it, a zero_() (lines 57, 103, 152 and 165) comes
\* between two of them.
GradientOfOneStep ==
    \A r \in Rank : t[r]["w.grad"] \in Gradients \cup {0}

\* Distributed gradient descent keeps one iterate: two ranks that have made
\* the same number of steps (line 56) hold the same w_opt, although each
\* passes the gradient of its own data to the allreduce of line 53.
OneIterate ==
    section = "dg" =>
        \A a, b \in Rank : ite[a] = ite[b] => t[a].w = t[b].w

\* Exact diffusion moves the average of the iterates as if there were one
\* iterate and one loss: after every iteration the w over the ranks add up
\* to what the psi of lines 99 and 102 add up to, which is the sum before
\* the iteration minus alpha_ed times the sum of the gradients.  The
\* correction `+ w.data - psi_prev` of line 100 cancels over the ranks
\* because neighbor_allreduce gives every contribution the same total
\* weight.
AverageDescends ==
    section = "ed" /\ Aligned => Total("w") = Total("psi_prev")

\* Gradient tracking tracks: after every iteration the q of the ranks add
\* up to the sum of the gradients at their current iterates (grad_prev,
\* line 169), whatever the gradients are: each rank adds its new gradient
\* and takes out the one before (line 168), and the averaging of q in
\* between moves q among the ranks without changing the sum.
TrackerSumsGradients ==
    section = "gt" /\ Aligned =>
        SumFunction([r \in Rank |-> Q(r)]) = Total("grad_prev")

\* Push-DIGing tracks in every state, not only between iterations: what
\* the ranks hold of y (w[n:2*n]) and what has been pushed to their windows
\* and not collected (line 241) add up to the sum of the gradients the
\* ranks took last (grad_prev, line 251), although the ranks push and
\* collect at their own pace between two barriers (line 232).
TrackedUnderPushes ==
    section = "pd" =>
        SumFunction([r \in Rank |-> t[r].y + mail[r]]) = Total("grad_prev")

\* "where q^0 = grad(w^0)" (line 133; `# q^0 = grad(w^0)`, line 151): when
\* the loop of line 157 is entered, q holds the gradient that the
\* loss.backward() of line 150 left in w.grad.
QStartsAtGradient ==
    [][\A r \in Rank : pc[r] = "gt_q0" /\ pc'[r] # "gt_q0"
                           => Q(r)' = t[r]["w.grad"]]_vars

=============================================================================
