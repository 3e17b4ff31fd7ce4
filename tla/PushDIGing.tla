------------------------------ MODULE PushDIGing ------------------------------
(***************************************************************************)
(* The Push-DIGing section of src/examples/pytorch_logistic_regression.py  *)
(* (lines 195-257; the same program is the method 2 branch of              *)
(* pytorch_nonconvex_logitReg.py), run by every rank over the window       *)
(* manager, the barrier and the topology manager.                          *)
(*                                                                         *)
(* Every rank sets the power-two ring topology, creates the window w_buff  *)
(* over its vector w, and then maxite times: pushes w/(outdegree+1) to     *)
(* each out-neighbor, keeps w/(outdegree+1), and collects what its         *)
(* in-neighbors pushed.  The ranks meet at a barrier only every            *)
(* BarrierPeriod iterations, so pushes and collects of different           *)
(* iterations interleave.                                                  *)
(*                                                                         *)
(* Of the vector w = (u, y, v) the model keeps the push-sum weight v =     *)
(* w[-1], in units of 1/One: it is what x = u/v divides by, and the total  *)
(* of it over the ranks is what the pushes must conserve.  The gradient    *)
(* arithmetic on u and y is local to a rank and left out.                  *)
(***************************************************************************)
EXTENDS Naturals, Sequences, FiniteSets, SequencesExt

CONSTANTS
    Size,           \* bf.size()
    maxite,         \* iterations of the loop (2000 in the source)
    BarrierPeriod,  \* a barrier every so many iterations (10 in the source)
    One,            \* the integer that stands for w[-1] = 1.0
    InitialGraph,   \* the topology the ranks have before set_topology
    Free            \* the holder of a mutex nobody holds

ASSUME /\ Size \in Nat \ {0}
       /\ maxite \in Nat
       /\ BarrierPeriod \in Nat \ {0}
       /\ One \in Nat \ {0}

Rank == 0 .. Size - 1

VARIABLES
    pc,             \* [Rank -> label]: the call each rank is about to make
    ite,            \* [Rank -> 0 .. maxite]: the loop variable i
    outdegree,      \* [Rank -> Nat]: len(bf.out_neighbor_ranks()) read at line 210
    topology, barrierCalls, barrierPassed, mutexHolder,
    winState, localSnapshot, inbox, version, channel, phase, fetched

Win == INSTANCE WindowManager
Topo == INSTANCE Topology
Sync == INSTANCE Synchronizer WITH MutexName <- Rank

clientVars == <<pc, ite, outdegree>>
syncVars == <<barrierCalls, barrierPassed, mutexHolder>>
winVars == <<winState, localSnapshot, inbox, version, channel, phase, fetched>>
engineVars == <<topology, syncVars, winVars>>
vars == <<clientVars, engineVars>>

\* The vector w of rank r is the buffer of its window.
w == localSnapshot

Labels ==
    {"set_topology", "win_create", "win_create_wait", "barrier", "barrier_wait",
     "win_accumulate", "div", "win_sync_then_collect",
     "final_barrier", "final_barrier_wait", "final_collect", "done", "raised"}

TypeOK ==
    /\ pc \in [Rank -> Labels]
    /\ ite \in [Rank -> 0 .. maxite]
    /\ outdegree \in [Rank -> 0 .. Size]
    /\ Win!WinTypeOK
    /\ Sync!SyncTypeOK
    /\ Topo!TopoTypeOK

-----------------------------------------------------------------------------
\* topology_util.PowerTwoRingGraph(size): rank r sends to r + 1, r + 2,
\* r + 4, ... (mod size), itself excluded.
PowerTwoRingGraph(size) ==
    [out |-> [r \in 0 .. size - 1 |->
                SetToSortSeq({(r + 2^k) % size : k \in {j \in 0 .. size : 2^j < size}}, <)],
     undirected |-> FALSE]

\* The program starts here on every rank, with the engine initialized.
Init ==
    /\ pc = [r \in Rank |-> "set_topology"]
    /\ ite = [r \in Rank |-> 0]
    /\ outdegree = [r \in Rank |-> 0]
    /\ topology = [r \in Rank |-> InitialGraph]
    /\ Sync!SyncInit
    /\ Win!WinInit

Goto(r, label) == pc' = [pc EXCEPT ![r] = label]

\* An engine call fails: the exception is not caught and ends the program
\* of that rank.
Raise(r) == Goto(r, "raised") /\ UNCHANGED <<ite, outdegree, engineVars>>

\* `range(maxite + 1)`: the loop runs once more than it should.
LoopEntryOneMore(n) ==
    CASE n = maxite + 1        -> "final_barrier"
      [] n % BarrierPeriod = 0 -> "barrier"
      [] OTHER                 -> "win_accumulate"

\* `if i == 0: bf.barrier()`: the ranks meet before the first iteration only.
LoopEntryBarrierOnce(n) ==
    CASE n = maxite -> "final_barrier"
      [] n = 0      -> "barrier"
      [] OTHER      -> "win_accumulate"

\* Where the loop header `for i in range(maxite)` goes with i = n.
LoopEntry(n) ==
    CASE n = maxite            -> "final_barrier"
      [] n % BarrierPeriod = 0 -> "barrier"
      [] OTHER                 -> "win_accumulate"

-----------------------------------------------------------------------------
\* bf.set_topology(PowerTwoRingGraph(bf.size())); outdegree = len(...)
SetTopology(r) ==
    /\ pc[r] = "set_topology"
    /\ \/ /\ Topo!SetTopology(r, PowerTwoRingGraph(Size))
          /\ outdegree' = [outdegree EXCEPT ![r] = Len(Topo!OutNeighborRanks(r)')]
          /\ Goto(r, "win_create")
          /\ UNCHANGED <<ite, syncVars, winVars>>
       \/ /\ ~Topo!IsValidTopology(PowerTwoRingGraph(Size))
          /\ Raise(r)

\* The assignment w[-1] = 1.0 of line 223 is forgotten.
WinCreateZeroWeight(r) ==
    /\ pc[r] = "win_create"
    /\ Win!WinCreate(r, 0, TRUE)
    /\ Goto(r, "win_create_wait")
    /\ UNCHANGED <<ite, outdegree>>

\* w = zeros; w[-1] = 1.0; bf.win_create(w, name="w_buff", zero_init=True)
WinCreate(r) ==
    /\ pc[r] = "win_create"
    /\ \/ /\ Win!WinCreate(r, One, TRUE)
          /\ Goto(r, "win_create_wait")
          /\ UNCHANGED <<ite, outdegree>>
       \/ /\ Win!WinCreateOutcome(r) # "OK"
          /\ Raise(r)

\* win_create returns and the loop is entered with i = 0.
WinCreateReturn(r) ==
    /\ pc[r] = "win_create_wait"
    /\ Win!WinCreateReturn(r)
    /\ Goto(r, LoopEntry(0))
    /\ UNCHANGED <<ite, outdegree>>

\* Rank r at `at` calls bf.barrier() and blocks in it at `wait`.
BarrierCalled(r, at, wait) ==
    /\ pc[r] = at
    /\ Sync!BarrierEnter(r)
    /\ Goto(r, wait)
    /\ UNCHANGED <<ite, outdegree, topology, winVars>>

\* The bf.barrier() rank r is blocked in returns; r goes on at `next`.
BarrierReturned(r, wait, next) ==
    /\ pc[r] = wait
    /\ Sync!BarrierReturn(r)
    /\ Goto(r, next)
    /\ UNCHANGED <<ite, outdegree, topology, winVars>>

\* if i % 10 == 0: bf.barrier()
Barrier(r) == BarrierCalled(r, "barrier", "barrier_wait")

BarrierReturn(r) == BarrierReturned(r, "barrier_wait", "win_accumulate")

\* `1.0 / outdegree`: the share the sender keeps is not counted.
DstWeightsNoSelf(r) ==
    [d \in Topo!OutNeighbors(r) |-> [num |-> 1, den |-> outdegree[r]]]

\* `for rank in range(bf.size())`: the sender itself is a destination.
DstWeightsAllRanks(r) ==
    [d \in Rank |-> [num |-> 1, den |-> outdegree[r] + 1]]

\* dst_weights = {rank: 1.0 / (outdegree + 1) for rank in bf.out_neighbor_ranks()}
DstWeights(r) ==
    [d \in Topo!OutNeighbors(r) |-> [num |-> 1, den |-> outdegree[r] + 1]]

\* bf.win_accumulate(w, name="w_buff", dst_weights=..., require_mutex=True)
WinAccumulate(r) ==
    /\ pc[r] = "win_accumulate"
    /\ \/ /\ Win!WinAccumulate(r, w[r], DstWeights(r))
          /\ Goto(r, "div")
          /\ UNCHANGED <<ite, outdegree>>
       \/ /\ Win!WinAccumulateOutcome(r, DstWeights(r)) # "OK"
          /\ Raise(r)

\* The scaling of the sender's own share is left out.
DivSkipped(r) ==
    /\ pc[r] = "div"
    /\ Goto(r, "win_sync_then_collect")
    /\ UNCHANGED <<ite, outdegree, engineVars>>

\* w.div_(1 + outdegree)
Div(r) ==
    /\ pc[r] = "div"
    /\ Win!WinLocalWrite(r, w[r] \div (1 + outdegree[r]))
    /\ Goto(r, "win_sync_then_collect")
    /\ UNCHANGED <<ite, outdegree>>

\* w = bf.win_sync_then_collect(name="w_buff"); x.data = w[:n]/w[-1]; the
\* gradient step; and the loop header of the next iteration.
WinSyncThenCollect(r) ==
    /\ pc[r] = "win_sync_then_collect"
    /\ \/ /\ Win!WinSyncThenCollect(r)
          /\ ite' = [ite EXCEPT ![r] = @ + 1]
          /\ Goto(r, LoopEntry(ite[r] + 1))
          /\ UNCHANGED outdegree
       \/ /\ Win!WinSyncOutcome(r) # "OK"
          /\ Raise(r)

\* The barrier of line 255 is left out: the last collect follows the loop.
FinalCollectUnsynchronized(r) ==
    /\ pc[r] = "final_barrier"
    /\ Goto(r, "final_collect")
    /\ UNCHANGED <<ite, outdegree, engineVars>>

\* bf.barrier() after the loop
FinalBarrier(r) == BarrierCalled(r, "final_barrier", "final_barrier_wait")

FinalBarrierReturn(r) == BarrierReturned(r, "final_barrier_wait", "final_collect")

\* w = bf.win_sync_then_collect(name="w_buff"); x.data = w[:n]/w[-1]; the
\* rank goes on at `exit`.
FinalCollect(r, exit) ==
    /\ pc[r] = "final_collect"
    /\ \/ /\ Win!WinSyncThenCollect(r)
          /\ Goto(r, exit)
          /\ UNCHANGED <<ite, outdegree>>
       \/ /\ Win!WinSyncOutcome(r) # "OK"
          /\ Raise(r)

\* The statements of rank r, in program order; what follows the section
\* starts at `exit`.
Section(r, exit) ==
    \/ SetTopology(r) \/ WinCreate(r) \/ WinCreateReturn(r)
    \/ Barrier(r) \/ BarrierReturn(r)
    \/ WinAccumulate(r) \/ Div(r) \/ WinSyncThenCollect(r)
    \/ FinalBarrier(r) \/ FinalBarrierReturn(r) \/ FinalCollect(r, exit)

\* The section on its own: the program of rank r ends with it.
Program(r) == Section(r, "done")

\* The engine's background service of the requests queued from s to d.
Service(s, d) ==
    /\ \/ Win!AccumulateLock(s, d) \/ Win!AccumulateRead(s, d)
       \/ Win!AccumulateWrite(s, d) \/ Win!AccumulateUnlock(s, d)
    /\ UNCHANGED clientVars

\* Every rank has run the section to its end.
Terminated ==
    /\ \A r \in Rank : pc[r] = "done"
    /\ UNCHANGED vars

Next ==
    \/ \E r \in Rank : Program(r)
    \/ \E s, d \in Rank : Service(s, d)
    \/ Terminated

Spec == Init /\ [][Next]_vars

-----------------------------------------------------------------------------
(* Properties *)

Sum(f) == SumFunction(f)

\* The weight queued in the channels, not yet added to any inbox.
InFlight ==
    Sum([p \in Rank \X Rank |-> FoldLeft(+, 0, channel[p[1]][p[2]])])

\* The weight rank r holds itself.  Between its push (line 235) and the
\* scaling of its own share (line 240) the buffer still counts the shares
\* that are already on their way.
Held(r) == IF pc[r] = "div" THEN w[r] \div (1 + outdegree[r]) ELSE w[r]

\* Push-sum conserves the total weight: whatever the interleaving of the
\* pushes (win_accumulate, line 235), the local scaling (w.div_, line 240),
\* the background accumulation and the collects (line 241), the weight held
\* in the buffers, in the inboxes and in the channels adds up to 1.0 for
\* every rank that has created its window.  A lost update, a share sent
\* with the wrong weight or a collect that drops or doubles a contribution
\* breaks it.
MassConserved ==
    Sum([r \in Rank |-> Held(r)]) + Sum(inbox) + InFlight
        = One * Cardinality({r \in Rank : winState[r] # "none"})

\* When every rank has finished (after the barrier of line 255 and the
\* collect of line 256), no weight is left in an inbox or in a channel:
\* every push has been collected by its destination, and the buffers alone
\* hold the whole weight.
NothingLeftBehind ==
    (\A r \in Rank : pc[r] = "done") =>
        /\ Sum(w) = One * Size
        /\ \A r \in Rank : inbox[r] = 0
        /\ InFlight = 0

\* The divisor of x.data = w[:n]/w[-1] (lines 243 and 257) is never zero:
\* a rank that has its window always holds some weight, even when no
\* neighbor has pushed to it yet.
WeightPositive ==
    \A r \in Rank : winState[r] # "none" => w[r] > 0

\* No engine call of the section fails: in particular no rank pushes to a
\* neighbor that has not created its window yet (WindowNotFound), although
\* the ranks reach win_create (line 226) at different times.
NoRankRaises ==
    \A r \in Rank : pc[r] # "raised"

\* The weight handed to rank d that d has not collected yet: what the
\* service has added to its window and what is still queued for it.
Mail(d) == inbox[d] + Sum([s \in Rank |-> FoldLeft(+, 0, channel[s][d])])

\* The variables of the section read as those of push-sum.  win_accumulate
\* is the push; the scaling that follows it (pc = "div", see Held) and the
\* steps of the background service change nothing push-sum can see.
PowerTwoRingOut == [r \in Rank |-> Topo!OutSet(PowerTwoRingGraph(Size), r)]

PS == INSTANCE PushSum WITH
        Out <- PowerTwoRingOut,
        joined <- {r \in Rank : winState[r] # "none"},
        held <- [r \in Rank |-> Held(r)],
        mail <- [d \in Rank |-> Mail(d)]

\* The section implements push-sum: every step of a rank or of the
\* background service is a step of push-sum with atomic pushes, or changes
\* nothing of it.  The shares queued by win_accumulate (line 235), the
\* in-place scaling of line 240 and the collect of line 241 are together
\* what one push and one collect of the algorithm are, whatever the
\* service does in between and in whatever order the requests of two
\* senders reach one window: no share is lost, doubled, sent with another
\* weight or to another rank, and the topology the shares follow is the
\* power-two ring.
ImplementsPushSum == PS!Spec

=============================================================================
