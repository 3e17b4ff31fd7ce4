# TLA+ models of bluefog's launcher and example programs

This directory holds TLA+ specifications of the code in `src/`, the TLC
configurations that check them, and `PROJECT.json`, which maps every
definition to the lines it models.  Run a configuration with

    tlc -workers 2 -config PushDIGing3.cfg MCPushDIGing

## 1. The system

bluefog is a library for decentralized optimization: every process (a *rank*)
holds a part of the problem and exchanges partial results with its neighbors in
a communication graph.  `spec.md` describes the communication engine; the
repository's `src/` holds the programs around it.

| Part | Where | State | Operations |
|---|---|---|---|
| Push-DIGing client | `src/examples/pytorch_logistic_regression.py` 195-277, `pytorch_nonconvex_logitReg.py` 255-332 | the vector `w` (its last entry is the push-sum weight), the loop variable `i`, `outdegree` | `set_topology`, `win_create`, `barrier` every 10th iteration, `win_accumulate`, `w.div_`, `win_sync_then_collect`, final `barrier` and collect |
| Diffusion clients (distributed gradient, exact diffusion, gradient tracking) | the same files, lines 46-193 and 83-242 | the tensors `w`, `psi`, `psi_prev`, `q`, `grad`, `grad_prev` and `w.grad`, the loop variable | `loss.backward()`, `allreduce`, `neighbor_allreduce`, the in-place `zero_()`; on rank 0 a blocking `plt.show()` between phases |
| Launcher `ibfrun` | `src/bluefog/run/interactive_run.py` | the parsed arguments, the child processes | `parse_args`, the checks of `main`, `Popen(ipcontroller)`, `sleep(3)`, `run(bfrun ... ipengine)`, `exit(0)` |
| Allreduce test | `src/test/tensorflow_ops_test.py` | the loop over (dtype, dim), `tensor`, `summed`, `threshold` | draws a tensor, compares `allreduce(t)` with `t * size` under a threshold chosen from `size` and the dtype, or leaves the loop |
| WindowManager | engine, not in `src/` | per window: buffer, remotely added contributions, version, mutex | `winCreate`, `winAccumulate`, `winSyncThenCollect`, `winFree` |
| Synchronizer | engine, not in `src/` | barrier counts, mutex holders | `barrier`, `acquire`, `release` |
| TopologyManager | engine, not in `src/` | a graph snapshot per rank | `setTopology`, `inNeighborRanks`, `outNeighborRanks` |
| CollectiveEngine, NeighborExchangeEngine | engine, not in `src/` | pending named collectives | `allreduce`, `neighborAllreduce` |
| RankRegistry | engine, not in `src/` | initialized or not | `init`, `shutdown`, `rank`, `size` |

How they interact.  The launcher starts the processes; each process runs a
client program; the client calls the engine.  In the Push-DIGing program the
ranks are coupled in three ways: the barrier (every 10th iteration and once
after the loop), the rendezvous inside `win_create`, and the windows, into which
the in-neighbors of a rank add their shares asynchronously while the owner
scales and collects its own buffer.  A background service of the engine applies
the queued shares under the per-window mutex.  In the sections before it the
ranks are coupled by the collectives alone: an `allreduce` returns when every
rank has called it, a `neighbor_allreduce` when the in-neighbors of the caller
have, and a call that waits longer than the engine's deadline fails on every
rank that takes part.

What is hard.  Nothing in the source is in itself concurrent, but every line
of a client runs on every rank at once, and the engine works in the background:

* pushes of several senders and several iterations interleave with the owner's
  `w.div_` and `win_sync_then_collect`; the total push-sum weight must survive;
* `win_accumulate` returns before its shares arrive, and the sender scales its
  buffer in a separate step;
* the final collect must see every share: it is ordered after the pushes only by
  the barrier of line 255;
* the ranks reach `win_create` at different times; a push to a window that does
  not exist yet raises;
* barriers, the rendezvous and the blocking collect can wait for one another;
* `neighbor_allreduce` does not keep the ranks together: a rank runs iterations
  ahead of the ranks it sends to, its tensors wait there, and calls are matched
  by name and order only;
* rank 0 alone stops in `plt.show()` between two sections, for as long as the
  user likes, while the others go on to the next collective;
* nothing but the collectives makes the ranks change section together: a rank
  replaces the topology and creates its window while another is still in the
  section before;
* the recursions are right only if certain sums over the ranks are kept
  (the trackers against the gradients, the iterates against their
  predecessors), by every rank, in every iteration, whatever order the ranks
  run in; and a name such as `q` can stand for a tensor that another statement
  changes in place;
* in the launcher, a background controller outlives the invocation that started
  it, `sleep(3)` stands in for a readiness check, and `stop` is a second
  invocation that runs beside a `start`;
* the test compares a sum that rounds at every addition with one rounded
  product, under thresholds that change at 3, 10 and 15 ranks.

`PROJECT.json` lists these hazards with their source lines and the properties
that cover them.

## 2. Modules

| Module | Models | From |
|---|---|---|
| `Synchronizer` | `barrier()` as enter and return, the named mutex | `spec.md` |
| `Topology` | one graph snapshot per rank, `set_topology` with its validation, the neighbor queries | `spec.md` |
| `WindowManager` | `win_create` with its rendezvous, `win_accumulate` and the service that applies a request (lock, read, write, unlock), `win_sync_then_collect`, the owner's local write; instantiates `Topology` and `Synchronizer` | `spec.md` |
| `PushDIGing` | the Push-DIGing section, one action per statement that calls the engine, for every rank; instantiates the three engine modules over shared variables, and `PushSum` under a refinement mapping | source |
| `PushSum` | what the window exchange promises: push-sum with atomic pushes (`Join`, `Push`, `Collect`) | source (the algorithm the statements of lines 213-241 carry out) |
| `MCPushDIGing` | the initial topology and the unit of weight for TLC | - |
| `Collective` | `allreduce` and `neighbor_allreduce`: the call, the return when every sender has delivered, `Timeout` with fail-together; instantiates `Topology` | `spec.md` |
| `Diffusion` | the sections DG, ED and GT of the logistic example, a call and a return per collective, the plot on rank 0; instantiates `Collective` | source |
| `MCDiffusion` | the initial topology for TLC | - |
| `Logistic` | the logistic example as a whole: the sections of `Diffusion`, then those of `PushDIGing`, then the closing `allreduce` and plot, over one program counter | source |
| `MCLogistic` | the initial topology and the unit of weight for TLC | - |
| `Nonconvex` | the nonconvex example as a whole: the command line, the `--method` dispatch into one of four sections and `finalize_plot`, over the statements of `Diffusion`, `PushDIGing` and `Logistic` | source |
| `MCNonconvex` | the initial topology, the unit of weight and the command lines for TLC | - |
| `Kernels` | the recursions of the four methods with the tensors they compute: every assignment to `w`, `psi`, `psi_prev`, `q`, `grad`, `grad_prev` and `y`, the binding of the name `q`, and the average a collective returns; instantiates `Collective` over integer tensors | source; the average from `spec.md` |
| `MCKernels` | the two topologies, the unit and the gradients for TLC | - |
| `IbfRun` | `parse_args()` and `main()` statement by statement, several invocations side by side, and the child processes as environment | source |
| `MCIbfRun` | two invocations, every combination of arguments | - |
| `AllreduceTest` | `test_bluefog_allreduce_cpu` as one rank runs it: the loop over (dtype, dim), the allreduce, the threshold ladder with its `break`, the assertion | source; the sum of the allreduce from `spec.md` |
| `MCAllreduceTest` | the precisions of the dtypes and the tensor elements for TLC | - |

The engine modules declare only operations: each is an action over the engine's
variables that a client module conjoins with its own program counter, so the
compositions are the `Next` of `PushDIGing`, `Diffusion`, `Logistic`,
`Nonconvex` and `Kernels`.

### The client and the engine

`pc[r]` is the statement rank `r` is about to run; a blocking call is two
actions (the call, and its return when the engine lets it).  An engine call
that fails leaves the engine unchanged and sends the rank to `raised`: the
programs catch nothing.

Data is abstracted to what the properties tell apart.  Of the vector
`w = (u, y, v)` the model keeps `v = w[-1]`, the push-sum weight: the pushes,
the scaling and the collect act on the whole vector alike, `x = u / v` divides by
it, and the gradient steps on `u` and `y` are local to a rank.  The weight is a
natural number in units of `1/One`; `One` is `(outdegree + 1)^(Size * maxite)`,
so that every division by `outdegree + 1` is exact.  `WeightConserved` fails if
the unit is chosen too small, so the choice is checked and not assumed.

The window manager is written from `spec.md` with these readings, which the
contract leaves open:

* a window has the owner's buffer (`localSnapshot`) and the contributions added
  remotely since the last synchronize (`inbox`); `zero_init=True` clears the
  latter, and `win_sync_then_collect` folds it into the buffer and returns the
  buffer;
* `win_create` returns when every rank has created its window;
* `win_accumulate` takes `weight * buffer` when it is called and queues one
  request per destination; requests of one sender to one destination are applied
  in order;
* the service applies a request in four steps, so that the read and the write of
  the inbox are separate and the mutex is what keeps two senders apart.

### Push-sum, and the section as an implementation of it

`PushSum` is the algorithm without the engine: a rank that takes part holds a
weight; `Push(r)` splits it into `outdegree + 1` equal shares and puts one into
the mail of every out-neighbor in one step; `Collect(r)` adds the mail of `r`
to what it holds.  `PushDIGing` reads its own state as that of `PushSum`:

| `PushSum` | `PushDIGing` |
|---|---|
| `joined` | the ranks whose window exists |
| `held[r]` | `w[r]`, and `w[r] / (1 + outdegree)` for a rank between its `win_accumulate` (line 235) and its `w.div_` (line 240) |
| `mail[d]` | the inbox of the window of `d` plus every share still queued for `d` in a channel |
| `Out` | the out-neighbors on the power-two ring |

`ImplementsPushSum` is `PushSum!Spec` under this mapping.  `win_create` is a
`Join`, `win_accumulate` a `Push`, a collect a `Collect`; the steps of the
service, the barriers, `w.div_` and `set_topology` change nothing the mapping
shows.  A share that the service lost, applied twice or applied over a
concurrent write would change `mail` in a step that is none of the three.

### The diffusion programs and the collectives

`Diffusion` has one label per statement that calls the engine or plots;
`blocked[r]` says that rank `r` is inside that call.  The statements are written
with four schemas: `Calls` (the call is made, or fails at once because the
collective has failed already), `Returns` (the call returns and the rank goes to
the next statement, through the loop header where there is one; or the call
fails with `Timeout`), `Plots` (`if bf.rank() == 0:` and the blocking
`plt.show()`), and `WindowClosed` (the user closes the window).  TLC's traces and
coverage name the schema; the statement is the one at `pc[r]`.

A tensor is abstracted to the pair of the statement and the iteration that
passed it.  That is what `CollectivesMatch` needs to tell apart, and it is all
that the engine's matching depends on: the arithmetic between two calls is local
to a rank.

The collective engines are written from `spec.md` with these readings:

* a call hands the tensor to every receiver (`allreduce`: every rank;
  `neighbor_allreduce`: the out-neighbors and the caller itself) and blocks; it
  returns with the oldest pending tensor of each sender (`allreduce`: every rank;
  `neighbor_allreduce`: the in-neighbors and the caller), so calls are matched by
  name and by order;
* time is not modelled.  The deadline of a blocked call passes only if a sender
  it lacks is *away*: its program has ended or failed, or it waits in
  `plt.show()`.  A rank that is computing or blocked in an engine call is
  assumed to make its next call within the deadline;
* a collective that has timed out has failed for good: every rank blocked in a
  call of that name fails, and so does every later call of it.

### The recursions

`Diffusion` and `PushDIGing` say who calls what and when; `Kernels` says what
is computed.  It has the statements of the same four sections, one section per
behavior (they share no tensor), and keeps the tensors: `t[r]` holds those of
rank `r` under the name the program first gives them, one integer in units of
`1/One` for a tensor of `n` entries.  The step size `1e-1` is a division by
`StepDen`.  The loss is abstracted to what `loss.backward()` does with it: it
adds a gradient to `w.grad`, and the gradient is any member of `Gradients`,
chosen anew on every rank at every call.  What holds in the model therefore
holds for every loss and every data set, the two of the examples included.

A collective is a `Call` and a `Return` of `Collective`, with integers as
tensors; the client takes the average of what the call aggregated (`Average`),
which is `allreduce` with its default `average=True` and `neighbor_allreduce`
with its default weights, uniform over the in-neighbors and the caller.

Names are bound to tensors.  `qIs[r]` is the tensor the name `q` refers to on
rank `r`: `q = w.grad.data` (line 151) binds it to `w.grad` itself, and
`q = bf.neighbor_allreduce(...) + grad - grad_prev` (line 168) to a new tensor.
`Q(r)` reads through the binding, so a `zero_()` or a `backward()` on `w.grad`
is seen by `q` for as long as the two are one tensor.  The other names of the
sections are bound once, or always to a copy (`clone()`), and need no binding
in the model.

The arithmetic of a section is in operators of its own, one for each
expression of the source: `DGStep` (`alpha * grad` of the averaged gradient),
`Phi` (`psi + w.data - psi_prev`), `GradientChange` (`grad - grad_prev`, shared
by gradient tracking and Push-DIGing), `Pushed` (the share `1 / (outdegree + 1)`
that `win_accumulate` sends) and `Zeroed`.  The actions are the statements that
use them.

The Push-DIGing section of `Kernels` keeps the tracker `y = w[n:2*n]` with the
gradient arithmetic of lines 219-224 and 245-251.  The window exchange is taken
as `PushSum` has it, a push being one step that puts the shares into `mail`;
`ImplementsPushSum` is what justifies that.  The barrier is a guard: a rank
passes when every rank has come as far.  `v = w[-1]` is in `PushDIGing`; `u`
enters only `x = u / v`, the point at which the gradient is taken, and the
gradient is arbitrary here, so `u` is left out.

### The whole programs

`Logistic` instantiates `Diffusion` and `PushDIGing` over one set of variables.
A rank that leaves gradient tracking is at the label `pd`; `CloneData` (lines
204-207) takes it to `set_topology`, the first statement of `PushDIGing`; the
end of that section is followed by `PDFinal` (the `allreduce` of line 262,
again under the name `'gradient'`) and `PDPlot` (rank 0 at line 277).  Every
step is a statement of one section with the variables of the other unchanged,
so a rank in Push-DIGing runs beside one in gradient tracking or at its plot.

`Nonconvex` instantiates `Diffusion`, `PushDIGing` and `Logistic` over the same
variables and adds `args`.  Its sections are the statements of those modules;
what it adds is what follows a section: `Dispatch(k)`, the label reached from
the k-th of the `if args.method == k:`, and `FinalizePlot`, which blocks only
with `--plot-interactive`.  `--method 2` runs the Push-DIGing section (lines
255-332) with its closing `allreduce`.

### The launcher

`IbfRun` follows `main()` line by line.  A statement that only tests and
either goes on or ends the invocation is a `Check`: it `Passes` to the next
label or `Ends` with an exit status or an exception, and changes nothing else.
In this order: the usage error of `parse_args`, the
`-v` exit, the two environment checks, the command check, the branch on remote
hosts, and for a local `start` the `nbextension` call, the background
controller, the sleep, the foreground `bfrun`, and `exit(0)`.  The statements
after the `raise` of line 146 can never run and are not modelled.  Lines
98-100 compute the host lists with `network_util`, which is not in `src/`; of
their result the model keeps `remote`, whether a remote host is left.

`ipcluster`, the controller and the engines are other programs.  The two
`subprocess.run` calls (lines 135 and 140) block: each is a step that starts
the child and a guard on the next statement that the child has returned
(`NbextensionReturns`, `EnginesReturn`), and the model lets a child return at
any time or never.  `subprocess.Popen` (line 137) does not block: the
controller comes up or exits at any time.  `-np` is `None` when it is not
given, and `NoNp` is Python's `not parsed_args.np`, true of `None` and of 0.
Because
`ibfrun start` stays in the foreground while its engines run, `ibfrun stop` is
necessarily another process; the module therefore runs a set of invocations
concurrently.

### The allreduce test

`AllreduceTest` is one rank's run of the test in a world of `size` ranks; the
other ranks do the same, since every rank seeds its generator with 12345 before
each draw (`RandomUniform`).  `case` counts through
`itertools.product(dtypes, dims)`.  A tensor is abstracted to one element, the
natural number `e` for the real `e / 2^Unit`; 17 * dim elements differ from one
only in how likely the worst element is among them.  Negative elements mirror
the positive ones and are left out.

`Round(n, p)` rounds to `p` significant bits, to nearest and ties to even;
`Plus` is an addition in the dtype; `PairwiseSum` is the sum of the allreduce as
`spec.md` (section 4.3) has it: accumulated in the dtype of the tensor in a
fixed pairwise order.  `Multiplied` is `tensor * size`, one rounded product.
The thresholds are numbers of 1e-4; `Within` compares without division.

## 3. Runs

| Run | Configuration | Bounds | Properties | Result |
|---|---|---|---|---|
| `pushdiging_three_ranks` | `PushDIGing3.cfg` | 3 ranks, 1 iteration | `TypeOK`, `NothingLeftBehind`, `WeightPositive`, `NoRankRaises`, `ImplementsPushSum` | holds, 475 391 states |
| `diffusion_collectives` | `Diffusion.cfg` | 4 ranks on a one-way ring, 5 iterations per loop | `TypeOK`, `CollectivesMatch`, `LeadBounded` | holds, 4 097 states |
| `diffusion_plot` | `DiffusionPlot.cfg` | 3 ranks, 2 iterations | `NoRankRaises` | violated |
| `nonconvex_methods` | `Nonconvex.cfg` | 2 ranks, 3 iterations, a barrier every 2nd, 8 command lines | `TypeOK`, `NoRankRaises`, `WeightConserved`, `DriftBounded`, `RunsToTheEnd` | holds, 59 222 states |
| `logistic_sections` | `Logistic.cfg` | 3 ranks, 1 iteration of each loop | `TypeOK`, `SwapBetweenRounds` | holds, 496 261 states |
| `logistic_ends` | `LogisticLive.cfg` | 2 ranks, 3 iterations, a barrier every 2nd | `EndsTogether` | holds, 29 602 states |
| `ibfrun_outcomes` | `IbfRun.cfg` | 2 invocations, 80 argument records each, 4 environments | `TypeOK`, `StatusFollowsArguments`, `NothingStartedUnchecked` | holds, 290 384 states |
| `ibfrun_stop` | `IbfRunStop.cfg` | as above | `StopLeavesNoController` | violated |
| `allreduce_test` | `AllreduceTest.cfg` | 1 to 16 ranks, 5 dtypes, 3 dims, 5 elements per dtype | `TypeOK`, `ZeroThresholdIsMet`, `IntegersAlwaysChecked` | holds, 3 294 states |
| `allreduce_test_passes` | `AllreduceTestPasses.cfg` | as above | `PassesOnCorrectSum` | violated |
| `kernels_conservation` | `Kernels.cfg` | 3 ranks, 2 iterations, 2 gradients, a barrier every iteration, each of the 4 sections | `TypeOK`, `GradientOfOneStep`, `OneIterate`, `AverageDescends`, `TrackerSumsGradients`, `TrackedUnderPushes` | holds, 955 891 states |
| `kernels_q0` | `KernelsQ0.cfg` | as above | `QStartsAtGradient` | violated |

What the properties say:

* `ImplementsPushSum` - every step of the section and of the service is a
  `Join`, a `Push` or a `Collect` of `PushSum` for the right rank with the
  right shares, or leaves `joined`, `held` and `mail` as they are.
* `WeightConserved` - the weight in the buffers, the inboxes and the channels adds
  up to one unit per created window, in every state.  A rank between its push
  and its `w.div_` is counted with the scaled value.  It is what `PushSum`
  conserves, stated of the program over several iterations (it is
  `MassConserved` of `PushDIGing`, checked in the Push-DIGing branch of
  `Nonconvex`).
* `NothingLeftBehind` - when every rank is done, inboxes and channels are empty.
* `WeightPositive` - the divisor of `x = w[:n]/w[-1]` is never zero.
* `NoRankRaises` - no engine call of the section fails.
* `DriftBounded` - two ranks in the Push-DIGing branch are never more than
  `BarrierPeriod` iterations apart.
* `CollectivesMatch` - what a call returns was passed by every sender at the
  same statement and iteration as the caller's own tensor.
* `LeadBounded` - under every name at most `Size` tensors of one sender wait for
  one receiver: a rank is never more than `Size` calls ahead of a rank it sends
  to.  The bound is reached on the one-way ring.
* `NoRankRaises` in `Diffusion` - no call fails.  The logistic example does not
  have this property: with rank 0 in `plt.show()` after exact diffusion, rank 1
  times out in the `neighbor_allreduce` of line 159 (see the finding in
  `PROJECT.json`).
* `NoRankRaises` in `Nonconvex` - the same property holds for the nonconvex
  example, with and without `--plot-interactive`: one section runs, and the plot
  is the last thing it does.
* `RunsToTheEnd` - every rank finishes; with `--plot-interactive` a rank may
  stay at the display instead, and no other rank waits for it.
* `SwapBetweenRounds` - a step that changes the topology is never taken while a
  tensor sent by a `neighbor_allreduce` waits for its receiver.  There is no
  barrier between gradient tracking and `bf.set_topology` (line 209); the
  `allreduce` of line 178 is what separates them.
* `EndsTogether` - eventually every rank has finished, or every rank has
  raised, or the ranks that have done neither wait for a rank the user keeps at
  its display.  It holds although `NoRankRaises` does not hold of the program:
  the `Timeout` that rank 0's plot causes reaches every rank.
* `StatusFollowsArguments` - the exit status is the one the order of `main()`'s
  checks prescribes for the arguments and the environment.  `-np 0` ends with
  the usage error of a missing `-np`; a negative count passes and is handed to
  `bfrun`.
* `NothingStartedUnchecked` - a child process exists only for an invocation that
  passed every check, `ipcluster` and a controller only for `start`, and the
  controller only once `ipcluster` has returned.
* `StopLeavesNoController` - after a successful `stop` no controller runs.  The
  code does not do this (see the finding in `PROJECT.json`): `stop` only runs
  `bfrun ... ipengine stop`, and the comment at line 123 asks how to stop
  properly.

* `ZeroThresholdIsMet` - where the test demands `diff <= 0` the pairwise sum
  equals the product.  For floating-point tensors that is up to 3 ranks; the
  sum of equal values is still exact at 4 and no longer at 5.
* `IntegersAlwaysChecked` - a test that ends without a failure has checked
  every integer case, for every size: the `break` of line 88 leaves the whole
  loop, and skips nothing that matters only because the integer dtypes stand
  first in the list of line 69.
* `PassesOnCorrectSum` - the test does not fail on a sum accumulated as the
  contract says.  It does: the thresholds 1e-4 and 5e-4 are absolute and the
  same for every dtype, and float16 has a spacing of 0.25 between 256 and 512.
  At 5 ranks the element 64.0625 sums to 320.5 and multiplies to 320.25 (see
  the finding in `PROJECT.json`).  float32 and float64 stay within the
  thresholds for every size.

* `GradientOfOneStep` - `w.grad` is zero or one gradient: `loss.backward()`
  adds to it, and every path round a loop, and from a loop to the `allreduce`
  that follows it, has passed a `zero_()` (`Zeroed`).  A section that left one
  out would apply the gradient of an earlier iterate again.
* `OneIterate` - in distributed gradient descent two ranks that have made the
  same number of steps hold the same `w_opt`, although each computes the
  gradient of its own data.
* `AverageDescends` - in exact diffusion, between iterations, the `w` of the
  ranks add up to what their `psi_prev` add up to: the correction
  `+ w.data - psi_prev` cancels over the ranks, and the average iterate moves by
  the average gradient alone.
* `TrackerSumsGradients` - in gradient tracking, between iterations, the `q` of
  the ranks add up to the sum of their last gradients (`grad_prev`).  It holds
  with the `q` the code starts from, which is not the one its comment names.
* `TrackedUnderPushes` - in Push-DIGing the `y` the ranks hold and the shares of
  `y` in their windows add up to the sum of their last gradients, in every
  state: between two barriers the ranks push and collect at their own pace, and
  a share may be collected an iteration after it was pushed, or only by the last
  collect.
* `QStartsAtGradient` - the loop of gradient tracking is entered with `q` equal
  to the gradient of line 150, as the comments of lines 133 and 151 say.  It is
  not: `q` is the tensor `w.grad`, which line 152 sets to zero (see the finding
  in `PROJECT.json`).

Every property of a passing run has a mutant in `PROJECT.json`: a plausible
change of one mapped definition (an off-by-one in the loop bound, a push
that leaves out the sender's own share, a skipped barrier, a return from the
`allreduce` without waiting, a threshold of zero up to ten ranks, an `-np` that is only
tested for `None`, a recursion that does not take out the gradient of the
step before, a step along the local gradient instead of the global one, ...)
under which TLC finds the property violated.

### Bounds

Three ranks is the smallest world in which the power-two ring gives a window two
senders, which is what the mutex and the interleaving of accumulations are
about; one iteration there already has every rank push, scale and collect
against the two others in every order.  What needs several iterations is
checked in the Push-DIGing branch of the nonconvex run, with two ranks, three
iterations and a barrier period of two: a rank running a full barrier period
ahead, requests of different iterations in one channel, and the barrier inside
the loop being reached more than once.  The loop constants
of the source (2000 iterations, a barrier every 10) enter the model as `maxite`
and `BarrierPeriod`.

The diffusion runs use a one-way ring as the topology after `bf.init()`: every
rank aggregates one neighbor only, which is the graph on which a rank can run
furthest ahead of its receiver.  Four ranks and five iterations make the loops
longer than the ring, so that the bound of `LeadBounded` is reached by a rank
that could go further if nothing held it back.  The state spaces are small
because every section ends with an `allreduce`, which no rank leaves before all
have entered it.  For the nonconvex example the command lines are `--method` 0,
1, 2 and 3 (which names no section), each with and without `--plot-interactive`.

The whole logistic program is run twice.  With three ranks and one iteration of
each loop the ranks are spread over all four sections at once, and the
power-two ring differs from the ring it replaces, which is what
`SwapBetweenRounds` is about.  With two ranks, three iterations and a barrier
every second one, the loops and the barrier inside the Push-DIGing loop repeat,
and every place where a rank can be kept waiting (three plots, the collectives,
the barriers, `win_create`) is reached under fairness.

The recursions run on three ranks: on the one-way ring every rank averages
with one neighbor, so that the iterates of the ranks differ (with two ranks
`neighbor_allreduce` is an `allreduce`), and the power-two ring of Push-DIGing
gives every window two senders.  Two gradients, `+1.0` and `-1.0`, chosen
independently at every `backward()`, make the gradients of the ranks and of
the iterations differ in every way that a sum can tell apart.  Two iterations
reach the second pass of each loop, where `psi_prev`, `grad_prev` and the
rebound `q` are used for the first time.  With a barrier in every iteration a
share is still collected in the iteration it was pushed in, in the next one, or
by the last collect; ranks that are a whole iteration apart are in the
nonconvex run.  `One` is chosen so that every division of a run is exact
(`MCOne`): a division that rounded would break the sums, so the choice is
checked by the properties themselves.

The allreduce test runs in every world from 1 to 16 ranks, so that each rung of
the threshold ladder (3, 10, 15) has sizes on both sides.  The elements of a
float16 tensor are five significands between 64 and 100 (one with no low bits,
one with only the lowest set, three mixed ones); those of float32 sit around
2^23 units, where the product needs more than 24 bits; int32 and int64 have 0,
1 and 99.  `Unit = 17` makes 2^-17 the smallest step, below the spacing of every
float16 and float32 element used.  float64 has 53 bits, more than any sum of the
model needs, so its sums are exact as they are in the program for these values.

The launcher's argument records are every combination of `-v`, an `-np` that
is missing, 0, -1 or 2, five command lines (none, `start`, `stop`, an unknown word, two
words) and local or remote hosts.  Two invocations are enough for a `stop`
beside a `start`.

### Fairness

`Nonconvex!FairSpec` and `Logistic!FairSpec` assume weak fairness of each
rank's program and of the service of each (sender, destination) channel.  The first is the worker thread
of a rank, which runs its next statement whenever it is not blocked.  The second
is the engine's background service, which the contract requires to run
continuously while a window exists; weak fairness is enough because a request
that waits for the mutex is continuously enabled once the holder has released
it, and a holder always releases.  The program of a rank includes the failure of a blocked call once its deadline
can pass; nothing is assumed of the user,
who may leave a plot window open for ever.  The refinement `ImplementsPushSum`,
the recursions, the launcher and the allreduce test are safety properties and
assume no fairness.  The launcher has no liveness property: every wait of
`main()` is for a child process (`ipcluster`, `bfrun`), of which the source
guarantees nothing, and `time.sleep(3)` waits for nobody.

### Deadlock

The Push-DIGing, diffusion, whole-program, recursion and test runs check deadlock: the only states without a
successor step are those in which every rank (or the test) has finished or
failed, and `Terminated` makes that an explicit stuttering step.  The launcher runs switch the check off, because an invocation
ends and the processes it leaves may stay for ever.

## 4. Findings

| Run | Kind | What |
|---|---|---|
| `diffusion_plot` | code bug | rank 0 alone waits in `plt.show()` (line 126 of the logistic example) while the others go on to a `neighbor_allreduce` that needs it: they time out, and the program raises on every rank |
| `ibfrun_stop` | code bug | `ibfrun stop` never ends the controller that `ibfrun start` left in the background (line 123: `TODO How to stop it properly?`) |
| `kernels_q0` | comment and code disagree | gradient tracking is said to start from `q^0 = grad(w^0)` (lines 133 and 151 of the logistic example, 194 of the nonconvex one), but `q = w.grad.data` makes `q` the gradient tensor itself and the next line zeroes it: the loop starts from `q = 0` and `grad_prev = 0`, takes no step in its first iteration and runs the recursion one iteration late.  The tracking property still holds, so the method converges to the same point; an iteration is lost and the comment is wrong |
| `allreduce_test_passes` | test and contract disagree | the thresholds of lines 83-86 do not cover float16: a sum rounded as the contract says differs from `tensor * size` by a whole spacing of float16 from 5 ranks on.  The engine is not in `src/` and the tensor that the seed produces is not known from the source, so the run shows that the thresholds are too tight for float16, not that a given build fails |

## 5. Not modelled

* Weights other than the default ones of `neighbor_allreduce`,
  `ShapeMismatch`, the retries behind `Timeout`, and time: a deadline passes
  only for a rank that waits for one that is away.
* `win_free`, `win_accumulate` without the mutex, and more than one window name:
  no program in `src/` uses them.
* Whether `win_sync_then_collect` hands back the buffer the caller passed or a
  new one, and whether `w.div_` (line 240) then scales the tensor the window
  reads: that is the engine's binding, which is not in `src/`.  The model takes
  the buffer of the window to be `w`, as the contract does; the two hazards of
  lines 240 and 241 in `PROJECT.json` are listed without a property for this
  reason.
* The rank registry beyond "initialized"; a command line that `argparse`
  refuses; the plot file `finalize_plot` saves.
* The data generation, the formula of the loss, the norms that are printed and
  the plots: floating-point processing local to one rank.  What reaches another
  rank is the gradient, which `Kernels` chooses freely.  Rounding of the
  floating-point recursions is not modelled: the sums that `Kernels` shows to
  be equal are equal up to rounding in the program.
* `u = w[:n]` of Push-DIGing and `x = u / v`: they enter nothing but the point
  at which the gradient is taken.
* In the test: the session handling of `evaluate` and `setUp`, the shape of the
  tensor beyond one element, negative elements.
* The engine itself.  `Synchronizer`, `Topology`, `WindowManager` and
  `Collective` are written from the contract in `spec.md`, with the operations
  the programs in `src/` call; the remaining operations and the engine's
  internals (transport, threads, the binding to the framework) have no source
  here to be faithful to.
* `AverageDescends` and `TrackerSumsGradients` in every state: they are stated
  of the states between iterations.  Between those, a sum over the ranks mixes
  tensors of two iterations, and the invariant would need the history of what
  each rank has handed to the collective.
* A window created twice: each program creates `w_buff` once and never frees
  it, so the life cycle of a window has one state after creation.
* Lines 147-207 of the launcher, which follow the `raise` of line 146 and can
  never run.
* The exit status of the launcher's children (line 140): nothing in the source
  or its comments says what `main()` should do with it.

## 6. Plan

1. Done: the engine modules `Synchronizer`, `Topology`, `WindowManager` and
   `Collective`; the sections `PushDIGing` and `Diffusion`; the whole programs
   `Logistic` and `Nonconvex`; `PushSum` and the refinement; `IbfRun`;
   `AllreduceTest`; `Kernels` with the tensors of the four recursions; the
   twelve runs above.
2. Left open, for the reasons of section 5: the engines on their own
   (`win_free` and the window life cycle, the path without the mutex, version
   monotonicity and mutual exclusion as properties of the window manager; a
   collective as a sequence of rounds, and `Collective` shown to implement
   it).  These are properties of code that is not in `src/`.
3. The recursions between iterations: `AverageDescends` and
   `TrackerSumsGradients` are stated of the states in which the ranks are
   aligned; counting the tensors that wait in a collective would state them of
   every state, as `TrackedUnderPushes` is.
4. Larger instances of the whole programs (three ranks with several iterations)
   once the state space of the window service is reduced, for example by
   applying a request in one step where `ImplementsPushSum` has shown the four
   steps to be equivalent.
