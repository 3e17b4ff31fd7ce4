---------------------------- MODULE AllreduceTest ----------------------------
(***************************************************************************)
(* test_bluefog_allreduce_cpu of src/test/tensorflow_ops_test.py (lines    *)
(* 66-92), as one rank runs it in a world of `size` ranks.  For every      *)
(* dtype and every number of dimensions the test draws a tensor, sums it   *)
(* over the ranks with bf.allreduce, and compares the sum with tensor *    *)
(* size under a threshold that depends on size and on the dtype.           *)
(*                                                                         *)
(* Every rank seeds the generator with 12345 (lines 59-64), so every rank  *)
(* contributes the same tensor.  A tensor is abstracted to one of its      *)
(* elements, the one where the sum and the product differ most; the       *)
(* natural number e stands for the real e / 2^Unit.  The number of         *)
(* dimensions only changes how many elements there are.                    *)
(*                                                                         *)
(* The allreduce is not part of src/; its sum is written from its          *)
(* contract: floating-point accumulation in the dtype of the tensor, in a  *)
(* fixed pairwise order.                                                   *)
(***************************************************************************)
EXTENDS Naturals, Sequences

CONSTANTS
    MaxSize,    \* the largest world the test is run in
    Unit,       \* e stands for e / 2^Unit
    Precision,  \* [floating dtype -> bits of its significand]
    Elements    \* [dtype -> the values an element of the tensor can have]

VARIABLES
    size,       \* bf.size()
    case,       \* the position in itertools.product(dtypes, dims), from 1
    pc,         \* the statement the test is at
    tensor,     \* the element of `tensor`
    summed,     \* the element of `summed`
    threshold   \* in units of 1e-4

vars == <<size, case, pc, tensor, summed, threshold>>

\* `dtypes = [tf.float16, ..., tf.int64]`: the integers come last.
DtypesFloatsFirst == <<"float16", "float32", "float64", "int32", "int64">>

\* dtypes and dims, lines 69-70
Dtypes == <<"int32", "int64", "float16", "float32", "float64">>
Dims == <<1, 2, 3>>
Integral == {"int32", "int64"}

\* for dtype, dim in itertools.product(dtypes, dims): the dtype of a case
Cases == 1 .. Len(Dtypes) * Len(Dims)
DtypeOf(c) == Dtypes[(c - 1) \div Len(Dims) + 1]

Thresholds == {0, 1, 5}

TypeOK ==
    /\ size \in 1 .. MaxSize
    /\ case \in 1 .. Len(Dtypes) * Len(Dims) + 1
    /\ pc \in {"allreduce", "threshold", "assert", "passed", "failed"}
    /\ tensor \in Nat
    /\ summed \in Nat
    /\ threshold \in Thresholds

-----------------------------------------------------------------------------
(* The sum of the allreduce *)

\* The spacing of the values of p significant bits around n.
Spacing(n, p) ==
    LET bits == CHOOSE b \in 0 .. 30 : n < 2^b /\ (b = 0 \/ n >= 2^(b - 1))
    IN  IF bits > p THEN 2^(bits - p) ELSE 1

\* n rounded to p significant bits, to the nearest value and to the even
\* one of two that are as near.
Round(n, p) ==
    LET q == Spacing(n, p)
        below == (n \div q) * q
    IN  IF \/ 2 * (n - below) < q
           \/ 2 * (n - below) = q /\ (below \div q) % 2 = 0
        THEN below ELSE below + q

\* a + b in the dtype
Plus(a, b, dtype) ==
    IF dtype \in Integral THEN a + b ELSE Round(a + b, Precision[dtype])

\* The contributions of the ranks summed pairwise.
RECURSIVE PairwiseSum(_, _)
PairwiseSum(contributions, dtype) ==
    LET n == Len(contributions)
        half == n \div 2
    IN  IF n = 1 THEN contributions[1]
        ELSE Plus(PairwiseSum(SubSeq(contributions, 1, half), dtype),
                  PairwiseSum(SubSeq(contributions, half + 1, n), dtype),
                  dtype)

-----------------------------------------------------------------------------
(* The test *)

\* setUp and line 68: bf.init(); size = bf.size()
Init ==
    /\ size \in 1 .. MaxSize
    /\ case = 1
    /\ pc = "allreduce"
    /\ tensor = 0
    /\ summed = 0
    /\ threshold = 0

\* random_uniform, lines 58-64: the generator is seeded with 12345 before
\* every draw, so a tensor with element e on this rank has it on every rank.
RandomUniform(e) == [r \in 1 .. size |-> e]

\* tensor = self.random_uniform(...); summed = bf.allreduce(tensor, average=False)
Allreduce ==
    /\ pc = "allreduce"
    /\ \E e \in Elements[DtypeOf(case)] :
          /\ tensor' = e
          /\ summed' = PairwiseSum(RandomUniform(e), DtypeOf(case))
    /\ pc' = "threshold"
    /\ UNCHANGED <<size, case, threshold>>

\* multiplied = tensor * size
Multiplied ==
    IF DtypeOf(case) \in Integral THEN tensor * size
    ELSE Round(tensor * size, Precision[DtypeOf(case)])

\* max_difference = tf.reduce_max(tf.abs(summed - multiplied))
Difference ==
    IF summed >= Multiplied THEN summed - Multiplied ELSE Multiplied - summed

\* `size <= 3 or dtype in [tf.int32, tf.int64]`, line 81
Exact(n, dtype) == n <= 3 \/ dtype \in Integral

\* `if size < 10 or dtype in [tf.int32, tf.int64]: threshold = 0`: what the
\* first two branches would be as one.
ThresholdExactBelowTen(n, dtype) ==
    CASE n < 10 \/ dtype \in Integral -> 0
      [] OTHER                        -> 5

\* `threshold = 1e-3` from ten ranks on.
ThresholdLooser(n, dtype) ==
    CASE Exact(n, dtype)             -> 0
      [] ~Exact(n, dtype) /\ n < 10  -> 1
      [] OTHER                       -> 10

\* The threshold of lines 81-86, in units of 1e-4.
Threshold(n, dtype) ==
    CASE Exact(n, dtype)             -> 0
      [] ~Exact(n, dtype) /\ n < 10  -> 1
      [] OTHER                       -> 5

\* `else: break`, lines 87-88
LeavesLoop(n, dtype) == ~Exact(n, dtype) /\ n >= 15

\* Lines 76-88: the threshold is chosen, or the loop is left and the test
\* ends.
ChooseThreshold ==
    /\ pc = "threshold"
    /\ \/ /\ LeavesLoop(size, DtypeOf(case))
          /\ pc' = "passed"
          /\ UNCHANGED threshold
       \/ /\ ~LeavesLoop(size, DtypeOf(case))
          /\ pc' = "assert"
          /\ threshold' = Threshold(size, DtypeOf(case))
    /\ UNCHANGED <<size, case, tensor, summed>>

\* diff <= threshold
Within == Difference * 10000 <= threshold * 2^Unit

\* diff = self.evaluate(max_difference); self.assertTrue(diff <= threshold):
\* the next case, the end of the test, or the assertion fails.
Assert ==
    /\ pc = "assert"
    /\ \/ /\ Within
          /\ case' = case + 1
          /\ pc' = IF case + 1 \in Cases THEN "allreduce" ELSE "passed"
       \/ /\ ~Within
          /\ pc' = "failed"
          /\ UNCHANGED case
    /\ UNCHANGED <<size, tensor, summed, threshold>>

\* The test has ended.
Terminated ==
    /\ pc \in {"passed", "failed"}
    /\ UNCHANGED vars

Next == Allreduce \/ ChooseThreshold \/ Assert \/ Terminated

Spec == Init /\ [][Next]_vars

-----------------------------------------------------------------------------
(* Properties *)

\* Where the test demands an exact result (threshold 0, line 82: integers,
\* and floating-point tensors over up to three ranks) a sum accumulated
\* pairwise in the dtype of the tensor is exact: it equals tensor * size,
\* although each addition of it rounds.  The comment of lines 79-80 gives
\* the number of ranks as what the threshold depends on; with four ranks
\* the sum is still exact, with five it is not.
ZeroThresholdIsMet ==
    pc = "assert" /\ threshold = 0 => summed = Multiplied

\* The break of line 88 ends the loop and not only the case: what is not
\* checked from 15 ranks on is every case that follows the first
\* floating-point one.  No integer case is among them, whatever the size,
\* because the integer dtypes stand first in the list of line 69.
IntegersAlwaysChecked ==
    pc = "passed" => \A c \in Cases : DtypeOf(c) \in Integral => c < case

\* The test passes on an allreduce that sums as its contract says
\* ("Test on CPU that the allreduce correctly sums ...", line 67, and the
\* message of line 92, which blames the allreduce for a difference above
\* the threshold).
PassesOnCorrectSum ==
    pc # "failed"

=============================================================================
