--------------------------- MODULE MCAllreduceTest ---------------------------
(***************************************************************************)
(* AllreduceTest instantiated for TLC.                                     *)
(***************************************************************************)
EXTENDS AllreduceTest

\* The significands of IEEE 754 binary16, binary32 and binary64.
MCPrecision == [float16 |-> 11, float32 |-> 24, float64 |-> 53]

\* Elements between 64 and 100, in units of 2^-17 (the spacing of float32
\* there; that of float16 is 2^13 units).  random_uniform draws from
\* [-100, 100); the sums of negative elements mirror those of positive ones.
MCUnit == 17
MCFloat16 == {m * 2^13 : m \in {1024, 1025, 1171, 1366, 1599}}
MCFloat32 == {2^23, 2^23 + 1, 9592833, 11184811, 100 * 2^17 - 1}
MCElements ==
    [int32 |-> {0, 1, 99}, int64 |-> {0, 1, 99},
     float16 |-> MCFloat16, float32 |-> MCFloat32,
     float64 |-> MCFloat16 \cup MCFloat32]

=============================================================================
