---------------------------- MODULE Synchronizer ----------------------------
(***************************************************************************)
(* The cross-rank barrier and the named mutex that the other engines and   *)
(* the client programs consume (bf.barrier(), and the per-window mutex     *)
(* taken by win_accumulate(..., require_mutex=True)).                      *)
(*                                                                         *)
(* The implementation of these primitives is not part of src/; the         *)
(* operations below are written from their contract.  Every operation     *)
(* constrains only the variables of this module, so that a composing       *)
(* module can conjoin it with its own program counters.                    *)
(***************************************************************************)
EXTENDS Naturals

CONSTANTS
    Rank,        \* the ranks of the world, 0 .. size()-1
    MutexName,   \* the resource names a mutex can be taken for
    Free         \* the holder of a mutex nobody holds

ASSUME Free \notin Rank

VARIABLES
    barrierCalls,   \* [Rank -> Nat]: barrier() calls each rank has issued
    barrierPassed,  \* [Rank -> Nat]: barrier() calls each rank has returned from
    mutexHolder     \* [MutexName -> Rank \cup {Free}]

syncVars == <<barrierCalls, barrierPassed, mutexHolder>>

SyncTypeOK ==
    /\ barrierCalls \in [Rank -> Nat]
    /\ barrierPassed \in [Rank -> Nat]
    /\ \A r \in Rank : barrierPassed[r] \in {barrierCalls[r], barrierCalls[r] - 1}
    /\ mutexHolder \in [MutexName -> Rank \cup {Free}]

SyncInit ==
    /\ barrierCalls = [r \in Rank |-> 0]
    /\ barrierPassed = [r \in Rank |-> 0]
    /\ mutexHolder = [m \in MutexName |-> Free]

-----------------------------------------------------------------------------
(* barrier() *)

\* Rank r is blocked inside a barrier() call.
InBarrier(r) == barrierPassed[r] < barrierCalls[r]

\* Rank r calls barrier(): the call is counted and r blocks.
BarrierEnter(r) ==
    /\ ~InBarrier(r)
    /\ barrierCalls' = [barrierCalls EXCEPT ![r] = @ + 1]
    /\ UNCHANGED <<barrierPassed, mutexHolder>>

\* Every rank has called barrier() at least as many times as r has.
BarrierOpen(r) == \A q \in Rank : barrierCalls[q] >= barrierCalls[r]

\* Rank r returns from the barrier() call it is blocked in.
BarrierReturn(r) ==
    /\ InBarrier(r)
    /\ BarrierOpen(r)
    /\ barrierPassed' = [barrierPassed EXCEPT ![r] = @ + 1]
    /\ UNCHANGED <<barrierCalls, mutexHolder>>

-----------------------------------------------------------------------------
(* acquire(name) and release(name) *)

\* Rank r acquires the mutex m: blocks (is not enabled) while another holds it.
Acquire(r, m) ==
    /\ mutexHolder[m] = Free
    /\ mutexHolder' = [mutexHolder EXCEPT ![m] = r]
    /\ UNCHANGED <<barrierCalls, barrierPassed>>

\* The holder releases m.  A release by anyone else changes nothing.
Release(r, m) ==
    /\ mutexHolder[m] = r
    /\ mutexHolder' = [mutexHolder EXCEPT ![m] = Free]
    /\ UNCHANGED <<barrierCalls, barrierPassed>>

=============================================================================
