------------------------------ MODULE Collective ------------------------------
(***************************************************************************)
(* The two synchronous collectives: bf.allreduce(tensor, name) over all    *)
(* ranks, and bf.neighbor_allreduce(tensor, name) over the in-neighbors   *)
(* of the caller.  The engines are not part of src/; the operations are    *)
(* written from their contract, read as follows.                           *)
(*  - A call hands the caller's tensor to every rank that will aggregate   *)
(*    it and then blocks.  Calls are matched by name and by order: the     *)
(*    n-th call of a name on one rank is aggregated with the n-th          *)
(*    contribution of each of its senders under that name.                 *)
(*  - allreduce: every rank sends to every rank.  neighbor_allreduce: a    *)
(*    rank sends to its out-neighbors and aggregates its in-neighbors and  *)
(*    itself; it returns as soon as its own senders have delivered,        *)
(*    whether or not its receivers have taken what it sent.                *)
(*  - A caller whose sender does not deliver within the deadline fails     *)
(*    with Timeout, and so does every other call of that collective        *)
(*    (fail-together): from then on the name is failed.                    *)
(*                                                                         *)
(* A tensor is an opaque value; the reduction itself (sum, average, the    *)
(* weights) is not modelled: the result of a call is kept as the function  *)
(* from its senders to what each of them contributed.  The programs in     *)
(* src/ pass tensors of one shape, so ShapeMismatch does not occur.        *)
(***************************************************************************)
EXTENDS Naturals, Sequences

CONSTANTS
    Rank,       \* the ranks of the world, 0 .. size()-1
    Name,       \* the names the collectives are called with
    Tensor      \* the tensors the clients pass

VARIABLES
    topology,   \* of Topology
    pending,    \* [Name -> [Rank -> [Rank -> Seq(Tensor)]]]: pending[n][s][d] is
                \* what s has sent to d under n and d has not aggregated yet
    result,     \* [Rank -> [senders -> Tensor]]: what the last call returned
    failed      \* the names of the collectives that have timed out

Topo == INSTANCE Topology

collVars == <<pending, result, failed>>

CollTypeOK ==
    /\ \A n \in Name : \A s, d \in Rank : pending[n][s][d] \in Seq(Tensor)
    /\ \A r \in Rank : /\ DOMAIN result[r] \subseteq Rank
                       /\ \A s \in DOMAIN result[r] : result[r][s] \in Tensor
    /\ failed \subseteq Name

CollInit ==
    /\ pending = [n \in Name |-> [s \in Rank |-> [d \in Rank |-> <<>>]]]
    /\ result = [r \in Rank |-> <<>>]
    /\ failed = {}

\* Who aggregates what rank r sends, and whose contributions r aggregates.
Receivers(r, op) ==
    IF op = "allreduce" THEN Rank ELSE Topo!OutNeighbors(r) \cup {r}
Senders(r, op) ==
    IF op = "allreduce" THEN Rank ELSE Topo!InNeighbors(r) \cup {r}

\* What a call under this name meets: a collective that has failed fails
\* for every participant.
Outcome(name) == IF name \in failed THEN "Timeout" ELSE "OK"

\* The call: the tensor is sent to every receiver, and the caller blocks.
Call(r, op, name, tensor) ==
    /\ Outcome(name) = "OK"
    /\ pending' = [pending EXCEPT ![name][r] =
                     [d \in Rank |-> IF d \in Receivers(r, op)
                                     THEN Append(@[d], tensor) ELSE @[d]]]
    /\ UNCHANGED <<topology, result, failed>>

\* Every sender has delivered: the call returns the oldest contribution of
\* each.
Return(r, op, name) ==
    /\ Outcome(name) = "OK"
    /\ \A s \in Senders(r, op) : pending[name][s][r] # <<>>
    /\ result' = [result EXCEPT ![r] =
                    [s \in Senders(r, op) |-> Head(pending[name][s][r])]]
    /\ pending' = [pending EXCEPT ![name] =
                     [s \in Rank |-> IF s \in Senders(r, op)
                                     THEN [@[s] EXCEPT ![r] = Tail(@)] ELSE @[s]]]
    /\ UNCHANGED <<topology, failed>>

\* The deadline passes on a blocked call: the collective has failed already,
\* or a sender that is away (it will not call within any deadline) has not
\* delivered.
Timeout(r, op, name, away) ==
    /\ \/ Outcome(name) = "Timeout"
       \/ \E s \in Senders(r, op) \cap away : pending[name][s][r] = <<>>
    /\ failed' = failed \cup {name}
    /\ UNCHANGED <<topology, pending, result>>

=============================================================================
