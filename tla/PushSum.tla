------------------------------- MODULE PushSum -------------------------------
(***************************************************************************)
(* What the window exchange of the Push-DIGing section promises            *)
(* (src/examples/pytorch_logistic_regression.py, lines 195-257, after      *)
(* Alg. 2 of the reference the source cites at lines 200-201): push-sum    *)
(* over a directed graph.  A rank splits what it holds into equal shares,  *)
(* one for itself and one for each out-neighbor, and hands the shares      *)
(* out; a rank adds what it has been handed to what it holds.              *)
(*                                                                         *)
(* Here a push is one step: the shares leave the sender and are in the     *)
(* mail of their destinations at once.  The program does it in several:    *)
(* win_accumulate queues the shares, w.div_ scales what the sender keeps,  *)
(* and a background service adds each share to its destination under a     *)
(* mutex.  Module PushDIGing states how its variables are read as those    *)
(* of this module, and that with them it implements it.                    *)
(***************************************************************************)
EXTENDS Naturals, FiniteSets

CONSTANTS
    Rank,       \* the ranks of the world
    Out,        \* [Rank -> SUBSET Rank]: the out-neighbors in the graph
    One         \* the integer that stands for the weight 1.0

ASSUME /\ Out \in [Rank -> SUBSET Rank]
       /\ One \in Nat \ {0}

VARIABLES
    joined,     \* the ranks that take part
    held,       \* [Rank -> Nat]: the weight each rank holds
    mail        \* [Rank -> Nat]: the weight handed to each rank and not added yet

vars == <<joined, held, mail>>

Init ==
    /\ joined = {}
    /\ held = [r \in Rank |-> 0]
    /\ mail = [r \in Rank |-> 0]

\* w[-1] = 1.0; bf.win_create(w, ...): rank r takes part with weight 1.0.
Join(r) ==
    /\ r \notin joined
    /\ joined' = joined \cup {r}
    /\ held' = [held EXCEPT ![r] = One]
    /\ UNCHANGED mail

\* One of the equal shares of what rank r holds.
Share(r) == held[r] \div (Cardinality(Out[r]) + 1)

\* bf.win_accumulate(w, ...); w.div_(1 + outdegree): every out-neighbor is
\* handed a share, and what is not handed out stays with r.
Push(r) ==
    /\ Out[r] \subseteq joined
    /\ held' = [held EXCEPT ![r] = @ - Cardinality(Out[r]) * Share(r)]
    /\ mail' = [d \in Rank |-> IF d \in Out[r] THEN mail[d] + Share(r) ELSE mail[d]]
    /\ UNCHANGED joined

\* w = bf.win_sync_then_collect(...): rank r adds what it has been handed.
Collect(r) ==
    /\ r \in joined
    /\ held' = [held EXCEPT ![r] = @ + mail[r]]
    /\ mail' = [mail EXCEPT ![r] = 0]
    /\ UNCHANGED joined

Next == \E r \in Rank : Join(r) \/ Push(r) \/ Collect(r)

Spec == Init /\ [][Next]_vars

=============================================================================
