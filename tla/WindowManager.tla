---------------------------- MODULE WindowManager ----------------------------
(***************************************************************************)
(* The window "w_buff" of the push-based algorithms: a buffer owned by     *)
(* each rank into which its in-neighbors add weighted contributions        *)
(* (bf.win_create, bf.win_accumulate, bf.win_sync_then_collect).  The      *)
(* programs in src/ use one window name and never free it, so the module   *)
(* holds one window per rank, and win_free is not part of it.              *)
(*                                                                         *)
(* The window manager is not part of src/; the operations are written     *)
(* from their contract, read as follows.                                   *)
(*  - The window of rank r has the buffer r registered (localSnapshot[r],  *)
(*    the tensor the owner reads and writes) and the contributions that    *)
(*    have been added remotely since the last synchronize (inbox[r]).      *)
(*    zero_init clears the latter.  win_sync_then_collect folds the inbox  *)
(*    into the buffer and returns it, so the change the owner observes is  *)
(*    the sum of what was pushed.                                          *)
(*  - win_create returns when every rank of the world has created its      *)
(*    window (the global form of the rendezvous).                          *)
(*  - win_accumulate returns when its requests are queued, one per         *)
(*    destination, in a FIFO channel per (sender, destination).  A         *)
(*    background service then takes the destination's mutex, reads the     *)
(*    inbox, writes inbox + contribution, and releases the mutex.          *)
(*  - The programs in src/ always pass require_mutex=True; the path        *)
(*    without the mutex is not modelled.                                   *)
(*                                                                         *)
(* Values are naturals: a buffer is abstracted to one exact quantity, and  *)
(* a weight is a fraction num/den applied by exact integer division.       *)
(***************************************************************************)
EXTENDS Naturals, Sequences, FiniteSets

CONSTANTS
    Rank,       \* the ranks of the world, 0 .. size()-1
    Free        \* the holder of a mutex nobody holds

VARIABLES
    topology,       \* of Topology
    barrierCalls,   \* of Synchronizer
    barrierPassed,  \* of Synchronizer
    mutexHolder,    \* of Synchronizer: one mutex per destination window
    winState,       \* [Rank -> "none" | "announced" | "created"]
    localSnapshot,  \* [Rank -> Nat]: the owner's buffer
    inbox,          \* [Rank -> Nat]: contributions applied since the last synchronize
    version,        \* [Rank -> Nat]: synchronizes done on the window
    channel,        \* [Rank -> [Rank -> Seq(Nat)]]: requests queued from sender to destination
    phase,          \* [Rank -> [Rank -> "idle" | "locked" | "read" | "written"]]
    fetched         \* [Rank -> [Rank -> Nat]]: the inbox value read by the service

Topo == INSTANCE Topology
Sync == INSTANCE Synchronizer WITH MutexName <- Rank

winVars == <<winState, localSnapshot, inbox, version, channel, phase, fetched>>

WinStates == {"none", "announced", "created"}
Phases == {"idle", "locked", "read", "written"}

WinTypeOK ==
    /\ winState \in [Rank -> WinStates]
    /\ localSnapshot \in [Rank -> Nat]
    /\ inbox \in [Rank -> Nat]
    /\ version \in [Rank -> Nat]
    /\ \A s, d \in Rank : channel[s][d] \in Seq(Nat)
    /\ phase \in [Rank -> [Rank -> Phases]]
    /\ fetched \in [Rank -> [Rank -> Nat]]

WinInit ==
    /\ winState = [r \in Rank |-> "none"]
    /\ localSnapshot = [r \in Rank |-> 0]
    /\ inbox = [r \in Rank |-> 0]
    /\ version = [r \in Rank |-> 0]
    /\ channel = [s \in Rank |-> [d \in Rank |-> <<>>]]
    /\ phase = [s \in Rank |-> [d \in Rank |-> "idle"]]
    /\ fetched = [s \in Rank |-> [d \in Rank |-> 0]]

\* weight * buffer
Weighted(buffer, weight) == (buffer * weight.num) \div weight.den

\* The window of rank r exists: remote ranks can queue contributions for it.
Exists(r) == winState[r] \in {"announced", "created"}

-----------------------------------------------------------------------------
(* win_create(buffer, name, zero_init) *)

WinCreateOutcome(r) == IF winState[r] = "none" THEN "OK" ELSE "DuplicateWindow"

\* The window is allocated and announced; the caller blocks.
WinCreate(r, buffer, zeroInit) ==
    /\ WinCreateOutcome(r) = "OK"
    /\ winState' = [winState EXCEPT ![r] = "announced"]
    /\ localSnapshot' = [localSnapshot EXCEPT ![r] = buffer]
    /\ inbox' = [inbox EXCEPT ![r] = IF zeroInit THEN 0 ELSE buffer]
    /\ UNCHANGED <<version, channel, phase, fetched>>
    /\ UNCHANGED <<topology, barrierCalls, barrierPassed, mutexHolder>>

\* Every rank has announced its window: the call returns.
WinCreateReturn(r) ==
    /\ winState[r] = "announced"
    /\ \A q \in Rank : winState[q] # "none"
    /\ winState' = [winState EXCEPT ![r] = "created"]
    /\ UNCHANGED <<localSnapshot, inbox, version, channel, phase, fetched>>
    /\ UNCHANGED <<topology, barrierCalls, barrierPassed, mutexHolder>>

-----------------------------------------------------------------------------
(* win_accumulate(buffer, name, dst_weights, require_mutex=True) *)

\* Checked before anything is sent: the destinations are current
\* out-neighbors of the sender, and each of them has the window.
WinAccumulateOutcome(r, dstWeights) ==
    CASE ~(DOMAIN dstWeights \subseteq Topo!OutNeighbors(r)) -> "UnknownDestination"
      [] \E d \in DOMAIN dstWeights : ~Exists(d)              -> "WindowNotFound"
      [] OTHER                                                -> "OK"

\* One request per destination is queued; the call returns at once.
WinAccumulate(r, buffer, dstWeights) ==
    /\ WinAccumulateOutcome(r, dstWeights) = "OK"
    /\ channel' = [channel EXCEPT ![r] =
                     [d \in Rank |-> IF d \in DOMAIN dstWeights
                                     THEN Append(@[d], Weighted(buffer, dstWeights[d]))
                                     ELSE @[d]]]
    /\ UNCHANGED <<winState, localSnapshot, inbox, version, phase, fetched>>
    /\ UNCHANGED <<topology, barrierCalls, barrierPassed, mutexHolder>>

\* The background service, for the oldest request queued from s to d.
AccumulateLock(s, d) ==
    /\ phase[s][d] = "idle"
    /\ channel[s][d] # <<>>
    /\ Sync!Acquire(s, d)
    /\ phase' = [phase EXCEPT ![s][d] = "locked"]
    /\ UNCHANGED <<winState, localSnapshot, inbox, version, channel, fetched>>
    /\ UNCHANGED topology

AccumulateRead(s, d) ==
    /\ phase[s][d] = "locked"
    /\ fetched' = [fetched EXCEPT ![s][d] = inbox[d]]
    /\ phase' = [phase EXCEPT ![s][d] = "read"]
    /\ UNCHANGED <<winState, localSnapshot, inbox, version, channel>>
    /\ UNCHANGED <<topology, barrierCalls, barrierPassed, mutexHolder>>

AccumulateWrite(s, d) ==
    /\ phase[s][d] = "read"
    /\ inbox' = [inbox EXCEPT ![d] = fetched[s][d] + Head(channel[s][d])]
    /\ channel' = [channel EXCEPT ![s][d] = Tail(@)]
    /\ fetched' = [fetched EXCEPT ![s][d] = 0]
    /\ phase' = [phase EXCEPT ![s][d] = "written"]
    /\ UNCHANGED <<winState, localSnapshot, version>>
    /\ UNCHANGED <<topology, barrierCalls, barrierPassed, mutexHolder>>

AccumulateUnlock(s, d) ==
    /\ phase[s][d] = "written"
    /\ Sync!Release(s, d)
    /\ phase' = [phase EXCEPT ![s][d] = "idle"]
    /\ UNCHANGED <<winState, localSnapshot, inbox, version, channel, fetched>>
    /\ UNCHANGED topology

-----------------------------------------------------------------------------
(* win_sync_then_collect(name) *)

WinSyncOutcome(r) == IF winState[r] = "created" THEN "OK" ELSE "WindowNotFound"

\* Nothing that a current in-neighbor has sent to r is still to be applied.
SyncReady(r) == \A s \in Topo!InNeighbors(r) : channel[s][r] = <<>>

\* Blocks until SyncReady; then the applied contributions become part of the
\* owner's buffer, which is returned.
WinSyncThenCollect(r) ==
    /\ WinSyncOutcome(r) = "OK"
    /\ SyncReady(r)
    /\ localSnapshot' = [localSnapshot EXCEPT ![r] = @ + inbox[r]]
    /\ inbox' = [inbox EXCEPT ![r] = 0]
    /\ version' = [version EXCEPT ![r] = @ + 1]
    /\ UNCHANGED <<winState, channel, phase, fetched>>
    /\ UNCHANGED <<topology, barrierCalls, barrierPassed, mutexHolder>>

\* The owner writes its own buffer (w.div_(...), w[:n] = ...).
WinLocalWrite(r, buffer) ==
    /\ localSnapshot' = [localSnapshot EXCEPT ![r] = buffer]
    /\ UNCHANGED <<winState, inbox, version, channel, phase, fetched>>
    /\ UNCHANGED <<topology, barrierCalls, barrierPassed, mutexHolder>>

=============================================================================
