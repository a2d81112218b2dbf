---------------------------- MODULE LeaseProofs ----------------------------
(***************************************************************************)
(* Proofs about Lease for every set of processes, every TTL, every clock   *)
(* delay and every bound on tokens and generations.                        *)
(***************************************************************************)
EXTENDS Lease, TLAPS

\* The initial coordination rows of LeaseState::new satisfy the invariant.
LEMMA LeaseInit == Init => LeaseInv
  BY LeaseConstants DEF Init, LeaseInv, TypeOK, GrantsAreOwn, TokenUnique,
     CommitBehindStore, Held, MaybeGrant, NoGrant, Kind

\* Every step of every process, and time, preserves types.
LEMMA LeaseTypeStep == TypeOK /\ GrantsAreOwn /\ [Next]_vars => TypeOK'
<1> SUFFICES ASSUME TypeOK, GrantsAreOwn, [Next]_vars PROVE TypeOK'
  OBVIOUS
<1> USE LeaseConstants DEF TypeOK, MaybeGrant, Grant, NoGrant, Kind, KindOf, Delay
<1>1. ASSUME NEW p \in Process, NEW d \in Delay, Acquire(p, d) PROVE TypeOK'
  <2> DEFINE new == [owner |-> p, token |-> store.token + 1,
                     generation |-> store.generation, kind |-> KindOf(p)]
  <2>1. new \in Grant
    OBVIOUS
  <2>2. lease' = [lease EXCEPT ![p] = new] /\ installed' = [installed EXCEPT ![p] = new]
    BY <1>1 DEF Acquire
  <2>3. lease' \in [Process -> MaybeGrant] /\ installed' \in [Process -> MaybeGrant]
    <3> HIDE DEF new, Grant
    <3> QED BY <2>1, <2>2
  <2>4. store'.token \in 0..MaxToken /\ store'.remaining \in Int
    BY <1>1 DEF Acquire
  <2> QED BY <1>1, <2>3, <2>4 DEF Acquire
<1>2. ASSUME NEW p \in Process, NEW d \in Delay, Renew(p, d) PROVE TypeOK'
  BY <1>2 DEF Renew
<1>3. ASSUME NEW p \in Process, NEW d \in Delay, LoseLease(p, d) PROVE TypeOK'
  BY <1>3 DEF LoseLease
<1>4. ASSUME NEW p \in Process, NEW d \in Delay, Release(p, d) PROVE TypeOK'
  <2>1. /\ running' \in [Process -> BOOLEAN]
        /\ lease' \in [Process -> MaybeGrant]
        /\ installed' \in [Process -> MaybeGrant]
    <3> HIDE DEF NoGrant, Grant
    <3> QED BY <1>4 DEF Release
  <2>2. store' \in [generation : 1..MaxGeneration, token : 0..MaxToken,
                    owner : Process \cup {NoProcess}, kind : Kind, remaining : Int]
    <3>1. CASE store' = store
      BY <3>1
    <3>2. CASE store' = [store EXCEPT !.owner = NoProcess, !.remaining = 0]
      <4>1. store'.owner = NoProcess /\ store'.remaining = 0
            /\ store'.generation = store.generation /\ store'.token = store.token
            /\ store'.kind = store.kind
        BY <3>2
      <4>2. store' = [generation |-> store'.generation, token |-> store'.token,
                      owner |-> store'.owner, kind |-> store'.kind,
                      remaining |-> store'.remaining]
        BY <3>2
      <4> QED BY <4>1, <4>2
    <3> QED BY <1>4, <3>1, <3>2 DEF Release
  <2> QED BY <1>4, <2>1, <2>2 DEF Release
<1>5. ASSUME NEW p \in Process, NEW d \in Delay, FencedCommit(p, d) PROVE TypeOK'
  BY <1>5 DEF FencedCommit
<1>6. ASSUME NEW p \in Process, NEW d \in Delay, AdvanceStoreGeneration(p, d)
      PROVE TypeOK'
  <2>1. lease[p] \in Grant
    BY <1>6 DEF AdvanceStoreGeneration
  <2> QED BY <1>6, <2>1 DEF AdvanceStoreGeneration
<1>7. ASSUME NEW p \in Process, Crash(p) \/ Restart(p) PROVE TypeOK'
  <2> HIDE DEF NoGrant, Grant
  <2>1. CASE Crash(p)
    BY <2>1 DEF Crash
  <2>2. CASE Restart(p)
    BY <2>2 DEF Restart
  <2> QED BY <1>7, <2>1, <2>2
<1>8. CASE Tick
  BY <1>8 DEF Tick
<1>9. CASE UNCHANGED vars
  BY <1>9 DEF vars
<1> QED BY <1>1, <1>2, <1>3, <1>4, <1>5, <1>6, <1>7, <1>8, <1>9 DEF Next

\* Every step keeps remembered grants within what the store allocated, keeps
\* tokens unique and keeps the last fenced commit behind the store.
LEMMA LeaseGrantStep ==
  LeaseInv /\ [Next]_vars => (GrantsAreOwn /\ TokenUnique /\ CommitBehindStore)'
<1> SUFFICES ASSUME LeaseInv, [Next]_vars
             PROVE  GrantsAreOwn' /\ TokenUnique' /\ CommitBehindStore'
  OBVIOUS
<1> DEFINE Goal == GrantsAreOwn' /\ TokenUnique' /\ CommitBehindStore'
<1> USE LeaseConstants DEF LeaseInv, TypeOK, MaybeGrant, Grant, NoGrant, Held,
        GrantsAreOwn, TokenUnique, CommitBehindStore
<1>1. ASSUME NEW p \in Process, NEW d \in Delay, Acquire(p, d) PROVE Goal
  <2> DEFINE new == [owner |-> p, token |-> store.token + 1,
                     generation |-> store.generation, kind |-> KindOf(p)]
  <2>1. /\ store'.token = store.token + 1
        /\ store'.generation = store.generation
        /\ commit' = commit
    BY <1>1 DEF Acquire
  <2>2. /\ lease'[p] = new /\ installed'[p] = new
        /\ \A q \in Process \ {p} : lease'[q] = lease[q] /\ installed'[q] = installed[q]
    BY <1>1 DEF Acquire
  <2>3. GrantsAreOwn'
    BY <2>1, <2>2
  <2>4. TokenUnique'
    BY <2>1, <2>2, <2>3
  <2> QED BY <2>1, <2>3, <2>4
<1>2. ASSUME NEW p \in Process, NEW d \in Delay, Renew(p, d) PROVE Goal
  BY <1>2 DEF Renew
<1>3. ASSUME NEW p \in Process, NEW d \in Delay, LoseLease(p, d) PROVE Goal
  BY <1>3 DEF LoseLease
<1>4. ASSUME NEW p \in Process, NEW d \in Delay, Release(p, d) PROVE Goal
  BY <1>4 DEF Release
<1>5. ASSUME NEW p \in Process, NEW d \in Delay, FencedCommit(p, d) PROVE Goal
  BY <1>5 DEF FencedCommit, Validate
<1>6. ASSUME NEW p \in Process, NEW d \in Delay, AdvanceStoreGeneration(p, d)
      PROVE Goal
  <2>1. /\ lease[p] \in Grant /\ lease[p] \in Held(p)
        /\ lease[p].token = store.token /\ lease[p].generation = store.generation
    BY <1>6 DEF AdvanceStoreGeneration, Validate
  <2>2. /\ store'.token = store.token
        /\ store'.generation = store.generation + 1
        /\ commit'.token = store.token /\ commit'.generation = store.generation + 1
    BY <1>6, <2>1 DEF AdvanceStoreGeneration
  <2>3. /\ lease'[p] = [lease[p] EXCEPT !.generation = store.generation + 1]
        /\ installed'[p] = lease'[p]
        /\ \A q \in Process \ {p} : lease'[q] = lease[q] /\ installed'[q] = installed[q]
    BY <1>6, <2>1 DEF AdvanceStoreGeneration
  <2>4. lease'[p].token = lease[p].token /\ lease'[p].owner = lease[p].owner
        /\ lease'[p].generation = store.generation + 1
    BY <2>1, <2>3
  <2>5. GrantsAreOwn'
    BY <2>1, <2>2, <2>3, <2>4
  <2>6. TokenUnique'
    BY <2>1, <2>3, <2>4
  <2> QED BY <2>2, <2>5, <2>6
<1>7. ASSUME NEW p \in Process, Crash(p) \/ Restart(p) PROVE Goal
  <2>1. CASE Crash(p)
    BY <2>1 DEF Crash
  <2>2. CASE Restart(p)
    BY <2>2 DEF Restart
  <2> QED BY <1>7, <2>1, <2>2
<1>8. CASE Tick
  BY <1>8 DEF Tick
<1>9. CASE UNCHANGED vars
  BY <1>9 DEF vars
<1> QED BY <1>1, <1>2, <1>3, <1>4, <1>5, <1>6, <1>7, <1>8, <1>9 DEF Next

\* The invariant holds in every reachable state.
THEOREM LeaseInvariant == Spec => []LeaseInv
<1>1. LeaseInv /\ [Next]_vars => LeaseInv'
  BY LeaseTypeStep, LeaseGrantStep DEF LeaseInv
<1> QED BY LeaseInit, <1>1, PTL DEF Spec

\* A fencing token belongs to one process.
THEOREM LeaseTokenUnique == Spec => []TokenUnique
  BY LeaseInvariant, PTL DEF LeaseInv

\* The adapter accepts the grants of one process at most.
THEOREM LeaseOneAccepted == Spec => []AtMostOneAccepted
<1>1. LeaseInv => AtMostOneAccepted
  BY DEF LeaseInv, TokenUnique, AtMostOneAccepted, Validate
<1> QED BY LeaseInvariant, <1>1, PTL

\* After a fenced commit nothing commits under an older token or generation.
THEOREM LeaseStaleLeader == Spec => StaleLeaderCommitsNothing
<1>1. LeaseInv /\ [Next]_vars
        => [commit'.token >= commit.token /\ commit'.generation >= commit.generation]_vars
  <2> SUFFICES ASSUME LeaseInv, Next
               PROVE commit'.token >= commit.token /\ commit'.generation >= commit.generation
    OBVIOUS
  <2> USE DEF LeaseInv, TypeOK, CommitBehindStore
  <2>1. ASSUME NEW p \in Process, NEW d \in Delay,
               FencedCommit(p, d) \/ AdvanceStoreGeneration(p, d)
        PROVE commit'.token >= commit.token /\ commit'.generation >= commit.generation
    BY <2>1, LeaseConstants DEF FencedCommit, AdvanceStoreGeneration, Validate
  <2>2. ASSUME commit' = commit
        PROVE commit'.token >= commit.token /\ commit'.generation >= commit.generation
    BY <2>2
  <2> QED BY <2>1, <2>2 DEF Next, Acquire, Renew, LoseLease, Release, Crash, Restart, Tick
<1> QED BY LeaseInvariant, <1>1, PTL DEF Spec, StaleLeaderCommitsNothing
=============================================================================
