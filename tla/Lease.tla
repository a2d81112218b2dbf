------------------------------- MODULE Lease -------------------------------
(***************************************************************************)
(* Election of one leader among the processes that share one local store.  *)
(*                                                                         *)
(* The durable row `store' is what CoordinationSnapshot reads back: store  *)
(* generation, last fencing token, owner, kind and expiry.  A process      *)
(* keeps the grant of its coordinator loop in `lease' and the copy that    *)
(* its engine presents to the adapter in `installed'; the two differ       *)
(* after a lost renewal, which clears only the first.                      *)
(*                                                                         *)
(* Time is relative: `store.remaining' is expires_at minus the real time.  *)
(* An operation reads the clock before its transaction runs, so it sees a  *)
(* `now' up to MaxDelay in the past, and to it the lease looks that much   *)
(* younger.  An adapter transaction is atomic (external: Stoolap).         *)
(***************************************************************************)
EXTENDS Integers

CONSTANTS
  Process,          \* runtime processes that open the store
  Maintainer,       \* the ones that take the maintenance lease instead
  NoProcess,        \* owner_id = NULL
  Ttl,              \* lease_ttl, in ticks
  MaxDelay,         \* ticks between reading the clock and using the value
  MaxToken,         \* bound: fencing tokens allocated
  MaxGeneration     \* bound: store generations

ASSUME LeaseConstants ==
  /\ Maintainer \subseteq Process
  /\ NoProcess \notin Process
  /\ Ttl \in Nat \ {0}
  /\ MaxDelay \in Nat
  /\ MaxToken \in Nat \ {0}
  /\ MaxGeneration \in Nat \ {0}

VARIABLES
  store,            \* the singleton coordination rows
  running,          \* running[p]: the process is up
  lease,            \* lease[p]: the grant its coordinator loop holds
  installed,        \* installed[p]: the grant its engine presents
  commit            \* token and generation of the last fenced commit

vars == <<store, running, lease, installed, commit>>

Kind == {"sync", "maintenance"}

\* kind is a function of the process here: a maintainer never coordinates.
KindOf(p) == IF p \in Maintainer THEN "maintenance" ELSE "sync"

Grant == [owner : Process, token : Nat, generation : Nat, kind : Kind]

NoGrant == [owner |-> NoProcess, token |-> 0, generation |-> 0, kind |-> "sync"]

Delay == 0..MaxDelay

\* Mutant: the expiry boundary is off by one, so a lease may be taken over in
\* its last tick.
IsActiveOffByOne(d) == store.owner # NoProcess /\ store.remaining > 1 - d

\* CoordinationSnapshot::is_active for a clock value read d ticks ago.
IsActive(d) == store.owner # NoProcess /\ store.remaining > 0 - d

\* Mutant: only the kind and the expiry are compared, not whose lease it is.
ValidateAnyOwner(grant, d) ==
  /\ store.kind = grant.kind
  /\ IsActive(d)

\* CoordinationSnapshot::validate.
Validate(grant, d) ==
  /\ store.generation = grant.generation
  /\ store.owner = grant.owner
  /\ store.token = grant.token
  /\ store.kind = grant.kind
  /\ IsActive(d)

Init ==
  /\ store = [generation |-> 1, token |-> 0, owner |-> NoProcess,
              kind |-> "sync", remaining |-> 0]
  /\ running = [p \in Process |-> TRUE]
  /\ lease = [p \in Process |-> NoGrant]
  /\ installed = [p \in Process |-> NoGrant]
  /\ commit = [token |-> 0, generation |-> 1]

-----------------------------------------------------------------------------
\* Mutant: the token is incremented without checked_next's exhaustion error.
AcquireUnchecked(p, d) ==
  /\ running[p]
  /\ lease[p] = NoGrant
  /\ ~IsActive(d)
  /\ store' = [store EXCEPT !.owner = p, !.token = @ + 1, !.kind = KindOf(p),
                            !.remaining = Ttl - d]
  /\ LET grant == [owner |-> p, token |-> store.token + 1,
                   generation |-> store.generation, kind |-> KindOf(p)]
     IN  /\ lease' = [lease EXCEPT ![p] = grant]
         /\ installed' = [installed EXCEPT ![p] = grant]
  /\ UNCHANGED <<running, commit>>

\* Mutant: a takeover reuses the token of the expired lease.
AcquireSameToken(p, d) ==
  /\ running[p]
  /\ lease[p] = NoGrant
  /\ ~IsActive(d)
  /\ store.token < MaxToken
  /\ LET token == IF store.token = 0 THEN 1 ELSE store.token
         grant == [owner |-> p, token |-> token,
                   generation |-> store.generation, kind |-> KindOf(p)]
     IN  /\ store' = [store EXCEPT !.owner = p, !.token = token,
                                   !.kind = KindOf(p), !.remaining = Ttl - d]
         /\ lease' = [lease EXCEPT ![p] = grant]
         /\ installed' = [installed EXCEPT ![p] = grant]
  /\ UNCHANGED <<running, commit>>

\* acquire_lease succeeds and the grant is installed: an absent or expired
\* lease, the next token, a deadline counted from the clock value read.
Acquire(p, d) ==
  /\ running[p]
  /\ lease[p] = NoGrant
  /\ ~IsActive(d)
  /\ store.token < MaxToken
  /\ store' = [store EXCEPT !.owner = p, !.token = @ + 1, !.kind = KindOf(p),
                            !.remaining = Ttl - d]
  /\ LET grant == [owner |-> p, token |-> store.token + 1,
                   generation |-> store.generation, kind |-> KindOf(p)]
     IN  /\ lease' = [lease EXCEPT ![p] = grant]
         /\ installed' = [installed EXCEPT ![p] = grant]
  /\ UNCHANGED <<running, commit>>

\* The heartbeat's renew_lease succeeds.
Renew(p, d) ==
  /\ running[p]
  /\ lease[p] # NoGrant
  /\ Validate(lease[p], d)
  /\ store' = [store EXCEPT !.remaining = Ttl - d]
  /\ installed' = [installed EXCEPT ![p] = lease[p]]
  /\ UNCHANGED <<running, lease, commit>>

\* Mutant: the loop keeps a refused grant and goes on asking to renew it.
LoseLeaseKeepsGrant(p, d) ==
  /\ running[p]
  /\ lease[p] # NoGrant
  /\ ~Validate(lease[p], d)
  /\ UNCHANGED vars

\* renew_lease is refused: the loop forgets its grant, the engine keeps its
\* copy until the next acquisition.
LoseLease(p, d) ==
  /\ running[p]
  /\ lease[p] # NoGrant
  /\ ~Validate(lease[p], d)
  /\ lease' = [lease EXCEPT ![p] = NoGrant]
  /\ UNCHANGED <<store, running, installed, commit>>

\* Shutdown: the grant is given back if it is still valid; either way the
\* process forgets it and stops.
Release(p, d) ==
  /\ running[p]
  /\ store' = IF lease[p] # NoGrant /\ Validate(lease[p], d)
              THEN [store EXCEPT !.owner = NoProcess, !.remaining = 0]
              ELSE store
  /\ running' = [running EXCEPT ![p] = FALSE]
  /\ lease' = [lease EXCEPT ![p] = NoGrant]
  /\ installed' = [installed EXCEPT ![p] = NoGrant]
  /\ UNCHANGED commit

\* Mutant: the adapter compares the kind of the lease and its expiry only.
FencedCommitByKind(p, d) ==
  /\ running[p]
  /\ installed[p] # NoGrant
  /\ store.kind = installed[p].kind
  /\ IsActive(d)
  /\ commit' = [token |-> installed[p].token,
                generation |-> installed[p].generation]
  /\ UNCHANGED <<store, running, lease, installed>>

\* A leader-only transaction (reconciliation, snapshot page, outbox
\* transition, retry, compaction, rebase, repair) presented with the grant the
\* engine has installed.
FencedCommit(p, d) ==
  /\ running[p]
  /\ installed[p] # NoGrant
  /\ Validate(installed[p], d)
  /\ commit' = [token |-> installed[p].token,
                generation |-> installed[p].generation]
  /\ UNCHANGED <<store, running, lease, installed>>

\* advance_store_generation: the maintainer goes on with the generation that
\* the call returned.
AdvanceStoreGeneration(p, d) ==
  /\ running[p]
  /\ lease[p] # NoGrant
  /\ Validate(lease[p], d)
  /\ lease[p].kind = "maintenance"
  /\ store.generation < MaxGeneration
  /\ store' = [store EXCEPT !.generation = @ + 1]
  /\ lease' = [lease EXCEPT ![p].generation = @ + 1]
  /\ installed' = [installed EXCEPT ![p] = lease'[p]]
  /\ commit' = [token |-> lease[p].token, generation |-> store.generation + 1]
  /\ UNCHANGED running

\* A process dies with everything it holds in memory.
Crash(p) ==
  /\ running[p]
  /\ running' = [running EXCEPT ![p] = FALSE]
  /\ lease' = [lease EXCEPT ![p] = NoGrant]
  /\ installed' = [installed EXCEPT ![p] = NoGrant]
  /\ UNCHANGED <<store, commit>>

\* A new process starts in its place.
Restart(p) ==
  /\ ~running[p]
  /\ running' = [running EXCEPT ![p] = TRUE]
  /\ UNCHANGED <<store, lease, installed, commit>>

\* Time passes.  Nothing distinguishes leases that every possible clock value
\* already sees as expired.
Tick ==
  /\ store.remaining > 0 - MaxDelay
  /\ store' = [store EXCEPT !.remaining = @ - 1]
  /\ UNCHANGED <<running, lease, installed, commit>>

Next ==
  \/ \E p \in Process, d \in Delay :
       \/ Acquire(p, d)
       \/ Renew(p, d)
       \/ LoseLease(p, d)
       \/ Release(p, d)
       \/ FencedCommit(p, d)
       \/ AdvanceStoreGeneration(p, d)
  \/ \E p \in Process : Crash(p) \/ Restart(p)
  \/ Tick

Spec == Init /\ [][Next]_vars

\* A coordinator loop polls on every heartbeat tick and time goes on; nothing
\* obliges a maintainer, a crash or a restart to happen.
Fairness ==
  /\ WF_vars(Tick)
  /\ \A p \in Process \ Maintainer :
       /\ WF_vars(\E d \in Delay : Acquire(p, d))
       /\ WF_vars(\E d \in Delay : LoseLease(p, d))

FairSpec == Spec /\ Fairness

-----------------------------------------------------------------------------
MaybeGrant == Grant \cup {NoGrant}

\* The variables keep their types, and tokens and generations stay within what
\* checked_next allocates.
TypeOK ==
  /\ store \in [generation : 1..MaxGeneration, token : 0..MaxToken,
                owner : Process \cup {NoProcess}, kind : Kind, remaining : Int]
  /\ running \in [Process -> BOOLEAN]
  /\ lease \in [Process -> MaybeGrant]
  /\ installed \in [Process -> MaybeGrant]
  /\ commit \in [token : Nat, generation : Nat]

\* The grants in some process's memory.
Held(p) == {lease[p], installed[p]} \ {NoGrant}

\* What a process remembers was granted to it, under a token and a generation
\* that the store has already reached.
GrantsAreOwn ==
  \A p \in Process : \A g \in Held(p) :
    /\ g.owner = p
    /\ g.token \in 1..store.token
    /\ g.generation <= store.generation

\* A fencing token is given to one process only, however the clocks of two
\* candidates disagree and whatever a process still remembers of an expired or
\* lost lease (LeaseState::acquire; registry statement AEQ-INV-LC001).
TokenUnique ==
  \A p, q \in Process :
    \A g \in Held(p), h \in Held(q) : g.token = h.token => p = q

\* The adapter accepts the grants of at most one process at a time, also when
\* their clock values differ and an engine still presents a grant its loop has
\* given up (validate_coordination_fence).
AtMostOneAccepted ==
  \A p, q \in Process :
    \A g \in Held(p), h \in Held(q), d, e \in Delay :
      Validate(g, d) /\ Validate(h, e) => p = q

\* Once a transaction fenced by a token has committed, none fenced by an
\* earlier token or by an earlier store generation does (AEQ-INV-LC002 and
\* AEQ-INV-LC006: a stale leader cannot commit).
StaleLeaderCommitsNothing ==
  [][commit'.token >= commit.token /\ commit'.generation >= commit.generation]_vars

\* No fenced commit is ahead of the rows that fence it.
CommitBehindStore ==
  commit.token <= store.token /\ commit.generation <= store.generation

\* The inductive invariant: uniqueness of tokens needs the bound on remembered
\* tokens (a new token is larger than all of them), and the order of fenced
\* commits needs the bound on the last one.
LeaseInv == TypeOK /\ GrantsAreOwn /\ TokenUnique /\ CommitBehindStore

\* Nobody takes the lease over while it runs: a new token is allocated only
\* after a release or once the deadline has really passed, even for a
\* candidate that works with an old clock value (acquire_lease).
NoEarlyTakeover ==
  [][store'.token # store.token => store.owner = NoProcess \/ store.remaining <= 0]_vars

\* Some running process has a lease that the adapter accepts.
Led ==
  \E p \in Process : running[p] /\ lease[p] # NoGrant /\ Validate(lease[p], 0)

\* If some coordinator process stays up, the store is led again and again:
\* after every crash, loss or expiry a leader follows (AEQ-INV-LC004), up to
\* the bound on tokens.
LeadershipRecovers ==
  \A p \in Process \ Maintainer :
    <>[]running[p] => []<>(Led \/ store.token = MaxToken)
=============================================================================
