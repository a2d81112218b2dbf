----------------------------- MODULE Retention -----------------------------
(***************************************************************************)
(* Journal retention of one scope in the PostgreSQL authority: consumer    *)
(* leases, the governance policy, published snapshots, and the compaction  *)
(* transaction that raises the journal floor and deletes what is below it. *)
(* Compaction runs at READ COMMITTED: it reads the clock and the leases,   *)
(* then locks the policy row if there is one, and only then writes.        *)
(***************************************************************************)
EXTENDS Integers

CONSTANTS
  Device,           \* consumers that may hold a lease
  Compaction,       \* compactions that may run at the same time
  None,             \* no lease, no policy, no running transaction
  PolicyFromStart,  \* the scope is created together with its policy row
  LeasesAnyTime,    \* leases are also granted while a compaction runs
  MaxHead,          \* bound: events
  MaxTime           \* bound: database clock

Lease == [ack : Nat, active : Nat, expiry : Nat]
Policy == [from : Nat, hold : BOOLEAN, updated : Nat]
Job == [at : {"leases", "policy", "write"}, now : Nat, safe : Nat, locks : BOOLEAN]

ASSUME RetentionConstants ==
  /\ PolicyFromStart \in BOOLEAN
  /\ LeasesAnyTime \in BOOLEAN
  /\ MaxHead \in Nat
  /\ MaxTime \in Nat
  /\ None \notin Nat \cup Policy

VARIABLES
  head,        \* last committed sequence of the scope
  events,      \* sequences still in aequora_sync_events
  floor,       \* minimum_cursor in aequora_journal_floors
  snapshots,   \* cursors of the published snapshots
  writing,     \* cursor of the snapshot being written, or None
  devices,     \* registered devices
  lease,       \* lease[d]: retention lease of d, or None
  policy,      \* retention policy, or None
  job,         \* job[c]: a running compaction, or None
  clock        \* database clock

vars == <<head, events, floor, snapshots, writing, devices, lease, policy, job, clock>>
journal == <<head, events, floor>>
published == <<snapshots, writing>>
consumers == <<devices, lease>>

NoHold == [from |-> 0, hold |-> FALSE, updated |-> 0]

Init ==
  /\ head = 0
  /\ events = {}
  /\ floor = 0
  /\ snapshots = {}
  /\ writing = None
  /\ devices = {}
  /\ lease = [d \in Device |-> None]
  /\ policy = IF PolicyFromStart THEN NoHold ELSE None
  /\ job = [c \in Compaction |-> None]
  /\ clock = 0

Running == {c \in Compaction : job[c] # None}
Locking == {c \in Running : job[c].locks}

Lesser(m, n) == IF m <= n THEN m ELSE n

\* Mutant: the subtraction does not saturate.
PolicyFloorUnsaturated(p) == IF p.hold THEN 0 ELSE p.from - 1

\* Highest sequence the policy lets go: none under a legal hold.
PolicyFloor(p) == IF p.hold \/ p.from = 0 THEN 0 ELSE p.from - 1

-----------------------------------------------------------------------------
(* The rest of the authority *)

\* A commit appends the next event.
Append ==
  /\ head < MaxHead
  /\ head' = head + 1
  /\ events' = events \cup {head + 1}
  /\ UNCHANGED <<floor, published, consumers, policy, job, clock>>

\* create_snapshot reads the sequence row under REPEATABLE READ ...
BeginSnapshot ==
  /\ writing = None
  /\ writing' = head
  /\ UNCHANGED <<journal, snapshots, consumers, policy, job, clock>>

\* ... and commits later.
PublishSnapshot ==
  /\ writing # None
  /\ snapshots' = snapshots \cup {writing}
  /\ writing' = None
  /\ UNCHANGED <<journal, consumers, policy, job, clock>>

Tick ==
  /\ clock < MaxTime
  /\ clock' = clock + 1
  /\ UNCHANGED <<journal, published, consumers, policy, job>>

-----------------------------------------------------------------------------
(* Leases and policy *)

UpsertDevice(d) ==
  /\ devices' = devices \cup {d}
  /\ UNCHANGED <<journal, published, lease, policy, job, clock>>

\* upsert_retention_lease: neither the cursor nor the activity may regress.
\* It takes no lock that a compaction holds.
UpsertLease(d, new) ==
  /\ LeasesAnyTime \/ Running = {}
  /\ d \in devices
  /\ new.active <= new.expiry
  /\ lease[d] # None => lease[d].ack <= new.ack /\ lease[d].active <= new.active
  /\ lease' = [lease EXCEPT ![d] = new]
  /\ UNCHANGED <<journal, published, devices, policy, job, clock>>

\* upsert_retention_policy: an update waits for the compaction that has locked
\* the row; the first insert finds no row to wait for.
UpsertPolicy(new) ==
  /\ Locking = {}
  /\ policy # None => policy.updated <= new.updated
  /\ policy' = new
  /\ UNCHANGED <<journal, published, consumers, job, clock>>

-----------------------------------------------------------------------------
(* compact_journal *)

BeginCompaction(c, through) ==
  /\ job[c] = None
  /\ job' = [job EXCEPT ![c] =
       [at |-> "leases", now |-> clock, safe |-> through, locks |-> FALSE]]
  /\ UNCHANGED <<journal, published, consumers, policy, clock>>

\* Acknowledgements of the leases that are active for compaction c.
ActiveAcks(c) ==
  {lease[d].ack : d \in {d \in Device : lease[d] # None /\ lease[d].expiry > job[c].now}}

\* Mutant: the latest consumer counts, not the slowest.
ReadLeasesLatest(c) ==
  /\ job[c] # None
  /\ job[c].at = "leases"
  /\ \E least \in {job[c].safe} \cup ActiveAcks(c) :
       /\ \A ack \in ActiveAcks(c) : ack <= least
       /\ job' = [job EXCEPT ![c] =
            [@ EXCEPT !.at = "policy", !.safe = Lesser(@, least)]]
  /\ UNCHANGED <<journal, published, consumers, policy, clock>>

\* SELECT MIN(ack_sequence) over the active leases.
ReadLeases(c) ==
  /\ job[c] # None
  /\ job[c].at = "leases"
  /\ \E least \in {job[c].safe} \cup ActiveAcks(c) :
       /\ \A ack \in {job[c].safe} \cup ActiveAcks(c) : least <= ack
       /\ job' = [job EXCEPT ![c] = [@ EXCEPT !.at = "policy", !.safe = least]]
  /\ UNCHANGED <<journal, published, consumers, policy, clock>>

\* The part of a compaction that the policy row, if any, allows.
WithinPolicy(safe) == IF policy = None THEN safe ELSE Lesser(safe, PolicyFloor(policy))

\* Mutant: the policy row is read without FOR UPDATE.
LockPolicyUnlocked(c) ==
  /\ job[c] # None
  /\ job[c].at = "policy"
  /\ job' = [job EXCEPT ![c] = [@ EXCEPT !.at = "write", !.safe = WithinPolicy(job[c].safe)]]
  /\ UNCHANGED <<journal, published, consumers, policy, clock>>

\* SELECT ... FOR UPDATE: waits for another holder, locks the row if any.
LockPolicy(c) ==
  /\ job[c] # None
  /\ job[c].at = "policy"
  /\ Locking = {}
  /\ job' = [job EXCEPT ![c] = [@ EXCEPT !.at = "write", !.locks = policy # None,
       !.safe = WithinPolicy(job[c].safe)]]
  /\ UNCHANGED <<journal, published, consumers, policy, clock>>

\* Mutant: the floor is assigned, not raised.
WriteFloorLowered(c) ==
  /\ job[c] # None
  /\ job[c].at = "write"
  /\ job[c].safe > 0 => \E cursor \in snapshots : cursor >= job[c].safe
  /\ floor' = job[c].safe
  /\ events' = {e \in events : e > job[c].safe}
  /\ job' = [job EXCEPT ![c] = None]
  /\ UNCHANGED <<head, published, consumers, policy, clock>>

\* Mutant: any snapshot counts as a bootstrap path.
WriteFloorAnySnapshot(c) ==
  /\ job[c] # None
  /\ job[c].at = "write"
  /\ job[c].safe > 0 => snapshots # {}
  /\ floor' = IF floor <= job[c].safe THEN job[c].safe ELSE floor
  /\ events' = {e \in events : e > job[c].safe}
  /\ job' = [job EXCEPT ![c] = None]
  /\ UNCHANGED <<head, published, consumers, policy, clock>>

\* Given a published snapshot at or above it, the floor is raised, everything
\* up to the safe cursor is deleted, and the transaction commits.
WriteFloor(c) ==
  /\ job[c] # None
  /\ job[c].at = "write"
  /\ job[c].safe > 0 => \E cursor \in snapshots : cursor >= job[c].safe
  /\ floor' = IF floor <= job[c].safe THEN job[c].safe ELSE floor
  /\ events' = {e \in events : e > job[c].safe}
  /\ job' = [job EXCEPT ![c] = None]
  /\ UNCHANGED <<head, published, consumers, policy, clock>>

\* No bootstrap path, a failed statement, or a lost connection.
AbortCompaction(c) ==
  /\ job[c] # None
  /\ job' = [job EXCEPT ![c] = None]
  /\ UNCHANGED <<journal, published, consumers, policy, clock>>

Next ==
  \/ Append
  \/ BeginSnapshot
  \/ PublishSnapshot
  \/ Tick
  \/ \E d \in Device :
       \/ UpsertDevice(d)
       \/ \E ack \in 0..head, active \in 0..clock, expiry \in 0..MaxTime + 1 :
            UpsertLease(d, [ack |-> ack, active |-> active, expiry |-> expiry])
  \/ \E from \in 0..MaxHead, hold \in BOOLEAN, updated \in 0..clock :
       UpsertPolicy([from |-> from, hold |-> hold, updated |-> updated])
  \/ \E c \in Compaction :
       \/ \E through \in 0..MaxHead : BeginCompaction(c, through)
       \/ ReadLeases(c)
       \/ LockPolicy(c)
       \/ WriteFloor(c)
       \/ AbortCompaction(c)

Spec == Init /\ [][Next]_vars
-----------------------------------------------------------------------------
\* The variables keep their types; no cursor a compaction computes is negative.
TypeOK ==
  /\ head \in 0..MaxHead
  /\ events \subseteq Nat
  /\ floor \in Nat
  /\ snapshots \subseteq Nat
  /\ writing \in Nat \cup {None}
  /\ devices \subseteq Device
  /\ lease \in [Device -> Lease \cup {None}]
  /\ policy \in Policy \cup {None}
  /\ job \in [Compaction -> Job \cup {None}]
  /\ clock \in 0..MaxTime

\* The journal holds exactly what is above its floor, whatever compactions
\* overlap: a cursor that passes the floor check of an exchange misses nothing.
JournalCompleteAboveFloor == events = (floor + 1)..head

\* A consumer below the floor can always start from a published snapshot that
\* the journal continues (compact_journal's bootstrap_available).
BootstrapPath == floor > 0 => \E cursor \in snapshots : floor <= cursor /\ cursor <= head

Active(d) == lease[d] # None /\ lease[d].expiry > clock

\* Compaction takes nothing from a consumer whose lease is active
\* (invariants, PostgresRetentionSafety: "PostgreSQL compaction never crosses
\* active consumer policy or bootstrap safety floors").
ConsumersKeepJournal ==
  [][\A d \in Device : Active(d) /\ floor <= lease[d].ack => floor' <= lease'[d].ack]_vars

\* Compaction deletes nothing that the policy in force retains, and nothing
\* under a legal hold (PostgresRetentionPolicy: "Active legal hold prevents all
\* ordinary journal deletion").
PolicyKeepsJournal ==
  [][policy # None /\ floor' # floor => floor' <= PolicyFloor(policy)]_vars
=============================================================================
