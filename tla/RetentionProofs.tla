--------------------------- MODULE RetentionProofs ---------------------------
(***************************************************************************)
(* Safety of journal retention, for any number of consumers, overlapping   *)
(* compactions, events and clock values.                                   *)
(***************************************************************************)
EXTENDS Retention, TLAPS

\* Snapshots never run ahead of the journal.
SnapshotsBehindHead ==
  /\ \A cursor \in snapshots : cursor <= head
  /\ writing # None => writing <= head

JournalInv ==
  /\ TypeOK
  /\ SnapshotsBehindHead
  /\ JournalCompleteAboveFloor
  /\ BootstrapPath

\* A running compaction stays one when its fields get values of their types.
LEMMA JobUpdate ==
  ASSUME NEW j \in Job, NEW safe \in Nat, NEW locks \in BOOLEAN
  PROVE  /\ [j EXCEPT !.at = "policy", !.safe = safe] \in Job
         /\ [j EXCEPT !.at = "write", !.locks = locks, !.safe = safe] \in Job
  BY DEF Job

LEMMA PolicyFloorNat == \A p \in Policy : PolicyFloor(p) \in Nat
  BY DEF PolicyFloor, Policy

LEMMA ActiveAcksNat ==
  ASSUME TypeOK, NEW c \in Compaction PROVE ActiveAcks(c) \subseteq Nat
  BY DEF TypeOK, ActiveAcks, Lease

\* Type correctness.
LEMMA TypeStep == TypeOK /\ [Next]_vars => TypeOK'
<1> SUFFICES ASSUME TypeOK, [Next]_vars PROVE TypeOK'
  OBVIOUS
<1> USE RetentionConstants
<1>1. CASE Append
  BY <1>1 DEF TypeOK, Append, published, consumers
<1>2. CASE BeginSnapshot
  BY <1>2 DEF TypeOK, BeginSnapshot, journal, consumers
<1>3. CASE PublishSnapshot
  BY <1>3 DEF TypeOK, PublishSnapshot, journal, consumers
<1>4. CASE Tick
  BY <1>4 DEF TypeOK, Tick, journal, published, consumers
<1>5. CASE \E d \in Device : UpsertDevice(d)
  BY <1>5 DEF TypeOK, UpsertDevice, journal, published
<1>6. CASE \E d \in Device :
             \E ack \in 0..head, active \in 0..clock, expiry \in 0..MaxTime + 1 :
               UpsertLease(d, [ack |-> ack, active |-> active, expiry |-> expiry])
  BY <1>6 DEF TypeOK, UpsertLease, Lease, journal, published
<1>7. CASE \E from \in 0..MaxHead, hold \in BOOLEAN, updated \in 0..clock :
             UpsertPolicy([from |-> from, hold |-> hold, updated |-> updated])
  BY <1>7 DEF TypeOK, UpsertPolicy, Policy, journal, published, consumers
<1>8. CASE \E c \in Compaction, through \in 0..MaxHead : BeginCompaction(c, through)
  BY <1>8 DEF TypeOK, BeginCompaction, Job, journal, published, consumers
<1>9. ASSUME NEW c \in Compaction, ReadLeases(c) PROVE TypeOK'
  <2>1. PICK least \in {job[c].safe} \cup ActiveAcks(c) :
          job' = [job EXCEPT ![c] = [job[c] EXCEPT !.at = "policy", !.safe = least]]
    BY <1>9 DEF ReadLeases
  <2>2. least \in Nat
    <3>1. job[c] \in Job
      BY <1>9 DEF ReadLeases, TypeOK
    <3>2. job[c].safe \in Nat
      BY <3>1 DEF Job
    <3> QED
      BY <2>1, <3>2, ActiveAcksNat
  <2>3. job' \in [Compaction -> Job \cup {None}]
    BY <1>9, <2>1, <2>2, JobUpdate DEF ReadLeases, TypeOK
  <2> QED
    BY <1>9, <2>3 DEF ReadLeases, TypeOK, journal, published, consumers
<1>10. ASSUME NEW c \in Compaction, LockPolicy(c) PROVE TypeOK'
  <2> DEFINE safe == WithinPolicy(job[c].safe)
             locks == policy # None
  <2>1. safe \in Nat
    BY <1>10, PolicyFloorNat DEF LockPolicy, TypeOK, Job, Lesser, WithinPolicy
  <2>2. job' = [job EXCEPT ![c] =
          [job[c] EXCEPT !.at = "write", !.locks = locks, !.safe = safe]]
    BY <1>10 DEF LockPolicy
  <2>3. locks \in BOOLEAN
    OBVIOUS
  <2>5. job[c] \in Job
    <3>1. job \in [Compaction -> Job \cup {None}] /\ job[c] # None
      BY <1>10, ZenonT(30) DEF LockPolicy, TypeOK
    <3> QED
      BY <3>1
  <2> HIDE DEF safe, locks
  <2>4. job' \in [Compaction -> Job \cup {None}]
    BY <2>1, <2>2, <2>3, <2>5, JobUpdate DEF TypeOK
  <2> QED
    BY <1>10, <2>4 DEF LockPolicy, TypeOK, journal, published, consumers
<1>11. CASE \E c \in Compaction : WriteFloor(c)
  BY <1>11 DEF TypeOK, WriteFloor, Job, published, consumers
<1>12. CASE \E c \in Compaction : AbortCompaction(c)
  BY <1>12 DEF TypeOK, AbortCompaction, journal, published, consumers
<1>13. CASE UNCHANGED vars
  BY <1>13 DEF TypeOK, vars
<1> QED
  BY <1>1, <1>2, <1>3, <1>4, <1>5, <1>6, <1>7, <1>8, <1>9, <1>10, <1>11, <1>12, <1>13
  DEF Next

LEMMA JournalInit == Init => JournalInv
  BY RetentionConstants
  DEF Init, JournalInv, TypeOK, SnapshotsBehindHead, JournalCompleteAboveFloor,
      BootstrapPath, Policy, NoHold

\* Only commits, snapshots and the last statement of a compaction touch the
\* journal or the snapshots.
LEMMA Elsewhere ==
  ASSUME [Next]_vars, ~Append, ~BeginSnapshot, ~PublishSnapshot,
         \A c \in Compaction : ~WriteFloor(c)
  PROVE  UNCHANGED <<journal, published>>
  BY DEF Next, vars, journal, published, Tick, UpsertDevice, UpsertLease, UpsertPolicy,
         BeginCompaction, ReadLeases, LockPolicy, AbortCompaction, consumers

LEMMA JournalStep == JournalInv /\ [Next]_vars => JournalInv'
<1> SUFFICES ASSUME JournalInv, [Next]_vars PROVE JournalInv'
  OBVIOUS
<1>1. TypeOK'
  BY TypeStep DEF JournalInv
<1> USE DEF JournalInv, TypeOK, SnapshotsBehindHead, JournalCompleteAboveFloor, BootstrapPath
<1>2. CASE Append
  BY <1>1, <1>2 DEF Append, published
<1>3. CASE BeginSnapshot
  BY <1>1, <1>3, RetentionConstants DEF BeginSnapshot, journal
<1>4. CASE PublishSnapshot
  BY <1>1, <1>4 DEF PublishSnapshot, journal
<1>5. ASSUME NEW c \in Compaction, WriteFloor(c) PROVE JournalInv'
  <2>1. job[c].safe \in Nat
    BY <1>5 DEF WriteFloor, Job
  <2>2. /\ job[c].safe <= head
        /\ job[c].safe > 0 => \E cursor \in snapshots : job[c].safe <= cursor /\ cursor <= head
    <3>1. CASE job[c].safe = 0
      BY <3>1
    <3>2. CASE job[c].safe > 0
      <4>1. PICK cursor \in snapshots : cursor >= job[c].safe
        BY <1>5, <3>2 DEF WriteFloor
      <4>2. cursor \in Nat /\ cursor <= head /\ head \in Nat
        BY RetentionConstants
      <4> QED
        BY ONLY <2>1, <4>1, <4>2
    <3> QED
      BY <2>1, <3>1, <3>2
  <2>3. /\ floor' = IF floor <= job[c].safe THEN job[c].safe ELSE floor
        /\ events' = {e \in events : e > job[c].safe}
        /\ UNCHANGED <<head, published>>
    BY <1>5 DEF WriteFloor
  <2>4. JournalCompleteAboveFloor'
    BY <2>1, <2>3
  <2>5. BootstrapPath'
    BY <2>1, <2>2, <2>3 DEF published
  <2>6. SnapshotsBehindHead'
    BY <2>3 DEF published
  <2> QED
    BY <1>1, <2>4, <2>5, <2>6
<1>6. CASE UNCHANGED <<journal, published>>
  BY <1>1, <1>6 DEF journal, published
<1> QED
  BY <1>2, <1>3, <1>4, <1>5, <1>6, Elsewhere

\* The type invariant holds.
THEOREM TypeCorrect == Spec => []TypeOK
<1>1. JournalInv => TypeOK
  BY DEF JournalInv
<1> QED
  BY <1>1, JournalInit, JournalStep, PTL DEF Spec

\* Overlapping compactions never lose an event above the floor.
THEOREM JournalComplete == Spec => []JournalCompleteAboveFloor
<1>1. JournalInv => JournalCompleteAboveFloor
  BY DEF JournalInv
<1> QED
  BY <1>1, JournalInit, JournalStep, PTL DEF Spec

\* Whatever has been compacted can be replaced by a published snapshot that
\* the journal continues.
THEOREM BootstrapAvailable == Spec => []BootstrapPath
<1>1. JournalInv => BootstrapPath
  BY DEF JournalInv
<1> QED
  BY <1>1, JournalInit, JournalStep, PTL DEF Spec
-----------------------------------------------------------------------------
(* The policy *)

\* A compaction that is about to write has the policy row locked and stays
\* within what it read there.
PolicyInv ==
  /\ policy # None
  /\ \A c \in Compaction : job[c] # None /\ job[c].at = "write" =>
       job[c].locks /\ job[c].safe <= PolicyFloor(policy)

LEMMA PolicyStep == TypeOK /\ PolicyInv /\ [Next]_vars => PolicyInv'
<1> SUFFICES ASSUME TypeOK, PolicyInv, [Next]_vars PROVE PolicyInv'
  OBVIOUS
<1>1. CASE UNCHANGED <<policy, job>>
  BY <1>1 DEF PolicyInv
<1>2. ASSUME NEW new \in Policy, UpsertPolicy(new) PROVE PolicyInv'
  <2>1. \A c \in Compaction : ~(job[c] # None /\ job[c].at = "write")
    BY <1>2 DEF UpsertPolicy, PolicyInv, Locking, Running
  <2>2. new # None
    BY RetentionConstants
  <2> QED
    BY <1>2, <2>1, <2>2 DEF UpsertPolicy, PolicyInv
<1>3. ASSUME NEW c \in Compaction, NEW through \in 0..MaxHead, BeginCompaction(c, through)
      PROVE  PolicyInv'
  BY <1>3 DEF BeginCompaction, PolicyInv, TypeOK, journal, published, consumers
<1>4. ASSUME NEW c \in Compaction, ReadLeases(c) PROVE PolicyInv'
  BY <1>4 DEF ReadLeases, PolicyInv, TypeOK, Job
<1>5. ASSUME NEW c \in Compaction, LockPolicy(c) PROVE PolicyInv'
  <2>1. WithinPolicy(job[c].safe) <= PolicyFloor(policy)
    BY <1>5, PolicyFloorNat DEF PolicyInv, WithinPolicy, Lesser, LockPolicy, TypeOK, Job
  <2>2. job'[c].locks /\ job'[c].safe = WithinPolicy(job[c].safe)
    BY <1>5 DEF LockPolicy, TypeOK, Job, PolicyInv
  <2>3. \A e \in Compaction \ {c} : job'[e] = job[e]
    BY <1>5 DEF LockPolicy, TypeOK
  <2> QED
    BY <1>5, <2>1, <2>2, <2>3 DEF PolicyInv, LockPolicy
<1>6. ASSUME NEW c \in Compaction, WriteFloor(c) \/ AbortCompaction(c) PROVE PolicyInv'
  BY <1>6 DEF WriteFloor, AbortCompaction, PolicyInv, TypeOK
<1>7. \A from \in 0..MaxHead, hold \in BOOLEAN, updated \in 0..clock :
        [from |-> from, hold |-> hold, updated |-> updated] \in Policy
  BY RetentionConstants DEF Policy, TypeOK
<1>8. Append \/ BeginSnapshot \/ PublishSnapshot \/ Tick \/ UNCHANGED vars
        => UNCHANGED <<policy, job>>
  BY DEF Append, BeginSnapshot, PublishSnapshot, Tick, vars
<1>9. \A d \in Device : UpsertDevice(d) => UNCHANGED <<policy, job>>
  BY DEF UpsertDevice
<1>10. \A d \in Device : \A new : UpsertLease(d, new) => UNCHANGED <<policy, job>>
  BY DEF UpsertLease
<1> QED
  BY <1>1, <1>2, <1>3, <1>4, <1>5, <1>6, <1>7, <1>8, <1>9, <1>10 DEF Next

\* Where the policy row exists from the start, no compaction deletes what the
\* policy in force retains, or anything under a legal hold.
THEOREM PolicyHonoured ==
  ASSUME PolicyFromStart PROVE Spec => PolicyKeepsJournal
<1>1. Init => PolicyInv
  <2>1. NoHold \in Policy
    BY DEF NoHold, Policy
  <2> QED
    BY <2>1, RetentionConstants DEF Init, PolicyInv
<1>2. TypeOK /\ PolicyInv /\ [Next]_vars =>
        [policy # None /\ floor' # floor => floor' <= PolicyFloor(policy)]_vars
  <2> SUFFICES ASSUME TypeOK, PolicyInv, Next, floor' # floor
               PROVE  floor' <= PolicyFloor(policy)
    BY DEF vars
  <2>1. PICK c \in Compaction : WriteFloor(c)
    BY Elsewhere DEF journal, Append, BeginSnapshot, PublishSnapshot
  <2> QED
    BY <2>1, PolicyFloorNat DEF WriteFloor, PolicyInv, TypeOK, Job
<1> QED
  BY <1>1, <1>2, PolicyStep, TypeCorrect, PTL DEF Spec, PolicyKeepsJournal
-----------------------------------------------------------------------------
(* Consumers *)

\* A compaction that has read the leases stays below every consumer that was
\* active then, and its clock is not ahead of the database's.
ConsumerInv ==
  \A c \in Compaction : job[c] # None =>
    /\ job[c].now <= clock
    /\ job[c].at # "leases" =>
         \A d \in Device : lease[d] # None /\ lease[d].expiry > job[c].now =>
           job[c].safe <= lease[d].ack

LEMMA ConsumerStep ==
  ASSUME ~LeasesAnyTime PROVE TypeOK /\ ConsumerInv /\ [Next]_vars => ConsumerInv'
<1> SUFFICES ASSUME TypeOK, ConsumerInv, [Next]_vars PROVE ConsumerInv'
  OBVIOUS
<1>1. CASE UNCHANGED <<job, lease, clock>>
  BY <1>1 DEF ConsumerInv
<1>2. CASE Tick
  BY <1>2 DEF Tick, ConsumerInv, TypeOK, Job, consumers
<1>3. ASSUME NEW d \in Device, NEW new, UpsertLease(d, new) PROVE ConsumerInv'
  BY <1>3 DEF UpsertLease, Running, ConsumerInv
<1>4. ASSUME NEW c \in Compaction, NEW through \in 0..MaxHead, BeginCompaction(c, through)
      PROVE  ConsumerInv'
  BY <1>4 DEF BeginCompaction, ConsumerInv, TypeOK, consumers
<1>5. ASSUME NEW c \in Compaction, ReadLeases(c) PROVE ConsumerInv'
  <2>1. PICK least \in {job[c].safe} \cup ActiveAcks(c) :
          /\ \A ack \in {job[c].safe} \cup ActiveAcks(c) : least <= ack
          /\ job' = [job EXCEPT ![c] = [job[c] EXCEPT !.at = "policy", !.safe = least]]
    BY <1>5 DEF ReadLeases
  <2>2. \A d \in Device : lease[d] # None /\ lease[d].expiry > job[c].now =>
          least <= lease[d].ack
    BY <2>1 DEF ActiveAcks
  <2>3. job'[c].now = job[c].now /\ job'[c].safe = least
    <3>1. job \in [Compaction -> Job \cup {None}] /\ job[c] # None
      BY <1>5 DEF ReadLeases, TypeOK
    <3>2. job[c] \in Job
      BY <3>1
    <3>3. job'[c] = [job[c] EXCEPT !.at = "policy", !.safe = least]
      BY <2>1, <3>1
    <3> QED
      BY <3>2, <3>3 DEF Job
  <2>4. \A e \in Compaction \ {c} : job'[e] = job[e]
    BY <2>1 DEF TypeOK
  <2> QED
    BY <1>5, <2>2, <2>3, <2>4 DEF ReadLeases, ConsumerInv, consumers
<1>6. ASSUME NEW c \in Compaction, LockPolicy(c) PROVE ConsumerInv'
  <2>1. WithinPolicy(job[c].safe) \in Nat /\ WithinPolicy(job[c].safe) <= job[c].safe
    BY <1>6, PolicyFloorNat DEF WithinPolicy, Lesser, LockPolicy, TypeOK, Job
  <2>2. /\ job'[c].safe = WithinPolicy(job[c].safe)
        /\ job'[c].now = job[c].now
    BY <1>6 DEF LockPolicy, TypeOK, Job
  <2>3. \A e \in Compaction \ {c} : job'[e] = job[e]
    BY <1>6 DEF LockPolicy, TypeOK
  <2>4. job[c].safe \in Nat /\ \A d \in Device : lease[d] # None => lease[d].ack \in Nat
    BY <1>6 DEF LockPolicy, TypeOK, Job, Lease
  <2> QED
    BY <1>6, <2>1, <2>2, <2>3, <2>4 DEF ConsumerInv, LockPolicy, consumers
<1>7. ASSUME NEW c \in Compaction, WriteFloor(c) \/ AbortCompaction(c) PROVE ConsumerInv'
  BY <1>7 DEF WriteFloor, AbortCompaction, ConsumerInv, TypeOK, consumers
<1>8. Append \/ BeginSnapshot \/ PublishSnapshot \/ UNCHANGED vars
        => UNCHANGED <<job, lease, clock>>
  BY DEF Append, BeginSnapshot, PublishSnapshot, vars, consumers
<1>9. \A d \in Device : UpsertDevice(d) => UNCHANGED <<job, lease, clock>>
  BY DEF UpsertDevice
<1>10. \A new : UpsertPolicy(new) => UNCHANGED <<job, lease, clock>>
  BY DEF UpsertPolicy, consumers
<1> QED
  BY <1>1, <1>2, <1>3, <1>4, <1>5, <1>6, <1>7, <1>8, <1>9, <1>10 DEF Next

\* Where no lease is granted while a compaction runs, compaction never takes an
\* event from a consumer with an active lease.
THEOREM ConsumersHonoured ==
  ASSUME ~LeasesAnyTime PROVE Spec => ConsumersKeepJournal
<1>1. Init => ConsumerInv
  BY DEF Init, ConsumerInv
<1>2. TypeOK /\ ConsumerInv /\ [Next]_vars =>
        [\A d \in Device :
           Active(d) /\ floor <= lease[d].ack => floor' <= lease'[d].ack]_vars
  <2> SUFFICES ASSUME TypeOK, ConsumerInv, Next, NEW d \in Device,
                      Active(d), floor <= lease[d].ack
               PROVE  floor' <= lease'[d].ack
    BY DEF vars
  <2>1. lease[d].ack \in Nat /\ floor \in Nat /\ clock \in Nat /\ lease[d].expiry \in Nat
    BY DEF TypeOK, Lease, Active
  <2>2. ASSUME NEW c \in Compaction, WriteFloor(c) PROVE floor' <= lease'[d].ack
    <3>1. job[c].safe <= lease[d].ack
      BY <2>1, <2>2 DEF WriteFloor, ConsumerInv, Active, TypeOK, Job
    <3> QED
      BY <2>1, <2>2, <3>1 DEF WriteFloor, consumers
  <2>3. ASSUME NEW e \in Device, NEW ack \in 0..head, NEW active \in 0..clock,
               NEW expiry \in 0..MaxTime + 1,
               UpsertLease(e, [ack |-> ack, active |-> active, expiry |-> expiry])
        PROVE  floor' <= lease'[d].ack
    BY <2>1, <2>3 DEF UpsertLease, TypeOK, Active, journal
  <2>4. CASE UNCHANGED <<floor, lease>>
    BY <2>4
  <2>5. \A c \in Compaction : \A through :
          BeginCompaction(c, through) \/ ReadLeases(c) \/ LockPolicy(c) \/ AbortCompaction(c)
            => UNCHANGED <<floor, lease>>
    BY DEF BeginCompaction, ReadLeases, LockPolicy, AbortCompaction, journal, consumers
  <2>6. Append \/ BeginSnapshot \/ PublishSnapshot \/ Tick => UNCHANGED <<floor, lease>>
    BY DEF Append, BeginSnapshot, PublishSnapshot, Tick, journal, consumers
  <2>7. \A e \in Device : UpsertDevice(e) => UNCHANGED <<floor, lease>>
    BY DEF UpsertDevice, journal
  <2>8. \A new : UpsertPolicy(new) => UNCHANGED <<floor, lease>>
    BY DEF UpsertPolicy, journal, consumers
  <2> QED
    BY <2>2, <2>3, <2>4, <2>5, <2>6, <2>7, <2>8 DEF Next
<1> QED
  BY <1>1, <1>2, ConsumerStep, TypeCorrect, PTL DEF Spec, ConsumersKeepJournal
=============================================================================
