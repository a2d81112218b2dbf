------------------------------- MODULE Outbox -------------------------------
(***************************************************************************)
(* The durable outbox of one client store.  The application appends, one   *)
(* sender (the engine, or a host that claims operations) transmits, and a  *)
(* compaction or a rebase pass rewrites what was never sent.               *)
(*                                                                         *)
(* Only the adapter's transactions are atomic.  A pass reads and plans     *)
(* outside the transaction that applies its plan; the engine reads its     *)
(* batch before the transaction that seals it.  An envelope is its base    *)
(* version: rebase changes nothing else.                                   *)
(***************************************************************************)
EXTENDS Integers, FiniteSets

CONSTANTS
  Op,                  \* operation identifiers
  Entity,              \* entities they change
  Shapes,              \* operation shapes in use, of {"update", "delete"}
  Dependencies,        \* operations may depend on earlier ones
  None,                \* no pass, no replacement, no hash
  MaxBase,             \* bound: entity versions
  BatchLimit,          \* operations in a request
  PassLimit            \* max_operations_per_pass

ASSUME OutboxConstants ==
  /\ Shapes \subseteq {"update", "delete"}
  /\ Dependencies \in BOOLEAN
  /\ MaxBase \in Nat
  /\ BatchLimit \in Nat \ {0}
  /\ PassLimit \in Nat \ {0}
  /\ None \notin Op

VARIABLES
  info,         \* info[op]: entity, shape and dependencies of an operation
  state,        \* state[op]: outbox state, "none" before, "superseded" after
  order,        \* order[op]: enqueued_order
  base,         \* base[op]: base_version in the stored envelope
  digest,       \* digest[op]: base_version that payload_digest was made from
  sent,         \* operations with ever_sent
  hash,         \* hash[op]: base_version that immutable_hash was made from
  claimed,      \* operations with in_flight_since
  quarantined,  \* rows of aequora_scope_quarantine
  replacement,  \* replacement[op]: aequora_supersession
  stage,        \* stage of the sender: "idle", "selected", "flying"
  batch,        \* batch: operations and bases in the sender's memory
  compaction,   \* rows a pass has loaded and its supersessions, or None
  rebase,       \* planned rewrites, or None
  wire          \* history: operations and bases ever transmitted

rows == <<info, state, order, base, digest, sent, hash, claimed, replacement>>
sender == <<stage, batch>>
passes == <<compaction, rebase>>
vars == <<rows, quarantined, sender, passes, wire>>

Replayable == {"pending", "sending", "retry"}

\* Acknowledged, Rejected and Conflict: nothing here tells them apart.
Terminal == {"terminal"}
Present == {op \in Op : state[op] \in Replayable \cup Terminal}

Init ==
  /\ info = [op \in Op |-> None]
  /\ state = [op \in Op |-> "none"]
  /\ order = [op \in Op |-> 0]
  /\ base = [op \in Op |-> 0]
  /\ digest = [op \in Op |-> 0]
  /\ sent = {}
  /\ hash = [op \in Op |-> None]
  /\ claimed = {}
  /\ quarantined = {}
  /\ replacement = [op \in Op |-> None]
  /\ stage = "idle"
  /\ batch = {}
  /\ compaction = None
  /\ rebase = None
  /\ wire = {}

\* MAX(enqueued_order) + 1 is n.
NextOrder(n) ==
  IF Present = {} THEN n = 1
  ELSE \E op \in Present : n = order[op] + 1 /\ \A o \in Present : order[o] <= order[op]

\* insert_outbox: an update or a delete of e, prepared on version b, that may
\* depend on operations the application has in its outbox.
Insert(op, e, shape, deps, b) ==
  /\ state[op] = "none"
  /\ deps \subseteq Present
  /\ Dependencies \/ deps = {}
  /\ info' = [info EXCEPT ![op] = [entity |-> e, shape |-> shape, deps |-> deps]]
  /\ state' = [state EXCEPT ![op] = "pending"]
  /\ \E n \in 1..(Cardinality(Op) + 1) :
       NextOrder(n) /\ order' = [order EXCEPT ![op] = n]
  /\ base' = [base EXCEPT ![op] = b]
  /\ digest' = [digest EXCEPT ![op] = b]
  /\ UNCHANGED <<sent, hash, claimed, replacement, quarantined, sender, passes, wire>>

-----------------------------------------------------------------------------
(* The sender *)

Envelopes(ops) == {[op |-> op, base |-> base[op]] : op \in ops}

Ops(envelopes) == {m.op : m \in envelopes}

\* `ops' are the first of `ready' in enqueued order, at most `limit' of them.
FirstOf(ops, ready, limit) ==
  /\ ops \subseteq ready
  /\ Cardinality(ops) <= limit
  /\ Cardinality(ops) < limit => ops = ready
  /\ \A op \in ops, o \in ready : order[o] < order[op] => o \in ops

\* Operations of some states that are not quarantined, when the retry time of
\* the ones in `late' has not come.
Due(states, late) == {op \in Op : state[op] \in states} \ (late \cup quarantined)

Retries == {op \in Op : state[op] = "retry"}

\* pending_operations: the envelopes of a batch are read.
Select(ops, late) ==
  /\ stage = "idle"
  /\ ops # {}
  /\ FirstOf(ops, Due(Replayable, late), BatchLimit)
  /\ batch' = Envelopes(ops)
  /\ stage' = "selected"
  /\ UNCHANGED <<rows, quarantined, passes, wire>>

\* Mutant: the hash is not written with the state.
SealKeepsHash(ops, s) ==
  /\ state' = [op \in Op |-> IF op \in ops THEN s ELSE state[op]]
  /\ sent' = sent \cup ops
  /\ UNCHANGED hash

\* The rows of `ops' sealed with the hash of what is stored, in state s.
Seal(ops, s) ==
  /\ state' = [op \in Op |-> IF op \in ops THEN s ELSE state[op]]
  /\ sent' = sent \cup ops
  /\ hash' = [op \in Op |-> IF op \in ops THEN base[op] ELSE hash[op]]

\* mark_sending and the request: one transaction that fails as a whole when a
\* row is missing or terminal; the envelopes sent are the ones read before.
MarkSending ==
  /\ stage = "selected"
  /\ IF \A op \in Ops(batch) : state[op] \in Replayable
     THEN /\ Seal(Ops(batch), "sending")
          /\ stage' = "flying"
          /\ wire' = wire \cup batch
          /\ UNCHANGED batch
     ELSE /\ stage' = "idle"
          /\ batch' = {}
          /\ UNCHANGED <<state, sent, hash, wire>>
  /\ UNCHANGED <<info, order, base, digest, claimed, replacement, quarantined, passes>>

\* claim_operations: selection, digest check and seal in one transaction.
Claim(ops, late) ==
  /\ stage = "idle"
  /\ ops # {}
  /\ FirstOf(ops, Due({"pending", "retry"}, late), BatchLimit)
  /\ \A op \in ops : digest[op] = base[op]
  /\ Seal(ops, "sending")
  /\ digest' = [op \in Op |-> IF op \in ops THEN base[op] ELSE digest[op]]
  /\ claimed' = claimed \cup ops
  /\ batch' = Envelopes(ops)
  /\ stage' = "flying"
  /\ wire' = wire \cup Envelopes(ops)
  /\ UNCHANGED <<info, order, base, replacement, quarantined, passes>>

\* schedule_retry after a failure: refused as a whole when a row is missing or
\* terminal.
Retry ==
  /\ stage = "flying"
  /\ IF \A op \in Ops(batch) : state[op] \in Replayable
     THEN Seal(Ops(batch), "retry")
     ELSE UNCHANGED <<state, sent, hash>>
  /\ stage' = "idle"
  /\ batch' = {}
  /\ UNCHANGED <<info, order, base, digest, claimed, replacement, quarantined, passes, wire>>

\* reconcile: every submitted operation gets its terminal state; an UPDATE
\* whose row is gone changes nothing.
Reconcile(answer) ==
  /\ stage = "flying"
  /\ state' = [op \in Op |-> IF op \in Ops(batch) /\ op \in Present
                             THEN answer[op] ELSE state[op]]
  /\ stage' = "idle"
  /\ batch' = {}
  /\ UNCHANGED <<info, order, base, digest, sent, hash, claimed, replacement>>
  /\ UNCHANGED <<quarantined, passes, wire>>

\* The sending process dies; what is durable stays.
Crash ==
  /\ stage # "idle"
  /\ stage' = "idle"
  /\ batch' = {}
  /\ compaction' = None
  /\ rebase' = None
  /\ UNCHANGED <<rows, quarantined, wire>>

\* recover_stale_claims: claims older than some moment return to retry.
RecoverStaleClaims(ops) ==
  /\ ops # {}
  /\ ops \subseteq claimed
  /\ \A op \in ops : state[op] = "sending"
  /\ state' = [op \in Op |-> IF op \in ops THEN "retry" ELSE state[op]]
  /\ claimed' = claimed \ ops
  /\ UNCHANGED <<info, order, base, digest, sent, hash, replacement>>
  /\ UNCHANGED <<quarantined, sender, passes, wire>>

\* A scope transition quarantines the pending intent for an entity.
Quarantine(e) ==
  /\ LET ops == {op \in Op : state[op] \in Replayable /\ info[op].entity = e}
     IN  ops # {} /\ quarantined' = quarantined \cup ops
  /\ UNCHANGED <<rows, sender, passes, wire>>

-----------------------------------------------------------------------------
(* Compaction and rebase *)

\* load_queue_entries: the first PassLimit replayable rows.
Loaded(entries) == FirstOf(entries, {op \in Op : state[op] \in Replayable}, PassLimit)

\* MutableUnsent.
Mutable(op) == state[op] = "pending" /\ op \notin sent

\* validate_entries: a possibly delivered envelope has the hash it was sealed
\* with.
Valid(entries) == \A op \in entries : op \in sent => hash[op] = base[op]

DependentIds(entries) == UNION {info[op].deps : op \in entries}

\* Mutant: an operation that others depend on is superseded.
ReplacesNeeded(entries, old, new) ==
  /\ {old, new} \subseteq entries
  /\ \A op \in {old, new} : Mutable(op) /\ info[op].shape = "update"
  /\ info[old].entity = info[new].entity
  /\ order[old] < order[new]

\* Mutant: the compaction key leaves the entity out.
ReplacesOther(entries, old, new) ==
  /\ {old, new} \subseteq entries
  /\ \A op \in {old, new} : Mutable(op) /\ info[op].shape = "update"
  /\ order[old] < order[new]

\* plan_compaction with the update operations under ReplaceLatest: `new' is
\* the next update of the same entity, with no barrier in between.
Replaces(entries, old, new) ==
  /\ {old, new} \subseteq entries
  /\ \A op \in {old, new} : Mutable(op) /\ info[op].shape = "update"
  /\ info[old].entity = info[new].entity
  /\ order[old] < order[new]
  /\ \A op \in entries : order[old] < order[op] /\ order[op] < order[new] =>
       /\ Mutable(op)
       /\ ~(info[op].shape = "update" /\ info[op].entity = info[old].entity)
  /\ old \notin DependentIds(entries)

PlanCompaction(entries) ==
  /\ compaction = None
  /\ Loaded(entries)
  /\ Valid(entries)
  /\ \E pairs \in {{p \in entries \X entries : Replaces(entries, p[1], p[2])}} :
       /\ pairs # {}
       /\ compaction' = [entries |-> entries, pairs |-> pairs]
  /\ UNCHANGED <<rows, quarantined, sender, rebase, wire>>

\* Mutant: the transaction trusts the plan.
CommitCompactionUnchecked ==
  /\ compaction # None
  /\ LET old == {p[1] : p \in compaction.pairs}
     IN  /\ state' = [op \in Op |-> IF op \in old THEN "superseded" ELSE state[op]]
         /\ replacement' = [op \in Op |-> IF op \in old
                                          THEN (CHOOSE p \in compaction.pairs : p[1] = op)[2]
                                          ELSE replacement[op]]
  /\ compaction' = None
  /\ UNCHANGED <<info, order, base, digest, sent, hash, claimed, quarantined, sender, rebase, wire>>

\* The transaction of compact_outbox: every superseded row is still pending
\* and unsent, or nothing changes.
CommitCompaction ==
  /\ compaction # None
  /\ LET old == {p[1] : p \in compaction.pairs}
     IN  IF \A op \in old : Mutable(op)
         THEN /\ state' = [op \in Op |-> IF op \in old THEN "superseded" ELSE state[op]]
              /\ replacement' = [op \in Op |-> IF op \in old
                                               THEN (CHOOSE p \in compaction.pairs : p[1] = op)[2]
                                               ELSE replacement[op]]
         ELSE UNCHANGED <<state, replacement>>
  /\ compaction' = None
  /\ UNCHANGED <<info, order, base, digest, sent, hash, claimed, quarantined, sender, rebase, wire>>

\* plan_rebase: entity e is at version v now, and its mutable operations may
\* be applied again on top of it (ReapplyIntent).
PlanRebase(entries, e, v) ==
  /\ rebase = None
  /\ Loaded(entries)
  /\ Valid(entries)
  /\ rebase' = {[op |-> op, base |-> v] : op \in {o \in entries : Mutable(o) /\ info[o].entity = e}}
  /\ rebase' # {}
  /\ UNCHANGED <<rows, quarantined, sender, compaction, wire>>

\* Mutant: the UPDATE of the envelope does not ask whether it was sent.
CommitRebaseUnchecked ==
  /\ rebase # None
  /\ base' = [op \in Op |-> IF op \in Ops(rebase) /\ op \in Present
                            THEN (CHOOSE m \in rebase : m.op = op).base ELSE base[op]]
  /\ rebase' = None
  /\ UNCHANGED <<info, state, order, digest, sent, hash, claimed, replacement>>
  /\ UNCHANGED <<quarantined, sender, compaction, wire>>

\* The transaction of rebase_outbox: every rewritten row is still pending and
\* unsent, or nothing changes.  The digest of the payload is left alone.
CommitRebase ==
  /\ rebase # None
  /\ base' = [op \in Op |-> IF op \in Ops(rebase) /\ \A o \in Ops(rebase) : Mutable(o)
                            THEN (CHOOSE m \in rebase : m.op = op).base ELSE base[op]]
  /\ rebase' = None
  /\ UNCHANGED <<info, state, order, digest, sent, hash, claimed, replacement>>
  /\ UNCHANGED <<quarantined, sender, compaction, wire>>

\* discard_device_operations: every row of the device this store belonged to.
DiscardDevice ==
  /\ Present # {}
  /\ state' = [op \in Op |-> IF op \in Present THEN "discarded" ELSE state[op]]
  /\ base' = [op \in Op |-> IF op \in Present THEN 0 ELSE base[op]]
  /\ digest' = [op \in Op |-> IF op \in Present THEN 0 ELSE digest[op]]
  /\ hash' = [op \in Op |-> IF op \in Present THEN None ELSE hash[op]]
  /\ sent' = sent \ Present
  /\ claimed' = claimed \ Present
  /\ UNCHANGED <<info, order, replacement>>
  /\ UNCHANGED <<quarantined, sender, passes, wire>>

Next ==
  \/ \E op \in Op, e \in Entity, shape \in Shapes, b \in 0..MaxBase :
       \E deps \in SUBSET Present : Insert(op, e, shape, deps, b)
  \/ \E ops \in SUBSET Present :
       \/ \E late \in SUBSET Retries : Select(ops, late) \/ Claim(ops, late)
       \/ RecoverStaleClaims(ops)
       \/ PlanCompaction(ops)
       \/ \E e \in Entity, v \in 0..MaxBase : PlanRebase(ops, e, v)
  \/ \E answer \in [Ops(batch) -> Terminal] : Reconcile(answer)
  \/ \E e \in Entity : Quarantine(e)
  \/ MarkSending
  \/ Retry
  \/ Crash
  \/ CommitCompaction
  \/ CommitRebase
  \/ DiscardDevice

Spec == Init /\ [][Next]_vars
-----------------------------------------------------------------------------
Info == [entity : Entity, shape : Shapes, deps : SUBSET Op]

States == Replayable \cup Terminal \cup {"none", "superseded", "discarded"}

EnvelopeRecord == [op : Op, base : 0..MaxBase]

\* The variables keep their types; a row has an envelope, and a hash
\* stands for a version.
TypeOK ==
  /\ info \in [Op -> Info \cup {None}]
  /\ state \in [Op -> States]
  /\ order \in [Op -> Nat]
  /\ base \in [Op -> 0..MaxBase]
  /\ digest \in [Op -> 0..MaxBase]
  /\ sent \subseteq Op
  /\ hash \in [Op -> 0..MaxBase \cup {None}]
  /\ claimed \subseteq Op
  /\ quarantined \subseteq Op
  /\ replacement \in [Op -> Op \cup {None}]
  /\ stage \in {"idle", "selected", "flying"}
  /\ batch \subseteq EnvelopeRecord
  /\ compaction \in [entries : SUBSET Op, pairs : SUBSET (Op \X Op)] \cup {None}
  /\ rebase \in SUBSET EnvelopeRecord \cup {None}
  /\ wire \subseteq EnvelopeRecord
  /\ \A op \in Op : state[op] # "none" => info[op] \in Info
  /\ \A op \in sent : hash[op] # None

\* The stored envelope of a possibly delivered operation is the one it was
\* sealed with, whatever a rebase that was planned before does (registry
\* statement RebaseIdentitySafety; validate_entries never finds a changed one).
SealedUnchanged ==
  \A op \in sent : hash[op] = base[op]

\* A possibly delivered operation is not superseded, although the pass that
\* planned it may have read the row before it was sent (compact_outbox).
DeliveredKept ==
  \A op \in sent : state[op] # "superseded"

\* Compaction alone loses no intent: for every superseded operation a later
\* one of the same entity is still in the outbox, or was discarded with the
\* device (registry statement QueueIntentPreservation).
IntentKept ==
  \A op \in Op : state[op] = "superseded" =>
    \E new \in Op : /\ state[new] \notin {"none", "superseded"}
                    /\ info[new].entity = info[op].entity
                    /\ order[op] < order[new]

\* A compaction does not supersede what an active operation of its pass depends
\* on, although that operation may have been retried or sent since the plan
\* (registry statement QueueDependencySafety).  An operation that the pass did
\* not load, because it is new or beyond PassLimit, has no such protection.
DependenciesKept ==
  [][\A op, d \in Op :
       /\ state'[op] = "superseded" /\ state[op] # "superseded"
       /\ d \in compaction.entries /\ state[d] \in Replayable
       => op \notin info[d].deps]_vars

\* One operation identifier is only ever transmitted with one envelope
\* (registry statement DeliveredPayloadImmutability: "a possibly delivered
\* OperationId retains one immutable semantic envelope").
TransmittedOnce ==
  \A m, n \in wire : m.op = n.op => m.base = n.base
=============================================================================
