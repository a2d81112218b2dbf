------------------------------ MODULE Exchange ------------------------------
(***************************************************************************)
(* One sync scope on one authority timeline: clients with a durable outbox *)
(* and replica, and server handlers that work one transaction at a time.   *)
(*                                                                         *)
(* A handler (AequoraServer::process) is not one transaction: the retained *)
(* floor, the ledger, the entity, the commit and the change page are read  *)
(* or written in transactions of their own, so two handlers, a compaction  *)
(* and a snapshot interleave between them.  A client that gives up on an   *)
(* answer leaves its handler running and sends the operation again.        *)
(*                                                                         *)
(* `journal' keeps every event ever committed; an event at or below        *)
(* `floor' is compacted away.  An operation is in the operation ledger iff *)
(* it is in `journal': commit_operation writes both in one transaction.    *)
(* Payloads are left out: within a timeline a version names its content.   *)
(***************************************************************************)
EXTENDS Integers, Sequences, FiniteSets

CONSTANTS
  Client,                  \* devices that follow the scope
  Op,                      \* operation identifiers
  Entity,                  \* entities of the scope
  Handler,                 \* requests the server works on at a time
  None,                    \* no request, no snapshot being staged
  Policy,                  \* conflict policies in use, of {"manual", "merge"}
  Dependencies,            \* an operation may depend on the one before it
  BatchLimit,              \* operations in a request
  PageLimit,               \* changes in a response
  SnapshotPages,           \* pages of a snapshot
  MaxFaults,               \* bound: crashes, lost answers and server errors
  MaxSnapshots,            \* bound: snapshots created outside a bootstrap
  MaxFloor,                \* bound: events compacted away
  CompactDuringExchange,   \* compaction may run while a request is processed
  HostDriven               \* the host calls run_once() and bootstrap() itself

ASSUME ExchangeConstants ==
  /\ Policy \subseteq {"manual", "merge"}
  /\ Dependencies \in BOOLEAN
  /\ BatchLimit \in Nat \ {0}
  /\ PageLimit \in Nat \ {0}
  /\ SnapshotPages \in Nat \ {0}
  /\ MaxFaults \in Nat
  /\ MaxSnapshots \in Nat
  /\ MaxFloor \in Nat
  /\ CompactDuringExchange \in BOOLEAN
  /\ HostDriven \in BOOLEAN

VARIABLES
  journal,     \* authoritative events in sequence order
  floor,       \* minimum retained cursor
  snapshots,   \* published snapshots: a cursor and the entity versions
  handler,     \* handler[h]: the request it works on, or None
  info,        \* info[op]: the immutable envelope of a created operation
  state,       \* state[op]: the outbox state of an operation
  order,       \* order[op]: its enqueued_order in its client's outbox
  cursor,      \* cursor[c]: durable cursor, NoCursor before the first one
  replica,     \* replica[c][e]: version of e in the replica, 0 when absent
  applied,     \* applied[c]: sequences recorded as applied
  progress,    \* progress[c]: snapshot being staged and the next page
  phase,       \* phase[c]: what the engine is doing
  request,     \* request[c]: the request the engine waits on, or None
  faults       \* crashes, lost answers and server errors so far

server == <<journal, floor, snapshots>>
queue == <<info, state, order>>
local == <<cursor, replica, applied, progress>>
engine == <<phase, request>>
vars == <<server, handler, queue, local, engine, faults>>

NoCursor == -1

Terminal == {"acknowledged", "rejected", "conflict"}

\* The operations that have a ledger row (operation_result).
Committed == {journal[i].op : i \in DOMAIN journal}

\* v is the version of e in the first n events of `log', 0 when there is none.
VersionAt(log, e, n, v) ==
  \/ v = 0 /\ \A i \in 1..n : log[i].entity # e
  \/ \E i \in 1..n : /\ log[i].entity = e
                     /\ log[i].version = v
                     /\ \A j \in (i + 1)..n : log[j].entity # e

\* read_entity: the authoritative version of e.
Version(e) == CHOOSE v \in 0..Len(journal) : VersionAt(journal, e, Len(journal), v)

Init ==
  /\ journal = <<>>
  /\ floor = 0
  /\ snapshots = {}
  /\ handler = [h \in Handler |-> None]
  /\ info = [op \in Op |-> None]
  /\ state = [op \in Op |-> "none"]
  /\ order = [op \in Op |-> 0]
  /\ cursor = [c \in Client |-> NoCursor]
  /\ replica = [c \in Client |-> [e \in Entity |-> 0]]
  /\ applied = [c \in Client |-> {}]
  /\ progress = [c \in Client |-> None]
  /\ phase = [c \in Client |-> "idle"]
  /\ request = [c \in Client |-> None]
  /\ faults = 0

-----------------------------------------------------------------------------
(* The client: local transaction and request *)

\* The operations of client c.
Own(c) == {op \in Op : state[op] # "none" /\ info[op].client = c}

\* The newest of them, which the next one may depend on.
Previous(c) ==
  {op \in Own(c) : Dependencies /\ \A o \in Own(c) : order[o] <= order[op]}

\* transact_local_mutation: the optimistic change and its operation become
\* durable together; the envelope's base is the version in the replica.
LocalMutation(c, op, e, p) ==
  /\ state[op] = "none"
  /\ \E deps \in SUBSET Previous(c) :
       info' = [info EXCEPT ![op] = [client |-> c, entity |-> e, policy |-> p,
                                     base |-> replica[c][e], deps |-> deps]]
  /\ state' = [state EXCEPT ![op] = "pending"]
  /\ order' = [order EXCEPT ![op] = Cardinality(Own(c)) + 1]
  /\ UNCHANGED <<server, handler, local, engine, faults>>

\* Mutant: an operation that was being sent when the process died is forgotten.
EligibleNotSending(c, due) == {op \in Own(c) : state[op] = "pending" \/ op \in due}

\* pending_operations, when `due' are the retries whose time has come.
Eligible(c, due) ==
  {op \in Own(c) : state[op] \in {"pending", "sending"} \/ op \in due}

Retries(c) == {op \in Own(c) : state[op] = "retry"}

\* The first of some operations in enqueued order.
First(ops) == {op \in ops : \A o \in ops : order[op] <= order[o]}

\* The outbox with the operations of `ops' moved to state s.
Moved(ops, s) == [op \in Op |-> IF op \in ops THEN s ELSE state[op]]

\* The cursor of a request; an absent one reads from the beginning.
Start(c) == IF cursor[c] = NoCursor THEN 0 ELSE cursor[c]

\* run_once up to the transport: the cursor, a bounded prefix of the eligible
\* operations (shorter when the encoding is too large), mark_sending.
Send(c, due, ops) ==
  /\ phase[c] = "idle"
  /\ cursor[c] # NoCursor \/ HostDriven
  /\ LET ready == Eligible(c, due)
     IN  /\ ops \subseteq ready
         /\ Cardinality(ops) <= BatchLimit
         /\ ops = {} => ready = {}
         /\ \A op \in ops, o \in ready : order[o] < order[op] => o \in ops
  /\ state' = Moved(ops, "sending")
  /\ request' = [request EXCEPT ![c] = [start |-> Start(c), ops |-> ops, sent |-> FALSE]]
  /\ phase' = [phase EXCEPT ![c] = "exchange"]
  /\ UNCHANGED <<server, handler, info, order, local, faults>>

-----------------------------------------------------------------------------
(* The server: one request, transaction by transaction *)

\* Mutant: the floor comparison is off by one.
DeliverOffByOne(c, h) ==
  /\ phase[c] = "exchange"
  /\ ~request[c].sent
  /\ handler[h] = None
  /\ LET r == request[c]
     IN  handler' = [handler EXCEPT ![h] =
           [client |-> c, start |-> r.start, ops |-> r.ops, todo |-> r.ops,
            stage |-> IF r.start + 1 < floor THEN "resync"
                      ELSE IF r.ops = {} THEN "page" ELSE "lookup",
            expected |-> 0, verdict |-> [op \in Op |-> "none"],
            page |-> {}, to |-> r.start, live |-> TRUE]]
  /\ request' = [request EXCEPT ![c].sent = TRUE]
  /\ UNCHANGED <<server, queue, local, phase, faults>>

\* A request arrives and its cursor is compared with the retained floor.
Deliver(c, h) ==
  /\ phase[c] = "exchange"
  /\ ~request[c].sent
  /\ handler[h] = None
  /\ LET r == request[c]
     IN  handler' = [handler EXCEPT ![h] =
           [client |-> c, start |-> r.start, ops |-> r.ops, todo |-> r.ops,
            stage |-> IF r.start < floor THEN "resync"
                      ELSE IF r.ops = {} THEN "page" ELSE "lookup",
            expected |-> 0, verdict |-> [op \in Op |-> "none"],
            page |-> {}, to |-> r.start, live |-> TRUE]]
  /\ request' = [request EXCEPT ![c].sent = TRUE]
  /\ UNCHANGED <<server, queue, local, phase, faults>>

Working(h, stage) == handler[h] # None /\ handler[h].stage = stage

\* Handler h works on op, the first it has not answered.
Processing(h, op, stage) == Working(h, stage) /\ op \in First(handler[h].todo)

\* Handler h with op answered, at the next operation.
Answered(h, op, answer) ==
  [handler[h] EXCEPT
     !.verdict = [@ EXCEPT ![op] = answer],
     !.todo = @ \ {op},
     !.expected = 0,
     !.stage = IF handler[h].todo = {op} THEN "page" ELSE "lookup"]

\* The first transaction of process_operation: an operation of the ledger is
\* answered with its stored acknowledgement.
Lookup(h, op) ==
  /\ Processing(h, op, "lookup")
  /\ handler' = [handler EXCEPT ![h] =
       IF op \in Committed THEN Answered(h, op, "acknowledged")
       ELSE [@ EXCEPT !.stage = "read"]]
  /\ UNCHANGED <<server, queue, local, engine, faults>>

\* Mutant: dependencies are not looked up.
VerdictsAnyOrder(op) ==
  {"rejected"} \cup
  IF info[op].base = Version(info[op].entity) THEN {"none"}
  ELSE IF info[op].policy = "merge" THEN {"none", "conflict"}
  ELSE {"conflict"}

\* Dependencies, authorization and the domain executor may reject; a version
\* other than the base is a conflict unless the policy merges or overrides.
Verdicts(op) ==
  {"rejected"} \cup
  IF ~(info[op].deps \subseteq Committed) THEN {}
  ELSE IF info[op].base = Version(info[op].entity) THEN {"none"}
  ELSE IF info[op].policy = "merge" THEN {"none", "conflict"}
  ELSE {"conflict"}

\* process_operation from the dependency check to the merged mutation.
Read(h, op) ==
  /\ Processing(h, op, "read")
  /\ \E v \in Verdicts(op) :
       handler' = [handler EXCEPT ![h] =
         IF v = "none"
         THEN [@ EXCEPT !.stage = "commit",
                        !.expected = Version(info[op].entity)]
         ELSE Answered(h, op, v)]
  /\ UNCHANGED <<server, queue, local, engine, faults>>

\* Mutant: the commit relies on the ledger lookup made before it.
CommitUnchecked(h, op) ==
  /\ Processing(h, op, "commit")
  /\ LET e == info[op].entity
     IN  IF Version(e) = handler[h].expected
         THEN /\ journal' = Append(journal, [op |-> op, entity |-> e,
                                             version |-> handler[h].expected + 1])
              /\ handler' = [handler EXCEPT ![h] = Answered(h, op, "acknowledged")]
         ELSE /\ handler' = [handler EXCEPT ![h] = Answered(h, op, "conflict")]
              /\ UNCHANGED journal
  /\ UNCHANGED <<floor, snapshots, queue, local, engine, faults>>

\* Mutant: the version is not compared again under the commit's lock.
CommitStale(h, op) ==
  /\ Processing(h, op, "commit")
  /\ LET e == info[op].entity
     IN  IF op \in Committed THEN UNCHANGED journal
         ELSE journal' = Append(journal, [op |-> op, entity |-> e,
                                          version |-> handler[h].expected + 1])
  /\ handler' = [handler EXCEPT ![h] = Answered(h, op, "acknowledged")]
  /\ UNCHANGED <<floor, snapshots, queue, local, engine, faults>>

\* Mutant: a version that changed before the commit is reported as applied.
CommitAcknowledges(h, op) ==
  /\ Processing(h, op, "commit")
  /\ LET e == info[op].entity
     IN  IF op \in Committed \/ Version(e) # handler[h].expected
         THEN UNCHANGED journal
         ELSE journal' = Append(journal, [op |-> op, entity |-> e,
                                          version |-> handler[h].expected + 1])
  /\ handler' = [handler EXCEPT ![h] = Answered(h, op, "acknowledged")]
  /\ UNCHANGED <<floor, snapshots, queue, local, engine, faults>>

\* commit_operation: ledger, expected version, then the event, the entity and
\* the ledger row in one transaction.
Commit(h, op) ==
  /\ Processing(h, op, "commit")
  /\ LET e == info[op].entity
     IN  \/ /\ op \in Committed
            /\ handler' = [handler EXCEPT ![h] = Answered(h, op, "acknowledged")]
            /\ UNCHANGED journal
         \/ /\ op \notin Committed
            /\ Version(e) # handler[h].expected
            /\ handler' = [handler EXCEPT ![h] = Answered(h, op, "conflict")]
            /\ UNCHANGED journal
         \/ /\ op \notin Committed
            /\ Version(e) = handler[h].expected
            /\ journal' = Append(journal, [op |-> op, entity |-> e,
                                           version |-> handler[h].expected + 1])
            /\ handler' = [handler EXCEPT ![h] = Answered(h, op, "acknowledged")]
  /\ UNCHANGED <<floor, snapshots, queue, local, engine, faults>>

\* Mutant: the next cursor is the sequence after the last change.
ReadPageOffByOne(h, n) ==
  /\ Working(h, "page")
  /\ LET low == IF handler[h].start < floor THEN floor ELSE handler[h].start
         available == Len(journal) - low
     IN  /\ n <= available
         /\ n = 0 => available = 0 \/ handler[h].ops # {}
         /\ handler' = [handler EXCEPT ![h] =
              [handler[h] EXCEPT !.stage = "reply", !.page = (low + 1)..(low + n),
                                 !.to = low + n + 1]]
  /\ UNCHANGED <<server, queue, local, engine, faults>>

\* read_changes_after and fit_response: the first n retained events after the
\* cursor; byte limits may leave none only if there are results to report.
ReadPage(h, n) ==
  /\ Working(h, "page")
  /\ LET low == IF handler[h].start < floor THEN floor ELSE handler[h].start
         available == Len(journal) - low
     IN  /\ n <= available
         /\ n = 0 => available = 0 \/ handler[h].ops # {}
         /\ handler' = [handler EXCEPT ![h] =
              [handler[h] EXCEPT !.stage = "reply", !.page = (low + 1)..(low + n),
                                 !.to = IF n = 0 THEN handler[h].start ELSE low + n]]
  /\ UNCHANGED <<server, queue, local, engine, faults>>

-----------------------------------------------------------------------------
(* The client: reconciliation *)

\* The engine is done with its request.
Idle(c) ==
  /\ phase' = [phase EXCEPT ![c] = "idle"]
  /\ request' = [request EXCEPT ![c] = None]

\* The answer of handler h reaches the client that waits on it.
Answers(c, h, stage) ==
  /\ Working(h, stage)
  /\ handler[h].client = c
  /\ handler[h].live

\* New is replica Old after the changes of `page' that are not in `done'.
PageApplied(new, old, page, done) ==
  \A e \in Entity :
    LET I == {i \in page \ done : journal[i].entity = e}
    IN  IF I = {} THEN new[e] = old[e]
        ELSE \E i \in I : new[e] = journal[i].version /\ \A j \in I : j <= i

\* reconcile: changes, terminal states and cursor in one transaction.
Reconcile(c, h) ==
  /\ Answers(c, h, "reply")
  /\ LET r == handler[h]
     IN  /\ \E new \in [Entity -> 0..Len(journal)] :
              /\ PageApplied(new, replica[c], r.page, applied[c])
              /\ replica' = [replica EXCEPT ![c] = new]
         /\ applied' = [applied EXCEPT ![c] = @ \cup r.page]
         /\ cursor' = [cursor EXCEPT ![c] = r.to]
         /\ state' = [op \in Op |-> IF r.verdict[op] = "none" THEN state[op]
                                    ELSE r.verdict[op]]
  /\ handler' = [handler EXCEPT ![h] = None]
  /\ Idle(c)
  /\ UNCHANGED <<server, info, order, progress, faults>>

\* Mutant: sync() returns the resync directive as an error.
ResyncGivesUp(c, h) ==
  /\ Answers(c, h, "resync")
  /\ state' = Moved(handler[h].ops, "retry")
  /\ handler' = [handler EXCEPT ![h] = None]
  /\ Idle(c)
  /\ UNCHANGED <<server, info, order, local, faults>>

\* ResyncRequired: the operations are kept for a retry and sync() goes on to
\* bootstrap.
Resync(c, h) ==
  /\ Answers(c, h, "resync")
  /\ state' = Moved(handler[h].ops, "retry")
  /\ handler' = [handler EXCEPT ![h] = None]
  /\ phase' = [phase EXCEPT ![c] = "bootstrap"]
  /\ request' = [request EXCEPT ![c] = None]
  /\ UNCHANGED <<server, info, order, local, faults>>

\* The handlers of c no longer have anybody to answer to.
Abandoned(c) ==
  [h \in Handler |-> IF handler[h] # None /\ handler[h].client = c
                     THEN [handler[h] EXCEPT !.live = FALSE] ELSE handler[h]]

\* Mutant: every operation of the outbox gets a retry time.
TransportFailsAll(c) ==
  /\ phase[c] = "exchange"
  /\ faults < MaxFaults
  /\ faults' = faults + 1
  /\ state' = Moved(Own(c), "retry")
  /\ handler' = Abandoned(c)
  /\ Idle(c)
  /\ UNCHANGED <<server, info, order, local>>

\* The transport reports a failure: the request, the answer or neither may
\* have been lost.  The operations of the request get a retry time.
TransportFails(c) ==
  /\ phase[c] = "exchange"
  /\ \/ faults < MaxFaults /\ faults' = faults + 1
     \/ /\ request[c].sent
        /\ ~\E h \in Handler :
             handler[h] # None /\ handler[h].client = c /\ handler[h].live
        /\ faults' = faults
  /\ state' = Moved(request[c].ops, "retry")
  /\ handler' = Abandoned(c)
  /\ Idle(c)
  /\ UNCHANGED <<server, info, order, local>>

\* The process of c dies and starts again; what is durable stays.
CrashClient(c) ==
  /\ phase[c] # "idle"
  /\ faults < MaxFaults
  /\ faults' = faults + 1
  /\ handler' = Abandoned(c)
  /\ Idle(c)
  /\ UNCHANGED <<server, queue, local>>

\* A handler stops before its end (store error, deadline, crash) or finds its
\* client gone; what it has committed stays.
Stop(h) ==
  /\ handler[h] # None
  /\ \/ faults < MaxFaults /\ faults' = faults + 1
     \/ ~handler[h].live /\ handler[h].stage \in {"reply", "resync"} /\ faults' = faults
  /\ handler' = [handler EXCEPT ![h] = None]
  /\ UNCHANGED <<server, queue, local, engine>>

-----------------------------------------------------------------------------
(* Snapshots and compaction *)

\* create_snapshot: entity versions and cursor of one database snapshot.
Snapshot == [cursor |-> Len(journal), versions |-> [e \in Entity |-> Version(e)]]

\* A snapshot is published for somebody else.
CreateSnapshot ==
  /\ Cardinality(snapshots) < MaxSnapshots
  /\ snapshots' = snapshots \cup {Snapshot}
  /\ UNCHANGED <<journal, floor, handler, queue, local, engine, faults>>

\* Mutant: sync() bootstraps whether or not there is a cursor.
BeginBootstrapAlways(c) ==
  /\ phase[c] = "idle"
  /\ phase' = [phase EXCEPT ![c] = "bootstrap"]
  /\ UNCHANGED <<server, handler, queue, local, request, faults>>

\* sync() without a cursor, or the host, starts or resumes a bootstrap.
BeginBootstrap(c) ==
  /\ phase[c] = "idle"
  /\ cursor[c] = NoCursor \/ HostDriven
  /\ phase' = [phase EXCEPT ![c] = "bootstrap"]
  /\ UNCHANGED <<server, handler, queue, local, request, faults>>

\* stage_snapshot: page n of snapshot s; the last page replaces the replica
\* and the cursor.  The record of applied sequences is left as it is.
Stage(c, s, n) ==
  IF n < SnapshotPages
  THEN /\ progress' = [progress EXCEPT ![c] = [snapshot |-> s, next |-> n + 1]]
       /\ UNCHANGED <<cursor, replica, applied, phase>>
  ELSE /\ progress' = [progress EXCEPT ![c] = None]
       /\ cursor' = [cursor EXCEPT ![c] = s.cursor]
       /\ replica' = [replica EXCEPT ![c] = s.versions]
       /\ phase' = [phase EXCEPT ![c] = "idle"]
       /\ UNCHANGED applied

\* One page of bootstrap(): durable progress decides between a new snapshot
\* and the next page of the one being staged.
BootstrapPage(c) ==
  /\ phase[c] = "bootstrap"
  /\ IF progress[c] = None
     THEN snapshots' = snapshots \cup {Snapshot} /\ Stage(c, Snapshot, 1)
     ELSE Stage(c, progress[c].snapshot, progress[c].next) /\ UNCHANGED snapshots
  /\ UNCHANGED <<journal, floor, handler, queue, request, faults>>

\* compact_journal: through a sequence that some snapshot reaches.
Compact(k) ==
  /\ k > floor
  /\ k <= MaxFloor
  /\ \E s \in snapshots : s.cursor >= k
  /\ \/ CompactDuringExchange
     \/ \A h \in Handler :
          handler[h] # None => handler[h].stage \in {"reply", "resync"}
  /\ floor' = k
  /\ UNCHANGED <<journal, snapshots, handler, queue, local, engine, faults>>

Next ==
  \/ \E c \in Client :
       \/ \E op \in Op, e \in Entity, p \in Policy : LocalMutation(c, op, e, p)
       \/ \E due \in SUBSET Retries(c), ops \in SUBSET Own(c) : Send(c, due, ops)
       \/ \E h \in Handler : Deliver(c, h) \/ Reconcile(c, h) \/ Resync(c, h)
       \/ TransportFails(c)
       \/ CrashClient(c)
       \/ BeginBootstrap(c)
       \/ BootstrapPage(c)
  \/ \E h \in Handler :
       \/ \E op \in Op : Lookup(h, op) \/ Read(h, op) \/ Commit(h, op)
       \/ \E n \in 0..PageLimit : ReadPage(h, n)
       \/ Stop(h)
  \/ CreateSnapshot
  \/ \E k \in 1..Len(journal) : Compact(k)

Spec == Init /\ [][Next]_vars

\* The coordinator calls sync() again and again, a durable retry time is at
\* most max_delay away, and the server finishes the requests it has accepted
\* and accepts the ones that wait.  Nothing obliges a mutation, a snapshot, a
\* compaction or a fault to happen.
Fairness ==
  /\ \A c \in Client :
       /\ SF_vars(\E ops \in SUBSET Own(c) : Send(c, Retries(c), ops))
       /\ SF_vars(\E h \in Handler : Deliver(c, h))
       /\ WF_vars(\E h \in Handler : Reconcile(c, h) \/ Resync(c, h))
       /\ WF_vars(TransportFails(c) /\ faults' = faults)
       /\ WF_vars(BeginBootstrap(c) \/ BootstrapPage(c))
  /\ \A h \in Handler :
       /\ WF_vars(\E op \in Op : Lookup(h, op) \/ Read(h, op) \/ Commit(h, op))
       /\ WF_vars(\E n \in 0..PageLimit : ReadPage(h, n))
       /\ WF_vars(Stop(h) /\ faults' = faults)

FairSpec == Spec /\ Fairness
-----------------------------------------------------------------------------
Stages == {"lookup", "read", "commit", "page", "reply", "resync"}

Event == [op : Op, entity : Entity, version : Nat]

SnapshotRecord == [cursor : Nat, versions : [Entity -> Nat]]

Envelope ==
  [client : Client, entity : Entity, policy : Policy, base : Nat, deps : SUBSET Op]

RequestRecord == [start : Nat, ops : SUBSET Op, sent : BOOLEAN]

VerdictMap == [Op -> Terminal \cup {"none"}]

Work ==
  [client : Client, start : Nat, ops : SUBSET Op, todo : SUBSET Op, stage : Stages,
   expected : Nat, verdict : VerdictMap, page : SUBSET Nat,
   to : Nat, live : BOOLEAN]

\* The variables keep their types.
Types ==
  /\ journal \in Seq(Event)
  /\ floor \in Nat
  /\ snapshots \subseteq SnapshotRecord
  /\ handler \in [Handler -> Work \cup {None}]
  /\ info \in [Op -> Envelope \cup {None}]
  /\ state \in [Op -> Terminal \cup {"none", "pending", "sending", "retry"}]
  /\ cursor \in [Client -> Nat \cup {NoCursor}]
  /\ replica \in [Client -> [Entity -> Nat]]
  /\ applied \in [Client -> SUBSET Nat]
  /\ progress \in [Client -> [snapshot : snapshots, next : Nat] \cup {None}]
  /\ phase \in [Client -> {"idle", "exchange", "bootstrap"}]
  /\ request \in [Client -> RequestRecord \cup {None}]
  /\ \A op \in Op : state[op] # "none" => info[op] \in Envelope
  /\ \A c \in Client : phase[c] = "exchange" => request[c] \in RequestRecord

\* Every sequence number that a party remembers is one the journal reached.
WithinJournal ==
  /\ floor <= Len(journal)
  /\ \A s \in snapshots : s.cursor <= Len(journal)
  /\ \A c \in Client : cursor[c] <= Len(journal)
  /\ \A c \in Client : phase[c] = "exchange" => request[c].start <= Len(journal)
  /\ \A h \in Handler : handler[h] # None =>
       /\ handler[h].start <= Len(journal)
       /\ handler[h].to <= Len(journal)
       /\ handler[h].page \subseteq 1..Len(journal)

\* The variables keep their types, and sequence numbers stay in the journal.
TypeOK == Types /\ WithinJournal

Positions == 1..Len(journal)

\* A replica at cursor n holds exactly the effect of the first n events,
\* through pages, retries, snapshots, compaction and crashes (registry
\* statement CursorSafety: "cursor N means every required event through N is
\* durably applied locally").
CursorSafety ==
  \A c \in Client : cursor[c] # NoCursor =>
    \A e \in Entity : VersionAt(journal, e, cursor[c], replica[c][e])

\* Only created operations are sent and worked on.
Created ==
  /\ \A c \in Client : phase[c] = "exchange" =>
       \A op \in request[c].ops : state[op] # "none"
  /\ \A h \in Handler : handler[h] # None =>
       /\ handler[h].todo \subseteq handler[h].ops
       /\ \A op \in handler[h].ops : state[op] # "none"
       /\ \A op \in Op : handler[h].verdict[op] # "none" => op \in handler[h].ops

\* Every entity has an authoritative version.
VersionsExist ==
  \A e \in Entity : \E v \in 0..Len(journal) : VersionAt(journal, e, Len(journal), v)

\* A snapshot holds exactly the effect of the events up to its cursor.
SnapshotsConsistent ==
  \A s \in snapshots : \A e \in Entity : VersionAt(journal, e, s.cursor, s.versions[e])

\* A client has recorded as applied only sequences up to its cursor.
AppliedBehindCursor ==
  \A c \in Client : applied[c] \subseteq 1..Start(c)

\* The handler that answers a client works from that client's durable cursor,
\* and no other handler answers it.
OneAnswer ==
  /\ \A c \in Client : phase[c] = "exchange" =>
       cursor[c] # NoCursor /\ request[c].start = cursor[c]
  /\ \A h \in Handler : handler[h] # None /\ handler[h].live =>
       LET c == handler[h].client
       IN  /\ phase[c] = "exchange"
           /\ request[c].sent
           /\ handler[h].start = cursor[c]
           /\ \A g \in Handler : handler[g] # None /\ handler[g].live
                                 /\ handler[g].client = c => g = h

\* A page has no gap: its events are the ones right after the cursor, because
\* the floor was at or below the cursor when they were read.
PagesGapless ==
  \A h \in Handler : handler[h] # None /\ handler[h].live =>
    /\ handler[h].stage \in {"lookup", "read", "commit", "page"} =>
         floor <= handler[h].start
    /\ handler[h].stage = "reply" =>
         /\ handler[h].start <= handler[h].to
         /\ handler[h].page = (handler[h].start + 1)..handler[h].to
    /\ handler[h].stage = "resync" => handler[h].start < floor

\* A client that bootstraps is below the floor, so no page can advance it, and
\* the snapshot it stages is not behind its cursor.
StagingAhead ==
  \A c \in Client :
    /\ phase[c] = "bootstrap" => cursor[c] < floor
    /\ progress[c] # None =>
         /\ cursor[c] <= progress[c].snapshot.cursor
         /\ cursor[c] < floor
         /\ \A h \in Handler : handler[h] # None /\ handler[h].live
                               /\ handler[h].client = c => handler[h].stage = "resync"

\* The inductive invariant behind CursorSafety, for clients driven by sync()
\* and compaction that waits for running requests.
CursorInv ==
  /\ TypeOK
  /\ Created
  /\ VersionsExist
  /\ SnapshotsConsistent
  /\ CursorSafety
  /\ AppliedBehindCursor
  /\ OneAnswer
  /\ PagesGapless
  /\ StagingAhead

\* However often an operation is sent and however its handlers overlap, it has
\* one authoritative effect (commit_operation's ledger check).
OperationOnce ==
  \A i, j \in Positions : journal[i].op = journal[j].op => i = j

\* The versions of an entity are consecutive in the order of its events: no
\* update is lost between read_entity and commit_operation.
VersionsConsecutive ==
  \A i \in Positions : VersionAt(journal, journal[i].entity, i - 1, journal[i].version - 1)

\* An acknowledgement that a handler is about to send is true.
VerdictsTrue ==
  \A h \in Handler : handler[h] # None =>
    \A op \in Op : handler[h].verdict[op] = "acknowledged" => op \in Committed

\* What a client shows as acknowledged is in the journal, although the answer
\* may come from a retry of the request that committed it.
AcknowledgedCommitted ==
  \A op \in Op : state[op] = "acknowledged" => op \in Committed

\* An operation takes effect only after the operations it depends on.
DependenciesFirst ==
  \A i \in Positions : \A d \in info[journal[i].op].deps :
    \E j \in 1..(i - 1) : journal[j].op = d

\* A durable cursor never moves back, not even when a snapshot whose staging
\* was interrupted is resumed later (set_cursor in stage_snapshot).
CursorNeverRegresses ==
  [][\A c \in Client : cursor'[c] >= cursor[c]]_vars

\* A terminal outbox state is never left: no late failure, resync or restart
\* makes a finished operation replayable (schedule_retry, mark_sending).
TerminalStays ==
  [][\A op \in Op : state[op] \in Terminal => state'[op] = state[op]]_vars

\* Every operation reaches a terminal outcome once faults stop, whatever the
\* faults before left half done.
ReachesTerminal ==
  \A op \in Op : state[op] = "pending" ~> state[op] \in Terminal

\* Every client catches up with every committed event, by pages or by a
\* snapshot, also when its cursor falls below the retained floor.
CatchesUp ==
  \A c \in Client, n \in 1..Cardinality(Op) : Len(journal) >= n ~> cursor[c] >= n
=============================================================================
