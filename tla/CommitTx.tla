------------------------------ MODULE CommitTx ------------------------------
(***************************************************************************)
(* PostgreSQL commits, statement by statement, at READ COMMITTED: the      *)
(* authority fence, the advisory locks on operation and entity, the ledger *)
(* and version reads, one locked scope-sequence row per delivery, and the  *)
(* commit that makes everything visible.  Transactions wait for locks, may *)
(* deadlock over the sequence rows of a fan-out, and may be rolled back at *)
(* any statement.                                                          *)
(***************************************************************************)
EXTENDS Integers, FiniteSets, Sequences

CONSTANTS
  Tx,             \* concurrent transactions
  Op,             \* operation identifiers
  Entity,         \* entities
  Scope,          \* sync scopes
  EntityOf,       \* EntityOf[op]: the entity op changes
  Deliveries,     \* Deliveries[op]: its scopes in delivery order
  None,           \* no transaction
  MaxAborts,      \* bound: rollbacks other than deadlock victims
  MaxFence        \* bound: authority transitions

ASSUME CommitConstants ==
  /\ EntityOf \in [Op -> Entity]
  /\ \A op \in Op : Deliveries[op] # <<>>
  /\ \A op \in Op : \A i, j \in DOMAIN Deliveries[op] :
       /\ Deliveries[op][i] \in Scope
       /\ Deliveries[op][i] = Deliveries[op][j] => i = j
  /\ MaxAborts \in Nat
  /\ MaxFence \in Nat

VARIABLES
  version,    \* version[e]: committed version of e
  ledger,     \* committed rows of aequora_applied_operations
  journal,    \* journal[s]: committed events of scope s
  sequence,   \* sequence[s]: committed value of the scope's sequence row
  fence,      \* fence token of the authority row
  tx,         \* tx[t]: a running transaction, or None
  aborts      \* rollbacks so far

vars == <<version, ledger, journal, sequence, fence, tx, aborts>>
committed == <<version, ledger, journal, sequence>>

ScopesOf == [op \in Op |-> {Deliveries[op][i] : i \in DOMAIN Deliveries[op]}]

Init ==
  /\ version = [e \in Entity |-> 0]
  /\ ledger = {}
  /\ journal = [s \in Scope |-> {}]
  /\ sequence = [s \in Scope |-> 0]
  /\ fence = 1
  /\ tx = [t \in Tx |-> None]
  /\ aborts = 0

-----------------------------------------------------------------------------
(* Locks *)

Running == {t \in Tx : tx[t] # None}

\* The scope whose sequence row transaction t asks for next.
NextScope(t) == Deliveries[tx[t].op][Cardinality(tx[t].rows) + 1]

\* The transactions that hold what t asks for.
Blockers(t) ==
  {u \in Running \ {t} :
     \/ /\ tx[t].at = "operation"
        /\ tx[u].op = tx[t].op
        /\ tx[u].at \in {"entity", "read", "rows"}
     \/ /\ tx[t].at = "entity"
        /\ EntityOf[tx[u].op] = EntityOf[tx[t].op]
        /\ tx[u].at \in {"read", "rows"}
     \/ /\ tx[t].at = "rows"
        /\ tx[u].at = "rows"
        /\ tx[t].rows # ScopesOf[tx[t].op]
        /\ NextScope(t) \in tx[u].rows}

\* t waits for a transaction that waits for t.
Deadlocked(t) ==
  \E u \in Blockers(t) : \/ t \in Blockers(u)
                         \/ \E w \in Blockers(u) : t \in Blockers(w)

At(t, statement) == t \in Running /\ tx[t].at = statement

\* The statement of t is done and `statement' is next.
Goes(t, statement) == tx' = [tx EXCEPT ![t].at = statement]

\* Transaction t is over and its locks are free.
Ends(t) == tx' = [tx EXCEPT ![t] = None]

-----------------------------------------------------------------------------
(* Statements *)

\* commit_operation with the version the handler has read and the commit
\* context it was authorized with.
Begin(t, op) ==
  /\ tx[t] = None
  /\ tx' = [tx EXCEPT ![t] =
       [op |-> op, at |-> "fence", expected |-> version[EntityOf[op]],
        fence |-> fence, rows |-> {}]]
  /\ UNCHANGED <<committed, fence, aborts>>

\* SELECT EXISTS on the authority row: no lock is taken.
CheckFence(t) ==
  /\ At(t, "fence")
  /\ IF tx[t].fence = fence THEN Goes(t, "operation") ELSE Ends(t)
  /\ UNCHANGED <<committed, fence, aborts>>

\* Mutant: the first sequence row is taken before the entity's lock.
LockOperationAndRow(t) ==
  /\ At(t, "operation")
  /\ Blockers(t) = {}
  /\ tx' = [tx EXCEPT ![t].at = "entity", ![t].rows = {NextScope(t)}]
  /\ UNCHANGED <<committed, fence, aborts>>

\* pg_advisory_xact_lock on the operation.
LockOperation(t) ==
  /\ At(t, "operation")
  /\ Blockers(t) = {}
  /\ Goes(t, "entity")
  /\ UNCHANGED <<committed, fence, aborts>>

\* pg_advisory_xact_lock on the entity.
LockEntity(t) ==
  /\ At(t, "entity")
  /\ Blockers(t) = {}
  /\ Goes(t, "read")
  /\ UNCHANGED <<committed, fence, aborts>>

\* Mutant: the version is not compared again.
ReadStale(t) ==
  /\ At(t, "read")
  /\ IF tx[t].op \in ledger THEN Ends(t) ELSE Goes(t, "rows")
  /\ UNCHANGED <<committed, fence, aborts>>

\* The ledger row and the entity row: a duplicate or a changed version ends
\* the transaction.  The two locks keep both answers true.
Read(t) ==
  /\ At(t, "read")
  /\ IF tx[t].op \in ledger \/ version[EntityOf[tx[t].op]] # tx[t].expected
     THEN Ends(t)
     ELSE Goes(t, "rows")
  /\ UNCHANGED <<committed, fence, aborts>>

\* Mutant: the number comes from a counter that takes no lock.
AllocateUnlocked(t) ==
  /\ At(t, "rows")
  /\ tx[t].rows # ScopesOf[tx[t].op]
  /\ tx' = [tx EXCEPT ![t].rows = @ \cup {NextScope(t)}]
  /\ sequence' = [sequence EXCEPT ![NextScope(t)] = @ + 1]
  /\ UNCHANGED <<version, ledger, journal, fence, aborts>>

\* INSERT ... ON CONFLICT DO UPDATE SET sequence = sequence + 1: the row stays
\* locked, and its new value invisible, until the transaction ends.
Allocate(t) ==
  /\ At(t, "rows")
  /\ tx[t].rows # ScopesOf[tx[t].op]
  /\ Blockers(t) = {}
  /\ tx' = [tx EXCEPT ![t].rows = @ \cup {NextScope(t)}]
  /\ UNCHANGED <<committed, fence, aborts>>

\* COMMIT: entity, sequence rows, events and ledger row become visible.
Commit(t) ==
  /\ At(t, "rows")
  /\ tx[t].rows = ScopesOf[tx[t].op]
  /\ LET op == tx[t].op
     IN  /\ version' = [version EXCEPT ![EntityOf[op]] = tx[t].expected + 1]
         /\ ledger' = ledger \cup {op}
         /\ sequence' = [s \in Scope |-> IF s \in ScopesOf[op]
                                         THEN sequence[s] + 1 ELSE sequence[s]]
         /\ journal' = [s \in Scope |->
              IF s \in ScopesOf[op]
              THEN journal[s] \cup {[seq |-> sequence[s] + 1, op |-> op]}
              ELSE journal[s]]
  /\ Ends(t)
  /\ UNCHANGED <<fence, aborts>>

\* A statement fails, the hook rejects, or the connection is lost.
Rollback(t) ==
  /\ t \in Running
  /\ aborts < MaxAborts
  /\ aborts' = aborts + 1
  /\ Ends(t)
  /\ UNCHANGED <<committed, fence>>

\* Mutant: the victim of a deadlock keeps waiting.
BreakDeadlockNever(t) ==
  /\ t \in Running
  /\ Deadlocked(t)
  /\ FALSE
  /\ UNCHANGED vars

\* The database ends one transaction of a cycle.  Only a fan-out holds a row
\* while it asks for another, so the victim is a publishing caller, who sees
\* the error; commit_operation asks for one row and is never a victim.
BreakDeadlock(t) ==
  /\ t \in Running
  /\ Deadlocked(t)
  /\ Ends(t)
  /\ UNCHANGED <<committed, fence, aborts>>

\* persist_authority_transition installs the fence of a new primary.
Transition ==
  /\ fence < MaxFence
  /\ fence' = fence + 1
  /\ UNCHANGED <<committed, tx, aborts>>

Next ==
  \/ \E t \in Tx :
       \/ \E op \in Op : Begin(t, op)
       \/ CheckFence(t)
       \/ LockOperation(t)
       \/ LockEntity(t)
       \/ Read(t)
       \/ Allocate(t)
       \/ Commit(t)
       \/ Rollback(t)
       \/ BreakDeadlock(t)
  \/ Transition

Spec == Init /\ [][Next]_vars

\* The database runs every statement that is not blocked, and ends one
\* transaction of every cycle.  Nothing obliges a request to come.
Fairness ==
  \A t \in Tx :
    /\ WF_vars(CheckFence(t) \/ Read(t) \/ Commit(t))
    /\ SF_vars(LockOperation(t) \/ LockEntity(t) \/ Allocate(t))
    /\ WF_vars(BreakDeadlock(t))

FairSpec == Spec /\ Fairness
-----------------------------------------------------------------------------
Event == [seq : Nat, op : Op]

Transaction ==
  [op : Op, at : {"fence", "operation", "entity", "read", "rows"}, expected : Nat,
   fence : Nat, rows : SUBSET Scope]

\* The variables keep their types; a transaction locks rows of its own scopes,
\* after its reads.
TypeOK ==
  /\ version \in [Entity -> Nat]
  /\ ledger \subseteq Op
  /\ journal \in [Scope -> SUBSET Event]
  /\ sequence \in [Scope -> Nat]
  /\ fence \in Nat
  /\ tx \in [Tx -> Transaction \cup {None}]
  /\ aborts \in Nat
  /\ \A t \in Running :
       /\ tx[t].rows \subseteq ScopesOf[tx[t].op]
       /\ tx[t].rows # {} => tx[t].at = "rows"

\* The committed events of a scope are numbered without a gap: a reader that
\* has seen number n never finds a smaller one later (read_changes_after).
SequencesGapless ==
  \A s \in Scope :
    /\ {e.seq : e \in journal[s]} = 1..sequence[s]
    /\ Cardinality(journal[s]) = sequence[s]

Atomic == INSTANCE AtomicCommit

\* Every behaviour of the statements, locks and rollbacks is one of the atomic
\* commit that the store trait promises.
CommitsAtomically == Atomic!Spec

\* No transaction waits for ever, also when two fan-outs take their sequence
\* rows in opposite orders.
TransactionsEnd == \A t \in Tx : tx[t] # None ~> tx[t] = None

\* A commit happens under the fence that is current (registry statement
\* AuthorityOldPrimaryFence: "an old primary cannot commit after a replacement
\* promotion fence").
OldPrimaryFenced ==
  [][\A t \in Tx : Commit(t) => tx[t].fence = fence]_vars
=============================================================================
