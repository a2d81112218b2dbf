---------------------------- MODULE AtomicCommit ----------------------------
(***************************************************************************)
(* What the authoritative store promises of a commit (trait                *)
(* AuthoritativeStore): one step that raises the entity's version, enters  *)
(* the operation in the ledger and appends one event to every scope it is  *)
(* delivered to, right after the last event of that scope.                 *)
(***************************************************************************)
EXTENDS Integers, FiniteSets

CONSTANTS
  Op,         \* operation identifiers
  Entity,     \* entities
  Scope,      \* sync scopes
  EntityOf,   \* EntityOf[op]: the entity op changes
  ScopesOf    \* ScopesOf[op]: the scopes its event is delivered to

VARIABLES
  version,    \* version[e]: authoritative version of e
  ledger,     \* operations with a stored result
  journal     \* journal[s]: sequence numbers and operations of the events

vars == <<version, ledger, journal>>

Init ==
  /\ version = [e \in Entity |-> 0]
  /\ ledger = {}
  /\ journal = [s \in Scope |-> {}]

\* Every effect of op, at once.
Publish(op) ==
  /\ op \notin ledger
  /\ ledger' = ledger \cup {op}
  /\ version' = [version EXCEPT ![EntityOf[op]] = @ + 1]
  /\ journal' = [s \in Scope |->
       IF s \in ScopesOf[op]
       THEN journal[s] \cup {[seq |-> Cardinality(journal[s]) + 1, op |-> op]}
       ELSE journal[s]]

Next == \E op \in Op : Publish(op)

Spec == Init /\ [][Next]_vars
=============================================================================
