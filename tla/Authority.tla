----------------------------- MODULE Authority ------------------------------
(***************************************************************************)
(* One authority across promotions, demotions, crashes and restores: the   *)
(* durable row of the PostgreSQL store, the controller that every server   *)
(* process keeps in memory, write handlers that carry a commit context     *)
(* from one check to the next, and clients that bind their cursors to an   *)
(* authority epoch.                                                        *)
(*                                                                         *)
(* A restore stops every process, and the process that starts next         *)
(* promotes a restored timeline before the others start.                   *)
(*                                                                         *)
(* The runtime modes other than Serving differ in no guard and are one     *)
(* value, "halted".  Fork detection is left out: under the hypotheses that *)
(* the constants state no fork arises.                                     *)
(***************************************************************************)
EXTENDS Integers, FiniteSets, Sequences

CONSTANTS
  Process,           \* server processes
  Client,            \* clients
  None,              \* no controller, no handler, no cursor, no backup
  OldImages,         \* a restore may use a backup from an earlier epoch
  ServeUnpersisted,  \* a process may answer clients in an epoch it has not persisted
  Anchored,          \* hosts install the control plane's epoch when they start
  MaxTransitions,    \* bound: authority transitions
  MaxEvents,         \* bound: commits
  MaxHandlers,       \* bound: write handlers at a time
  MaxRestores        \* bound: restores

ASSUME AuthorityConstants ==
  /\ OldImages \in BOOLEAN
  /\ ServeUnpersisted \in BOOLEAN
  /\ Anchored \in BOOLEAN
  /\ MaxTransitions \in Nat
  /\ MaxEvents \in Nat
  /\ MaxHandlers \in Nat
  /\ MaxRestores \in Nat

VARIABLES
  row,        \* aequora_authority_state
  journal,    \* committed events, with the epoch each was committed in
  image,      \* a backup of the database, or None
  restoring,  \* the database is a restored image that nobody has promoted
  ctl,        \* ctl[p]: the controller of p and the row it was made from, or None
  work,       \* work[p]: a write handler of p, or None
  cur,        \* cur[c]: cursor of c and the events its replica holds, or None
  highest,    \* highest epoch the control plane has recorded
  ids,        \* transition identifiers given out
  restores,   \* restores so far
  made,       \* history: every commit ever made
  verified    \* history: transitions whose recovery was completed

database == <<row, journal, image, restoring, restores>>
history == <<made, verified>>
vars == <<database, ctl, work, cur, highest, ids, history>>

Init ==
  /\ row = [epoch |-> 1, fence |-> 1, role |-> "primary", mode |-> "serving",
            owner |-> None, transition |-> 1]
  /\ journal = <<>>
  /\ image = None
  /\ restoring = FALSE
  /\ ctl = [p \in Process |-> None]
  /\ work = [p \in Process |-> None]
  /\ cur = [c \in Client |-> None]
  /\ highest = 1
  /\ ids = 1
  /\ restores = 0
  /\ made = {}
  /\ verified = {1}

-----------------------------------------------------------------------------
(* Controllers *)

Up(p) == ctl[p] # None

State(p) == ctl[p].state

\* ensure_external_epoch.
AnchorOk(p) == ctl[p].anchor <= State(p).epoch

\* AuthorityController::new with the row that load_authority_state returns, and
\* set_external_highest_epoch with what the control plane has recorded.
Loaded(r) ==
  [state |-> r, expected |-> r, manifest |-> None,
   anchor |-> IF Anchored THEN highest ELSE 0]

\* Mutant: writes are enabled before verification.
PromotedServing(controller, p, keeps, id) ==
  [controller EXCEPT
     !.state = [epoch |-> IF keeps THEN controller.state.epoch
                                   ELSE controller.state.epoch + 1,
                fence |-> controller.state.fence + 1, role |-> "primary",
                mode |-> "serving", owner |-> p, transition |-> id],
     !.manifest = id]

\* The outcome of promote, in memory: a lossless continuation or a proven
\* migration keeps the epoch, every other class takes the next one.
Promoted(controller, p, keeps, id) ==
  [controller EXCEPT
     !.state = [epoch |-> IF keeps THEN controller.state.epoch
                                   ELSE controller.state.epoch + 1,
                fence |-> controller.state.fence + 1, role |-> "primary",
                mode |-> "halted", owner |-> p, transition |-> id],
     !.manifest = id]

\* A process starts.  On a restored database it is the only one, and the
\* restored timeline is promoted before anything else.
Start(p) ==
  /\ ~Up(p)
  /\ \/ /\ ~restoring
        /\ ctl' = [ctl EXCEPT ![p] = Loaded(row)]
        /\ UNCHANGED ids
     \/ /\ restoring
        /\ \A q \in Process : ~Up(q)
        /\ ids < MaxTransitions
        /\ ctl' = [ctl EXCEPT ![p] = Promoted(Loaded(row), p, FALSE, ids + 1)]
        /\ ids' = ids + 1
  /\ UNCHANGED <<database, work, cur, highest, history>>

\* A process dies: controller and handler are memory.
Crash(p) ==
  /\ Up(p)
  /\ ctl' = [ctl EXCEPT ![p] = None]
  /\ work' = [work EXCEPT ![p] = None]
  /\ UNCHANGED <<database, cur, highest, ids, history>>

\* promote with evidence and approvals that its checks accept.
Promote(p, keeps) ==
  /\ Up(p)
  /\ ids < MaxTransitions
  /\ ctl' = [ctl EXCEPT ![p] = Promoted(ctl[p], p, keeps, ids + 1)]
  /\ ids' = ids + 1
  /\ UNCHANGED <<database, work, cur, highest, history>>

\* demote: no manifest, so that the database is not told.
Demote(p) ==
  /\ Up(p)
  /\ ids < MaxTransitions
  /\ ctl' = [ctl EXCEPT ![p].state = [State(p) EXCEPT
       !.role = "demoted", !.mode = "halted", !.fence = State(p).fence + 1,
       !.transition = ids + 1]]
  /\ ids' = ids + 1
  /\ UNCHANGED <<database, work, cur, highest, history>>

\* begin_recovery.
BeginRecovery(p) ==
  /\ Up(p)
  /\ State(p).mode = "serving"
  /\ ctl' = [ctl EXCEPT ![p].state = [State(p) EXCEPT !.mode = "halted"]]
  /\ UNCHANGED <<database, work, cur, highest, ids, history>>

\* complete_recovery with every check passed.
CompleteRecovery(p) ==
  /\ Up(p)
  /\ AnchorOk(p)
  /\ State(p).role = "primary"
  /\ State(p).mode = "halted"
  /\ ctl' = [ctl EXCEPT ![p].state = [State(p) EXCEPT !.mode = "serving"]]
  /\ verified' = verified \cup {State(p).transition}
  /\ UNCHANGED <<database, work, cur, highest, ids, made>>

\* The columns that the compare-and-swap names.
Key(r) == <<r.epoch, r.owner, r.fence, r.transition>>

\* Mutant: the replaced row is not compared.
PersistUnchecked(p) ==
  /\ Up(p)
  /\ ctl[p].manifest = State(p).transition
  /\ ctl[p].manifest # ctl[p].expected.transition
  /\ row' = State(p)
  /\ ctl' = [ctl EXCEPT ![p].expected = State(p)]
  /\ restoring' = FALSE
  /\ highest' = IF State(p).epoch > highest THEN State(p).epoch ELSE highest
  /\ UNCHANGED <<journal, image, restores, work, cur, ids, history>>

\* Mutant: the manifest is not compared with the replacement.
PersistDemoted(p) ==
  /\ Up(p)
  /\ State(p).transition # ctl[p].expected.transition
  /\ Key(row) = Key(ctl[p].expected)
  /\ row' = State(p)
  /\ ctl' = [ctl EXCEPT ![p].expected = State(p)]
  /\ restoring' = FALSE
  /\ highest' = IF State(p).epoch > highest THEN State(p).epoch ELSE highest
  /\ UNCHANGED <<journal, image, restores, work, cur, ids, history>>

\* persist_authority_transition (record_restore_epoch_transition on a restored
\* database): the manifest is the one of the controller's last promotion, the
\* row is the one the controller was made from, and the manifest is inserted
\* once.  The control plane learns of the epoch.
Persist(p) ==
  /\ Up(p)
  /\ ctl[p].manifest = State(p).transition
  /\ ctl[p].manifest # ctl[p].expected.transition
  /\ Key(row) = Key(ctl[p].expected)
  /\ row' = State(p)
  /\ ctl' = [ctl EXCEPT ![p].expected = State(p)]
  /\ restoring' = FALSE
  /\ highest' = IF State(p).epoch > highest THEN State(p).epoch ELSE highest
  /\ UNCHANGED <<journal, image, restores, work, cur, ids, history>>

-----------------------------------------------------------------------------
(* Write handlers *)

Context(s) == <<s.epoch, s.owner, s.fence>>

\* authorize_write returns a context.
MayWrite(p) == Up(p) /\ AnchorOk(p) /\ State(p).role = "primary" /\ State(p).mode = "serving"

\* A request with an operation; the context is kept until the commit.
Authorize(p) ==
  /\ work[p] = None
  /\ Cardinality({q \in Process : work[q] # None}) < MaxHandlers
  /\ MayWrite(p)
  /\ work' = [work EXCEPT ![p] =
       [context |-> Context(State(p)), transition |-> State(p).transition, at |-> "authorized"]]
  /\ UNCHANGED <<database, ctl, cur, highest, ids, history>>

At(p, stage) == work[p] # None /\ work[p].at = stage

\* verify_commit_context, and the SELECT EXISTS of the transaction, which locks
\* nothing.  What changes in memory between the two may as well change after.
CheckFence(p) ==
  /\ At(p, "authorized")
  /\ work' = [work EXCEPT ![p] =
       IF /\ MayWrite(p) /\ Context(State(p)) = work[p].context
          /\ Context(row) = work[p].context /\ row.role = "primary" /\ row.mode = "serving"
       THEN [work[p] EXCEPT !.at = "fenced"] ELSE None]
  /\ UNCHANGED <<database, ctl, cur, highest, ids, history>>

\* Mutant: the event carries the initial epoch.
CommitUntagged(p) ==
  /\ At(p, "fenced")
  /\ Cardinality(made) < MaxEvents
  /\ LET event == [id |-> Cardinality(made) + 1, epoch |-> 1,
                   seq |-> Len(journal) + 1, transition |-> work[p].transition]
     IN  /\ journal' = Append(journal, event)
         /\ made' = made \cup {event}
  /\ work' = [work EXCEPT ![p] = None]
  /\ UNCHANGED <<row, image, restoring, restores, ctl, cur, highest, ids, verified>>

\* The rest of the transaction: one event, in the epoch of the context.
Commit(p) ==
  /\ At(p, "fenced")
  /\ Cardinality(made) < MaxEvents
  /\ LET event == [id |-> Cardinality(made) + 1, epoch |-> work[p].context[1],
                   seq |-> Len(journal) + 1, transition |-> work[p].transition]
     IN  /\ journal' = Append(journal, event)
         /\ made' = made \cup {event}
  /\ work' = [work EXCEPT ![p] = None]
  /\ UNCHANGED <<row, image, restoring, restores, ctl, cur, highest, ids, verified>>

-----------------------------------------------------------------------------
(* Clients *)

\* p answers clients; a host that persists first does so only in an epoch that
\* is the row's it has loaded or written.
Answers(p) ==
  /\ Up(p)
  /\ ServeUnpersisted \/ State(p).epoch = ctl[p].expected.epoch

\* Mutant: a cursor of an earlier epoch continues.
PullAnyEpoch(c, p) ==
  /\ Answers(p)
  /\ cur[c] # None
  /\ cur[c].epoch <= State(p).epoch
  /\ cur' = [cur EXCEPT ![c] =
       [epoch |-> State(p).epoch,
        events |-> cur[c].events \o SubSeq(journal, Len(cur[c].events) + 1, Len(journal))]]
  /\ UNCHANGED <<database, ctl, work, highest, ids, history>>

\* A request with a cursor: validate_cursor, the page of the journal after it,
\* and reconciliation.  A cursor of another epoch changes nothing: an earlier
\* one is answered with AuthorityChanged, a later one with an error.
Pull(c, p) ==
  /\ Answers(p)
  /\ cur[c] # None
  /\ cur[c].epoch = State(p).epoch
  /\ Len(cur[c].events) < Len(journal)
  /\ cur' = [cur EXCEPT ![c].events =
       cur[c].events \o SubSeq(journal, Len(cur[c].events) + 1, Len(journal))]
  /\ UNCHANGED <<database, ctl, work, highest, ids, history>>

\* Mutant: the store does not compare the epoch with the trusted one.
BootstrapUntrusted(c, p) ==
  /\ Answers(p)
  /\ AnchorOk(p)
  /\ cur' = [cur EXCEPT ![c] = [epoch |-> State(p).epoch, events |-> journal]]
  /\ UNCHANGED <<database, ctl, work, highest, ids, history>>

\* A bootstrap: validate_startup, a snapshot of the journal in the controller's
\* epoch, and its installation unless the client trusts a later epoch.
Bootstrap(c, p) ==
  /\ Answers(p)
  /\ AnchorOk(p)
  /\ cur[c] # None => cur[c].epoch <= State(p).epoch
  /\ cur' = [cur EXCEPT ![c] = [epoch |-> State(p).epoch, events |-> journal]]
  /\ UNCHANGED <<database, ctl, work, highest, ids, history>>

-----------------------------------------------------------------------------
(* Backup and restore of the database *)

\* The operator copies the database.
Backup ==
  /\ image = None
  /\ ~restoring
  /\ restores < MaxRestores
  /\ image' = [row |-> row, journal |-> journal]
  /\ UNCHANGED <<row, journal, restoring, restores, ctl, work, cur, highest, ids, history>>

\* The operator stops the processes and puts the copy back; it is used once.
Restore ==
  /\ image # None
  /\ OldImages \/ image.row.epoch = row.epoch
  /\ row' = image.row
  /\ journal' = image.journal
  /\ image' = None
  /\ restoring' = TRUE
  /\ restores' = restores + 1
  /\ ctl' = [p \in Process |-> None]
  /\ work' = [p \in Process |-> None]
  /\ UNCHANGED <<cur, highest, ids, history>>

Next ==
  \/ \E p \in Process :
       \/ Start(p)
       \/ Crash(p)
       \/ \E keeps \in BOOLEAN : Promote(p, keeps)
       \/ Demote(p)
       \/ BeginRecovery(p)
       \/ CompleteRecovery(p)
       \/ Persist(p)
       \/ Authorize(p)
       \/ CheckFence(p)
       \/ Commit(p)
       \/ \E c \in Client : Pull(c, p) \/ Bootstrap(c, p)
  \/ Backup
  \/ Restore

Spec == Init /\ [][Next]_vars

-----------------------------------------------------------------------------
Epoch == 1..MaxTransitions

AuthorityState ==
  [epoch : Epoch, fence : Epoch, role : {"primary", "demoted"},
   mode : {"serving", "halted"},
   owner : Process \cup {None}, transition : Epoch]

Controller ==
  [state : AuthorityState, expected : AuthorityState,
   manifest : Epoch \cup {None}, anchor : 0..MaxTransitions]

Event == [id : 1..MaxEvents, epoch : Epoch, seq : 1..MaxEvents, transition : Epoch]

Handler ==
  [context : Epoch \X (Process \cup {None}) \X Epoch, transition : Epoch,
   at : {"authorized", "fenced"}]

\* The variables keep their types; epoch and fence never outrun the transitions
\* that were asked for, and a row is written by a primary only.
TypeOK ==
  /\ row \in AuthorityState
  /\ row.role = "primary"
  /\ row.epoch <= highest
  /\ \A i \in DOMAIN journal : journal[i] \in made /\ journal[i].seq = i
  /\ image # None => image.row \in AuthorityState
  /\ restoring \in BOOLEAN
  /\ \A p \in Process :
       /\ Up(p) => ctl[p] \in Controller /\ State(p).transition <= ids
       /\ work[p] # None => work[p] \in Handler /\ Up(p)
  /\ \A c \in Client : cur[c] # None =>
       cur[c].epoch \in Epoch /\ \A i \in DOMAIN cur[c].events : cur[c].events[i] \in made
  /\ highest \in Epoch
  /\ ids \in Epoch
  /\ restores \in 0..MaxRestores
  /\ made \subseteq Event
  /\ verified \subseteq Epoch

\* A position of an epoch names one commit for ever, whatever was restored in
\* between (registry statement AuthorityDivergenceEpoch: "restored or
\* potentially divergent history receives a new epoch unless continuity is
\* proven").
EpochNamesOneHistory ==
  \A e, f \in made : e.epoch = f.epoch /\ e.seq = f.seq => e = f

IsPrefix(s, t) == Len(s) <= Len(t) /\ \A i \in DOMAIN s : s[i] = t[i]

\* Cursors of one epoch stand for one history: the replicas of two clients are
\* comparable, and so are a replica and the journal of the promoted row.
ReplicasAgree ==
  \A c \in Client : cur[c] # None =>
    /\ cur[c].epoch = row.epoch => \/ IsPrefix(cur[c].events, journal)
                                   \/ restoring /\ IsPrefix(journal, cur[c].events)
    /\ \A d \in Client : cur[d] # None /\ cur[d].epoch = cur[c].epoch =>
         \/ IsPrefix(cur[c].events, cur[d].events)
         \/ IsPrefix(cur[d].events, cur[c].events)

\* A client never goes back: not to an earlier epoch, which a process with an
\* old controller still answers in, and not on the history of its epoch.
TimelineNeverRegresses ==
  [][\A c \in Client : cur[c] # None =>
       /\ cur'[c].epoch >= cur[c].epoch
       /\ cur'[c].epoch = cur[c].epoch => IsPrefix(cur[c].events, cur'[c].events)]_vars

\* Nothing is committed under a transition before its recovery was verified, in
\* whatever process and whatever the crashes and races since.
CommitsVerified == \A e \in made : e.transition \in verified

\* Of the transitions that start from one row only one is persisted: the fence
\* of the row grows with each, and the epoch never falls.
TransitionsFenced ==
  [][row' # row /\ restores' = restores =>
       /\ row'.fence > row.fence
       /\ row'.epoch >= row.epoch]_vars
=============================================================================
