--------------------------- MODULE ExchangeProofs ---------------------------
(* Proofs about Exchange, for any clients, operations, entities, handlers,   *)
(* limits and bounds.                                                        *)
EXTENDS ExchangeLemmas

-----------------------------------------------------------------------------
(* Cursors *)

\* Only reconciliation and a snapshot page write a client's replica state.
LEMMA LocalStep ==
  ASSUME Types, [Next]_vars, NEW c \in Client
  PROVE  \/ /\ cursor'[c] = cursor[c] /\ replica'[c] = replica[c]
            /\ applied'[c] = applied[c] /\ progress'[c] = progress[c]
         \/ \E h \in Handler : Reconcile(c, h)
         \/ BootstrapPage(c)
<1> DEFINE Same == /\ cursor'[c] = cursor[c] /\ replica'[c] = replica[c]
                   /\ applied'[c] = applied[c] /\ progress'[c] = progress[c]
<1> USE DEF local
<1>1. ASSUME NEW d \in Client
      PROVE  /\ \A op \in Op, e \in Entity, p \in Policy : LocalMutation(d, op, e, p) => Same
             /\ \A due \in SUBSET Retries(d), ops \in SUBSET Own(d) : Send(d, due, ops) => Same
             /\ \A h \in Handler : Deliver(d, h) \/ Resync(d, h) => Same
             /\ TransportFails(d) \/ CrashClient(d) \/ BeginBootstrap(d) => Same
  BY DEF LocalMutation, Send, Deliver, Resync, TransportFails, CrashClient, BeginBootstrap
<1>2. ASSUME NEW d \in Client, d # c
      PROVE  /\ \A h \in Handler : Reconcile(d, h) => Same
             /\ BootstrapPage(d) => Same
  BY <1>2 DEF Reconcile, BootstrapPage, Stage, Types
<1>3. ASSUME NEW h \in Handler
      PROVE  /\ \A op \in Op : Lookup(h, op) \/ Read(h, op) \/ Commit(h, op) => Same
             /\ \A n \in 0..PageLimit : ReadPage(h, n) => Same
             /\ Stop(h) => Same
  BY ZenonT(30) DEF Lookup, Read, Commit, ReadPage, Stop
<1>4. /\ CreateSnapshot => Same
      /\ \A k \in 1..Len(journal) : Compact(k) => Same
      /\ UNCHANGED vars => Same
  BY DEF CreateSnapshot, Compact, vars
<1> HIDE DEF Same
<1>5. Same \/ (\E h \in Handler : Reconcile(c, h)) \/ BootstrapPage(c)
  BY <1>1, <1>2, <1>3, <1>4 DEF Next
<1> QED BY <1>5 DEF Same

\* A client starts to bootstrap without a cursor, on the host's order, or when
\* the server asks for a resync.
LEMMA EntersBootstrap ==
  ASSUME Types, [Next]_vars, NEW c \in Client, phase[c] # "bootstrap", phase'[c] = "bootstrap"
  PROVE  BeginBootstrap(c) \/ \E h \in Handler : Resync(c, h)
<1> USE DEF engine
<1>1. ASSUME NEW d \in Client
      PROVE  /\ \A op \in Op, e \in Entity, p \in Policy : ~LocalMutation(d, op, e, p)
             /\ \A due \in SUBSET Retries(d), ops \in SUBSET Own(d) : ~Send(d, due, ops)
             /\ \A h \in Handler : ~Deliver(d, h) /\ ~Reconcile(d, h)
             /\ ~TransportFails(d) /\ ~CrashClient(d) /\ ~BootstrapPage(d)
             /\ \A h \in Handler : Resync(d, h) => d = c
             /\ BeginBootstrap(d) => d = c
  BY DEF LocalMutation, Send, Deliver, Reconcile, Resync, TransportFails, CrashClient,
         BeginBootstrap, BootstrapPage, Stage, Idle, Types
<1>2. ASSUME NEW h \in Handler
      PROVE  /\ \A op \in Op : ~Lookup(h, op) /\ ~Read(h, op) /\ ~Commit(h, op)
             /\ \A n \in 0..PageLimit : ~ReadPage(h, n)
             /\ ~Stop(h)
  BY ZenonT(30) DEF Lookup, Read, Commit, ReadPage, Stop
<1>3. ~CreateSnapshot /\ (\A k \in 1..Len(journal) : ~Compact(k)) /\ ~UNCHANGED vars
  BY DEF CreateSnapshot, Compact, vars
<1> QED BY <1>1, <1>2, <1>3 DEF Next

\* What a snapshot page does to its client, for the snapshot s being staged.
LEMMA PageOfSnapshot ==
  ASSUME Types, VersionsExist, NEW c \in Client, BootstrapPage(c)
  PROVE  /\ phase[c] = "bootstrap" /\ applied' = applied /\ journal' = journal
         /\ \E s \in snapshots' :
              /\ s \in SnapshotRecord
              /\ \/ progress[c] # None /\ s = progress[c].snapshot /\ s \in snapshots
                 \/ s.cursor = Len(journal)
              /\ \/ /\ progress'[c] # None => progress'[c].snapshot = s
                    /\ cursor'[c] = cursor[c] /\ replica'[c] = replica[c]
                 \/ /\ progress'[c] = None /\ phase'[c] = "idle"
                    /\ cursor'[c] = s.cursor /\ replica'[c] = s.versions
<1>1. PICK s \in snapshots', n \in Nat :
        /\ Stage(c, s, n)
        /\ \/ progress[c] # None /\ s = progress[c].snapshot /\ s \in snapshots
           \/ s.cursor = Len(journal)
  <2>1. CASE progress[c] = None
    BY <2>1 DEF BootstrapPage, Snapshot
  <2>2. CASE progress[c] # None
    <3>1. progress[c] \in [snapshot : snapshots, next : Nat]
      BY <2>2 DEF Types
    <3> QED BY <2>2, <3>1 DEF BootstrapPage
  <2> QED BY <2>1, <2>2
<1>2. Snapshot \in SnapshotRecord
  BY VersionIs DEF Snapshot, SnapshotRecord, Types
<1>3. s \in SnapshotRecord
  BY <1>2 DEF BootstrapPage, Types
<1>4. \/ /\ progress'[c] # None => progress'[c].snapshot = s
         /\ cursor'[c] = cursor[c] /\ replica'[c] = replica[c]
      \/ /\ progress'[c] = None /\ phase'[c] = "idle"
         /\ cursor'[c] = s.cursor /\ replica'[c] = s.versions
  BY <1>1 DEF Stage, Types
<1>5. phase[c] = "bootstrap" /\ applied' = applied /\ journal' = journal
  BY <1>1 DEF BootstrapPage, Stage
<1> HIDE DEF SnapshotRecord
<1> QED BY <1>1, <1>3, <1>4, <1>5

\* A step publishes no snapshot but one of the whole journal.
LEMMA SnapshotsGrow ==
  ASSUME [Next]_vars
  PROVE  snapshots' \subseteq snapshots \cup {Snapshot}
<1> USE DEF server
<1>1. ASSUME NEW c \in Client
      PROVE  /\ \A op \in Op, e \in Entity, p \in Policy :
                  LocalMutation(c, op, e, p) => snapshots' = snapshots
             /\ \A due \in SUBSET Retries(c), ops \in SUBSET Own(c) :
                  Send(c, due, ops) => snapshots' = snapshots
             /\ \A h \in Handler :
                  Deliver(c, h) \/ Reconcile(c, h) \/ Resync(c, h) => snapshots' = snapshots
             /\ TransportFails(c) \/ CrashClient(c) => snapshots' = snapshots
             /\ BeginBootstrap(c) => snapshots' = snapshots
             /\ BootstrapPage(c) => snapshots' \subseteq snapshots \cup {Snapshot}
  BY DEF LocalMutation, Send, Deliver, Reconcile, Resync, TransportFails, CrashClient,
         BeginBootstrap, BootstrapPage
<1>2. ASSUME NEW h \in Handler
      PROVE  /\ \A op \in Op :
                  Lookup(h, op) \/ Read(h, op) \/ Commit(h, op) => snapshots' = snapshots
             /\ \A n \in 0..PageLimit : ReadPage(h, n) => snapshots' = snapshots
             /\ Stop(h) => snapshots' = snapshots
  BY ZenonT(30) DEF Lookup, Read, Commit, ReadPage, Stop
<1>3. /\ CreateSnapshot => snapshots' = snapshots \cup {Snapshot}
      /\ \A k \in 1..Len(journal) : Compact(k) => snapshots' = snapshots
      /\ UNCHANGED vars => snapshots' = snapshots
  BY DEF CreateSnapshot, Compact, vars
<1> QED BY <1>1, <1>2, <1>3 DEF Next

\* Only a compaction moves the floor, to a sequence the journal has reached.
LEMMA FloorStep ==
  ASSUME [Next]_vars
  PROVE  \/ floor' = floor
         \/ \E k \in 1..Len(journal) : Compact(k) /\ floor' = k
<1> USE DEF server
<1>1. ASSUME NEW c \in Client
      PROVE  /\ \A op \in Op, e \in Entity, p \in Policy :
                  LocalMutation(c, op, e, p) => floor' = floor
             /\ \A due \in SUBSET Retries(c), ops \in SUBSET Own(c) :
                  Send(c, due, ops) => floor' = floor
             /\ \A h \in Handler :
                  Deliver(c, h) \/ Reconcile(c, h) \/ Resync(c, h) => floor' = floor
             /\ TransportFails(c) \/ CrashClient(c) => floor' = floor
             /\ BeginBootstrap(c) \/ BootstrapPage(c) => floor' = floor
  BY DEF LocalMutation, Send, Deliver, Reconcile, Resync, TransportFails, CrashClient,
         BeginBootstrap, BootstrapPage
<1>2. ASSUME NEW h \in Handler
      PROVE  /\ \A op \in Op :
                  Lookup(h, op) \/ Read(h, op) \/ Commit(h, op) => floor' = floor
             /\ \A n \in 0..PageLimit : ReadPage(h, n) => floor' = floor
             /\ Stop(h) => floor' = floor
  BY ZenonT(30) DEF Lookup, Read, Commit, ReadPage, Stop
<1>3. /\ CreateSnapshot => floor' = floor
      /\ \A k \in 1..Len(journal) : Compact(k) => floor' = k
      /\ UNCHANGED vars => floor' = floor
  BY DEF CreateSnapshot, Compact, vars
<1> QED BY <1>1, <1>2, <1>3 DEF Next

\* Snapshots are taken of the whole journal and never change.
LEMMA SnapshotsStep ==
  ASSUME Types, WithinJournal, Created, VersionsExist, SnapshotsConsistent, [Next]_vars
  PROVE  SnapshotsConsistent'
<1>1. snapshots' \subseteq snapshots \cup {Snapshot}
  BY SnapshotsGrow
<1>2. ASSUME NEW s \in snapshots \cup {Snapshot}, NEW e \in Entity
      PROVE  VersionAt(journal', e, s.cursor, s.versions[e])
  <2>1. CASE s \in snapshots
    <3>1. s.cursor \in Nat /\ s.cursor <= Len(journal)
      BY <2>1 DEF Types, SnapshotRecord, WithinJournal
    <3> QED BY <2>1, <3>1, VersionAtStep DEF SnapshotsConsistent
  <2>2. CASE s = Snapshot
    <3>1. s.cursor = Len(journal) /\ s.versions[e] = Version(e) /\ Len(journal) \in Nat
      BY <2>2, JournalGrows DEF Snapshot
    <3> QED BY <3>1, VersionIs, VersionAtStep
  <2> QED BY <2>1, <2>2
<1> QED BY <1>1, <1>2 DEF SnapshotsConsistent

\* Applying the page after cursor n to a replica at n gives the replica at its
\* end: the last change of an entity wins, the others keep their version.
LEMMA PageAppliedVersion ==
  ASSUME NEW n \in Nat, NEW m \in Nat, n <= m, NEW done \in SUBSET (1..n),
         NEW new, NEW old, NEW e \in Entity,
         PageApplied(new, old, (n + 1)..m, done), VersionAt(journal, e, n, old[e])
  PROVE  VersionAt(journal, e, m, new[e])
<1> DEFINE I == {i \in ((n + 1)..m) \ done : journal[i].entity = e}
<1>1. I = {i \in (n + 1)..m : journal[i].entity = e}
  OBVIOUS
<1>2. IF I = {} THEN new[e] = old[e]
      ELSE \E i \in I : new[e] = journal[i].version /\ \A j \in I : j <= i
  BY DEF PageApplied
<1> HIDE DEF I
<1>3. CASE I = {}
  <2>1. \A i \in (n + 1)..m : journal[i].entity # e
    BY <1>1, <1>3
  <2> QED BY <1>2, <1>3, <2>1, VersionAtExtend
<1>4. CASE I # {}
  <2>1. PICK i \in I : new[e] = journal[i].version /\ \A j \in I : j <= i
    BY <1>2, <1>4
  <2>2. i \in 1..m /\ journal[i].entity = e
    BY <1>1
  <2>3. \A j \in (i + 1)..m : journal[j].entity # e
    BY <1>1, <2>1
  <2> QED BY <2>1, <2>2, <2>3 DEF VersionAt
<1> QED BY <1>3, <1>4
\* What a step may do to a handler that is busy after it.
HandlerChange(g) ==
  \/ \E c \in Client : Deliver(c, g)
  \/ /\ handler[g] # None
     /\ handler'[g].client = handler[g].client
     /\ handler'[g].start = handler[g].start
     /\ handler'[g].live => handler[g].live
     /\ \/ /\ handler'[g].page = handler[g].page /\ handler'[g].to = handler[g].to
           /\ \/ handler'[g].stage = handler[g].stage
              \/ /\ handler[g].stage \in {"lookup", "read", "commit"}
                 /\ handler'[g].stage \in {"lookup", "read", "commit", "page"}
                 /\ floor' = floor
        \/ \E n \in 0..PageLimit : ReadPage(g, n)

LEMMA HandlerChanges ==
  ASSUME Types, Created, VersionsExist, [Next]_vars, NEW g \in Handler, handler'[g] # None
  PROVE  HandlerChange(g)
<1>1. handler'[g] = handler[g] => HandlerChange(g)
  BY ZenonT(30) DEF HandlerChange
<1>2. ASSUME NEW c \in Client
      PROVE  /\ \A op \in Op, e \in Entity, p \in Policy :
                  LocalMutation(c, op, e, p) => handler' = handler
             /\ \A due \in SUBSET Retries(c), ops \in SUBSET Own(c) :
                  Send(c, due, ops) => handler' = handler
             /\ BeginBootstrap(c) \/ BootstrapPage(c) => handler' = handler
  BY DEF LocalMutation, Send, BeginBootstrap, BootstrapPage
<1>3. ASSUME NEW c \in Client, NEW h \in Handler,
             Deliver(c, h) \/ Reconcile(c, h) \/ Resync(c, h)
      PROVE  HandlerChange(g)
  <2>1. h # g => handler'[g] = handler[g]
    BY ZenonT(30), <1>3 DEF Deliver, Reconcile, Resync, Types
  <2>2. Deliver(c, h) \/ handler'[h] = None
    BY ZenonT(30), <1>3 DEF Reconcile, Resync, Types
  <2> QED BY <1>1, <2>1, <2>2 DEF HandlerChange
<1>4. ASSUME NEW c \in Client, TransportFails(c) \/ CrashClient(c)
      PROVE  HandlerChange(g)
  <2>1. handler'[g] = Abandoned(c)[g]
    BY <1>4 DEF TransportFails, CrashClient
  <2> QED BY <1>1, <2>1, AbandonedFields DEF HandlerChange
<1>5. ASSUME NEW h \in Handler, NEW op \in Op, Lookup(h, op) \/ Read(h, op) \/ Commit(h, op)
      PROVE  HandlerChange(g)
  <2>1. HandlerStep(h, op) /\ handler[h] # None /\ floor' = floor
    BY ZenonT(30), <1>5, OperationSteps DEF Lookup, Read, Commit, Processing, Working, server
  <2>2. PICK w \in Work :
          /\ handler' = [handler EXCEPT ![h] = w]
          /\ w.client = handler[h].client /\ w.start = handler[h].start
          /\ w.page = handler[h].page /\ w.to = handler[h].to
          /\ w.live = handler[h].live
          /\ handler[h].stage \in {"lookup", "read", "commit"}
          /\ w.stage \in {"lookup", "read", "commit", "page"}
    BY ZenonT(30), <2>1 DEF HandlerStep
  <2>3. handler'[g] = IF g = h THEN w ELSE handler[g]
    BY <2>2 DEF Types
  <2> QED BY <1>1, <2>1, <2>2, <2>3 DEF HandlerChange
<1>6. ASSUME NEW h \in Handler, NEW n \in 0..PageLimit, ReadPage(h, n)
      PROVE  HandlerChange(g)
  <2>1. PICK w \in Work :
          /\ handler' = [handler EXCEPT ![h] = w]
          /\ w.client = handler[h].client /\ w.start = handler[h].start
          /\ w.live = handler[h].live
    BY <1>6, PageFields
  <2>2. /\ handler'[g] = IF g = h THEN w ELSE handler[g]
        /\ handler[h] # None
    BY <1>6, <2>1 DEF ReadPage, Working, Types
  <2> QED BY <1>1, <1>6, <2>1, <2>2 DEF HandlerChange
<1>7. ASSUME NEW h \in Handler, Stop(h)
      PROVE  HandlerChange(g)
  BY <1>1, <1>7 DEF Stop, Types
<1>8. /\ CreateSnapshot => handler' = handler
      /\ \A k \in 1..Len(journal) : Compact(k) => handler' = handler
      /\ UNCHANGED vars => handler' = handler
  BY DEF CreateSnapshot, Compact, vars
<1> QED BY <1>1, <1>2, <1>3, <1>4, <1>5, <1>6, <1>7, <1>8 DEF Next

\* What a step may do to a client that waits on a request after it.
LEMMA RequestChanges ==
  ASSUME Types, [Next]_vars, NEW c \in Client, phase'[c] = "exchange"
  PROVE  \/ /\ phase[c] = "idle" /\ (cursor[c] # NoCursor \/ HostDriven)
            /\ handler' = handler /\ cursor' = cursor
            /\ request'[c].start = Start(c)
         \/ /\ phase[c] = "exchange" /\ request'[c].start = request[c].start
            /\ request[c].sent => request'[c].sent
<1> DEFINE Kept == phase[c] = "exchange" /\ request'[c] = request[c]
<1> USE DEF engine
<1>1. ASSUME NEW d \in Client
      PROVE  /\ \A op \in Op, e \in Entity, p \in Policy : LocalMutation(d, op, e, p) => Kept
             /\ \A h \in Handler : Reconcile(d, h) \/ Resync(d, h) => Kept
             /\ TransportFails(d) \/ CrashClient(d) => Kept
             /\ BeginBootstrap(d) \/ BootstrapPage(d) => Kept
  BY ZenonT(30) DEF LocalMutation, Reconcile, Resync, TransportFails, CrashClient, BeginBootstrap,
         BootstrapPage, Stage, Idle, Types
<1>2. ASSUME NEW d \in Client, NEW due \in SUBSET Retries(d), NEW ops \in SUBSET Own(d),
             Send(d, due, ops)
      PROVE  \/ Kept
             \/ /\ phase[c] = "idle" /\ (cursor[c] # NoCursor \/ HostDriven)
                /\ handler' = handler /\ cursor' = cursor
                /\ request'[c].start = Start(c)
  BY <1>2 DEF Send, Types, local
<1>3. ASSUME NEW d \in Client, NEW h \in Handler, Deliver(d, h)
      PROVE  /\ phase[c] = "exchange" /\ request'[c].start = request[c].start
             /\ request[c].sent => request'[c].sent
  <2>1. /\ request[d] \in RequestRecord /\ phase' = phase
        /\ request' = [request EXCEPT ![d] = [request[d] EXCEPT !.sent = TRUE]]
    BY ZenonT(30), <1>3, DeliverFields DEF Deliver
  <2> QED BY <2>1 DEF RequestRecord, Types
<1>4. ASSUME NEW h \in Handler
      PROVE  /\ \A op \in Op : Lookup(h, op) \/ Read(h, op) \/ Commit(h, op) => Kept
             /\ \A n \in 0..PageLimit : ReadPage(h, n) => Kept
             /\ Stop(h) => Kept
  BY ZenonT(30) DEF Lookup, Read, Commit, ReadPage, Stop
<1>5. /\ CreateSnapshot => Kept
      /\ \A k \in 1..Len(journal) : Compact(k) => Kept
      /\ UNCHANGED vars => Kept
  BY DEF CreateSnapshot, Compact, vars
<1>6. \/ Kept
      \/ /\ phase[c] = "idle" /\ (cursor[c] # NoCursor \/ HostDriven)
         /\ handler' = handler /\ cursor' = cursor
         /\ request'[c].start = Start(c)
      \/ /\ phase[c] = "exchange" /\ request'[c].start = request[c].start
         /\ request[c].sent => request'[c].sent
  <2> HIDE DEF Kept
  <2> QED BY ZenonT(30), <1>1, <1>2, <1>3, <1>4, <1>5 DEF Next
<1> QED BY ZenonT(30), <1>6
\* Every sequence number that is remembered is one the journal has reached.
LEMMA WithinJournalStep ==
  ASSUME Types, WithinJournal, Created, VersionsExist, [Next]_vars
  PROVE  WithinJournal'
<1>0. /\ Len(journal) \in Nat /\ Len(journal') \in Nat /\ Len(journal) <= Len(journal')
  BY JournalGrows
<1>1. ASSUME NEW g \in Handler, handler'[g] # None
      PROVE  /\ handler'[g].start <= Len(journal')
             /\ handler'[g].to <= Len(journal')
             /\ handler'[g].page \subseteq 1..Len(journal')
  <2>1. CASE \E c \in Client : Deliver(c, g)
    <3>1. PICK c \in Client : Deliver(c, g)
      BY <2>1
    <3>2. /\ request[c] \in RequestRecord /\ request[c].start <= Len(journal)
          /\ handler'[g].start = request[c].start /\ handler'[g].to = request[c].start
          /\ handler'[g].page = {}
      BY <3>1, DeliverFields DEF WithinJournal, Types
    <3> QED BY <1>0, <3>2 DEF RequestRecord
  <2>2. CASE \E n \in 0..PageLimit : ReadPage(g, n)
    <3>1. PICK n \in 0..PageLimit : ReadPage(g, n)
      BY ZenonT(30), <2>2
    <3> DEFINE low == IF handler[g].start < floor THEN floor ELSE handler[g].start
    <3>2. /\ low \in Nat /\ n \in Nat /\ low + n <= Len(journal)
          /\ handler'[g].start = handler[g].start
          /\ handler'[g].page = (low + 1)..(low + n)
          /\ handler'[g].to = IF n = 0 THEN handler[g].start ELSE low + n
      <4>1. PICK w \in Work :
              /\ handler' = [handler EXCEPT ![g] = w]
              /\ w.start = handler[g].start /\ w.page = (low + 1)..(low + n)
              /\ w.to = IF n = 0 THEN handler[g].start ELSE low + n
        BY <3>1, PageFields
      <4>2. handler'[g] = w
        BY ZenonT(30), <4>1 DEF Types
      <4>3. low \in Nat /\ n \in Nat /\ low + n <= Len(journal)
        BY <3>1, PageFields
      <4> HIDE DEF low
      <4> QED BY ZenonT(30), <4>1, <4>2, <4>3
    <3>3. handler[g].start \in Nat /\ handler[g].start <= Len(journal)
      BY ZenonT(30), <3>1, PageFields DEF WithinJournal, ReadPage, Working, Work
    <3> HIDE DEF low
    <3> QED BY <1>0, <3>2, <3>3
  <2>3. CASE /\ handler[g] # None /\ handler'[g].start = handler[g].start
             /\ handler'[g].page = handler[g].page /\ handler'[g].to = handler[g].to
    <3>1. handler[g].start \in Nat /\ handler[g].to \in Nat
      BY <2>3 DEF Types, Work
    <3> QED BY <1>0, <2>3, <3>1 DEF WithinJournal
  <2> QED BY ZenonT(30), <1>1, <2>1, <2>2, <2>3, HandlerChanges DEF HandlerChange
<1>2. \A s \in snapshots' : s.cursor <= Len(journal')
  <2>1. snapshots' \subseteq snapshots \cup {Snapshot}
    BY SnapshotsGrow
  <2>2. \A s \in snapshots : s.cursor \in Nat /\ s.cursor <= Len(journal)
    BY DEF Types, SnapshotRecord, WithinJournal
  <2>3. Snapshot.cursor = Len(journal)
    BY DEF Snapshot
  <2> QED BY <1>0, <2>1, <2>2, <2>3
<1>3. ASSUME NEW c \in Client PROVE cursor'[c] <= Len(journal')
  <2>1. cursor[c] \in Nat \cup {NoCursor} /\ cursor[c] <= Len(journal)
    BY DEF Types, WithinJournal
  <2>2. CASE cursor'[c] = cursor[c]
    BY <1>0, <2>1, <2>2 DEF NoCursor
  <2>3. ASSUME NEW h \in Handler, Reconcile(c, h) PROVE cursor'[c] <= Len(journal')
    <3>1. cursor'[c] = handler[h].to /\ handler[h].to <= Len(journal) /\ handler[h].to \in Nat
      BY <2>3 DEF Reconcile, Answers, Working, WithinJournal, Types, Work
    <3> QED BY <1>0, <3>1
  <2>4. CASE BootstrapPage(c)
    <3>1. PICK s \in snapshots' : /\ s \in SnapshotRecord
                                  /\ cursor'[c] = cursor[c] \/ cursor'[c] = s.cursor
      BY <2>4, PageOfSnapshot
    <3> QED BY <1>2, <2>2, <3>1
  <2> QED BY <2>2, <2>3, <2>4, LocalStep
<1>4. ASSUME NEW c \in Client, phase'[c] = "exchange"
      PROVE  request'[c].start <= Len(journal')
  <2>1. CASE request'[c].start = Start(c)
    <3>1. Start(c) \in Nat /\ Start(c) <= Len(journal)
      BY <1>0 DEF Start, Types, WithinJournal, NoCursor
    <3> QED BY <1>0, <2>1, <3>1
  <2>2. CASE phase[c] = "exchange" /\ request'[c].start = request[c].start
    <3>1. request[c].start \in Nat /\ request[c].start <= Len(journal)
      BY <2>2 DEF Types, RequestRecord, WithinJournal
    <3> QED BY <1>0, <2>2, <3>1
  <2> QED BY <1>4, <2>1, <2>2, RequestChanges
<1>5. floor' <= Len(journal')
  <2>1. floor' = floor \/ floor' \in 1..Len(journal)
    BY FloorStep
  <2> QED BY <1>0, <2>1 DEF Types, WithinJournal
<1> QED BY ZenonT(30), <1>1, <1>2, <1>3, <1>4, <1>5 DEF WithinJournal
\* A handler answers client c.
Answering(g, c) == handler[g] # None /\ handler[g].live /\ handler[g].client = c

\* A client that stops waiting leaves no handler that would answer it.
LEMMA StopsWaiting ==
  ASSUME Types, Created, VersionsExist, OneAnswer, [Next]_vars,
         NEW c \in Client, phase[c] = "exchange", phase'[c] # "exchange"
  PROVE  \A g \in Handler : ~Answering(g, c)'
<1> DEFINE Goal == \A g \in Handler : ~Answering(g, c)'
<1> USE DEF engine
<1>1. ASSUME NEW d \in Client
      PROVE  /\ \A op \in Op, e \in Entity, p \in Policy : ~LocalMutation(d, op, e, p)
             /\ \A due \in SUBSET Retries(d), ops \in SUBSET Own(d) : ~Send(d, due, ops)
             /\ \A h \in Handler : ~Deliver(d, h)
             /\ ~BeginBootstrap(d) /\ ~BootstrapPage(d)
  BY DEF LocalMutation, Send, Deliver, BeginBootstrap, BootstrapPage, Stage, Types
<1>2. ASSUME NEW d \in Client, NEW h \in Handler, Reconcile(d, h) \/ Resync(d, h)
      PROVE  Goal
  <2>1. d = c /\ Answering(h, d) /\ handler' = [handler EXCEPT ![h] = None]
    BY ZenonT(30), <1>2 DEF Reconcile, Resync, Answers, Working, Idle, Answering, Types
  <2>2. \A g \in Handler : Answering(g, c) => g = h
    BY <2>1 DEF OneAnswer, Answering
  <2> QED BY ZenonT(30), <2>1, <2>2 DEF Answering, Types
<1>3. ASSUME NEW d \in Client, TransportFails(d) \/ CrashClient(d)
      PROVE  Goal
  <2>1. d = c /\ handler' = Abandoned(c)
    BY <1>3 DEF TransportFails, CrashClient, Idle, Types
  <2> QED BY <2>1, AbandonedFields DEF Answering
<1>4. ASSUME NEW h \in Handler
      PROVE  /\ \A op \in Op : ~Lookup(h, op) /\ ~Read(h, op) /\ ~Commit(h, op)
             /\ \A n \in 0..PageLimit : ~ReadPage(h, n)
             /\ ~Stop(h)
  BY ZenonT(30) DEF Lookup, Read, Commit, ReadPage, Stop
<1>5. ~CreateSnapshot /\ (\A k \in 1..Len(journal) : ~Compact(k)) /\ ~UNCHANGED vars
  BY ZenonT(30) DEF CreateSnapshot, Compact, vars
<1> HIDE DEF Goal
<1>6. Goal
  BY ZenonT(30), <1>1, <1>2, <1>3, <1>4, <1>5 DEF Next
<1> QED BY <1>6 DEF Goal

\* The handler that answers a client keeps working from its durable cursor.
LEMMA OneAnswerStep ==
  ASSUME ~HostDriven, Types, WithinJournal, Created, VersionsExist, OneAnswer, [Next]_vars
  PROVE  OneAnswer'
<1>1. ASSUME NEW c \in Client, phase'[c] = "exchange"
      PROVE  cursor'[c] # NoCursor /\ request'[c].start = cursor'[c]
  <2>1. CASE /\ phase[c] = "idle" /\ (cursor[c] # NoCursor \/ HostDriven)
             /\ handler' = handler /\ cursor' = cursor
             /\ request'[c].start = Start(c)
    BY <2>1 DEF Start
  <2>2. CASE phase[c] = "exchange" /\ request'[c].start = request[c].start
    <3>1. \A h \in Handler : ~Reconcile(c, h)
      BY <1>1 DEF Reconcile, Idle, Types
    <3>2. ~BootstrapPage(c)
      BY <2>2 DEF BootstrapPage
    <3>3. cursor'[c] = cursor[c]
      BY <3>1, <3>2, LocalStep
    <3> QED BY <2>2, <3>3 DEF OneAnswer
  <2> QED BY <1>1, <2>1, <2>2, RequestChanges
<1>2. ASSUME NEW h \in Handler, NEW c \in Client, Answering(h, c)'
      PROVE  /\ phase'[c] = "exchange"
             /\ request'[c].sent
             /\ handler'[h].start = cursor'[c]
             /\ \A g \in Handler : Answering(g, c)' => g = h
  <2>0. handler'[h] # None /\ handler'[h].live /\ handler'[h].client = c
    BY <1>2 DEF Answering
  <2>1. CASE \E d \in Client : Deliver(d, h)
    <3>1. PICK d \in Client : Deliver(d, h)
      BY ZenonT(30), <2>1
    <3>2. /\ d = c /\ phase[c] = "exchange" /\ ~request[c].sent /\ request[c] \in RequestRecord
          /\ handler'[h].start = request[c].start
          /\ request' = [request EXCEPT ![c] = [request[c] EXCEPT !.sent = TRUE]]
          /\ \A g \in Handler : g # h => handler'[g] = handler[g]
          /\ phase' = phase /\ cursor' = cursor
      BY <2>0, <3>1, DeliverFields DEF Deliver, Types, local
    <3>3. \A g \in Handler : ~Answering(g, c)
      BY <3>2 DEF OneAnswer, Answering
    <3>4. request'[c].sent
      BY <3>2 DEF RequestRecord, Types
    <3> QED BY <1>1, <3>2, <3>3, <3>4 DEF Answering, OneAnswer
  <2>2. CASE \A d \in Client : ~Deliver(d, h)
    <3>1. Answering(h, c) /\ handler'[h].start = handler[h].start
      BY <2>0, <2>2, HandlerChanges DEF HandlerChange, Answering
    <3>2. /\ phase[c] = "exchange" /\ request[c].sent /\ handler[h].start = cursor[c]
          /\ \A g \in Handler : Answering(g, c) => g = h
      BY <3>1 DEF OneAnswer, Answering
    <3>3. phase'[c] = "exchange"
      BY <1>2, <3>2, StopsWaiting
    <3>4. request'[c].sent /\ request'[c].start = request[c].start
      BY <3>2, <3>3, RequestChanges
    <3>5. handler'[h].start = cursor'[c]
      BY <1>1, <3>1, <3>2, <3>3, <3>4 DEF OneAnswer
    <3>6. ASSUME NEW g \in Handler, Answering(g, c)' PROVE g = h
      <4>1. handler'[g] # None /\ handler'[g].live /\ handler'[g].client = c
        BY <3>6 DEF Answering
      <4>2. \A d \in Client : ~Deliver(d, g)
        <5>1. ASSUME NEW d \in Client, Deliver(d, g) PROVE FALSE
          <6>1. handler'[g].client = d /\ ~request[d].sent
            BY <5>1, DeliverFields DEF Types
          <6> QED BY <3>2, <4>1, <6>1
        <5> QED BY <5>1
      <4>3. Answering(g, c)
        BY <4>1, <4>2, HandlerChanges DEF HandlerChange, Answering
      <4> QED BY <3>2, <4>3
    <3> QED BY <3>3, <3>4, <3>5, <3>6
  <2> QED BY <2>1, <2>2
<1>3. ASSUME NEW h \in Handler, handler'[h] # None, handler'[h].live
      PROVE  \E c \in Client : handler'[h].client = c /\ Answering(h, c)'
  <2>1. handler'[h] \in Work
    BY <1>3, TypesStep DEF Types
  <2>2. handler'[h].client \in Client
    BY <2>1 DEF Work
  <2> QED BY <1>3, <2>2 DEF Answering
<1> QED BY <1>1, <1>2, <1>3 DEF OneAnswer, Answering

\* Pages stay gapless, when no compaction runs beside an unfinished request.
LEMMA PagesGaplessStep ==
  ASSUME ~CompactDuringExchange, Types, Created, VersionsExist, PagesGapless, [Next]_vars
  PROVE  PagesGapless'
<1> DEFINE Busy == {"lookup", "read", "commit", "page"}
           Good(w, fl) == /\ w.stage \in Busy => fl <= w.start
                          /\ w.stage = "reply" => w.start <= w.to /\ w.page = (w.start + 1)..w.to
                          /\ w.stage = "resync" => w.start < fl
<1>1. ASSUME NEW h \in Handler, handler'[h] # None, handler'[h].live
      PROVE  Good(handler'[h], floor')
  <2>1. CASE \E c \in Client : Deliver(c, h)
    <3>1. PICK c \in Client : Deliver(c, h)
      BY <2>1
    <3>2. /\ request[c].start \in Nat /\ handler'[h].start = request[c].start
          /\ handler'[h].stage = IF request[c].start < floor THEN "resync"
                                 ELSE IF request[c].ops = {} THEN "page" ELSE "lookup"
          /\ floor' = floor /\ floor \in Nat
      BY <3>1, DeliverFields DEF Deliver, Types, RequestRecord, server
    <3> QED BY <3>2
  <2>2. CASE \E n \in 0..PageLimit : ReadPage(h, n)
    <3>1. PICK n \in 0..PageLimit : ReadPage(h, n)
      BY <2>2
    <3>2. /\ handler[h] \in Work /\ handler[h].stage = "page" /\ handler[h] # None
          /\ handler[h].live /\ n \in Nat
      <4>1. /\ handler[h] \in Work /\ handler[h].stage = "page" /\ n \in Nat
            /\ handler'[h].live = handler[h].live
        BY ZenonT(30), <3>1, PageFields DEF Types
      <4>2. handler[h] # None
        BY ZenonT(30), <3>1 DEF ReadPage, Working
      <4> QED BY ZenonT(30), <1>1, <4>1, <4>2
    <3>3. floor <= handler[h].start /\ floor \in Nat /\ handler[h].start \in Nat
      BY ZenonT(30), <3>2 DEF PagesGapless, Types, Work
    <3>4. /\ handler'[h].start = handler[h].start /\ handler'[h].stage = "reply"
          /\ handler'[h].page = (handler[h].start + 1)..(handler[h].start + n)
          /\ handler'[h].to = IF n = 0 THEN handler[h].start ELSE handler[h].start + n
      <4>1. ~(handler[h].start < floor)
        BY <3>3
      <4>2. PICK w \in Work :
              /\ handler' = [handler EXCEPT ![h] = w]
              /\ w.start = handler[h].start /\ w.stage = "reply"
              /\ w.page = (handler[h].start + 1)..(handler[h].start + n)
              /\ w.to = IF n = 0 THEN handler[h].start ELSE handler[h].start + n
        BY <3>1, <4>1, PageFields
      <4>3. handler'[h] = w
        BY ZenonT(30), <4>2 DEF Types
      <4> QED BY ZenonT(30), <4>2, <4>3
    <3> QED BY <3>2, <3>3, <3>4
  <2>3. CASE /\ handler[h] # None /\ handler[h].live
             /\ handler'[h].start = handler[h].start
             /\ handler'[h].page = handler[h].page /\ handler'[h].to = handler[h].to
             /\ \/ handler'[h].stage = handler[h].stage
                \/ /\ handler[h].stage \in {"lookup", "read", "commit"}
                   /\ handler'[h].stage \in Busy
                   /\ floor' = floor
    <3>1. /\ Good(handler[h], floor) /\ handler[h].start \in Nat /\ floor \in Nat
      BY <2>3 DEF PagesGapless, Types, Work
    <3>2. CASE floor' = floor
      BY <2>3, <3>1, <3>2
    <3>3. ASSUME NEW k \in 1..Len(journal), Compact(k), floor' = k
          PROVE  Good(handler'[h], floor')
      <4>1. handler[h].stage \in {"reply", "resync"} /\ k > floor /\ handler'[h] = handler[h]
        BY <2>3, <3>3 DEF Compact
      <4>2. Len(journal) \in Nat
        BY DEF Types
      <4> QED BY <3>1, <3>3, <4>1, <4>2
    <3> QED BY ZenonT(30), <3>2, <3>3, FloorStep
  <2> QED BY <1>1, <2>1, <2>2, <2>3, HandlerChanges DEF HandlerChange
<1> QED BY ZenonT(30), <1>1 DEF PagesGapless
\* A client that stages a snapshot is below the floor and ahead of nothing.
LEMMA StagingAheadStep ==
  ASSUME ~HostDriven, Types, WithinJournal, Created, VersionsExist, OneAnswer, PagesGapless,
         StagingAhead, [Next]_vars
  PROVE  StagingAhead'
<1>0. /\ floor \in Nat /\ floor' \in Nat /\ floor <= floor' /\ Len(journal) \in Nat
  <2>1. Len(journal) \in Nat /\ floor \in Nat
    BY DEF Types
  <2> QED BY <2>1, FloorStep DEF Compact
<1>1. ASSUME NEW c \in Client PROVE cursor[c] \in Int /\ cursor'[c] \in Int
  BY TypesStep DEF Types, NoCursor
<1>2. ASSUME NEW c \in Client, phase'[c] = "bootstrap"
      PROVE  cursor'[c] < floor'
  <2>1. CASE phase[c] = "bootstrap"
    <3>1. \A h \in Handler : ~Reconcile(c, h)
      BY ZenonT(30), <1>2 DEF Reconcile, Idle, Types
    <3>2. BootstrapPage(c) => cursor'[c] = cursor[c]
      BY <1>2, PageOfSnapshot
    <3>3. cursor'[c] = cursor[c]
      BY <3>1, <3>2, LocalStep
    <3> QED BY <1>0, <1>1, <2>1, <3>3 DEF StagingAhead
  <2>2. CASE phase[c] # "bootstrap"
    <3>1. BeginBootstrap(c) \/ \E h \in Handler : Resync(c, h)
      BY <1>2, <2>2, EntersBootstrap
    <3>2. CASE BeginBootstrap(c)
      <4>1. cursor[c] = NoCursor /\ cursor' = cursor
        BY <3>2 DEF BeginBootstrap, local
      <4> QED BY <1>0, <4>1 DEF NoCursor
    <3>3. CASE \E h \in Handler : Resync(c, h)
      <4>1. PICK h \in Handler : Resync(c, h)
        BY <3>3
      <4>2. /\ handler[h] # None /\ handler[h].live /\ handler[h].client = c
            /\ handler[h].stage = "resync" /\ cursor' = cursor
        BY ZenonT(30), <4>1 DEF Resync, Answers, Working, local
      <4>3. handler[h].start = cursor[c] /\ handler[h].start < floor
        BY ZenonT(30), <4>2 DEF OneAnswer, PagesGapless
      <4> QED BY <1>0, <1>1, <4>2, <4>3
    <3> QED BY <3>1, <3>2, <3>3
  <2> QED BY ZenonT(30), <2>1, <2>2
<1>3. ASSUME NEW c \in Client, progress'[c] # None
      PROVE  cursor'[c] <= progress'[c].snapshot.cursor /\ cursor'[c] < floor'
  <2>1. ASSUME NEW h \in Handler, Reconcile(c, h) PROVE FALSE
    <3>1. /\ handler[h] # None /\ handler[h].live /\ handler[h].client = c
          /\ handler[h].stage = "reply" /\ progress' = progress
      BY <2>1 DEF Reconcile, Answers, Working
    <3> QED BY ZenonT(30), <1>3, <3>1 DEF StagingAhead
  <2>2. CASE BootstrapPage(c)
    <3>1. PICK s \in snapshots' :
            /\ \/ progress[c] # None /\ s = progress[c].snapshot
               \/ s.cursor = Len(journal)
            /\ progress'[c].snapshot = s
            /\ cursor'[c] = cursor[c]
      BY <1>3, <2>2, PageOfSnapshot
    <3>2. cursor[c] < floor
      BY <2>2 DEF StagingAhead, BootstrapPage
    <3>3. cursor[c] <= s.cursor
      BY <3>1 DEF StagingAhead, WithinJournal
    <3> QED BY <1>0, <1>1, <3>1, <3>2, <3>3
  <2>3. CASE cursor'[c] = cursor[c] /\ progress'[c] = progress[c]
    <3>1. cursor[c] < floor /\ cursor[c] <= progress[c].snapshot.cursor
      BY <1>3, <2>3 DEF StagingAhead
    <3> QED BY <1>0, <1>1, <2>3, <3>1
  <2> QED BY ZenonT(30), <2>1, <2>2, <2>3, LocalStep
<1>4. ASSUME NEW c \in Client, progress'[c] # None, NEW h \in Handler,
             handler'[h] # None, handler'[h].live, handler'[h].client = c
      PROVE  handler'[h].stage = "resync"
  <2>1. CASE \E d \in Client : Deliver(d, h)
    <3>1. PICK d \in Client : Deliver(d, h)
      BY <2>1
    <3>2. /\ d = c /\ phase[c] = "exchange" /\ progress' = progress /\ cursor' = cursor
          /\ floor' = floor
          /\ handler'[h].stage = IF request[c].start < floor THEN "resync"
                                 ELSE IF request[c].ops = {} THEN "page" ELSE "lookup"
      <4>1. PICK w \in Work :
              /\ handler' = [handler EXCEPT ![h] = w] /\ w.client = d
              /\ w.stage = IF request[d].start < floor THEN "resync"
                           ELSE IF request[d].ops = {} THEN "page" ELSE "lookup"
        BY <3>1, DeliverFields
      <4>2. handler'[h] = w
        BY ZenonT(30), <4>1 DEF Types
      <4>3. /\ phase[d] = "exchange" /\ progress' = progress /\ cursor' = cursor
            /\ floor' = floor
        BY ZenonT(30), <3>1 DEF Deliver, local, server
      <4> QED BY ZenonT(30), <1>4, <4>1, <4>2, <4>3
    <3>3. request[c].start = cursor[c] /\ cursor[c] < floor
      BY <1>3, <1>4, <3>2 DEF OneAnswer
    <3> QED BY <3>2, <3>3
  <2>2. CASE \A d \in Client : ~Deliver(d, h)
    <3>1. handler[h] # None /\ handler[h].live /\ handler[h].client = c
      BY <1>4, <2>2, HandlerChanges DEF HandlerChange
    <3>2. phase[c] = "exchange"
      BY ZenonT(30), <3>1 DEF OneAnswer
    <3>3. progress[c] # None
      BY <1>4, <3>2, LocalStep DEF BootstrapPage, Reconcile
    <3>4. handler[h].stage = "resync"
      BY <3>1, <3>3 DEF StagingAhead
    <3>5. \A n \in 0..PageLimit : ~ReadPage(h, n)
      BY <3>4 DEF ReadPage, Working
    <3> QED BY ZenonT(30), <1>4, <2>2, <3>4, <3>5, HandlerChanges DEF HandlerChange
  <2> QED BY <2>1, <2>2
<1> QED BY <1>2, <1>3, <1>4 DEF StagingAhead

\* A client without a cursor is told from one at a position of the journal.
LEMMA NoCursorApart == \A k \in Nat : k # NoCursor
BY DEF NoCursor

\* Replicas stay at their cursors, and what is recorded as applied behind them.
LEMMA CursorSafetyStep ==
  ASSUME Types, WithinJournal, Created, VersionsExist, SnapshotsConsistent, CursorSafety,
         AppliedBehindCursor, OneAnswer, PagesGapless, StagingAhead, [Next]_vars
  PROVE  CursorSafety' /\ AppliedBehindCursor'
<1> DEFINE At(c) == cursor'[c] # NoCursor =>
                      \A e \in Entity : VersionAt(journal', e, cursor'[c], replica'[c][e])
           NewStart(c) == IF cursor'[c] = NoCursor THEN 0 ELSE cursor'[c]
           Behind(c) == applied'[c] \subseteq 1..NewStart(c)
<1>0. SnapshotsConsistent'
  BY SnapshotsStep
<1>1. ASSUME NEW c \in Client, cursor'[c] = cursor[c], replica'[c] = replica[c],
             applied'[c] = applied[c]
      PROVE  At(c) /\ Behind(c)
  <2>1. cursor[c] # NoCursor => cursor[c] \in Nat /\ cursor[c] <= Len(journal)
    BY DEF Types, WithinJournal
  <2>2. At(c)
    BY <1>1, <2>1, VersionAtStep DEF CursorSafety
  <2> QED BY <1>1, <2>2 DEF AppliedBehindCursor, Start
<1>2. ASSUME NEW c \in Client, NEW h \in Handler, Reconcile(c, h)
      PROVE  At(c) /\ Behind(c)
  <2> DEFINE n == cursor[c]
             m == handler[h].to
  <2>1. /\ handler[h] # None /\ handler[h] \in Work /\ handler[h].live
        /\ handler[h].client = c /\ handler[h].stage = "reply"
    BY ZenonT(30), <1>2 DEF Reconcile, Answers, Working, Types
  <2>2. handler[h].start = n /\ phase[c] = "exchange" /\ n # NoCursor
    BY <2>1 DEF OneAnswer
  <2>3. n \in Nat /\ m \in Nat /\ n <= m /\ handler[h].page = (n + 1)..m
    BY ZenonT(30), <2>1, <2>2 DEF PagesGapless, Work
  <2>4. /\ cursor'[c] = m /\ applied'[c] = applied[c] \cup handler[h].page
        /\ journal' = journal
    BY <1>2 DEF Reconcile, Types, server
  <2>5. PICK new \in [Entity -> 0..Len(journal)] :
          PageApplied(new, replica[c], (n + 1)..m, applied[c]) /\ replica'[c] = new
    BY ZenonT(30), <1>2, <2>3 DEF Reconcile, Types
  <2>6. applied[c] \in SUBSET (1..n)
    BY <2>2 DEF AppliedBehindCursor, Start
  <2>7. \A e \in Entity : VersionAt(journal, e, n, replica[c][e])
    BY ZenonT(30), <2>2 DEF CursorSafety
  <2> HIDE DEF n, m
  <2>8. At(c)
    BY <2>3, <2>4, <2>5, <2>6, <2>7, PageAppliedVersion
  <2>9. Behind(c)
    <3>1. m # NoCursor
      BY ZenonT(30), <2>3, NoCursorApart
    <3> QED BY <2>3, <2>4, <2>6, <3>1
  <2> QED BY ZenonT(30), <2>8, <2>9
<1>3. ASSUME NEW c \in Client, BootstrapPage(c)
      PROVE  At(c) /\ Behind(c)
  <2>1. PICK s \in snapshots' :
          /\ s \in SnapshotRecord
          /\ \/ progress[c] # None /\ s = progress[c].snapshot /\ s \in snapshots
             \/ s.cursor = Len(journal)
          /\ \/ cursor'[c] = cursor[c] /\ replica'[c] = replica[c]
             \/ cursor'[c] = s.cursor /\ replica'[c] = s.versions
    BY ZenonT(30), <1>3, PageOfSnapshot
  <2>2. applied'[c] = applied[c]
    BY ZenonT(30), <1>3, PageOfSnapshot
  <2>3. CASE cursor'[c] = cursor[c] /\ replica'[c] = replica[c]
    BY ZenonT(30), <1>1, <2>2, <2>3
  <2>4. CASE cursor'[c] = s.cursor /\ replica'[c] = s.versions
    <3>1. At(c)
      BY <1>0, <2>4 DEF SnapshotsConsistent
    <3>2. cursor[c] <= s.cursor /\ s.cursor \in Nat
      BY <2>1 DEF StagingAhead, WithinJournal, SnapshotRecord
    <3>3. applied[c] \subseteq 1..Start(c) /\ cursor[c] \in Nat \cup {NoCursor}
      BY DEF AppliedBehindCursor, Types
    <3>4. Behind(c)
      BY <2>2, <2>4, <3>2, <3>3 DEF Start, NoCursor
    <3> QED BY <3>1, <3>4
  <2> QED BY <2>1, <2>3, <2>4
<1>4. ASSUME NEW c \in Client PROVE At(c) /\ Behind(c)
  <2> HIDE DEF At, Behind
  <2> QED BY <1>1, <1>2, <1>3, LocalStep
<1> QED BY <1>4 DEF CursorSafety, AppliedBehindCursor, Start
-----------------------------------------------------------------------------
(* Theorems *)

\* The inductive invariant of the authority's side.
JournalInv ==
  /\ Types
  /\ Created
  /\ VersionsExist
  /\ WithinJournal
  /\ OperationOnce
  /\ VersionsConsecutive
  /\ VerdictsTrue
  /\ AcknowledgedCommitted

\* It holds in every reachable state, whatever the host does and whenever the
\* journal is compacted.
THEOREM JournalInvariant == Spec => []JournalInv
<1>1. Init => JournalInv
  <2> SUFFICES ASSUME Init PROVE JournalInv
    OBVIOUS
  <2>1. journal = <<>> /\ Len(journal) = 0 /\ handler = [h \in Handler |-> None]
    BY DEF Init
  <2>2. Types
    BY TypesInit
  <2>3. Created
    BY <2>1 DEF Init, Created
  <2>4. \A e \in Entity : VersionAt(journal, e, 0, 0)
    BY DEF VersionAt
  <2>5. VersionsExist
    BY <2>1, <2>4 DEF VersionsExist
  <2>6. WithinJournal
    BY <2>1 DEF Init, WithinJournal, NoCursor
  <2>7. OperationOnce /\ VersionsConsecutive
    <3>1. Positions = {}
      BY <2>1 DEF Positions
    <3> QED BY ZenonT(30), <3>1 DEF OperationOnce, VersionsConsecutive
  <2>8. VerdictsTrue /\ AcknowledgedCommitted
    BY <2>1 DEF Init, VerdictsTrue, AcknowledgedCommitted
  <2> QED BY <2>2, <2>3, <2>5, <2>6, <2>7, <2>8 DEF JournalInv
<1>2. JournalInv /\ [Next]_vars => JournalInv'
  BY TypesStep, CreatedStep, VersionsExistStep, WithinJournalStep, JournalPropertiesStep,
     AcknowledgementsStep DEF JournalInv
<1> QED BY <1>1, <1>2, PTL DEF Spec

\* The variables keep their types, and no cursor, page, snapshot or floor is
\* ahead of the journal.
THEOREM TypeCorrect == Spec => []TypeOK
<1>1. JournalInv => TypeOK
  BY DEF JournalInv, TypeOK
<1> QED BY <1>1, JournalInvariant, PTL

\* An operation has at most one authoritative effect, however often it is sent
\* and however its requests overlap.
THEOREM EffectOnce == Spec => []OperationOnce
<1>1. JournalInv => OperationOnce
  BY DEF JournalInv
<1> QED BY <1>1, JournalInvariant, PTL

\* The events of an entity carry consecutive versions: no update is lost.
THEOREM NoLostUpdate == Spec => []VersionsConsecutive
<1>1. JournalInv => VersionsConsecutive
  BY DEF JournalInv
<1> QED BY <1>1, JournalInvariant, PTL

\* An operation that an outbox shows as acknowledged is in the journal.
THEOREM AcknowledgementsTrue == Spec => []AcknowledgedCommitted
<1>1. JournalInv => AcknowledgedCommitted
  BY DEF JournalInv
<1> QED BY <1>1, JournalInvariant, PTL

\* With clients driven by sync() and compaction that waits for running
\* requests, the invariant behind CursorSafety holds in every reachable state.
THEOREM CursorInvariant ==
  ASSUME ~HostDriven, ~CompactDuringExchange
  PROVE  Spec => []CursorInv
<1>1. Init => CursorInv
  <2> SUFFICES ASSUME Init PROVE CursorInv
    OBVIOUS
  <2>1. TypeOK
    BY TypesInit DEF TypeOK, Init, WithinJournal, NoCursor
  <2>2. VersionsExist
    <3>1. journal = <<>>
      BY ZenonT(30) DEF Init
    <3>2. Len(journal) = 0
      BY <3>1
    <3>3. \A e \in Entity : VersionAt(journal, e, 0, 0)
      BY <3>2 DEF VersionAt
    <3> QED BY <3>2, <3>3 DEF VersionsExist
  <2>3. Created /\ SnapshotsConsistent /\ CursorSafety /\ AppliedBehindCursor
    BY DEF Init, Created, SnapshotsConsistent, CursorSafety, AppliedBehindCursor
  <2>4. OneAnswer /\ PagesGapless /\ StagingAhead
    BY ZenonT(30) DEF Init, OneAnswer, PagesGapless, StagingAhead
  <2> QED BY <2>1, <2>2, <2>3, <2>4 DEF CursorInv
<1>2. CursorInv /\ [Next]_vars => CursorInv'
  BY TypesStep, CreatedStep, VersionsExistStep, WithinJournalStep, SnapshotsStep,
     CursorSafetyStep, OneAnswerStep, PagesGaplessStep, StagingAheadStep DEF CursorInv, TypeOK
<1> QED BY <1>1, <1>2, PTL DEF Spec

\* A durable cursor stands for exactly the events up to it.
THEOREM CursorsSafe ==
  ASSUME ~HostDriven, ~CompactDuringExchange
  PROVE  Spec => []CursorSafety
<1>1. CursorInv => CursorSafety
  BY DEF CursorInv
<1> QED BY <1>1, CursorInvariant, PTL

\* A durable cursor never moves back, through pages, snapshots and restarts.
THEOREM CursorsNeverRegress ==
  ASSUME ~HostDriven, ~CompactDuringExchange
  PROVE  Spec => CursorNeverRegresses
<1>1. CursorInv /\ [Next]_vars => [\A c \in Client : cursor'[c] >= cursor[c]]_vars
  <2> SUFFICES ASSUME CursorInv, [Next]_vars, NEW c \in Client
               PROVE  cursor'[c] >= cursor[c]
    OBVIOUS
  <2>0. Types /\ WithinJournal /\ VersionsExist
    BY DEF CursorInv, TypeOK
  <2>1. cursor[c] \in Int
    BY <2>0 DEF Types, NoCursor
  <2>2. ASSUME NEW h \in Handler, Reconcile(c, h) PROVE cursor'[c] >= cursor[c]
    <3>1. /\ handler[h] # None /\ handler[h] \in Work /\ handler[h].live
          /\ handler[h].client = c /\ handler[h].stage = "reply"
          /\ cursor'[c] = handler[h].to
      BY ZenonT(30), <2>0, <2>2 DEF Reconcile, Answers, Working, Types
    <3>2. handler[h].start = cursor[c] /\ handler[h].start <= handler[h].to
      BY ZenonT(30), <3>1 DEF CursorInv, OneAnswer, PagesGapless
    <3>3. handler[h].to \in Nat
      BY <3>1 DEF Work
    <3> QED BY <2>1, <3>1, <3>2, <3>3
  <2>3. CASE BootstrapPage(c)
    <3>1. PICK s \in snapshots' :
            /\ s \in SnapshotRecord
            /\ \/ progress[c] # None /\ s = progress[c].snapshot
               \/ s.cursor = Len(journal)
            /\ cursor'[c] = cursor[c] \/ cursor'[c] = s.cursor
      BY <2>0, <2>3, PageOfSnapshot
    <3>2. cursor[c] <= s.cursor /\ s.cursor \in Nat
      BY <2>0, <3>1 DEF CursorInv, StagingAhead, WithinJournal, SnapshotRecord
    <3> QED BY <2>1, <3>1, <3>2
  <2> QED BY <2>0, <2>1, <2>2, <2>3, LocalStep
<1> QED BY <1>1, CursorInvariant, PTL DEF Spec, CursorNeverRegresses
=============================================================================
