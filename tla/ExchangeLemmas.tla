--------------------------- MODULE ExchangeLemmas ---------------------------
(* What the steps of Exchange keep: types, versions, operations and the      *)
(* journal.  ExchangeProofs combines these facts into theorems.              *)
EXTENDS Exchange, TLAPS

-----------------------------------------------------------------------------
(* Versions of entities in the journal *)

\* read_entity returns the version that the whole journal gives the entity.
LEMMA VersionIs ==
  ASSUME VersionsExist, NEW e \in Entity
  PROVE  Version(e) \in 0..Len(journal) /\ VersionAt(journal, e, Len(journal), Version(e))
<1> DEFINE P(v) == VersionAt(journal, e, Len(journal), v)
<1>1. \E v \in 0..Len(journal) : P(v)
  BY DEF VersionsExist
<1> HIDE DEF P
<1>2. LET w == CHOOSE v \in 0..Len(journal) : P(v)
      IN  w \in 0..Len(journal) /\ P(w)
  BY <1>1, Zenon
<1> QED
  BY <1>2, Zenon DEF P, Version

\* The version in a prefix depends on the prefix only.
LEMMA VersionAtPrefix ==
  ASSUME NEW log, NEW other, NEW e, NEW v, NEW n \in Nat,
         \A i \in 1..n : other[i] = log[i], VersionAt(log, e, n, v)
  PROVE  VersionAt(other, e, n, v)
  BY DEF VersionAt

\* Events of other entities do not change the version of e.
LEMMA VersionAtExtend ==
  ASSUME NEW log, NEW e, NEW v, NEW n \in Nat, NEW m \in Nat, n <= m,
         VersionAt(log, e, n, v), \A i \in (n + 1)..m : log[i].entity # e
  PROVE  VersionAt(log, e, m, v)
<1>1. CASE v = 0 /\ \A i \in 1..n : log[i].entity # e
  <2>1. \A i \in 1..m : i \in 1..n \/ i \in (n + 1)..m
    OBVIOUS
  <2> QED
    BY <1>1, <2>1 DEF VersionAt
<1>2. CASE \E i \in 1..n : /\ log[i].entity = e
                           /\ log[i].version = v
                           /\ \A j \in (i + 1)..n : log[j].entity # e
  <2>1. PICK i \in 1..n : /\ log[i].entity = e
                          /\ log[i].version = v
                          /\ \A j \in (i + 1)..n : log[j].entity # e
    BY <1>2
  <2>2. i \in 1..m /\ \A j \in (i + 1)..m : j \in (i + 1)..n \/ j \in (n + 1)..m
    OBVIOUS
  <2> QED
    BY <2>1, <2>2 DEF VersionAt
<1> QED
  BY <1>1, <1>2 DEF VersionAt

-----------------------------------------------------------------------------
(* Types *)

\* The initial state has the right types.
LEMMA TypesInit == Init => Types
  BY ExchangeConstants DEF Init, Types, NoCursor, Event, Terminal

\* Updating the fields that change when an operation is answered keeps the type.
LEMMA WorkUpdate ==
  ASSUME NEW w \in Work, NEW d \in VerdictMap, NEW t \in SUBSET Op, NEW st \in Stages
  PROVE  [w EXCEPT !.verdict = d, !.todo = t, !.expected = 0, !.stage = st] \in Work
  BY ZenonT(30) DEF Work

\* A handler that answers an operation keeps its type.
LEMMA AnsweredType ==
  ASSUME NEW h \in Handler, handler[h] \in Work, NEW op \in Op, NEW v \in Terminal
  PROVE  Answered(h, op, v) \in Work
<1> DEFINE w == handler[h]
           d == [w.verdict EXCEPT ![op] = v]
           st == IF w.todo = {op} THEN "page" ELSE "lookup"
<1>1. d \in VerdictMap
  BY DEF Work, VerdictMap
<1>2. st \in Stages /\ w.todo \ {op} \in SUBSET Op
  BY DEF Stages, Work
<1>3. Answered(h, op, v) =
        [w EXCEPT !.verdict = d, !.todo = w.todo \ {op}, !.expected = 0, !.stage = st]
  BY DEF Answered
<1> HIDE DEF d, st
<1>4. w \in Work
  OBVIOUS
<1> HIDE DEF w
<1>5. [w EXCEPT !.verdict = d, !.todo = w.todo \ {op}, !.expected = 0, !.stage = st] \in Work
  BY <1>1, <1>2, <1>4, WorkUpdate, Zenon
<1> QED
  BY <1>3, <1>5, Zenon

\* Every step preserves types.
LEMMA TypesStep ==
  ASSUME Types, Created, VersionsExist, [Next]_vars
  PROVE  Types'
<1> DEFINE States == Terminal \cup {"none", "pending", "sending", "retry"}
<1>1. ASSUME NEW c \in Client, NEW op \in Op, NEW e \in Entity, NEW p \in Policy,
             LocalMutation(c, op, e, p)
      PROVE  Types'
  <2>1. PICK deps \in SUBSET Previous(c) :
          info' = [info EXCEPT ![op] = [client |-> c, entity |-> e, policy |-> p,
                                        base |-> replica[c][e], deps |-> deps]]
    BY ZenonT(30), <1>1 DEF LocalMutation
  <2> DEFINE new == [client |-> c, entity |-> e, policy |-> p,
                     base |-> replica[c][e], deps |-> deps]
  <2>2. new \in Envelope
    BY DEF Envelope, Types, Previous, Own
  <2>. info' = [info EXCEPT ![op] = new]
    BY <2>1
  <2>3. info' \in [Op -> Envelope \cup {None}]
    <3> HIDE DEF new
    <3> QED BY <2>2 DEF Types
  <2>4. state' \in [Op -> States]
    BY <1>1 DEF LocalMutation, Types
  <2>5. \A o \in Op : state'[o] # "none" => info'[o] \in Envelope
    <3> HIDE DEF new
    <3> QED BY <1>1, <2>2 DEF LocalMutation, Types
  <2> QED BY <1>1, <2>3, <2>4, <2>5 DEF LocalMutation, Types, server, local, engine
<1>2. ASSUME NEW c \in Client, NEW due \in SUBSET Retries(c), NEW ops \in SUBSET Own(c),
             Send(c, due, ops)
      PROVE  Types'
  <2> DEFINE new == [start |-> Start(c), ops |-> ops, sent |-> FALSE]
  <2>1. new \in RequestRecord
    BY DEF RequestRecord, Start, Types, Own, NoCursor
  <2>2. /\ request' = [request EXCEPT ![c] = new]
        /\ phase' = [phase EXCEPT ![c] = "exchange"]
    BY <1>2 DEF Send
  <2>3. /\ request' \in [Client -> RequestRecord \cup {None}]
        /\ \A d \in Client : phase'[d] = "exchange" => request'[d] \in RequestRecord
    <3> HIDE DEF new
    <3> QED BY <2>1, <2>2 DEF Types
  <2>4. state' \in [Op -> States] /\ \A o \in Op : state'[o] # "none" => info[o] \in Envelope
    <3>1. \A o \in ops : o \in Op /\ state[o] # "none"
      BY DEF Own
    <3> QED BY <1>2, <3>1 DEF Send, Moved, Types
  <2> QED BY ZenonT(30), <1>2, <2>2, <2>3, <2>4 DEF Send, Types, server, local
<1>3. ASSUME NEW c \in Client, NEW h \in Handler, Deliver(c, h)
      PROVE  Types'
  <2> DEFINE r == request[c]
             st == IF r.start < floor THEN "resync" ELSE IF r.ops = {} THEN "page" ELSE "lookup"
             new == [client |-> c, start |-> r.start, ops |-> r.ops, todo |-> r.ops,
                     stage |-> st, expected |-> 0, verdict |-> [op \in Op |-> "none"],
                     page |-> {}, to |-> r.start, live |-> TRUE]
  <2>1. r \in RequestRecord
    BY <1>3 DEF Deliver, Types
  <2>2. new \in Work
    BY <2>1 DEF Work, RequestRecord, Stages, VerdictMap
  <2>3. handler' = [handler EXCEPT ![h] = new]
    BY <1>3 DEF Deliver
  <2>4. handler' \in [Handler -> Work \cup {None}]
    <3> HIDE DEF new
    <3> QED BY <2>2, <2>3 DEF Types
  <2>5. [r EXCEPT !.sent = TRUE] \in RequestRecord
    BY ZenonT(30), <2>1 DEF RequestRecord
  <2>6. request' = [request EXCEPT ![c] = [r EXCEPT !.sent = TRUE]]
    BY <1>3 DEF Deliver
  <2>7. /\ request' \in [Client -> RequestRecord \cup {None}]
        /\ \A d \in Client : phase[d] = "exchange" => request'[d] \in RequestRecord
    <3> HIDE DEF RequestRecord
    <3> QED BY ZenonT(30), <2>5, <2>6 DEF Types
  <2> QED BY ZenonT(30), <1>3, <2>4, <2>7 DEF Deliver, Types, server, queue, local
<1>4. ASSUME NEW h \in Handler, NEW op \in Op, Lookup(h, op)
      PROVE  Types'
  <2>1. handler[h] \in Work
    BY <1>4 DEF Lookup, Processing, Working, Types
  <2>2. Answered(h, op, "acknowledged") \in Work
    BY <2>1, AnsweredType DEF Terminal
  <2>3. [handler[h] EXCEPT !.stage = "read"] \in Work
    BY <2>1 DEF Work, Stages
  <2>4. handler' \in [Handler -> Work \cup {None}]
    BY <1>4, <2>2, <2>3 DEF Lookup, Types
  <2> QED BY <1>4, <2>4 DEF Lookup, Types, server, queue, local, engine
<1>5. ASSUME NEW h \in Handler, NEW op \in Op, Read(h, op)
      PROVE  Types'
  <2>1. handler[h] \in Work /\ op \in handler[h].todo
    BY <1>5 DEF Read, Processing, Working, First, Types
  <2>2. info[op] \in Envelope
    BY <1>5, <2>1 DEF Read, Processing, Working, Created, Types
  <2>3. Version(info[op].entity) \in Nat
    BY <2>2, VersionIs DEF Envelope
  <2>4. ASSUME NEW v \in Verdicts(op), v # "none" PROVE Answered(h, op, v) \in Work
    <3>1. v \in Terminal
      BY <2>4 DEF Verdicts, Terminal
    <3> QED BY <2>1, <3>1, AnsweredType
  <2>5. [handler[h] EXCEPT !.stage = "commit", !.expected = Version(info[op].entity)] \in Work
    BY ZenonT(30), <2>1, <2>3 DEF Work, Stages
  <2>6. handler' \in [Handler -> Work \cup {None}]
    BY <1>5, <2>4, <2>5 DEF Read, Types
  <2> QED BY <1>5, <2>6 DEF Read, Types, server, queue, local, engine
<1>6. ASSUME NEW h \in Handler, NEW op \in Op, Commit(h, op)
      PROVE  Types'
  <2>1. handler[h] \in Work /\ op \in handler[h].todo
    BY <1>6 DEF Commit, Processing, Working, First, Types
  <2>2. info[op] \in Envelope
    BY <1>6, <2>1 DEF Commit, Processing, Working, Created, Types
  <2>3. /\ Answered(h, op, "acknowledged") \in Work
        /\ Answered(h, op, "conflict") \in Work
    BY <2>1, AnsweredType DEF Terminal
  <2>4. handler' \in [Handler -> Work \cup {None}]
    BY ZenonT(30), <1>6, <2>3 DEF Commit, Types
  <2>5. journal' \in Seq(Event)
    <3> DEFINE x == [op |-> op, entity |-> info[op].entity,
                     version |-> handler[h].expected + 1]
    <3>1. x \in Event
      BY <2>1, <2>2 DEF Event, Envelope, Work
    <3>2. journal' = journal \/ journal' = Append(journal, x)
      BY <1>6 DEF Commit
    <3>3. journal \in Seq(Event)
      BY DEF Types
    <3> HIDE DEF x
    <3> QED BY <3>1, <3>2, <3>3
  <2> QED BY <1>6, <2>4, <2>5 DEF Commit, Types, queue, local, engine
<1>7. ASSUME NEW h \in Handler, NEW n \in 0..PageLimit, ReadPage(h, n)
      PROVE  Types'
  <2> DEFINE w == handler[h]
             low == IF w.start < floor THEN floor ELSE w.start
             to == IF n = 0 THEN w.start ELSE low + n
             new == [w EXCEPT !.stage = "reply", !.page = (low + 1)..(low + n), !.to = to]
  <2>1. w \in Work
    BY <1>7 DEF ReadPage, Working, Types
  <2>2. low \in Nat /\ to \in Nat /\ (low + 1)..(low + n) \in SUBSET Nat /\ "reply" \in Stages
    BY <2>1, ExchangeConstants DEF Work, Types, Stages
  <2>3. handler' = [handler EXCEPT ![h] = new]
    BY <1>7 DEF ReadPage
  <2>4. new \in Work
    <3> HIDE DEF w, low, to
    <3> QED BY ZenonT(30), <2>1, <2>2 DEF Work
  <2>5. handler' \in [Handler -> Work \cup {None}]
    <3> HIDE DEF new
    <3> QED BY <2>3, <2>4 DEF Types
  <2> QED BY <1>7, <2>5 DEF ReadPage, Types, server, queue, local, engine
<1>8. ASSUME NEW c \in Client, NEW h \in Handler, Reconcile(c, h)
      PROVE  Types'
  <2> DEFINE r == handler[h]
  <2>1. r \in Work
    BY <1>8 DEF Reconcile, Answers, Working, Types
  <2>2. PICK new \in [Entity -> 0..Len(journal)] :
          replica' = [replica EXCEPT ![c] = new]
    BY ZenonT(30), <1>8 DEF Reconcile
  <2>3. new \in [Entity -> Nat]
    BY DEF Types
  <2>4. replica' \in [Client -> [Entity -> Nat]]
    BY <2>2, <2>3 DEF Types
  <2>5. /\ applied' \in [Client -> SUBSET Nat]
        /\ cursor' \in [Client -> Nat \cup {NoCursor}]
    BY <1>8, <2>1 DEF Reconcile, Types, Work
  <2>6. /\ handler' \in [Handler -> Work \cup {None}]
        /\ phase' \in [Client -> {"idle", "exchange", "bootstrap"}]
        /\ request' \in [Client -> RequestRecord \cup {None}]
        /\ \A d \in Client : phase'[d] = "exchange" => request'[d] \in RequestRecord
    BY <1>8 DEF Reconcile, Idle, Types
  <2>7. /\ state' = [op \in Op |-> IF r.verdict[op] = "none" THEN state[op] ELSE r.verdict[op]]
        /\ r.verdict \in VerdictMap
        /\ \A op \in Op : r.verdict[op] # "none" => state[op] # "none"
    BY <1>8, <2>1 DEF Reconcile, Answers, Working, Work, Created
  <2>8. /\ state' \in [Op -> States]
        /\ \A o \in Op : state'[o] # "none" => info[o] \in Envelope
    BY <2>7 DEF Types, VerdictMap
  <2> QED BY <1>8, <2>4, <2>5, <2>6, <2>8 DEF Reconcile, Types, server
<1>9. ASSUME NEW c \in Client, NEW h \in Handler, Resync(c, h)
      PROVE  Types'
  <2>1. handler[h] \in Work
    BY <1>9 DEF Resync, Answers, Working, Types
  <2>2. \A op \in handler[h].ops : op \in Op /\ state[op] # "none"
    BY <1>9, <2>1 DEF Resync, Answers, Working, Created, Work
  <2>3. /\ state' \in [Op -> States]
        /\ \A o \in Op : state'[o] # "none" => info[o] \in Envelope
    BY <1>9, <2>2 DEF Resync, Moved, Types
  <2>4. /\ handler' \in [Handler -> Work \cup {None}]
        /\ phase' \in [Client -> {"idle", "exchange", "bootstrap"}]
        /\ request' \in [Client -> RequestRecord \cup {None}]
        /\ \A d \in Client : phase'[d] = "exchange" => request'[d] \in RequestRecord
    BY <1>9 DEF Resync, Types
  <2> QED BY <1>9, <2>3, <2>4 DEF Resync, Types, server, local
<1>10. ASSUME NEW c \in Client PROVE Abandoned(c) \in [Handler -> Work \cup {None}]
  <2>1. ASSUME NEW w \in Work PROVE [w EXCEPT !.live = FALSE] \in Work
    BY ZenonT(30) DEF Work
  <2> QED BY <2>1 DEF Abandoned, Types
<1>11. ASSUME NEW c \in Client, Idle(c)
       PROVE  /\ phase' \in [Client -> {"idle", "exchange", "bootstrap"}]
              /\ request' \in [Client -> RequestRecord \cup {None}]
              /\ \A d \in Client : phase'[d] = "exchange" => request'[d] \in RequestRecord
  BY <1>11 DEF Idle, Types
<1>12. ASSUME NEW c \in Client, TransportFails(c)
       PROVE  Types'
  <2>1. request[c] \in RequestRecord /\ \A op \in request[c].ops : op \in Op /\ state[op] # "none"
    BY <1>12 DEF TransportFails, Types, Created, RequestRecord
  <2>2. /\ state' \in [Op -> States]
        /\ \A o \in Op : state'[o] # "none" => info[o] \in Envelope
    BY <1>12, <2>1 DEF TransportFails, Moved, Types
  <2>3. Idle(c) /\ handler' = Abandoned(c)
    BY <1>12 DEF TransportFails
  <2> QED BY <1>10, <1>11, <1>12, <2>2, <2>3 DEF TransportFails, Types, server, local
<1>13. ASSUME NEW c \in Client, CrashClient(c)
       PROVE  Types'
  <2>1. Idle(c) /\ handler' = Abandoned(c)
    BY <1>13 DEF CrashClient
  <2> QED BY <1>10, <1>11, <1>13, <2>1 DEF CrashClient, Types, server, queue, local
<1>14. ASSUME NEW h \in Handler, Stop(h)
       PROVE  Types'
  BY <1>14 DEF Stop, Types, server, queue, local, engine
<1>15. Snapshot \in SnapshotRecord
  BY VersionIs DEF Snapshot, SnapshotRecord, Types
<1>16. CASE CreateSnapshot
  BY <1>15, <1>16 DEF CreateSnapshot, Types, queue, local, engine
<1>17. ASSUME NEW c \in Client, BeginBootstrap(c)
       PROVE  Types'
  BY <1>17 DEF BeginBootstrap, Types, server, queue, local
<1>18. ASSUME NEW c \in Client, BootstrapPage(c)
       PROVE  Types'
  <2>1. PICK s \in snapshots', n \in Nat : Stage(c, s, n)
    <3>1. CASE progress[c] = None
      BY <1>18, <3>1 DEF BootstrapPage
    <3>2. CASE progress[c] # None
      <4>1. progress[c] \in [snapshot : snapshots, next : Nat]
        BY <3>2 DEF Types
      <4> QED BY <1>18, <3>2, <4>1 DEF BootstrapPage
    <3> QED BY <3>1, <3>2
  <2>2. snapshots' \subseteq SnapshotRecord /\ snapshots \subseteq snapshots'
    BY <1>15, <1>18 DEF BootstrapPage, Types
  <2>3. s.cursor \in Nat /\ s.versions \in [Entity -> Nat]
    BY <2>2 DEF SnapshotRecord
  <2>4. /\ cursor' \in [Client -> Nat \cup {NoCursor}]
        /\ replica' \in [Client -> [Entity -> Nat]]
        /\ applied' = applied
        /\ phase' \in [Client -> {"idle", "exchange", "bootstrap"}]
        /\ \A d \in Client : phase'[d] = "exchange" => phase[d] = "exchange"
    BY ZenonT(30), <2>1, <2>3 DEF Stage, Types
  <2>5. progress' \in [Client -> [snapshot : snapshots', next : Nat] \cup {None}]
    <3> DEFINE T == [snapshot : snapshots, next : Nat]
               U == [snapshot : snapshots', next : Nat]
               new == [snapshot |-> s, next |-> n + 1]
    <3>1. T \subseteq U /\ new \in U /\ progress \in [Client -> T \cup {None}]
      BY <2>2 DEF Types
    <3>2. progress' = [progress EXCEPT ![c] = new] \/ progress' = [progress EXCEPT ![c] = None]
      BY <2>1 DEF Stage
    <3> HIDE DEF T, U, new
    <3>3. progress' \in [Client -> U \cup {None}]
      BY <3>1, <3>2
    <3> QED BY <3>3 DEF U
  <2> QED BY <1>18, <2>2, <2>4, <2>5 DEF BootstrapPage, Types, queue
<1>19. ASSUME NEW k \in 1..Len(journal), Compact(k)
       PROVE  Types'
  BY <1>19 DEF Compact, Types, queue, local, engine
<1>20. CASE UNCHANGED vars
  BY <1>20 DEF vars, Types, server, queue, local, engine
<1> QED
  BY <1>1, <1>2, <1>3, <1>4, <1>5, <1>6, <1>7, <1>8, <1>9, <1>12, <1>13, <1>14, <1>16,
     <1>17, <1>18, <1>19, <1>20 DEF Next

\* Answering an operation leaves the rest of the request alone.
LEMMA AnsweredFields ==
  ASSUME NEW h \in Handler, handler[h] \in Work, NEW op \in Op, NEW v \in Terminal
  PROVE  LET a == Answered(h, op, v)  w == handler[h]
         IN  /\ a.client = w.client /\ a.start = w.start /\ a.ops = w.ops
             /\ a.todo = w.todo \ {op} /\ a.page = w.page /\ a.to = w.to
             /\ a.live = w.live
             /\ a.stage = IF w.todo = {op} THEN "page" ELSE "lookup"
             /\ \A o \in Op : a.verdict[o] = IF o = op THEN v ELSE w.verdict[o]
  BY DEF Answered, Work, VerdictMap

\* A step of a handler on an operation of its request, seen from outside: only
\* its own record changes, and in it neither the cursor nor the page.
HandlerStep(h, op) ==
  /\ handler[h] \in Work
  /\ handler[h].stage \in {"lookup", "read", "commit"}
  /\ op \in handler[h].todo
  /\ \E w \in Work :
       /\ handler' = [handler EXCEPT ![h] = w]
       /\ w.client = handler[h].client /\ w.start = handler[h].start
       /\ w.ops = handler[h].ops /\ w.todo \subseteq handler[h].todo
       /\ w.page = handler[h].page /\ w.to = handler[h].to
       /\ w.live = handler[h].live
       /\ w.stage \in {"lookup", "read", "commit", "page"}
       /\ \A o \in Op : w.verdict[o] # handler[h].verdict[o] => o = op
       /\ w.verdict[op] = "acknowledged" =>
            handler[h].verdict[op] = "acknowledged" \/ op \in Committed'

\* The three transactions of process_operation are such steps.
LEMMA OperationSteps ==
  ASSUME Types, Created, VersionsExist, NEW h \in Handler, NEW op \in Op,
         Lookup(h, op) \/ Read(h, op) \/ Commit(h, op)
  PROVE  HandlerStep(h, op)
<1>1. /\ handler[h] \in Work
      /\ handler[h].stage \in {"lookup", "read", "commit"}
      /\ op \in handler[h].todo
  BY DEF Lookup, Read, Commit, Processing, Working, First, Types
<1>2. ASSUME NEW v \in Terminal, handler' = [handler EXCEPT ![h] = Answered(h, op, v)],
             v = "acknowledged" => op \in Committed'
      PROVE  HandlerStep(h, op)
  <2> DEFINE a == Answered(h, op, v)
  <2>1. a \in Work
    BY <1>1, AnsweredType
  <2>2. /\ a.client = handler[h].client /\ a.start = handler[h].start
        /\ a.ops = handler[h].ops /\ a.todo = handler[h].todo \ {op}
        /\ a.page = handler[h].page /\ a.to = handler[h].to
        /\ a.live = handler[h].live
        /\ a.stage \in {"lookup", "read", "commit", "page"}
        /\ \A o \in Op : a.verdict[o] = IF o = op THEN v ELSE handler[h].verdict[o]
    BY <1>1, AnsweredFields
  <2>3. handler' = [handler EXCEPT ![h] = a]
    BY <1>2
  <2> HIDE DEF a
  <2> QED BY ZenonT(30), <1>1, <1>2, <2>1, <2>2, <2>3 DEF HandlerStep
<1>3. CASE Lookup(h, op)
  <2>1. CASE op \in Committed
    <3>1. op \in Committed'
      BY <1>3, <2>1 DEF Lookup, Committed, server
    <3>2. handler' = [handler EXCEPT ![h] = Answered(h, op, "acknowledged")]
      BY <1>3, <2>1 DEF Lookup
    <3> QED BY <1>2, <3>1, <3>2 DEF Terminal
  <2>2. CASE op \notin Committed
    <3> DEFINE w == [handler[h] EXCEPT !.stage = "read"]
    <3>1. handler' = [handler EXCEPT ![h] = w]
      BY <1>3, <2>2 DEF Lookup
    <3>2. w \in Work
      BY <1>1 DEF Work, Stages
    <3>3. /\ w.client = handler[h].client /\ w.start = handler[h].start
          /\ w.ops = handler[h].ops /\ w.todo = handler[h].todo
          /\ w.page = handler[h].page /\ w.to = handler[h].to
          /\ w.live = handler[h].live /\ w.stage = "read"
          /\ w.verdict = handler[h].verdict
      BY <1>1 DEF Work
    <3> HIDE DEF w
    <3> QED BY ZenonT(30), <1>1, <3>1, <3>2, <3>3 DEF HandlerStep
  <2> QED BY <2>1, <2>2
<1>4. CASE Read(h, op)
  <2>1. info[op] \in Envelope
    BY <1>1, <1>4 DEF Read, Processing, Working, Created, Types
  <2>2. Version(info[op].entity) \in Nat
    BY <2>1, VersionIs DEF Envelope
  <2>3. PICK v \in Verdicts(op) :
          handler' = [handler EXCEPT ![h] =
            IF v = "none"
            THEN [handler[h] EXCEPT !.stage = "commit",
                                    !.expected = Version(info[op].entity)]
            ELSE Answered(h, op, v)]
    BY ZenonT(30), <1>4 DEF Read
  <2>4. CASE v # "none"
    <3>1. v \in Terminal /\ v # "acknowledged"
      BY <2>4 DEF Verdicts, Terminal
    <3> QED BY ZenonT(30), <1>2, <2>3, <2>4, <3>1
  <2>5. CASE v = "none"
    <3> DEFINE w == [handler[h] EXCEPT !.stage = "commit",
                                       !.expected = Version(info[op].entity)]
    <3>1. handler' = [handler EXCEPT ![h] = w]
      BY <2>3, <2>5
    <3>2. w \in Work
      BY ZenonT(30), <1>1, <2>2 DEF Work, Stages
    <3>3. /\ w.client = handler[h].client /\ w.start = handler[h].start
          /\ w.ops = handler[h].ops /\ w.todo = handler[h].todo
          /\ w.page = handler[h].page /\ w.to = handler[h].to
          /\ w.live = handler[h].live /\ w.stage = "commit"
          /\ w.verdict = handler[h].verdict
      BY <1>1 DEF Work
    <3> HIDE DEF w
    <3> QED BY ZenonT(30), <1>1, <3>1, <3>2, <3>3 DEF HandlerStep
  <2> QED BY <2>4, <2>5
<1>5. CASE Commit(h, op)
  <2> DEFINE x == [op |-> op, entity |-> info[op].entity,
                   version |-> handler[h].expected + 1]
  <2>1. CASE op \in Committed /\ UNCHANGED journal
             /\ handler' = [handler EXCEPT ![h] = Answered(h, op, "acknowledged")]
    BY <1>2, <2>1 DEF Terminal, Committed
  <2>2. CASE handler' = [handler EXCEPT ![h] = Answered(h, op, "conflict")]
    BY <1>2, <2>2 DEF Terminal
  <2>3. CASE journal' = Append(journal, x)
             /\ handler' = [handler EXCEPT ![h] = Answered(h, op, "acknowledged")]
    <3>1. op \in Committed'
      <4>1. journal \in Seq(Event) /\ x.op = op
        BY DEF Types
      <4> HIDE DEF x
      <4>2. Len(journal) + 1 \in DOMAIN journal' /\ journal'[Len(journal) + 1] = x
        BY <2>3, <4>1
      <4> QED BY <4>1, <4>2 DEF Committed
    <3> QED BY <1>2, <2>3, <3>1 DEF Terminal
  <2> QED BY <1>5, <2>1, <2>2, <2>3 DEF Commit
<1> QED BY <1>3, <1>4, <1>5

-----------------------------------------------------------------------------
(* Sequence numbers, created operations, authoritative versions *)

\* The journal only grows: a step leaves it alone or commits one operation.
LEMMA JournalStep ==
  ASSUME Types, Created, [Next]_vars
  PROVE  \/ journal' = journal
         \/ \E h \in Handler, op \in Op :
              /\ Commit(h, op)
              /\ op \notin Committed
              /\ Version(info[op].entity) = handler[h].expected
              /\ info[op].entity \in Entity
              /\ \E x \in Event : /\ x = [op |-> op, entity |-> info[op].entity,
                                          version |-> handler[h].expected + 1]
                                 /\ journal' = Append(journal, x)
<1>1. ASSUME NEW h \in Handler, NEW op \in Op, Commit(h, op), journal' # journal
      PROVE  /\ op \notin Committed
             /\ Version(info[op].entity) = handler[h].expected
             /\ info[op].entity \in Entity
             /\ \E x \in Event : /\ x = [op |-> op, entity |-> info[op].entity,
                                         version |-> handler[h].expected + 1]
                                /\ journal' = Append(journal, x)
  <2> DEFINE x == [op |-> op, entity |-> info[op].entity,
                   version |-> handler[h].expected + 1]
  <2>1. handler[h] \in Work /\ op \in handler[h].todo
    BY <1>1 DEF Commit, Processing, Working, First, Types
  <2>2. info[op] \in Envelope
    BY <1>1, <2>1 DEF Commit, Processing, Working, Created, Types
  <2>3. x \in Event /\ info[op].entity \in Entity
    BY <2>1, <2>2 DEF Event, Envelope, Work
  <2>4. op \notin Committed /\ Version(info[op].entity) = handler[h].expected
        /\ journal' = Append(journal, x)
    BY <1>1 DEF Commit
  <2> HIDE DEF Event
  <2> QED BY <2>3, <2>4
<1>2. journal' # journal => \E h \in Handler, op \in Op : Commit(h, op)
  <2> USE DEF server
  <2>1. ASSUME NEW c \in Client
        PROVE  /\ \A op \in Op, e \in Entity, p \in Policy :
                    LocalMutation(c, op, e, p) => journal' = journal
               /\ \A due \in SUBSET Retries(c), ops \in SUBSET Own(c) :
                    Send(c, due, ops) => journal' = journal
               /\ \A h \in Handler :
                    Deliver(c, h) \/ Reconcile(c, h) \/ Resync(c, h) => journal' = journal
               /\ TransportFails(c) \/ CrashClient(c) => journal' = journal
               /\ BeginBootstrap(c) \/ BootstrapPage(c) => journal' = journal
    BY DEF LocalMutation, Send, Deliver, Reconcile, Resync, TransportFails, CrashClient,
           BeginBootstrap, BootstrapPage
  <2>2. ASSUME NEW h \in Handler
        PROVE  /\ \A op \in Op : Lookup(h, op) \/ Read(h, op) => journal' = journal
               /\ \A n \in 0..PageLimit : ReadPage(h, n) => journal' = journal
               /\ Stop(h) => journal' = journal
    BY ZenonT(30) DEF Lookup, Read, ReadPage, Stop
  <2>3. /\ CreateSnapshot => journal' = journal
        /\ \A k \in 1..Len(journal) : Compact(k) => journal' = journal
        /\ UNCHANGED vars => journal' = journal
    BY DEF CreateSnapshot, Compact, vars
  <2> QED BY <2>1, <2>2, <2>3 DEF Next
<1> QED BY <1>1, <1>2

\* Appending an event does not shorten the journal or change its positions.
LEMMA JournalGrows ==
  ASSUME Types, Created, [Next]_vars
  PROVE  /\ Len(journal) \in Nat /\ Len(journal') \in Nat
         /\ Len(journal) <= Len(journal')
         /\ \A i \in 1..Len(journal) : journal'[i] = journal[i]
<1>1. journal \in Seq(Event)
  BY DEF Types
<1>2. journal' = journal \/ \E x \in Event : journal' = Append(journal, x)
  BY JournalStep
<1> QED BY <1>1, <1>2

\* Versions in a prefix of the journal stay what they are.
LEMMA VersionAtStep ==
  ASSUME Types, Created, [Next]_vars, NEW e, NEW v, NEW n \in Nat, n <= Len(journal),
         VersionAt(journal, e, n, v)
  PROVE  VersionAt(journal', e, n, v)
<1>1. \A i \in 1..n : journal'[i] = journal[i]
  BY JournalGrows
<1> QED BY <1>1, VersionAtPrefix

\* Every entity keeps having a version: the committed event brings the next.
LEMMA VersionsExistStep ==
  ASSUME Types, Created, VersionsExist, [Next]_vars
  PROVE  VersionsExist'
<1>1. Len(journal) \in Nat /\ Len(journal') \in Nat /\ journal \in Seq(Event)
  BY JournalGrows DEF Types
<1>2. CASE journal' = journal
  BY <1>2 DEF VersionsExist
<1>3. CASE journal' # journal
  <2>1. PICK h \in Handler, op \in Op :
          /\ Version(info[op].entity) = handler[h].expected
          /\ info[op].entity \in Entity
          /\ \E x \in Event : /\ x = [op |-> op, entity |-> info[op].entity,
                                      version |-> handler[h].expected + 1]
                             /\ journal' = Append(journal, x)
    BY <1>3, JournalStep
  <2>2. PICK x \in Event : /\ x.entity = info[op].entity
                           /\ x.version = handler[h].expected + 1
                           /\ journal' = Append(journal, x)
    BY <2>1
  <2>3. Len(journal') = Len(journal) + 1 /\ journal'[Len(journal')] = x
    BY <1>1, <2>2
  <2>4. ASSUME NEW e \in Entity
        PROVE  \E v \in 0..Len(journal') : VersionAt(journal', e, Len(journal'), v)
    <3>1. PICK v \in 0..Len(journal) : VersionAt(journal, e, Len(journal), v)
      BY DEF VersionsExist
    <3>2. CASE x.entity = e
      <4>1. handler[h].expected \in 0..Len(journal)
        BY <2>1, VersionIs
      <4>2. x.version \in 0..Len(journal')
        BY <1>1, <2>2, <2>3, <4>1
      <4>3. VersionAt(journal', e, Len(journal'), x.version)
        BY <1>1, <2>3, <3>2 DEF VersionAt
      <4> QED BY <4>2, <4>3
    <3>3. CASE x.entity # e
      <4>1. VersionAt(journal', e, Len(journal), v)
        BY <1>1, <3>1, VersionAtStep
      <4>2. VersionAt(journal', e, Len(journal'), v)
        BY <1>1, <2>3, <3>3, <4>1, VersionAtExtend
      <4> QED BY <1>1, <2>3, <4>2
    <3> QED BY <3>2, <3>3
  <2> QED BY <2>4 DEF VersionsExist
<1> QED BY <1>2, <1>3

\* The record that reading the change page leaves.
LEMMA PageFields ==
  ASSUME Types, NEW h \in Handler, NEW n \in 0..PageLimit, ReadPage(h, n)
  PROVE  LET low == IF handler[h].start < floor THEN floor ELSE handler[h].start
         IN  /\ handler[h] \in Work /\ handler[h].stage = "page"
             /\ low \in Nat /\ n \in Nat /\ low + n <= Len(journal)
             /\ \E w \in Work :
                  /\ handler' = [handler EXCEPT ![h] = w]
                  /\ w.client = handler[h].client /\ w.start = handler[h].start
                  /\ w.ops = handler[h].ops /\ w.todo = handler[h].todo
                  /\ w.live = handler[h].live /\ w.verdict = handler[h].verdict
                  /\ w.stage = "reply" /\ w.page = (low + 1)..(low + n)
                  /\ w.to = IF n = 0 THEN handler[h].start ELSE low + n
<1> DEFINE w == handler[h]
           low == IF w.start < floor THEN floor ELSE w.start
           to == IF n = 0 THEN w.start ELSE low + n
           new == [w EXCEPT !.stage = "reply", !.page = (low + 1)..(low + n), !.to = to]
<1>1. w \in Work /\ w.stage = "page"
  BY DEF ReadPage, Working, Types
<1>2. /\ low \in Nat /\ to \in Nat /\ n \in Nat /\ Len(journal) \in Nat
      /\ (low + 1)..(low + n) \in SUBSET Nat /\ "reply" \in Stages
  <2>1. w.start \in Nat /\ floor \in Nat /\ Len(journal) \in Nat /\ "reply" \in Stages
    BY <1>1 DEF Work, Types, Stages
  <2>2. n \in Nat
    BY ExchangeConstants
  <2> HIDE DEF w
  <2> QED BY <2>1, <2>2
<1>3. handler' = [handler EXCEPT ![h] = new]
  BY DEF ReadPage
<1>4. low + n <= Len(journal)
  <2>1. n <= Len(journal) - low
    BY DEF ReadPage
  <2> HIDE DEF low
  <2> QED BY <1>2, <2>1
<1>5. new \in Work
  <2> HIDE DEF w, low, to
  <2> QED BY ZenonT(30), <1>1, <1>2 DEF Work
<1>6. /\ new.client = w.client /\ new.start = w.start /\ new.ops = w.ops
      /\ new.todo = w.todo /\ new.live = w.live /\ new.verdict = w.verdict
      /\ new.stage = "reply" /\ new.page = (low + 1)..(low + n) /\ new.to = to
  <2> HIDE DEF low, to
  <2> QED BY <1>1 DEF Work
<1> HIDE DEF new
<1> QED BY ZenonT(30), <1>1, <1>2, <1>3, <1>4, <1>5, <1>6

\* The record of a request that has just arrived.
LEMMA DeliverFields ==
  ASSUME Types, NEW c \in Client, NEW h \in Handler, Deliver(c, h)
  PROVE  /\ request[c] \in RequestRecord /\ phase[c] = "exchange" /\ ~request[c].sent
         /\ request' = [request EXCEPT ![c] = [request[c] EXCEPT !.sent = TRUE]]
         /\ \E w \in Work :
              /\ handler' = [handler EXCEPT ![h] = w]
              /\ w.client = c /\ w.start = request[c].start /\ w.to = request[c].start
              /\ w.ops = request[c].ops /\ w.todo = request[c].ops /\ w.live
              /\ w.verdict = [op \in Op |-> "none"] /\ w.page = {}
              /\ w.stage = IF request[c].start < floor THEN "resync"
                           ELSE IF request[c].ops = {} THEN "page" ELSE "lookup"
<1> DEFINE r == request[c]
           st == IF r.start < floor THEN "resync" ELSE IF r.ops = {} THEN "page" ELSE "lookup"
           new == [client |-> c, start |-> r.start, ops |-> r.ops, todo |-> r.ops,
                   stage |-> st, expected |-> 0, verdict |-> [op \in Op |-> "none"],
                   page |-> {}, to |-> r.start, live |-> TRUE]
<1>1. r \in RequestRecord /\ phase[c] = "exchange" /\ ~r.sent
  BY DEF Deliver, Types
<1>2. new \in Work
  BY <1>1 DEF Work, RequestRecord, Stages, VerdictMap
<1>3. /\ handler' = [handler EXCEPT ![h] = new]
      /\ request' = [request EXCEPT ![c] = [request[c] EXCEPT !.sent = TRUE]]
  BY DEF Deliver
<1>4. /\ new.client = c /\ new.start = r.start /\ new.to = r.start
      /\ new.ops = r.ops /\ new.todo = r.ops /\ new.live /\ new.stage = st
      /\ new.verdict = [op \in Op |-> "none"] /\ new.page = {}
  BY ZenonT(30)
<1> HIDE DEF new
<1> QED BY ZenonT(30), <1>1, <1>2, <1>3, <1>4

\* Abandoning a client's handlers changes nothing but their `live' field.
LEMMA AbandonedFields ==
  ASSUME Types, NEW c \in Client, NEW h \in Handler
  PROVE  LET a == Abandoned(c)[h]  w == handler[h]
         IN  /\ w = None => a = None
             /\ w # None /\ w.client # c => a = w
             /\ w # None /\ w.client = c =>
                  /\ a \in Work /\ ~a.live
                  /\ a.client = w.client /\ a.start = w.start /\ a.ops = w.ops
                  /\ a.todo = w.todo /\ a.stage = w.stage /\ a.expected = w.expected
                  /\ a.verdict = w.verdict /\ a.page = w.page /\ a.to = w.to
<1>1. ASSUME NEW w \in Work
      PROVE  LET a == [w EXCEPT !.live = FALSE]
             IN  /\ a \in Work /\ ~a.live
                 /\ a.client = w.client /\ a.start = w.start /\ a.ops = w.ops
                 /\ a.todo = w.todo /\ a.stage = w.stage /\ a.expected = w.expected
                 /\ a.verdict = w.verdict /\ a.page = w.page /\ a.to = w.to
  BY ZenonT(30) DEF Work
<1>2. handler[h] # None => handler[h] \in Work
  BY DEF Types
<1>3. CASE handler[h] # None /\ handler[h].client = c
  <2>1. Abandoned(c)[h] = [handler[h] EXCEPT !.live = FALSE]
    BY <1>3 DEF Abandoned
  <2> QED BY <1>1, <1>2, <1>3, <2>1
<1>4. CASE ~(handler[h] # None /\ handler[h].client = c)
  <2>1. Abandoned(c)[h] = handler[h]
    BY <1>4 DEF Abandoned
  <2> QED BY <1>2, <1>4, <2>1
<1> QED BY ZenonT(30), <1>3, <1>4

\* An operation that was created stays created.
LEMMA StatesStay ==
  ASSUME Types, Created, [Next]_vars, NEW op \in Op, state[op] # "none"
  PROVE  state'[op] # "none"
<1> USE DEF queue
<1>1. ASSUME NEW c \in Client
      PROVE  /\ \A o \in Op, e \in Entity, p \in Policy :
                  LocalMutation(c, o, e, p) => state'[op] # "none"
             /\ \A due \in SUBSET Retries(c), ops \in SUBSET Own(c) :
                  Send(c, due, ops) => state'[op] # "none"
             /\ \A h \in Handler : Deliver(c, h) \/ Resync(c, h) => state'[op] # "none"
             /\ TransportFails(c) \/ CrashClient(c) => state'[op] # "none"
             /\ BeginBootstrap(c) \/ BootstrapPage(c) => state'[op] # "none"
  BY DEF LocalMutation, Send, Deliver, Resync, TransportFails, CrashClient,
         BeginBootstrap, BootstrapPage, Moved, Types
<1>2. ASSUME NEW c \in Client, NEW h \in Handler, Reconcile(c, h)
      PROVE  state'[op] # "none"
  BY <1>2 DEF Reconcile
<1>3. ASSUME NEW h \in Handler
      PROVE  /\ \A o \in Op : Lookup(h, o) \/ Read(h, o) \/ Commit(h, o) => state' = state
             /\ \A n \in 0..PageLimit : ReadPage(h, n) => state' = state
             /\ Stop(h) => state' = state
  BY ZenonT(30) DEF Lookup, Read, Commit, ReadPage, Stop
<1>4. /\ CreateSnapshot => state' = state
      /\ \A k \in 1..Len(journal) : Compact(k) => state' = state
      /\ UNCHANGED vars => state' = state
  BY DEF CreateSnapshot, Compact, vars
<1> QED BY <1>1, <1>2, <1>3, <1>4 DEF Next

\* A request and a handler record as Created wants them, in outbox st.
CreatedRequest(r, st) == \A op \in r.ops : st[op] # "none"
CreatedWork(w, st) ==
  /\ w.todo \subseteq w.ops
  /\ \A op \in w.ops : st[op] # "none"
  /\ \A op \in Op : w.verdict[op] # "none" => op \in w.ops

\* Only created operations are sent and worked on, whatever step is taken.
LEMMA CreatedStep ==
  ASSUME Types, Created, VersionsExist, [Next]_vars
  PROVE  Created'
<1>0. /\ \A c \in Client : phase[c] = "exchange" => CreatedRequest(request[c], state')
      /\ \A h \in Handler : handler[h] # None => CreatedWork(handler[h], state')
  <2>1. \A c \in Client : phase[c] = "exchange" => request[c].ops \subseteq Op
    BY DEF Types, RequestRecord
  <2>2. \A h \in Handler : handler[h] # None => handler[h].ops \subseteq Op
    BY DEF Types, Work
  <2> QED BY <2>1, <2>2, StatesStay DEF Created, CreatedRequest, CreatedWork
<1> SUFFICES
      /\ \A c \in Client : phase'[c] = "exchange" => CreatedRequest(request'[c], state')
      /\ \A h \in Handler : handler'[h] # None => CreatedWork(handler'[h], state')
  BY DEF Created, CreatedRequest, CreatedWork
<1> DEFINE Goal ==
      /\ \A c \in Client : phase'[c] = "exchange" => CreatedRequest(request'[c], state')
      /\ \A h \in Handler : handler'[h] # None => CreatedWork(handler'[h], state')
<1> USE DEF engine
<1>1. ASSUME NEW c \in Client, NEW op \in Op, NEW e \in Entity, NEW p \in Policy,
             LocalMutation(c, op, e, p)
      PROVE  Goal
  BY ZenonT(30), <1>0, <1>1 DEF LocalMutation
<1>2. ASSUME NEW c \in Client, NEW due \in SUBSET Retries(c), NEW ops \in SUBSET Own(c),
             Send(c, due, ops)
      PROVE  Goal
  <2> DEFINE new == [start |-> Start(c), ops |-> ops, sent |-> FALSE]
  <2>1. /\ request' = [request EXCEPT ![c] = new] /\ phase' = [phase EXCEPT ![c] = "exchange"]
        /\ handler' = handler
    BY <1>2 DEF Send
  <2>2. CreatedRequest(new, state')
    BY StatesStay DEF CreatedRequest, Own
  <2> HIDE DEF new
  <2> QED BY <1>0, <2>1, <2>2 DEF Types
<1>3. ASSUME NEW c \in Client, NEW h \in Handler, Deliver(c, h)
      PROVE  Goal
  <2>1. PICK w \in Work :
          /\ handler' = [handler EXCEPT ![h] = w]
          /\ w.ops = request[c].ops /\ w.todo = request[c].ops
          /\ w.verdict = [op \in Op |-> "none"]
    BY <1>3, DeliverFields
  <2>2. request[c] \in RequestRecord /\ phase[c] = "exchange" /\ phase' = phase
        /\ request' = [request EXCEPT ![c] = [request[c] EXCEPT !.sent = TRUE]]
    BY ZenonT(30), <1>3, DeliverFields DEF Deliver
  <2>3. CreatedWork(w, state')
    BY <1>0, <2>1, <2>2 DEF CreatedRequest, CreatedWork
  <2>4. \A d \in Client : request'[d].ops = request[d].ops
    BY ZenonT(30), <2>2 DEF RequestRecord, Types
  <2> QED BY <1>0, <2>1, <2>2, <2>3, <2>4 DEF CreatedRequest, Types
<1>4. ASSUME NEW h \in Handler, NEW op \in Op, Lookup(h, op) \/ Read(h, op) \/ Commit(h, op)
      PROVE  Goal
  <2>1. HandlerStep(h, op) /\ phase' = phase /\ request' = request
    BY ZenonT(30), <1>4, OperationSteps DEF Lookup, Read, Commit
  <2>2. handler[h] \in Work /\ op \in handler[h].todo /\ handler[h] # None
    BY <1>4, <2>1 DEF HandlerStep, Lookup, Read, Commit, Processing, Working
  <2>3. PICK w \in Work :
          /\ handler' = [handler EXCEPT ![h] = w]
          /\ w.ops = handler[h].ops /\ w.todo \subseteq handler[h].todo
          /\ \A o \in Op : w.verdict[o] # handler[h].verdict[o] => o = op
    BY ZenonT(30), <2>1 DEF HandlerStep
  <2>4. CreatedWork(w, state')
    BY <1>0, <2>2, <2>3 DEF CreatedWork
  <2> QED BY <1>0, <2>1, <2>3, <2>4 DEF Types
<1>5. ASSUME NEW h \in Handler, NEW n \in 0..PageLimit, ReadPage(h, n)
      PROVE  Goal
  <2>1. PICK w \in Work :
          /\ handler' = [handler EXCEPT ![h] = w]
          /\ w.ops = handler[h].ops /\ w.todo = handler[h].todo
          /\ w.verdict = handler[h].verdict
    BY <1>5, PageFields
  <2>2. CreatedWork(w, state') /\ phase' = phase /\ request' = request
    BY <1>0, <1>5, <2>1 DEF CreatedWork, ReadPage, Working
  <2> QED BY <1>0, <2>1, <2>2 DEF Types
<1>6. ASSUME NEW c \in Client, NEW h \in Handler, Reconcile(c, h) \/ Resync(c, h)
      PROVE  Goal
  <2>1. /\ handler' = [handler EXCEPT ![h] = None]
        /\ request' = [request EXCEPT ![c] = None]
        /\ phase' = [phase EXCEPT ![c] = "idle"] \/ phase' = [phase EXCEPT ![c] = "bootstrap"]
    BY ZenonT(30), <1>6 DEF Reconcile, Resync, Idle
  <2> QED BY ZenonT(30), <1>0, <2>1 DEF Types
<1>7. ASSUME NEW c \in Client, TransportFails(c) \/ CrashClient(c)
      PROVE  Goal
  <2>1. /\ handler' = Abandoned(c)
        /\ request' = [request EXCEPT ![c] = None]
        /\ phase' = [phase EXCEPT ![c] = "idle"]
    BY ZenonT(30), <1>7 DEF TransportFails, CrashClient, Idle
  <2>2. ASSUME NEW h \in Handler, handler'[h] # None PROVE CreatedWork(handler'[h], state')
    BY ZenonT(30), <1>0, <2>1, <2>2, AbandonedFields DEF CreatedWork
  <2> QED BY ZenonT(30), <1>0, <2>1, <2>2 DEF Types
<1>8. ASSUME NEW h \in Handler, Stop(h)
      PROVE  Goal
  BY <1>0, <1>8 DEF Stop, Types
<1>9. ASSUME NEW c \in Client, BeginBootstrap(c) \/ BootstrapPage(c)
      PROVE  Goal
  <2>1. handler' = handler /\ request' = request
        /\ \A d \in Client : phase'[d] = "exchange" => phase[d] = "exchange"
    BY <1>9 DEF BeginBootstrap, BootstrapPage, Stage, Types
  <2> QED BY ZenonT(30), <1>0, <2>1
<1>10. ASSUME CreateSnapshot \/ (\E k \in 1..Len(journal) : Compact(k)) \/ UNCHANGED vars
       PROVE  Goal
  BY ZenonT(30), <1>0, <1>10 DEF CreateSnapshot, Compact, vars
<1> QED
  BY ZenonT(30), <1>1, <1>2, <1>3, <1>4, <1>5, <1>6, <1>7, <1>8, <1>9, <1>10 DEF Next
-----------------------------------------------------------------------------
(* The journal: one effect per operation, consecutive versions *)

\* A new event carries an operation the journal does not have, and the version
\* after the one its entity has.
LEMMA JournalPropertiesStep ==
  ASSUME Types, Created, VersionsExist, OperationOnce, VersionsConsecutive, [Next]_vars
  PROVE  OperationOnce' /\ VersionsConsecutive' /\ Committed \subseteq Committed'
<1>1. journal \in Seq(Event)
  BY DEF Types
<1>2. CASE journal' = journal
  BY ZenonT(30), <1>2 DEF OperationOnce, VersionsConsecutive, Positions, Committed
<1>3. CASE journal' # journal
  <2>1. PICK h \in Handler, op \in Op :
          /\ op \notin Committed
          /\ Version(info[op].entity) = handler[h].expected
          /\ info[op].entity \in Entity
          /\ \E x \in Event : /\ x = [op |-> op, entity |-> info[op].entity,
                                      version |-> handler[h].expected + 1]
                             /\ journal' = Append(journal, x)
    BY <1>3, JournalStep
  <2>2. PICK x \in Event : /\ x.op = op /\ x.entity = info[op].entity
                           /\ x.version = handler[h].expected + 1
                           /\ journal' = Append(journal, x)
    BY <2>1
  <2>3. /\ Len(journal) \in Nat /\ Len(journal') = Len(journal) + 1
        /\ journal'[Len(journal')] = x
        /\ \A i \in 1..Len(journal) : journal'[i] = journal[i]
    BY <1>1, <2>2
  <2>4. OperationOnce'
    <3>1. \A i \in 1..Len(journal) : journal[i].op # op
      BY <1>1, <2>1 DEF Committed
    <3>2. \A i \in 1..Len(journal') : i \in 1..Len(journal) \/ i = Len(journal')
      BY <2>3
    <3> QED BY <2>2, <2>3, <3>1, <3>2 DEF OperationOnce, Positions
  <2>5. ASSUME NEW i \in 1..Len(journal')
        PROVE  VersionAt(journal', journal'[i].entity, i - 1, journal'[i].version - 1)
    <3>1. CASE i \in 1..Len(journal)
      <4>1. VersionAt(journal, journal[i].entity, i - 1, journal[i].version - 1)
        BY <3>1 DEF VersionsConsecutive, Positions
      <4>2. i - 1 \in Nat /\ i - 1 <= Len(journal)
        BY <2>3, <3>1
      <4> QED BY <2>3, <3>1, <4>1, <4>2, VersionAtStep
    <3>2. CASE i = Len(journal')
      <4>1. /\ handler[h].expected \in 0..Len(journal)
            /\ VersionAt(journal, x.entity, Len(journal), handler[h].expected)
        BY <2>1, <2>2, VersionIs
      <4>2. VersionAt(journal', x.entity, Len(journal), handler[h].expected)
        BY <2>3, <4>1, VersionAtStep
      <4>3. i - 1 = Len(journal) /\ x.version - 1 = handler[h].expected
        BY <2>2, <2>3, <3>2, <4>1
      <4>4. journal'[i] = x
        BY ZenonT(30), <2>3, <3>2
      <4> QED BY ZenonT(30), <4>2, <4>3, <4>4
    <3> QED BY <2>3, <3>1, <3>2
  <2>6. Committed \subseteq Committed'
    <3>1. DOMAIN journal = 1..Len(journal) /\ DOMAIN journal' = 1..Len(journal')
      BY <1>1, <2>2
    <3> QED BY <2>3, <3>1 DEF Committed
  <2> QED BY <2>4, <2>5, <2>6 DEF VersionsConsecutive, Positions
<1> QED BY <1>2, <1>3

\* An acknowledgement is computed from the ledger or from the commit, and the
\* outbox takes it from nowhere else.
LEMMA AcknowledgementsStep ==
  ASSUME Types, Created, VersionsExist, VerdictsTrue, AcknowledgedCommitted,
         Committed \subseteq Committed', [Next]_vars
  PROVE  VerdictsTrue' /\ AcknowledgedCommitted'
<1> DEFINE True(w) == \A op \in Op : w.verdict[op] = "acknowledged" => op \in Committed'
           Goal == /\ \A h \in Handler : handler'[h] # None => True(handler'[h])
                   /\ \A op \in Op : state'[op] = "acknowledged" => op \in Committed'
<1> SUFFICES Goal
  BY ZenonT(30) DEF VerdictsTrue, AcknowledgedCommitted
<1>0. /\ \A h \in Handler : handler[h] # None => True(handler[h])
      /\ \A op \in Op : state[op] = "acknowledged" => op \in Committed'
  BY DEF VerdictsTrue, AcknowledgedCommitted
<1>1. ASSUME NEW c \in Client
      PROVE  /\ \A op \in Op, e \in Entity, p \in Policy : LocalMutation(c, op, e, p) => Goal
             /\ \A due \in SUBSET Retries(c), ops \in SUBSET Own(c) : Send(c, due, ops) => Goal
             /\ BeginBootstrap(c) \/ BootstrapPage(c) => Goal
  <2> HIDE DEF True
  <2> QED BY ZenonT(30), <1>0 DEF LocalMutation, Send, BeginBootstrap, BootstrapPage, Moved, queue, Types
<1>2. ASSUME NEW c \in Client, NEW h \in Handler, Deliver(c, h)
      PROVE  Goal
  <2>1. PICK w \in Work : /\ handler' = [handler EXCEPT ![h] = w]
                          /\ w.verdict = [op \in Op |-> "none"]
    BY <1>2, DeliverFields
  <2>2. True(w) /\ state' = state
    BY <1>2, <2>1 DEF Deliver, queue
  <2> HIDE DEF True
  <2> QED BY ZenonT(30), <1>0, <2>1, <2>2 DEF Types
<1>3. ASSUME NEW h \in Handler, NEW op \in Op, Lookup(h, op) \/ Read(h, op) \/ Commit(h, op)
      PROVE  Goal
  <2>1. HandlerStep(h, op) /\ handler[h] # None /\ state' = state
    BY ZenonT(30), <1>3, OperationSteps DEF Lookup, Read, Commit, Processing, Working, queue
  <2>2. PICK w \in Work :
          /\ handler' = [handler EXCEPT ![h] = w]
          /\ \A o \in Op : w.verdict[o] # handler[h].verdict[o] => o = op
          /\ w.verdict[op] = "acknowledged" =>
               handler[h].verdict[op] = "acknowledged" \/ op \in Committed'
    BY ZenonT(30), <2>1 DEF HandlerStep
  <2>3. True(w)
    BY ZenonT(30), <1>0, <2>1, <2>2
  <2> HIDE DEF True
  <2> QED BY ZenonT(30), <1>0, <2>1, <2>2, <2>3 DEF Types
<1>4. ASSUME NEW h \in Handler, NEW n \in 0..PageLimit, ReadPage(h, n)
      PROVE  Goal
  <2>1. PICK w \in Work : /\ handler' = [handler EXCEPT ![h] = w]
                          /\ w.verdict = handler[h].verdict
    BY <1>4, PageFields
  <2>2. True(w) /\ state' = state
    BY ZenonT(30), <1>0, <1>4, <2>1 DEF ReadPage, Working, queue
  <2> HIDE DEF True
  <2> QED BY <1>0, <2>1, <2>2 DEF Types
<1>5. ASSUME NEW c \in Client, NEW h \in Handler, Reconcile(c, h) \/ Resync(c, h)
      PROVE  Goal
  <2>1. handler' = [handler EXCEPT ![h] = None] /\ handler[h] # None
    BY <1>5 DEF Reconcile, Resync, Answers, Working
  <2>2. \A op \in Op : state'[op] = "acknowledged" =>
          state[op] = "acknowledged" \/ handler[h].verdict[op] = "acknowledged"
    BY ZenonT(30), <1>5 DEF Reconcile, Resync, Moved
  <2> QED BY ZenonT(30), <1>0, <2>1, <2>2 DEF Types
<1>6. ASSUME NEW c \in Client, TransportFails(c) \/ CrashClient(c)
      PROVE  Goal
  <2>1. handler' = Abandoned(c)
    BY <1>6 DEF TransportFails, CrashClient
  <2>2. \A op \in Op : state'[op] = "acknowledged" => state[op] = "acknowledged"
    BY ZenonT(30), <1>6 DEF TransportFails, CrashClient, Moved, queue
  <2>3. ASSUME NEW h \in Handler, handler'[h] # None PROVE True(handler'[h])
    BY <1>0, <2>1, <2>3, AbandonedFields
  <2> QED BY <1>0, <2>2, <2>3
<1>7. ASSUME NEW h \in Handler, Stop(h)
      PROVE  Goal
  <2> HIDE DEF True
  <2> QED BY ZenonT(30), <1>0, <1>7 DEF Stop, queue, Types
<1>8. ASSUME CreateSnapshot \/ (\E k \in 1..Len(journal) : Compact(k)) \/ UNCHANGED vars
      PROVE  Goal
  <2> HIDE DEF True
  <2> QED BY ZenonT(30), <1>0, <1>8 DEF CreateSnapshot, Compact, vars, queue
<1> HIDE DEF Goal
<1> QED BY ZenonT(30), <1>1, <1>2, <1>3, <1>4, <1>5, <1>6, <1>7, <1>8 DEF Next
=============================================================================
