---------------------------- MODULE ServiceProofs ----------------------------
(***************************************************************************)
(* selection.changed reaches every viewport in the order of the revisions,   *)
(* for any number of viewports and any capacity of their connections.  The    *)
(* argument: the selection lock is held from a change until its last           *)
(* delivery, so what is still due is the current revision, and whatever a       *)
(* connection has taken before is older.                                        *)
(***************************************************************************)
EXTENDS Service, TLAPS

-----------------------------------------------------------------------------
(* Types. *)

Selections == [session : Nat, revision : Nat, by : Clients \cup {None}]

Messages ==
  [type : {"snapshot", "got"}, selection : Selections, catalog : Nat]
    \cup [type : {"updated", "changed"}, selection : Selections]
    \cup [type : {"conflict", "workbench"}]

Types ==
  /\ selection \in Selections
  /\ published \subseteq Selections
  /\ catalog \in Nat
  /\ handler \in [Clients -> HandlerStates]
  /\ answer \in [Clients -> Messages \cup {None}]
  /\ clients \subseteq Clients
  /\ due \in [Clients -> SUBSET Clients]
  /\ conn \in [Clients -> ConnStates]
  /\ toClient \in [Clients -> Seq(Messages)]

\* A handler that updates holds the lock.
Locked(c) == handler[c] \in {"updating", "broadcasting"}
LockInv == \A c \in Clients : Locked(c) => lock = c

\* A handler that is about to answer has an answer of the right kind.
AnswerInv ==
  \A c \in Clients :
    /\ handler[c] = "answering" => answer[c] \in Messages /\ answer[c].type = "got"
    /\ Locked(c) => answer[c] \in Messages /\ answer[c].type \in {"updated", "conflict"}

\* What a handler still has to deliver is the current selection.
DueInv ==
  \A c \in Clients :
    /\ Locked(c) /\ Accepted(c) => answer[c].selection = selection
    /\ due[c] # {} => handler[c] = "broadcasting" /\ Accepted(c)

\* A broadcast is still to be put into d's connection.
Pending(d) ==
  \E c \in Clients : \/ handler[c] = "updating" /\ Accepted(c)
                     \/ d \in due[c]

Changes(d) == {i \in DOMAIN toClient[d] : toClient[d][i].type = "changed"}

\* What was put into an open connection is not newer than the selection, and older
\* while a broadcast of the selection is still to come.
OlderInv ==
  \A d \in Clients : Open(d) =>
    \A i \in Changes(d) :
      /\ toClient[d][i].selection.revision <= selection.revision
      /\ Pending(d) => toClient[d][i].selection.revision < selection.revision

Inv == Types /\ LockInv /\ AnswerInv /\ DueInv /\ OlderInv /\ BroadcastsInOrder

-----------------------------------------------------------------------------
(* Messages and the steps of a connection. *)

LEMMA MessageTypes ==
  /\ \A m \in Messages : m.type \in {"updated", "changed"} => m.selection \in Selections
  /\ \A s \in Selections : s.revision \in Nat /\ s.session \in Nat
  /\ \A s \in Selections :
       /\ [type |-> "changed", selection |-> s] \in Messages
       /\ [type |-> "updated", selection |-> s] \in Messages
  /\ [type |-> "conflict"] \in Messages /\ [type |-> "workbench"] \in Messages
BY DEF Messages, Selections

LEMMA SuccessorTyped ==
  ASSUME NEW s \in Selections, NEW c \in Clients
  PROVE  LET next == [s EXCEPT !.revision = @ + 1, !.by = c]
         IN  /\ next \in Selections
             /\ next.session = s.session /\ next.revision = s.revision + 1 /\ next.by = c
<1> DEFINE a == [s EXCEPT !.revision = s.revision + 1]
           b == [a EXCEPT !.by = c]
<1>1. a \in Selections /\ a.session = s.session /\ a.revision = s.revision + 1
  BY DEF Selections
<1> HIDE DEF a
<1>2. b \in Selections /\ b.session = s.session /\ b.revision = s.revision + 1 /\ b.by = c
  BY <1>1 DEF Selections
<1>3. [s EXCEPT !.revision = @ + 1, !.by = c] = b
  BY DEF a
<1> QED BY <1>2, <1>3

LEMMA SnapshotTyped ==
  ASSUME Types, NEW t \in {"snapshot", "got"}
  PROVE  Snapshot(t) \in Messages /\ Snapshot(t).type = t
BY DEF Types, Snapshot, Messages

\* The changes in d's connection were there before, in the same order.
Inherited(d) ==
  \E k \in {0, 1} : \A i \in DOMAIN toClient'[d] :
    toClient'[d][i].type = "changed" =>
      i + k \in DOMAIN toClient[d] /\ toClient'[d][i] = toClient[d][i + k]

LEMMA SameInherited ==
  ASSUME Types, NEW d \in Clients, toClient'[d] = toClient[d]
  PROVE  Inherited(d)
<1>1. toClient[d] \in Seq(Messages)
  BY DEF Types
<1>2. \A i \in DOMAIN toClient[d] : i + 0 = i
  BY <1>1
<1> QED BY <1>2 DEF Inherited

LEMMA EmptyInherited ==
  ASSUME Types, NEW d \in Clients, toClient'[d] = <<>>
  PROVE  Inherited(d)
BY DEF Inherited

LEMMA TailInherited ==
  ASSUME Types, NEW d \in Clients, toClient[d] # <<>>, toClient'[d] = Tail(toClient[d])
  PROVE  Inherited(d)
<1> DEFINE q == toClient[d]
<1>1. q \in Seq(Messages) /\ q # <<>>
  BY DEF Types
<1>2. \A i \in DOMAIN Tail(q) : i + 1 \in DOMAIN q /\ Tail(q)[i] = q[i + 1]
  BY <1>1
<1> QED BY <1>2 DEF Inherited

LEMMA AppendInherited ==
  ASSUME Types, NEW d \in Clients, NEW m \in Messages, m.type # "changed",
         toClient'[d] = Append(toClient[d], m)
  PROVE  Inherited(d)
<1> DEFINE q == toClient[d]
<1>1. q \in Seq(Messages)
  BY DEF Types
<1>2. \A i \in DOMAIN Append(q, m) :
        Append(q, m)[i].type = "changed" => i + 0 \in DOMAIN q /\ Append(q, m)[i] = q[i + 0]
  BY <1>1
<1> QED BY <1>2 DEF Inherited

LEMMA InheritedOrder ==
  ASSUME Types, Types', BroadcastsInOrder, \A d \in Clients : Inherited(d)
  PROVE  BroadcastsInOrder'
<1> SUFFICES ASSUME NEW d \in Clients, NEW i \in DOMAIN toClient'[d], NEW j \in DOMAIN toClient'[d],
                    i < j, toClient'[d][i].type = "changed", toClient'[d][j].type = "changed"
             PROVE  toClient'[d][i].selection.revision < toClient'[d][j].selection.revision
  BY DEF BroadcastsInOrder
<1>1. PICK k \in {0, 1} : \A n \in DOMAIN toClient'[d] :
        toClient'[d][n].type = "changed" =>
          n + k \in DOMAIN toClient[d] /\ toClient'[d][n] = toClient[d][n + k]
  BY DEF Inherited
<1>2. i \in Nat /\ j \in Nat /\ i + k < j + k
  BY DEF Types
<1> QED BY <1>1, <1>2 DEF BroadcastsInOrder

\* A step that neither changes the selection nor delivers a change.
Calm ==
  /\ selection' = selection
  /\ \A d \in Clients : Inherited(d)
  /\ \A d \in Clients : Open(d)' => Open(d) \/ toClient'[d] = <<>>
  /\ \A d \in Clients : Pending(d)' => Pending(d)

LEMMA CalmKeeps ==
  ASSUME Types, Types', OlderInv, BroadcastsInOrder, Calm
  PROVE  OlderInv' /\ BroadcastsInOrder'
<1>1. BroadcastsInOrder'
  BY InheritedOrder DEF Calm
<1>2. OlderInv'
  <2> SUFFICES ASSUME NEW d \in Clients, Open(d)', NEW i \in Changes(d)'
               PROVE  /\ toClient'[d][i].selection.revision <= selection'.revision
                      /\ Pending(d)' => toClient'[d][i].selection.revision < selection'.revision
    BY DEF OlderInv
  <2>1. i \in DOMAIN toClient'[d] /\ toClient'[d][i].type = "changed"
    BY DEF Changes
  <2>2. Open(d)
    BY <2>1 DEF Calm
  <2>3. PICK k \in {0, 1} :
          i + k \in DOMAIN toClient[d] /\ toClient'[d][i] = toClient[d][i + k]
    BY <2>1 DEF Calm, Inherited
  <2>4. i + k \in Changes(d)
    BY <2>1, <2>3 DEF Changes
  <2> QED BY <2>2, <2>3, <2>4 DEF OlderInv, Calm
<1> QED BY <1>1, <1>2

-----------------------------------------------------------------------------
(* The viewports' side: it takes messages out and opens and closes connections. *)

Inbound(d) ==
  /\ conn' \in [Clients -> ConnStates] /\ toClient' \in [Clients -> Seq(Messages)]
  /\ Inherited(d)
  /\ Open(d)' => Open(d) \/ toClient'[d] = <<>>

LEMMA ViewportActs ==
  ASSUME Types, NEW c \in Clients, Act(c), NEW d \in Clients
  PROVE  Inbound(d)
<1>1. CASE Join(c)
  <2>1. /\ conn' = [conn EXCEPT ![c] = "open"]
        /\ toClient' = [toClient EXCEPT ![c] = <<>>]
    BY <1>1 DEF Join, Connect, Set
  <2>2. conn' \in [Clients -> ConnStates] /\ toClient' \in [Clients -> Seq(Messages)]
    BY <2>1 DEF Types, ConnStates
  <2>3. toClient'[d] = IF d = c THEN <<>> ELSE toClient[d]
    BY <2>1 DEF Types
  <2>4. Inherited(d)
    BY <2>3, SameInherited, EmptyInherited
  <2> QED BY <2>1, <2>2, <2>3, <2>4 DEF Inbound, Open, Types
<1>2. CASE Disconnect(c)
  <2>1. /\ conn' = [conn EXCEPT ![c] = "closed"]
        /\ toClient' = [toClient EXCEPT ![c] = <<>>]
    BY <1>2 DEF Disconnect, Set
  <2>2. conn' \in [Clients -> ConnStates] /\ toClient' \in [Clients -> Seq(Messages)]
    BY <2>1 DEF Types, ConnStates
  <2>3. toClient'[d] = IF d = c THEN <<>> ELSE toClient[d]
    BY <2>1 DEF Types
  <2>4. Inherited(d)
    BY <2>3, SameInherited, EmptyInherited
  <2> QED BY <2>1, <2>2, <2>3, <2>4 DEF Inbound, Open, Types
<1>3. CASE Intend(c) \/ SendUpdate(c) \/ Heartbeat(c)
  <2>1. UNCHANGED <<conn, toClient>>
    BY <1>3 DEF Intend, SendUpdate, Heartbeat, channels
  <2> QED BY <2>1, SameInherited DEF Inbound, Open, Types
<1> QED BY <1>1, <1>2, <1>3 DEF Act

LEMMA ViewportReacts ==
  ASSUME Types, NEW c \in Clients, React(c), NEW d \in Clients
  PROVE  Inbound(d)
<1>1. /\ toClient[c] # <<>> /\ toClient' = [toClient EXCEPT ![c] = Tail(@)]
      /\ conn' = conn
  BY DEF React, ReceiveSnapshot, ReceiveAnswer, ReceiveChanged, ReceiveInvalidation,
         ReceiveUpdated, ReceiveConflict, Receive
<1>2. toClient[c] \in Seq(Messages) /\ Tail(toClient[c]) \in Seq(Messages)
  BY <1>1 DEF Types
<1>3. toClient' \in [Clients -> Seq(Messages)]
  BY <1>1, <1>2 DEF Types
<1>4. toClient'[d] = IF d = c THEN Tail(toClient[d]) ELSE toClient[d]
  BY <1>1 DEF Types
<1>5. Inherited(d)
  BY <1>1, <1>4, SameInherited, TailInherited
<1> QED BY <1>1, <1>3, <1>5 DEF Inbound, Open, Types

LEMMA ViewportsKeep ==
  ASSUME Inv, NEW c \in Clients, Act(c) \/ React(c), UNCHANGED serverVars
  PROVE  Inv'
<1>1. \A d \in Clients : Inbound(d)
  BY ViewportActs, ViewportReacts DEF Inv
<1>2. UNCHANGED <<selection, published, catalog, handler, answer, clients, lock, due>>
  BY DEF serverVars, broadcasts
<1>3. Types'
  BY <1>1, <1>2 DEF Inv, Types, Inbound
<1>4. LockInv' /\ AnswerInv' /\ DueInv'
  BY <1>2 DEF Inv, LockInv, AnswerInv, DueInv, Locked, Accepted
<1>5. Calm
  BY <1>1, <1>2 DEF Calm, Inbound, Pending, Accepted
<1> QED BY <1>3, <1>4, <1>5, CalmKeeps DEF Inv

-----------------------------------------------------------------------------
(* The service's side. *)

\* What one connection takes is appended; the others stay as they are.
LEMMA PostInherited ==
  ASSUME Types, NEW c \in Clients, NEW m \in Messages, m.type # "changed",
         toClient' = toClient \/ Post(c, m)
  PROVE  toClient' \in [Clients -> Seq(Messages)] /\ \A d \in Clients : Inherited(d)
<1>1. toClient[c] \in Seq(Messages) /\ Append(toClient[c], m) \in Seq(Messages)
  BY DEF Types
<1>2. CASE toClient' = toClient
  BY <1>2, SameInherited DEF Types
<1>3. CASE Post(c, m)
  <2>1. toClient' \in [Clients -> Seq(Messages)]
    BY <1>1, <1>3 DEF Post, Types
  <2>2. \A d \in Clients :
          toClient'[d] = IF d = c THEN Append(toClient[d], m) ELSE toClient[d]
    BY <1>3 DEF Post, Types
  <2> QED BY <2>1, <2>2, SameInherited, AppendInherited
<1> QED BY <1>2, <1>3

LEMMA CloseTyped ==
  ASSUME Types, NEW d \in Clients, Close(d)
  PROVE  conn' \in [Clients -> ConnStates] /\ \A e \in Clients : Open(e)' => Open(e)
BY DEF Types, Close, ConnStates, Open

LEMMA AcceptKeeps ==
  ASSUME Inv, NEW c \in Clients, Accept(c)
  PROVE  Inv'
<1> DEFINE m == Snapshot("snapshot")
<1>1. m \in Messages /\ m.type = "snapshot"
  BY SnapshotTyped DEF Inv
<1>2. /\ handler[c] = "none" /\ handler' = [handler EXCEPT ![c] = "idle"]
      /\ clients' = clients \cup {c} /\ Post(c, m)
      /\ UNCHANGED <<selection, published, catalog, answer, lock, due, conn>>
  BY DEF Accept, Become, broadcasts
<1>3. toClient' \in [Clients -> Seq(Messages)] /\ \A d \in Clients : Inherited(d)
  <2> HIDE DEF m
  <2> QED BY <1>1, <1>2, PostInherited DEF Inv
<1>4. Types'
  BY <1>2, <1>3 DEF Inv, Types, HandlerStates
<1>5. LockInv' /\ AnswerInv' /\ DueInv'
  BY <1>2 DEF Inv, Types, LockInv, AnswerInv, DueInv, Locked, Accepted
<1>6. Calm
  BY <1>2, <1>3 DEF Calm, Inv, Types, Pending, Accepted, Open
<1> QED BY <1>4, <1>5, <1>6, CalmKeeps DEF Inv

\* session.get is taken and computed: nothing goes out.
LEMMA ReadKeeps ==
  ASSUME Inv, NEW c \in Clients, BeginRead(c) \/ Read(c)
  PROVE  Inv'
<1>1. /\ UNCHANGED <<selection, published, catalog, clients, lock, due, conn, toClient>>
      /\ \/ /\ handler[c] = "idle" /\ handler' = [handler EXCEPT ![c] = "reading"]
            /\ answer' = answer
         \/ /\ handler[c] = "reading" /\ handler' = [handler EXCEPT ![c] = "answering"]
            /\ answer' = [answer EXCEPT ![c] = Snapshot("got")]
  BY DEF BeginRead, Read, Take, Become, broadcasts, channels
<1>2. Snapshot("got") \in Messages /\ Snapshot("got").type = "got"
  BY SnapshotTyped DEF Inv
<1>3. Types'
  BY <1>1, <1>2 DEF Inv, Types, HandlerStates
<1>4. LockInv' /\ AnswerInv'
  BY <1>1, <1>2 DEF Inv, Types, LockInv, AnswerInv, Locked
<1>5. \A h \in Clients : handler[h] \notin {"idle", "reading"} =>
        handler'[h] = handler[h] /\ answer'[h] = answer[h]
  BY <1>1 DEF Inv, Types
<1>6. \A h \in Clients : Locked(h)' => Locked(h) /\ handler'[h] = handler[h] /\ answer'[h] = answer[h]
  BY <1>1 DEF Inv, Types, Locked
<1>7. DueInv'
  BY <1>1, <1>5, <1>6 DEF Inv, DueInv, Accepted, Locked
<1>8. Calm
  BY <1>1, <1>6, SameInherited DEF Calm, Inv, Pending, Accepted, Open, Locked
<1> QED BY <1>3, <1>4, <1>7, <1>8, CalmKeeps DEF Inv

LEMMA AnswerKeeps ==
  ASSUME Inv, NEW c \in Clients, Answer(c)
  PROVE  Inv'
<1>1. /\ handler[c] = "answering" /\ Respond(c)
      /\ clients' \in {clients, clients \ {c}}
      /\ handler' = [handler EXCEPT ![c] = "idle"] /\ answer' = [answer EXCEPT ![c] = None]
      /\ UNCHANGED <<selection, published, catalog, lock, due, conn>>
  BY DEF Answer, Become, broadcasts
<1>2. answer[c] \in Messages /\ answer[c].type = "got"
  BY <1>1 DEF Inv, AnswerInv
<1>3. toClient' = toClient \/ Post(c, answer[c])
  BY <1>1 DEF Respond
<1>4. toClient' \in [Clients -> Seq(Messages)] /\ \A d \in Clients : Inherited(d)
  BY <1>2, <1>3, PostInherited DEF Inv
<1>5. Types'
  BY <1>1, <1>4 DEF Inv, Types, HandlerStates
<1>6. \A h \in Clients : Locked(h)' => Locked(h) /\ handler'[h] = handler[h] /\ answer'[h] = answer[h]
  BY <1>1 DEF Inv, Types, Locked
<1>7. \A h \in Clients : h # c => handler'[h] = handler[h] /\ answer'[h] = answer[h]
  BY <1>1 DEF Inv, Types
<1>8. LockInv' /\ AnswerInv' /\ DueInv'
  BY <1>1, <1>6, <1>7 DEF Inv, Types, LockInv, AnswerInv, DueInv, Accepted, Locked
<1>9. Calm
  BY <1>1, <1>4, <1>6 DEF Calm, Inv, Pending, Accepted, Open, Locked
<1> QED BY <1>5, <1>8, <1>9, CalmKeeps DEF Inv

\* The lock is free, so no other handler has a change to deliver.
LEMMA NobodyPending ==
  ASSUME Inv, lock = None
  PROVE  \A h \in Clients : ~Locked(h) /\ due[h] = {}
BY ChannelAssumption DEF Inv, LockInv, DueInv, Locked

LEMMA UpdateKeeps ==
  ASSUME Inv, NEW c \in Clients, Update(c)
  PROVE  Inv'
<1>1. /\ lock = None /\ lock' = c
      /\ handler[c] = "idle" /\ handler' = [handler EXCEPT ![c] = "updating"]
      /\ UNCHANGED <<catalog, clients, due, conn, toClient>>
  BY DEF Update, LockFree, Take, Become
<1>2. \A h \in Clients : ~Locked(h) /\ due[h] = {}
  BY <1>1, NobodyPending
<1>3. \A d \in Clients : Inherited(d)
  BY <1>1, SameInherited DEF Inv
<1>4. CASE /\ selection' = [selection EXCEPT !.revision = @ + 1, !.by = c]
           /\ published' = published \cup {selection'}
           /\ answer' = [answer EXCEPT ![c] = [type |-> "updated", selection |-> selection']]
  <2>1. selection' \in Selections /\ selection'.revision = selection.revision + 1
    BY <1>4, SuccessorTyped DEF Inv, Types
  <2> DEFINE m == [type |-> "updated", selection |-> selection']
  <2>2. m \in Messages /\ m.type = "updated" /\ m.selection = selection'
    BY <2>1, MessageTypes
  <2>3. answer' = [answer EXCEPT ![c] = m]
    BY <1>4
  <2> HIDE DEF m
  <2>4. Types'
    BY <1>1, <1>4, <2>1, <2>2, <2>3 DEF Inv, Types, HandlerStates
  <2>5. LockInv' /\ AnswerInv' /\ DueInv'
    BY <1>1, <1>2, <2>2, <2>3 DEF Inv, Types, LockInv, AnswerInv, DueInv, Accepted, Locked
  <2>6. OlderInv'
    <3>1. ASSUME NEW d \in Clients, Open(d), NEW i \in Changes(d)
          PROVE  toClient[d][i].selection.revision < selection'.revision
      <4>1. toClient[d][i].selection.revision <= selection.revision
        BY <3>1 DEF Inv, OlderInv
      <4>2. toClient[d][i] \in Messages /\ toClient[d][i].type = "changed"
        BY <3>1 DEF Changes, Inv, Types
      <4>3. toClient[d][i].selection.revision \in Nat /\ selection.revision \in Nat
        BY <4>2, MessageTypes DEF Inv, Types
      <4> QED BY <2>1, <4>1, <4>3
    <3>2. ASSUME NEW d \in Clients, NEW i \in Changes(d)
          PROVE  toClient[d][i].selection.revision \in Nat
      <4>1. toClient[d][i] \in Messages /\ toClient[d][i].type = "changed"
        BY DEF Changes, Inv, Types
      <4> QED BY <4>1, MessageTypes
    <3>3. selection'.revision \in Nat
      BY <2>1, MessageTypes
    <3>4. \A d \in Clients : (Open(d)' <=> Open(d)) /\ Changes(d)' = Changes(d)
      BY <1>1 DEF Open, Changes
    <3> QED BY <1>1, <3>1, <3>2, <3>3, <3>4 DEF OlderInv
  <2>7. BroadcastsInOrder'
    BY <1>3, <2>4, InheritedOrder DEF Inv
  <2> QED BY <2>4, <2>5, <2>6, <2>7 DEF Inv
<1>5. CASE /\ answer' = [answer EXCEPT ![c] = [type |-> "conflict"]]
           /\ UNCHANGED <<selection, published>>
  <2> DEFINE m == [type |-> "conflict"]
  <2>1. m \in Messages /\ m.type = "conflict"
    BY MessageTypes
  <2>2. answer' = [answer EXCEPT ![c] = m]
    BY <1>5
  <2> HIDE DEF m
  <2>3. Types'
    BY <1>1, <1>5, <2>1, <2>2 DEF Inv, Types, HandlerStates
  <2>4. LockInv' /\ AnswerInv' /\ DueInv'
    BY <1>1, <1>2, <2>1, <2>2, <1>5 DEF Inv, Types, LockInv, AnswerInv, DueInv, Accepted, Locked
  <2>5. \A d \in Clients : ~Pending(d)'
    BY <1>1, <1>2, <2>1, <2>2 DEF Pending, Accepted, Locked, Inv, Types
  <2>6. Calm
    BY <1>1, <1>3, <1>5, <2>5 DEF Calm, Open
  <2> QED BY <2>3, <2>4, <2>6, CalmKeeps DEF Inv
<1> QED BY <1>4, <1>5 DEF Update

LEMMA AnswerUpdateKeeps ==
  ASSUME Inv, NEW c \in Clients, AnswerUpdate(c)
  PROVE  Inv'
<1>1. /\ handler[c] = "updating" /\ Respond(c)
      /\ clients' \in {clients, clients \ {c}}
      /\ due' = [due EXCEPT ![c] = IF Accepted(c) THEN clients' ELSE {}]
      /\ handler' = [handler EXCEPT ![c] = "broadcasting"]
      /\ UNCHANGED <<selection, published, catalog, answer, lock, conn>>
  BY DEF AnswerUpdate, Become
<1>2. answer[c] \in Messages /\ answer[c].type # "changed"
  BY <1>1 DEF Inv, AnswerInv, Locked
<1>3. toClient' = toClient \/ Post(c, answer[c])
  BY <1>1 DEF Respond
<1>4. toClient' \in [Clients -> Seq(Messages)] /\ \A d \in Clients : Inherited(d)
  BY <1>2, <1>3, PostInherited DEF Inv
<1>5. clients' \subseteq Clients
  BY <1>1 DEF Inv, Types
<1>6. Types'
  BY <1>1, <1>4, <1>5 DEF Inv, Types, HandlerStates
<1>7. \A h \in Clients : /\ handler'[h] = IF h = c THEN "broadcasting" ELSE handler[h]
                         /\ due'[h] = IF h # c THEN due[h] ELSE IF Accepted(c) THEN clients' ELSE {}
  BY <1>1 DEF Inv, Types
<1>8. LockInv' /\ AnswerInv' /\ DueInv'
  BY <1>1, <1>7 DEF Inv, LockInv, AnswerInv, DueInv, Accepted, Locked
<1>9. \A d \in Clients : Pending(d)' => Pending(d)
  BY <1>1, <1>7 DEF Pending, Accepted
<1>10. Calm
  BY <1>1, <1>4, <1>9 DEF Calm, Open
<1> QED BY <1>6, <1>8, <1>10, CalmKeeps DEF Inv

\* Only the handler that holds the lock has something to deliver.
LEMMA OneBroadcast ==
  ASSUME Inv, NEW c \in Clients, handler[c] = "broadcasting", NEW h \in Clients, h # c
  PROVE  ~Locked(h) /\ due[h] = {}
BY DEF Inv, LockInv, DueInv, Locked

LEMMA DeliverKeeps ==
  ASSUME Inv, NEW c \in Clients, NEW e \in Clients, Deliver(c, e)
  PROVE  Inv'
<1>1. /\ handler[c] = "broadcasting" /\ e \in due[c]
      /\ due' = [due EXCEPT ![c] = @ \ {e}]
      /\ clients' \in {clients, clients \ {e}}
      /\ UNCHANGED <<selection, published, catalog, handler, answer, lock, conn>>
  BY DEF Deliver
<1>2. answer[c] \in Messages /\ answer[c].selection = selection /\ Accepted(c)
  BY <1>1 DEF Inv, AnswerInv, DueInv, Locked
<1>3. Changed(c) \in Messages /\ Changed(c).type = "changed" /\ Changed(c).selection = selection
  BY <1>2, MessageTypes DEF Changed, Inv, Types
<1>4. \A h \in Clients : due'[h] = IF h = c THEN due[h] \ {e} ELSE due[h]
  BY <1>1 DEF Inv, Types
<1>5. LockInv' /\ AnswerInv' /\ DueInv'
  BY <1>1, <1>4 DEF Inv, LockInv, AnswerInv, DueInv, Accepted, Locked
<1>6. \A d \in Clients : Pending(d)' => Pending(d)
  BY <1>1, <1>4 DEF Pending, Accepted
<1>7. ASSUME toClient' \in [Clients -> Seq(Messages)]
      PROVE  Types'
  BY <1>1, <1>4, <1>7 DEF Inv, Types
<1>8. CASE toClient' = toClient
  <2>1. Types'
    BY <1>7, <1>8 DEF Inv, Types
  <2>2. Calm
    BY <1>1, <1>6, <1>8, SameInherited DEF Calm, Inv, Open
  <2> QED BY <1>5, <2>1, <2>2, CalmKeeps DEF Inv
<1>9. CASE Open(e) /\ Post(e, Changed(c))
  <2> DEFINE m == Changed(c)
             q == toClient[e]
  <2>1. m \in Messages /\ m.type = "changed" /\ m.selection = selection
    BY <1>3
  <2>2. toClient' = [toClient EXCEPT ![e] = Append(q, m)]
    BY <1>9 DEF Post
  <2>3. q \in Seq(Messages) /\ toClient \in [Clients -> Seq(Messages)]
    BY DEF Inv, Types
  <2> HIDE DEF m
  <2>4. Append(q, m) \in Seq(Messages)
    BY <2>1, <2>3
  <2>5. Types'
    BY <1>7, <2>2, <2>3, <2>4
  <2>6. \A d \in Clients : toClient'[d] = IF d = e THEN Append(q, m) ELSE toClient[d]
    BY <2>2, <2>3
  <2>7. /\ Len(q) \in Nat
        /\ DOMAIN q = 1..Len(q) /\ DOMAIN Append(q, m) = 1..(Len(q) + 1)
        /\ \A i \in 1..Len(q) : Append(q, m)[i] = q[i]
        /\ Append(q, m)[Len(q) + 1] = m
    BY <2>1, <2>3
  <2> DEFINE n == Len(q)
             a == Append(q, m)
  <2> HIDE DEF n, a
  <2>8. n \in Nat /\ DOMAIN a = 1..(n + 1) /\ a[n + 1] = m /\ \A i \in 1..n : a[i] = q[i]
    BY <2>7 DEF n, a
  <2>9. toClient'[e] = a /\ DOMAIN toClient[e] = 1..n /\ \A i \in 1..n : a[i] = toClient[e][i]
    BY <2>6, <2>7 DEF n, a
  <2>10. \A i \in DOMAIN a : i = n + 1 \/ i \in 1..n
    BY <2>8
  <2>11. \A i \in Changes(e) : toClient[e][i].selection.revision < selection.revision
    BY <1>1, <1>9 DEF Inv, OlderInv, Pending
  <2>12. ~Pending(e)'
    <3> SUFFICES ASSUME NEW h \in Clients, (handler[h] = "updating" /\ Accepted(h)) \/ e \in due'[h]
                 PROVE  FALSE
      BY <1>1 DEF Pending, Accepted
    <3>1. CASE h = c
      BY <1>1, <1>4, <3>1
    <3>2. CASE h # c
      BY <1>1, <1>4, <3>2, OneBroadcast DEF Locked
    <3> QED BY <3>1, <3>2
  <2>13. selection.revision \in Nat
    BY MessageTypes DEF Inv, Types
  <2>14. OlderInv'
    <3> SUFFICES ASSUME NEW d \in Clients, Open(d)', NEW i \in Changes(d)'
                 PROVE  /\ toClient'[d][i].selection.revision <= selection.revision
                        /\ Pending(d)' => toClient'[d][i].selection.revision < selection.revision
      BY <1>1 DEF OlderInv
    <3>1. Open(d) /\ i \in DOMAIN toClient'[d] /\ toClient'[d][i].type = "changed"
      BY <1>1 DEF Open, Changes
    <3>2. CASE d # e
      <4>1. i \in Changes(d) /\ toClient'[d] = toClient[d]
        BY <2>6, <3>1, <3>2 DEF Changes
      <4> QED BY <1>6, <3>1, <4>1 DEF Inv, OlderInv
    <3>3. CASE d = e /\ i = n + 1
      BY <2>1, <2>12, <2>13, <2>8, <2>9, <3>3
    <3>4. CASE d = e /\ i \in 1..n
      <4>1. i \in Changes(e) /\ toClient'[d][i] = toClient[e][i]
        BY <2>9, <3>1, <3>4 DEF Changes
      <4> QED BY <1>9, <2>12, <3>4, <4>1 DEF Inv, OlderInv
    <3> QED BY <2>9, <2>10, <3>1, <3>2, <3>3, <3>4
  <2>15. BroadcastsInOrder'
    <3> SUFFICES ASSUME NEW d \in Clients, NEW i \in DOMAIN toClient'[d], NEW j \in DOMAIN toClient'[d],
                        i < j, toClient'[d][i].type = "changed", toClient'[d][j].type = "changed"
                 PROVE  toClient'[d][i].selection.revision < toClient'[d][j].selection.revision
      BY DEF BroadcastsInOrder
    <3>1. CASE d # e
      BY <2>6, <3>1 DEF Inv, BroadcastsInOrder
    <3>2. CASE d = e
      <4>1. i \in 1..n /\ i \in Nat /\ j \in Nat /\ i < j
        BY <2>8, <2>9, <2>10, <3>2
      <4>2. i \in Changes(e) /\ toClient'[d][i] = toClient[e][i]
        BY <2>9, <3>2, <4>1 DEF Changes
      <4>3. CASE j = n + 1
        BY <2>1, <2>11, <2>8, <2>9, <3>2, <4>2, <4>3
      <4>4. CASE j \in 1..n
        <5>1. j \in Changes(e) /\ toClient'[d][j] = toClient[e][j]
          BY <2>9, <3>2, <4>4 DEF Changes
        <5> QED BY <4>1, <4>2, <5>1 DEF Inv, BroadcastsInOrder, Changes
      <4> QED BY <2>9, <2>10, <3>2, <4>3, <4>4
    <3> QED BY <3>1, <3>2
  <2> QED BY <1>5, <2>5, <2>14, <2>15 DEF Inv
<1> QED BY <1>8, <1>9 DEF Deliver

\* The delivery times out: the connection is closed instead.
LEMMA ExpireDeliveryKeeps ==
  ASSUME Inv, NEW c \in Clients, NEW e \in Clients, ExpireDelivery(c, e)
  PROVE  Inv'
<1>1. /\ due' = [due EXCEPT ![c] = @ \ {e}] /\ clients' = clients \ {e} /\ Close(e)
      /\ UNCHANGED <<selection, published, catalog, handler, answer, lock, toClient>>
  BY DEF ExpireDelivery
<1>2. conn' \in [Clients -> ConnStates] /\ \A d \in Clients : Open(d)' => Open(d)
  BY <1>1, CloseTyped DEF Inv
<1>3. \A h \in Clients : due'[h] = IF h = c THEN due[h] \ {e} ELSE due[h]
  BY <1>1 DEF Inv, Types
<1>4. Types'
  BY <1>1, <1>2 DEF Inv, Types
<1>5. LockInv' /\ AnswerInv' /\ DueInv'
  BY <1>1, <1>3 DEF Inv, LockInv, AnswerInv, DueInv, Accepted, Locked
<1>6. Calm
  BY <1>1, <1>2, <1>3, SameInherited DEF Calm, Inv, Pending, Accepted
<1> QED BY <1>4, <1>5, <1>6, CalmKeeps DEF Inv

LEMMA EndUpdateKeeps ==
  ASSUME Inv, NEW c \in Clients, EndUpdate(c)
  PROVE  Inv'
<1>1. /\ handler[c] = "broadcasting" /\ due[c] = {}
      /\ handler' = [handler EXCEPT ![c] = "idle"] /\ answer' = [answer EXCEPT ![c] = None]
      /\ lock' = None
      /\ UNCHANGED <<selection, published, catalog, clients, due, conn, toClient>>
  BY DEF EndUpdate, Become, channels
<1>2. Types'
  BY <1>1 DEF Inv, Types, HandlerStates
<1>3. \A h \in Clients : /\ handler'[h] = IF h = c THEN "idle" ELSE handler[h]
                         /\ answer'[h] = IF h = c THEN None ELSE answer[h]
  BY <1>1 DEF Inv, Types
<1>4. \A h \in Clients : ~Locked(h)' /\ due'[h] = {}
  BY <1>1, <1>3, OneBroadcast DEF Locked
<1>5. LockInv' /\ DueInv'
  BY <1>4 DEF LockInv, DueInv
<1>6. AnswerInv'
  BY <1>3, <1>4 DEF Inv, AnswerInv
<1>7. \A d \in Clients : ~Pending(d)'
  BY <1>4 DEF Pending, Locked
<1>8. Calm
  BY <1>1, <1>7, SameInherited DEF Calm, Inv, Open
<1> QED BY <1>2, <1>5, <1>6, <1>8, CalmKeeps DEF Inv

\* The catalog's invalidations share the connections with the broadcasts.
LEMMA NoticesKeep ==
  ASSUME Inv, \/ Commit \/ Announce
              \/ \E e \in Clients : Notify(e) \/ ExpireNotice(e) \/ Lose(e)
  PROVE  Inv'
<1>1. UNCHANGED <<selection, published, handler, answer, lock, due>>
  BY DEF Commit, Announce, Notify, ExpireNotice, Lose, broadcasts, serverVars
<1>2. LockInv' /\ AnswerInv' /\ DueInv'
  BY <1>1 DEF Inv, LockInv, AnswerInv, DueInv, Accepted, Locked
<1>3. \A d \in Clients : Pending(d)' => Pending(d)
  BY <1>1 DEF Pending, Accepted
<1>4. CASE Commit \/ Announce
  <2>1. catalog' \in Nat /\ UNCHANGED <<clients, conn, toClient>>
    BY <1>4 DEF Commit, Announce, channels, Inv, Types
  <2>2. Types'
    BY <1>1, <2>1 DEF Inv, Types
  <2>3. Calm
    BY <1>1, <1>3, <2>1, SameInherited DEF Calm, Inv, Open
  <2> QED BY <1>2, <2>2, <2>3, CalmKeeps DEF Inv
<1>5. ASSUME NEW e \in Clients, Notify(e)
      PROVE  Inv'
  <2> DEFINE m == [type |-> "workbench"]
  <2>1. m \in Messages /\ m.type # "changed"
    BY MessageTypes
  <2>2. /\ toClient' = toClient \/ Post(e, m)
        /\ clients' \in {clients, clients \ {e}} /\ UNCHANGED <<catalog, conn>>
    BY <1>5 DEF Notify
  <2> HIDE DEF m
  <2>3. toClient' \in [Clients -> Seq(Messages)] /\ \A d \in Clients : Inherited(d)
    BY <2>1, <2>2, PostInherited DEF Inv
  <2>4. Types'
    BY <1>1, <2>2, <2>3 DEF Inv, Types
  <2>5. Calm
    BY <1>1, <1>3, <2>2, <2>3 DEF Calm, Open
  <2> QED BY <1>2, <2>4, <2>5, CalmKeeps DEF Inv
<1>6. ASSUME NEW e \in Clients, ExpireNotice(e) \/ Lose(e)
      PROVE  Inv'
  <2>1. /\ Close(e) /\ clients' \in {clients, clients \ {e}}
        /\ UNCHANGED <<catalog, toClient>>
    BY <1>6 DEF ExpireNotice, Lose, serverVars
  <2>2. conn' \in [Clients -> ConnStates] /\ \A d \in Clients : Open(d)' => Open(d)
    BY <2>1, CloseTyped DEF Inv
  <2>3. Types'
    BY <1>1, <2>1, <2>2 DEF Inv, Types
  <2>4. Calm
    BY <1>1, <1>3, <2>1, <2>2, SameInherited DEF Calm, Inv
  <2> QED BY <1>2, <2>3, <2>4, CalmKeeps DEF Inv
<1> QED BY <1>4, <1>5, <1>6

LEMMA EndHandlerKeeps ==
  ASSUME Inv, NEW c \in Clients, EndHandler(c)
  PROVE  Inv'
<1>1. /\ handler[c] = "idle" /\ handler' = [handler EXCEPT ![c] = "none"]
      /\ clients' = clients \ {c} /\ due' = [h \in Clients |-> due[h] \ {c}]
      /\ UNCHANGED <<selection, published, catalog, answer, lock, conn, toClient>>
  BY DEF EndHandler, Become
<1>2. Types'
  BY <1>1 DEF Inv, Types, HandlerStates
<1>3. \A h \in Clients : /\ handler'[h] = IF h = c THEN "none" ELSE handler[h]
                         /\ due'[h] \subseteq due[h]
  BY <1>1 DEF Inv, Types
<1>4. LockInv' /\ AnswerInv' /\ DueInv'
  BY <1>1, <1>3 DEF Inv, LockInv, AnswerInv, DueInv, Accepted, Locked
<1>5. \A d \in Clients : Pending(d)' => Pending(d)
  BY <1>1, <1>3 DEF Pending, Accepted
<1>6. Calm
  BY <1>1, <1>5, SameInherited DEF Calm, Inv, Open
<1> QED BY <1>2, <1>4, <1>6, CalmKeeps DEF Inv

\* Revisions start again, but no connection survives.
LEMMA RestartKeeps ==
  ASSUME Inv, Restart
  PROVE  Inv'
<1>1. PICK s \in published, n \in 0..catalog :
        selection' = [s EXCEPT !.session = @ + 1] /\ catalog' = n
  BY DEF Restart
<1>2. /\ published' = published \cup {selection'}
      /\ handler' = [c \in Clients |-> "none"] /\ answer' = [c \in Clients |-> None]
      /\ clients' = {} /\ due' = [c \in Clients |-> {}]
      /\ conn' = [c \in Clients |-> IF Open(c) THEN "closing" ELSE conn[c]]
      /\ UNCHANGED toClient
  BY DEF Restart
<1>3. selection' \in Selections
  <2>1. s \in Selections
    BY DEF Inv, Types
  <2>2. [s EXCEPT !.session = s.session + 1] \in Selections
    BY <2>1 DEF Selections
  <2> QED BY <1>1, <2>2
<1>4. n \in Nat
  BY DEF Inv, Types
<1>5. Types'
  BY <1>1, <1>2, <1>3, <1>4 DEF Inv, Types, HandlerStates, ConnStates
<1>6. \A c \in Clients : ~Open(c)' /\ handler'[c] = "none" /\ due'[c] = {}
  BY <1>2 DEF Open
<1>7. LockInv' /\ AnswerInv' /\ DueInv' /\ OlderInv'
  BY <1>6 DEF LockInv, AnswerInv, DueInv, OlderInv, Locked
<1>8. BroadcastsInOrder'
  BY <1>2 DEF Inv, BroadcastsInOrder
<1> QED BY <1>5, <1>7, <1>8 DEF Inv

-----------------------------------------------------------------------------
(* The theorem. *)

LEMMA InitInv == Init => Inv
<1> SUFFICES ASSUME Init
             PROVE  Inv
  OBVIOUS
<1>1. /\ selection = [session |-> 1, revision |-> 0, by |-> None] /\ published = {selection}
      /\ catalog = 0 /\ clients = {}
      /\ handler = [c \in Clients |-> "none"] /\ answer = [c \in Clients |-> None]
      /\ due = [c \in Clients |-> {}] /\ conn = [c \in Clients |-> "closed"]
      /\ toClient = [c \in Clients |-> <<>>]
  BY DEF Init, ServerInit
<1>2. Types
  BY <1>1 DEF Types, Selections, HandlerStates, ConnStates
<1>3. LockInv /\ AnswerInv /\ DueInv /\ OlderInv /\ BroadcastsInOrder
  BY <1>1 DEF LockInv, AnswerInv, DueInv, OlderInv, BroadcastsInOrder, Locked, Open
<1> QED BY <1>2, <1>3 DEF Inv

LEMMA NextInv == Inv /\ [Next]_vars => Inv'
<1> SUFFICES ASSUME Inv, [Next]_vars
             PROVE  Inv'
  OBVIOUS
<1>1. CASE Environment \/ Announce
  BY <1>1, NoticesKeep, RestartKeeps DEF Environment
<1>2. ASSUME NEW c \in Clients, Serve(c)
      PROVE  Inv'
  <2>1. CASE Accept(c) \/ EndHandler(c) \/ BeginRead(c) \/ Read(c) \/ Answer(c)
    BY <2>1, AcceptKeeps, EndHandlerKeeps, ReadKeeps, AnswerKeeps
  <2>2. CASE Update(c) \/ AnswerUpdate(c) \/ EndUpdate(c)
    BY <2>2, UpdateKeeps, AnswerUpdateKeeps, EndUpdateKeeps
  <2>3. CASE \E d \in Clients : Deliver(c, d) \/ ExpireDelivery(c, d)
    BY <2>3, DeliverKeeps, ExpireDeliveryKeeps
  <2>4. CASE Notify(c) \/ ExpireNotice(c)
    BY <2>4, NoticesKeep
  <2> QED BY <1>2, <2>1, <2>2, <2>3, <2>4 DEF Serve
<1>3. ASSUME NEW c \in Clients, Act(c) \/ React(c), UNCHANGED serverVars
      PROVE  Inv'
  BY <1>3, ViewportsKeep
<1>4. CASE UNCHANGED vars
  <2>1. UNCHANGED <<selection, published, catalog, handler, answer, clients, lock, due, conn, toClient>>
    BY <1>4 DEF vars, serverVars, broadcasts, channels
  <2>2. Types' /\ LockInv' /\ AnswerInv' /\ DueInv'
    BY <2>1 DEF Inv, Types, LockInv, AnswerInv, DueInv, Accepted, Locked
  <2>3. Calm
    BY <2>1, SameInherited DEF Calm, Inv, Open, Pending, Accepted
  <2> QED BY <2>2, <2>3, CalmKeeps DEF Inv
<1> QED BY <1>1, <1>2, <1>3, <1>4 DEF Next

\* "Preserve broadcast order across concurrent clients." (server.py:98): whatever
\* handlers, viewports, invalidations, time-outs, lost connections and restarts do
\* meanwhile, a connection holds the changes in the order of their revisions.
THEOREM BroadcastsCorrect == Spec => []BroadcastsInOrder
<1>1. Inv => BroadcastsInOrder
  BY DEF Inv
<1> QED BY <1>1, InitInv, NextInv, PTL DEF Spec

-----------------------------------------------------------------------------
(* Sessions: each connection carries the messages of one process, beginning  *)
(* with its snapshot.                                                        *)

Requests == [type : {"get"}] \cup [type : {"update"}, expected : Nat, session : Nat, blind : BOOLEAN]

\* The messages that carry a selection.
Carries(m) == m.type \in {"snapshot", "got", "updated", "changed"}

ViewportTypes ==
  /\ session \in [Clients -> Nat]
  /\ refreshing \in [Clients -> BOOLEAN]
  /\ view \in [Clients -> Selections \cup {None}]
  /\ queued \in [Clients -> Selections \cup {None}]
  /\ toServer \in [Clients -> Seq(Requests)]
  /\ notices \in [Clients -> Nat]

Precedes(s, t) ==
  \/ s.session < t.session
  \/ s.session = t.session /\ s.revision < t.revision

\* The current selection was published last.
History == selection \in published /\ \A s \in published \ {selection} : Precedes(s, selection)

\* What is sent was published, and what is about to be answered is of this session.
Known ==
  /\ \A c \in Clients : \A i \in DOMAIN toClient[c] :
       Carries(toClient[c][i]) => toClient[c][i].selection \in published
  /\ \A c \in Clients : handler[c] = "answering" =>
       answer[c].selection \in published /\ answer[c].selection.session = selection.session

ViewOK(c) ==
  /\ session[c] <= selection.session
  /\ view[c] # None => view[c] \in published /\ view[c].session = session[c]
  /\ queued[c] # None => view[c] # None

ViewInv == \A c \in Clients : ViewOK(c)

Begun(c) == toClient[c] # <<>> /\ Head(toClient[c]).type = "snapshot"

\* All messages of c's connection are of session n, which the viewport knows unless
\* the first message still to be read is the snapshot.
Queue(c, n) ==
  /\ \A i \in DOMAIN toClient[c] : Carries(toClient[c][i]) => toClient[c][i].selection.session = n
  /\ session[c] <= n
  /\ toClient[c] = <<>> \/ Begun(c) \/ session[c] = n

QueueOK(c) ==
  /\ conn[c] = "closing" => \E n \in Nat : n <= selection.session /\ Queue(c, n)
  /\ Open(c) => Queue(c, selection.session)
  /\ Open(c) /\ handler[c] = "none" => toClient[c] = <<>>
  /\ Open(c) /\ handler[c] # "none" => session[c] = selection.session \/ Begun(c)
  /\ Open(c) /\ ~refreshing[c] => session[c] = selection.session

QueueInv == \A c \in Clients : QueueOK(c)

\* Only a connection with a handler is sent anything.
Registered ==
  \A c \in Clients :
    c \in clients \/ notices[c] > 0 \/ (\E h \in Clients : c \in due[h]) => handler[c] # "none"

SessionInv == ViewportTypes /\ History /\ Known /\ ViewInv /\ QueueInv /\ Registered /\ SessionsNotMixed

\* What a step of the service does to d's connection: it sends a message of its
\* session, the first of which is the snapshot, or closes it, or takes a request.
Sent(d, m) ==
  /\ Open(d) /\ conn'[d] = conn[d] /\ toClient'[d] = Append(toClient[d], m)
  /\ m \in Messages
  /\ Carries(m) => m.selection \in published' /\ m.selection.session = selection.session
  /\ handler[d] # "none" \/ m.type = "snapshot"

Untouched(d) ==
  /\ conn'[d] = conn[d] \/ (Open(d) /\ conn'[d] = "closing")
  /\ toClient'[d] = toClient[d]
  /\ conn'[d] = "open" => (handler'[d] = "none" <=> handler[d] = "none")

Taken(d) ==
  \/ toServer'[d] = toServer[d]
  \/ toServer[d] # <<>> /\ toServer'[d] = Tail(toServer[d])
  \/ toServer'[d] = <<>>

Served ==
  /\ UNCHANGED viewportVars
  /\ selection'.session = selection.session /\ published \subseteq published'
  /\ \A d \in Clients : Taken(d)
  /\ \A d \in Clients :
       \/ Untouched(d)
       \/ handler'[d] # "none" /\ \E m \in Messages : Sent(d, m)

LEMMA ServedTypes ==
  ASSUME ViewportTypes, Served, notices' \in [Clients -> Nat],
         toServer' = [d \in Clients |-> toServer'[d]]
  PROVE  ViewportTypes'
<1>1. UNCHANGED <<session, refreshing, view, queued>>
  BY DEF Served, viewportVars, flags
<1>2. ASSUME NEW d \in Clients
      PROVE  toServer'[d] \in Seq(Requests)
  <2>1. toServer[d] \in Seq(Requests)
    BY DEF ViewportTypes
  <2>2. toServer[d] # <<>> => Tail(toServer[d]) \in Seq(Requests)
    BY <2>1
  <2>3. <<>> \in Seq(Requests)
    OBVIOUS
  <2>4. Taken(d)
    BY DEF Served
  <2> QED BY <2>1, <2>2, <2>3, <2>4 DEF Taken
<1>3. toServer' \in [Clients -> Seq(Requests)]
  BY <1>2
<1> QED BY <1>1, <1>3 DEF ViewportTypes

\* A message at the end of a connection's queue.
LEMMA QueueGrows ==
  ASSUME Types, NEW d \in Clients, NEW m \in Messages, toClient'[d] = Append(toClient[d], m)
  PROVE  /\ \A i \in DOMAIN toClient'[d] :
               toClient'[d][i] = m \/ (i \in DOMAIN toClient[d] /\ toClient'[d][i] = toClient[d][i])
         /\ toClient'[d] # <<>>
         /\ Begun(d) => Begun(d)'
         /\ toClient[d] = <<>> => Head(toClient'[d]) = m
<1> DEFINE q == toClient[d]
<1>1. q \in Seq(Messages)
  BY DEF Types
<1>2. /\ \A i \in DOMAIN Append(q, m) :
           Append(q, m)[i] = m \/ (i \in DOMAIN q /\ Append(q, m)[i] = q[i])
      /\ Append(q, m) # <<>>
  BY <1>1
<1>3. q # <<>> => Head(Append(q, m)) = Head(q)
  BY <1>1
<1>4. q = <<>> => Head(Append(q, m)) = m
  BY <1>1
<1> QED BY <1>2, <1>3, <1>4 DEF Begun

LEMMA ServedKeeps ==
  ASSUME Types, Types', SessionInv, Served,
         \A c \in Clients : handler'[c] = "answering" =>
           answer'[c].selection \in published' /\ answer'[c].selection.session = selection.session
  PROVE  Known' /\ ViewInv' /\ QueueInv' /\ SessionsNotMixed'
<1>1. /\ UNCHANGED <<session, refreshing, view, queued>>
      /\ selection'.session = selection.session /\ published \subseteq published'
  BY DEF Served, viewportVars, flags
<1>2. ViewInv'
  BY <1>1 DEF SessionInv, ViewInv, ViewOK
<1>3. ASSUME NEW d \in Clients, NEW i \in DOMAIN toClient'[d], Carries(toClient'[d][i])
      PROVE  toClient'[d][i].selection \in published'
  <2>1. CASE Untouched(d)
    BY <1>1, <1>3, <2>1 DEF SessionInv, Known, Untouched
  <2>2. ASSUME NEW m \in Messages, Sent(d, m)
        PROVE  toClient'[d][i].selection \in published'
    <3>1. toClient'[d][i] = m \/ (i \in DOMAIN toClient[d] /\ toClient'[d][i] = toClient[d][i])
      BY <2>2, QueueGrows DEF Sent
    <3> QED BY <1>1, <1>3, <2>2, <3>1 DEF SessionInv, Known, Sent
  <2> QED BY <2>1, <2>2 DEF Served
<1>4. Known'
  BY <1>1, <1>3 DEF Known
<1>5. ASSUME NEW d \in Clients, NEW n \in Nat, Queue(d, n), Untouched(d)
      PROVE  Queue(d, n)'
  BY <1>1, <1>5 DEF Queue, Untouched, Begun
<1>6. selection.session \in Nat
  BY MessageTypes DEF Types
<1>7. ASSUME NEW d \in Clients, Untouched(d)
      PROVE  /\ conn'[d] = "closing" => \E n \in Nat : n <= selection'.session /\ Queue(d, n)'
             /\ Open(d)' => Queue(d, selection.session)'
             /\ Open(d)' /\ handler'[d] = "none" => toClient'[d] = <<>>
             /\ Open(d)' /\ handler'[d] # "none" => session'[d] = selection.session \/ Begun(d)'
             /\ Open(d)' /\ ~refreshing'[d] => session'[d] = selection.session
  <2>1. Open(d)' => Open(d)
    BY <1>7 DEF Untouched, Open
  <2>2. conn'[d] = "closing" => \E n \in Nat : n <= selection'.session /\ Queue(d, n)'
    <3>1. CASE conn[d] = "closing"
      <4>1. PICK n \in Nat : n <= selection.session /\ Queue(d, n)
        BY <3>1 DEF SessionInv, QueueInv, QueueOK
      <4> QED BY <1>1, <1>5, <1>7, <4>1
    <3>2. CASE Open(d)
      <4>1. Queue(d, selection.session)
        BY <3>2 DEF SessionInv, QueueInv, QueueOK
      <4>2. Queue(d, selection.session)'
        <5>1. Queue(d, selection.session) => toClient'[d] = toClient[d] /\ session'[d] = session[d]
          BY <1>1, <1>7 DEF Untouched
        <5> QED BY <1>1, <4>1, <5>1 DEF Queue, Begun
      <4> QED BY <1>1, <1>6, <4>2 DEF Queue, Begun
    <3> QED BY <1>7, <3>1, <3>2 DEF Untouched
  <2>3. Begun(d) <=> Begun(d)'
    BY <1>7 DEF Begun, Untouched
  <2>4. ASSUME conn'[d] = "open"
        PROVE  /\ Queue(d, selection.session)'
               /\ handler'[d] = "none" => toClient'[d] = <<>>
               /\ handler'[d] # "none" => session'[d] = selection.session \/ Begun(d)'
               /\ ~refreshing'[d] => session'[d] = selection.session
    <3>1. Open(d) /\ toClient'[d] = toClient[d] /\ (handler'[d] = "none" <=> handler[d] = "none")
      BY <1>7, <2>1, <2>4 DEF Untouched, Open
    <3>2. /\ Queue(d, selection.session)
          /\ handler[d] = "none" => toClient[d] = <<>>
          /\ handler[d] # "none" => session[d] = selection.session \/ Begun(d)
          /\ ~refreshing[d] => session[d] = selection.session
      BY <3>1 DEF SessionInv, QueueInv, QueueOK
    <3>3. Queue(d, selection.session)'
      BY <1>1, <2>3, <3>1, <3>2 DEF Queue
    <3> QED BY <1>1, <2>3, <3>1, <3>2, <3>3
  <2> QED BY <2>2, <2>4 DEF Open
<1>8. ASSUME NEW d \in Clients, NEW m \in Messages, Sent(d, m), handler'[d] # "none"
      PROVE  /\ conn'[d] = "open"
             /\ Queue(d, selection.session)'
             /\ session'[d] = selection.session \/ Begun(d)'
             /\ ~refreshing'[d] => session'[d] = selection.session
  <2>1. Open(d) /\ conn'[d] = "open" /\ Queue(d, selection.session)
    BY <1>8 DEF Sent, Open, SessionInv, QueueInv, QueueOK
  <2>2. /\ \A i \in DOMAIN toClient'[d] :
              toClient'[d][i] = m \/ (i \in DOMAIN toClient[d] /\ toClient'[d][i] = toClient[d][i])
        /\ toClient'[d] # <<>>
        /\ Begun(d) => Begun(d)'
        /\ toClient[d] = <<>> => Head(toClient'[d]) = m
    BY <1>8, QueueGrows DEF Sent
  <2>3. \A i \in DOMAIN toClient'[d] :
          Carries(toClient'[d][i]) => toClient'[d][i].selection.session = selection'.session
    BY <1>1, <1>8, <2>1, <2>2 DEF Queue, Sent
  <2>4. session'[d] = selection.session \/ Begun(d)'
    <3>1. CASE handler[d] = "none"
      <4>1. toClient[d] = <<>> /\ m.type = "snapshot"
        BY <1>8, <2>1, <3>1 DEF Sent, SessionInv, QueueInv, QueueOK
      <4> QED BY <2>2, <4>1 DEF Begun
    <3>2. CASE handler[d] # "none"
      BY <1>1, <2>1, <2>2, <3>2 DEF SessionInv, QueueInv, QueueOK
    <3> QED BY <3>1, <3>2
  <2>5. Queue(d, selection.session)'
    BY <1>1, <2>1, <2>3, <2>4 DEF Queue
  <2> QED BY <1>1, <2>1, <2>4, <2>5 DEF SessionInv, QueueInv, QueueOK
<1>9. QueueInv'
  <2> SUFFICES ASSUME NEW d \in Clients
               PROVE  /\ conn'[d] = "closing" => \E n \in Nat : n <= selection'.session /\ Queue(d, n)'
                      /\ Open(d)' => Queue(d, selection.session)'
                      /\ Open(d)' /\ handler'[d] = "none" => toClient'[d] = <<>>
                      /\ Open(d)' /\ handler'[d] # "none" => session'[d] = selection.session \/ Begun(d)'
                      /\ Open(d)' /\ ~refreshing'[d] => session'[d] = selection.session
    BY <1>1 DEF QueueInv, QueueOK, Queue, Begun
  <2>1. CASE Untouched(d)
    BY <1>7, <2>1
  <2>2. CASE handler'[d] # "none" /\ \E m \in Messages : Sent(d, m)
    BY <1>8, <2>2
  <2> QED BY <2>1, <2>2 DEF Served
<1>10. SessionsNotMixed'
  <2> SUFFICES ASSUME NEW d \in Clients, Open(d)', NEW i \in DOMAIN toServer'[d], toServer'[d][i].type = "update"
               PROVE  toServer'[d][i].session = selection'.session
    BY DEF SessionsNotMixed
  <2>1. Open(d)
    BY DEF Served, Untouched, Sent, Open
  <2>2. toServer[d] \in Seq(Requests)
    BY DEF SessionInv, ViewportTypes
  <2>3. CASE toServer'[d] = toServer[d]
    BY <1>1, <2>1, <2>3 DEF SessionInv, SessionsNotMixed
  <2>4. CASE toServer[d] # <<>> /\ toServer'[d] = Tail(toServer[d])
    <3>1. i + 1 \in DOMAIN toServer[d] /\ toServer'[d][i] = toServer[d][i + 1]
      BY <2>2, <2>4
    <3> QED BY <1>1, <2>1, <3>1 DEF SessionInv, SessionsNotMixed
  <2> QED BY <2>3, <2>4 DEF Served, Taken
<1> QED BY <1>2, <1>4, <1>9, <1>10

LEMMA ServedInv ==
  ASSUME Inv, Inv', SessionInv, Served, History', Registered',
         notices' \in [Clients -> Nat], toServer' = [d \in Clients |-> toServer'[d]],
         \A c \in Clients : handler'[c] = "answering" =>
           answer'[c].selection \in published' /\ answer'[c].selection.session = selection.session
  PROVE  SessionInv'
BY ServedTypes, ServedKeeps DEF Inv, SessionInv

\* Most steps neither change the selection nor what handlers are about to answer.
LEMMA SameSelection ==
  ASSUME Inv, SessionInv, UNCHANGED <<selection, published>>
  PROVE  /\ History' /\ selection'.session = selection.session /\ published \subseteq published'
         /\ \A c \in Clients :
              handler'[c] = "answering" /\ handler[c] = "answering" /\ answer'[c] = answer[c] =>
                answer'[c].selection \in published' /\ answer'[c].selection.session = selection.session
BY DEF SessionInv, History, Known, Precedes

LEMMA ViewportVars == UNCHANGED viewportVars => UNCHANGED <<view, session, queued, refreshing>>
BY DEF viewportVars, flags

LEMMA AcceptSession ==
  ASSUME Inv, Inv', SessionInv, NEW c \in Clients, Accept(c), UNCHANGED viewportVars
  PROVE  SessionInv'
<1> DEFINE m == Snapshot("snapshot")
<1>1. m \in Messages /\ m.type = "snapshot"
  BY SnapshotTyped DEF Inv
<1>2. m.selection = selection
  BY DEF Snapshot
<1>3. /\ Open(c) /\ handler[c] = "none" /\ handler' = [handler EXCEPT ![c] = "idle"]
      /\ clients' = clients \cup {c} /\ toClient' = [toClient EXCEPT ![c] = Append(@, m)]
      /\ UNCHANGED <<selection, published, answer, due, notices, conn, toServer>>
  BY DEF Accept, Become, Post, broadcasts, news
<1> HIDE DEF m
<1>4. \A d \in Clients :
        /\ handler'[d] = IF d = c THEN "idle" ELSE handler[d]
        /\ toClient'[d] = IF d = c THEN Append(toClient[d], m) ELSE toClient[d]
  BY <1>3 DEF Inv, Types
<1>5. Sent(c, m) /\ handler'[c] # "none"
  <2>1. selection \in published'
    BY <1>3 DEF SessionInv, History
  <2>2. handler'[c] = "idle" /\ toClient'[c] = Append(toClient[c], m) /\ conn'[c] = conn[c]
    BY <1>3, <1>4
  <2> QED BY <1>1, <1>2, <1>3, <2>1, <2>2 DEF Sent
<1>6. ASSUME NEW d \in Clients, d # c
      PROVE  Untouched(d)
  <2>1. conn'[d] = conn[d] /\ handler'[d] = handler[d] /\ toClient'[d] = toClient[d]
    BY <1>3, <1>4, <1>6
  <2> QED BY <2>1 DEF Untouched
<1>7. Served
  BY <1>1, <1>3, <1>5, <1>6, SameSelection DEF Served, Taken
<1>8. Registered'
  BY <1>3, <1>4 DEF SessionInv, Registered
<1>9. notices' \in [Clients -> Nat] /\ toServer' = [d \in Clients |-> toServer'[d]]
  BY <1>3 DEF SessionInv, ViewportTypes
<1>10. \A h \in Clients : handler'[h] = "answering" => handler[h] = "answering" /\ answer'[h] = answer[h]
  BY <1>3, <1>4
<1> QED BY <1>3, <1>7, <1>8, <1>9, <1>10, SameSelection, ServedInv

LEMMA ReadSession ==
  ASSUME Inv, Inv', SessionInv, NEW c \in Clients, BeginRead(c) \/ Read(c), UNCHANGED viewportVars
  PROVE  SessionInv'
<1>1. /\ UNCHANGED <<selection, published, clients, due, notices, conn, toClient>>
      /\ \/ /\ handler[c] = "idle" /\ handler' = [handler EXCEPT ![c] = "reading"]
            /\ toServer[c] # <<>> /\ toServer' = [toServer EXCEPT ![c] = Tail(@)]
            /\ answer' = answer
         \/ /\ handler[c] = "reading" /\ handler' = [handler EXCEPT ![c] = "answering"]
            /\ answer' = [answer EXCEPT ![c] = Snapshot("got")]
            /\ toServer' = toServer
  BY DEF BeginRead, Read, Take, Become, broadcasts, news, channels
<1>2. Snapshot("got").selection = selection
  BY DEF Snapshot
<1>3. \A d \in Clients : Untouched(d)
  BY <1>1 DEF Untouched, Inv, Types
<1>4. \A d \in Clients : Taken(d)
  BY <1>1 DEF Taken, SessionInv, ViewportTypes
<1>5. Served
  BY <1>1, <1>3, <1>4, SameSelection DEF Served
<1>6. Registered'
  BY <1>1 DEF SessionInv, Registered, Inv, Types
<1>7. notices' \in [Clients -> Nat] /\ toServer' = [d \in Clients |-> toServer'[d]]
  BY <1>1 DEF SessionInv, ViewportTypes
<1>8. \A h \in Clients : handler'[h] = "answering" =>
        answer'[h].selection \in published' /\ answer'[h].selection.session = selection.session
  BY <1>1, <1>2 DEF SessionInv, History, Known, Inv, Types
<1> QED BY <1>1, <1>5, <1>6, <1>7, <1>8, SameSelection, ServedInv

\* A handler answers its client, be it still there or not.
LEMMA AnswerSession ==
  ASSUME Inv, Inv', SessionInv, NEW c \in Clients, Answer(c) \/ AnswerUpdate(c), UNCHANGED viewportVars
  PROVE  SessionInv'
<1>1. /\ handler[c] \in {"answering", "updating"} /\ Respond(c)
      /\ clients' \in {clients, clients \ {c}}
      /\ handler' = [handler EXCEPT ![c] = IF handler[c] = "answering" THEN "idle" ELSE "broadcasting"]
      /\ UNCHANGED <<selection, published, notices, conn, toServer>>
      /\ \A h \in Clients : h # c => answer'[h] = answer[h]
      /\ \A h, d \in Clients : d \in due'[h] => d \in due[h] \/ d \in clients
  <2>1. CASE Answer(c)
    <3>1. handler[c] = "answering" /\ due' = due /\ answer' = [answer EXCEPT ![c] = None]
      BY <2>1 DEF Answer, broadcasts
    <3>2. \A h \in Clients : h # c => answer'[h] = answer[h]
      BY <3>1 DEF Inv, Types
    <3> QED BY <2>1, <3>1, <3>2 DEF Answer, Become, broadcasts, news
  <2>2. CASE AnswerUpdate(c)
    <3>1. /\ handler[c] = "updating" /\ answer' = answer
          /\ due' = [due EXCEPT ![c] = IF Accepted(c) THEN clients' ELSE {}]
          /\ clients' \in {clients, clients \ {c}}
      BY <2>2 DEF AnswerUpdate
    <3>2. \A h, d \in Clients : d \in due'[h] => d \in due[h] \/ d \in clients
      BY <3>1 DEF Inv, Types
    <3> QED BY <2>2, <3>1, <3>2 DEF AnswerUpdate, Become, broadcasts, news
  <2> QED BY <2>1, <2>2
<1> DEFINE m == answer[c]
<1>2. m \in Messages
  BY <1>1 DEF Inv, AnswerInv, Locked
<1>3. Carries(m) => m.selection \in published /\ m.selection.session = selection.session
  <2>1. CASE handler[c] = "answering"
    BY <2>1 DEF SessionInv, Known
  <2>2. CASE handler[c] = "updating"
    BY <2>2 DEF Inv, AnswerInv, DueInv, Locked, Accepted, SessionInv, History, Carries
  <2> QED BY <1>1, <2>1, <2>2
<1>4. \/ toClient' = toClient
      \/ Open(c) /\ toClient' = [toClient EXCEPT ![c] = Append(@, m)]
  BY <1>1 DEF Respond, Post
<1> HIDE DEF m
<1>5. \A d \in Clients : handler'[d] = "none" <=> handler[d] = "none"
  BY <1>1 DEF Inv, Types
<1>6. \A d \in Clients : toClient'[d] = toClient[d] => Untouched(d)
  BY <1>1, <1>5 DEF Untouched
<1>7. \A d \in Clients : toClient'[d] = toClient[d] \/ (d = c /\ Sent(c, m) /\ handler'[c] # "none")
  BY <1>1, <1>2, <1>3, <1>4, <1>5 DEF Sent, Inv, Types
<1>8. Served
  BY <1>1, <1>2, <1>6, <1>7, SameSelection DEF Served, Taken
<1>9. Registered'
  BY <1>1, <1>5 DEF SessionInv, Registered
<1>10. notices' \in [Clients -> Nat] /\ toServer' = [d \in Clients |-> toServer'[d]]
  BY <1>1 DEF SessionInv, ViewportTypes
<1>11. \A h \in Clients : handler'[h] = "answering" => handler[h] = "answering" /\ answer'[h] = answer[h]
  BY <1>1 DEF Inv, Types
<1> QED BY <1>1, <1>8, <1>9, <1>10, <1>11, SameSelection, ServedInv

LEMMA UpdateSession ==
  ASSUME Inv, Inv', SessionInv, NEW c \in Clients, Update(c), UNCHANGED viewportVars
  PROVE  SessionInv'
<1>1. /\ handler[c] = "idle" /\ handler' = [handler EXCEPT ![c] = "updating"]
      /\ toServer[c] # <<>> /\ toServer' = [toServer EXCEPT ![c] = Tail(@)]
      /\ UNCHANGED <<clients, due, notices, conn, toClient>>
  BY DEF Update, Take, Become, news
<1>2. \A h \in Clients : h # c => answer'[h] = answer[h]
  BY DEF Update, Inv, Types
<1>3. /\ selection'.session = selection.session /\ published \subseteq published' /\ History'
  <2>1. CASE UNCHANGED <<selection, published>>
    BY <2>1, SameSelection
  <2>2. CASE /\ selection' = [selection EXCEPT !.revision = @ + 1, !.by = c]
             /\ published' = published \cup {selection'}
    <3>1. selection \in Selections /\ published \subseteq Selections
      BY DEF Inv, Types
    <3>2. selection'.session = selection.session /\ selection'.revision = selection.revision + 1
      BY <2>2, <3>1, SuccessorTyped
    <3>3. selection.session \in Nat /\ selection.revision \in Nat
      BY <3>1, MessageTypes
    <3>4. ASSUME NEW s \in published
          PROVE  Precedes(s, selection')
      <4>1. s.session \in Nat /\ s.revision \in Nat
        BY <3>1, MessageTypes
      <4>2. s = selection \/ Precedes(s, selection)
        BY DEF SessionInv, History
      <4> QED BY <3>2, <3>3, <4>1, <4>2 DEF Precedes
    <3> QED BY <2>2, <3>2, <3>4 DEF History
  <2> QED BY <2>1, <2>2 DEF Update
<1>4. \A d \in Clients : handler'[d] = IF d = c THEN "updating" ELSE handler[d]
  BY <1>1 DEF Inv, Types
<1>5. \A d \in Clients : Untouched(d)
  BY <1>1, <1>4 DEF Untouched
<1>6. \A d \in Clients : Taken(d)
  BY <1>1 DEF Taken, SessionInv, ViewportTypes
<1>7. Served
  BY <1>3, <1>5, <1>6 DEF Served
<1>8. Registered'
  BY <1>1, <1>4 DEF SessionInv, Registered
<1>9. notices' \in [Clients -> Nat] /\ toServer' = [d \in Clients |-> toServer'[d]]
  BY <1>1 DEF SessionInv, ViewportTypes
<1>10. \A h \in Clients : handler'[h] = "answering" =>
         answer'[h].selection \in published' /\ answer'[h].selection.session = selection.session
  BY <1>2, <1>3, <1>4 DEF SessionInv, Known
<1> QED BY <1>3, <1>7, <1>8, <1>9, <1>10, ServedInv

LEMMA EndUpdateSession ==
  ASSUME Inv, Inv', SessionInv, NEW c \in Clients, EndUpdate(c), UNCHANGED viewportVars
  PROVE  SessionInv'
<1>1. /\ handler[c] = "broadcasting" /\ handler' = [handler EXCEPT ![c] = "idle"]
      /\ answer' = [answer EXCEPT ![c] = None]
      /\ UNCHANGED <<selection, published, clients, due, notices, conn, toClient, toServer>>
  BY DEF EndUpdate, Become, news, channels
<1>2. \A d \in Clients : handler'[d] = IF d = c THEN "idle" ELSE handler[d]
  BY <1>1 DEF Inv, Types
<1>3. \A d \in Clients : Untouched(d)
  BY <1>1, <1>2 DEF Untouched
<1>4. Served
  BY <1>1, <1>3, SameSelection DEF Served, Taken
<1>5. Registered'
  BY <1>1, <1>2 DEF SessionInv, Registered
<1>6. notices' \in [Clients -> Nat] /\ toServer' = [d \in Clients |-> toServer'[d]]
  BY <1>1 DEF SessionInv, ViewportTypes
<1>7. \A h \in Clients : handler'[h] = "answering" => handler[h] = "answering" /\ answer'[h] = answer[h]
  BY <1>1, <1>2 DEF Inv, Types
<1> QED BY <1>1, <1>4, <1>5, <1>6, <1>7, SameSelection, ServedInv

\* A step that neither moves a handler nor takes a request: a delivery, a time-out, a
\* lost connection, an invalidation.
LEMMA QuietSession ==
  ASSUME Inv, Inv', SessionInv, UNCHANGED viewportVars,
         UNCHANGED <<selection, published, handler, answer, toServer>>,
         notices' \in [Clients -> Nat], Registered',
         \A d \in Clients :
            \/ (conn'[d] = conn[d] \/ (Open(d) /\ conn'[d] = "closing")) /\ toClient'[d] = toClient[d]
            \/ handler[d] # "none" /\ \E m \in Messages : Sent(d, m)
  PROVE  SessionInv'
<1>1. \A d \in Clients : Untouched(d) \/ (handler'[d] # "none" /\ \E m \in Messages : Sent(d, m))
  BY DEF Untouched
<1>2. Served
  BY <1>1, SameSelection DEF Served, Taken
<1>3. toServer' = [d \in Clients |-> toServer'[d]]
  BY DEF SessionInv, ViewportTypes
<1> QED BY <1>2, <1>3, SameSelection, ServedInv

LEMMA DeliverSession ==
  ASSUME Inv, Inv', SessionInv, NEW c \in Clients, NEW d \in Clients,
         Deliver(c, d) \/ ExpireDelivery(c, d), UNCHANGED viewportVars
  PROVE  SessionInv'
<1>1. /\ d \in due[c] /\ due' = [due EXCEPT ![c] = @ \ {d}] /\ clients' \in {clients, clients \ {d}}
      /\ UNCHANGED <<selection, published, handler, answer, notices, toServer>>
  BY DEF Deliver, ExpireDelivery, news
<1>2. handler[d] # "none"
  BY <1>1 DEF SessionInv, Registered
<1>3. \A h \in Clients : due'[h] \subseteq due[h]
  BY <1>1 DEF Inv, Types
<1>4. Registered'
  BY <1>1, <1>3 DEF SessionInv, Registered
<1>5. notices' \in [Clients -> Nat]
  BY <1>1 DEF SessionInv, ViewportTypes
<1>6. CASE Deliver(c, d)
  <2> DEFINE m == Changed(c)
  <2>1. Locked(c) /\ Accepted(c)
    BY <1>1, <1>6 DEF Deliver, Inv, DueInv, Locked
  <2>2. m.selection = selection /\ m \in Messages /\ m.type = "changed"
    BY <2>1, MessageTypes DEF Inv, Types, DueInv, Changed
  <2>3. \/ toClient' = toClient
        \/ Open(d) /\ toClient' = [toClient EXCEPT ![d] = Append(@, m)]
    BY <1>6 DEF Deliver, Post
  <2>4. conn' = conn
    BY <1>6 DEF Deliver
  <2> HIDE DEF m
  <2>5. toClient'[d] = Append(toClient[d], m) /\ Open(d) => Sent(d, m)
    BY <1>1, <1>2, <2>2, <2>4 DEF Sent, SessionInv, History
  <2>6. \A e \in Clients : toClient'[e] = toClient[e] \/ (e = d /\ Sent(d, m))
    BY <2>3, <2>5 DEF Inv, Types
  <2> QED BY <1>1, <1>2, <1>4, <1>5, <2>2, <2>4, <2>6, QuietSession
<1>7. CASE ExpireDelivery(c, d)
  <2>1. Open(d) /\ conn' = [conn EXCEPT ![d] = "closing"] /\ toClient' = toClient
    BY <1>7 DEF ExpireDelivery, Expire, Close
  <2>2. \A e \in Clients : conn'[e] = conn[e] \/ (Open(e) /\ conn'[e] = "closing")
    BY <2>1 DEF Inv, Types
  <2> QED BY <1>1, <1>4, <1>5, <2>1, <2>2, QuietSession
<1> QED BY <1>6, <1>7

\* Invalidations and lost connections.
LEMMA NoticesSession ==
  ASSUME Inv, Inv', SessionInv, NEW d \in Clients, Notify(d) \/ ExpireNotice(d), UNCHANGED viewportVars
  PROVE  SessionInv'
<1>1. /\ notices[d] > 0 /\ notices' = [notices EXCEPT ![d] = @ - 1]
      /\ clients' \in {clients, clients \ {d}}
      /\ UNCHANGED <<selection, published, handler, answer, due, toServer>>
  BY DEF Notify, ExpireNotice, broadcasts
<1>2. handler[d] # "none"
  BY <1>1 DEF SessionInv, Registered
<1>3. notices' \in [Clients -> Nat]
  BY <1>1 DEF SessionInv, ViewportTypes
<1>4. \A e \in Clients : notices'[e] > 0 => notices[e] > 0
  BY <1>1 DEF SessionInv, ViewportTypes
<1>5. Registered'
  BY <1>1, <1>4 DEF SessionInv, Registered
<1>6. CASE Notify(d)
  <2> DEFINE m == [type |-> "workbench"]
  <2>1. m \in Messages /\ ~Carries(m)
    BY MessageTypes DEF Carries
  <2>2. \/ toClient' = toClient
        \/ Open(d) /\ toClient' = [toClient EXCEPT ![d] = Append(@, m)]
    BY <1>6 DEF Notify, Post
  <2>3. conn' = conn
    BY <1>6 DEF Notify
  <2> HIDE DEF m
  <2>4. toClient'[d] = Append(toClient[d], m) /\ Open(d) => Sent(d, m)
    BY <1>2, <2>1, <2>3 DEF Sent
  <2>5. \A e \in Clients : toClient'[e] = toClient[e] \/ (e = d /\ Sent(d, m))
    BY <2>2, <2>4 DEF Inv, Types
  <2> QED BY <1>1, <1>2, <1>3, <1>5, <2>1, <2>3, <2>5, QuietSession
<1>7. CASE ExpireNotice(d)
  <2>1. Open(d) /\ conn' = [conn EXCEPT ![d] = "closing"] /\ toClient' = toClient
    BY <1>7 DEF ExpireNotice, Expire, Close
  <2>2. \A e \in Clients : conn'[e] = conn[e] \/ (Open(e) /\ conn'[e] = "closing")
    BY <2>1 DEF Inv, Types
  <2> QED BY <1>1, <1>3, <1>5, <2>1, <2>2, QuietSession
<1> QED BY <1>6, <1>7

LEMMA QuietSteps ==
  ASSUME Inv, Inv', SessionInv, Commit \/ Announce \/ \E c \in Clients : Lose(c), UNCHANGED viewportVars
  PROVE  SessionInv'
<1>1. UNCHANGED <<selection, published, handler, answer, clients, due, toServer, toClient>>
  BY DEF Commit, Announce, Lose, serverVars, broadcasts, channels
<1>2. notices' \in [Clients -> Nat]
  <2>1. CASE UNCHANGED notices
    BY <2>1 DEF SessionInv, ViewportTypes
  <2>2. CASE Announce
    BY <2>2 DEF Announce, SessionInv, ViewportTypes
  <2> QED BY <2>1, <2>2 DEF Commit, Lose, serverVars, news
<1>3. \A d \in Clients : notices'[d] > 0 => notices[d] > 0 \/ d \in clients
  BY DEF Commit, Announce, Lose, serverVars, news
<1>4. Registered'
  BY <1>1, <1>3 DEF SessionInv, Registered
<1>5. \A e \in Clients : conn'[e] = conn[e] \/ (Open(e) /\ conn'[e] = "closing")
  BY DEF Commit, Announce, Lose, Close, channels, Inv, Types
<1> QED BY <1>1, <1>2, <1>4, <1>5, QuietSession

LEMMA EndHandlerSession ==
  ASSUME Inv, Inv', SessionInv, NEW c \in Clients, EndHandler(c), UNCHANGED viewportVars
  PROVE  SessionInv'
<1>1. /\ ~Open(c) /\ handler' = [handler EXCEPT ![c] = "none"]
      /\ clients' = clients \ {c} /\ due' = [h \in Clients |-> due[h] \ {c}]
      /\ notices' = [notices EXCEPT ![c] = 0] /\ toServer' = [toServer EXCEPT ![c] = <<>>]
      /\ UNCHANGED <<selection, published, answer, conn, toClient>>
  BY DEF EndHandler, Become
<1>2. \A d \in Clients : handler'[d] = IF d = c THEN "none" ELSE handler[d]
  BY <1>1 DEF Inv, Types
<1>3. \A d \in Clients : Untouched(d)
  BY <1>1, <1>2 DEF Untouched, Open
<1>4. \A d \in Clients : Taken(d)
  BY <1>1 DEF Taken, SessionInv, ViewportTypes
<1>5. Served
  BY <1>1, <1>3, <1>4, SameSelection DEF Served
<1>6. notices' \in [Clients -> Nat] /\ notices'[c] = 0 /\ \A d \in Clients : d # c => notices'[d] = notices[d]
  BY <1>1 DEF SessionInv, ViewportTypes
<1>7. Registered'
  BY <1>1, <1>2, <1>6 DEF SessionInv, Registered
<1>8. toServer' = [d \in Clients |-> toServer'[d]]
  BY <1>1 DEF SessionInv, ViewportTypes
<1>9. \A h \in Clients : handler'[h] = "answering" => handler[h] = "answering" /\ answer'[h] = answer[h]
  BY <1>1, <1>2
<1> QED BY <1>1, <1>5, <1>6, <1>7, <1>8, <1>9, SameSelection, ServedInv

LEMMA NextSessionTyped ==
  ASSUME NEW s \in Selections
  PROVE  LET next == [s EXCEPT !.session = @ + 1]
         IN  next \in Selections /\ next.session = s.session + 1
BY DEF Selections

\* A new process: every connection is closed, so what it carries stays of an old session.
LEMMA RestartSession ==
  ASSUME Inv, Inv', SessionInv, Restart, UNCHANGED viewportVars
  PROVE  SessionInv'
<1>1. PICK s \in published : s.session = selection.session /\ selection' = [s EXCEPT !.session = @ + 1]
  BY DEF Restart
<1>2. /\ published' = published \cup {selection'} /\ toClient' = toClient
      /\ handler' = [c \in Clients |-> "none"]
      /\ clients' = {} /\ due' = [c \in Clients |-> {}] /\ notices' = [c \in Clients |-> 0]
      /\ conn' = [c \in Clients |-> IF Open(c) THEN "closing" ELSE conn[c]]
      /\ toServer' = [c \in Clients |-> <<>>]
      /\ UNCHANGED <<view, session, queued, refreshing>>
  BY ViewportVars DEF Restart
<1>3. /\ selection \in Selections /\ published \subseteq Selections
      /\ selection.session \in Nat /\ \A t \in published : t.session \in Nat
  BY MessageTypes DEF Inv, Types
<1>4. selection'.session = selection.session + 1
  BY <1>1, <1>3, NextSessionTyped
<1>5. History'
  <2>1. ASSUME NEW t \in published
        PROVE  Precedes(t, selection')
    <3>1. t.session <= selection.session
      BY <1>3 DEF SessionInv, History, Precedes
    <3> QED BY <1>3, <1>4, <3>1 DEF Precedes
  <2> QED BY <1>2, <2>1 DEF History
<1>6. ViewportTypes'
  BY <1>2 DEF SessionInv, ViewportTypes
<1>7. Known'
  BY <1>2 DEF SessionInv, Known
<1>8. \A c \in Clients : session[c] \in Nat
  BY DEF SessionInv, ViewportTypes
<1>9. ViewInv'
  BY <1>2, <1>3, <1>4, <1>8 DEF SessionInv, ViewInv, ViewOK
<1>10. \A c \in Clients : conn'[c] # "open"
  BY <1>2 DEF Open
<1>11. QueueInv'
  <2> SUFFICES ASSUME NEW c \in Clients, conn'[c] = "closing"
               PROVE  \E n \in Nat : n <= selection'.session /\ Queue(c, n)'
    BY <1>10 DEF QueueInv, QueueOK, Open
  <2>1. conn[c] = "closing" \/ Open(c)
    BY <1>2
  <2>2. PICK n \in Nat : n <= selection.session /\ Queue(c, n)
    BY <1>3, <2>1 DEF SessionInv, QueueInv, QueueOK
  <2>3. Queue(c, n)'
    BY <1>2, <2>2 DEF Queue, Begun
  <2> QED BY <1>3, <1>4, <2>2, <2>3
<1>12. Registered'
  BY <1>2 DEF Registered
<1>13. SessionsNotMixed'
  BY <1>10 DEF SessionsNotMixed, Open
<1> QED BY <1>5, <1>6, <1>7, <1>9, <1>11, <1>12, <1>13 DEF SessionInv

-----------------------------------------------------------------------------
(* The viewports' side: each touches its own connection only. *)

Same(d) ==
  /\ conn'[d] = conn[d] /\ toClient'[d] = toClient[d] /\ toServer'[d] = toServer[d]
  /\ session'[d] = session[d] /\ refreshing'[d] = refreshing[d]
  /\ view'[d] = view[d] /\ queued'[d] = queued[d]

LEMMA ViewportFrame ==
  ASSUME Inv, SessionInv, UNCHANGED serverVars, NEW c \in Clients, ViewportTypes',
         \A d \in Clients : d # c => Same(d),
         ViewOK(c)', QueueOK(c)',
         \A i \in DOMAIN toClient'[c] :
           Carries(toClient'[c][i]) => toClient'[c][i].selection \in published,
         conn'[c] = "open" => \A i \in DOMAIN toServer'[c] :
           toServer'[c][i].type = "update" => toServer'[c][i].session = selection.session
  PROVE  SessionInv'
<1>1. UNCHANGED <<selection, published, handler, answer, clients, due, notices>>
  BY DEF serverVars, broadcasts, news
<1>2. History' /\ Registered'
  BY <1>1 DEF SessionInv, History, Registered
<1>3. \A d \in Clients : d # c => ViewOK(d)'
  BY <1>1 DEF Same, ViewOK, SessionInv, ViewInv
<1>4. ViewInv'
  BY <1>3 DEF ViewInv
<1>5. ASSUME NEW d \in Clients, d # c
      PROVE  QueueOK(d)'
  <2>1. Same(d) /\ QueueOK(d)
    BY <1>5 DEF SessionInv, QueueInv
  <2>2. \A n \in Nat : Queue(d, n)' <=> Queue(d, n)
    BY <2>1 DEF Same, Queue, Begun
  <2>3. Queue(d, selection.session)' <=> Queue(d, selection.session)
    BY <1>1, <2>1 DEF Same, Queue, Begun
  <2>4. Begun(d)' <=> Begun(d)
    BY <2>1 DEF Same, Begun
  <2> QED BY <1>1, <2>1, <2>2, <2>3, <2>4 DEF Same, QueueOK, Open
<1>6. QueueInv'
  BY <1>5 DEF QueueInv
<1>7. Known'
  <2>1. \A d \in Clients : d # c => toClient'[d] = toClient[d]
    BY DEF Same
  <2> QED BY <1>1, <2>1 DEF SessionInv, Known
<1>8. SessionsNotMixed'
  <2>1. \A d \in Clients : d # c => toServer'[d] = toServer[d] /\ conn'[d] = conn[d]
    BY DEF Same
  <2> QED BY <1>1, <2>1 DEF SessionInv, SessionsNotMixed, Open
<1> QED BY <1>2, <1>4, <1>6, <1>7, <1>8 DEF SessionInv

\* Putting an update or a session.get on its way.
LEMMA RequestTyped ==
  ASSUME ViewportTypes, NEW c \in Clients, NEW r \in Requests,
         toServer' = [toServer EXCEPT ![c] = Append(@, r)]
  PROVE  /\ toServer' \in [Clients -> Seq(Requests)]
         /\ \A d \in Clients : d # c => toServer'[d] = toServer[d]
         /\ \A i \in DOMAIN toServer'[c] :
              toServer'[c][i] = r \/ (i \in DOMAIN toServer[c] /\ toServer'[c][i] = toServer[c][i])
<1> DEFINE q == toServer[c]
<1>1. q \in Seq(Requests)
  BY DEF ViewportTypes
<1>2. /\ Append(q, r) \in Seq(Requests)
      /\ \A i \in DOMAIN Append(q, r) :
           Append(q, r)[i] = r \/ (i \in DOMAIN q /\ Append(q, r)[i] = q[i])
  BY <1>1
<1>3. toServer'[c] = Append(q, r)
  BY DEF ViewportTypes
<1> QED BY <1>2, <1>3 DEF ViewportTypes

LEMMA GetTyped == Get \in Requests /\ Get.type = "get"
BY DEF Get, Requests

LEMMA ConnectSession ==
  ASSUME Inv, SessionInv, UNCHANGED serverVars, NEW c \in Clients, Join(c) \/ Disconnect(c)
  PROVE  SessionInv'
<1>1. /\ \/ /\ handler[c] = "none"
            /\ conn' = [conn EXCEPT ![c] = "open"] /\ queued' = [queued EXCEPT ![c] = None]
            /\ refreshing' = [refreshing EXCEPT ![c] = TRUE]
            /\ toServer' = [toServer EXCEPT ![c] = <<Get>>]
         \/ /\ conn' = [conn EXCEPT ![c] = "closed"] /\ refreshing' = [refreshing EXCEPT ![c] = FALSE]
            /\ UNCHANGED <<queued, toServer>>
      /\ toClient' = [toClient EXCEPT ![c] = <<>>]
      /\ UNCHANGED <<view, session, selection, published, handler>>
  BY DEF Join, Connect, Disconnect, Set, serverVars
<1>2. <<Get>> \in Seq(Requests) /\ \A i \in DOMAIN <<Get>> : <<Get>>[i].type = "get"
  BY GetTyped
<1>3. ViewportTypes'
  <2>1. session' \in [Clients -> Nat] /\ view' \in [Clients -> Selections \cup {None}]
        /\ notices' \in [Clients -> Nat]
    BY <1>1 DEF SessionInv, ViewportTypes, serverVars, news
  <2>2. refreshing' \in [Clients -> BOOLEAN]
    BY <1>1 DEF SessionInv, ViewportTypes
  <2>3. queued' \in [Clients -> Selections \cup {None}]
    BY <1>1 DEF SessionInv, ViewportTypes
  <2>4. toServer' \in [Clients -> Seq(Requests)]
    BY <1>1, <1>2 DEF SessionInv, ViewportTypes
  <2> QED BY <2>1, <2>2, <2>3, <2>4 DEF ViewportTypes
<1>4. \A d \in Clients : d # c => Same(d)
  BY <1>1 DEF Same, Inv, Types, SessionInv, ViewportTypes
<1>5. toClient'[c] = <<>> /\ (queued'[c] = None \/ queued'[c] = queued[c])
  BY <1>1 DEF Inv, Types, SessionInv, ViewportTypes
<1>6. ViewOK(c)'
  BY <1>1, <1>5 DEF SessionInv, ViewInv, ViewOK
<1>7. \/ /\ conn'[c] = "open" /\ handler[c] = "none" /\ refreshing'[c] = TRUE
         /\ \A i \in DOMAIN toServer'[c] : toServer'[c][i].type = "get"
      \/ conn'[c] = "closed"
  BY <1>1, <1>2 DEF Inv, Types, SessionInv, ViewportTypes
<1>8. QueueOK(c)'
  BY <1>1, <1>5, <1>6, <1>7 DEF QueueOK, Queue, Open, ViewOK
<1> QED BY <1>3, <1>4, <1>5, <1>6, <1>7, <1>8, ViewportFrame

\* What the user does; a request that goes out is of the session shown, and a viewport
\* that waits for no snapshot shows the session that is served.
LEMMA RequestSession ==
  ASSUME Inv, SessionInv, UNCHANGED serverVars, NEW c \in Clients,
         Intend(c) \/ SendUpdate(c) \/ Heartbeat(c)
  PROVE  SessionInv'
<1>1. /\ UNCHANGED <<conn, toClient, view, session, selection, published, handler>>
      /\ refreshing' = refreshing \/ refreshing' = [refreshing EXCEPT ![c] = TRUE]
      /\ \/ queued' = queued
         \/ queued' = [queued EXCEPT ![c] = None]
         \/ view[c] # None /\ queued' = [queued EXCEPT ![c] = view[c]]
  BY DEF Intend, SendUpdate, Heartbeat, RequestSnapshot, Set, serverVars, channels, flags
<1> DEFINE u == [type |-> "update", expected |-> view[c].revision, session |-> view[c].session,
                 blind |-> queued[c] # view[c] /\ view[c].by # c]
<1>2. SendUpdate(c) => /\ u \in Requests
                       /\ Open(c) => u.session = selection.session
  <2> SUFFICES ASSUME SendUpdate(c)
               PROVE  u \in Requests /\ (Open(c) => u.session = selection.session)
    OBVIOUS
  <2>1. queued[c] # None /\ ~refreshing[c]
    BY DEF SendUpdate
  <2>2. view[c] # None /\ view[c].session = session[c]
    BY <2>1 DEF SessionInv, ViewInv, ViewOK
  <2>3. view[c] \in Selections
    BY <2>2 DEF SessionInv, ViewportTypes
  <2>4. view[c].revision \in Nat /\ view[c].session \in Nat
    BY <2>3, MessageTypes
  <2>5. u \in Requests
    BY <2>4 DEF Requests
  <2>6. Open(c) => session[c] = selection.session
    BY <2>1 DEF SessionInv, QueueInv, QueueOK
  <2> QED BY <2>2, <2>5, <2>6
<1>3. \/ toServer' = toServer
      \/ toServer' = [toServer EXCEPT ![c] = Append(@, Get)]
      \/ SendUpdate(c) /\ toServer' = [toServer EXCEPT ![c] = Append(@, u)]
  BY DEF Intend, SendUpdate, Heartbeat, RequestSnapshot, Request, channels
<1> HIDE DEF u
<1>4. \/ toServer' = toServer
      \/ \E r \in Requests :
           /\ toServer' = [toServer EXCEPT ![c] = Append(@, r)]
           /\ Open(c) /\ r.type = "update" => r.session = selection.session
  BY <1>2, <1>3, GetTyped
<1>5. /\ toServer' \in [Clients -> Seq(Requests)]
      /\ \A d \in Clients : d # c => toServer'[d] = toServer[d]
      /\ Open(c) => \A i \in DOMAIN toServer'[c] :
           toServer'[c][i].type = "update" => toServer'[c][i].session = selection.session
  <2>1. CASE toServer' = toServer
    BY <2>1 DEF SessionInv, ViewportTypes, SessionsNotMixed
  <2>2. CASE toServer' # toServer
    <3>1. PICK r \in Requests :
            /\ toServer' = [toServer EXCEPT ![c] = Append(@, r)]
            /\ Open(c) /\ r.type = "update" => r.session = selection.session
      BY <1>4, <2>2
    <3>2. /\ toServer' \in [Clients -> Seq(Requests)]
          /\ \A d \in Clients : d # c => toServer'[d] = toServer[d]
          /\ \A i \in DOMAIN toServer'[c] :
               toServer'[c][i] = r \/ (i \in DOMAIN toServer[c] /\ toServer'[c][i] = toServer[c][i])
      BY <3>1, RequestTyped DEF SessionInv
    <3>3. Open(c) => \A i \in DOMAIN toServer[c] :
            toServer[c][i].type = "update" => toServer[c][i].session = selection.session
      BY DEF SessionInv, SessionsNotMixed
    <3> QED BY <3>1, <3>2, <3>3
  <2> QED BY <2>1, <2>2
<1>6. ViewportTypes'
  <2>1. session' \in [Clients -> Nat] /\ view' \in [Clients -> Selections \cup {None}]
        /\ notices' \in [Clients -> Nat]
    BY <1>1 DEF SessionInv, ViewportTypes, serverVars, news
  <2>2. refreshing' \in [Clients -> BOOLEAN]
    BY <1>1 DEF SessionInv, ViewportTypes
  <2>3. queued' \in [Clients -> Selections \cup {None}]
    BY <1>1 DEF SessionInv, ViewportTypes
  <2> QED BY <1>5, <2>1, <2>2, <2>3 DEF ViewportTypes
<1>7. \A d \in Clients : d # c => Same(d)
  BY <1>1, <1>5 DEF Same, SessionInv, ViewportTypes
<1>8. queued'[c] \in {queued[c], None} \/ view[c] # None
  BY <1>1 DEF SessionInv, ViewportTypes
<1>9. ViewOK(c)'
  BY <1>1, <1>8 DEF SessionInv, ViewInv, ViewOK
<1>10. ~refreshing'[c] => ~refreshing[c]
  BY <1>1 DEF SessionInv, ViewportTypes
<1>11. QueueOK(c)'
  BY <1>1, <1>10 DEF SessionInv, QueueInv, QueueOK, Queue, Open, Begun
<1>12. \A i \in DOMAIN toClient'[c] :
         Carries(toClient'[c][i]) => toClient'[c][i].selection \in published
  BY <1>1 DEF SessionInv, Known
<1> QED BY <1>1, <1>5, <1>6, <1>7, <1>9, <1>11, <1>12, ViewportFrame DEF Open

\* A viewport that reads a message of session n shows session n afterwards, and if it
\* shows another selection, then a later one.
Shows(c, n) ==
  /\ session' = [session EXCEPT ![c] = n]
  /\ queued' = queued \/ queued' = [queued EXCEPT ![c] = None]
  /\ \/ view' = view /\ session[c] = n
     \/ \E s \in published :
          /\ s.session = n /\ view' = [view EXCEPT ![c] = s]
          /\ view[c] = None \/ session[c] < n \/ (session[c] = n /\ s.revision > view[c].revision)

LEMMA ApplyShows ==
  ASSUME SessionInv, NEW c \in Clients, NEW n \in Nat, session[c] = n, NEW s \in published,
         s.session = n, ApplySelection(c, s), UNCHANGED <<session, queued>>
  PROVE  Shows(c, n)
<1>1. session' = [session EXCEPT ![c] = n]
  BY DEF SessionInv, ViewportTypes
<1>2. CASE Later(s, view[c])
  BY <1>1, <1>2 DEF Shows, ApplySelection, Later, Set
<1>3. CASE ~Later(s, view[c])
  BY <1>1, <1>3 DEF Shows, ApplySelection
<1> QED BY <1>2, <1>3

LEMMA SnapshotShows ==
  ASSUME SessionInv, NEW c \in Clients, NEW n \in Nat, session[c] <= n, NEW m,
         m.selection \in published, m.selection.session = n, ApplySnapshot(c, m)
  PROVE  Shows(c, n)
<1>1. session[c] \in Nat
  BY DEF SessionInv, ViewportTypes
<1>2. CASE n # session[c]
  <2>1. /\ session' = [session EXCEPT ![c] = n]
        /\ view' = [view EXCEPT ![c] = m.selection] /\ queued' = [queued EXCEPT ![c] = None]
    BY <1>2 DEF ApplySnapshot, Set
  <2>2. session[c] < n
    BY <1>1, <1>2
  <2> QED BY <2>1, <2>2 DEF Shows
<1>3. CASE n = session[c]
  <2>1. [session EXCEPT ![c] = n] = session
    BY <1>3 DEF SessionInv, ViewportTypes
  <2>2. CASE m.catalog < shot[c]
    BY <1>3, <2>1, <2>2 DEF ApplySnapshot, Shows
  <2>3. CASE ~(m.catalog < shot[c])
    <3>1. UNCHANGED <<session, queued>> /\ ApplySelection(c, m.selection)
      BY <1>3, <2>1, <2>3 DEF ApplySnapshot, Set
    <3> QED BY <1>3, <3>1, ApplyShows
  <2> QED BY <2>2, <2>3
<1> QED BY <1>2, <1>3

LEMMA ReactShows ==
  ASSUME Inv, SessionInv, NEW c \in Clients, React(c)
  PROVE  \E n \in Nat : /\ n <= selection.session /\ Queue(c, n) /\ Shows(c, n)
                        /\ Open(c) => n = selection.session
<1> DEFINE q == toClient[c]
           m == Head(toClient[c])
<1>1. q # <<>> /\ conn[c] # "closed"
  BY DEF React, ReceiveSnapshot, ReceiveAnswer, ReceiveChanged, ReceiveInvalidation,
         ReceiveUpdated, ReceiveConflict, Receive, Online
<1>2. conn[c] = "closing" \/ Open(c)
  BY <1>1 DEF Inv, Types, ConnStates, Open
<1>3. selection.session \in Nat
  BY MessageTypes DEF Inv, Types
<1>4. PICK n \in Nat : /\ n <= selection.session /\ Queue(c, n)
                       /\ Open(c) => n = selection.session
  BY <1>2, <1>3 DEF SessionInv, QueueInv, QueueOK, Open
<1>5. 1 \in DOMAIN q /\ m = q[1]
  <2>1. q \in Seq(Messages)
    BY DEF Inv, Types
  <2> QED BY <1>1, <2>1
<1>6. Carries(m) => m.selection \in published /\ m.selection.session = n
  BY <1>4, <1>5 DEF SessionInv, Known, Queue
<1>7. session[c] <= n /\ (m.type # "snapshot" => session[c] = n)
  BY <1>1, <1>4 DEF Queue, Begun
<1> HIDE DEF m
<1>8. Shows(c, n)
  <2>1. CASE ReceiveSnapshot(c) \/ ReceiveAnswer(c)
    <3>1. m.type \in {"snapshot", "got"} /\ ApplySnapshot(c, m)
      BY <2>1 DEF ReceiveSnapshot, ReceiveAnswer, Receive, m
    <3> QED BY <1>6, <1>7, <3>1, SnapshotShows DEF Carries
  <2>2. CASE ReceiveChanged(c) \/ ReceiveUpdated(c)
    <3>1. /\ m.type \in {"changed", "updated"} /\ ApplySelection(c, m.selection)
          /\ UNCHANGED <<session, queued>>
      BY <2>2 DEF ReceiveChanged, ReceiveUpdated, Receive, m
    <3> QED BY <1>6, <1>7, <3>1, ApplyShows DEF Carries
  <2>3. CASE ReceiveInvalidation(c) \/ ReceiveConflict(c)
    <3>1. /\ m.type \in {"workbench", "conflict"} /\ UNCHANGED <<session, view>>
          /\ queued' = queued \/ queued' = [queued EXCEPT ![c] = None]
      BY <2>3 DEF ReceiveInvalidation, ReceiveConflict, Receive, Set, m
    <3> QED BY <1>7, <3>1 DEF Shows, SessionInv, ViewportTypes
  <2> QED BY <2>1, <2>2, <2>3 DEF React
<1> QED BY <1>4, <1>8

LEMMA ReactSession ==
  ASSUME Inv, Inv', SessionInv, UNCHANGED serverVars, NEW c \in Clients, React(c)
  PROVE  SessionInv'
<1>1. PICK n \in Nat : /\ n <= selection.session /\ Queue(c, n) /\ Shows(c, n)
                       /\ Open(c) => n = selection.session
  BY ReactShows
<1>2. /\ toClient[c] # <<>> /\ toClient' = [toClient EXCEPT ![c] = Tail(@)]
      /\ UNCHANGED <<conn, selection, published, handler>>
      /\ \/ toServer' = toServer
         \/ toServer' = [toServer EXCEPT ![c] = Append(@, Get)]
      /\ \/ refreshing' = refreshing
         \/ \E b \in BOOLEAN : refreshing' = [refreshing EXCEPT ![c] = b]
  <2>1. /\ toClient[c] # <<>> /\ toClient' = [toClient EXCEPT ![c] = Tail(@)]
        /\ UNCHANGED <<conn, selection, published, handler>>
    BY DEF React, ReceiveSnapshot, ReceiveAnswer, ReceiveChanged, ReceiveInvalidation,
           ReceiveUpdated, ReceiveConflict, Receive, serverVars
  <2>2. \/ UNCHANGED <<toServer, refreshing>>
        \/ toServer' = [toServer EXCEPT ![c] = Append(@, Get)] /\ refreshing' = refreshing
        \/ toServer' = toServer /\ refreshing' = [refreshing EXCEPT ![c] = FALSE]
        \/ /\ toServer' = [toServer EXCEPT ![c] = Append(@, Get)]
           /\ refreshing' = [refreshing EXCEPT ![c] = TRUE]
    BY DEF React, ReceiveSnapshot, ReceiveAnswer, ReceiveChanged, ReceiveInvalidation,
           ReceiveUpdated, ReceiveConflict, RequestSnapshot, Request, Set, flags
  <2> QED BY <2>1, <2>2
<1>3. /\ toServer' \in [Clients -> Seq(Requests)]
      /\ \A d \in Clients : d # c => toServer'[d] = toServer[d]
      /\ Open(c) => \A i \in DOMAIN toServer'[c] :
           toServer'[c][i].type = "update" => toServer'[c][i].session = selection.session
  <2>1. CASE toServer' = toServer
    BY <2>1 DEF SessionInv, ViewportTypes, SessionsNotMixed
  <2>2. CASE toServer' = [toServer EXCEPT ![c] = Append(@, Get)]
    <3>1. /\ toServer' \in [Clients -> Seq(Requests)]
          /\ \A d \in Clients : d # c => toServer'[d] = toServer[d]
          /\ \A i \in DOMAIN toServer'[c] :
               toServer'[c][i] = Get \/ (i \in DOMAIN toServer[c] /\ toServer'[c][i] = toServer[c][i])
      BY <2>2, GetTyped, RequestTyped DEF SessionInv
    <3>2. Open(c) => \A i \in DOMAIN toServer[c] :
            toServer[c][i].type = "update" => toServer[c][i].session = selection.session
      BY DEF SessionInv, SessionsNotMixed
    <3> QED BY <3>1, <3>2, GetTyped
  <2> QED BY <1>2, <2>1, <2>2
<1>4. /\ session' = [session EXCEPT ![c] = n]
      /\ queued' = queued \/ queued' = [queued EXCEPT ![c] = None]
      /\ \/ view' = view /\ session[c] = n
         \/ \E s \in published : s.session = n /\ view' = [view EXCEPT ![c] = s]
  BY <1>1 DEF Shows
<1>5. published \subseteq Selections
  BY DEF Inv, Types
<1>6. ViewportTypes'
  <2>1. session' \in [Clients -> Nat] /\ notices' \in [Clients -> Nat]
    BY <1>4 DEF SessionInv, ViewportTypes, serverVars, news
  <2>2. refreshing' \in [Clients -> BOOLEAN]
    BY <1>2 DEF SessionInv, ViewportTypes
  <2>3. queued' \in [Clients -> Selections \cup {None}]
    BY <1>4 DEF SessionInv, ViewportTypes
  <2>4. view' \in [Clients -> Selections \cup {None}]
    BY <1>4, <1>5 DEF SessionInv, ViewportTypes
  <2> QED BY <1>3, <2>1, <2>2, <2>3, <2>4 DEF ViewportTypes
<1>7. \A d \in Clients : d # c => Same(d)
  BY <1>2, <1>3, <1>4 DEF Same, Inv, Types, SessionInv, ViewportTypes
<1>8. session'[c] = n /\ (queued'[c] = queued[c] \/ queued'[c] = None)
  BY <1>4 DEF SessionInv, ViewportTypes
<1>9. \/ view'[c] = view[c] /\ session[c] = n
      \/ view'[c] \in published /\ view'[c].session = n
  BY <1>4 DEF SessionInv, ViewportTypes
<1>10. None \notin published
  BY <1>5, ChannelAssumption DEF Selections
<1>11. ViewOK(c)'
  BY <1>1, <1>2, <1>8, <1>9, <1>10 DEF SessionInv, ViewInv, ViewOK
<1> DEFINE q == toClient[c]
<1>12. \A i \in DOMAIN toClient'[c] : i + 1 \in DOMAIN q /\ toClient'[c][i] = q[i + 1]
  <2>1. q \in Seq(Messages) /\ q # <<>>
    BY <1>2 DEF Inv, Types
  <2>2. \A i \in DOMAIN Tail(q) : i + 1 \in DOMAIN q /\ Tail(q)[i] = q[i + 1]
    BY <2>1
  <2>3. toClient'[c] = Tail(q)
    BY <1>2 DEF Inv, Types
  <2> QED BY <2>2, <2>3
<1>13. Queue(c, n)'
  BY <1>1, <1>8, <1>12 DEF Queue
<1>14. Open(c) => handler[c] # "none"
  BY <1>2 DEF SessionInv, QueueInv, QueueOK
<1>15. QueueOK(c)'
  <2>1. conn'[c] = "open" <=> Open(c)
    BY <1>2 DEF Open
  <2>2. Open(c) => Queue(c, selection.session)'
    BY <1>1, <1>2, <1>13 DEF Queue, Begun
  <2> QED BY <1>1, <1>2, <1>8, <1>13, <1>14, <2>1, <2>2 DEF QueueOK, Open
<1>16. \A i \in DOMAIN toClient'[c] :
         Carries(toClient'[c][i]) => toClient'[c][i].selection \in published
  BY <1>12 DEF SessionInv, Known
<1> QED BY <1>2, <1>3, <1>6, <1>7, <1>11, <1>15, <1>16, ViewportFrame DEF Open

-----------------------------------------------------------------------------
(* Sessions are kept apart, and the shared selection is implemented. *)

LEMMA InitSession == Init => SessionInv
<1> SUFFICES ASSUME Init
             PROVE  SessionInv
  OBVIOUS
<1> DEFINE s == [session |-> 1, revision |-> 0, by |-> None]
<1>1. /\ selection = s /\ published = {s} /\ clients = {}
      /\ handler = [c \in Clients |-> "none"] /\ due = [c \in Clients |-> {}]
      /\ notices = [c \in Clients |-> 0] /\ conn = [c \in Clients |-> "closed"]
      /\ toServer = [c \in Clients |-> <<>>] /\ toClient = [c \in Clients |-> <<>>]
      /\ session = [c \in Clients |-> 0] /\ view = [c \in Clients |-> None]
      /\ queued = [c \in Clients |-> None] /\ refreshing = [c \in Clients |-> FALSE]
  BY DEF Init, ServerInit, ViewportInit
<1>2. s.session = 1
  OBVIOUS
<1> HIDE DEF s
<1>3. ViewportTypes
  BY <1>1 DEF ViewportTypes
<1>4. History /\ Registered
  BY <1>1 DEF History, Registered
<1>5. Known /\ ViewInv
  BY <1>1, <1>2 DEF Known, ViewInv, ViewOK
<1>6. QueueInv /\ SessionsNotMixed
  BY <1>1 DEF QueueInv, QueueOK, SessionsNotMixed, Open
<1> QED BY <1>3, <1>4, <1>5, <1>6 DEF SessionInv

LEMMA NextSession == Inv /\ Inv' /\ SessionInv /\ [Next]_vars => SessionInv'
<1> SUFFICES ASSUME Inv, Inv', SessionInv, [Next]_vars
             PROVE  SessionInv'
  OBVIOUS
<1>1. CASE (Environment \/ Announce) /\ UNCHANGED viewportVars
  BY <1>1, QuietSteps, RestartSession DEF Environment
<1>2. ASSUME NEW c \in Clients, Serve(c), UNCHANGED viewportVars
      PROVE  SessionInv'
  <2>1. CASE Accept(c) \/ EndHandler(c) \/ BeginRead(c) \/ Read(c) \/ Answer(c)
    BY <1>2, <2>1, AcceptSession, EndHandlerSession, ReadSession, AnswerSession
  <2>2. CASE Update(c) \/ AnswerUpdate(c) \/ EndUpdate(c)
    BY <1>2, <2>2, UpdateSession, AnswerSession, EndUpdateSession
  <2>3. CASE \E d \in Clients : Deliver(c, d) \/ ExpireDelivery(c, d)
    BY <1>2, <2>3, DeliverSession
  <2>4. CASE Notify(c) \/ ExpireNotice(c)
    BY <1>2, <2>4, NoticesSession
  <2> QED BY <1>2, <2>1, <2>2, <2>3, <2>4 DEF Serve
<1>3. ASSUME NEW c \in Clients, Act(c) \/ React(c), UNCHANGED serverVars
      PROVE  SessionInv'
  BY <1>3, ConnectSession, RequestSession, ReactSession DEF Act
<1>4. CASE UNCHANGED vars
  <2>1. /\ UNCHANGED viewportVars
        /\ UNCHANGED <<selection, published, handler, answer, toServer, notices, clients, due, conn, toClient>>
    BY <1>4 DEF vars, serverVars, broadcasts, news, channels
  <2>2. Registered' /\ notices' \in [Clients -> Nat]
    BY <2>1 DEF SessionInv, Registered, ViewportTypes
  <2> QED BY <2>1, <2>2, QuietSession
<1> QED BY <1>1, <1>2, <1>3, <1>4 DEF Next

LEMMA Invariants == Spec => [](Inv /\ SessionInv)
BY InitInv, NextInv, InitSession, NextSession, PTL DEF Spec

\* No update that the service will accept stems from a viewport that showed a selection
\* of another process, however requests, answers, restarts and reconnections race.
THEOREM SessionsCorrect == Spec => []SessionsNotMixed
<1>1. SessionInv => SessionsNotMixed
  BY DEF SessionInv
<1> QED BY <1>1, Invariants, PTL

LEMMA LatestIsCurrent ==
  ASSUME Inv, SessionInv
  PROVE  Abstract!Latest = selection
<1>1. selection \in published /\ published \subseteq Selections
  BY DEF SessionInv, History, Inv, Types
<1>2. None \notin published
  BY <1>1, ChannelAssumption DEF Selections
<1>3. \A s \in published \ {selection} : Abstract!Newer(selection, s)
  BY <1>1, MessageTypes DEF SessionInv, History, Precedes, Abstract!Newer
<1>4. \A s \in published \ {selection} : ~Abstract!Newer(s, selection)
  BY <1>1, <1>2, MessageTypes DEF SessionInv, History, Precedes, Abstract!Newer
<1>5. \A s \in published :
        (\A other \in published \ {s} : Abstract!Newer(s, other)) => s = selection
  BY <1>1, <1>4
<1>6. /\ Abstract!Latest \in published
      /\ \A other \in published \ {Abstract!Latest} : Abstract!Newer(Abstract!Latest, other)
  <2>1. \E s \in published : \A other \in published \ {s} : Abstract!Newer(s, other)
    BY <1>1, <1>3
  <2> QED BY <2>1 DEF Abstract!Latest
<1> QED BY <1>5, <1>6

\* Only selection.update and a new process publish a selection.
LEMMA ServiceSteps ==
  ASSUME Inv, SessionInv, UNCHANGED viewportVars,
         Environment \/ Announce \/ \E c \in Clients : Serve(c)
  PROVE  [Abstract!Next]_<<published, view>>
<1>1. view' = view
  BY ViewportVars
<1>2. Abstract!Latest = selection
  BY LatestIsCurrent
<1>3. selection \in Selections /\ published \subseteq Selections
  BY DEF Inv, Types
<1>4. ASSUME NEW c \in Clients, Update(c)
      PROVE  published' = published \/ Abstract!Publish(c)
  <2>1. CASE /\ selection' = [selection EXCEPT !.revision = @ + 1, !.by = c]
             /\ published' = published \cup {selection'}
    <3>1. /\ selection' \in Selections
          /\ selection'.session = selection.session /\ selection'.revision = selection.revision + 1
          /\ selection'.by = c
      BY <1>3, <2>1, SuccessorTyped
    <3>2. selection' = [session |-> selection.session, revision |-> selection.revision + 1, by |-> c]
      BY <3>1 DEF Selections
    <3> QED BY <1>1, <1>2, <2>1, <3>2 DEF Abstract!Publish
  <2> QED BY <1>4, <2>1 DEF Update
<1>5. CASE Restart
  BY <1>1, <1>2, <1>5 DEF Restart, Abstract!Next, Abstract!Restart
<1>6. CASE Commit \/ Announce \/ \E c \in Clients : Lose(c)
  BY <1>1, <1>6 DEF Commit, Announce, Lose, serverVars
<1>7. ASSUME NEW c \in Clients, Serve(c)
      PROVE  published' = published \/ Abstract!Publish(c)
  BY <1>4, <1>7 DEF Serve, Accept, EndHandler, BeginRead, Read, Answer, AnswerUpdate, EndUpdate,
                    Deliver, ExpireDelivery, Notify, ExpireNotice
<1> QED BY <1>1, <1>5, <1>6, <1>7 DEF Environment, Abstract!Next

\* A viewport shows a later selection when it shows another one.
LEMMA ViewportSteps ==
  ASSUME Inv, SessionInv, UNCHANGED serverVars, NEW c \in Clients, Act(c) \/ React(c)
  PROVE  [Abstract!Next]_<<published, view>>
<1>1. published' = published
  BY DEF serverVars
<1>2. CASE Act(c)
  BY <1>1, <1>2 DEF Act, Join, Connect, Disconnect, Intend, SendUpdate, Heartbeat
<1>3. CASE React(c)
  <2>1. PICK n \in Nat : Shows(c, n)
    BY <1>3, ReactShows
  <2>2. CASE view' = view
    BY <1>1, <2>2
  <2>3. ASSUME NEW s \in published, s.session = n, view' = [view EXCEPT ![c] = s],
               view[c] = None \/ session[c] < n \/ (session[c] = n /\ s.revision > view[c].revision)
        PROVE  Abstract!Observe(c)
    <3>1. view'[c] = s
      BY <2>3 DEF SessionInv, ViewportTypes
    <3>2. view[c] # None => view[c].session = session[c]
      BY DEF SessionInv, ViewInv, ViewOK
    <3>3. session[c] \in Nat
      BY DEF SessionInv, ViewportTypes
    <3>4. Abstract!Newer(s, view[c])
      BY <2>3, <3>2, <3>3 DEF Abstract!Newer
    <3> QED BY <1>1, <2>3, <3>1, <3>4 DEF Abstract!Observe
  <2> QED BY <2>1, <2>2, <2>3 DEF Shows, Abstract!Next
<1> QED BY <1>2, <1>3

\* Service and viewports, with their threads, locks, buffers, lost connections and
\* restarts, implement one selection that each viewport sees move forward only.
THEOREM SelectionImplemented == Spec => ImplementsSharedSelection
<1>1. Init => Abstract!Init
  BY DEF Init, ServerInit, ViewportInit, Abstract!Init
<1>2. Inv /\ SessionInv /\ [Next]_vars => [Abstract!Next]_<<published, view>>
  <2> SUFFICES ASSUME Inv, SessionInv, [Next]_vars
               PROVE  [Abstract!Next]_<<published, view>>
    OBVIOUS
  <2>1. CASE UNCHANGED vars
    BY <2>1 DEF vars, serverVars, viewportVars
  <2>2. CASE Next
    BY <2>2, ServiceSteps, ViewportSteps DEF Next
  <2> QED BY <2>1, <2>2
<1> QED BY <1>1, <1>2, Invariants, PTL DEF Spec, ImplementsSharedSelection, Abstract!Spec, Abstract!vars
=============================================================================
