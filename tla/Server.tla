-------------------------------- MODULE Server --------------------------------
(***************************************************************************)
(* WorkbenchServer of src/ciw/server.py: one handler per connection on one   *)
(* event loop.  session.get is computed in a worker thread while other        *)
(* handlers run; selection.update runs under the selection lock, which its    *)
(* handler keeps until every client has the broadcast; a change of the        *)
(* catalog is only announced.  An action here is what happens between two      *)
(* awaits.                                                                    *)
(***************************************************************************)
EXTENDS Channels

CONSTANTS
  MaxCatalog,    \* bound: changes of the catalog
  MaxSession     \* bound: processes that serve the workspace one after another

VARIABLES
  selection,     \* session.selection, with the session that serves it
  published,     \* history variable: every selection that was current
  catalog,       \* revision of the retained workbench
  handler,       \* where each connection's handler is
  answer,        \* the response it is about to send
  clients,       \* self.clients
  lock,          \* self._selection_lock: the handler that holds it
  due,           \* deliveries of selection.changed each handler still has to make
  unannounced,   \* committed catalog changes whose handler has not broadcast yet
  notices        \* deliveries of workbench.changed still to be made, per client

broadcasts == <<lock, due>>
news == <<unannounced, notices>>
serverVars == <<selection, published, catalog, handler, answer, clients, broadcasts, news>>

HandlerStates == {"none", "idle", "reading", "answering", "updating", "broadcasting"}

Snapshot(type) == [type |-> type, selection |-> selection, catalog |-> catalog]

ServerInit ==
  /\ selection = [session |-> 1, revision |-> 0, by |-> None]
  /\ published = {selection}
  /\ catalog = 0
  /\ handler = [c \in Clients |-> "none"]
  /\ answer = [c \in Clients |-> None]
  /\ clients = {}
  /\ lock = None
  /\ due = [c \in Clients |-> {}]
  /\ unannounced = 0
  /\ notices = [c \in Clients |-> 0]

Become(c, state) == handler' = [handler EXCEPT ![c] = state]

\* The handler starts: register, then send the first snapshot, with no await between.
Accept(c) ==
  /\ Open(c) /\ handler[c] = "none" /\ c \notin clients
  /\ Become(c, "idle")
  /\ clients' = clients \cup {c}
  /\ Post(c, Snapshot("snapshot"))
  /\ UNCHANGED <<selection, published, catalog, answer, broadcasts, news, conn, toServer>>

Take(c, type) ==
  /\ handler[c] = "idle" /\ toServer[c] # <<>> /\ Head(toServer[c]).type = type
  /\ toServer' = [toServer EXCEPT ![c] = Tail(@)]

\* session.get goes to a worker thread ...
BeginRead(c) ==
  /\ Take(c, "get")
  /\ Become(c, "reading")
  /\ UNCHANGED <<selection, published, catalog, answer, clients, broadcasts, news, conn, toClient>>

\* ... which reads selection and catalog under the session lock ...
Read(c) ==
  /\ handler[c] = "reading"
  /\ answer' = [answer EXCEPT ![c] = Snapshot("got")]
  /\ Become(c, "answering")
  /\ UNCHANGED <<selection, published, catalog, clients, broadcasts, news, channels>>

\* A response goes out once the connection takes it, or is lost with it.
Respond(c) ==
  IF Open(c) THEN Room(c) /\ Post(c, answer[c]) ELSE UNCHANGED toClient

\* ... and is answered by the event loop later.
Answer(c) ==
  /\ handler[c] = "answering"
  /\ Respond(c)
  /\ clients' = (IF Open(c) THEN clients ELSE clients \ {c})
  /\ Become(c, "idle")
  /\ answer' = [answer EXCEPT ![c] = None]
  /\ UNCHANGED <<selection, published, catalog, broadcasts, news, conn, toServer>>

UnlockedFree == TRUE                       \* bug: selection.update without the lock
LockFree == lock = None

\* selection.update: the revision check and the change are one step of the loop.
Update(c) ==
  LET m == Head(toServer[c])
  IN  /\ LockFree
      /\ Take(c, "update")
      /\ \/ /\ m.expected = selection.revision
            /\ selection' = [selection EXCEPT !.revision = @ + 1, !.by = c]
            /\ published' = published \cup {selection'}
            /\ answer' = [answer EXCEPT ![c] = [type |-> "updated", selection |-> selection']]
         \/ /\ m.expected # selection.revision
            /\ answer' = [answer EXCEPT ![c] = [type |-> "conflict"]]
            /\ UNCHANGED <<selection, published>>
      /\ lock' = c
      /\ Become(c, "updating")
      /\ UNCHANGED <<catalog, clients, due, news, conn, toClient>>

Accepted(c) == answer[c].type = "updated"

\* The requester is answered first; its connection may be gone by then.
AnswerUpdate(c) ==
  /\ handler[c] = "updating"
  /\ Respond(c)
  /\ clients' = (IF Open(c) THEN clients ELSE clients \ {c})
  /\ due' = [due EXCEPT ![c] = IF Accepted(c) THEN clients' ELSE {}]
  /\ Become(c, "broadcasting")
  /\ UNCHANGED <<selection, published, catalog, answer, lock, news, conn, toServer>>

Changed(c) == [type |-> "changed", selection |-> answer[c].selection]

\* One delivery of the broadcast; a connection that is gone is forgotten.
Deliver(c, d) ==
  /\ handler[c] = "broadcasting" /\ d \in due[c]
  /\ due' = [due EXCEPT ![c] = @ \ {d}]
  /\ IF Open(d) THEN Room(d) /\ Post(d, Changed(c)) /\ UNCHANGED clients
     ELSE clients' = clients \ {d} /\ UNCHANGED toClient
  /\ UNCHANGED <<selection, published, catalog, handler, answer, lock, news, conn, toServer>>

\* A client that does not take a broadcast within two seconds is disconnected.
Expire(d) == Open(d) /\ ~Room(d)

ExpireDelivery(c, d) ==
  /\ d \in due[c] /\ Expire(d)
  /\ due' = [due EXCEPT ![c] = @ \ {d}]
  /\ clients' = clients \ {d}
  /\ Close(d)
  /\ UNCHANGED <<selection, published, catalog, handler, answer, lock, news, toServer, toClient>>

EndUpdate(c) ==
  /\ handler[c] = "broadcasting" /\ due[c] = {}
  /\ lock' = None
  /\ Become(c, "idle")
  /\ answer' = [answer EXCEPT ![c] = None]
  /\ UNCHANGED <<selection, published, catalog, clients, due, news, channels>>

\* A request of another program adds a source or retains a bundle, in a thread ...
Commit ==
  /\ catalog < MaxCatalog
  /\ catalog' = catalog + 1
  /\ unannounced' = unannounced + 1
  /\ UNCHANGED <<selection, published, handler, answer, clients, broadcasts, notices, channels>>

\* ... and its handler tells everyone that is connected by then.
Announce ==
  /\ unannounced > 0
  /\ unannounced' = unannounced - 1
  /\ notices' = [c \in Clients |-> IF c \in clients THEN notices[c] + 1 ELSE notices[c]]
  /\ UNCHANGED <<selection, published, catalog, handler, answer, clients, broadcasts, channels>>

Notify(d) ==
  /\ notices[d] > 0
  /\ notices' = [notices EXCEPT ![d] = @ - 1]
  /\ IF Open(d) THEN Room(d) /\ Post(d, [type |-> "workbench"]) /\ UNCHANGED clients
     ELSE clients' = clients \ {d} /\ UNCHANGED toClient
  /\ UNCHANGED <<selection, published, catalog, handler, answer, broadcasts, unannounced, conn, toServer>>

ExpireNotice(d) ==
  /\ notices[d] > 0 /\ Expire(d)
  /\ notices' = [notices EXCEPT ![d] = @ - 1]
  /\ clients' = clients \ {d}
  /\ Close(d)
  /\ UNCHANGED <<selection, published, catalog, handler, answer, broadcasts, unannounced, toServer, toClient>>

\* The handler's loop ends with its connection.  Requests not yet read are lost, and
\* what is still to be delivered fails with ConnectionClosed, which is ignored.
EndHandler(c) ==
  /\ handler[c] = "idle" /\ ~Open(c)
  /\ Become(c, "none")
  /\ clients' = clients \ {c}
  /\ due' = [h \in Clients |-> due[h] \ {c}]
  /\ notices' = [notices EXCEPT ![c] = 0]
  /\ toServer' = [toServer EXCEPT ![c] = <<>>]
  /\ UNCHANGED <<selection, published, catalog, answer, lock, unannounced, conn, toClient>>

\* The network, or the library's keepalive, ends a connection.
Lose(c) ==
  /\ Open(c)
  /\ Close(c)
  /\ UNCHANGED <<serverVars, toServer, toClient>>

\* A new process serves the workspace as it was saved at some moment.
Restart ==
  /\ selection.session < MaxSession
  /\ \E s \in published, n \in 0..catalog :
       /\ s.session = selection.session
       /\ selection' = [s EXCEPT !.session = @ + 1]
       /\ catalog' = n
  /\ published' = published \cup {selection'}
  /\ handler' = [c \in Clients |-> "none"]
  /\ answer' = [c \in Clients |-> None]
  /\ clients' = {} /\ lock' = None /\ due' = [c \in Clients |-> {}]
  /\ unannounced' = 0 /\ notices' = [c \in Clients |-> 0]
  /\ conn' = [c \in Clients |-> IF Open(c) THEN "closing" ELSE conn[c]]
  /\ toServer' = [c \in Clients |-> <<>>]
  /\ UNCHANGED toClient

\* What the service does by itself; it is never stopped from doing it.
Serve(c) ==
  \/ Accept(c) \/ EndHandler(c)
  \/ BeginRead(c) \/ Read(c) \/ Answer(c)
  \/ Update(c) \/ AnswerUpdate(c) \/ EndUpdate(c)
  \/ \E d \in Clients : Deliver(c, d) \/ ExpireDelivery(c, d)
  \/ Notify(c) \/ ExpireNotice(c)
=============================================================================
