------------------------------- MODULE Viewport -------------------------------
(***************************************************************************)
(* src/godot/scripts/ciw_client.gd: a viewport keeps the last selection and   *)
(* snapshot it was told of, sends at most one selection.update and one         *)
(* session.get at a time, queues what its user does meanwhile, and compares    *)
(* revisions because answers and broadcasts overtake each other.               *)
(***************************************************************************)
EXTENDS Channels

CONSTANTS
  Users,            \* the viewports whose user acts
  Polling,          \* the viewports whose heartbeat comes due
  MaxRevision,      \* bound: revisions a viewport asks to replace are below it
  MaxConnections    \* bound: connections all viewports make

VARIABLES
  connections,     \* the sum of _generation, to bound it
  view,            \* selection, with the session it belongs to, or None
  session,         \* _session_id, 0 before the first snapshot
  shot,            \* the catalog revision of snapshot
  queued,          \* _queued_selection: the view its user acted on, or None
  updating,        \* _selection_pending
  refreshing,      \* _refresh_pending
  dirty            \* _snapshot_dirty

flags == <<updating, refreshing, dirty>>
viewportVars == <<connections, view, session, shot, queued, flags>>

ViewportInit ==
  /\ connections = 0
  /\ view = [c \in Clients |-> None]
  /\ session = [c \in Clients |-> 0]
  /\ shot = [c \in Clients |-> 0]
  /\ queued = [c \in Clients |-> None]
  /\ updating = [c \in Clients |-> FALSE]
  /\ refreshing = [c \in Clients |-> FALSE]
  /\ dirty = [c \in Clients |-> FALSE]

Get == [type |-> "get"]
Set(f, c, v) == [f EXCEPT ![c] = v]

\* _request_snapshot, unless one is under way.
RequestSnapshot(c) ==
  IF refreshing[c] THEN UNCHANGED <<refreshing, toServer>>
  ELSE refreshing' = Set(refreshing, c, TRUE) /\ Request(c, Get)

\* connect_service, and the first poll that finds the socket open.
Connect(c) ==
  /\ conn[c] = "closed" /\ connections < MaxConnections
  /\ connections' = connections + 1
  /\ conn' = Set(conn, c, "open")
  /\ toClient' = Set(toClient, c, <<>>)
  /\ toServer' = Set(toServer, c, <<Get>>)
  /\ queued' = Set(queued, c, None)
  /\ updating' = Set(updating, c, FALSE)
  /\ refreshing' = Set(refreshing, c, TRUE)
  /\ dirty' = Set(dirty, c, FALSE)
  /\ UNCHANGED <<view, session, shot>>

\* _disconnect: the socket closed, an answer timed out or the user reconnects.
Disconnect(c) ==
  /\ conn[c] # "closed"
  /\ conn' = Set(conn, c, "closed")
  /\ toClient' = Set(toClient, c, <<>>)
  /\ updating' = Set(updating, c, FALSE)
  /\ refreshing' = Set(refreshing, c, FALSE)
  /\ UNCHANGED <<connections, view, session, shot, queued, dirty, toServer>>

Online(c) == conn[c] # "closed"

\* update_selection: what the user chose while looking at the view joins the queue.
Intend(c) ==
  /\ c \in Users /\ Online(c) /\ view[c] # None /\ queued[c] = None
  /\ queued' = Set(queued, c, view[c])
  /\ UNCHANGED <<connections, view, session, shot, flags, channels>>

\* _process: the queue goes out with the revision that is shown by now.  The message
\* also notes, for the properties, its session and whether another viewport's
\* change came between what its user saw and what is shown.
SendUpdate(c) ==
  /\ Online(c) /\ ~updating[c] /\ ~refreshing[c] /\ queued[c] # None
  /\ view[c].revision < MaxRevision
  /\ Request(c, [type |-> "update", expected |-> view[c].revision,
                 session |-> view[c].session,
                 blind |-> queued[c] # view[c] /\ view[c].by # c])
  /\ queued' = Set(queued, c, None)
  /\ updating' = Set(updating, c, TRUE)
  /\ UNCHANGED <<connections, view, session, shot, refreshing, dirty, conn, toClient>>

Heartbeat(c) ==
  /\ c \in Polling /\ Online(c) /\ ~refreshing[c]
  /\ RequestSnapshot(c)
  /\ UNCHANGED <<connections, view, session, shot, queued, updating, dirty, conn, toClient>>

\* _apply_selection of a selection of the session that is shown.
LaterAlways(s, old) == TRUE                      \* bug: revisions not compared
Later(s, old) == old = None \/ s.revision > old.revision
ApplySelection(c, s) == view' = IF Later(s, view[c]) THEN Set(view, c, s) ELSE view

\* bug: a snapshot of another session is treated as one of the session shown.
SessionBlind(c, m) ==
  /\ session' = Set(session, c, m.selection.session)
  /\ shot' = Set(shot, c, m.catalog)
  /\ ApplySelection(c, m.selection)
  /\ UNCHANGED queued

\* _apply_snapshot.  A snapshot of another session replaces everything.
ApplySnapshot(c, m) ==
  LET other == m.selection.session # session[c]
  IN  IF ~other /\ m.catalog < shot[c]
        THEN UNCHANGED <<connections, view, session, shot, queued>>
        ELSE /\ session' = Set(session, c, m.selection.session)
             /\ shot' = Set(shot, c, m.catalog)
             /\ IF other
                  THEN view' = Set(view, c, m.selection) /\ queued' = Set(queued, c, None)
                  ELSE ApplySelection(c, m.selection) /\ UNCHANGED queued

Receive(c, type) ==
  /\ Online(c) /\ toClient[c] # <<>> /\ Head(toClient[c]).type = type
  /\ toClient' = [toClient EXCEPT ![c] = Tail(@)]
  /\ UNCHANGED conn

\* The snapshot the service sends of its own accord.
ReceiveSnapshot(c) ==
  /\ Receive(c, "snapshot")
  /\ ApplySnapshot(c, Head(toClient[c]))
  /\ UNCHANGED <<connections, flags, toServer>>

\* The answer to session.get; an invalidation received meanwhile asks again.
ForgetfulAgain(c) == FALSE                       \* bug: the dirty flag is not looked at
Again(c) == dirty[c]

ReceiveAnswer(c) ==
  /\ Receive(c, "got")
  /\ ApplySnapshot(c, Head(toClient[c]))
  /\ IF Again(c)
       THEN /\ dirty' = Set(dirty, c, FALSE)
            /\ Request(c, Get) /\ UNCHANGED refreshing
       ELSE refreshing' = Set(refreshing, c, FALSE) /\ UNCHANGED <<dirty, toServer>>
  /\ UNCHANGED <<connections, updating>>

\* selection.changed carries no session: it is taken to be of the one shown.
ReceiveChanged(c) ==
  /\ Receive(c, "changed")
  /\ ApplySelection(c, Head(toClient[c]).selection)
  /\ UNCHANGED <<connections, session, shot, queued, flags, toServer>>

\* workbench.changed: read again, now or after the read under way.
ReceiveInvalidation(c) ==
  /\ Receive(c, "workbench")
  /\ dirty' = Set(dirty, c, refreshing[c])
  /\ RequestSnapshot(c)
  /\ UNCHANGED <<connections, view, session, shot, queued, updating>>

ReceiveUpdated(c) ==
  /\ Receive(c, "updated")
  /\ updating' = Set(updating, c, FALSE)
  /\ ApplySelection(c, Head(toClient[c]).selection)
  /\ UNCHANGED <<connections, session, shot, queued, refreshing, dirty, toServer>>

\* bug: a refusal does not end the update.
ReceiveConflictPending(c) ==
  /\ Receive(c, "conflict")
  /\ queued' = Set(queued, c, None)
  /\ RequestSnapshot(c)
  /\ UNCHANGED <<connections, view, session, shot, updating, dirty>>

\* A refused intent is dropped with whatever was queued behind it.
ReceiveConflict(c) ==
  /\ Receive(c, "conflict")
  /\ updating' = Set(updating, c, FALSE)
  /\ queued' = Set(queued, c, None)
  /\ RequestSnapshot(c)
  /\ UNCHANGED <<connections, view, session, shot, dirty>>

React(c) ==
  \/ ReceiveSnapshot(c) \/ ReceiveAnswer(c) \/ ReceiveChanged(c)
  \/ ReceiveInvalidation(c) \/ ReceiveUpdated(c) \/ ReceiveConflict(c)
=============================================================================
