-------------------------------- MODULE Service --------------------------------
(***************************************************************************)
(* The service of src/ciw/server.py and the viewports of                     *)
(* src/godot/scripts/ciw_client.gd over their connections.                    *)
(***************************************************************************)
EXTENDS Server, Viewport

CONSTANT Attentive    \* the viewports that go on reading their connection

ASSUME ViewportAssumption == Attentive \cup Users \cup Polling \subseteq Clients

vars == <<serverVars, viewportVars, channels>>

Init ==
  /\ ServerInit /\ ViewportInit
  /\ conn = [c \in Clients |-> "closed"]
  /\ toServer = [c \in Clients |-> <<>>]
  /\ toClient = [c \in Clients |-> <<>>]

\* A viewport connects again once the service has noticed that it left.
Join(c) == handler[c] = "none" /\ Connect(c)

Act(c) ==
  \/ Join(c) \/ Disconnect(c)
  \/ Intend(c) \/ SendUpdate(c) \/ Heartbeat(c)

Environment == Commit \/ Restart \/ \E c \in Clients : Lose(c)

Next ==
  \/ (Environment \/ Announce) /\ UNCHANGED viewportVars
  \/ \E c \in Clients : Serve(c) /\ UNCHANGED viewportVars
  \/ \E c \in Clients : (Act(c) \/ React(c)) /\ UNCHANGED serverVars

Spec == Init /\ [][Next]_vars

\* The event loop keeps running its tasks, the library's keepalive ends a connection
\* that takes nothing any more, attentive viewports keep polling and notice a closed
\* connection.  Nobody has to connect, to act, to restart or to send a heartbeat.
Fairness ==
  /\ WF_vars(Announce /\ UNCHANGED viewportVars)
  /\ \A c \in Clients :
       /\ WF_vars(Serve(c) /\ UNCHANGED viewportVars)
       /\ WF_vars(Lose(c) /\ ~Room(c) /\ UNCHANGED viewportVars)
  /\ \A c \in Attentive :
       /\ WF_vars(React(c) /\ UNCHANGED serverVars)
       /\ WF_vars(conn[c] = "closing" /\ Disconnect(c) /\ UNCHANGED serverVars)

FairSpec == Spec /\ Fairness

-----------------------------------------------------------------------------
\* selection.changed reaches every client in the order of the revisions: "Preserve
\* broadcast order across concurrent clients." (server.py:98)
BroadcastsInOrder ==
  \A c \in Clients : \A i, j \in DOMAIN toClient[c] :
    /\ i < j
    /\ toClient[c][i].type = "changed" /\ toClient[c][j].type = "changed"
    => toClient[c][i].selection.revision < toClient[c][j].selection.revision

\* An update that the service will accept was sent by a viewport that showed the
\* selection of this very session, although revisions start again from a saved
\* one when a new process serves the workspace (ciw_client.gd:281-289, 128-131).
SessionsNotMixed ==
  \A c \in Clients : Open(c) =>
    \A i \in DOMAIN toServer[c] :
      toServer[c][i].type = "update" => toServer[c][i].session = selection.session

\* docs/PROTOCOL.md:46 "Updates must specify the observed expected_revision": what
\* is applied was chosen by a user who saw the selection it replaces.
IntentsObserved ==
  \A c \in Clients : \A i \in DOMAIN toServer[c] :
    toServer[c][i].type = "update" => ~toServer[c][i].blind

Synchronized(c) == view[c] = selection /\ shot[c] = catalog /\ session[c] = selection.session

\* Once nothing changes any more, every viewport that stays connected shows the
\* selection and the catalog of the service, without its heartbeat's help
\* (server.py:97-106, 119-124; ciw_client.gd:201-207, 246-250).
Converges == \A c \in Attentive : []<>(conn[c] # "open" \/ Synchronized(c))

\* A requested update is answered or its connection ends, although the lock may be
\* held by handlers whose viewports have stopped reading (server.py:57, 107-116).
UpdatesAnswered == \A c \in Attentive : updating[c] ~> ~updating[c]

\* Service and viewports implement the shared selection.
Abstract == INSTANCE SharedSelection
ImplementsSharedSelection == Abstract!Spec
=============================================================================
