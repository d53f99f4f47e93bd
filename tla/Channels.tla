------------------------------- MODULE Channels -------------------------------
(***************************************************************************)
(* The WebSocket connections between viewports and service: two FIFO         *)
(* channels per viewport.  The library delivers what it was given in order    *)
(* or loses a whole suffix with the connection.                              *)
(***************************************************************************)
EXTENDS Sequences, Naturals

CONSTANTS
  Clients,    \* viewports
  None,       \* Python's and Godot's null
  Capacity    \* messages a connection buffers before a send has to wait

ASSUME ChannelAssumption ==
  /\ Capacity \in Nat \ {0}
  /\ None \notin Clients /\ None \notin [session : Nat, revision : Nat, by : Clients \cup {None}]

VARIABLES
  conn,       \* state of each viewport's connection
  toServer,   \* requests on their way
  toClient    \* answers and broadcasts on their way

channels == <<conn, toServer, toClient>>

\* "closing": the service's side is gone, the viewport has not noticed yet.
ConnStates == {"closed", "open", "closing"}

Open(c) == conn[c] = "open"
Room(c) == Len(toClient[c]) < Capacity
Post(c, m) == toClient' = [toClient EXCEPT ![c] = Append(@, m)]
Request(c, m) == toServer' = [toServer EXCEPT ![c] = Append(@, m)]

\* The service's side of a connection goes away.
Close(c) == conn' = [conn EXCEPT ![c] = "closing"]
=============================================================================
