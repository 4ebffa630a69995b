--------------------------- MODULE WebSocketBridge ---------------------------
(***************************************************************************)
(* The way of a frame from a simulation thread to the client: the thread   *)
(* reads the id of the active connection (ws_bridge_send_json_from_any_    *)
(* thread), mg_wakeup writes the frame to mongoose's datagram socket, the  *)
(* event loop reads it and sends it if there still is a connection of that *)
(* id (server.c, and mongoose.c as server.c uses it).  Ids are not reused. *)
(***************************************************************************)
EXTENDS Integers, Sequences

CONSTANTS
  Connections,  \* ids of the connections that are upgraded to WebSockets
  NoConnection, \* 0, the id of none
  Threads,      \* threads that send
  PipeSize      \* frames the socket holds; a frame more is lost without notice

ASSUME BridgeAssumption == NoConnection \notin Connections /\ PipeSize \in Nat

VARIABLES
  link,     \* each connection: "none", "open" or "closed"
  wsConnId, \* g_ws_conn_id
  latest,   \* history: the connection opened last
  sending,  \* the frame each thread has addressed and not yet written
  pipe,     \* frames written and not read
  shown,    \* what the client at each open connection received last
  lost      \* history: open connections that missed a frame

bridgeVars == <<link, wsConnId, latest, sending, pipe, shown, lost>>

NoFrame      == [kind |-> "none"]
Nothing      == [update |-> <<>>, complete |-> FALSE]
IsOpen(c)    == c \in Connections /\ link[c] = "open"

BridgeInit ==
  /\ link = [c \in Connections |-> "none"]
  /\ wsConnId = NoConnection /\ latest = NoConnection
  /\ sending = [t \in Threads |-> NoFrame]
  /\ pipe = <<>>
  /\ shown = [c \in Connections |-> Nothing]
  /\ lost = {}

-----------------------------------------------------------------------------
(* The threads *)

\* A handler writes the text of a frame and the bridge reads the id, under
\* g_ws_mutex, which is released before the id is used.
BeginSend(t, kind, data) ==
  sending' = [sending EXCEPT ![t] = [to |-> wsConnId, kind |-> kind, data |-> data]]

mg_wakeup(t) ==
  LET frame == sending[t]
  IN  /\ frame # NoFrame
      /\ sending' = [sending EXCEPT ![t] = NoFrame]
      /\ CASE frame.to = NoConnection -> UNCHANGED <<pipe, lost>>
           [] frame.to # NoConnection /\ Len(pipe) < PipeSize ->
                pipe' = Append(pipe, frame) /\ UNCHANGED lost
           [] OTHER ->
                lost' = lost \cup {c \in Connections : c = frame.to /\ IsOpen(c)} /\ UNCHANGED pipe
      /\ UNCHANGED <<link, wsConnId, latest, shown>>

-----------------------------------------------------------------------------
(* The event loop *)

\* MG_EV_WS_OPEN
WsOpen(c) ==
  /\ link[c] = "none"
  /\ link' = [link EXCEPT ![c] = "open"]
  /\ wsConnId' = c /\ latest' = c
  /\ UNCHANGED <<sending, pipe, shown, lost>>

\* Mutant: whichever connection closes, the active one is forgotten.
Close_Any(c) ==
  /\ IsOpen(c)
  /\ link' = [link EXCEPT ![c] = "closed"]
  /\ wsConnId' = NoConnection
  /\ shown' = [shown EXCEPT ![c] = Nothing] /\ lost' = lost \ {c}
  /\ UNCHANGED <<latest, sending, pipe>>

\* MG_EV_CLOSE
Close(c) ==
  /\ IsOpen(c)
  /\ link' = [link EXCEPT ![c] = "closed"]
  /\ wsConnId' = IF wsConnId = c THEN NoConnection ELSE wsConnId
  /\ shown' = [shown EXCEPT ![c] = Nothing] /\ lost' = lost \ {c}
  /\ UNCHANGED <<latest, sending, pipe>>

Show(view, frame) ==
  IF frame.kind = "stats_update" THEN [view EXCEPT !.update = frame.data]
                                 ELSE [view EXCEPT !.complete = TRUE]

\* MG_EV_WAKEUP
Deliver ==
  /\ pipe # <<>>
  /\ pipe' = Tail(pipe)
  /\ LET frame == Head(pipe)
     IN  shown' = IF IsOpen(frame.to) THEN [shown EXCEPT ![frame.to] = Show(@, frame)] ELSE shown
  /\ UNCHANGED <<link, wsConnId, latest, sending, lost>>

-----------------------------------------------------------------------------
(* Properties *)

\* A client that reconnects gets the frames, whichever of its two connections
\* the server hears of first: while the connection opened last is open it is the
\* active one, and no other connection than an open one is (server.c:405-409,
\* 485-490).
LatestOpenIsActive ==
  /\ IsOpen(latest) => wsConnId = latest
  /\ wsConnId # NoConnection => IsOpen(wsConnId)
=============================================================================
