------------------------ MODULE MCWebSocketReceiver ------------------------
(***************************************************************************)
(* WebSocketReceiver for TLC: a server, and frames of every kind that recv *)
(* tells apart or should.  Two frames of length 2 fill a message.          *)
(***************************************************************************)
EXTENDS WebSocketReceiver

Good(op, fin, len, code) ==
    [op |-> op, fin |-> fin, rsv |-> FALSE, masked |-> TRUE, len |-> len, code |-> code]

Bad(op) == [Good(op, TRUE, 0, 0) EXCEPT !.masked = FALSE]

\* Data frames and control frames.
Lawful ==
    {Good(op, fin, 2, 0) : op \in DataOps, fin \in BOOLEAN}
    \cup {Good(op, TRUE, MaxLength, 0) : op \in {"text", "continuation"}}
    \cup {Good(op, TRUE, 0, 0) : op \in ControlOps}
    \cup {Good("close", TRUE, len, kCloseNormal) : len \in {2, 3}}

\* Frames that recv refuses by their header.
Refused ==
    {Bad("text"), Good("reserved", TRUE, 0, 0)}
    \cup {Good(op, TRUE, MaxLength + 1, 0) : op \in {"text", "continuation", "ping"}}

\* Frames that recv takes although RFC 6455 forbids them.
Taken ==
    {[Good(op, op = "text", 2, 0) EXCEPT !.rsv = TRUE] : op \in {"text", "continuation"}}
    \cup {Good(op, FALSE, 0, 0) : op \in ControlOps}
    \cup {Good(op, TRUE, MaxControl + 1, 0) : op \in {"close", "ping"}}
    \cup {Good("close", TRUE, 1, 0)}

MCFrames == Lawful \cup Refused \cup Taken
=============================================================================
