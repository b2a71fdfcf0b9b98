--------------------------- MODULE MCHttpHandshake ---------------------------
(***************************************************************************)
(* Byte strings for HttpHandshake: all bits clear, all set, and a mixture. *)
(***************************************************************************)
EXTENDS HttpHandshake

SomeNonces ==
    {[i \in 0 .. 15 |-> 0], [i \in 0 .. 15 |-> 255], [i \in 0 .. 15 |-> 17 * i]}
=============================================================================
