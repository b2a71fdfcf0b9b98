------------------------------ MODULE TopicMap ------------------------------
(***************************************************************************)
(* What the registry promises (rcom/IRegistry.h): a partial function from  *)
(* topics to addresses.  A topic has the address it was last set to.       *)
(***************************************************************************)
CONSTANTS
    Topics,
    Addresses,
    NoAddress       \* the value of a topic that is not registered

VARIABLE
    map             \* map[t]: the address of topic t

Init == map = [t \in Topics |-> NoAddress]

Set(t, a) == map' = [map EXCEPT ![t] = a]

Remove(t) == map' = [map EXCEPT ![t] = NoAddress]

\* The registry is started again: nothing is kept on disk.
Forget == map' = [t \in Topics |-> NoAddress]

Next ==
    \/ \E t \in Topics, a \in Addresses : Set(t, a)
    \/ \E t \in Topics : Remove(t)
    \/ Forget

Spec == Init /\ [][Next]_map
=============================================================================
