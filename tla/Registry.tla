------------------------------ MODULE Registry ------------------------------
(***************************************************************************)
(* The directory of topics (librcom/src/Registry.cpp): a vector of entries *)
(* in the order of their last registration, searched from the front.       *)
(***************************************************************************)
EXTENDS Integers, Sequences, SequencesExt

CONSTANTS
    Topics,
    Addresses,
    NoAddress       \* what get leaves the address at when there is no entry

ASSUME NoAddressAssumption == NoAddress \notin Addresses

Entry == [topic : Topics, address : Addresses]

\* The places of topic t in the vector es.
At(es, t) == {i \in 1 .. Len(es) : es[i].topic = t}

\* find: the index of the first entry of t, 0 for the code's -1.
Find(es, t) ==
    IF At(es, t) = {} THEN 0
    ELSE CHOOSE i \in At(es, t) : \A j \in At(es, t) : i <= j

\* get: the address of t, if it is found.
AddressOf(es, t) ==
    IF Find(es, t) = 0 THEN NoAddress ELSE es[Find(es, t)].address

\* Mutant of Erased: the index -1 of a topic that is not there is not noticed.
ErasedUnchecked(es, t) ==
    IF es = <<>> THEN es ELSE RemoveAt(es, IF Find(es, t) = 0 THEN 1 ELSE Find(es, t))

\* erase: the entries without the first one of t.
Erased(es, t) == IF Find(es, t) = 0 THEN es ELSE RemoveAt(es, Find(es, t))

VARIABLE
    entries         \* entries_

\* Mutant of SetEntry: a topic that is registered again is not erased first.
SetEntryTwice(t, a) == entries' = Append(entries, [topic |-> t, address |-> a])

\* set, for an address that is set (nothing else reaches it: handle_register
\* parses the address before it calls set).
SetEntry(t, a) ==
    entries' = Append(Erased(entries, t), [topic |-> t, address |-> a])

RemoveEntry(t) == entries' = Erased(entries, t)

\* A registry that starts has no entries.
NoEntries == entries = <<>>

Forget == entries' = <<>>

-----------------------------------------------------------------------------
(* The registry on its own, under any sequence of calls.                   *)

NextRegistry ==
    \/ \E t \in Topics, a \in Addresses : SetEntry(t, a)
    \/ \E t \in Topics : RemoveEntry(t)
    \/ Forget

RegistrySpec == NoEntries /\ [][NextRegistry]_entries

\* No topic has two entries, so that the first one is the last one.
OneEntryPerTopic ==
    \A i, j \in 1 .. Len(entries) :
        entries[i].topic = entries[j].topic => i = j

RegistryInv == entries \in Seq(Entry) /\ OneEntryPerTopic

Map == INSTANCE TopicMap WITH map <- [t \in Topics |-> AddressOf(entries, t)]

(***************************************************************************)
(* The vector is the partial function it stands for: get answers with the  *)
(* address of the last set, after any sequence of set and remove, although *)
(* find looks at the first entry of a topic and set appends.               *)
(***************************************************************************)
ImplementsTopicMap == Map!Spec
=============================================================================
