----------------------------- MODULE ShareLog ------------------------------
(***************************************************************************)
(* What a group promises its members: an append-only log of shares.  A     *)
(* share is published once, by one node, and never changes or goes away;   *)
(* every member holds a part of the log that only grows, out of what the   *)
(* other members hold.                                                     *)
(***************************************************************************)
EXTENDS Naturals

CONSTANTS Nodes, Ids, None

VARIABLES
  record,   \* the log: share id -> the record published under it, None before
  entries   \* node -> the share ids that have reached it

Publish(d, id, r) ==
  /\ record[id] = None
  /\ r # None
  /\ record' = [record EXCEPT ![id] = r]
  /\ entries' = [entries EXCEPT ![d] = @ \cup {id}]

Replicate(d, e, id) ==
  /\ id \in entries[e]
  /\ entries' = [entries EXCEPT ![d] = @ \cup {id}]
  /\ UNCHANGED record

Init ==
  /\ record = [id \in Ids |-> None]
  /\ entries = [d \in Nodes |-> {}]

Next ==
  \E d \in Nodes, id \in Ids :
    \/ Publish(d, id, record'[id])
    \/ \E e \in Nodes : Replicate(d, e, id)

Spec == Init /\ [][Next]_<<record, entries>>
=============================================================================
