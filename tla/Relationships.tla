---------------------------- MODULE Relationships ----------------------------
(***************************************************************************)
(* The data that Loth replicates: relationship tuples, the events that     *)
(* mutate them (replication.rs), the updates those events become, and what *)
(* SpiceDB does with one WriteRelationships request.                       *)
(*                                                                         *)
(* SpiceDB is not part of the repository.  Its operators are external: they*)
(* say what proto/authzed/api/v1 documents and rebac.rs relies on.  One    *)
(* request is a transaction, it is rejected as a whole, and a request with *)
(* two updates of one relationship is rejected.                            *)
(***************************************************************************)
EXTENDS Naturals, Sequences

CONSTANTS
  Tuples,   \* the relationships (RelationshipTuple: an immutable value)
  Invalid   \* those the active schema does not admit

ASSUME InvalidAssumption == Invalid \subseteq Tuples

(* ReplicationEvent: Upsert(tuple) or Delete(tuple). *)
Event == [op : {"Upsert", "Delete"}, tuple : Tuples]

(* RelationshipOp, as it reaches the wire. *)
Operation == {"CREATE", "TOUCH", "DELETE"}

Update == [operation : Operation, relationship : Tuples]

-----------------------------------------------------------------------------
(* A build that exchanges the two wire operations. *)
Mutant_SwappedOperations(events) ==
  [i \in DOMAIN events |->
     [operation    |-> IF events[i].op = "Upsert" THEN "DELETE" ELSE "TOUCH",
      relationship |-> events[i].tuple]]

(* build_updates: an upsert is sent as TOUCH, a delete as DELETE, in the   *)
(* order of the events and without merging those of one tuple.             *)
BuildUpdates(events) ==
  [i \in DOMAIN events |->
     [operation    |-> IF events[i].op = "Upsert" THEN "TOUCH" ELSE "DELETE",
      relationship |-> events[i].tuple]]

-----------------------------------------------------------------------------
(* SpiceDB's side of one WriteRelationships request. *)

Conflicting(updates) ==
  \E i, j \in DOMAIN updates :
     i # j /\ updates[i].relationship = updates[j].relationship

Touched(updates) ==
  {updates[i].relationship :
     i \in {k \in DOMAIN updates : updates[k].operation # "DELETE"}}

Deleted(updates) ==
  {updates[i].relationship :
     i \in {k \in DOMAIN updates : updates[k].operation = "DELETE"}}

(* ERROR_REASON_UPDATES_ON_SAME_RELATIONSHIP, a tuple the schema does not  *)
(* know, or a CREATE of what already exists.                               *)
Rejected(rels, updates) ==
  \/ Conflicting(updates)
  \/ \E i \in DOMAIN updates : updates[i].relationship \in Invalid
  \/ \E i \in DOMAIN updates : /\ updates[i].operation = "CREATE"
                               /\ updates[i].relationship \in rels

(* The relationships after an accepted request. *)
Commit(rels, updates) == (rels \ Deleted(updates)) \cup Touched(updates)

=============================================================================
