------------------------------ MODULE ExternalIds ------------------------------
(* The identity map of one provider and kind of entity                       *)
(* (routers/external_ids.py, queries/external_ids.py): transactions that set *)
(* or remove an entity's external id and append an audit entry.  The table   *)
(* has two unique keys, of which the upsert arbitrates one; on either a      *)
(* statement waits for the transaction that decides.  The log is ordered by  *)
(* created_at, the start of the transaction, and by nothing else.            *)
EXTENDS Integers

CONSTANTS
  Entities,
  ForeignIds,      \* the provider's ids
  NoId,
  Imports          \* requests

ASSUME NoIdAssumption == NoId \notin ForeignIds

VARIABLES
  external_id,     \* committed: the external id of each entity, or NoId
  import,          \* the stage of each request
  entity,          \* whose id it sets
  wanted,          \* to what, NoId to remove it
  began,           \* NOW() of its transaction
  audit,           \* audit_log: the entries of committed transactions
  instant          \* the clock: no two begin or commit at one instant

externalVars == <<external_id, import, entity, wanted, began, audit, instant>>

ImportStages == {"new", "began", "locked", "written", "ended", "failed"}

\* created_at DEFAULT NOW(); ended is no column, but when the entry came to be
\* seen.
Entry == [entity : Entities, id : ForeignIds \cup {NoId},
          created_at : Nat, ended : Nat]

ExternalIdsTypeOK ==
  /\ external_id \in [Entities -> ForeignIds \cup {NoId}]
  /\ import \in [Imports -> ImportStages]
  /\ entity \in [Imports -> Entities]
  /\ wanted \in [Imports -> ForeignIds \cup {NoId}]
  /\ began \in [Imports -> Nat]
  /\ audit \subseteq Entry
  /\ instant \in Nat

ExternalIdsInit ==
  /\ external_id = [e \in Entities |-> NoId]
  /\ import = [r \in Imports |-> "new"]
  /\ entity \in {[r \in Imports |-> e] : e \in Entities}
  /\ wanted = [r \in Imports |-> NoId]
  /\ began = [r \in Imports |-> 0]
  /\ audit = {}
  /\ instant = 0

ImportGoes(r, stage) == import' = [import EXCEPT ![r] = stage]

BeginImport(r, e, x) ==
  /\ import[r] = "new"
  /\ entity' = [entity EXCEPT ![r] = e]
  /\ wanted' = [wanted EXCEPT ![r] = x]
  /\ instant' = instant + 1
  /\ began' = [began EXCEPT ![r] = instant']
  /\ ImportGoes(r, "began")
  /\ UNCHANGED <<external_id, audit>>

\* Mutant of RowFree: the row of the entity is not waited for.
RowIgnored(r) == TRUE

\* Nobody else's transaction has locked, inserted or deleted the entity's row.
RowFree(r) ==
  \A q \in Imports : import[q] \in {"locked", "written"} => entity[q] # entity[r]

\* No transaction that has written, and may still roll back, brings the
\* external id into the table or takes it out.
IdDecided(r) ==
  \A q \in Imports \ {r} :
    import[q] = "written" => wanted[r] \notin {wanted[q], external_id[entity[q]]}

IdTaken(r) == \E e \in Entities \ {entity[r]} : external_id[e] = wanted[r]

\* ON CONFLICT (provider, entity_type, entity_id): the row is locked first.
LockRow(r) ==
  /\ import[r] = "began" /\ wanted[r] # NoId
  /\ external_id[entity[r]] # NoId /\ RowFree(r)
  /\ ImportGoes(r, "locked")
  /\ UNCHANGED <<external_id, entity, wanted, began, audit, instant>>

\* INSERT of a new row, or DO UPDATE of the locked one; the other unique key
\* makes it wait, or fail.
upsert(r) ==
  /\ \/ import[r] = "locked"
     \/ /\ import[r] = "began" /\ wanted[r] # NoId
        /\ external_id[entity[r]] = NoId /\ RowFree(r)
  /\ \/ IdTaken(r) /\ ImportGoes(r, "failed")
     \/ ~IdTaken(r) /\ IdDecided(r) /\ ImportGoes(r, "written")
  /\ UNCHANGED <<external_id, entity, wanted, began, audit, instant>>

\* DELETE sees a committed row, waits for whoever changes it, and then deletes
\* it if it is still there; NotFoundError leaves the transaction.
delete(r) ==
  /\ import[r] = "began" /\ wanted[r] = NoId
  /\ \/ external_id[entity[r]] = NoId /\ ImportGoes(r, "failed")
     \/ external_id[entity[r]] # NoId /\ RowFree(r) /\ ImportGoes(r, "written")
  /\ UNCHANGED <<external_id, entity, wanted, began, audit, instant>>

\* The audit entry is inserted and the transaction commits.
CommitImport(r) ==
  /\ import[r] = "written"
  /\ external_id' = [external_id EXCEPT ![entity[r]] = wanted[r]]
  /\ instant' = instant + 1
  /\ audit' = audit \cup {[entity |-> entity[r], id |-> wanted[r],
                          created_at |-> began[r], ended |-> instant']}
  /\ ImportGoes(r, "ended")
  /\ UNCHANGED <<entity, wanted, began>>

\* The connection is lost, or the database breaks a circle: two requests that
\* exchange ids wait for each other.
AbortImport(r) ==
  /\ import[r] \in {"began", "locked", "written"}
  /\ ImportGoes(r, "failed")
  /\ UNCHANGED <<external_id, entity, wanted, began, audit, instant>>

ExternalIdsNext ==
  \E r \in Imports :
    \/ \E e \in Entities, x \in ForeignIds \cup {NoId} : BeginImport(r, e, x)
    \/ LockRow(r) \/ upsert(r) \/ delete(r)
    \/ CommitImport(r) \/ AbortImport(r)

ExternalIdsSpec == ExternalIdsInit /\ [][ExternalIdsNext]_externalVars

-------------------------------------------------------------------------------
About(e) == {a \in audit : a.entity = e}

\* The map holds of an entity what one of its entries says that no later one
\* follows: of transactions that overlapped created_at may give the wrong order,
\* but never of one that began after the other's commit.  Every removal in the
\* log took an id that was set since the removal before it, however many waited
\* for the row ("DELETE 1"), and an external id names one entity (011).
MappingsAreAudited ==
  /\ \A e \in Entities :
       \/ About(e) = {} /\ external_id[e] = NoId
       \/ \E a \in About(e) : /\ external_id[e] = a.id
                               /\ \A b \in About(e) : b.created_at <= a.ended
  /\ \A d \in audit : d.id = NoId =>
       \E a \in About(d.entity) :
         /\ a.id # NoId /\ a.ended < d.ended
         /\ \A b \in About(d.entity) :
              b.id = NoId => b.ended < a.ended \/ d.ended <= b.ended
  /\ \A e, f \in Entities :
       e # f /\ external_id[e] = external_id[f] => external_id[e] = NoId
===============================================================================
