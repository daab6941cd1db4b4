------------------------------ MODULE Tournaments ------------------------------
(* Which tournament is the current one (routers/tournaments.py and           *)
(* queries/tournaments.py): administrators create, mark, edit and delete     *)
(* tournaments at once, and fixtures are filed under the current one.        *)
(* "If setting is_current = True, unset all others first" is a statement     *)
(* that visits the rows of its snapshot one by one and waits for the locks   *)
(* of other transactions; nothing else keeps two rows from being current.    *)
EXTENDS Integers, FiniteSets

CONSTANTS
  Tournaments,     \* ids that may be issued
  Edits,           \* requests
  Nobody

ASSUME NobodyAssumption == Nobody \notin Edits

VARIABLES
  tournaments,     \* the rows there are
  issued,          \* the ids issued so far
  is_current,      \* the rows whose committed is_current is TRUE
  holder,          \* whose transaction holds each row's lock
  edit,            \* the stage of each request
  op, target,      \* what it asks for, and of which tournament
  left,            \* rows of the unsetting statement's snapshot still to visit
  late,            \* ids issued while a marking was under way
  filed            \* the tournaments fixtures were created in

request == <<edit, op, target, left>>
tournamentVars == <<tournaments, issued, is_current, holder, request, late, filed>>

Ops == {"none", "mark", "unmark", "edit", "fixture"}
EditStages == {"new", "marking", "writing", "written", "chosen", "ended"}

TournamentTypeOK ==
  /\ tournaments \subseteq issued /\ issued \subseteq Tournaments
  /\ is_current \subseteq tournaments
  /\ holder \in [Tournaments -> Edits \cup {Nobody}]
  /\ edit \in [Edits -> EditStages]
  /\ op \in [Edits -> Ops]
  /\ target \in [Edits -> Tournaments]
  /\ left \in [Edits -> SUBSET issued]
  /\ late \subseteq issued
  /\ filed \subseteq tournaments

TournamentInit ==
  /\ tournaments \in SUBSET Tournaments /\ issued = tournaments
  /\ is_current \in {{t} : t \in tournaments} \cup {{}}
  /\ holder = [t \in Tournaments |-> Nobody]
  /\ edit = [r \in Edits |-> "new"]
  /\ op = [r \in Edits |-> "none"]
  /\ target \in {[r \in Edits |-> t] : t \in Tournaments}
  /\ left = [r \in Edits |-> {}]
  /\ late = {} /\ filed = {}

EditGoes(r, stage) == edit' = [edit EXCEPT ![r] = stage]
Locks(r) == {t \in Tournaments : holder[t] = r}
Release(r) == holder' = [t \in Tournaments |-> IF holder[t] = r THEN Nobody ELSE holder[t]]
Lockable(r, t) == holder[t] \in {r, Nobody}

\* From the snapshot of r's unsetting statement to the end of its transaction.
Marking(r) == op[r] = "mark" /\ edit[r] \in {"writing", "written"}

\* Tournaments are created not current, and their id is new.
create_tournament(t) ==
  /\ t \in Tournaments \ issued
  /\ tournaments' = tournaments \cup {t}
  /\ issued' = issued \cup {t}
  /\ late' = IF \E r \in Edits : Marking(r) THEN late \cup {t} ELSE late
  /\ UNCHANGED <<is_current, holder, request, filed>>

\* One statement, which waits for the row's lock; fixtures go with the row.
delete_tournament(t) ==
  /\ t \in tournaments /\ holder[t] = Nobody
  /\ tournaments' = tournaments \ {t}
  /\ is_current' = is_current \ {t}
  /\ filed' = filed \ {t}
  /\ UNCHANGED <<issued, holder, request, late>>

\* The transaction's first SELECT finds the row or the request ends; what to
\* set is "mark" (is_current TRUE), "unmark" (FALSE) or "edit" (other fields).
ReadBefore(r, o, t) ==
  /\ edit[r] = "new"
  /\ op' = [op EXCEPT ![r] = o]
  /\ target' = [target EXCEPT ![r] = t]
  /\ EditGoes(r, IF t \notin tournaments THEN "ended"
                 ELSE IF o = "mark" THEN "marking" ELSE "writing")
  /\ UNCHANGED <<tournaments, issued, is_current, holder, left, late, filed>>

\* Mutant of UnsetRows: UPDATE ... WHERE is_current.
UnsetCurrentRows == is_current
UnsetRows == tournaments

\* UPDATE tournaments SET is_current = FALSE: its snapshot.
StartUnset(r) ==
  /\ edit[r] = "marking"
  /\ left' = [left EXCEPT ![r] = UnsetRows]
  /\ EditGoes(r, "writing")
  /\ UNCHANGED <<tournaments, issued, is_current, holder, op, target, late, filed>>

\* The next row of the snapshot, once nobody else holds it and unless it is
\* gone by now; the order is the heap's.
UnsetRow(r, t) ==
  /\ edit[r] = "writing" /\ t \in left[r]
  /\ left' = [left EXCEPT ![r] = @ \ {t}]
  /\ IF t \in tournaments
     THEN Lockable(r, t) /\ holder' = [holder EXCEPT ![t] = r]
     ELSE UNCHANGED holder
  /\ UNCHANGED <<tournaments, issued, is_current, edit, op, target, late, filed>>

\* UPDATE tournaments SET ... WHERE id = $1, of no row if it was deleted.
WriteTarget(r) ==
  /\ edit[r] = "writing" /\ left[r] = {}
  /\ IF target[r] \in tournaments
     THEN Lockable(r, target[r]) /\ holder' = [holder EXCEPT ![target[r]] = r]
     ELSE UNCHANGED holder
  /\ EditGoes(r, "written")
  /\ UNCHANGED <<tournaments, issued, is_current, op, target, left, late, filed>>

\* The row is read again, the audit entry inserted and the whole committed.
CommitEdit(r) ==
  /\ edit[r] = "written"
  /\ is_current' =
       CASE op[r] = "mark" -> (is_current \ Locks(r)) \cup ({target[r]} \cap tournaments)
         [] op[r] = "unmark" -> is_current \ {target[r]}
         [] OTHER -> is_current
  /\ Release(r)
  /\ EditGoes(r, "ended")
  /\ UNCHANGED <<tournaments, issued, op, target, left, late, filed>>

\* The connection is lost, a statement waits longer than command_timeout, or
\* the database breaks a circle of waiting transactions.
AbortEdit(r) ==
  /\ edit[r] \in {"marking", "writing", "written"}
  /\ Release(r)
  /\ left' = [left EXCEPT ![r] = {}]
  /\ EditGoes(r, "ended")
  /\ UNCHANGED <<tournaments, issued, is_current, op, target, late, filed>>

\* create_fixture without a tournament_id: any one current row will do.
get_current_tournament(r) ==
  /\ edit[r] = "new"
  /\ op' = [op EXCEPT ![r] = "fixture"]
  /\ \/ is_current = {} /\ EditGoes(r, "ended") /\ UNCHANGED target
     \/ \E t \in is_current :
          EditGoes(r, "chosen") /\ target' = [target EXCEPT ![r] = t]
  /\ UNCHANGED <<tournaments, issued, is_current, holder, left, late, filed>>

\* The foreign key refuses a tournament deleted meanwhile.
create_fixture(r) ==
  /\ edit[r] = "chosen"
  /\ filed' = filed \cup ({target[r]} \cap tournaments)
  /\ EditGoes(r, "ended")
  /\ UNCHANGED <<tournaments, issued, is_current, holder, op, target, left, late>>

update_tournament(r) ==
  \/ \E o \in {"mark", "unmark", "edit"}, t \in Tournaments : ReadBefore(r, o, t)
  \/ StartUnset(r)
  \/ \E t \in Tournaments : UnsetRow(r, t)
  \/ WriteTarget(r) \/ CommitEdit(r) \/ AbortEdit(r)

TournamentNext ==
  \/ \E t \in Tournaments : create_tournament(t) \/ delete_tournament(t)
  \/ \E r \in Edits : \/ update_tournament(r)
                      \/ get_current_tournament(r) \/ create_fixture(r)

TournamentSpec == TournamentInit /\ [][TournamentNext]_tournamentVars

-------------------------------------------------------------------------------
\* "If setting is_current = True, unset all others first" unsets those of its
\* snapshot: two tournaments are current only if one of them was created while
\* a marking was under way.  Of any others, whatever is marked, unmarked and
\* deleted at once, at most one is.
TwoCurrentOnlyByCreation ==
  \A t, u \in is_current : t # u => {t, u} \cap late # {}
===============================================================================
