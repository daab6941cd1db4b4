------------------------------ MODULE Invitations -----------------------------
(* How the account of one e-mail address comes about and is administered:    *)
(* inviting, sending a new link, revoking and accepting (routers/users.py,   *)
(* routers/auth.py, queries/users.py), beside the sessions of Sessions.  Only*)
(* the acceptance is a transaction: every other statement commits at once.   *)
EXTENDS Sessions, Sequences, FiniteSets

CONSTANTS
  Clubs,
  First,        \* an invite from before
  FirstClubs,   \* the clubs of that invite
  Offers,       \* the roles and clubs of invites: [role, clubs]
  Updates,      \* what update_user may change: [active, clubs], None to keep
  InviteLifetime

Roles == {"super_admin", "platform_admin", "club_manager"}
Offer == [role : Roles, clubs : SUBSET Clubs]

ASSUME OffersTyped == Offers \subseteq Offer /\ FirstClubs \in (SUBSET Clubs) \ {{}}
ASSUME UpdatesTyped ==
  \A u \in Updates : /\ u.active \in BOOLEAN \cup {None}
                     /\ u.clubs = None \/ u.clubs \in Seq(Clubs)
ASSUME InviteLifetimeTyped == InviteLifetime \in Nat \ {0}
ASSUME FirstIsNew == First \notin Requests \cup Nat \cup {None}
ASSUME OldIsNoRequest == "old" \notin Requests \cup {None}

VARIABLES
  clubs,        \* the clubs that exist
  managers,     \* club_managers: the clubs of the account
  invites,      \* per create_invite request (or First), its row
  read          \* the invite, the account or the clubs a handler has read

inviteVars == <<clubs, managers, invites, read>>
vars == <<sessionVars, inviteVars>>

Invites == Requests \cup {First}
\* accepted_at is NOW() of the acceptance that wrote it, and stands for it.
Invite == [role : Roles, clubs : SUBSET Clubs, token : Invites, at : Seconds,
           accepted : Requests \cup {None}]
User == [password : Requests \cup {None, "old"}, role : Roles, active : BOOLEAN]
ASSUME NoneIsNoUserOrInvite == None \notin User \cup Invite

AccountTypeOK ==
  /\ now \in Seconds /\ clubs \subseteq Clubs
  /\ account \in User \cup {None}
  /\ managers \subseteq (IF account = None THEN {} ELSE clubs)
  /\ sessions \in [Seconds -> Session \cup {None}]
  /\ links \in [Requests -> Link \cup {None}]
  /\ invites \in [Invites -> Invite \cup {None}]
  /\ minted \in [Requests -> Seconds \cup {None}]

\* An address with no account, or a row whose password is "null until invite
\* accepted" (sql/schema.sql), that was sent a first invite; or an account in use.
Init ==
  /\ now = 1 /\ clubs = Clubs /\ managers = {}
  /\ \E password \in {None, "old"} :
       account \in {None, [password |-> password, role |-> "club_manager", active |-> TRUE]}
  /\ invites = [i \in Invites |->
       IF i = First /\ ~HasPassword
       THEN [role |-> "club_manager", clubs |-> FirstClubs, token |-> First, at |-> 1,
             accepted |-> None]
       ELSE None]
  /\ sessions = [t \in Seconds |-> None]
  /\ links = [r \in Requests |-> None]
  /\ pc = [r \in Requests |-> "idle"]
  /\ req = [r \in Requests |-> None]
  /\ answer = [r \in Requests |-> None]
  /\ minted = [r \in Requests |-> None]
  /\ sees = [r \in Requests |-> {}]
  /\ read = [r \in Requests |-> None]

-------------------------------------------------------------------------------
\* Mutant of can_assign_role: who may invite may invite anyone.
can_assign_any_role(actor, target) == actor \in {"super_admin", "platform_admin"}

can_assign_role(actor, target) ==
  \/ actor = "super_admin"
  \/ actor = "platform_admin" /\ target = "club_manager"

Managing == {"super_admin", "platform_admin"}     \* require_user_manager

ASSUME NoneIsNoAsk ==
  None \notin [op : {"create"}, actor : Managing, offer : Offers]
             \cup [op : {"accept"}, token : Invites]
             \cup [op : {"update"}, actor : Managing, update : Updates]

\* The link of an invite, as it was sent or as a rotation made it.
Sent == {First} \cup {r \in Requests : answer[r] = "ok" /\ req[r].op \in {"create", "rotate"}}

\* What the handler reads lets it go on or stops it.
Judge(r, verdict, stage) ==
  /\ IF verdict = "ok" THEN Go(r, stage) ELSE Stop(r, verdict)
  /\ UNCHANGED <<now, account, sessions, links, minted, sees, clubs, managers, invites>>

-------------------------------------------------------------------------------
(* Inviting *)

OfferVerdict(q) ==
  CASE ~can_assign_role(q.actor, q.offer.role) -> "forbidden"
    [] (q.offer.role = "club_manager") # (q.offer.clubs # {}) -> "bad_request"
    [] ~(q.offer.clubs \subseteq clubs) -> "bad_request"
    [] HasPassword -> "conflict"
    [] OTHER -> "ok"

create_invite(r) ==
  \E actor \in Managing, o \in Offers :
    LET q == [op |-> "create", actor |-> actor, offer |-> o]
    IN  Begin(r, q) /\ Judge(r, OfferVerdict(q), "dropping") /\ UNCHANGED read

\* The acceptance that has written the row of i without committing.
InviteLocked(i) == \E r \in Requests : pc[r] = "accepting" /\ read[r].invite = i

\* Mutant of Pending: the state the handler read before is trusted.
PendingWhenRead(i) == invites[i] # None
Pending(i) == invites[i] # None /\ invites[i].accepted = None

\* DELETE: the pending invites it starts with, once none is locked.
SeePending(r) ==
  /\ pc[r] = "dropping"
  /\ sees' = Change(sees, r, {i \in Invites : invites[i] # None /\ invites[i].accepted = None})
  /\ Go(r, "deleting")
  /\ UNCHANGED <<now, account, sessions, links, req, minted, inviteVars>>

DropPending(r) ==
  /\ pc[r] = "deleting"
  /\ \A i \in sees[r] : ~InviteLocked(i)
  /\ invites' = [i \in Invites |-> IF i \in sees[r] /\ Pending(i) THEN None ELSE invites[i]]
  /\ Go(r, "inserting")
  /\ UNCHANGED <<now, account, sessions, links, req, minted, sees, clubs, managers, read>>

InsertInvite(r) ==
  /\ pc[r] = "inserting"
  /\ invites' = Change(invites, r,
       [role |-> req[r].offer.role, clubs |-> req[r].offer.clubs, token |-> r,
        at |-> now, accepted |-> None])
  /\ Stop(r, "ok")
  /\ UNCHANGED <<now, account, sessions, links, req, minted, sees, clubs, managers, read>>

\* regenerate_invite_link, resend_invite and revoke_invite read before they write.
ReadInvite(r) ==
  \E actor \in Managing, op \in {"rotate", "revoke"}, i \in Invites :
    LET verdict == IF invites[i].accepted # None THEN "not_found"
                   ELSE IF can_assign_role(actor, invites[i].role) THEN "ok"
                   ELSE "forbidden"
    IN  /\ invites[i] # None
        /\ Begin(r, [op |-> op, actor |-> actor, invite |-> i])
        /\ Judge(r, verdict, op)
        /\ UNCHANGED read

WriteInvite(r, i, row) ==
  /\ ~InviteLocked(i)
  /\ \/ Pending(i) /\ invites' = Change(invites, i, row) /\ Stop(r, "ok")
     \/ ~Pending(i) /\ Stop(r, "not_found") /\ UNCHANGED invites
  /\ UNCHANGED <<now, account, sessions, links, req, minted, sees, clubs, managers, read>>

rotate_invite_token(r) ==
  LET i == req[r].invite
  IN  /\ pc[r] = "rotate"
      /\ WriteInvite(r, i, IF invites[i] = None THEN None
           ELSE [invites[i] EXCEPT !.token = r, !.at = now, !.accepted = None])

delete_invite(r) == pc[r] = "revoke" /\ WriteInvite(r, req[r].invite, None)

-------------------------------------------------------------------------------
(* accept_invite *)

ByToken(token) == {i \in Invites : invites[i] # None /\ invites[i].token = token}
Acceptable(i) == invites[i].accepted = None /\ now <= invites[i].at + InviteLifetime

FindInvite(r) ==
  \E token \in Sent :
    LET found == {i \in ByToken(token) : Acceptable(i)}
    IN  /\ Begin(r, [op |-> "accept", token |-> token])
        /\ \/ found = {} /\ Stop(r, "bad_request") /\ UNCHANGED read
           \/ \E i \in found :
                /\ read' = Change(read, r, [invite |-> i, role |-> invites[i].role,
                                            clubs |-> invites[i].clubs, existing |-> FALSE])
                /\ Go(r, "matching")
        /\ UNCHANGED <<now, account, sessions, links, minted, sees,
                       clubs, managers, invites>>

MatchAccount(r) ==
  /\ pc[r] = "matching"
  /\ read' = [read EXCEPT ![r].existing = account # None]
  /\ Judge(r, IF HasPassword THEN "bad_request" ELSE "ok", "writing")
  /\ UNCHANGED req

\* Mutant of AccountFree: nobody waits for the users row or its unique address.
AccountIgnored == TRUE
AccountFree == ~AccountLocked

\* Mutant of ClubsThere: club_managers has no foreign key.
ClubsAssumed(wanted) == TRUE
ClubsThere(wanted) == wanted \subseteq clubs

\* UPDATE or INSERT of the user, set_club_assignments, UPDATE of the invite, all
\* uncommitted: an address taken since, or a club that is gone, undoes them.
WriteAccount(r) ==
  LET written == (read[r].existing \/ account = None) /\ ClubsThere(read[r].clubs)
  IN  /\ pc[r] = "writing"
      /\ AccountFree
      /\ \/ written /\ Go(r, "accepting") /\ sees' = Change(sees, r, managers)
         \/ ~written /\ Stop(r, "conflict") /\ UNCHANGED sees
      /\ UNCHANGED <<now, account, sessions, links, req, minted, inviteVars>>

\* UPDATE invites by id alone: an invite that another acceptance has marked since
\* is marked again.  The session of the new user is stored after the commit.
CommitAccept(r) ==
  LET i == read[r].invite
  IN  /\ pc[r] = "accepting"
      /\ account' = [password |-> r, role |-> read[r].role, active |-> TRUE]
      /\ managers' = (managers \ sees[r]) \cup read[r].clubs
      /\ invites' = IF invites[i] = None THEN invites
                    ELSE [invites EXCEPT ![i].accepted = r]
      /\ minted' = Change(minted, r, now)
      /\ Go(r, "storing")
      /\ UNCHANGED <<now, sessions, links, req, sees, clubs, read>>

-------------------------------------------------------------------------------
(* update_user, by somebody else *)

UpdateVerdict(q) ==
  CASE account = None -> "not_found"
    [] ~can_assign_role(q.actor, account.role) -> "forbidden"
    [] q.update.clubs # None /\ account.role # "club_manager" -> "bad_request"
    [] q.update.clubs # None /\ ~(\A n \in DOMAIN q.update.clubs :
                                    q.update.clubs[n] \in clubs) -> "bad_request"
    [] OTHER -> "ok"

update_user(r) ==
  \E actor \in Managing, u \in Updates :
    LET q == [op |-> "update", actor |-> actor, update |-> u]
    IN  Begin(r, q) /\ Judge(r, UpdateVerdict(q), "updating") /\ UNCHANGED read

UpdateFields(r) ==
  LET u == req[r].update
  IN  /\ pc[r] = "updating"
      /\ u.active # None => ~AccountLocked
      /\ account' = IF u.active = None THEN account ELSE [account EXCEPT !.active = u.active]
      /\ IF u.clubs = None THEN Stop(r, "ok") ELSE Go(r, "clearing")
      /\ UNCHANGED <<now, sessions, links, req, minted, sees, inviteVars>>

\* set_club_assignments outside a transaction: one DELETE, an INSERT per club.
ClearClubs(r) ==
  /\ pc[r] = "clearing"
  /\ managers' = {}
  /\ read' = Change(read, r, req[r].update.clubs)
  /\ Go(r, "assigning")
  /\ UNCHANGED <<now, account, sessions, links, req, minted, sees, clubs, invites>>

AssignClub(r) ==
  /\ pc[r] = "assigning"
  /\ \/ read[r] = << >> /\ Stop(r, "ok") /\ UNCHANGED <<managers, read>>
     \/ /\ read[r] # << >> /\ ClubsThere({Head(read[r])})
        /\ managers' = managers \cup {Head(read[r])}
        /\ read' = [read EXCEPT ![r] = Tail(@)]
        /\ UNCHANGED <<pc, answer>>
     \/ /\ read[r] # << >> /\ ~ClubsThere({Head(read[r])})
        /\ Stop(r, "conflict")
        /\ UNCHANGED <<managers, read>>
  /\ UNCHANGED <<now, account, sessions, links, req, minted, sees, clubs, invites>>

-------------------------------------------------------------------------------
\* DELETE FROM clubs cascades to club_managers, and waits for an uncommitted
\* assignment to the club.
DeleteClub(c) ==
  /\ c \in clubs
  /\ \A r \in Requests : pc[r] = "accepting" => c \notin read[r].clubs
  /\ clubs' = clubs \ {c}
  /\ managers' = managers \ {c}
  /\ UNCHANGED <<sessionVars, invites, read>>

InvitationStep(r) ==
  \/ create_invite(r) \/ SeePending(r) \/ DropPending(r)
  \/ InsertInvite(r) \/ ReadInvite(r) \/ rotate_invite_token(r) \/ delete_invite(r)
  \/ FindInvite(r) \/ MatchAccount(r) \/ WriteAccount(r) \/ CommitAccept(r)
  \/ update_user(r) \/ UpdateFields(r) \/ ClearClubs(r) \/ AssignClub(r)

Next ==
  \/ \E r \in Requests : \/ SessionStep(r) /\ UNCHANGED inviteVars
                         \/ InvitationStep(r)
  \/ Tick /\ UNCHANGED inviteVars
  \/ \E c \in Clubs : DeleteClub(c)

Spec == Init /\ [][Next]_vars

-------------------------------------------------------------------------------
Asked(op) == {r \in Requests : req[r] # None /\ req[r].op = op}
Accepted == {r \in Asked("accept") : minted[r] # None}

\* However many acceptances there were at once, the account has the role and the
\* clubs of the invite of one of them, whole, less the clubs deleted since, as
\* long as nobody has updated it (accept_invite, set_club_assignments).
AccountIsOneInvites ==
  (Accepted # {} /\ Asked("update") = {}) =>
    \E r \in Accepted :
      account.role = read[r].role /\ managers = read[r].clubs \cap clubs

\* Whoever is made an administrator was invited as one by a super administrator,
\* through any rotation of links and whatever is accepted (can_assign_role).
OnlySuperAdminsAppointAdmins ==
  (account # None /\ account.role # "club_manager") =>
    \E r \in Asked("create") :
      req[r].actor = "super_admin" /\ req[r].offer.role = account.role

\* An accepted invite is spent: it is neither removed nor offered again, although
\* those who rotate, drop or revoke it may have read it as pending ("AND
\* accepted_at IS NULL"); and accepted_at is rewritten only by an acceptance that,
\* before the first one's commit, found the address's row without a password.
AcceptedIsSpent ==
  [][\A i \in Invites :
       (invites[i] # None /\ invites[i].accepted # None) =>
         \/ invites'[i] = invites[i]
         \/ \E r \in Requests :
              /\ pc[r] = "accepting" /\ read[r].invite = i /\ read[r].existing
              /\ invites'[i] = [invites[i] EXCEPT !.accepted = r]]_vars

\* "This invite has already been used." (accept_invite): nobody accepts an invite
\* that somebody else has accepted.
InviteUsedOnce ==
  \A r, s \in Accepted : read[r].invite = read[s].invite => r = s
===============================================================================
