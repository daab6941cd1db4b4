---------------------------- MODULE AccountProofs -----------------------------
(* Proofs about Sessions and Invitations, for any number of requests,        *)
(* seconds, clubs and offers: the tables keep their types (TypeInv), a reset *)
(* link sets one password, every client's session is its own (SessionInv),   *)
(* an account is what one invite made it, by somebody who may (AccountInv),  *)
(* and an accepted invite is spent (InviteInv).                              *)
EXTENDS Invitations, TLAPS

-------------------------------------------------------------------------------
(* The tables keep their types *)

Table ==
  /\ now \in Seconds /\ clubs \subseteq Clubs
  /\ account \in User \cup {None}
  /\ managers \subseteq clubs /\ (account = None => managers = {})
  /\ sessions \in [Seconds -> Session \cup {None}]
  /\ links \in [Requests -> Link \cup {None}]
  /\ \A l \in Requests : links[l] # None => account # None
  /\ invites \in [Invites -> Invite \cup {None}]
  /\ minted \in [Requests -> Seconds \cup {None}]
  /\ pc = [r \in Requests |-> pc[r]]
  /\ req = [r \in Requests |-> req[r]]
  /\ sees = [r \in Requests |-> sees[r]]
  /\ read = [r \in Requests |-> read[r]]

Accepting == {"matching", "writing", "accepting"}
InviteRead == [invite : Invites, role : Roles, clubs : SUBSET Clubs, existing : BOOLEAN]

\* What a request relies on at its stage.
Stage(r) ==
  /\ pc[r] \in {"locked", "rotated"} =>
       (req[r].token \in Seconds => sessions[req[r].token] # None)
  /\ pc[r] = "revoking" => \A t \in sees[r] : t \in Seconds /\ sessions[t] # None
  /\ pc[r] \in {"linking", "linked"} => minted[r] \in Seconds
  /\ pc[r] \in {"linking", "linked"} => \A l \in sees[r] : l \in Requests /\ links[l] # None
  /\ pc[r] \in {"task", "linking", "linked", "setting", "updating", "clearing", "assigning"}
       => account # None
  /\ pc[r] \in {"dropping", "deleting", "inserting"} => req[r].offer \in Offers
  /\ pc[r] \in {"rotate", "revoke"} => req[r].invite \in Invites
  /\ pc[r] \in Accepting => read[r] \in InviteRead
  /\ pc[r] = "accepting" => read[r].clubs \subseteq clubs
  /\ pc[r] \in {"updating", "clearing"} => req[r].update \in Updates
  /\ pc[r] = "clearing" => req[r].update.clubs # None
  /\ pc[r] = "assigning" => read[r] \in Seq(Clubs)

\* What the tables hold, and with it what every request has been promised.
TypeInv == Table /\ \A r \in Requests : Stage(r)

\* Initially every table has its type and nobody relies on anything.
LEMMA InitTypes == Init => TypeInv
<1> SUFFICES ASSUME Init PROVE TypeInv
  OBVIOUS
<1> USE DEF Init, Change
<1>1. now \in Seconds
  BY LifetimesTyped DEF Seconds
<1>2. account \in User \cup {None}
  <2> PICK password \in {None, "old"} :
        account \in {None, [password |-> password, role |-> "club_manager", active |-> TRUE]}
    OBVIOUS
  <2>1. [password |-> password, role |-> "club_manager", active |-> TRUE] \in User
    BY DEF User, Roles
  <2> QED BY <2>1
<1>3. invites \in [Invites -> Invite \cup {None}]
  BY <1>1, OffersTyped DEF Invite, Invites, Roles
<1>4. /\ clubs \subseteq Clubs /\ managers \subseteq clubs
  OBVIOUS
<1>8. sessions \in [Seconds -> Session \cup {None}]
  OBVIOUS
<1>9. links \in [Requests -> Link \cup {None}]
  OBVIOUS
<1>10. minted \in [Requests -> Seconds \cup {None}]
  OBVIOUS
<1>6. /\ pc = [r \in Requests |-> pc[r]]
      /\ req = [r \in Requests |-> req[r]]
      /\ sees = [r \in Requests |-> sees[r]]
      /\ read = [r \in Requests |-> read[r]]
  OBVIOUS
<1>7. Table
  BY <1>1, <1>2, <1>3, <1>4, <1>6, <1>8, <1>9, <1>10 DEF Table
<1>5. \A r \in Requests : pc[r] = "idle"
  OBVIOUS
<1> QED BY <1>7, <1>5 DEF TypeInv, Stage, Accepting

\* A step of r leaves the others what they rely on.
LEMMA OthersRely ==
  ASSUME TypeInv, NEW r \in Requests,
         \A s \in Requests \ {r} : /\ pc'[s] = pc[s] /\ req'[s] = req[s]
                                   /\ sees'[s] = sees[s] /\ read'[s] = read[s]
                                   /\ minted'[s] = minted[s],
         account # None => account' # None,
         \A t \in Seconds : sessions[t] # None => sessions'[t] # None,
         \A l \in Requests : links[l] # None => links'[l] # None,
         clubs' = clubs
  PROVE  \A s \in Requests \ {r} : Stage(s)'
BY DEF TypeInv, Stage

\* A step of r that writes no row.
LEMMA NoRowWritten ==
  ASSUME TypeInv, NEW r \in Requests, NEW stage,
         pc' = Change(pc, r, stage),
         req' = req \/ \E q : req' = Change(req, r, q),
         sees' = sees \/ \E s : sees' = Change(sees, r, s),
         read' = read \/ \E x : read' = Change(read, r, x),
         minted' = minted \/ minted' = Change(minted, r, now),
         UNCHANGED <<now, account, sessions, links, clubs, managers, invites>>,
         Stage(r)'
  PROVE  TypeInv'
<1> USE DEF Change, TypeInv
<1>1. Table'
  BY DEF Table
<1>2. \A s \in Requests \ {r} : /\ pc'[s] = pc[s] /\ req'[s] = req[s]
                                /\ sees'[s] = sees[s] /\ read'[s] = read[s]
                                /\ minted'[s] = minted[s]
  BY DEF Table
<1> QED BY <1>1, <1>2, OthersRely

-------------------------------------------------------------------------------
(* Steps that write no row *)

\* Requests about sessions and links that read, lock or are lost.
LEMMA QuietTypes ==
  ASSUME TypeInv, NEW r \in Requests,
         \/ login(r) \/ refresh(r) \/ LockSession(r) \/ InsertRotated(r)
         \/ forgot_password(r) \/ SeeLinks(r) \/ InvalidateLinks(r) \/ SeeSessions(r)
         \/ Lose(r),
         UNCHANGED inviteVars
  PROVE  TypeInv'
<1> USE DEF Go, Stop, AdvanceTo, Begin, Change, TypeInv, inviteVars
<1>1. CASE login(r)
  <2>1. Stage(r)'
    BY <1>1 DEF login, SignIn, Stage, Table, Accepting
  <2> QED BY <1>1, <2>1, NoRowWritten DEF login, SignIn
<1>2. CASE refresh(r)
  <2>1. Stage(r)'
    BY <1>2 DEF refresh, SignIn, Stage, Table, Accepting
  <2> QED BY <1>2, <2>1, NoRowWritten DEF refresh, SignIn
<1>3. CASE LockSession(r)
  <2>1. Stage(r)'
    BY <1>3 DEF LockSession, Rotatable, Stage, Table, Accepting
  <2> QED BY <1>3, <2>1, NoRowWritten DEF LockSession
<1>4. CASE InsertRotated(r)
  <2>1. Stage(r)'
    BY <1>4 DEF InsertRotated, RevokeOld, Stage, Table, Accepting
  <2> QED BY <1>4, <2>1, NoRowWritten DEF InsertRotated, RevokeOld
<1>5. CASE forgot_password(r)
  <2>1. Stage(r)'
    BY <1>5 DEF forgot_password, Active, Stage, Table, Accepting
  <2> QED BY <1>5, <2>1, NoRowWritten DEF forgot_password
<1>6. CASE SeeLinks(r)
  <2>1. Stage(r)'
    BY <1>6 DEF SeeLinks, Unused, Stage, Table, Accepting
  <2> QED BY <1>6, <2>1, NoRowWritten DEF SeeLinks
<1>7. CASE InvalidateLinks(r)
  <2>1. Stage(r)'
    BY <1>7 DEF InvalidateLinks, Unused, Stage, Table, Accepting
  <2> QED BY <1>7, <2>1, NoRowWritten DEF InvalidateLinks
<1>8. CASE SeeSessions(r)
  <2>1. Stage(r)'
    BY <1>8 DEF SeeSessions, Stage, Table, Accepting
  <2> QED BY <1>8, <2>1, NoRowWritten DEF SeeSessions
<1>9. CASE Lose(r)
  <2>1. Stage(r)'
    BY <1>9 DEF Lose, Stage, Table, Accepting
  <2> QED BY <1>9, <2>1, NoRowWritten DEF Lose
<1> QED BY <1>1, <1>2, <1>3, <1>4, <1>5, <1>6, <1>7, <1>8, <1>9

\* Requests about invites and the account that read or lock.
LEMMA QuietInvitationTypes ==
  ASSUME TypeInv, NEW r \in Requests,
         \/ create_invite(r) \/ SeePending(r) \/ ReadInvite(r) \/ FindInvite(r)
         \/ MatchAccount(r) \/ WriteAccount(r) \/ update_user(r)
  PROVE  TypeInv'
<1> USE DEF Go, Stop, AdvanceTo, Begin, Change, TypeInv, inviteVars, Judge
<1>1. CASE create_invite(r)
  <2>1. Stage(r)'
    BY <1>1 DEF create_invite, Stage, Table, Accepting
  <2> QED BY <1>1, <2>1, NoRowWritten DEF create_invite
<1>2. CASE SeePending(r)
  <2>1. Stage(r)'
    BY <1>2 DEF SeePending, Stage, Table, Accepting
  <2> QED BY <1>2, <2>1, NoRowWritten DEF SeePending
<1>3. CASE ReadInvite(r)
  <2>1. Stage(r)'
    BY <1>3 DEF ReadInvite, Stage, Table, Accepting
  <2> QED BY <1>3, <2>1, NoRowWritten DEF ReadInvite
<1>4. CASE FindInvite(r)
  <2>1. ASSUME NEW i \in Invites, invites[i] # None
        PROVE  [invite |-> i, role |-> invites[i].role, clubs |-> invites[i].clubs,
                existing |-> FALSE] \in InviteRead
    BY <2>1 DEF Table, Invite, InviteRead
  <2>2. \/ pc' = Change(pc, r, "done")
        \/ pc' = Change(pc, r, "matching") /\ \E i \in Invites :
             /\ invites[i] # None
             /\ read' = Change(read, r, [invite |-> i, role |-> invites[i].role,
                                         clubs |-> invites[i].clubs, existing |-> FALSE])
    BY <1>4 DEF FindInvite, ByToken
  <2>3. Stage(r)'
    BY <2>1, <2>2 DEF Stage, Table, Accepting
  <2> QED BY <1>4, <2>3, NoRowWritten DEF FindInvite
<1>5. CASE MatchAccount(r)
  <2>1. read[r] \in InviteRead
    BY <1>5 DEF MatchAccount, Stage, Accepting
  <2>2. [read[r] EXCEPT !.existing = (account # None)] \in InviteRead
    BY <2>1 DEF InviteRead
  <2>3. read' = Change(read, r, [read[r] EXCEPT !.existing = (account # None)])
    BY <1>5 DEF MatchAccount
  <2>4. Stage(r)'
    BY <1>5, <2>2, <2>3 DEF MatchAccount, Stage, Table, Accepting
  <2> QED BY <1>5, <2>3, <2>4, NoRowWritten DEF MatchAccount
<1>6. CASE WriteAccount(r)
  <2>1. Stage(r)'
    BY <1>6 DEF WriteAccount, ClubsThere, Stage, Table, Accepting, InviteRead
  <2> QED BY <1>6, <2>1, NoRowWritten DEF WriteAccount
<1>7. CASE update_user(r)
  <2>1. Stage(r)'
    BY <1>7 DEF update_user, UpdateVerdict, Stage, Table, Accepting
  <2> QED BY <1>7, <2>1, NoRowWritten DEF update_user
<1> QED BY <1>1, <1>2, <1>3, <1>4, <1>5, <1>6, <1>7

-------------------------------------------------------------------------------
(* Steps that write rows *)

\* Revoking rows there are makes rows, and loses none.
LEMMA RevokedTypes ==
  ASSUME Table, NEW rows, NEW r \in Requests,
         \A t \in rows : t \in Seconds => sessions[t] # None
  PROVE  /\ Revoked(rows, r) \in [Seconds -> Session \cup {None}]
         /\ \A t \in Seconds : sessions[t] # None => Revoked(rows, r)[t] # None
<1>1. ASSUME NEW t \in Seconds, sessions[t] \in Session
      PROVE  [sessions[t] EXCEPT !.revoked = r] \in Session
  BY <1>1 DEF Session
<1> QED BY <1>1, NoneIsNoRow DEF Revoked, Table

\* A step of r that writes rows.
LEMMA RowWritten ==
  ASSUME TypeInv, NEW r \in Requests,
         Table', Stage(r)',
         \E stage : pc' = Change(pc, r, stage),
         req' = req \/ \E q : req' = Change(req, r, q),
         read' = read \/ \E x : read' = Change(read, r, x),
         sees' = sees,
         minted' = minted \/ minted' = Change(minted, r, now),
         account # None => account' # None,
         \A t \in Seconds : sessions[t] # None => sessions'[t] # None,
         \A l \in Requests : links[l] # None => links'[l] # None,
         clubs' = clubs
  PROVE  TypeInv'
<1> USE DEF Change, TypeInv
<1>1. \A s \in Requests \ {r} : /\ pc'[s] = pc[s] /\ req'[s] = req[s]
                                /\ sees'[s] = sees[s] /\ read'[s] = read[s]
                                /\ minted'[s] = minted[s]
  BY DEF Table
<1> QED BY <1>1, OthersRely

\* Requests about sessions and links that write their rows.
LEMMA WritingTypes ==
  ASSUME TypeInv, NEW r \in Requests,
         \/ store_refresh_token(r) \/ CommitRotation(r) \/ logout(r) \/ CommitLink(r)
         \/ consume_token(r) \/ SetPassword(r) \/ revoke_all_for_user(r),
         UNCHANGED inviteVars
  PROVE  TypeInv'
<1> USE DEF Go, Stop, AdvanceTo, Begin, Change, TypeInv, inviteVars
<1>1. CASE store_refresh_token(r)
  <2>0. [by |-> r, revoked |-> None] \in Session
    BY DEF Session
  <2>1. Table' /\ \A t \in Seconds : sessions[t] # None => sessions'[t] # None
    BY <1>1, <2>0, NoneIsNoRow DEF store_refresh_token, Table
  <2>2. Stage(r)'
    BY <1>1 DEF store_refresh_token, Stage, Table, Accepting
  <2> QED BY <1>1, <2>1, <2>2, RowWritten DEF store_refresh_token
<1>2. CASE CommitRotation(r)
  <2>0. [by |-> r, revoked |-> None] \in Session
    BY DEF Session
  <2>1. \A t \in {req[r].token} : t \in Seconds => sessions[t] # None
    BY <1>2 DEF CommitRotation, Stage
  <2>a. /\ Revoked({req[r].token}, r) \in [Seconds -> Session \cup {None}]
        /\ \A t \in Seconds :
             sessions[t] # None => Revoked({req[r].token}, r)[t] # None
    BY <2>1, RevokedTypes
  <2>2. Table' /\ \A t \in Seconds : sessions[t] # None => sessions'[t] # None
    BY <1>2, <2>0, <2>a, NoneIsNoRow DEF CommitRotation, Table
  <2>3. Stage(r)'
    BY <1>2 DEF CommitRotation, Stage, Table, Accepting
  <2> QED BY <1>2, <2>2, <2>3, RowWritten DEF CommitRotation
<1>3. CASE logout(r)
  <2>0. PICK rows : /\ sessions' = Revoked(rows, r)
                    /\ \A t \in rows : sessions[t] # None
    BY <1>3 DEF logout
  <2>a. /\ Revoked(rows, r) \in [Seconds -> Session \cup {None}]
        /\ \A t \in Seconds : sessions[t] # None => Revoked(rows, r)[t] # None
    BY <2>0, RevokedTypes
  <2>1. Table' /\ \A t \in Seconds : sessions[t] # None => sessions'[t] # None
    BY <1>3, <2>0, <2>a DEF logout, Table
  <2>2. Stage(r)'
    BY <1>3 DEF logout, Stage, Table, Accepting
  <2> QED BY <1>3, <2>1, <2>2, RowWritten DEF logout
<1>4. CASE CommitLink(r)
  <2>1. ASSUME NEW l \in Requests
        PROVE  links'[l] \in Link \cup {None} /\ (links[l] # None => links'[l] # None)
    BY <1>4, NoneIsNoRow DEF CommitLink, Table, Stage, Link
  <2>a. account # None
    BY <1>4 DEF CommitLink, Stage
  <2>b. links' = [l \in Requests |-> links'[l]]
    BY <1>4 DEF CommitLink
  <2>2. Table'
    BY <1>4, <2>1, <2>a, <2>b DEF CommitLink, Table
  <2>3. Stage(r)'
    BY <1>4 DEF CommitLink, Stage, Table, Accepting
  <2> QED BY <1>4, <2>1, <2>2, <2>3, RowWritten DEF CommitLink
<1>5. CASE consume_token(r)
  <2> PICK l \in Requests :
        /\ links[l] # None
        /\ \/ links' = [links EXCEPT ![l].used = r]
           \/ links' = links
    BY <1>5 DEF consume_token
  <2>a. links[l] # None
    OBVIOUS
  <2> DEFINE row == [links[l] EXCEPT !.used = r]
  <2>b. links[l] \in Link
    BY <2>a DEF Table
  <2>1. row \in Link
    BY <2>b DEF Link
  <2>c. links' = [links EXCEPT ![l] = row] \/ links' = links
    <3>1. CASE links' = [links EXCEPT ![l].used = r]
      BY <3>1, Zenon
    <3> QED BY <3>1
  <2>d. UNCHANGED <<now, clubs, account, managers, sessions, invites, minted, sees, read>>
        /\ pc' = [q \in Requests |-> pc'[q]] /\ req' = [q \in Requests |-> req'[q]]
    BY <1>5 DEF consume_token, Table
  <2> HIDE DEF row
  <2>2. Table' /\ \A k \in Requests : links[k] # None => links'[k] # None
    BY <2>a, <2>1, <2>c, <2>d, NoneIsNoRow DEF Table
  <2>3. Stage(r)'
    BY <1>5, <2>a, <2>2 DEF consume_token, Table, Stage, Accepting
  <2> QED BY <1>5, <2>2, <2>3, RowWritten DEF consume_token
<1>6. CASE SetPassword(r)
  <2>1. account \in User
    BY <1>6 DEF SetPassword, Stage, Table
  <2>2. account' \in User
    BY <1>6, <2>1 DEF SetPassword, User
  <2>3. Table' /\ Stage(r)'
    BY <1>6, <2>2, NoneIsNoUserOrInvite DEF SetPassword, Table, Stage, Accepting
  <2> QED BY <1>6, <2>2, <2>3, NoneIsNoUserOrInvite, RowWritten DEF SetPassword
<1>7. CASE revoke_all_for_user(r)
  <2>1. Table' /\ \A t \in Seconds : sessions[t] # None => sessions'[t] # None
    BY <1>7, RevokedTypes DEF revoke_all_for_user, Table, Stage
  <2>2. Stage(r)'
    BY <1>7 DEF revoke_all_for_user, Stage, Table, Accepting
  <2> QED BY <1>7, <2>1, <2>2, RowWritten DEF revoke_all_for_user
<1> QED BY <1>1, <1>2, <1>3, <1>4, <1>5, <1>6, <1>7

\* Requests about invites, the account and its clubs that write their rows.
LEMMA WritingInvitationTypes ==
  ASSUME TypeInv, NEW r \in Requests,
         \/ DropPending(r) \/ InsertInvite(r) \/ rotate_invite_token(r)
         \/ delete_invite(r) \/ CommitAccept(r) \/ UpdateFields(r) \/ ClearClubs(r)
         \/ AssignClub(r)
  PROVE  TypeInv'
<1> USE DEF Go, Stop, AdvanceTo, Begin, Change, TypeInv, inviteVars
<1>1. CASE DropPending(r)
  <2>1. Table' /\ Stage(r)'
    BY <1>1 DEF DropPending, Table, Stage, Accepting
  <2> QED BY <1>1, <2>1, RowWritten DEF DropPending
<1>2. CASE InsertInvite(r)
  <2>1. req[r].offer \in Offer
    BY <1>2, OffersTyped DEF InsertInvite, Stage
  <2>2. [role |-> req[r].offer.role, clubs |-> req[r].offer.clubs, token |-> r,
         at |-> now, accepted |-> None] \in Invite
    BY <2>1 DEF Table, Offer, Invite, Invites
  <2>3. Table' /\ Stage(r)'
    BY <1>2, <2>2 DEF InsertInvite, Table, Stage, Accepting
  <2> QED BY <1>2, <2>3, RowWritten DEF InsertInvite
<1>3. CASE rotate_invite_token(r)
  <2> DEFINE i == req[r].invite
             row == IF invites[i] = None THEN None
                    ELSE [invites[i] EXCEPT !.token = r, !.at = now, !.accepted = None]
  <2>1. invites[i] \in Invite \cup {None}
    BY <1>3 DEF rotate_invite_token, Stage, Table
  <2>2. row \in Invite \cup {None}
    BY <2>1 DEF Table, Invite, Invites
  <2>3. pc[r] = "rotate" /\ WriteInvite(r, i, row)
    BY <1>3 DEF rotate_invite_token
  <2> HIDE DEF row
  <2>4. Table' /\ Stage(r)'
    BY <2>2, <2>3 DEF WriteInvite, Table, Stage, Accepting
  <2> QED BY <2>3, <2>4, RowWritten DEF WriteInvite
<1>4. CASE delete_invite(r)
  <2>1. Table' /\ Stage(r)'
    BY <1>4 DEF delete_invite, WriteInvite, Table, Stage, Accepting
  <2> QED BY <1>4, <2>1, RowWritten DEF delete_invite, WriteInvite
<1>5. CASE CommitAccept(r)
  <2> USE DEF CommitAccept
  <2>1. read[r] \in InviteRead /\ read[r].clubs \subseteq clubs
    BY <1>5 DEF Stage, Accepting
  <2>2. account' \in User
    BY <1>5, <2>1 DEF User, InviteRead
  <2>3. account' # None
    BY <2>2, NoneIsNoUserOrInvite
  <2>4. ASSUME NEW j \in Invites, invites[j] \in Invite
        PROVE  [invites[j] EXCEPT !.accepted = r] \in Invite
    BY <2>4 DEF Invite
  <2>5. invites' \in [Invites -> Invite \cup {None}]
    BY <1>5, <2>1, <2>4 DEF Table, InviteRead
  <2>6. Table' /\ Stage(r)'
    BY <1>5, <2>1, <2>2, <2>3, <2>5 DEF Table, Stage, Accepting
  <2> QED BY <1>5, <2>3, <2>6, RowWritten
<1>6. CASE UpdateFields(r)
  <2> USE DEF UpdateFields
  <2>1. account \in User /\ req[r].update \in Updates
    BY <1>6 DEF Stage, Table
  <2>2. account' \in User
    BY <1>6, <2>1, UpdatesTyped DEF User
  <2>3. account' # None
    BY <2>2, NoneIsNoUserOrInvite
  <2>4. Table' /\ Stage(r)'
    BY <1>6, <2>1, <2>2, <2>3 DEF Table, Stage, Accepting
  <2> QED BY <1>6, <2>3, <2>4, RowWritten
<1>7. CASE ClearClubs(r)
  <2>1. req[r].update.clubs \in Seq(Clubs)
    BY <1>7, UpdatesTyped DEF ClearClubs, Stage
  <2>2. Table' /\ Stage(r)'
    BY <1>7, <2>1 DEF ClearClubs, Table, Stage, Accepting
  <2> QED BY <1>7, <2>2, RowWritten DEF ClearClubs
<1>8. CASE AssignClub(r)
  <2> USE DEF AssignClub
  <2>1. read[r] \in Seq(Clubs) /\ account # None /\ pc[r] = "assigning"
    BY <1>8 DEF Stage
  <2>2. read[r] # << >> => Tail(read[r]) \in Seq(Clubs)
    BY <2>1
  <2>3. Table'
    BY <1>8, <2>1 DEF Table, ClubsThere
  <2>4. Stage(r)'
    BY <1>8, <2>1, <2>2 DEF Table, Stage, Accepting
  <2>5. pc' = pc => pc' = Change(pc, r, pc[r])
    BY DEF Table
  <2>6. read' = [read EXCEPT ![r] = Tail(@)] => read' = Change(read, r, Tail(read[r]))
    OBVIOUS
  <2> QED BY <1>8, <2>3, <2>4, <2>5, <2>6, RowWritten
<1> QED BY <1>1, <1>2, <1>3, <1>4, <1>5, <1>6, <1>7, <1>8

-------------------------------------------------------------------------------
\* The invariant is inductive.
LEMMA TypesInductive == TypeInv /\ [Next]_vars => TypeInv'
<1> SUFFICES ASSUME TypeInv, [Next]_vars PROVE TypeInv'
  OBVIOUS
<1>1. ASSUME NEW r \in Requests, SessionStep(r), UNCHANGED inviteVars PROVE TypeInv'
  BY <1>1, QuietTypes, WritingTypes DEF SessionStep
<1>2. ASSUME NEW r \in Requests, InvitationStep(r) PROVE TypeInv'
  BY <1>2, QuietInvitationTypes, WritingInvitationTypes DEF InvitationStep
<1>3. CASE Tick /\ UNCHANGED inviteVars
  BY <1>3, LifetimesTyped DEF TypeInv, Table, Stage, Tick, inviteVars, Seconds
<1>4. ASSUME NEW c \in Clubs, DeleteClub(c) PROVE TypeInv'
  <2>1. Table'
    BY <1>4 DEF DeleteClub, TypeInv, Table, sessionVars
  <2>2. \A r \in Requests : Stage(r)'
    BY <1>4 DEF DeleteClub, TypeInv, Stage, sessionVars
  <2> QED BY <2>1, <2>2 DEF TypeInv
<1>5. CASE UNCHANGED vars
  BY <1>5 DEF vars, sessionVars, inviteVars, TypeInv, Table, Stage
<1> QED BY <1>1, <1>2, <1>3, <1>4, <1>5 DEF Next

\* The tables keep their types, and the account manages only clubs there are, also
\* when a club is deleted between the check and the assignment (set_club_assignments).
THEOREM AccountsTyped == Spec => []AccountTypeOK
<1>1. TypeInv => AccountTypeOK
  BY DEF TypeInv, Table, AccountTypeOK
<1> QED BY <1>1, InitTypes, TypesInductive, PTL DEF Spec

-------------------------------------------------------------------------------
(* A reset link sets one password: the invariant *)

\* Who has not begun set no password.
StrangersSetNothing ==
  \A r \in Requests : pc[r] = "idle" => ~(HasPassword /\ account.password = r)

\* What a transaction is about to invalidate nobody has used, or will before it
\* commits; the link it is about to insert is not there yet.
LinksLocked ==
  /\ \A r \in Requests :
       /\ pc[r] \in {"idle", "task", "linking", "linked"} => links[r] = None
       /\ pc[r] = "linked" => \A l \in sees[r] : Unused(l)
  /\ \A r, s \in Requests :
       (pc[r] = "linked" /\ pc[s] = "linked" /\ r # s) => sees[r] \cap sees[s] = {}

\* The request that is setting a password, or set the one there is, used its link.
UsedBy(r) ==
  /\ req[r].link \in Requests
  /\ links[req[r].link] # None
  /\ links[req[r].link].used = r
Resetting == {"setting", "ending", "revoking"}
ResetsUsedTheirLink ==
  \A r \in Requests :
    /\ pc[r] \in Resetting => req[r].op = "reset" /\ UsedBy(r)
    /\ (HasPassword /\ account.password = r /\ req[r].op = "reset") => UsedBy(r)

AcceptancesAreNoResets ==
  \A r \in Requests : pc[r] \in Accepting => req[r].op = "accept"

LinkInv ==
  /\ TypeInv
  /\ StrangersSetNothing
  /\ LinksLocked
  /\ ResetsUsedTheirLink
  /\ AcceptancesAreNoResets

\* Initially nobody has begun, and a password there may be is nobody's.
LEMMA InitLinks == Init => LinkInv
<1> SUFFICES ASSUME Init PROVE LinkInv
  OBVIOUS
<1>1. /\ \A r \in Requests : pc[r] = "idle" /\ links[r] = None
      /\ \A r \in Requests : req[r] = None
  BY DEF Init
<1>2. ~\E r \in Requests : HasPassword /\ account.password = r
  <2> SUFFICES ASSUME NEW r \in Requests, HasPassword, account.password = r
               PROVE  FALSE
    OBVIOUS
  <2>1. account.password \in {None, "old"}
    BY DEF Init, HasPassword
  <2> QED BY <2>1, NoneIsNoSecond, OldIsNoRequest
<1> QED BY <1>1, <1>2, InitTypes DEF LinkInv, StrangersSetNothing, LinksLocked, Unused,
             ResetsUsedTheirLink, AcceptancesAreNoResets, Resetting, Accepting

-------------------------------------------------------------------------------
(* Steps that leave the links and the password alone *)

\* A step of r to a stage at which a request has no dealings with links.
LEMMA QuietStep ==
  ASSUME LinkInv, TypeInv', NEW r \in Requests, NEW stage,
         stage \notin {"idle", "linking", "linked", "setting", "ending"},
         stage = "revoking" => pc[r] = "ending" /\ req' = req,
         stage = "task" => pc[r] = "idle",
         stage \in Accepting => req'[r].op = "accept",
         pc' = Change(pc, r, stage),
         req' = req \/ (pc[r] = "idle" /\ \E q : req' = Change(req, r, q)),
         sees' = sees \/ \E s : sees' = Change(sees, r, s),
         account' = account \/ (account # None /\ account'.password = account.password),
         links' = links
  PROVE  LinkInv'
<1> USE DEF LinkInv, Change
<1>1. pc'[r] = stage /\ \A s \in Requests \ {r} :
        pc'[s] = pc[s] /\ req'[s] = req[s] /\ sees'[s] = sees[s]
  BY DEF TypeInv, Table
<1>2. HasPassword' => HasPassword /\ account'.password = account.password
  BY DEF HasPassword
<1>3. StrangersSetNothing'
  BY <1>1, <1>2 DEF StrangersSetNothing
<1>4. LinksLocked'
  BY <1>1 DEF LinksLocked, Unused
<1>5. ResetsUsedTheirLink'
  <2> SUFFICES ASSUME NEW s \in Requests
               PROVE  /\ pc'[s] \in Resetting => req'[s].op = "reset" /\ UsedBy(s)'
                      /\ (HasPassword' /\ account'.password = s /\ req'[s].op = "reset")
                           => UsedBy(s)'
    BY DEF ResetsUsedTheirLink
  <2>1. CASE s # r
    BY <2>1, <1>1, <1>2 DEF ResetsUsedTheirLink, UsedBy
  <2>2. CASE s = r /\ req' = req
    BY <2>2, <1>1, <1>2 DEF ResetsUsedTheirLink, UsedBy, Resetting
  <2>3. CASE s = r /\ pc[r] = "idle"
    BY <2>3, <1>1, <1>2 DEF StrangersSetNothing, Resetting
  <2> QED BY <2>1, <2>2, <2>3
<1>6. AcceptancesAreNoResets'
  BY <1>1 DEF AcceptancesAreNoResets
<1> QED BY <1>3, <1>4, <1>5, <1>6

\* A step that none of this is about.
LEMMA UnchangedLinks ==
  ASSUME LinkInv, TypeInv', UNCHANGED <<account, links, pc, req, sees>>
  PROVE  LinkInv'
<1>1. StrangersSetNothing' /\ LinksLocked'
  BY DEF LinkInv, StrangersSetNothing, HasPassword, LinksLocked, Unused
<1>2. ResetsUsedTheirLink'
  BY DEF LinkInv, ResetsUsedTheirLink, UsedBy, HasPassword
<1>3. AcceptancesAreNoResets'
  BY DEF LinkInv, AcceptancesAreNoResets
<1> QED BY <1>1, <1>2, <1>3 DEF LinkInv

\* The steps of signing in, refreshing and logging out, and of losing a request.
LEMMA SessionsKeepLinks ==
  ASSUME LinkInv, TypeInv', NEW r \in Requests,
         \/ login(r) \/ store_refresh_token(r) \/ refresh(r) \/ LockSession(r)
         \/ InsertRotated(r) \/ CommitRotation(r) \/ logout(r) \/ forgot_password(r)
         \/ SeeSessions(r) \/ revoke_all_for_user(r) \/ Lose(r)
  PROVE  LinkInv'
<1> USE QuietStep DEF Begin, Go, Stop, AdvanceTo, Accepting
<1>1. CASE login(r)
  BY <1>1 DEF login, SignIn
<1>2. CASE store_refresh_token(r)
  BY <1>2 DEF store_refresh_token
<1>3. CASE refresh(r)
  BY <1>3 DEF refresh, SignIn
<1>4. CASE LockSession(r)
  BY <1>4 DEF LockSession
<1>5. CASE InsertRotated(r)
  BY <1>5 DEF InsertRotated
<1>6. CASE CommitRotation(r)
  BY <1>6 DEF CommitRotation
<1>7. CASE logout(r)
  BY <1>7 DEF logout
<1>8. CASE forgot_password(r)
  BY <1>8 DEF forgot_password
<1>9. CASE SeeSessions(r)
  BY <1>9 DEF SeeSessions
<1>10. CASE revoke_all_for_user(r)
  BY <1>10 DEF revoke_all_for_user
<1>11. CASE Lose(r)
  BY <1>11 DEF Lose
<1> QED BY <1>1, <1>2, <1>3, <1>4, <1>5, <1>6, <1>7, <1>8, <1>9, <1>10, <1>11

\* The steps of inviting and of administering; an acceptance sets a password, but
\* by a request that is no reset.
LEMMA InvitationsKeepLinks ==
  ASSUME LinkInv, TypeInv', NEW r \in Requests, InvitationStep(r)
  PROVE  LinkInv'
<1> USE DEF Begin, Go, Stop, AdvanceTo, Judge, Accepting
<1>1. CASE create_invite(r)
  BY <1>1, QuietStep DEF create_invite
<1>2. CASE SeePending(r)
  BY <1>2, QuietStep DEF SeePending
<1>3. CASE DropPending(r)
  BY <1>3, QuietStep DEF DropPending
<1>4. CASE InsertInvite(r)
  BY <1>4, QuietStep DEF InsertInvite
<1>5. CASE ReadInvite(r)
  BY <1>5, QuietStep DEF ReadInvite
<1>6. CASE rotate_invite_token(r)
  BY <1>6, QuietStep DEF rotate_invite_token, WriteInvite
<1>7. CASE delete_invite(r)
  BY <1>7, QuietStep DEF delete_invite, WriteInvite
<1>8. CASE FindInvite(r)
  <2>1. pc' = Change(pc, r, "matching") => req'[r].op = "accept"
    BY <1>8 DEF FindInvite, LinkInv, TypeInv, Table, Change
  <2> QED BY <1>8, <2>1, QuietStep DEF FindInvite
<1>9. CASE MatchAccount(r)
  BY <1>9, QuietStep DEF MatchAccount, LinkInv, AcceptancesAreNoResets
<1>10. CASE WriteAccount(r)
  BY <1>10, QuietStep DEF WriteAccount, LinkInv, AcceptancesAreNoResets
<1>11. CASE CommitAccept(r)
  <2> USE <1>11 DEF CommitAccept, LinkInv, Change
  <2>1. /\ pc'[r] = "storing" /\ req[r].op = "accept" /\ account'.password = r
        /\ \A s \in Requests \ {r} : pc'[s] = pc[s]
    BY DEF TypeInv, Table, AcceptancesAreNoResets
  <2>2. StrangersSetNothing' /\ LinksLocked'
    BY <2>1 DEF StrangersSetNothing, HasPassword, LinksLocked, Unused
  <2>3. \A s \in Requests : UsedBy(s) => UsedBy(s)'
    BY DEF UsedBy
  <2>4. ResetsUsedTheirLink' /\ AcceptancesAreNoResets'
    BY <2>1, <2>3 DEF ResetsUsedTheirLink, Resetting, AcceptancesAreNoResets
  <2> QED BY <2>2, <2>4
<1>12. CASE update_user(r)
  BY <1>12, QuietStep DEF update_user
<1>13. CASE UpdateFields(r)
  <2>1. account \in User
    BY <1>13 DEF UpdateFields, LinkInv, TypeInv, Stage, Table
  <2>2. account # None /\ account'.password = account.password
    BY <1>13, <2>1, NoneIsNoUserOrInvite DEF UpdateFields, User
  <2> QED BY <1>13, <2>2, QuietStep DEF UpdateFields
<1>14. CASE ClearClubs(r)
  BY <1>14, QuietStep DEF ClearClubs
<1>15. CASE AssignClub(r)
  BY <1>15, QuietStep, UnchangedLinks DEF AssignClub
<1> QED BY <1>1, <1>2, <1>3, <1>4, <1>5, <1>6, <1>7, <1>8, <1>9, <1>10, <1>11, <1>12,
           <1>13, <1>14, <1>15 DEF InvitationStep

-------------------------------------------------------------------------------
(* Reset links *)

\* The links found are still there, and the new one is not.
LEMMA SeeLinksKeeps ==
  ASSUME LinkInv, TypeInv', NEW r \in Requests, SeeLinks(r) PROVE LinkInv'
<1> USE DEF LinkInv, SeeLinks, Go, AdvanceTo, Change
<1>1. /\ pc'[r] = "linking"
      /\ \A s \in Requests \ {r} : pc'[s] = pc[s] /\ sees'[s] = sees[s]
  BY DEF TypeInv, Table
<1>2. StrangersSetNothing' /\ LinksLocked'
  BY <1>1 DEF StrangersSetNothing, LinksLocked, HasPassword, Unused
<1>3. ResetsUsedTheirLink' /\ AcceptancesAreNoResets'
  BY <1>1 DEF ResetsUsedTheirLink, UsedBy, HasPassword, AcceptancesAreNoResets,
              Accepting, Resetting
<1> QED BY <1>2, <1>3

\* What it invalidates is still unused, and nobody else is invalidating it.
LEMMA InvalidateLinksKeeps ==
  ASSUME LinkInv, TypeInv', NEW r \in Requests, InvalidateLinks(r) PROVE LinkInv'
<1> USE DEF LinkInv, InvalidateLinks, Go, AdvanceTo, Change
<1>1. /\ pc'[r] = "linked" /\ sees'[r] = {l \in sees[r] : Unused(l)}
      /\ \A s \in Requests \ {r} : pc'[s] = pc[s] /\ sees'[s] = sees[s]
  BY DEF TypeInv, Table
<1>2. \A s \in Requests : pc[s] = "linked" => sees[s] \cap sees[r] = {}
  BY DEF LinkLocked
<1>3. StrangersSetNothing' /\ LinksLocked'
  BY <1>1, <1>2 DEF StrangersSetNothing, LinksLocked, HasPassword, Unused
<1>4. ResetsUsedTheirLink' /\ AcceptancesAreNoResets'
  BY <1>1 DEF ResetsUsedTheirLink, UsedBy, HasPassword, AcceptancesAreNoResets,
              Accepting, Resetting
<1> QED BY <1>3, <1>4

\* The commit marks links that are still unused, hence nobody's who resets.
LEMMA CommitLinkKeeps ==
  ASSUME LinkInv, TypeInv', NEW r \in Requests, CommitLink(r) PROVE LinkInv'
<1> USE DEF LinkInv, CommitLink, Go, AdvanceTo, Change
<1>1. /\ pc'[r] = "done" /\ links[r] = None
      /\ \A s \in Requests \ {r} : pc'[s] = pc[s]
      /\ \A l \in sees[r] : Unused(l)
  BY DEF TypeInv, Table, LinksLocked
<1>2. \A l \in Requests : l # r /\ l \notin sees[r] => links'[l] = links[l]
  OBVIOUS
<1>3. StrangersSetNothing'
  BY <1>1 DEF StrangersSetNothing, HasPassword
<1>4. LinksLocked'
  BY <1>1, <1>2 DEF LinksLocked, Unused, TypeInv, Stage
<1>5. \A s \in Requests : UsedBy(s) => UsedBy(s)'
  BY <1>1, <1>2, NoneIsNoSecond DEF UsedBy, Unused
<1>6. ResetsUsedTheirLink' /\ AcceptancesAreNoResets'
  BY <1>1, <1>5 DEF ResetsUsedTheirLink, HasPassword, Resetting,
                    AcceptancesAreNoResets, Accepting
<1> QED BY <1>3, <1>4, <1>6

\* A link is consumed only while nobody has used it, and while no transaction is
\* about to invalidate it.
LEMMA ConsumeKeeps ==
  ASSUME LinkInv, TypeInv', NEW r \in Requests, consume_token(r) PROVE LinkInv'
<1> PICK l \in Requests :
      /\ links[l] # None
      /\ Begin(r, [op |-> "reset", link |-> l])
      /\ ~LinkLocked(l)
      /\ \/ Usable(l) /\ links' = [links EXCEPT ![l].used = r] /\ Go(r, "setting")
         \/ ~Usable(l) /\ Stop(r, "bad_request") /\ UNCHANGED links
      /\ UNCHANGED <<now, account, sessions, minted, sees>>
  BY DEF consume_token
<1> USE DEF LinkInv
<1>1. CASE Usable(l) /\ links' = [links EXCEPT ![l].used = r] /\ Go(r, "setting")
  <2> USE <1>1 DEF Begin, Go, AdvanceTo, Change
  <2>1. links[l] # None /\ links[l] \in Link
    BY DEF TypeInv, Table
  <2>2. links'[l] = [links[l] EXCEPT !.used = r]
    BY DEF TypeInv, Table
  <2>3. /\ links'[l] # None /\ links'[l].used = r
        /\ \A k \in Requests \ {l} : links'[k] = links[k]
    BY <2>1, <2>2, NoneIsNoRow DEF Link, TypeInv, Table
  <2>4. /\ pc[r] = "idle" /\ pc'[r] = "setting" /\ l # r
        /\ req'[r] = [op |-> "reset", link |-> l]
        /\ \A s \in Requests \ {r} : pc'[s] = pc[s] /\ req'[s] = req[s]
    BY <2>1 DEF TypeInv, Table, LinksLocked
  <2>5. StrangersSetNothing'
    BY <2>4 DEF StrangersSetNothing, HasPassword
  <2>6. LinksLocked'
    BY <2>1, <2>3, <2>4 DEF LinksLocked, LinkLocked, Unused
  <2>7. UsedBy(r)' /\ \A s \in Requests \ {r} : UsedBy(s) => UsedBy(s)'
    BY <2>3, <2>4, NoneIsNoSecond DEF UsedBy, Usable, Unused
  <2>8. ResetsUsedTheirLink' /\ AcceptancesAreNoResets'
    BY <2>4, <2>7 DEF ResetsUsedTheirLink, HasPassword, Resetting,
                      AcceptancesAreNoResets, Accepting
  <2> QED BY <2>5, <2>6, <2>8
<1>2. CASE ~Usable(l) /\ Stop(r, "bad_request") /\ UNCHANGED links
  BY <1>2, QuietStep DEF Stop, AdvanceTo, Begin, Accepting
<1> QED BY <1>1, <1>2

\* Who sets the password now has used its link.
LEMMA SetPasswordKeeps ==
  ASSUME LinkInv, TypeInv', NEW r \in Requests, SetPassword(r) PROVE LinkInv'
<1> USE DEF LinkInv, SetPassword, Go, AdvanceTo, Change
<1>1. account \in User
  BY DEF TypeInv, Table, Stage
<1>2. account'.password = r
  BY <1>1 DEF User
<1>3. pc'[r] = "ending" /\ \A s \in Requests \ {r} : pc'[s] = pc[s]
  BY DEF TypeInv, Table
<1>4. StrangersSetNothing' /\ LinksLocked'
  BY <1>2, <1>3 DEF StrangersSetNothing, LinksLocked, HasPassword, Unused
<1>5. \A s \in Requests : UsedBy(s) => UsedBy(s)'
  BY DEF UsedBy
<1>6. ResetsUsedTheirLink' /\ AcceptancesAreNoResets'
  BY <1>2, <1>3, <1>5 DEF ResetsUsedTheirLink, Resetting,
                          AcceptancesAreNoResets, Accepting
<1> QED BY <1>4, <1>6

-------------------------------------------------------------------------------
\* The invariant is inductive.
LEMMA LinksInductive == LinkInv /\ [Next]_vars => LinkInv'
<1> SUFFICES ASSUME LinkInv, [Next]_vars PROVE LinkInv'
  OBVIOUS
<1>1. TypeInv'
  BY TypesInductive DEF LinkInv
<1>2. ASSUME NEW r \in Requests, SessionStep(r) PROVE LinkInv'
  BY <1>1, <1>2, SessionsKeepLinks, SeeLinksKeeps, InvalidateLinksKeeps,
     CommitLinkKeeps, ConsumeKeeps, SetPasswordKeeps DEF SessionStep
<1>3. ASSUME NEW r \in Requests, InvitationStep(r) PROVE LinkInv'
  BY <1>1, <1>3, InvitationsKeepLinks
<1>4. CASE Tick
  BY <1>1, <1>4, UnchangedLinks DEF Tick
<1>5. ASSUME NEW c \in Clubs, DeleteClub(c) PROVE LinkInv'
  BY <1>1, <1>5, UnchangedLinks DEF DeleteClub, sessionVars
<1>6. CASE UNCHANGED vars
  BY <1>1, <1>6, UnchangedLinks DEF vars, sessionVars
<1> QED BY <1>2, <1>3, <1>4, <1>5, <1>6 DEF Next

\* A reset link sets one password, whatever else happens to the account: the
\* request that is setting a password, or set the one there is, is the one its
\* link was consumed by (consume_token, create_token, accept_invite).
THEOREM LinksResetOnce == Spec => []LinkResetsOnce
<1>1. LinkInv => LinkResetsOnce
  BY DEF LinkInv, ResetsUsedTheirLink, UsedBy, Resetting, LinkResetsOnce
<1> QED BY <1>1, InitLinks, LinksInductive, PTL DEF Spec

-------------------------------------------------------------------------------
(* Sessions: the invariant *)

\* What a request at each stage has asked for.
Fits(stage, op) ==
  /\ stage = "storing" => op \in SignIns
  /\ stage \in {"rotating", "locked", "rotated"} => op = "refresh"
  /\ stage \in {"task", "linking", "linked"} => op = "forgot"
  /\ stage \in Resetting => op = "reset"
  /\ stage \in {"dropping", "deleting", "inserting"} => op = "create"
  /\ stage \in {"rotate", "revoke"} => op = stage
  /\ stage \in Accepting => op = "accept"
  /\ stage \in {"updating", "clearing", "assigning"} => op = "update"

\* A request at work on a new token.
Minting == {"storing", "rotating", "locked", "rotated"}
Working(r) ==
  /\ Fits(pc[r], req[r].op)
  /\ pc[r] = "idle" => answer[r] # "ok"
  /\ pc[r] \in Minting => minted[r] \in Seconds
  /\ pc[r] \in {"rotating", "locked", "rotated"} => req[r].token \in Seconds
  /\ pc[r] = "rotated" => sessions[minted[r]] = None
  /\ Answered(r) => /\ minted[r] \in Seconds /\ sessions[minted[r]] # None
                    /\ sessions[minted[r]].by = r

\* A row of the table was inserted by a request that is over and made its token,
\* and was revoked by one that is over and had a reason to; a refresh has then
\* inserted its own.
Stored(t) ==
  sessions[t] # None =>
    LET b == sessions[t].by
        x == sessions[t].revoked
    IN  /\ pc[b] = "done" /\ minted[b] = t
        /\ x # None =>
             /\ pc[x] = "done"
             /\ \/ req[x].op = "reset"
                \/ req[x].op \in {"refresh", "logout"} /\ req[x].token = t
             /\ req[x].op = "refresh" =>
                  /\ minted[x] \in Seconds /\ sessions[minted[x]] # None
                  /\ sessions[minted[x]].by = x

\* Two rotations under way insert different tokens.
RotationsApart ==
  \A r, s \in Requests :
    r # s /\ pc[r] = "rotated" /\ pc[s] = "rotated" => minted[r] # minted[s]

SessionInv ==
  /\ TypeInv /\ RotationsApart
  /\ answer = [r \in Requests |-> answer[r]]
  /\ \A r \in Requests : Working(r)
  /\ \A t \in Seconds : Stored(t)

\* Initially no token is stored and nobody has begun.
LEMMA InitSessions == Init => SessionInv
<1> SUFFICES ASSUME Init PROVE SessionInv
  OBVIOUS
<1>1. \A r \in Requests : pc[r] = "idle" /\ answer[r] = None
  BY DEF Init
<1>2. \A r \in Requests : Working(r)
  BY <1>1, NoneIsNoAnswer DEF Working, Fits, Answered, Minting, Resetting, Accepting
<1>3. \A t \in Seconds : Stored(t)
  BY DEF Init, Stored
<1>4. RotationsApart /\ answer = [r \in Requests |-> answer[r]]
  BY <1>1 DEF RotationsApart, Init
<1> QED BY <1>2, <1>3, <1>4, InitTypes DEF SessionInv

\* Who made or revoked a row is over, and is not the request that takes a step.
LEMMA StoredBy ==
  ASSUME SessionInv, NEW t \in Seconds, sessions[t] # None
  PROVE  /\ sessions[t].by \in Requests /\ pc[sessions[t].by] = "done"
         /\ sessions[t].revoked # None =>
              sessions[t].revoked \in Requests /\ pc[sessions[t].revoked] = "done"
<1>1. sessions[t] \in Session
  BY DEF SessionInv, TypeInv, Table
<1> QED BY <1>1 DEF SessionInv, Stored, Session

\* A step of r that stores or revokes no token, and answers none.
LEMMA QuietSession ==
  ASSUME SessionInv, TypeInv', NEW r \in Requests, NEW stage,
         pc[r] # "done", stage \notin {"idle", "rotated"}, Fits(stage, req'[r].op),
         stage \in Minting => minted'[r] \in Seconds,
         stage \in {"rotating", "locked"} => req'[r].token \in Seconds,
         pc' = Change(pc, r, stage),
         req' = req \/ (pc[r] = "idle" /\ \E q : req' = Change(req, r, q)),
         \/ answer' = answer
         \/ \E outcome : /\ answer' = Change(answer, r, outcome)
                         /\ outcome = "ok" => req'[r].op \notin SignIns,
         minted' = minted \/ minted' = Change(minted, r, now),
         sessions' = sessions
  PROVE  SessionInv'
<1>1. /\ pc'[r] = stage
      /\ \A s \in Requests \ {r} : /\ pc'[s] = pc[s] /\ req'[s] = req[s]
                                   /\ answer'[s] = answer[s] /\ minted'[s] = minted[s]
      /\ answer' = [s \in Requests |-> answer'[s]]
  BY DEF SessionInv, TypeInv, Table, Change
<1>2. ASSUME NEW s \in Requests \ {r} PROVE Working(s)'
  BY <1>1 DEF SessionInv, Working, Answered
<1>3. ~Answered(r)'
  <2> SUFFICES ASSUME Answered(r)' PROVE FALSE
    OBVIOUS
  <2>1. answer'[r] = answer[r] /\ answer[r] = "ok"
    BY DEF Answered, SessionInv, Change
  <2>2. Answered(r)
    BY <2>1 DEF Answered, SessionInv, Working
  <2>3. minted[r] \in Seconds /\ sessions[minted[r]] # None /\ sessions[minted[r]].by = r
    BY <2>2 DEF SessionInv, Working
  <2> QED BY <2>3, StoredBy
<1>4. Working(r)'
  BY <1>1, <1>3 DEF Working, Minting
<1>5. ASSUME NEW t \in Seconds PROVE Stored(t)'
  <2> SUFFICES ASSUME sessions[t] # None PROVE Stored(t)'
    BY DEF Stored
  <2>1. Stored(t)
    BY DEF SessionInv
  <2> QED BY <1>1, <2>1, StoredBy DEF Stored
<1>6. RotationsApart'
  BY <1>1 DEF SessionInv, RotationsApart
<1> QED BY <1>1, <1>2, <1>4, <1>5, <1>6 DEF SessionInv

\* What clients hold was made in some second.
LEMMA HeldSeconds == SessionInv => Held \subseteq Seconds
BY LifetimesTyped DEF Held, SessionInv, Working, Seconds

\* The steps that store and revoke nothing, but for an insertion under way.
LEMMA SessionsKeepSessions ==
  ASSUME SessionInv, TypeInv', NEW r \in Requests,
         \/ login(r) \/ refresh(r) \/ LockSession(r) \/ forgot_password(r)
         \/ SeeLinks(r) \/ InvalidateLinks(r) \/ CommitLink(r) \/ consume_token(r)
         \/ SetPassword(r) \/ SeeSessions(r) \/ Lose(r)
  PROVE  SessionInv'
<1> USE DEF Begin, Go, Stop, AdvanceTo
<1>0. /\ Working(r) /\ now \in Seconds /\ \A q : Change(req, r, q)[r] = q
      /\ minted' = Change(minted, r, now) => minted'[r] = now
  BY DEF SessionInv, TypeInv, Table, Change
<1>1. CASE login(r)
  BY <1>0, <1>1, QuietSession
  DEF login, SignIn, Fits, SignIns, Minting, Resetting, Accepting
<1>2. CASE refresh(r)
  BY <1>0, <1>2, QuietSession, HeldSeconds
  DEF refresh, SignIn, Fits, SignIns, Minting, Resetting, Accepting
<1>3. CASE LockSession(r)
  BY <1>0, <1>3, QuietSession
  DEF LockSession, Working, Fits, SignIns, Minting, Resetting, Accepting
<1>4. CASE forgot_password(r)
  BY <1>0, <1>4, QuietSession
  DEF forgot_password, Fits, SignIns, Minting, Resetting, Accepting
<1>5. CASE SeeLinks(r)
  BY <1>0, <1>5, QuietSession DEF SeeLinks, Working, Fits, Minting, Resetting, Accepting
<1>6. CASE InvalidateLinks(r) \/ CommitLink(r)
  BY <1>0, <1>6, QuietSession
  DEF InvalidateLinks, CommitLink, Working, Fits, Minting, Resetting, Accepting
<1>7. CASE consume_token(r)
  <2> PICK l : /\ Begin(r, [op |-> "reset", link |-> l])
               /\ Go(r, "setting") \/ Stop(r, "bad_request")
               /\ UNCHANGED <<sessions, minted>>
    BY <1>7 DEF consume_token
  <2> QED BY <1>0, QuietSession DEF Fits, Minting, Resetting, Accepting
<1>8. CASE SetPassword(r) \/ SeeSessions(r)
  BY <1>0, <1>8, QuietSession
  DEF SetPassword, SeeSessions, Working, Fits, Minting, Resetting, Accepting
<1>9. CASE Lose(r)
  <2>1. pc[r] # "done" /\ pc[r] # "idle"
    BY <1>9 DEF Lose, Writing
  <2>2. answer'[r] = "ok" => answer[r] = "ok"
    BY <1>9 DEF Lose, SessionInv, Change
  <2>3. \/ answer' = Change(answer, r, "lost")
        \/ answer' = Change(answer, r, answer[r])
    BY <1>9 DEF Lose
  <2>4. Change(answer, r, answer[r]) = answer
    BY DEF SessionInv, Change
  <2> QED BY <1>0, <1>9, <2>1, <2>3, <2>4, QuietSession
          DEF Lose, Fits, Minting, Resetting, Accepting
<1> QED BY <1>1, <1>2, <1>3, <1>4, <1>5, <1>6, <1>7, <1>8, <1>9

\* Invitations and updates sign nobody in, but for the acceptance that goes on to
\* store a token.
LEMMA InvitationsKeepSessions ==
  ASSUME SessionInv, TypeInv', NEW r \in Requests, InvitationStep(r)
  PROVE  SessionInv'
<1> USE DEF Begin, Go, Stop, AdvanceTo, Judge, inviteVars
<1>0. /\ Working(r) /\ now \in Seconds /\ \A q : Change(req, r, q)[r] = q
      /\ minted' = Change(minted, r, now) => minted'[r] = now
  BY DEF SessionInv, TypeInv, Table, Change
<1>1. CASE create_invite(r)
  BY <1>0, <1>1, QuietSession
  DEF create_invite, OfferVerdict, Fits, SignIns, Minting, Resetting, Accepting
<1>2. CASE SeePending(r) \/ DropPending(r) \/ InsertInvite(r)
  BY <1>0, <1>2, QuietSession
  DEF SeePending, DropPending, InsertInvite, Working, Fits, SignIns, Minting, Resetting,
      Accepting
<1>3. CASE ReadInvite(r)
  BY <1>0, <1>3, QuietSession DEF ReadInvite, Fits, SignIns, Minting, Resetting, Accepting
<1>4. CASE rotate_invite_token(r) \/ delete_invite(r)
  BY <1>0, <1>4, QuietSession
  DEF rotate_invite_token, delete_invite, WriteInvite, Working, Fits, SignIns, Minting,
      Resetting, Accepting
<1>5. CASE FindInvite(r)
  <2> PICK token : /\ Begin(r, [op |-> "accept", token |-> token])
                   /\ Go(r, "matching") \/ Stop(r, "bad_request")
                   /\ UNCHANGED <<sessions, minted>>
    BY <1>5 DEF FindInvite
  <2> QED BY <1>0, QuietSession DEF Fits, Minting, Resetting, Accepting
<1>6. CASE MatchAccount(r) \/ WriteAccount(r)
  BY <1>0, <1>6, QuietSession
  DEF MatchAccount, WriteAccount, Working, Fits, Minting, Resetting, Accepting
<1>7. CASE CommitAccept(r)
  BY <1>0, <1>7, QuietSession
  DEF CommitAccept, Working, Fits, SignIns, Minting, Resetting, Accepting
<1>8. CASE update_user(r)
  BY <1>0, <1>8, QuietSession
  DEF update_user, UpdateVerdict, Fits, SignIns, Minting, Resetting, Accepting
<1>9. CASE UpdateFields(r) \/ ClearClubs(r)
  BY <1>0, <1>9, QuietSession
  DEF UpdateFields, ClearClubs, Working, Fits, SignIns, Minting, Resetting, Accepting
<1>10. CASE AssignClub(r)
  <2>1. pc' = pc => pc' = Change(pc, r, "assigning")
    BY <1>10 DEF AssignClub, SessionInv, TypeInv, Table, Change
  <2> QED BY <1>0, <1>10, <2>1, QuietSession
          DEF AssignClub, Working, Fits, SignIns, Minting, Resetting, Accepting
<1> QED BY <1>1, <1>2, <1>3, <1>4, <1>5, <1>6, <1>7, <1>8, <1>9, <1>10 DEF InvitationStep

\* Revoking the rows of a set leaves every row, and says by whom.
LEMMA RevokedRows ==
  ASSUME Table, NEW r \in Requests, NEW rows, NEW t \in Seconds,
         \A u \in rows : u \in Seconds => sessions[u] # None
  PROVE  /\ Revoked(rows, r)[t] # None <=> sessions[t] # None
         /\ sessions[t] # None => Revoked(rows, r)[t].by = sessions[t].by
         /\ \/ Revoked(rows, r)[t] = sessions[t]
            \/ Revoked(rows, r)[t].revoked = r /\ t \in rows
<1>1. CASE sessions[t] = None
  BY <1>1 DEF Revoked
<1>2. CASE sessions[t] # None
  <2>1. sessions[t] \in Session
    BY <1>2 DEF Table
  <2>2. /\ [sessions[t] EXCEPT !.revoked = r] \in Session
        /\ [sessions[t] EXCEPT !.revoked = r].by = sessions[t].by
        /\ [sessions[t] EXCEPT !.revoked = r].revoked = r
    BY <2>1 DEF Session
  <2> QED BY <1>2, <2>1, <2>2, NoneIsNoRow DEF Revoked
<1> QED BY <1>1, <1>2

\* The last step of r, which revokes rows it may revoke, and inserts the row of its
\* token if it has made one that nobody else has made.
LEMMA LastWrite ==
  ASSUME SessionInv, TypeInv', NEW r \in Requests, pc[r] # "done",
         pc' = Change(pc, r, "done"), answer' = Change(answer, r, "ok"), minted' = minted,
         req' = req \/ (pc[r] = "idle" /\ \E q : req' = Change(req, r, q)),
         \A t \in Seconds : sessions[t] # None =>
           /\ sessions'[t] # None /\ sessions'[t].by = sessions[t].by
           /\ \/ sessions'[t].revoked = sessions[t].revoked
              \/ /\ sessions'[t].revoked = r
                 /\ \/ req'[r].op = "reset"
                    \/ req'[r].op \in {"refresh", "logout"} /\ req'[r].token = t,
         \A t \in Seconds : sessions[t] = None /\ sessions'[t] # None =>
           t = minted[r] /\ sessions'[t].by = r /\ sessions'[t].revoked = None,
         req'[r].op \in SignIns =>
           minted[r] \in Seconds /\ sessions'[minted[r]] # None
             /\ sessions'[minted[r]].by = r,
         \A s \in Requests \ {r} : pc[s] = "rotated" => sessions'[minted[s]] = None
  PROVE  SessionInv'
<1>1. /\ pc'[r] = "done" /\ answer'[r] = "ok"
      /\ \A s \in Requests \ {r} : /\ pc'[s] = pc[s] /\ req'[s] = req[s]
                                   /\ answer'[s] = answer[s] /\ minted'[s] = minted[s]
      /\ answer' = [s \in Requests |-> answer'[s]]
  BY DEF SessionInv, TypeInv, Table, Change
<1>2. ASSUME NEW s \in Requests \ {r} PROVE Working(s)'
  <2>1. Working(s)
    BY DEF SessionInv
  <2> QED BY <1>1, <2>1 DEF Working, Answered
<1>3. Working(r)'
  BY <1>1 DEF Working, Answered, Fits, Minting, Resetting, Accepting
<1>4. ASSUME NEW t \in Seconds PROVE Stored(t)'
  <2>1. CASE sessions[t] # None
    <3>1. /\ sessions'[t].by = sessions[t].by
          /\ sessions[t].by \in Requests \ {r} /\ pc[sessions[t].by] = "done"
          /\ minted[sessions[t].by] = t
      BY <2>1, StoredBy DEF SessionInv, Stored
    <3>2. CASE sessions'[t].revoked = sessions[t].revoked
      <4> DEFINE x == sessions[t].revoked
      <4>1. x = None \/ x \in Requests \ {r}
        BY <2>1, StoredBy
      <4>2. Stored(t)
        BY DEF SessionInv
      <4> QED BY <1>1, <2>1, <3>1, <3>2, <4>1, <4>2 DEF Stored
    <3>3. CASE /\ sessions'[t].revoked = r
               /\ \/ req'[r].op = "reset"
                  \/ req'[r].op \in {"refresh", "logout"} /\ req'[r].token = t
      BY <1>1, <2>1, <3>1, <3>3 DEF Stored, SignIns
    <3> QED BY <2>1, <3>2, <3>3
  <2>2. CASE sessions[t] = None
    BY <1>1, <2>2 DEF Stored
  <2> QED BY <2>1, <2>2
<1>5. RotationsApart'
  BY <1>1 DEF SessionInv, RotationsApart
<1> QED BY <1>1, <1>2, <1>3, <1>4, <1>5 DEF SessionInv

\* Log-in, acceptance or a second refresh store the token they made.
LEMMA StoreKeepsSessions ==
  ASSUME SessionInv, TypeInv', NEW r \in Requests, store_refresh_token(r)
  PROVE  SessionInv'
<1> DEFINE t == minted[r]
           row == [by |-> r, revoked |-> None]
<1>0. /\ pc[r] = "storing" /\ ~Uncommitted(t) /\ Working(r) /\ t \in Seconds
      /\ req' = req /\ minted' = minted
  BY DEF store_refresh_token, SessionInv, Working, Minting
<1>1. CASE Stop(r, "conflict") /\ UNCHANGED sessions
  BY <1>0, <1>1, QuietSession DEF Stop, AdvanceTo, Fits, Minting, Resetting, Accepting
<1>2. CASE /\ ~TokenTaken(t) /\ sessions' = Change(sessions, t, row)
           /\ Stop(r, "ok")
  <2>1. /\ row # None /\ row.by = r /\ row.revoked = None
    BY NoneIsNoRow DEF Session
  <2> HIDE DEF row
  <2>2. sessions[t] = None /\ sessions'[t] = row
        /\ \A u \in Seconds \ {t} : sessions'[u] = sessions[u]
    BY <1>0, <1>2 DEF TokenTaken, Change, SessionInv, TypeInv, Table
  <2>3. \A s \in Requests \ {r} : pc[s] = "rotated" =>
          minted[s] \in Seconds \ {t} /\ sessions[minted[s]] = None
    BY <1>0 DEF Uncommitted, SessionInv, Working, Minting
  <2> QED BY <1>0, <1>2, <2>1, <2>2, <2>3, LastWrite DEF Stop, AdvanceTo
<1> QED BY <1>0, <1>1, <1>2 DEF store_refresh_token

\* A rotation that inserts its token, while nobody else has, leaves it to itself.
LEMMA InsertKeepsSessions ==
  ASSUME SessionInv, TypeInv', NEW r \in Requests, InsertRotated(r)
  PROVE  SessionInv'
<1>0. /\ pc[r] = "locked" /\ ~Uncommitted(minted[r]) /\ Working(r)
      /\ req' = req /\ minted' = minted /\ sessions' = sessions
  BY DEF InsertRotated, RevokeOld, SessionInv
<1>1. CASE Stop(r, "conflict")
  BY <1>0, <1>1, QuietSession DEF Stop, AdvanceTo, Fits, Minting, Resetting, Accepting
<1>2. CASE ~TokenTaken(minted[r]) /\ Go(r, "rotated")
  <2>1. /\ pc'[r] = "rotated" /\ \A s \in Requests \ {r} : pc'[s] = pc[s]
        /\ answer' = answer
    BY <1>2 DEF Go, AdvanceTo, Change, SessionInv, TypeInv, Table
  <2>2. ASSUME NEW s \in Requests PROVE Working(s)'
    <3>1. CASE s = r
      BY <1>0, <1>2, <2>1, <3>1 
      DEF Working, Fits, Minting, Resetting, Accepting, Answered, TokenTaken
    <3>2. CASE s # r
      <4>1. Working(s)
        BY DEF SessionInv
      <4> QED BY <1>0, <2>1, <3>2, <4>1 DEF Working, Answered
    <3> QED BY <3>1, <3>2
  <2>3. ASSUME NEW t \in Seconds PROVE Stored(t)'
    <3> SUFFICES ASSUME sessions[t] # None PROVE Stored(t)'
      BY <1>0 DEF Stored
    <3>1. Stored(t)
      BY DEF SessionInv
    <3> QED BY <1>0, <2>1, <3>1, StoredBy DEF Stored
  <2>4. RotationsApart'
    BY <1>0, <2>1 DEF RotationsApart, Uncommitted, SessionInv
  <2> QED BY <2>1, <2>2, <2>3, <2>4 DEF SessionInv
<1> QED BY <1>1, <1>2 DEF InsertRotated

\* The commit of a rotation revokes the old token and stores the new one.
LEMMA RotationKeepsSessions ==
  ASSUME SessionInv, TypeInv', NEW r \in Requests, CommitRotation(r)
  PROVE  SessionInv'
<1> DEFINE t == minted[r]
           old == Revoked({req[r].token}, r)
           row == [by |-> r, revoked |-> None]
<1>0. /\ pc[r] = "rotated" /\ Working(r) /\ t \in Seconds /\ sessions[t] = None
      /\ req' = req /\ minted' = minted /\ req[r].op = "refresh"
      /\ req[r].token \in Seconds /\ sessions[req[r].token] # None
      /\ pc' = Change(pc, r, "done") /\ answer' = Change(answer, r, "ok")
      /\ sessions' = Change(old, t, row)
  BY DEF CommitRotation, SessionInv, Working, Minting, Fits, TypeInv, Stage, Stop, AdvanceTo
<1>1. /\ row # None /\ row.by = r /\ row.revoked = None
  BY NoneIsNoRow DEF Session
<1>2. \A u \in Seconds :
        /\ old[u] # None <=> sessions[u] # None
        /\ sessions[u] # None => old[u].by = sessions[u].by
        /\ \/ old[u] = sessions[u]
           \/ old[u].revoked = r /\ u \in {req[r].token}
  BY <1>0, RevokedRows DEF SessionInv, TypeInv
<1>3. DOMAIN old = Seconds
  BY DEF Revoked
<1> HIDE DEF row, old
<1>4. sessions'[t] = row /\ \A u \in Seconds \ {t} : sessions'[u] = old[u]
  BY <1>0, <1>3 DEF Change
<1>5. \A s \in Requests \ {r} : pc[s] = "rotated" =>
        minted[s] \in Seconds \ {t} /\ sessions[minted[s]] = None
  BY <1>0 DEF RotationsApart, SessionInv, Working, Minting
<1> QED BY <1>0, <1>1, <1>2, <1>4, <1>5, LastWrite

\* Logging out and resetting a password revoke rows.
LEMMA RevokingKeepsSessions ==
  ASSUME SessionInv, TypeInv', NEW r \in Requests, logout(r) \/ revoke_all_for_user(r)
  PROVE  SessionInv'
<1>0. Working(r)
  BY DEF SessionInv
<1>1. \A s \in Requests \ {r} : pc[s] = "rotated" =>
        minted[s] \in Seconds /\ sessions[minted[s]] = None
  BY DEF SessionInv, Working, Minting
<1>2. PICK rows :
        /\ sessions' = Revoked(rows, r)
        /\ \A u \in rows : u \in Seconds => sessions[u] # None
        /\ \/ req'[r].op = "reset"
           \/ req'[r].op = "logout" /\ \A u \in rows : req'[r].token = u
        /\ pc[r] # "done" /\ pc' = Change(pc, r, "done") /\ answer' = Change(answer, r, "ok")
        /\ minted' = minted
        /\ req' = req \/ (pc[r] = "idle" /\ \E q : req' = Change(req, r, q))
  <2>1. CASE logout(r)
    <3>1. PICK t \in Held :
            /\ Begin(r, [op |-> "logout", token |-> t])
            /\ sessions' = Revoked(IF sessions[t] = None THEN {} ELSE {t}, r)
            /\ Stop(r, "ok") /\ minted' = minted
      BY <2>1 DEF logout
    <3>2. req'[r].op = "logout" /\ req'[r].token = t
      BY <3>1 DEF Begin, Change, SessionInv, TypeInv, Table
    <3> WITNESS IF sessions[t] = None THEN {} ELSE {t}
    <3> QED BY <3>1, <3>2 DEF Begin, Stop, AdvanceTo
  <2>2. CASE revoke_all_for_user(r)
    <3> WITNESS sees[r]
    <3> QED BY <1>0, <2>2 DEF revoke_all_for_user, Stop, AdvanceTo, Working, Fits, Resetting,
                              SessionInv, TypeInv, Stage
  <2> QED BY <2>1, <2>2
<1>3. \A u \in Seconds :
        /\ sessions'[u] # None <=> sessions[u] # None
        /\ sessions[u] # None => sessions'[u].by = sessions[u].by
        /\ \/ sessions'[u] = sessions[u]
           \/ sessions'[u].revoked = r /\ u \in rows
  BY <1>2, RevokedRows DEF SessionInv, TypeInv
<1>4. req'[r].op \notin SignIns
  BY <1>2 DEF SignIns
<1> QED BY <1>1, <1>2, <1>3, <1>4, LastWrite

\* The invariant is inductive.
LEMMA SessionsInductive == SessionInv /\ [Next]_vars => SessionInv'
<1> SUFFICES ASSUME SessionInv, [Next]_vars PROVE SessionInv'
  OBVIOUS
<1>1. TypeInv'
  BY TypesInductive DEF SessionInv
<1>2. ASSUME NEW r \in Requests, SessionStep(r) PROVE SessionInv'
  BY <1>1, <1>2, SessionsKeepSessions, StoreKeepsSessions, InsertKeepsSessions,
     RotationKeepsSessions, RevokingKeepsSessions DEF SessionStep
<1>3. ASSUME NEW r \in Requests, InvitationStep(r) PROVE SessionInv'
  BY <1>1, <1>3, InvitationsKeepSessions
<1>4. ASSUME UNCHANGED <<sessions, pc, req, answer, minted>> PROVE SessionInv'
  BY <1>1, <1>4 DEF SessionInv, RotationsApart, Working, Stored, Answered
<1>5. CASE Tick
  BY <1>4, <1>5 DEF Tick
<1>6. ASSUME NEW c \in Clubs, DeleteClub(c) PROVE SessionInv'
  BY <1>4, <1>6 DEF DeleteClub, sessionVars
<1>7. CASE UNCHANGED vars
  BY <1>4, <1>7 DEF vars, sessionVars
<1> QED BY <1>2, <1>3, <1>5, <1>6, <1>7 DEF Next

LEMMA SessionInvHolds == Spec => []SessionInv
BY InitSessions, SessionsInductive, PTL DEF Spec

\* Every client that was answered a refresh token has a session of its own, which
\* only a request that named its token, or a reset, revokes.
THEOREM SessionsAreOwn == Spec => []SessionIsOwn
<1>1. SessionInv => SessionIsOwn
  <2> SUFFICES ASSUME SessionInv, NEW r \in Requests, Answered(r)
               PROVE  LET row == sessions[minted[r]]
                      IN  /\ row # None /\ row.by = r
                          /\ row.revoked # None =>
                               \/ req[row.revoked].op = "reset"
                               \/ /\ req[row.revoked].op \in {"refresh", "logout"}
                                  /\ req[row.revoked].token = minted[r]
    BY DEF SessionIsOwn
  <2>1. /\ minted[r] \in Seconds /\ sessions[minted[r]] # None
        /\ sessions[minted[r]].by = r /\ Stored(minted[r])
    BY DEF SessionInv, Working
  <2> QED BY <2>1 DEF Stored
<1> QED BY <1>1, SessionInvHolds, PTL

\* A refresh that revoked the old token has stored the new one.
THEOREM RotationsAreWhole == Spec => []RotationIsWhole
<1>1. SessionInv => RotationIsWhole
  BY DEF SessionInv, Stored, RotationIsWhole
<1> QED BY <1>1, SessionInvHolds, PTL
-------------------------------------------------------------------------------
(* Who an account was made by: the invariant *)

\* A super administrator has invited somebody to the role, if that takes one.
Appointed(role) ==
  \/ role = "club_manager"
  \/ \E r \in Asked("create") :
       req[r].actor = "super_admin" /\ req[r].offer.role = role

\* What is asked is remembered; an acceptance that has not committed made nothing.
Asking(r) ==
  /\ pc[r] = "idle" => req[r] = None /\ minted[r] = None
  /\ pc[r] \in {"dropping", "deleting", "inserting"} =>
       r \in Asked("create") /\ Appointed(req[r].offer.role)
  /\ pc[r] \in {"updating", "clearing", "assigning"} => r \in Asked("update")
  /\ pc[r] \in Accepting =>
       r \in Asked("accept") /\ Appointed(read[r].role) /\ minted[r] = None
  /\ r \in Accepted => pc[r] \in {"storing", "done"}

RolesAppointed ==
  /\ account # None => Appointed(account.role)
  /\ \A i \in Invites : invites[i] # None => Appointed(invites[i].role)

\* One acceptance at a time writes the account, and replaces all its clubs.
AcceptanceAlone ==
  \A r \in Requests :
    pc[r] = "accepting" =>
      /\ \A s \in Requests \ {r} : pc[s] # "accepting"
      /\ Asked("update") = {} => managers \subseteq sees[r]

AccountInv ==
  /\ SessionInv /\ RolesAppointed /\ AcceptanceAlone /\ AccountIsOneInvites
  /\ Accepted # {} => account # None
  /\ \A r \in Requests : Asking(r)

\* Initially nobody has asked for anything, and the account is a club manager's.
LEMMA InitAccount == Init => AccountInv
<1> SUFFICES ASSUME Init PROVE AccountInv
  OBVIOUS
<1>1. \A r \in Requests : pc[r] = "idle" /\ req[r] = None /\ minted[r] = None
  BY DEF Init
<1>2. \A role : role = "club_manager" => Appointed(role)
  BY DEF Appointed
<1>3. RolesAppointed
  BY <1>2 DEF RolesAppointed, Init
<1>4. \A r \in Requests : Asking(r)
  BY <1>1 DEF Asking, Accepting, Accepted, Asked
<1>5. AcceptanceAlone /\ AccountIsOneInvites /\ Accepted = {}
  BY <1>1 DEF AcceptanceAlone, AccountIsOneInvites, Accepted, Asked
<1> QED BY <1>3, <1>4, <1>5, InitSessions DEF AccountInv

\* A step of r in which only r can ask for something.
OneAsks(r) ==
  /\ req'[r] = req[r] \/ pc[r] = "idle"
  /\ \A s \in Requests \ {r} : req'[s] = req[s]

\* What was asked stays asked, and who was appointed stays appointed.
LEMMA AskedStays ==
  ASSUME AccountInv, NEW r \in Requests, OneAsks(r)
  PROVE  /\ \A s \in Requests : \A op : s \in Asked(op) => s \in Asked(op)' /\ req'[s] = req[s]
         /\ \A role : Appointed(role) => Appointed(role)'
<1>1. \A s \in Requests : \A op : s \in Asked(op) => s \in Asked(op)' /\ req'[s] = req[s]
  BY DEF OneAsks, AccountInv, Asking, Asked
<1>2. ASSUME NEW role, Appointed(role) PROVE Appointed(role)'
  <2>1. CASE role = "club_manager"
    BY <2>1 DEF Appointed
  <2>2. CASE role # "club_manager"
    <3>1. PICK s \in Asked("create") :
            req[s].actor = "super_admin" /\ req[s].offer.role = role
      BY <1>2, <2>2 DEF Appointed
    <3>2. s \in Asked("create")' /\ req'[s] = req[s]
      BY <1>1, <3>1 DEF Asked
    <3> QED BY <3>1, <3>2 DEF Appointed
  <2> QED BY <2>1, <2>2
<1> QED BY <1>1, <1>2

\* A step of r leaves alone what the other requests rely on.
LEMMA OthersAsk ==
  ASSUME AccountInv, NEW r \in Requests, OneAsks(r), NEW s \in Requests \ {r},
         pc'[s] = pc[s], minted'[s] = minted[s], read'[s] = read[s]
  PROVE  Asking(s)'
<1>1. Asking(s) /\ req'[s] = req[s]
  BY DEF AccountInv, OneAsks
<1>2. \A op : s \in Asked(op) <=> s \in Asked(op)'
  BY <1>1 DEF Asked
<1>3. s \in Accepted <=> s \in Accepted'
  BY <1>2 DEF Accepted
<1> QED BY <1>1, <1>2, <1>3, AskedStays DEF Asking

\* A step of r that neither begins nor ends an acceptance.
LEMMA QuietAccount ==
  ASSUME AccountInv, SessionInv', NEW r \in Requests, NEW stage, OneAsks(r), Asking(r)',
         stage # "accepting", pc' = Change(pc, r, stage),
         \A s \in Requests \ {r} :
           read'[s] = read[s] /\ sees'[s] = sees[s] /\ minted'[s] = minted[s],
         minted'[r] = minted[r] \/ req'[r].op # "accept",
         read'[r] = read[r] \/ pc[r] \notin {"storing", "done"},
         \/ account' = account
         \/ account # None /\ account' # None /\ account'.role = account.role,
         \A i \in Invites :
           \/ invites'[i] = None
           \/ invites[i] # None /\ invites'[i].role = invites[i].role
           \/ Appointed(invites'[i].role),
         managers' = managers \/ Asked("update") # {},
         clubs' = clubs
  PROVE  AccountInv'
<1>1. /\ pc'[r] = stage
      /\ \A s \in Requests \ {r} : pc'[s] = pc[s]
  BY DEF AccountInv, SessionInv, TypeInv, Table, Change
<1>2. \A s \in Requests : Asking(s)'
  BY <1>1, OthersAsk
<1>3. RolesAppointed'
  BY AskedStays DEF AccountInv, RolesAppointed
<1>4. Asked("update")' = {} => Asked("update") = {} /\ managers' = managers
  BY AskedStays DEF Asked
<1>5. AcceptanceAlone'
  BY <1>1, <1>4 DEF AccountInv, AcceptanceAlone
<1>6. /\ \A s \in Accepted' : s \in Accepted /\ read'[s] = read[s]
      /\ \A s \in Accepted : s \in Accepted' /\ read'[s] = read[s]
  <2>1. ASSUME NEW s \in Requests \ {r}
        PROVE  (s \in Accepted <=> s \in Accepted') /\ read'[s] = read[s]
    BY DEF OneAsks, Accepted, Asked
  <2>2. r \in Accepted => pc[r] \in {"storing", "done"}
    BY DEF AccountInv, Asking
  <2>3. r \in Accepted => r \in Accepted' /\ read'[r] = read[r]
    BY <2>2 DEF OneAsks, Accepted, Asked, Asking
  <2>4. r \in Accepted' => r \in Accepted
    <3> SUFFICES ASSUME r \in Accepted' PROVE r \in Accepted
      OBVIOUS
    <3>1. minted'[r] = minted[r] /\ minted[r] # None /\ req'[r] # None
          /\ req'[r].op = "accept"
      BY DEF Accepted, Asked
    <3>2. req'[r] = req[r]
      BY <3>1 DEF OneAsks, AccountInv, Asking
    <3> QED BY <3>1, <3>2 DEF Accepted, Asked
  <2> QED BY <2>1, <2>3, <2>4 DEF Accepted, Asked
<1>7. Accepted' # {} => account # None /\ account'.role = account.role
  BY <1>6 DEF AccountInv
<1>8. AccountIsOneInvites'
  BY <1>4, <1>6, <1>7 DEF AccountInv, AccountIsOneInvites
<1>9. Accepted' # {} => account' # None
  BY <1>6 DEF AccountInv
<1> QED BY <1>2, <1>3, <1>5, <1>8, <1>9 DEF AccountInv

\* Of the steps about sessions and links, none asks for an account or writes its
\* role: they store the token of an acceptance, or lose it.
Elsewhere == {"storing", "rotating", "locked", "rotated", "task", "linking", "linked",
              "setting", "ending", "revoking", "done"}

LEMMA SessionsAsk ==
  ASSUME AccountInv, NEW r \in Requests, SessionStep(r)
  PROVE  /\ \E stage \in Elsewhere :
              pc' = Change(pc, r, stage) /\ (pc[r] = "storing" => stage = "done")
         /\ pc[r] # "done"
         /\ \/ req' = req /\ pc[r] # "idle"
            \/ pc[r] = "idle" /\ \E q : /\ req' = Change(req, r, q)
                                        /\ q.op \notin {"create", "update", "accept"}
         /\ \/ minted' = minted
            \/ minted' = Change(minted, r, now) /\ req'[r].op # "accept"
         /\ sees' = sees \/ \E s : sees' = Change(sees, r, s)
         /\ \/ account' = account
            \/ account # None /\ account' # None /\ account'.role = account.role
<1> USE DEF Begin, Go, Stop, AdvanceTo, Elsewhere
<1>0. Fits(pc[r], req[r].op) /\ \A q : Change(req, r, q)[r] = q
  BY DEF AccountInv, SessionInv, Working, TypeInv, Table, Change
<1>1. CASE login(r)
  BY <1>0, <1>1 DEF login, SignIn
<1>2. CASE refresh(r)
  <2> PICK t \in Held : /\ Begin(r, [op |-> "refresh", token |-> t])
                        /\ SignIn(r, now <= t + Lifetime /\ Active, "rotating")
    BY <1>2 DEF refresh
  <2> QED BY <1>0 DEF SignIn
<1>3. CASE store_refresh_token(r) \/ CommitRotation(r)
  BY <1>3 DEF store_refresh_token, CommitRotation
<1>4. CASE LockSession(r) \/ InsertRotated(r)
  BY <1>4 DEF LockSession, InsertRotated
<1>5. CASE logout(r)
  <2> PICK t \in Held : /\ Begin(r, [op |-> "logout", token |-> t]) /\ Stop(r, "ok")
                        /\ UNCHANGED <<account, minted, sees>>
    BY <1>5 DEF logout
  <2> QED OBVIOUS
<1>6. CASE forgot_password(r)
  BY <1>6 DEF forgot_password
<1>7. CASE SeeLinks(r)
  BY <1>0, <1>7 DEF SeeLinks, Fits
<1>8. CASE InvalidateLinks(r) \/ CommitLink(r)
  BY <1>8 DEF InvalidateLinks, CommitLink
<1>9. CASE consume_token(r)
  <2> PICK l : /\ Begin(r, [op |-> "reset", link |-> l])
               /\ Go(r, "setting") \/ Stop(r, "bad_request")
               /\ UNCHANGED <<account, minted, sees>>
    BY <1>9 DEF consume_token
  <2> QED OBVIOUS
<1>10. CASE SetPassword(r)
  <2>1. account \in User /\ account' = [account EXCEPT !.password = r]
    BY <1>10 DEF SetPassword, AccountInv, SessionInv, TypeInv, Table, Stage
  <2>2. account' \in User /\ account'.role = account.role
    BY <2>1 DEF User
  <2> QED BY <1>10, <2>1, <2>2, NoneIsNoUserOrInvite DEF SetPassword
<1>11. CASE SeeSessions(r) \/ revoke_all_for_user(r) \/ Lose(r)
  BY <1>11 DEF SeeSessions, revoke_all_for_user, Lose, Writing
<1> QED BY <1>1, <1>2, <1>3, <1>4, <1>5, <1>6, <1>7, <1>8, <1>9, <1>10, <1>11 DEF SessionStep

LEMMA SessionsKeepAccount ==
  ASSUME AccountInv, SessionInv', NEW r \in Requests, SessionStep(r), UNCHANGED inviteVars
  PROVE  AccountInv'
<1>1. PICK stage \in Elsewhere :
        pc' = Change(pc, r, stage) /\ (pc[r] = "storing" => stage = "done")
  BY SessionsAsk
<1>2. /\ OneAsks(r)
      /\ \A s \in Requests \ {r} : sees'[s] = sees[s] /\ minted'[s] = minted[s]
      /\ minted'[r] = minted[r] \/ req'[r].op # "accept"
  BY SessionsAsk DEF OneAsks, Change, AccountInv, SessionInv, TypeInv, Table
<1>3. r \in Accepted' => r \in Accepted /\ pc[r] = "storing"
  <2> SUFFICES ASSUME r \in Accepted' PROVE r \in Accepted /\ pc[r] = "storing"
    OBVIOUS
  <2>1. minted'[r] = minted[r] /\ req'[r] # None /\ req'[r].op = "accept" /\ minted[r] # None
    BY <1>2 DEF Accepted, Asked
  <2>2. req' = req
    BY <2>1, SessionsAsk DEF Change, AccountInv, SessionInv, TypeInv, Table
  <2>3. r \in Accepted
    BY <2>1, <2>2 DEF Accepted, Asked
  <2> QED BY <2>3, SessionsAsk DEF AccountInv, Asking
<1>4. pc'[r] = stage
  BY <1>1 DEF Change, AccountInv, SessionInv, TypeInv, Table
<1>5. Asking(r)'
  BY <1>1, <1>3, <1>4 DEF Asking, Elsewhere, Accepting
<1>6. UNCHANGED <<clubs, managers, invites, read>>
  BY DEF inviteVars
<1> QED BY <1>1, <1>2, <1>5, <1>6, QuietAccount, SessionsAsk DEF Elsewhere

\* What a manager may offer is a club manager's role or a super administrator's
\* appointment.
LEMMA OfferAppointed ==
  ASSUME AccountInv, NEW r \in Requests, NEW actor \in Managing, NEW o \in Offers,
         pc[r] = "idle", req'[r] = [op |-> "create", actor |-> actor, offer |-> o],
         can_assign_role(actor, o.role)
  PROVE  r \in Asked("create")' /\ Appointed(o.role)'
<1>1. r \in Asked("create")'
  BY NoneIsNoAsk DEF Asked
<1> QED BY <1>1 DEF Appointed, can_assign_role, Managing

\* A request that is not an acceptance, or one that has made nothing, is none that
\* was accepted.
LEMMA InvitationsKeepAccount ==
  ASSUME AccountInv, SessionInv', NEW r \in Requests, InvitationStep(r),
         ~WriteAccount(r), ~CommitAccept(r)
  PROVE  AccountInv'
<1> USE DEF Begin, Go, Stop, AdvanceTo, Judge, inviteVars
<1>0. /\ Asking(r) /\ Fits(pc[r], req[r].op) /\ Stage(r) /\ Table
      /\ \A q : Change(req, r, q)[r] = q
      /\ \A x : Change(read, r, x)[r] = x
      /\ \A stage : pc' = Change(pc, r, stage) => pc'[r] = stage
  BY DEF AccountInv, SessionInv, Working, TypeInv, Table, Change
<1>1. r \in Accepted => pc[r] \in {"storing", "done"}
  BY <1>0 DEF Asking
<1>2. UNCHANGED minted => \A s \in Requests : minted'[s] = minted[s]
  OBVIOUS
<1>3. \A q : req' = Change(req, r, q) /\ pc[r] = "idle" => OneAsks(r)
  BY DEF OneAsks, Change, AccountInv, SessionInv, TypeInv, Table
<1>4. \A x : read' = Change(read, r, x) =>
        \A s \in Requests \ {r} : read'[s] = read[s]
  BY DEF Change, AccountInv, SessionInv, TypeInv, Table
<1>5. \A x : sees' = Change(sees, r, x) =>
        \A s \in Requests \ {r} : sees'[s] = sees[s]
  BY DEF Change, AccountInv, SessionInv, TypeInv, Table
<1>6. req' = req => OneAsks(r)
  BY DEF OneAsks
<1>7. ASSUME UNCHANGED minted, pc[r] \notin {"storing", "done"} PROVE r \notin Accepted'
  <2>1. CASE pc[r] = "idle"
    BY <1>0, <1>7, <2>1 DEF Accepted, Asking
  <2>2. CASE req' = req
    BY <1>1, <1>7, <2>2 DEF Accepted, Asked
  <2>3. req' = req \/ pc[r] = "idle"
    BY DEF InvitationStep, create_invite, SeePending, DropPending, InsertInvite, ReadInvite,
           rotate_invite_token, delete_invite, WriteInvite, FindInvite, MatchAccount,
           WriteAccount, CommitAccept, update_user, UpdateFields, ClearClubs, AssignClub
  <2> QED BY <2>1, <2>2, <2>3
<1>11. CASE create_invite(r)
  <2>1. PICK actor \in Managing, o \in Offers :
          LET q == [op |-> "create", actor |-> actor, offer |-> o]
          IN  Begin(r, q) /\ Judge(r, OfferVerdict(q), "dropping") /\ UNCHANGED read
    BY <1>11 DEF create_invite
  <2> DEFINE q == [op |-> "create", actor |-> actor, offer |-> o]
  <2>2. /\ pc[r] = "idle" /\ req'[r] = q /\ OneAsks(r)
    BY <1>0, <1>3, <2>1
  <2>3. OfferVerdict(q) = "ok" => can_assign_role(actor, o.role)
    BY DEF OfferVerdict
  <2>4. \/ pc' = Change(pc, r, "done")
        \/ pc' = Change(pc, r, "dropping") /\ can_assign_role(actor, o.role)
    BY <2>1, <2>3
  <2>5. Asking(r)'
    BY <1>0, <1>7, <2>1, <2>2, <2>4, OfferAppointed DEF Asking, Accepting
  <2> QED BY <2>1, <2>2, <2>4, <2>5, QuietAccount
<1>12. CASE SeePending(r)
  <2>1. Asking(r)'
    BY <1>0, <1>6, <1>7, <1>12, AskedStays DEF SeePending, Asking, Accepting
  <2> QED BY <1>5, <1>6, <1>12, <2>1, QuietAccount DEF SeePending
<1>13. CASE DropPending(r)
  <2>1. Asking(r)'
    BY <1>0, <1>6, <1>7, <1>13, AskedStays DEF DropPending, Asking, Accepting
  <2>2. \A i \in Invites : invites'[i] = None \/ invites'[i] = invites[i]
    BY <1>13 DEF DropPending
  <2> QED BY <1>6, <1>13, <2>1, <2>2, QuietAccount DEF DropPending
<1>14. CASE InsertInvite(r)
  <2>1. Asking(r)'
    BY <1>0, <1>6, <1>7, <1>14 DEF InsertInvite, Asking, Accepting
  <2>2. /\ \A i \in Invites \ {r} : invites'[i] = invites[i]
        /\ invites'[r].role = req[r].offer.role
    BY <1>0, <1>14 DEF InsertInvite, Change, Table, Invites
  <2>3. Appointed(req[r].offer.role)
    BY <1>0, <1>14 DEF InsertInvite, Asking
  <2>4. \A i \in Invites :
           \/ invites'[i] = None
           \/ invites[i] # None /\ invites'[i].role = invites[i].role
           \/ Appointed(invites'[i].role)
    BY <2>2, <2>3
  <2> QED BY <1>6, <1>14, <2>1, <2>4, QuietAccount DEF InsertInvite
<1>15. CASE ReadInvite(r)
  <2> PICK actor \in Managing, op \in {"rotate", "revoke"}, i \in Invites :
         /\ Begin(r, [op |-> op, actor |-> actor, invite |-> i])
         /\ Go(r, op) \/ \E verdict : Stop(r, verdict)
         /\ UNCHANGED <<account, minted, sees, read, clubs, managers, invites>>
    BY <1>15 DEF ReadInvite
  <2>1. PICK stage \in {"rotate", "revoke", "done"} : pc' = Change(pc, r, stage)
    OBVIOUS
  <2>2. Asking(r)'
    BY <1>0, <1>7, <2>1 DEF Asking, Accepting
  <2> QED BY <1>0, <1>3, <2>1, <2>2, QuietAccount
<1>16. CASE rotate_invite_token(r) \/ delete_invite(r)
  <2> DEFINE Writes(i, row) ==
               /\ WriteInvite(r, i, row) /\ pc[r] \in {"rotate", "revoke"}
               /\ \/ row = None
                  \/ invites[i] # None /\ row = [invites[i] EXCEPT !.token = r, !.at = now,
                                                                   !.accepted = None]
  <2>0. PICK i \in Invites : \E row : Writes(i, row)
    BY <1>0, <1>16 DEF rotate_invite_token, delete_invite, Stage
  <2>1. PICK row : Writes(i, row)
    BY <2>0
  <2>2. \A j \in Invites : \/ invites'[j] = None \/ invites'[j] = invites[j]
                           \/ j = i /\ invites'[j] = row
    BY <1>0, <2>1 DEF WriteInvite, Change, Table
  <2>3. invites[i] # None => [invites[i] EXCEPT !.token = r, !.at = now,
                                                !.accepted = None].role = invites[i].role
    BY <1>0 DEF Table, Invite
  <2>4. \A j \in Invites : \/ invites'[j] = None
                           \/ invites[j] # None /\ invites'[j].role = invites[j].role
    BY <2>1, <2>2, <2>3
  <2>5. pc' = Change(pc, r, "done") /\ req' = req
        /\ UNCHANGED <<account, minted, sees, read, clubs, managers>>
    BY <2>1 DEF WriteInvite
  <2>6. Asking(r)'
    BY <1>0, <1>7, <2>1, <2>5 DEF Asking, Accepting
  <2> QED BY <1>6, <2>4, <2>5, <2>6, QuietAccount
<1>17. CASE FindInvite(r)
  <2>1. PICK token \in Invites :
          /\ Begin(r, [op |-> "accept", token |-> token])
          /\ \/ Stop(r, "bad_request") /\ UNCHANGED read
             \/ \E i \in Invites :
                  /\ invites[i] # None
                  /\ read' = Change(read, r, [invite |-> i, role |-> invites[i].role,
                                              clubs |-> invites[i].clubs, existing |-> FALSE])
                  /\ Go(r, "matching")
          /\ UNCHANGED <<account, minted, sees, clubs, managers, invites>>
    BY <1>17 DEF FindInvite, Sent, Invites, ByToken
  <2>2. OneAsks(r) /\ pc[r] = "idle" /\ minted[r] = None
        /\ req'[r] = [op |-> "accept", token |-> token]
    BY <1>0, <1>3, <2>1 DEF Asking
  <2>3. r \in Asked("accept")'
    BY <2>2, NoneIsNoAsk DEF Asked
  <2>4. PICK stage \in {"matching", "done"} : pc' = Change(pc, r, stage)
    BY <2>1
  <2>5. stage = "matching" => Appointed(read'[r].role)
    <3> SUFFICES ASSUME stage = "matching" PROVE Appointed(read'[r].role)
      OBVIOUS
    <3>1. pc'[r] = "matching"
      BY <1>0, <2>4
    <3>2. PICK i \in Invites :
             /\ invites[i] # None
             /\ read' = Change(read, r, [invite |-> i, role |-> invites[i].role,
                                         clubs |-> invites[i].clubs, existing |-> FALSE])
      BY <1>0, <2>1, <3>1
    <3>3. read'[r].role = invites[i].role
      BY <1>0, <3>2
    <3> QED BY <3>2, <3>3 DEF AccountInv, RolesAppointed
  <2>6. Asking(r)'
    BY <1>0, <1>7, <2>1, <2>2, <2>3, <2>4, <2>5, AskedStays DEF Asking, Accepting
  <2>7. \A s \in Requests \ {r} : read'[s] = read[s]
    BY <1>4, <2>1
  <2> QED BY <2>1, <2>2, <2>4, <2>6, <2>7, QuietAccount
<1>18. CASE MatchAccount(r)
  <2>1. read[r] \in InviteRead
    BY <1>0, <1>18 DEF MatchAccount, Stage, Accepting
  <2>2. read'[r].role = read[r].role /\ \A s \in Requests \ {r} : read'[s] = read[s]
    BY <1>0, <1>18, <2>1 DEF MatchAccount, Table, InviteRead
  <2>3. PICK stage \in {"writing", "done"} : pc' = Change(pc, r, stage)
    BY <1>18 DEF MatchAccount
  <2>4. Asking(r)'
    BY <1>0, <1>6, <1>7, <1>18, <2>2, <2>3, AskedStays DEF MatchAccount, Asking, Accepting
  <2> QED BY <1>6, <1>18, <2>2, <2>3, <2>4, QuietAccount DEF MatchAccount
<1>19. CASE update_user(r)
  <2>1. PICK actor \in Managing, u \in Updates :
          LET q == [op |-> "update", actor |-> actor, update |-> u]
          IN  Begin(r, q) /\ Judge(r, UpdateVerdict(q), "updating") /\ UNCHANGED read
    BY <1>19 DEF update_user
  <2>2. OneAsks(r) /\ pc[r] = "idle"
        /\ req'[r] = [op |-> "update", actor |-> actor, update |-> u]
    BY <1>0, <1>3, <2>1
  <2>3. r \in Asked("update")'
    BY <2>2, NoneIsNoAsk DEF Asked
  <2>4. PICK stage \in {"updating", "done"} : pc' = Change(pc, r, stage)
    BY <2>1
  <2>5. Asking(r)'
    BY <1>0, <1>7, <2>1, <2>2, <2>3, <2>4 DEF Asking, Accepting
  <2> QED BY <2>1, <2>2, <2>4, <2>5, QuietAccount
<1>20. CASE UpdateFields(r)
  <2>1. account \in User /\ account # None
    BY <1>0, <1>20, NoneIsNoUserOrInvite DEF UpdateFields, Stage, Table
  <2>2. \/ account' = account
        \/ \E active \in BOOLEAN : account' = [account EXCEPT !.active = active]
    BY <1>0, <1>20, UpdatesTyped DEF UpdateFields, Stage
  <2>3. account' \in User /\ account'.role = account.role
    BY <2>1, <2>2 DEF User
  <2>4. PICK stage \in {"clearing", "done"} : pc' = Change(pc, r, stage)
    BY <1>20 DEF UpdateFields
  <2>5. Asking(r)'
    BY <1>0, <1>6, <1>7, <1>20, <2>4, AskedStays DEF UpdateFields, Asking, Accepting
  <2> QED BY <1>6, <1>20, <2>1, <2>3, <2>4, <2>5, NoneIsNoUserOrInvite, QuietAccount
          DEF UpdateFields
<1>21. CASE ClearClubs(r) \/ AssignClub(r)
  <2>1. PICK stage \in {"assigning", "done"} : pc' = Change(pc, r, stage)
    <3>1. pc' = pc /\ pc[r] = "assigning" => pc' = Change(pc, r, "assigning")
      BY DEF Change, AccountInv, SessionInv, TypeInv, Table
    <3> QED BY <1>21, <3>1 DEF ClearClubs, AssignClub
  <2>2. /\ Asked("update") # {} /\ pc[r] \in {"clearing", "assigning"}
        /\ req' = req /\ UNCHANGED <<account, minted, sees, clubs, invites>>
    BY <1>0, <1>21 DEF ClearClubs, AssignClub, Asking
  <2>3. \A s \in Requests \ {r} : read'[s] = read[s]
    BY <1>21 DEF ClearClubs, AssignClub, Change, AccountInv, SessionInv, TypeInv, Table
  <2>4. Asking(r)'
    BY <1>0, <1>6, <1>7, <2>1, <2>2, AskedStays DEF Asking, Accepting
  <2> QED BY <1>6, <2>1, <2>2, <2>3, <2>4, QuietAccount
<1> QED BY <1>11, <1>12, <1>13, <1>14, <1>15, <1>16, <1>17, <1>18, <1>19, <1>20, <1>21
        DEF InvitationStep

\* The acceptance that may write the account does so when no other has.
LEMMA WriteKeepsAccount ==
  ASSUME AccountInv, SessionInv', NEW r \in Requests, WriteAccount(r)
  PROVE  AccountInv'
<1>0. /\ Asking(r) /\ pc[r] = "writing" /\ req' = req
      /\ UNCHANGED <<account, minted, managers, clubs, invites, read>>
      /\ \A s \in Requests : pc[s] # "accepting"
  BY DEF WriteAccount, AccountInv, AccountFree, AccountLocked, inviteVars
<1>1. /\ OneAsks(r) /\ r \notin Accepted'
  BY <1>0 DEF OneAsks, Accepted, Asked, Asking
<1>2. CASE Stop(r, "conflict") /\ UNCHANGED sees
  <2>1. pc' = Change(pc, r, "done") /\ pc'[r] = "done"
    BY <1>2 DEF Stop, AdvanceTo, Change, AccountInv, SessionInv, TypeInv, Table
  <2>2. Asking(r)'
    BY <1>0, <1>1, <2>1 DEF Asking, Accepting
  <2> QED BY <1>0, <1>1, <1>2, <2>1, <2>2, QuietAccount
<1>3. CASE Go(r, "accepting") /\ sees' = Change(sees, r, managers)
  <2>1. /\ pc'[r] = "accepting" /\ sees'[r] = managers
        /\ \A s \in Requests \ {r} : pc'[s] = pc[s]
    BY <1>3 DEF Go, AdvanceTo, Change, AccountInv, SessionInv, TypeInv, Table
  <2>2. Asking(r)'
    BY <1>0, <1>1, <2>1, AskedStays DEF Asking, Accepting
  <2>3. \A s \in Requests : Asking(s)'
    BY <1>0, <1>1, <2>1, <2>2, OthersAsk
  <2>4. RolesAppointed'
    BY <1>0, <1>1, AskedStays DEF AccountInv, RolesAppointed
  <2>5. AcceptanceAlone'
    BY <1>0, <2>1 DEF AcceptanceAlone
  <2>6. Accepted' = Accepted /\ Asked("update")' = Asked("update")
    BY <1>0 DEF Accepted, Asked
  <2>7. AccountIsOneInvites'
    BY <1>0, <2>6 DEF AccountInv, AccountIsOneInvites
  <2> QED BY <1>0, <2>3, <2>4, <2>5, <2>6, <2>7 DEF AccountInv
<1> QED BY <1>2, <1>3 DEF WriteAccount

\* The commit of an acceptance makes the account what its invite says.
LEMMA CommitKeepsAccount ==
  ASSUME AccountInv, SessionInv', NEW r \in Requests, CommitAccept(r)
  PROVE  AccountInv'
<1> DEFINE made == [password |-> r, role |-> read[r].role, active |-> TRUE]
<1>0. /\ Asking(r) /\ Stage(r) /\ pc[r] = "accepting"
      /\ account' = made
      /\ managers' = (managers \ sees[r]) \cup read[r].clubs
      /\ UNCHANGED <<req, read, clubs, sees>>
      /\ pc'[r] = "storing" /\ minted'[r] = now
      /\ \A s \in Requests \ {r} : pc'[s] = pc[s] /\ minted'[s] = minted[s]
  BY DEF CommitAccept, Go, AdvanceTo, Change, AccountInv, SessionInv, TypeInv, Table
<1>1. /\ read[r] \in InviteRead /\ read[r].clubs \subseteq clubs
      /\ r \in Asked("accept") /\ Appointed(read[r].role)
  BY <1>0 DEF Stage, Asking, Accepting
<1>2. made # None /\ made.role = read[r].role
  <2>1. read[r].role \in Roles
    BY <1>1 DEF InviteRead
  <2>2. made \in User
    BY <2>1 DEF User
  <2> QED BY <2>2, NoneIsNoUserOrInvite
<1> HIDE DEF made
<1>3. OneAsks(r)
  BY <1>0 DEF OneAsks
<1>4. now # None
  BY NoneIsNoSecond DEF Seconds, AccountInv, SessionInv, TypeInv, Table
<1>5. r \in Accepted'
  BY <1>0, <1>1, <1>4 DEF Accepted, Asked
<1>6. Asking(r)'
  BY <1>0 DEF Asking, Accepting
<1>7. \A s \in Requests : Asking(s)'
  BY <1>0, <1>3, <1>6, OthersAsk
<1>8. \A i \in Invites : invites'[i] = None
        \/ (invites[i] # None /\ invites'[i].role = invites[i].role)
  <2>1. \A i \in Invites : invites[i] # None =>
          [invites[i] EXCEPT !.accepted = r].role = invites[i].role
    BY DEF AccountInv, SessionInv, TypeInv, Table, Invite
  <2> QED BY <2>1 DEF CommitAccept, AccountInv, SessionInv, TypeInv, Table
<1>9. RolesAppointed'
  BY <1>0, <1>1, <1>2, <1>3, <1>8, AskedStays DEF AccountInv, RolesAppointed
<1>10. \A s \in Requests : pc'[s] # "accepting"
  BY <1>0 DEF AccountInv, AcceptanceAlone
<1>11. AccountIsOneInvites'
  <2> SUFFICES ASSUME Asked("update")' = {}
               PROVE  account'.role = read'[r].role /\ managers' = read'[r].clubs \cap clubs'
    BY <1>5 DEF AccountIsOneInvites
  <2>1. managers \subseteq sees[r]
    BY <1>0 DEF AccountInv, AcceptanceAlone, Asked
  <2> QED BY <1>0, <1>1, <1>2, <2>1
<1> QED BY <1>0, <1>2, <1>7, <1>9, <1>10, <1>11 DEF AccountInv, AcceptanceAlone

\* The invariant is inductive.
LEMMA AccountInductive == AccountInv /\ [Next]_vars => AccountInv'
<1> SUFFICES ASSUME AccountInv, [Next]_vars PROVE AccountInv'
  OBVIOUS
<1>1. SessionInv'
  BY SessionsInductive DEF AccountInv
<1>2. ASSUME NEW r \in Requests, SessionStep(r), UNCHANGED inviteVars PROVE AccountInv'
  BY <1>1, <1>2, SessionsKeepAccount
<1>3. ASSUME NEW r \in Requests, InvitationStep(r) PROVE AccountInv'
  BY <1>1, <1>3, InvitationsKeepAccount, WriteKeepsAccount, CommitKeepsAccount
<1>4. ASSUME UNCHANGED <<account, pc, req, minted, sees, read, invites>>,
             NEW gone \in SUBSET Clubs,
             clubs' = clubs \ gone, managers' = managers \ gone
      PROVE  AccountInv'
  <2>1. /\ Accepted' = Accepted /\ Asked("update")' = Asked("update")
        /\ Asked("create")' = Asked("create") /\ Asked("accept")' = Asked("accept")
    BY <1>4 DEF Accepted, Asked
  <2>2. \A role : Appointed(role) <=> Appointed(role)'
    BY <1>4, <2>1 DEF Appointed
  <2>3. (\A r \in Requests : Asking(r)') /\ RolesAppointed'
    BY <1>4, <2>1, <2>2 DEF AccountInv, Asking, RolesAppointed
  <2>4. AcceptanceAlone' /\ AccountIsOneInvites'
    BY <1>4, <2>1 DEF AccountInv, AcceptanceAlone, AccountIsOneInvites
  <2> QED BY <1>1, <1>4, <2>1, <2>3, <2>4 DEF AccountInv
<1>5. CASE UNCHANGED <<account, pc, req, minted, sees, read, invites, clubs, managers>>
  <2>1. {} \in SUBSET Clubs /\ clubs' = clubs \ {} /\ managers' = managers \ {}
    BY <1>5
  <2> QED BY <1>4, <1>5, <2>1
<1>6. CASE Tick /\ UNCHANGED inviteVars
  BY <1>5, <1>6 DEF Tick, inviteVars
<1>7. ASSUME NEW c \in Clubs, DeleteClub(c) PROVE AccountInv'
  <2>1. {c} \in SUBSET Clubs /\ clubs' = clubs \ {c} /\ managers' = managers \ {c}
        /\ UNCHANGED <<account, pc, req, minted, sees, read, invites>>
    BY <1>7 DEF DeleteClub, sessionVars
  <2> QED BY <1>4, <2>1
<1>8. CASE UNCHANGED vars
  BY <1>5, <1>8 DEF vars, sessionVars, inviteVars
<1> QED BY <1>2, <1>3, <1>6, <1>7, <1>8 DEF Next

LEMMA AccountInvHolds == Spec => []AccountInv
BY InitAccount, AccountInductive, PTL DEF Spec

\* Whoever is made an administrator was invited as one by a super administrator,
\* whatever links were rotated and invites accepted (can_assign_role).
THEOREM AdminsAreAppointed == Spec => []OnlySuperAdminsAppointAdmins
<1>1. AccountInv => OnlySuperAdminsAppointAdmins
  BY DEF AccountInv, RolesAppointed, Appointed, OnlySuperAdminsAppointAdmins
<1> QED BY <1>1, AccountInvHolds, PTL

\* However many acceptances there were at once, the account has the role and the
\* clubs of one of their invites, whole, less the clubs deleted since.
THEOREM AccountsAreOneInvites == Spec => []AccountIsOneInvites
<1>1. AccountInv => AccountIsOneInvites
  BY DEF AccountInv
<1> QED BY <1>1, AccountInvHolds, PTL

-------------------------------------------------------------------------------
(* An accepted invite is spent: an invite is inserted once, by the request   *)
(* it is named for, and once accepted it leaves a users row behind, which an *)
(* acceptance that found none does not get past.                             *)

Unsent == {"idle", "dropping", "deleting", "inserting"}
NewInvites == \A r \in Requests : pc[r] \in Unsent => invites[r] = None

Used(i) == invites[i] # None /\ invites[i].accepted # None

InviteInv ==
  /\ AccountInv /\ NewInvites
  /\ \A i \in Invites : Used(i) => account # None
  /\ \A r \in Requests : pc[r] = "accepting" /\ ~read[r].existing => account = None

\* Initially there is at most the first invite, which is no request's.
LEMMA InitNew == Init => InviteInv
<1> SUFFICES ASSUME Init PROVE InviteInv
  OBVIOUS
<1>1. \A r \in Requests : invites[r] = None /\ pc[r] = "idle"
  BY FirstIsNew DEF Init, Invites
<1>2. \A i \in Invites : ~Used(i)
  BY DEF Init, Used
<1> QED BY <1>1, <1>2, InitAccount DEF InviteInv, NewInvites

\* What a step leaves of the invites that are used.
Stays == \A i \in Invites : Used(i) => invites'[i] = invites[i]
Respent(r) ==
  \A i \in Invites :
    Used(i) => \/ invites'[i] = invites[i]
               \/ /\ pc[r] = "accepting" /\ read[r].invite = i /\ read[r].existing
                  /\ invites'[i] = [invites[i] EXCEPT !.accepted = r]

\* A step of r keeps the invariant if it inserts and accepts no invite, r does
\* not begin anew, and the users row changes only while nobody has it locked.
LEMMA InviteStep ==
  ASSUME InviteInv, AccountInv', NEW r \in Requests, NEW stage,
         pc' = Change(pc, r, stage), stage # "accepting",
         stage \in Unsent => pc[r] \in Unsent,
         \A s \in Requests : s # r => read'[s] = read[s],
         account' = account \/ (~AccountLocked /\ account' # None),
         \A i \in Invites : \/ invites'[i] = invites[i]
                            \/ Pending(i) /\ ~Used(i)'
  PROVE  InviteInv' /\ Stays
<1>1. /\ pc'[r] = stage
      /\ \A s \in Requests \ {r} : pc'[s] = pc[s] /\ read'[s] = read[s]
  BY DEF InviteInv, AccountInv, SessionInv, TypeInv, Table, Change
<1>2. Stays /\ \A i \in Invites : Used(i)' => Used(i)
  BY DEF Pending, Used, Stays
<1>3. \A s \in Requests : pc'[s] = "accepting" => pc[s] = "accepting" /\ account' = account
  BY <1>1 DEF AccountLocked
<1>4. NewInvites'
  <2> SUFFICES ASSUME NEW s \in Requests, pc'[s] \in Unsent PROVE invites'[s] = None
    BY DEF NewInvites
  <2>1. invites[s] = None
    BY <1>1 DEF InviteInv, NewInvites
  <2> QED BY <2>1 DEF Pending, Invites
<1>5. account # None => account' # None
  OBVIOUS
<1>6. \A i \in Invites : Used(i)' => account' # None
  BY <1>2, <1>5 DEF InviteInv
<1>7. \A s \in Requests : pc'[s] = "accepting" /\ ~read'[s].existing => account' = None
  BY <1>1, <1>3 DEF InviteInv
<1> QED BY <1>2, <1>4, <1>6, <1>7 DEF InviteInv

\* Sessions and reset links do not touch the invites, and wait for the lock.
LEMMA SessionsKeepInvites ==
  ASSUME InviteInv, AccountInv', NEW r \in Requests, SessionStep(r), UNCHANGED inviteVars
  PROVE  InviteInv' /\ Stays
<1> USE DEF Go, Stop, AdvanceTo
<1>1. PICK stage : pc' = Change(pc, r, stage) /\ stage \notin Unsent \cup {"accepting"}
  <2>1. CASE login(r)
    BY <2>1 DEF login, SignIn, Unsent
  <2>2. CASE refresh(r)
    BY <2>2 DEF refresh, SignIn, Unsent
  <2>3. CASE store_refresh_token(r) \/ CommitRotation(r)
    BY <2>3 DEF store_refresh_token, CommitRotation, Unsent
  <2>4. CASE LockSession(r) \/ InsertRotated(r) \/ forgot_password(r)
    BY <2>4 DEF LockSession, InsertRotated, forgot_password, Unsent
  <2>5. CASE logout(r)
    BY <2>5 DEF logout, Unsent
  <2>6. CASE SeeLinks(r) \/ InvalidateLinks(r) \/ CommitLink(r)
    BY <2>6 DEF SeeLinks, InvalidateLinks, CommitLink, Unsent
  <2>7. CASE consume_token(r)
    <3>1. Go(r, "setting") \/ Stop(r, "bad_request")
      BY <2>7 DEF consume_token
    <3> QED BY <3>1 DEF Unsent
  <2>8. CASE SetPassword(r) \/ SeeSessions(r) \/ revoke_all_for_user(r) \/ Lose(r)
    BY <2>8 DEF SetPassword, SeeSessions, revoke_all_for_user, Lose, Unsent
  <2> QED BY <2>1, <2>2, <2>3, <2>4, <2>5, <2>6, <2>7, <2>8 DEF SessionStep
<1>2. account' = account \/ (~AccountLocked /\ account' # None)
  <2>1. CASE SetPassword(r)
    <3>1. account \in User
      BY <2>1 DEF SetPassword, InviteInv, AccountInv, SessionInv, TypeInv, Stage, Table
    <3>2. account' \in User
      BY <2>1, <3>1 DEF SetPassword, User
    <3> QED BY <2>1, <3>2, NoneIsNoUserOrInvite DEF SetPassword
  <2>2. CASE login(r) \/ refresh(r) \/ store_refresh_token(r) \/ CommitRotation(r)
    BY <2>2 DEF login, refresh, SignIn, store_refresh_token, CommitRotation
  <2>3. CASE LockSession(r) \/ InsertRotated(r) \/ forgot_password(r) \/ logout(r)
    BY <2>3 DEF LockSession, InsertRotated, forgot_password, logout
  <2>4. CASE SeeLinks(r) \/ InvalidateLinks(r) \/ CommitLink(r) \/ consume_token(r)
    BY <2>4 DEF SeeLinks, InvalidateLinks, CommitLink, consume_token
  <2>5. CASE SeeSessions(r) \/ revoke_all_for_user(r) \/ Lose(r)
    BY <2>5 DEF SeeSessions, revoke_all_for_user, Lose
  <2> QED BY <2>1, <2>2, <2>3, <2>4, <2>5 DEF SessionStep
<1>3. invites' = invites /\ read' = read
  BY DEF inviteVars
<1> QED BY <1>1, <1>2, <1>3, InviteStep

\* Who rewrites or removes an invite finds it pending then.
LEMMA InvitationsKeepInvites ==
  ASSUME InviteInv, AccountInv', NEW r \in Requests, InvitationStep(r),
         ~WriteAccount(r), ~CommitAccept(r)
  PROVE  InviteInv' /\ Stays
<1> USE DEF Go, Stop, AdvanceTo, Begin, Judge, inviteVars
<1>0. read = [s \in Requests |-> read[s]]
  BY DEF InviteInv, AccountInv, SessionInv, TypeInv, Table
<1>1. CASE create_invite(r) \/ SeePending(r)
  BY <1>1, InviteStep DEF create_invite, SeePending, Unsent
<1>2. CASE DropPending(r)
  <2>1. \A i \in Invites : invites'[i] = invites[i] \/ (Pending(i) /\ ~Used(i)')
    BY <1>2 DEF DropPending, Used
  <2> QED BY <1>2, <2>1, InviteStep DEF DropPending, Unsent
<1>3. CASE InsertInvite(r)
  <2>1. /\ pc'[r] = "done" /\ invites[r] = None
        /\ \A s \in Requests \ {r} : pc'[s] = pc[s]
        /\ \A i \in Invites \ {r} : invites'[i] = invites[i]
        /\ UNCHANGED <<account, read>>
    BY <1>3 DEF InsertInvite, InviteInv, NewInvites, AccountInv, SessionInv, TypeInv,
                Table, Change, Unsent
  <2>2. invites'[r].accepted = None
    BY <1>3 DEF InsertInvite, Change, InviteInv, AccountInv, SessionInv, TypeInv, Table,
                Invites
  <2>3. Stays /\ \A i \in Invites : Used(i)' => Used(i)
    BY <2>1, <2>2 DEF Stays, Used
  <2>4. NewInvites'
    BY <2>1 DEF InviteInv, NewInvites, Unsent, Invites
  <2> QED BY <2>1, <2>3, <2>4 DEF InviteInv
<1>4. CASE ReadInvite(r)
  BY <1>4, InviteStep DEF ReadInvite, Unsent
<1>5. ASSUME NEW i, NEW row, WriteInvite(r, i, row), row = None \/ row.accepted = None
      PROVE InviteInv' /\ Stays
  <2>1. \A j \in Invites : invites'[j] = invites[j] \/ (Pending(j) /\ ~Used(j)')
    BY <1>5 DEF WriteInvite, Change, InviteInv, AccountInv, SessionInv, TypeInv, Table, Used
  <2> QED BY <1>5, <2>1, InviteStep DEF WriteInvite, Unsent
<1>6. CASE rotate_invite_token(r)
  <2> DEFINE i == req[r].invite
             row == IF invites[i] = None THEN None
                    ELSE [invites[i] EXCEPT !.token = r, !.at = now, !.accepted = None]
  <2>1. invites[i] \in Invite \cup {None}
    BY <1>6 DEF rotate_invite_token, InviteInv, AccountInv, SessionInv, TypeInv, Stage, Table
  <2>2. row = None \/ row.accepted = None
    BY <2>1 DEF Invite
  <2>3. WriteInvite(r, i, row)
    BY <1>6 DEF rotate_invite_token
  <2> HIDE DEF row, i
  <2> QED BY <1>5, <2>2, <2>3
<1>7. CASE delete_invite(r)
  BY <1>5, <1>7 DEF delete_invite
<1>8. CASE FindInvite(r)
  <2>1. \A s \in Requests : s # r => read'[s] = read[s]
    BY <1>0, <1>8 DEF FindInvite, Change
  <2> QED BY <1>8, <2>1, InviteStep DEF FindInvite, Unsent
<1>9. CASE MatchAccount(r)
  BY <1>0, <1>9, InviteStep DEF MatchAccount, Unsent
<1>10. CASE update_user(r)
  BY <1>10, InviteStep DEF update_user, Unsent
<1>11. CASE UpdateFields(r)
  <2>1. account \in User /\ req[r].update \in Updates
    BY <1>11 DEF UpdateFields, InviteInv, AccountInv, SessionInv, TypeInv, Stage, Table
  <2>2. [account EXCEPT !.active = req[r].update.active] # None
          \/ req[r].update.active = None
    BY <2>1, UpdatesTyped, NoneIsNoUserOrInvite DEF User
  <2>3. account' = account \/ (~AccountLocked /\ account' # None)
    BY <1>11, <2>2 DEF UpdateFields
  <2> QED BY <1>11, <2>3, InviteStep DEF UpdateFields, Unsent
<1>12. CASE ClearClubs(r)
  <2>1. \A s \in Requests : s # r => read'[s] = read[s]
    BY <1>0, <1>12 DEF ClearClubs, Change
  <2> QED BY <1>12, <2>1, InviteStep DEF ClearClubs, Unsent
<1>13. CASE AssignClub(r)
  <2>1. pc[r] = "assigning" /\ (pc' = pc \/ pc' = Change(pc, r, "done"))
    BY <1>13 DEF AssignClub
  <2>2. pc = Change(pc, r, "assigning")
    BY <2>1 DEF Change, InviteInv, AccountInv, SessionInv, TypeInv, Table
  <2>3. PICK stage : pc' = Change(pc, r, stage) /\ stage \in {"assigning", "done"}
    BY <2>1, <2>2
  <2>4. \A s \in Requests : s # r => read'[s] = read[s]
    BY <1>0, <1>13 DEF AssignClub
  <2> QED BY <1>13, <2>3, <2>4, InviteStep DEF AssignClub, Unsent
<1> QED BY <1>1, <1>2, <1>3, <1>4, <1>6, <1>7, <1>8, <1>9, <1>10, <1>11, <1>12, <1>13
        DEF InvitationStep

\* Who found no users row writes one only if there is none.
LEMMA WriteKeepsInvites ==
  ASSUME InviteInv, AccountInv', NEW r \in Requests, WriteAccount(r)
  PROVE  InviteInv' /\ Stays
<1>1. UNCHANGED <<account, invites, read>>
  BY DEF WriteAccount, inviteVars
<1>2. CASE Stop(r, "conflict")
  BY <1>1, <1>2, InviteStep DEF Stop, AdvanceTo, Unsent
<1>3. CASE Go(r, "accepting") /\ (read[r].existing \/ account = None)
  <2>1. /\ pc'[r] = "accepting"
        /\ \A s \in Requests \ {r} : pc'[s] = pc[s]
    BY <1>3 DEF Go, AdvanceTo, Change, InviteInv, AccountInv, SessionInv, TypeInv, Table
  <2>2. NewInvites' /\ Stays /\ \A i \in Invites : Used(i)' => Used(i)
    BY <1>1, <2>1 DEF InviteInv, NewInvites, Unsent, Stays, Used
  <2> QED BY <1>1, <1>3, <2>1, <2>2 DEF InviteInv
<1> QED BY <1>2, <1>3 DEF WriteAccount

\* An acceptance that commits over another one had found a users row.
LEMMA CommitKeepsInvites ==
  ASSUME InviteInv, AccountInv', NEW r \in Requests, CommitAccept(r)
  PROVE  InviteInv' /\ Respent(r)
<1> DEFINE i == read[r].invite
           row == [invites[i] EXCEPT !.accepted = r]
<1>1. pc[r] = "accepting" /\ read[r] \in InviteRead
  BY DEF CommitAccept, InviteInv, AccountInv, SessionInv, TypeInv, Stage, Accepting
<1>2. /\ pc'[r] = "storing" /\ UNCHANGED read
      /\ \A s \in Requests \ {r} : pc'[s] = pc[s] /\ pc[s] # "accepting"
  BY DEF CommitAccept, Go, AdvanceTo, Change, InviteInv, AccountInv, AcceptanceAlone,
         SessionInv, TypeInv, Table
<1>3. i \in Invites /\ \A j \in Invites :
        invites'[j] = IF j = i /\ invites[i] # None THEN row ELSE invites[j]
  BY <1>1 DEF CommitAccept, InviteInv, AccountInv, SessionInv, TypeInv, Table, InviteRead
<1> HIDE DEF row
<1>4. account' # None
  <2> DEFINE made == [password |-> r, role |-> read[r].role, active |-> TRUE]
  <2>1. read[r].role \in Roles
    BY <1>1 DEF InviteRead
  <2>2. made \in User /\ account' = made
    BY <2>1 DEF CommitAccept, User
  <2> HIDE DEF made
  <2> QED BY <2>2, NoneIsNoUserOrInvite
<1>5. NewInvites'
  <2> SUFFICES ASSUME NEW s \in Requests, pc'[s] \in Unsent PROVE invites'[s] = None
    BY DEF NewInvites
  <2>1. invites[s] = None
    BY <1>2 DEF InviteInv, NewInvites, Unsent
  <2> QED BY <1>3, <2>1 DEF Invites
<1>6. InviteInv'
  BY <1>2, <1>4, <1>5 DEF InviteInv
<1>7. Used(i) => read[r].existing
  BY <1>1, <1>3 DEF InviteInv
<1>8. Respent(r)
  <2> SUFFICES ASSUME NEW j \in Invites, Used(j)
               PROVE  \/ invites'[j] = invites[j]
                      \/ /\ read[r].invite = j /\ read[r].existing
                         /\ invites'[j] = [invites[j] EXCEPT !.accepted = r]
    BY <1>1 DEF Respent
  <2>1. CASE j = i
    BY <1>3, <1>7, <2>1 DEF row
  <2>2. CASE j # i
    BY <1>3, <2>2
  <2> QED BY <2>1, <2>2
<1> QED BY <1>6, <1>8

-------------------------------------------------------------------------------
\* The invariant is inductive, and only such an acceptance rewrites a used invite.
LEMMA InvitesInductive ==
  InviteInv /\ [Next]_vars => InviteInv' /\ (Stays \/ \E r \in Requests : Respent(r))
<1> SUFFICES ASSUME InviteInv, [Next]_vars
             PROVE  InviteInv' /\ (Stays \/ \E r \in Requests : Respent(r))
  OBVIOUS
<1>1. AccountInv'
  BY AccountInductive DEF InviteInv
<1>2. ASSUME NEW r \in Requests, SessionStep(r), UNCHANGED inviteVars
      PROVE  InviteInv' /\ Stays
  BY <1>1, <1>2, SessionsKeepInvites
<1>3. ASSUME NEW r \in Requests, InvitationStep(r)
      PROVE  InviteInv' /\ (Stays \/ Respent(r))
  BY <1>1, <1>3, InvitationsKeepInvites, WriteKeepsInvites, CommitKeepsInvites
<1>4. ASSUME UNCHANGED <<pc, invites, account, read>> PROVE InviteInv' /\ Stays
  BY <1>1, <1>4 DEF InviteInv, NewInvites, Stays, Used
<1>5. CASE Tick /\ UNCHANGED inviteVars
  BY <1>4, <1>5 DEF Tick, inviteVars
<1>6. ASSUME NEW c \in Clubs, DeleteClub(c) PROVE InviteInv' /\ Stays
  BY <1>4, <1>6 DEF DeleteClub, sessionVars
<1>7. CASE UNCHANGED vars
  BY <1>4, <1>7 DEF vars, sessionVars, inviteVars
<1> QED BY <1>2, <1>3, <1>5, <1>6, <1>7 DEF Next

\* An accepted invite is spent, whatever the requests that rotate, revoke, replace
\* or accept it read before: it is not removed or offered again, and accepted_at
\* is rewritten only by an acceptance that found a users row without a password
\* ("AND accepted_at IS NULL", which accept_invite's own UPDATE does not say).
THEOREM AcceptedInvitesSpent == Spec => AcceptedIsSpent
<1>1. InviteInv /\ [Next]_vars =>
        [\A i \in Invites :
           (invites[i] # None /\ invites[i].accepted # None) =>
             \/ invites'[i] = invites[i]
             \/ \E r \in Requests :
                  /\ pc[r] = "accepting" /\ read[r].invite = i /\ read[r].existing
                  /\ invites'[i] = [invites[i] EXCEPT !.accepted = r]]_vars
  BY InvitesInductive DEF Stays, Respent, Used
<1> QED BY <1>1, InitNew, InvitesInductive, PTL DEF Spec, AcceptedIsSpent
===============================================================================
