------------------------------- MODULE Sessions -------------------------------
(* The sessions and reset links of one account: log-in, refresh, log-out,    *)
(* forgotten and reset passwords (routers/auth.py, queries/refresh_tokens.py,*)
(* queries/auth_tokens.py), statement by statement.  A refresh token is a    *)
(* JWT of the user and the second it expires, so the second it was issued in *)
(* stands for it.  The account is made by Invitations.                       *)
EXTENDS Integers

CONSTANTS
  Requests, None,
  LastSecond,     \* bound on time
  Lifetime,       \* refresh_token_expire_days, in seconds
  LinkLifetime    \* password_reset_ttl_minutes, in seconds

ASSUME LifetimesTyped == {LastSecond, Lifetime, LinkLifetime} \subseteq Nat \ {0}
ASSUME NoneIsNoSecond == None \notin Requests \cup Nat
ASSUME NoneIsNoAnswer == None # "ok"

Seconds == 0..LastSecond

VARIABLES
  now,
  account,      \* the users row, None before an invite was accepted
  sessions,     \* refresh_tokens: per second, the row of the token issued in it
  links,        \* auth_tokens: per forgot-password request, the row it made
  pc, req, answer,
  minted,       \* the second a request's new token was made in
  sees          \* the rows an UPDATE or DELETE found when it started

sessionVars == <<now, account, sessions, links, pc, req, answer, minted, sees>>

\* Nobody needs a row's text: a password is the request that set it.
Session == [by : Requests, revoked : Requests \cup {None}]
Link == [at : Seconds, used : Requests \cup {None}]
ASSUME NoneIsNoRow == None \notin Session \cup Link

Change(f, r, value) == [f EXCEPT ![r] = value]
Begin(r, q) == pc[r] = "idle" /\ req' = Change(req, r, q)
AdvanceTo(r, stage) == pc' = Change(pc, r, stage)
Go(r, stage) == AdvanceTo(r, stage) /\ UNCHANGED answer
Stop(r, outcome) == AdvanceTo(r, "done") /\ answer' = Change(answer, r, outcome)

SignIns == {"login", "refresh", "accept"}
Answered(r) == answer[r] = "ok" /\ req[r].op \in SignIns
\* What clients hold: the tokens they were answered, and one issued in second 0,
\* before refresh_tokens existed.
Held == {0} \cup {minted[r] : r \in {s \in Requests : Answered(s)}}

-------------------------------------------------------------------------------
(* New tokens *)

HasPassword == account # None /\ account.password # None
Active == account # None /\ account.active

\* The rotation that has locked the row of t, or inserted t, without committing.
RowLocked(t) == \E r \in Requests : pc[r] \in {"locked", "rotated"} /\ req[r].token = t
Uncommitted(t) == \E r \in Requests : pc[r] = "rotated" /\ minted[r] = t

\* Mutant of TokenTaken: no UNIQUE (token_hash).
TokenNeverTaken(t) == FALSE
TokenTaken(t) == sessions[t] # None

\* The user is read and, if all is well, a token made, with no await between.
SignIn(r, allowed, stage) ==
  /\ \/ allowed /\ minted' = Change(minted, r, now) /\ Go(r, stage)
     \/ ~allowed /\ Stop(r, "unauthorized") /\ UNCHANGED minted
  /\ UNCHANGED <<now, account, sessions, links, sees>>

login(r) ==
  /\ Begin(r, [op |-> "login"])
  /\ \E right \in BOOLEAN : SignIn(r, HasPassword /\ right /\ Active, "storing")

\* An equal token that is not committed yet makes the INSERT wait.
store_refresh_token(r) ==
  LET t == minted[r]
  IN  /\ pc[r] = "storing"
      /\ ~Uncommitted(t)
      /\ \/ TokenTaken(t) /\ Stop(r, "conflict") /\ UNCHANGED sessions
         \/ /\ ~TokenTaken(t)
            /\ sessions' = Change(sessions, t, [by |-> r, revoked |-> None])
            /\ Stop(r, "ok")
      /\ UNCHANGED <<now, account, links, req, minted, sees>>

refresh(r) ==
  \E t \in Held :
    /\ Begin(r, [op |-> "refresh", token |-> t])
    /\ SignIn(r, now <= t + Lifetime /\ Active, "rotating")

Rotatable(t) == sessions[t] # None /\ sessions[t].revoked = None /\ now <= t + Lifetime

\* SELECT ... FOR UPDATE; a token that cannot be rotated is stored beside the old.
LockSession(r) ==
  /\ pc[r] = "rotating"
  /\ ~RowLocked(req[r].token)
  /\ Go(r, IF Rotatable(req[r].token) THEN "locked" ELSE "storing")
  /\ UNCHANGED <<now, account, sessions, links, req, minted, sees>>

Revoked(rows, by) ==
  [t \in Seconds |-> IF t \in rows /\ sessions[t].revoked = None
                     THEN [sessions[t] EXCEPT !.revoked = by] ELSE sessions[t]]

\* Mutant of RevokeOld: the revocation commits at once.
RevokeOldAlone(r) == sessions' = Revoked({req[r].token}, r)
\* Both writes wait for the commit: until then the table is as it was.
RevokeOld(r) == UNCHANGED sessions

InsertRotated(r) ==
  /\ pc[r] = "locked"
  /\ ~Uncommitted(minted[r])
  /\ RevokeOld(r)
  /\ \/ TokenTaken(minted[r]) /\ Stop(r, "conflict")
     \/ ~TokenTaken(minted[r]) /\ Go(r, "rotated")
  /\ UNCHANGED <<now, account, links, req, minted, sees>>

CommitRotation(r) ==
  /\ pc[r] = "rotated"
  /\ sessions' = Change(Revoked({req[r].token}, r), minted[r],
                        [by |-> r, revoked |-> None])
  /\ Stop(r, "ok")
  /\ UNCHANGED <<now, account, links, req, minted, sees>>

\* An UPDATE that finds no row, or one already revoked, is answered all the same.
logout(r) ==
  \E t \in Held :
    /\ Begin(r, [op |-> "logout", token |-> t])
    /\ ~RowLocked(t)
    /\ sessions' = Revoked(IF sessions[t] = None THEN {} ELSE {t}, r)
    /\ Stop(r, "ok")
    /\ UNCHANGED <<now, account, links, minted, sees>>

-------------------------------------------------------------------------------
(* Reset links *)

LinkLocked(l) == \E r \in Requests : pc[r] = "linked" /\ l \in sees[r]
Unused(l) == links[l] # None /\ links[l].used = None

\* The answer is the same whether or not a link is on its way.
forgot_password(r) ==
  /\ Begin(r, [op |-> "forgot"])
  /\ answer' = Change(answer, r, "ok")
  /\ AdvanceTo(r, IF Active /\ HasPassword THEN "task" ELSE "done")
  /\ UNCHANGED <<now, account, sessions, links, minted, sees>>

\* create_token: its UPDATE sees the links unused when it starts, waits for those
\* another transaction is invalidating, and invalidates what is still unused.
SeeLinks(r) ==
  /\ pc[r] = "task"
  /\ sees' = Change(sees, r, {l \in Requests : Unused(l)})
  /\ minted' = Change(minted, r, now)
  /\ Go(r, "linking")
  /\ UNCHANGED <<now, account, sessions, links, req>>

InvalidateLinks(r) ==
  /\ pc[r] = "linking"
  /\ \A l \in sees[r] : ~LinkLocked(l)
  /\ sees' = Change(sees, r, {l \in sees[r] : Unused(l)})
  /\ Go(r, "linked")
  /\ UNCHANGED <<now, account, sessions, links, req, minted>>

CommitLink(r) ==
  /\ pc[r] = "linked"
  /\ links' = [l \in Requests |->
                 IF l = r THEN [at |-> minted[r], used |-> None]
                 ELSE IF l \in sees[r] THEN [links[l] EXCEPT !.used = r] ELSE links[l]]
  /\ Go(r, "done")
  /\ UNCHANGED <<now, account, sessions, req, minted, sees>>

\* Mutant of Usable: a link is good until it expires.
UsableUntilExpiry(l) == now < links[l].at + LinkLifetime
Usable(l) == Unused(l) /\ now < links[l].at + LinkLifetime

consume_token(r) ==
  \E l \in {k \in Requests : links[k] # None} :
    /\ Begin(r, [op |-> "reset", link |-> l])
    /\ ~LinkLocked(l)
    /\ \/ Usable(l) /\ links' = [links EXCEPT ![l].used = r] /\ Go(r, "setting")
       \/ ~Usable(l) /\ Stop(r, "bad_request") /\ UNCHANGED links
    /\ UNCHANGED <<now, account, sessions, minted, sees>>

\* accept_invite (Invitations) writes the users row in a transaction.
AccountLocked == \E r \in Requests : pc[r] = "accepting"

SetPassword(r) ==
  /\ pc[r] = "setting"
  /\ ~AccountLocked
  /\ account' = [account EXCEPT !.password = r]
  /\ Go(r, "ending")
  /\ UNCHANGED <<now, sessions, links, req, minted, sees>>

\* revoke_all_for_user: the rows its UPDATE starts with, once none is locked.
SeeSessions(r) ==
  /\ pc[r] = "ending"
  /\ sees' = Change(sees, r, {t \in Seconds : sessions[t] # None})
  /\ Go(r, "revoking")
  /\ UNCHANGED <<now, account, sessions, links, req, minted>>

revoke_all_for_user(r) ==
  /\ pc[r] = "revoking"
  /\ \A t \in sees[r] : ~RowLocked(t)
  /\ sessions' = Revoked(sees[r], r)
  /\ Stop(r, "ok")
  /\ UNCHANGED <<now, account, links, req, minted, sees>>

-------------------------------------------------------------------------------
\* A broken connection, a command timeout, a restart: an open transaction is
\* rolled back, a background task is gone.  A request lost before it wrote has
\* not been made, an answer that is lost is one its client makes no use of.
Writing == {"storing", "locked", "rotated", "linking", "linked", "setting", "ending",
            "revoking", "deleting", "inserting", "accepting", "clearing", "assigning"}
Lose(r) ==
  /\ pc[r] \in Writing
  /\ AdvanceTo(r, "done")
  /\ answer' = Change(answer, r, IF answer[r] = None THEN "lost" ELSE answer[r])
  /\ UNCHANGED <<now, account, sessions, links, req, minted, sees>>

Tick ==
  /\ now < LastSecond
  /\ now' = now + 1
  /\ UNCHANGED <<account, sessions, links, pc, req, answer, minted, sees>>

SessionStep(r) ==
  \/ login(r) \/ store_refresh_token(r)
  \/ refresh(r) \/ LockSession(r) \/ InsertRotated(r) \/ CommitRotation(r)
  \/ logout(r) \/ forgot_password(r) \/ SeeLinks(r) \/ InvalidateLinks(r)
  \/ CommitLink(r) \/ consume_token(r) \/ SetPassword(r) \/ SeeSessions(r)
  \/ revoke_all_for_user(r) \/ Lose(r)

-------------------------------------------------------------------------------
\* Every client that was answered a refresh token has a session of its own, also
\* when two signed in within one second or refreshed one token in two tabs: the
\* stored row is the one its request made, and it was revoked, if at all, by a
\* request that named its token or by a reset (routers/auth.py).
SessionIsOwn ==
  \A r \in Requests :
    Answered(r) =>
      LET row == sessions[minted[r]]
      IN  /\ row # None /\ row.by = r
          /\ row.revoked # None =>
               \/ req[row.revoked].op = "reset"
               \/ /\ req[row.revoked].op \in {"refresh", "logout"}
                  /\ req[row.revoked].token = minted[r]

\* A refresh that revoked the old token has stored the new one: neither an equal
\* token nor a broken connection costs the session (rotate_refresh_token).
RotationIsWhole ==
  \A t \in Seconds :
    LET r == sessions[t].revoked
    IN  (sessions[t] # None /\ r # None /\ req[r].op = "refresh") =>
          sessions[minted[r]] # None /\ sessions[minted[r]].by = r

\* A reset link sets one password: the request it was consumed by is the only one
\* that goes on to set it, whoever else holds the link (consume_token).
LinkResetsOnce ==
  \A r \in Requests :
    (pc[r] \in {"setting", "ending", "revoking"} \/ (HasPassword /\ account.password = r))
      /\ req[r].op = "reset"
    => links[req[r].link].used = r
===============================================================================
