-------------------------------- MODULE Mailer --------------------------------
(* Mails through the Zoho API (services/zoho_mail_service.py, core/email.py) *)
(* from handlers that wait for the answer (invites, new links by mail) and   *)
(* from background tasks: one access token cached in the process, refreshed  *)
(* by whoever finds it old, while other sends are between their awaits.      *)
(* httpx's timeouts (20, 20 and 30 s) bound each phase of a call and not the *)
(* call: a call may last any time, and break off at any time.                *)
EXTENDS Integers

CONSTANTS
  Mails,
  Awaited,         \* those sent by a handler that answers afterwards
  Lifetime,        \* expires_in
  Skew,            \* _TOKEN_SKEW_SECONDS
  LastSecond       \* bound: the clock stops

ASSUME AwaitedAssumption == Awaited \subseteq Mails
ASSUME MailTimes == {Lifetime, Skew, LastSecond} \subseteq Nat /\ Skew < Lifetime

VARIABLES
  second,              \* time.time()
  access_token,        \* _access_token, NoToken before the first
  access_token_expiry, \* _access_token_expiry
  account_known,       \* whether _account_id is set
  mail,                \* the stage of each send
  token,               \* the access token each send holds
  taken,               \* when each send came by it
  outcome              \* what the handler answers about its mail

mailVars == <<second, access_token, access_token_expiry, account_known,
              mail, token, taken, outcome>>

\* A token is known by when Zoho lets it lapse; its answer was late by so much
\* when it was stored.
Token == [lapses : Nat, late : Nat]
NoToken == [lapses |-> 0, late |-> 0]

InCall == {"refreshing", "resolving", "posting"}
MailStages == InCall \cup {"unsent", "issued", "authorised", "ended"}
Outcomes == {"none", "sent", "dropped", "raised"}

MailTypeOK ==
  /\ second \in Nat /\ access_token \in Token /\ access_token_expiry \in Nat
  /\ account_known \in BOOLEAN
  /\ mail \in [Mails -> MailStages]
  /\ token \in [Mails -> Token] /\ taken \in [Mails -> Nat]
  /\ outcome \in [Mails -> Outcomes]

\* ZOHO_ACCOUNT_ID may be set or not.
MailInit ==
  /\ second = 0 /\ access_token = NoToken /\ access_token_expiry = 0
  /\ account_known \in BOOLEAN
  /\ mail = [m \in Mails |-> "unsent"]
  /\ token = [m \in Mails |-> NoToken]
  /\ taken = [m \in Mails |-> 0]
  /\ outcome = [m \in Mails |-> "none"]

MailGoes(m, stage) == mail' = [mail EXCEPT ![m] = stage]
Take(m, t) == /\ token' = [token EXCEPT ![m] = t]
              /\ taken' = [taken EXCEPT ![m] = second]
Ends(m, o) == MailGoes(m, "ended") /\ outcome' = [outcome EXCEPT ![m] = o]
cached == <<access_token, access_token_expiry>>

\* E-mail is disabled, or nothing is configured: nothing is sent.
Skip(m) ==
  /\ mail[m] = "unsent"
  /\ Ends(m, "dropped")
  /\ UNCHANGED <<second, cached, account_known, token, taken>>

Fresh == access_token # NoToken /\ second < access_token_expiry

\* _get_access_token, under the lock: the cached token, or a refresh.
TakeToken(m) ==
  /\ mail[m] = "unsent"
  /\ \/ Fresh /\ Take(m, access_token) /\ MailGoes(m, "authorised")
     \/ ~Fresh /\ MailGoes(m, "refreshing") /\ UNCHANGED <<token, taken>>
  /\ UNCHANGED <<second, cached, account_known, outcome>>

\* Zoho issues a token; its answer is on the way.
Issue(m) ==
  /\ mail[m] = "refreshing"
  /\ Take(m, [lapses |-> second + Lifetime, late |-> 0])
  /\ MailGoes(m, "issued")
  /\ UNCHANGED <<second, cached, account_known, outcome>>

\* Mutant of Expiry: the token is used until the end of its life.
ExpiryUnskewed == second + Lifetime
Expiry == second + (Lifetime - Skew)

\* The answer is stored under the lock, whatever another refresh stored.
StoreToken(m) ==
  /\ mail[m] = "issued"
  /\ access_token' = [token[m] EXCEPT !.late = second - taken[m]]
  /\ access_token_expiry' = Expiry
  /\ Take(m, access_token')
  /\ MailGoes(m, "authorised")
  /\ UNCHANGED <<second, account_known, outcome>>

\* _get_account_id: only while the account is not known.
TakeAccount(m) ==
  /\ mail[m] = "authorised"
  /\ MailGoes(m, IF account_known THEN "posting" ELSE "resolving")
  /\ UNCHANGED <<second, cached, account_known, token, taken, outcome>>

StoreAccount(m) ==
  /\ mail[m] = "resolving"
  /\ account_known' = TRUE
  /\ MailGoes(m, "posting")
  /\ UNCHANGED <<second, cached, token, taken, outcome>>

Accepted(m) ==
  /\ mail[m] = "posting" /\ second < token[m].lapses
  /\ Ends(m, "sent")
  /\ UNCHANGED <<second, cached, account_known, token, taken>>

\* An error status (of a lapsed token too), or an answer that cannot be read,
\* is a ZohoMailError, which _send turns into False.
Refused(m) ==
  /\ mail[m] \in InCall \cup {"issued"}
  /\ Ends(m, "dropped")
  /\ UNCHANGED <<second, cached, account_known, token, taken>>

\* A timeout or a broken connection is httpx's exception, not a
\* ZohoMailError: _send lets it through, and the handler fails.
ConnectionFails(m) ==
  /\ mail[m] \in InCall \cup {"issued"}
  /\ Ends(m, "raised")
  /\ UNCHANGED <<second, cached, account_known, token, taken>>

\* Any call may be under way; between two calls there is no await.
SecondPasses ==
  /\ second < LastSecond /\ \A m \in Mails : mail[m] # "authorised"
  /\ second' = second + 1
  /\ UNCHANGED <<cached, account_known, mail, token, taken, outcome>>

send(m) ==
  \/ Skip(m) \/ TakeToken(m) \/ Issue(m) \/ StoreToken(m) \/ TakeAccount(m)
  \/ StoreAccount(m) \/ Accepted(m) \/ Refused(m) \/ ConnectionFails(m)

MailNext == SecondPasses \/ \E m \in Mails : send(m)

MailSpec == MailInit /\ [][MailNext]_mailVars

-------------------------------------------------------------------------------
\* "Refresh a little before the real expiry to avoid edge-of-expiry failures":
\* how far the skew goes.  A call carries a lapsed token only if more than the
\* skew has gone by on the wire: while the answer with the token was on its way
\* to the cache, and since the send took it.  That is so of a token another
\* send stored, and when an older answer is stored over a newer one.
SkewCoversDelays ==
  \A m \in Mails :
    mail[m] \in {"resolving", "posting"} /\ token[m].lapses <= second =>
      token[m].late + (second - taken[m]) > Skew

\* "Invite is still valid when send fails - UI can copy the link."
\* (routers/users.py): whatever its mail meets, the handler that created the
\* invite, or renewed its link, answers with it.
LinkAnsweredWhenSendFails == \A m \in Awaited : outcome[m] # "raised"
===============================================================================
