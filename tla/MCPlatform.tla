------------------------------ MODULE MCPlatform ------------------------------
(* Instances of what carries the server: the migrator, the rate limiter, the *)
(* mails and one room of the live feed.  They share no state; in a behaviour *)
(* one component, the focus, moves and the others rest in an initial state,  *)
(* in which nothing is due of them.                                          *)
EXTENDS Migrator, RateLimiter, Mailer, LiveRoom, TLC

CONSTANT Focuses      \* the components to explore

CONSTANTS i1, i2, k1, k2

VARIABLE focus

OldAndNew == (i1 :> 1) @@ (i2 :> 2)
TwoAndOne == (k1 :> 2) @@ (k2 :> 1)

Rests(component, still) == focus # component => still

PlatformInit ==
  /\ focus \in Focuses
  /\ MigratorInit
  /\ Rests("migrator", recorded = {} /\ schema = {})
  /\ LimiterInit
  /\ MailInit
  /\ Rests("mails", account_known)
  /\ RoomInit

PlatformNext ==
  /\ \/ /\ focus = "migrator" /\ MigratorNext
        /\ UNCHANGED <<limiterVars, mailVars, roomVars>>
     \/ /\ focus = "limiter" /\ LimiterNext
        /\ UNCHANGED <<migratorVars, mailVars, roomVars>>
     \/ /\ focus = "mails" /\ MailNext
        /\ UNCHANGED <<migratorVars, limiterVars, roomVars>>
     \/ /\ focus = "room" /\ RoomNext
        /\ UNCHANGED <<migratorVars, limiterVars, mailVars>>
  /\ UNCHANGED focus

platformVars == <<migratorVars, limiterVars, mailVars, roomVars, focus>>
PlatformSpec ==
  /\ PlatformInit /\ [][PlatformNext]_platformVars
  /\ MigratorFairness
  /\ RoomFairness
===============================================================================
