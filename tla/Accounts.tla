------------------------------ MODULE Accounts ------------------------------
(***************************************************************************)
(* Accounts and sessions (internal/auth, internal/demo, httpapi/auth.go,    *)
(* loginlimiter.go, demo.go, admin.go, settings.go, store/user.go and       *)
(* session.go).  Requests of one client address sign up, log in, change or  *)
(* reset passwords, grant admin, delete accounts and open demos; each       *)
(* request is the sequence of its SQL statements, and they interleave.  In  *)
(* demo mode a background pass deletes the accounts that have expired.      *)
(*                                                                          *)
(* A user's id is one more than the largest, so ids are used again.  The    *)
(* password of a user is the number of times it was changed.                *)
(***************************************************************************)
EXTENDS Naturals, FiniteSets, FiniteSetsExt

CONSTANTS
  Requests,       \* requests that may be in flight together, of one address
  AdminRequests,  \* those that may act on the admin pages
  MaxFailures,    \* loginLimiter.maxFailures
  Window,         \* ticks of loginLimiter.window
  DemoTtl,        \* ticks a demo account lives
  Tokens,         \* bound: sessions at once
  DemoTokens,     \* bound: those of persistent accounts in demo mode
  MaxUsers,       \* bound: persistent accounts at once
  MaxId,          \* bound: largest id, of demo accounts too
  MaxChanges,     \* bound: password changes
  MaxFaults,      \* bound: statements that fail
  NULL

ASSUME RequestsAssumption == IsFiniteSet(Requests) /\ AdminRequests \subseteq Requests
ASSUME TokensAssumption == DemoTokens \subseteq Tokens
ASSUME LimitsAssumption == {MaxFailures, Window, DemoTtl} \subseteq Nat \ {0}
ASSUME NullAssumption == NULL \notin Nat
ASSUME BoundAssumption ==
  {MaxUsers, MaxChanges, MaxFaults} \subseteq Nat /\ MaxId \in Nat \ {0}

VARIABLES
  demo,       \* NF_DEMO_MODE with a seed account
  users,      \* id -> row, for the ids in use
  sessions,   \* token -> row, for the tokens in use
  allow,      \* the allow_signup setting
  limiter,    \* failures of the address and how old the first one is
  throttle,   \* ticks until the demo the address opened expires, or NULL
  request,    \* each request's position in its handler
  cleanup,    \* the background pass: "wait" or "delete"
  doomed,     \* ids it has listed and not deleted yet
  founders,   \* how many signups were made admin
  changes,
  faults

vars == <<demo, users, sessions, allow, limiter, throttle, request, cleanup,
          doomed, founders, changes, faults>>

Ids == DOMAIN users
AllIds == 1..MaxId
Left == 0..DemoTtl \cup {NULL}

(* left: ticks a demo account has, NULL for a persistent one.  granted: the *)
(* throttle has recorded it (an observer).                                  *)
User == [admin : BOOLEAN, pw : 0..MaxChanges, left : Left, granted : BOOLEAN]

(* pw: the password that opened it.  late: that password had already been   *)
(* replaced (an observer).  A demo account's session is not kept: it ends   *)
(* with its account.                                                        *)
Session == [user : AllIds, pw : 0..MaxChanges, late : BOOLEAN]

Steps == {"idle", "password", "session", "signup", "set", "drop", "setAdmin",
          "delete", "provision", "demoSession", "grant"}

(* What a handler keeps: its target, the password it checked, the token it  *)
(* spares, the flag it sets, and whether it is the first signup.            *)
Request == [pc : Steps, user : AllIds \cup {0}, pw : 0..MaxChanges,
            keep : Tokens \cup {NULL}, flag : BOOLEAN]
Idle == [pc |-> "idle", user |-> 0, pw |-> 0, keep |-> NULL, flag |-> FALSE]

Persistent == {u \in Ids : users[u].left = NULL}
Admins == {u \in Ids : users[u].admin}
NewId == IF Ids = {} THEN 1 ELSE Max(Ids) + 1
Fresh == [admin |-> FALSE, pw |-> 0, left |-> NULL, granted |-> FALSE]

Init ==
  /\ demo \in BOOLEAN
  /\ users = IF demo THEN [u \in {1} |-> [Fresh EXCEPT !.admin = TRUE]] ELSE <<>>
  /\ sessions = <<>>
  /\ allow = FALSE
  /\ limiter = [count |-> 0, age |-> 0]
  /\ throttle = NULL
  /\ request = [r \in Requests |-> Idle]
  /\ cleanup = "wait"
  /\ doomed = {}
  /\ founders = IF demo THEN 1 ELSE 0
  /\ changes = 0
  /\ faults = 0

-----------------------------------------------------------------------------
At(r, step) == request[r].pc = step
Become(r, local) == request' = [request EXCEPT ![r] = local]
Begin(r, local) == At(r, "idle") /\ Become(r, local)
Done(r) == Become(r, Idle)
Goto(r, step) == Become(r, [request[r] EXCEPT !.pc = step])

Target(r) == request[r].user

(* Mutated form of Remove: sessions do not cascade. *)
RemoveRow(u) ==
  /\ users' = [i \in Ids \ {u} |-> users[i]]
  /\ UNCHANGED sessions

(* DELETE FROM users, with the cascade on sessions. *)
Remove(u) ==
  /\ users' = [i \in Ids \ {u} |-> users[i]]
  /\ sessions' = [t \in {x \in DOMAIN sessions : sessions[x].user # u} |-> sessions[t]]

(* A token nobody holds: tokens are random and never met twice. *)
Unused ==
  {t \in IF demo THEN DemoTokens ELSE Tokens :
     t \notin DOMAIN sessions /\ \A r \in Requests : request[r].keep # t}

Insert(row) ==
  /\ Unused # {}
  /\ LET token == CHOOSE t \in Unused : TRUE
     IN sessions' = [t \in DOMAIN sessions \cup {token} |->
                       IF t = token THEN row ELSE sessions[t]]

InsertUser(row) ==
  users' = [u \in Ids \cup {NewId} |-> IF u = NewId THEN row ELSE users[u]]

(* An UPDATE of a row that may be gone. *)
Update(u, row) == users' = [i \in Ids |-> IF i = u THEN row ELSE users[i]]

-----------------------------------------------------------------------------
(* Login, the limiter, and sessions *)

(* Mutated form of Blocked: one failure too many is let through. *)
BlockedAbove == limiter.count > MaxFailures

(* An entry whose window has lapsed is dropped by Tick. *)
Blocked == limiter.count >= MaxFailures

LoginBegin(r) ==
  /\ ~Blocked
  /\ Begin(r, [Idle EXCEPT !.pc = "password"])
  /\ UNCHANGED <<demo, users, sessions, allow, limiter, throttle, cleanup,
                 doomed, founders, changes, faults>>

WrongPassword(r) ==
  /\ At(r, "password")
  /\ limiter' = [limiter EXCEPT !.count = @ + 1]
  /\ Done(r)
  /\ UNCHANGED <<demo, users, sessions, allow, throttle, cleanup, doomed,
                 founders, changes, faults>>

(* Nobody knows a demo account's password. *)
RightPassword(r) ==
  /\ At(r, "password")
  /\ \E u \in Persistent :
       Become(r, [Idle EXCEPT !.pc = "session", !.user = u, !.pw = users[u].pw])
  /\ limiter' = [count |-> 0, age |-> 0]
  /\ UNCHANGED <<demo, users, sessions, allow, throttle, cleanup, doomed,
                 founders, changes, faults>>

(* The user may be gone: the foreign key refuses the row. *)
CreateSession(r) ==
  LET u == Target(r)
  IN /\ At(r, "session")
     /\ IF u \in Ids
        THEN Insert([user |-> u, pw |-> request[r].pw,
                     late |-> request[r].pw # users[u].pw])
        ELSE UNCHANGED sessions
     /\ Done(r)
     /\ UNCHANGED <<demo, users, allow, limiter, throttle, cleanup, doomed,
                    founders, changes, faults>>

(* logout, and revoking one session on the settings page. *)
Logout(t) ==
  /\ sessions' = [x \in DOMAIN sessions \ {t} |-> sessions[x]]
  /\ UNCHANGED <<demo, users, allow, limiter, throttle, request, cleanup,
                 doomed, founders, changes, faults>>

-----------------------------------------------------------------------------
(* Signup *)

AllowSignup == ~demo /\ (Persistent = {} \/ allow)

SignupBegin(r) ==
  /\ AllowSignup
  /\ Begin(r, [Idle EXCEPT !.pc = "signup", !.flag = (Persistent = {})])
  /\ UNCHANGED <<demo, users, sessions, allow, limiter, throttle, cleanup,
                 doomed, founders, changes, faults>>

(* One transaction; the count is its own. *)
SignUp(r, first) ==
  /\ At(r, "signup")
  /\ Cardinality(Persistent) < MaxUsers /\ NewId \in AllIds
  /\ InsertUser([Fresh EXCEPT !.admin = first])
  /\ allow' = (allow /\ ~first)
  /\ founders' = IF first THEN founders + 1 ELSE founders
  /\ Become(r, [Idle EXCEPT !.pc = "session", !.user = NewId])
  /\ UNCHANGED <<demo, sessions, limiter, throttle, cleanup, doomed, changes, faults>>

(* Mutated form of CreateFirstAdmin: the count is the one that let the      *)
(* signup in.                                                               *)
CreateFirstAdminEarly(r) == SignUp(r, request[r].flag)

CreateFirstAdmin(r) == SignUp(r, Persistent = {})

-----------------------------------------------------------------------------
(* Passwords *)

(* settingsPassword spares the session that asked. *)
ChangeBegin(r, t) ==
  /\ changes < MaxChanges /\ changes' = changes + 1
  /\ users[sessions[t].user].left = NULL
  /\ Begin(r, [Idle EXCEPT !.pc = "set", !.user = sessions[t].user, !.keep = t])
  /\ UNCHANGED <<demo, users, sessions, allow, limiter, throttle, cleanup,
                 doomed, founders, faults>>

(* An admin page is served to an admin's session, its list to one that      *)
(* shows the persistent accounts.                                           *)
AdminActs(r, actor) ==
  /\ r \in AdminRequests
  /\ actor \in Admins
  /\ \E t \in DOMAIN sessions : sessions[t].user = actor

ResetBegin(r, actor, u) ==
  /\ AdminActs(r, actor)
  /\ changes < MaxChanges /\ changes' = changes + 1
  /\ u \in Persistent
  /\ Begin(r, [Idle EXCEPT !.pc = "set", !.user = u])
  /\ UNCHANGED <<demo, users, sessions, allow, limiter, throttle, cleanup,
                 doomed, founders, faults>>

NewHash(r) ==
  IF Target(r) \in Ids
  THEN Update(Target(r), [users[Target(r)] EXCEPT !.pw = @ + 1])
  ELSE UNCHANGED users

(* The sessions of u but the spared one, which the new password covers. *)
LogOut(u, keep) ==
  sessions' = [t \in {x \in DOMAIN sessions : sessions[x].user # u \/ x = keep} |->
                 IF t = keep /\ sessions[t].user = u /\ u \in Ids
                 THEN [sessions[t] EXCEPT !.pw = users[u].pw] ELSE sessions[t]]

(* Mutated form of SetPassword: sessions first, then the hash. *)
DropThenSet(r) ==
  /\ \/ At(r, "set") /\ LogOut(Target(r), request[r].keep) /\ Goto(r, "drop")
        /\ UNCHANGED users
     \/ At(r, "drop") /\ NewHash(r) /\ Done(r) /\ UNCHANGED sessions
  /\ UNCHANGED <<demo, allow, limiter, throttle, cleanup, doomed, founders,
                 changes, faults>>

SetPassword(r) ==
  /\ \/ At(r, "set") /\ NewHash(r) /\ Goto(r, "drop") /\ UNCHANGED sessions
     \/ At(r, "drop") /\ LogOut(Target(r), request[r].keep) /\ Done(r)
        /\ UNCHANGED users
  /\ UNCHANGED <<demo, allow, limiter, throttle, cleanup, doomed, founders,
                 changes, faults>>

-----------------------------------------------------------------------------
(* Admins *)

SetSignup(r, actor) ==
  /\ AdminActs(r, actor)
  /\ At(r, "idle")
  /\ allow' = ~allow
  /\ UNCHANGED <<demo, users, sessions, limiter, throttle, request, cleanup,
                 doomed, founders, changes, faults>>

(* Mutated form of LastAdmin: counts the others wrongly. *)
NoAdmin(u) == users[u].admin /\ Cardinality(Admins) < 1

LastAdmin(u) == users[u].admin /\ Cardinality(Admins) <= 1

SetAdminBegin(r, actor, u, on) ==
  /\ AdminActs(r, actor)
  /\ u \in Persistent
  /\ ~on => ~LastAdmin(u)
  /\ Begin(r, [Idle EXCEPT !.pc = "setAdmin", !.user = u, !.flag = on])
  /\ UNCHANGED <<demo, users, sessions, allow, limiter, throttle, cleanup,
                 doomed, founders, changes, faults>>

SetAdmin(r) ==
  LET u == Target(r)
  IN /\ At(r, "setAdmin")
     /\ IF u \in Ids THEN Update(u, [users[u] EXCEPT !.admin = request[r].flag])
        ELSE UNCHANGED users
     /\ Done(r)
     /\ UNCHANGED <<demo, sessions, allow, limiter, throttle, cleanup, doomed,
                    founders, changes, faults>>

DeleteBegin(r, actor, u) ==
  /\ AdminActs(r, actor)
  /\ u \in Persistent \ {actor}
  /\ ~LastAdmin(u)
  /\ Begin(r, [Idle EXCEPT !.pc = "delete", !.user = u])
  /\ UNCHANGED <<demo, users, sessions, allow, limiter, throttle, cleanup,
                 doomed, founders, changes, faults>>

Delete(r) ==
  /\ At(r, "delete")
  /\ Remove(Target(r))
  /\ Done(r)
  /\ UNCHANGED <<demo, allow, limiter, throttle, cleanup, doomed, founders,
                 changes, faults>>

-----------------------------------------------------------------------------
(* Demo accounts *)

DemoBegin(r) ==
  /\ demo
  /\ throttle = NULL
  /\ Begin(r, [Idle EXCEPT !.pc = "provision"])
  /\ UNCHANGED <<demo, users, sessions, allow, limiter, throttle, cleanup,
                 doomed, founders, changes, faults>>

(* CloneUser is one transaction. *)
Provision(r) ==
  /\ At(r, "provision")
  /\ NewId \in AllIds
  /\ InsertUser([Fresh EXCEPT !.left = DemoTtl])
  /\ Become(r, [Idle EXCEPT !.pc = "demoSession", !.user = NewId])
  /\ UNCHANGED <<demo, sessions, allow, limiter, throttle, cleanup, doomed,
                 founders, changes, faults>>

DemoSession(r) ==
  /\ At(r, "demoSession")
  /\ Target(r) \in Ids
  /\ Goto(r, "grant")
  /\ UNCHANGED <<demo, users, sessions, allow, limiter, throttle, cleanup, doomed,
                 founders, changes, faults>>

(* Provision or CreateSessionTTL fails, or its account is gone. *)
DemoFails(r) ==
  /\ At(r, "provision") \/ At(r, "demoSession")
  /\ IF At(r, "demoSession") /\ Target(r) \notin Ids THEN UNCHANGED faults
     ELSE faults < MaxFaults /\ faults' = faults + 1
  /\ Done(r)
  /\ UNCHANGED <<demo, users, sessions, allow, limiter, throttle, cleanup,
                 doomed, founders, changes>>

GrantFor(r, left) ==
  /\ At(r, "grant")
  /\ throttle' = left
  /\ IF Target(r) \in Ids
     THEN Update(Target(r), [users[Target(r)] EXCEPT !.granted = TRUE])
     ELSE UNCHANGED users
  /\ Done(r)
  /\ UNCHANGED <<demo, sessions, allow, limiter, cleanup, doomed, founders,
                 changes, faults>>

(* Mutated form of Grant: the entry expires at once. *)
GrantNow(r) == GrantFor(r, 0)

Grant(r) == GrantFor(r, DemoTtl)

(* Mutated form of Expired: every demo account. *)
AnyDemo == Ids \ Persistent

Expired == {u \in Ids : users[u].left = 0}

(* A pass of the cleanup starts. *)
CleanupList ==
  /\ demo
  /\ cleanup = "wait" /\ cleanup' = "delete"
  /\ doomed' = Expired
  /\ UNCHANGED <<demo, users, sessions, allow, limiter, throttle, request,
                 founders, changes, faults>>

(* One account's failure is logged and does not stop the rest. *)
CleanupDelete ==
  /\ cleanup = "delete"
  /\ doomed # {}
  /\ doomed' = doomed \ {Min(doomed)}
  /\ \/ Remove(Min(doomed)) /\ UNCHANGED faults
     \/ faults < MaxFaults /\ faults' = faults + 1 /\ UNCHANGED <<users, sessions>>
  /\ UNCHANGED <<demo, allow, limiter, throttle, request, cleanup, founders, changes>>

(* Mutated form of CleanupEnds: the pass runs once. *)
CleanupEndsForGood ==
  /\ cleanup = "delete" /\ doomed = {}
  /\ cleanup' = "over"
  /\ UNCHANGED <<demo, users, sessions, allow, limiter, throttle, request,
                 doomed, founders, changes, faults>>

(* Run waits for the next cleanup interval. *)
CleanupEnds ==
  /\ cleanup = "delete" /\ doomed = {}
  /\ cleanup' = "wait"
  /\ UNCHANGED <<demo, users, sessions, allow, limiter, throttle, request,
                 doomed, founders, changes, faults>>

Cleanup == CleanupList \/ CleanupDelete \/ CleanupEnds

-----------------------------------------------------------------------------
Less(left) == IF left \in {NULL, 0} THEN left ELSE left - 1

(* A window is as old as its first failure. *)
Aged(l) ==
  IF l.count = 0 THEN l
  ELSE IF l.age + 1 >= Window THEN [count |-> 0, age |-> 0]
  ELSE [l EXCEPT !.age = @ + 1]

(* The throttle holds up to and at the instant its demo expires. *)
Tick ==
  /\ users' = [u \in Ids |-> [users[u] EXCEPT !.left = Less(@)]]
  /\ limiter' = Aged(limiter)
  /\ throttle' = IF throttle = 0 THEN NULL ELSE Less(throttle)
  /\ UNCHANGED <<demo, sessions, allow, request, cleanup, doomed, founders,
                 changes, faults>>

LoginStep(r) == LoginBegin(r) \/ WrongPassword(r) \/ RightPassword(r) \/ CreateSession(r)
SignupStep(r) == SignupBegin(r) \/ CreateFirstAdmin(r)
DemoStep(r) == DemoBegin(r) \/ Provision(r) \/ DemoSession(r) \/ DemoFails(r) \/ Grant(r)

AdminStep(r) ==
  \/ \E actor \in Admins, u \in Persistent :
       \/ ResetBegin(r, actor, u)
       \/ \E on \in BOOLEAN : SetAdminBegin(r, actor, u, on)
       \/ DeleteBegin(r, actor, u)
  \/ \E actor \in Admins : SetSignup(r, actor)
  \/ SetAdmin(r) \/ Delete(r)

Next ==
  \/ \E r \in Requests :
       \/ LoginStep(r) \/ SignupStep(r) \/ DemoStep(r) \/ AdminStep(r)
       \/ \E t \in DOMAIN sessions : ChangeBegin(r, t)
       \/ SetPassword(r)
  \/ \E t \in DOMAIN sessions : Logout(t)
  \/ Cleanup
  \/ Tick

(* The clock advances and the cleanup goroutine runs; nothing is assumed of *)
(* clients.                                                                 *)
Spec == Init /\ [][Next]_vars /\ WF_vars(Cleanup) /\ WF_vars(Tick)

-----------------------------------------------------------------------------
(* The type of every variable; sessions belong to users that exist. *)
TypeOK ==
  /\ {demo, allow} \subseteq BOOLEAN
  /\ Ids \subseteq AllIds /\ users \in [Ids -> User]
  /\ DOMAIN sessions \subseteq Tokens /\ sessions \in [DOMAIN sessions -> Session]
  /\ \A t \in DOMAIN sessions : sessions[t].user \in Ids
  /\ limiter \in [count : Nat, age : 0..(Window - 1)]
  /\ throttle \in Left
  /\ request \in [Requests -> Request]
  /\ cleanup \in {"wait", "delete"}
  /\ doomed \subseteq AllIds
  /\ {founders, changes, faults} \subseteq Nat

(* "The last remaining admin cannot be demoted" nor deleted: once there is  *)
(* an admin there always is one, if admins act one at a time.               *)
AdminRemains == founders > 0 => Admins \cap Persistent # {}

(* CreateFirstAdmin: two concurrent first signups cannot both become admin, *)
(* and the bootstrap window never opens again.                              *)
OneFounder == founders <= 1

(* A change or reset of the password logs out every session opened with the *)
(* old one; only a login whose check came before may still come late.       *)
OldPasswordOut ==
  \A t \in DOMAIN sessions :
    LET u == sessions[t].user
    IN sessions[t].pw = users[u].pw \/ sessions[t].late
       \/ \E r \in Requests : At(r, "drop") /\ Target(r) = u

(* An address fails at most maxFailures times in a window, and once more    *)
(* for every other request that was in flight at the last of them.          *)
FailuresBounded == limiter.count <= MaxFailures + Cardinality(Requests) - 1

(* An address holds no more live demos than requests it had in flight when  *)
(* it had none (demoThrottle: one for requests that come one by one).       *)
DemosBounded ==
  Cardinality({u \in Ids : users[u].granted /\ users[u].left # 0})
    <= Cardinality(Requests)

(* The cleanup deletes expired demo accounts only, whatever happened since  *)
(* it listed them, ids being used again.                                    *)
CleanupSpares ==
  [][CleanupDelete => \A u \in Ids \ DOMAIN users' : users[u].left = 0]_vars

(* Every demo account is deleted in the end, whether or not its visitor got *)
(* a session and although a deletion may fail.                              *)
DemosReclaimed ==
  \A u \in AllIds : (u \in Ids \ Persistent) ~> (u \notin Ids)
=============================================================================
