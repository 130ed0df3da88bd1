--------------------------- MODULE Accounts_proofs ---------------------------
(***************************************************************************)
(* Proofs about accounts, sessions and demos, for any number of requests,   *)
(* users, tokens and failures, and any limits.                              *)
(***************************************************************************)
EXTENDS Accounts, FiniteSetTheorems, TLAPS

USE RequestsAssumption

LEMMA Limits ==
  /\ MaxFailures \in Nat \ {0} /\ Window \in Nat \ {0} /\ DemoTtl \in Nat \ {0}
  /\ MaxUsers \in Nat /\ MaxId \in Nat \ {0} /\ MaxChanges \in Nat /\ MaxFaults \in Nat
  /\ NULL \notin Nat
  BY LimitsAssumption, BoundAssumption, NullAssumption

-----------------------------------------------------------------------------
(* Sets of ids have extremes, and a new id is one that is not in use.       *)

LEMMA LeastId ==
  ASSUME NEW S \in SUBSET Nat, S # {}
  PROVE  Min(S) \in S /\ \A x \in S : Min(S) <= x
<1>1. IsWellFoundedOn(OpToRel(<, Nat), Nat)
  BY NatLessThanWellFounded
<1>2. PICK m \in S : \A x \in S : <<x, m>> \notin OpToRel(<, Nat)
  BY <1>1, WFMin
<1>3. \A x \in S : ~(x < m)
  BY <1>2 DEF OpToRel
<1>4. \A x \in S : m <= x
  BY <1>3
<1> QED
  BY <1>4 DEF Min

LEMMA GreatestId ==
  ASSUME NEW S \in SUBSET AllIds, S # {}
  PROVE  Max(S) \in S /\ \A x \in S : Max(S) >= x
<1> DEFINE back == {MaxId - x : x \in S}
<1>1. \A x \in S : x \in Nat /\ MaxId - x \in Nat
  BY Limits DEF AllIds
<1>2. back \subseteq Nat /\ back # {}
  BY <1>1
<1>3. PICK b \in back : \A c \in back : b <= c
  BY <1>2, LeastId
<1>4. PICK m \in S : b = MaxId - m
  OBVIOUS
<1>5. \A x \in S : m >= x
  <2> TAKE x \in S
  <2>1. MaxId - m <= MaxId - x
    BY <1>3, <1>4
  <2> QED
    BY <1>1, <2>1, Limits
<1> QED
  BY <1>5 DEF Max

LEMMA NewIdIsNew ==
  ASSUME Ids \subseteq AllIds
  PROVE  NewId \in Nat \ {0} /\ NewId \notin Ids
<1>1. CASE Ids = {}
  BY <1>1 DEF NewId
<1>2. CASE Ids # {}
  <2>1. Max(Ids) \in Ids /\ \A x \in Ids : Max(Ids) >= x
    BY <1>2, GreatestId
  <2>2. \A x \in Ids : x \in Nat
    BY DEF AllIds
  <2> QED
    BY <1>2, <2>1, <2>2 DEF NewId
<1> QED
  BY <1>1, <1>2

-----------------------------------------------------------------------------
(* What the operators on the tables do. *)

LEMMA RemovedRows ==
  ASSUME NEW u, Remove(u)
  PROVE  /\ Ids' = Ids \ {u} /\ \A i \in Ids \ {u} : users'[i] = users[i]
         /\ users' = [i \in Ids \ {u} |-> users[i]]
         /\ DOMAIN sessions' = {t \in DOMAIN sessions : sessions[t].user # u}
         /\ \A t \in DOMAIN sessions' : sessions'[t] = sessions[t]
         /\ sessions' = [t \in DOMAIN sessions' |-> sessions[t]]
  BY DEF Remove, Ids

LEMMA UpdatedRows ==
  ASSUME NEW u, NEW row, Update(u, row)
  PROVE  /\ Ids' = Ids /\ \A i \in Ids : users'[i] = IF i = u THEN row ELSE users[i]
         /\ users' = [i \in Ids |-> IF i = u THEN row ELSE users[i]]
  BY DEF Update, Ids

LEMMA InsertedRows ==
  ASSUME NEW row, InsertUser(row)
  PROVE  /\ Ids' = Ids \cup {NewId}
         /\ \A i \in Ids' : users'[i] = IF i = NewId THEN row ELSE users[i]
         /\ users' = [i \in Ids' |-> IF i = NewId THEN row ELSE users[i]]
  BY DEF InsertUser, Ids

LEMMA InsertedSession ==
  ASSUME NEW row, Insert(row)
  PROVE  \E token \in Unused :
           /\ DOMAIN sessions' = DOMAIN sessions \cup {token}
           /\ \A t \in DOMAIN sessions' : sessions'[t] = IF t = token THEN row ELSE sessions[t]
<1> DEFINE token == CHOOSE t \in Unused : TRUE
<1>1. token \in Unused
  BY DEF Insert
<1>2. sessions' = [t \in DOMAIN sessions \cup {token} |-> IF t = token THEN row ELSE sessions[t]]
  BY DEF Insert
<1> QED
  BY <1>1, <1>2

LEMMA LoggedOut ==
  ASSUME NEW u, NEW keep, LogOut(u, keep)
  PROVE  /\ DOMAIN sessions' = {t \in DOMAIN sessions : sessions[t].user # u \/ t = keep}
         /\ \A t \in DOMAIN sessions' :
              sessions'[t] = IF t = keep /\ sessions[t].user = u /\ u \in Ids
                             THEN [sessions[t] EXCEPT !.pw = users[u].pw] ELSE sessions[t]
         /\ sessions' = [t \in DOMAIN sessions' |->
              IF t = keep /\ sessions[t].user = u /\ u \in Ids
              THEN [sessions[t] EXCEPT !.pw = users[u].pw] ELSE sessions[t]]
  BY DEF LogOut

-----------------------------------------------------------------------------
(* Types.  A password's number is bounded because each pending change is    *)
(* counted already.                                                         *)

Setting == {r \in Requests : At(r, "set")}

Counted ==
  /\ Cardinality(Setting) <= changes /\ changes <= MaxChanges
  /\ \A u \in Ids : users[u].pw + Cardinality(Setting) <= changes

Typed == TypeOK /\ Counted

UsersTyped == Ids \subseteq AllIds /\ users \in [Ids -> User]
SessionsTyped ==
  /\ DOMAIN sessions \subseteq Tokens /\ sessions \in [DOMAIN sessions -> Session]
  /\ \A t \in DOMAIN sessions : sessions[t].user \in Ids

LEMMA IdleType == Idle \in Request /\ Idle.pc = "idle" /\ Idle.user = 0
  BY Limits DEF Idle, Request, Steps

LEMMA FreshType ==
  /\ \A a \in BOOLEAN : [Fresh EXCEPT !.admin = a] \in User /\ [Fresh EXCEPT !.admin = a].pw = 0
  /\ [Fresh EXCEPT !.left = DemoTtl] \in User /\ [Fresh EXCEPT !.left = DemoTtl].pw = 0
<1>1. 0 \in 0..MaxChanges /\ NULL \in Left /\ DemoTtl \in Left
  BY Limits DEF Left
<1>2. ASSUME NEW a \in BOOLEAN
      PROVE  [Fresh EXCEPT !.admin = a] \in User /\ [Fresh EXCEPT !.admin = a].pw = 0
  BY <1>1 DEF Fresh, User
<1>3. [Fresh EXCEPT !.left = DemoTtl] \in User /\ [Fresh EXCEPT !.left = DemoTtl].pw = 0
  BY <1>1 DEF Fresh, User
<1> QED
  BY <1>2, <1>3

LEMMA SettingFinite == Setting \subseteq Requests /\ IsFiniteSet(Setting) /\ Cardinality(Setting) \in Nat
  BY FS_Subset, FS_CardinalityType DEF Setting

(* A request's own step, seen from the others. *)
LEMMA Moved ==
  ASSUME TypeOK, NEW r \in Requests, NEW c \in Request, Become(r, c)
  PROVE  /\ request' \in [Requests -> Request] /\ request'[r] = c
         /\ \A q \in Requests : q # r => request'[q] = request[q]
  BY DEF TypeOK, Become

(* How many changes are pending after a step of r. *)
LEMMA SettingAfter ==
  ASSUME TypeOK, NEW r \in Requests, NEW c \in Request, Become(r, c)
  PROVE  /\ Cardinality(Setting') \in Nat
         /\ c.pc # "set" => Cardinality(Setting') <= Cardinality(Setting)
         /\ c.pc # "set" /\ At(r, "set") => Cardinality(Setting') = Cardinality(Setting) - 1
         /\ Cardinality(Setting') <= Cardinality(Setting) + 1
<1>1. CASE c.pc = "set"
  <2>1. Setting' = Setting \cup {r}
    BY <1>1, Moved DEF Setting, At
  <2>2. /\ IsFiniteSet(Setting) /\ Cardinality(Setting) \in Nat
    BY SettingFinite
  <2>3. Cardinality(Setting \cup {r}) = IF r \in Setting THEN Cardinality(Setting)
                                       ELSE Cardinality(Setting) + 1
    BY <2>2, FS_AddElement
  <2> QED
    BY <1>1, <2>1, <2>2, <2>3
<1>2. CASE c.pc # "set"
  <2>1. Setting' = Setting \ {r}
    BY <1>2, Moved DEF Setting, At
  <2>2. At(r, "set") <=> r \in Setting
    BY DEF Setting
  <2>3. /\ Cardinality(Setting \ {r}) \in Nat /\ Cardinality(Setting) \in Nat
        /\ Cardinality(Setting \ {r}) = IF r \in Setting THEN Cardinality(Setting) - 1
                                        ELSE Cardinality(Setting)
    BY SettingFinite, FS_RemoveElement, FS_CardinalityType
  <2> QED
    BY <1>2, <2>1, <2>2, <2>3
<1> QED
  BY <1>1, <1>2

LEMMA SettingSame ==
  ASSUME UNCHANGED request PROVE Setting' = Setting
  BY DEF Setting, At

(* The pending changes still fit after a step that begins none. *)
LEMMA CountKept ==
  ASSUME Typed, changes' = changes, Cardinality(Setting') <= Cardinality(Setting),
         Cardinality(Setting') \in Nat,
         Ids' \subseteq AllIds, users' \in [Ids' -> User],
         \A u \in Ids' : users'[u].pw = 0 \/ (u \in Ids /\ users'[u].pw = users[u].pw)
  PROVE  Counted'
<1>1. \A u \in Ids' : users'[u].pw \in Nat
  BY DEF User
<1>2. \A u \in Ids : users[u].pw \in Nat
  BY DEF Typed, TypeOK, User
<1>3. Cardinality(Setting) \in Nat /\ changes \in Nat
  BY SettingFinite DEF Typed, TypeOK
<1> QED
  BY <1>1, <1>2, <1>3, Limits DEF Typed, Counted

LEMMA TypedInit == Init => Typed
<1> SUFFICES ASSUME Init PROVE Typed
  OBVIOUS
<1>1. request \in [Requests -> Request] /\ Setting = {}
  BY IdleType DEF Init, Setting, At
<1>2. UsersTyped /\ \A u \in Ids : users[u].pw = 0
  <2>1. CASE demo
    <3>1. users = [u \in {1} |-> [Fresh EXCEPT !.admin = TRUE]] /\ Ids = {1}
      BY <2>1 DEF Init, Ids
    <3>2. 1 \in AllIds
      BY Limits DEF AllIds
    <3> QED
      BY <3>1, <3>2, FreshType DEF UsersTyped
  <2>2. CASE ~demo
    <3>1. users = <<>> /\ Ids = {}
      BY <2>2 DEF Init, Ids
    <3> QED
      BY <3>1 DEF UsersTyped
  <2> QED
    BY <2>1, <2>2
<1>3. SessionsTyped
  BY DEF Init, SessionsTyped
<1>4. limiter \in [count : Nat, age : 0..(Window - 1)] /\ throttle \in Left
  BY Limits DEF Init, Left
<1>5. Counted
  <2>1. Cardinality(Setting) = 0
    BY <1>1, FS_EmptySet
  <2>2. changes = 0
    BY DEF Init
  <2> QED
    BY <1>2, <2>1, <2>2, Limits DEF Counted
<1>6. /\ demo \in BOOLEAN /\ allow \in BOOLEAN /\ cleanup \in {"wait", "delete"} /\ doomed = {}
      /\ founders \in Nat /\ changes \in Nat /\ faults \in Nat
  BY DEF Init
<1>7. TypeOK
  BY <1>1, <1>2, <1>3, <1>4, <1>6 DEF TypeOK, UsersTyped, SessionsTyped
<1> QED
  BY <1>5, <1>7 DEF Typed

Locals == request \in [Requests -> Request]

Others ==
  /\ demo \in BOOLEAN /\ allow \in BOOLEAN /\ cleanup \in {"wait", "delete"}
  /\ limiter \in [count : Nat, age : 0..(Window - 1)] /\ throttle \in Left
  /\ doomed \subseteq AllIds
  /\ founders \in Nat /\ changes \in Nat /\ faults \in Nat

LEMMA PartsOfType == TypeOK <=> UsersTyped /\ SessionsTyped /\ Locals /\ Others
  BY DEF TypeOK, UsersTyped, SessionsTyped, Locals, Others

(* What a handler keeps when it goes on. *)
LEMMA LocalType ==
  /\ \A step \in Steps :
       /\ [Idle EXCEPT !.pc = step] \in Request
       /\ [Idle EXCEPT !.pc = step].pc = step
  /\ \A step \in Steps, u \in AllIds \cup {0} :
       /\ [Idle EXCEPT !.pc = step, !.user = u] \in Request
       /\ [Idle EXCEPT !.pc = step, !.user = u].pc = step
       /\ [Idle EXCEPT !.pc = step, !.user = u].user = u
  /\ \A step \in Steps, flag \in BOOLEAN :
       /\ [Idle EXCEPT !.pc = step, !.flag = flag] \in Request
       /\ [Idle EXCEPT !.pc = step, !.flag = flag].pc = step
  /\ \A step \in Steps, u \in AllIds \cup {0}, pw \in 0..MaxChanges :
       /\ [Idle EXCEPT !.pc = step, !.user = u, !.pw = pw] \in Request
       /\ [Idle EXCEPT !.pc = step, !.user = u, !.pw = pw].pc = step
       /\ [Idle EXCEPT !.pc = step, !.user = u, !.pw = pw].user = u
       /\ [Idle EXCEPT !.pc = step, !.user = u, !.pw = pw].pw = pw
  /\ \A step \in Steps, u \in AllIds \cup {0}, keep \in Tokens \cup {NULL} :
       /\ [Idle EXCEPT !.pc = step, !.user = u, !.keep = keep] \in Request
       /\ [Idle EXCEPT !.pc = step, !.user = u, !.keep = keep].pc = step
       /\ [Idle EXCEPT !.pc = step, !.user = u, !.keep = keep].user = u
  /\ \A step \in Steps, u \in AllIds \cup {0}, flag \in BOOLEAN :
       /\ [Idle EXCEPT !.pc = step, !.user = u, !.flag = flag] \in Request
       /\ [Idle EXCEPT !.pc = step, !.user = u, !.flag = flag].pc = step
       /\ [Idle EXCEPT !.pc = step, !.user = u, !.flag = flag].user = u
       /\ [Idle EXCEPT !.pc = step, !.user = u, !.flag = flag].flag = flag
<1>1. 0 \in AllIds \cup {0} /\ 0 \in 0..MaxChanges /\ NULL \in Tokens \cup {NULL}
  BY Limits
<1>2. \A step \in Steps :
        /\ [Idle EXCEPT !.pc = step] \in Request
        /\ [Idle EXCEPT !.pc = step].pc = step
  BY <1>1 DEF Idle, Request
<1>3. \A step \in Steps, u \in AllIds \cup {0} :
        /\ [Idle EXCEPT !.pc = step, !.user = u] \in Request
        /\ [Idle EXCEPT !.pc = step, !.user = u].pc = step
        /\ [Idle EXCEPT !.pc = step, !.user = u].user = u
  BY <1>1 DEF Idle, Request
<1>4. \A step \in Steps, flag \in BOOLEAN :
        /\ [Idle EXCEPT !.pc = step, !.flag = flag] \in Request
        /\ [Idle EXCEPT !.pc = step, !.flag = flag].pc = step
  BY <1>1 DEF Idle, Request
<1>5. \A step \in Steps, u \in AllIds \cup {0}, pw \in 0..MaxChanges :
        /\ [Idle EXCEPT !.pc = step, !.user = u, !.pw = pw] \in Request
        /\ [Idle EXCEPT !.pc = step, !.user = u, !.pw = pw].pc = step
        /\ [Idle EXCEPT !.pc = step, !.user = u, !.pw = pw].user = u
        /\ [Idle EXCEPT !.pc = step, !.user = u, !.pw = pw].pw = pw
  BY <1>1 DEF Idle, Request
<1>6. \A step \in Steps, u \in AllIds \cup {0}, keep \in Tokens \cup {NULL} :
        /\ [Idle EXCEPT !.pc = step, !.user = u, !.keep = keep] \in Request
        /\ [Idle EXCEPT !.pc = step, !.user = u, !.keep = keep].pc = step
        /\ [Idle EXCEPT !.pc = step, !.user = u, !.keep = keep].user = u
  BY <1>1 DEF Idle, Request
<1>7. \A step \in Steps, u \in AllIds \cup {0}, flag \in BOOLEAN :
        /\ [Idle EXCEPT !.pc = step, !.user = u, !.flag = flag] \in Request
        /\ [Idle EXCEPT !.pc = step, !.user = u, !.flag = flag].pc = step
        /\ [Idle EXCEPT !.pc = step, !.user = u, !.flag = flag].user = u
        /\ [Idle EXCEPT !.pc = step, !.user = u, !.flag = flag].flag = flag
  BY <1>1 DEF Idle, Request
<1> QED
  BY <1>2, <1>3, <1>4, <1>5, <1>6, <1>7

LEMMA GoneOn ==
  ASSUME TypeOK, NEW r \in Requests, NEW step \in Steps, Goto(r, step)
  PROVE  /\ [request[r] EXCEPT !.pc = step] \in Request
         /\ Become(r, [request[r] EXCEPT !.pc = step])
         /\ [request[r] EXCEPT !.pc = step].pc = step
         /\ [request[r] EXCEPT !.pc = step].user = Target(r)
  BY DEF TypeOK, Goto, Request, Target

(* A step of one handler that changes no user and begins no change. *)
LEMMA LocalStep ==
  ASSUME Typed, NEW r \in Requests, NEW c \in Request, Become(r, c), c.pc # "set",
         UNCHANGED <<users, changes>>
  PROVE  Locals' /\ UsersTyped' /\ Counted'
<1>1. UsersTyped'
  BY DEF Typed, TypeOK, UsersTyped, Ids
<1>2. Ids' = Ids
  BY DEF Ids
<1>3. Counted'
  BY <1>1, <1>2, CountKept, SettingAfter DEF Typed, UsersTyped
<1> QED
  BY <1>1, <1>3, Moved DEF Typed, Locals

LEMMA SessionsSame ==
  ASSUME SessionsTyped, UNCHANGED <<users, sessions>>
  PROVE  SessionsTyped'
  BY DEF SessionsTyped, Ids

LEMMA Reassembled ==
  ASSUME UsersTyped', SessionsTyped', Locals', Others', Counted'
  PROVE  Typed'
  BY DEF Typed, TypeOK, UsersTyped, SessionsTyped, Locals, Others

LEMMA FreshSession ==
  ASSUME TypeOK, NEW row \in Session, row.user \in Ids, Insert(row), UNCHANGED users
  PROVE  SessionsTyped'
<1> DEFINE token == CHOOSE t \in Unused : TRUE
<1>1. /\ token \in Unused
      /\ sessions' = [t \in DOMAIN sessions \cup {token} |-> IF t = token THEN row ELSE sessions[t]]
  BY DEF Insert
<1> HIDE DEF token
<1>2. token \in Tokens
  BY <1>1, TokensAssumption DEF Unused
<1>3. Ids' = Ids
  BY DEF Ids
<1>4. \A t \in DOMAIN sessions : sessions[t] \in Session /\ sessions[t].user \in Ids
  BY DEF TypeOK
<1>5. DOMAIN sessions \subseteq Tokens
  BY DEF TypeOK
<1>6. \A t \in DOMAIN sessions' : sessions'[t] \in Session /\ sessions'[t].user \in Ids
  BY <1>1, <1>4
<1> QED
  BY <1>1, <1>2, <1>3, <1>5, <1>6 DEF SessionsTyped

LEMMA LessLeft == \A left \in Left : Less(left) \in Left
  BY Limits DEF Left, Less

LEMMA AgedType ==
  ASSUME NEW l \in [count : Nat, age : 0..(Window - 1)]
  PROVE  Aged(l) \in [count : Nat, age : 0..(Window - 1)]
  BY Limits DEF Aged

LEMMA RowsRemoved ==
  ASSUME Typed, NEW u, Remove(u), changes' = changes, Cardinality(Setting') <= Cardinality(Setting),
         Cardinality(Setting') \in Nat
  PROVE  UsersTyped' /\ SessionsTyped' /\ Counted'
<1>1. UsersTyped'
  BY RemovedRows DEF Typed, TypeOK, UsersTyped
<1>2. SessionsTyped'
  <2>1. /\ \A t \in DOMAIN sessions : sessions[t] \in Session /\ sessions[t].user \in Ids
        /\ DOMAIN sessions \subseteq Tokens
    BY DEF Typed, TypeOK
  <2>2. \A t \in DOMAIN sessions' :
          sessions'[t] \in Session /\ sessions'[t].user \in Ids \ {u}
    BY <2>1, RemovedRows
  <2>3. sessions' \in [DOMAIN sessions' -> Session] /\ DOMAIN sessions' \subseteq Tokens
    BY <2>1, <2>2, RemovedRows
  <2> QED
    BY <2>2, <2>3, RemovedRows DEF SessionsTyped
<1>3. Counted'
  <2>1. \A i \in Ids' : i \in Ids /\ users'[i].pw = users[i].pw
    BY RemovedRows
  <2> QED
    BY <1>1, <2>1, CountKept DEF UsersTyped
<1> QED
  BY <1>1, <1>2, <1>3

(* A row replaced by one with the same password. *)
LEMMA RowUpdated ==
  ASSUME Typed, NEW u \in Ids, NEW row \in User, row.pw = users[u].pw, Update(u, row),
         UNCHANGED sessions,
         changes' = changes, Cardinality(Setting') <= Cardinality(Setting),
         Cardinality(Setting') \in Nat
  PROVE  UsersTyped' /\ SessionsTyped' /\ Counted'
<1>1. UsersTyped'
  BY UpdatedRows DEF Typed, TypeOK, UsersTyped
<1>2. SessionsTyped'
  BY UpdatedRows DEF Typed, TypeOK, SessionsTyped
<1>3. Counted'
  <2>1. \A i \in Ids' : i \in Ids /\ users'[i].pw = users[i].pw
    BY UpdatedRows
  <2> QED
    BY <1>1, <2>1, CountKept DEF UsersTyped
<1> QED
  BY <1>1, <1>2, <1>3

LEMMA RowInserted ==
  ASSUME Typed, NEW row \in User, row.pw = 0, NewId \in AllIds, InsertUser(row),
         UNCHANGED sessions,
         changes' = changes, Cardinality(Setting') <= Cardinality(Setting),
         Cardinality(Setting') \in Nat
  PROVE  UsersTyped' /\ SessionsTyped' /\ Counted'
<1>0. Ids' = Ids \cup {NewId} /\ NewId \notin Ids
  BY InsertedRows, NewIdIsNew DEF Typed, TypeOK
<1>1. UsersTyped'
  <2>1. Ids \subseteq AllIds /\ \A i \in Ids : users[i] \in User
    BY DEF Typed, TypeOK
  <2>2. \A i \in Ids' : users'[i] \in User
    BY <1>0, <2>1, InsertedRows
  <2>3. users' \in [Ids' -> User]
    BY <2>2, InsertedRows
  <2> QED
    BY <1>0, <2>1, <2>3 DEF UsersTyped
<1>2. SessionsTyped'
  BY <1>0 DEF Typed, TypeOK, SessionsTyped
<1>3. Counted'
  <2>1. \A i \in Ids' : users'[i].pw = 0 \/ (i \in Ids /\ users'[i].pw = users[i].pw)
    BY <1>0, InsertedRows
  <2> QED
    BY <1>1, <2>1, CountKept DEF UsersTyped
<1> QED
  BY <1>1, <1>2, <1>3

(* A change of password is counted when it begins. *)
LEMMA ChangeCounted ==
  ASSUME Typed, NEW r \in Requests, NEW c \in Request, Become(r, c),
         changes < MaxChanges, changes' = changes + 1, UNCHANGED users
  PROVE  Counted'
<1>1. Cardinality(Setting) \in Nat /\ changes \in Nat /\ \A u \in Ids : users[u].pw \in Nat
  BY SettingFinite DEF Typed, TypeOK, User
<1>2. Cardinality(Setting') \in Nat /\ Cardinality(Setting') <= Cardinality(Setting) + 1
  BY SettingAfter DEF Typed
<1>3. Ids' = Ids
  BY DEF Ids
<1> QED
  BY <1>1, <1>2, <1>3, Limits DEF Typed, Counted

LEMMA HashCounted ==
  ASSUME Typed, NEW r \in Requests, At(r, "set"), NewHash(r), Goto(r, "drop"),
         UNCHANGED <<sessions, changes>>
  PROVE  UsersTyped' /\ SessionsTyped' /\ Counted'
<1>1. /\ Cardinality(Setting) \in Nat /\ changes \in Nat /\ \A u \in Ids : users[u].pw \in Nat
      /\ \A u \in Ids : users[u] \in User
  BY SettingFinite DEF Typed, TypeOK, User
<1>2. Cardinality(Setting') \in Nat /\ Cardinality(Setting') = Cardinality(Setting) - 1
  <2>1. "drop" \in Steps /\ "drop" # "set"
    BY DEF Steps
  <2> QED
    BY <2>1, GoneOn, SettingAfter DEF Typed
<1>3. CASE Target(r) \notin Ids
  <2>1. UNCHANGED users
    BY <1>3 DEF NewHash
  <2>2. UsersTyped' /\ SessionsTyped' /\ Ids' = Ids
    BY <2>1 DEF Typed, TypeOK, UsersTyped, SessionsTyped, Ids
  <2>3. Counted'
    BY <1>1, <1>2, <2>1, <2>2 DEF Typed, Counted
  <2> QED
    BY <2>2, <2>3
<1>4. CASE Target(r) \in Ids
  <2> DEFINE u == Target(r)
             row == [users[u] EXCEPT !.pw = @ + 1]
  <2>1. Update(u, row)
    BY <1>4 DEF NewHash
  <2>2. users[u].pw + 1 \in 0..MaxChanges /\ users[u] \in User
    BY <1>1, <1>2, <1>4, Limits DEF Typed, Counted
  <2>3. row \in User /\ row.pw = users[u].pw + 1
    BY <2>2 DEF User
  <2> HIDE DEF row
  <2>4. /\ Ids' = Ids /\ \A i \in Ids : users'[i] = IF i = u THEN row ELSE users[i]
        /\ users' = [i \in Ids |-> IF i = u THEN row ELSE users[i]]
    BY <2>1, UpdatedRows
  <2>5. UsersTyped' /\ SessionsTyped'
    BY <1>1, <2>3, <2>4 DEF Typed, TypeOK, UsersTyped, SessionsTyped
  <2>6. \A i \in Ids : users'[i].pw <= users[i].pw + 1 /\ users'[i].pw \in Nat
    <3>1. \A i \in Ids : i = u \/ i # u
      OBVIOUS
    <3> QED
      BY <1>1, <2>3, <2>4
  <2>7. Counted'
    BY <1>1, <1>2, <2>4, <2>6 DEF Typed, Counted
  <2> QED
    BY <2>5, <2>7
<1> QED
  BY <1>3, <1>4

LEMMA UsersAreTyped ==
  ASSUME Typed
  PROVE  /\ \A u \in Ids : /\ users[u] \in User /\ users[u].pw \in 0..MaxChanges
                           /\ users[u].left \in Left /\ u \in AllIds
         /\ \A t \in DOMAIN sessions : sessions[t].user \in Ids /\ t \in Tokens
         /\ \A r \in Requests : /\ request[r] \in Request /\ request[r].pw \in 0..MaxChanges
                                /\ request[r].flag \in BOOLEAN /\ Target(r) \in AllIds \cup {0}
         /\ Persistent \subseteq Ids /\ Admins \subseteq Ids
         /\ limiter.count \in Nat
  BY DEF Typed, TypeOK, User, Request, Target, Persistent, Admins

LEMMA TypedLogin ==
  ASSUME Typed, NEW r \in Requests, LoginStep(r)
  PROVE  Typed'
<1>0. SessionsTyped /\ Others /\ Idle \in Request /\ Idle.pc # "set"
  BY PartsOfType, IdleType DEF Typed
<1>1. CASE LoginBegin(r)
  <2> DEFINE c == [Idle EXCEPT !.pc = "password"]
  <2>1. c \in Request /\ c.pc # "set"
    <3>1. "password" \in Steps
      BY DEF Steps
    <3> QED
      BY <3>1, LocalType
  <2>2. Become(r, c)
    BY <1>1 DEF LoginBegin, Begin
  <2> HIDE DEF c
  <2>3. Locals' /\ UsersTyped' /\ Counted'
    BY <1>1, <2>1, <2>2, LocalStep DEF LoginBegin
  <2>4. SessionsTyped' /\ Others'
    BY <1>0, <1>1, SessionsSame DEF LoginBegin, Others
  <2> QED
    BY <2>3, <2>4, Reassembled
<1>2. CASE WrongPassword(r)
  <2>1. Locals' /\ UsersTyped' /\ Counted'
    BY <1>0, <1>2, LocalStep DEF WrongPassword, Done
  <2>2. limiter' \in [count : Nat, age : 0..(Window - 1)]
    BY <1>0, <1>2 DEF WrongPassword, Others
  <2>3. SessionsTyped' /\ Others'
    BY <1>0, <1>2, <2>2, SessionsSame DEF WrongPassword, Others
  <2> QED
    BY <2>1, <2>3, Reassembled
<1>3. CASE RightPassword(r)
  <2>1. PICK u \in Persistent :
          Become(r, [Idle EXCEPT !.pc = "session", !.user = u, !.pw = users[u].pw])
    BY <1>3 DEF RightPassword
  <2> DEFINE c == [Idle EXCEPT !.pc = "session", !.user = u, !.pw = users[u].pw]
  <2>2. c \in Request /\ c.pc # "set"
    <3>1. u \in AllIds \cup {0} /\ users[u].pw \in 0..MaxChanges /\ "session" \in Steps
      BY <2>1, UsersAreTyped DEF Steps
    <3> QED
      BY <3>1, LocalType
  <2>3. Become(r, c)
    BY <2>1
  <2> HIDE DEF c
  <2>4. Locals' /\ UsersTyped' /\ Counted'
    BY <1>3, <2>3, <2>2, LocalStep DEF RightPassword
  <2>5. limiter' \in [count : Nat, age : 0..(Window - 1)]
    BY <1>3, Limits DEF RightPassword
  <2>6. SessionsTyped' /\ Others'
    BY <1>0, <1>3, <2>5, SessionsSame DEF RightPassword, Others
  <2> QED
    BY <2>4, <2>6, Reassembled
<1>4. CASE CreateSession(r)
  <2>1. Locals' /\ UsersTyped' /\ Counted'
    BY <1>0, <1>4, LocalStep DEF CreateSession, Done
  <2>2. Others'
    BY <1>0, <1>4 DEF CreateSession, Others
  <2>3. CASE Target(r) \in Ids
    <3> DEFINE row == [user |-> Target(r), pw |-> request[r].pw,
                       late |-> request[r].pw # users[Target(r)].pw]
    <3>1. row \in Session /\ row.user \in Ids
      BY <2>3, UsersAreTyped DEF Session
    <3>2. Insert(row)
      BY <1>4, <2>3 DEF CreateSession
    <3> HIDE DEF row
    <3>3. SessionsTyped'
      BY <1>4, <3>1, <3>2, FreshSession DEF CreateSession, Typed
    <3> QED
      BY <2>1, <2>2, <3>3, Reassembled
  <2>4. CASE Target(r) \notin Ids
    <3>1. SessionsTyped'
      BY <1>0, <1>4, <2>4, SessionsSame DEF CreateSession
    <3> QED
      BY <2>1, <2>2, <3>1, Reassembled
  <2> QED
    BY <2>3, <2>4
<1> QED
  BY <1>1, <1>2, <1>3, <1>4 DEF LoginStep

LEMMA TypedSignup ==
  ASSUME Typed, NEW r \in Requests, SignupStep(r)
  PROVE  Typed'
<1>0. SessionsTyped /\ Others
  BY PartsOfType DEF Typed
<1>1. CASE SignupBegin(r)
  <2> DEFINE c == [Idle EXCEPT !.pc = "signup", !.flag = (Persistent = {})]
  <2>1. c \in Request /\ c.pc # "set"
    <3>1. "signup" \in Steps /\ (Persistent = {}) \in BOOLEAN
      BY DEF Steps
    <3> QED
      BY <3>1, LocalType
  <2>2. Become(r, c)
    BY <1>1 DEF SignupBegin, Begin
  <2> HIDE DEF c
  <2>3. Locals' /\ UsersTyped' /\ Counted'
    BY <1>1, <2>1, <2>2, LocalStep DEF SignupBegin
  <2>4. SessionsTyped' /\ Others'
    BY <1>0, <1>1, SessionsSame DEF SignupBegin, Others
  <2> QED
    BY <2>3, <2>4, Reassembled
<1>2. CASE CreateFirstAdmin(r)
  <2> DEFINE first == Persistent = {}
             row == [Fresh EXCEPT !.admin = first]
             c == [Idle EXCEPT !.pc = "session", !.user = NewId]
  <2>1. SignUp(r, first)
    BY <1>2 DEF CreateFirstAdmin
  <2>2. row \in User /\ row.pw = 0
    BY FreshType
  <2>3. c \in Request /\ c.pc # "set"
    <3>1. "session" \in Steps /\ NewId \in AllIds \cup {0}
      BY <2>1 DEF Steps, SignUp
    <3> QED
      BY <3>1, LocalType
  <2>4. Become(r, c) /\ InsertUser(row) /\ NewId \in AllIds
    BY <2>1 DEF SignUp
  <2>5. first \in BOOLEAN
    OBVIOUS
  <2> HIDE DEF first, row, c
  <2>6. Cardinality(Setting') <= Cardinality(Setting) /\ Cardinality(Setting') \in Nat /\ Locals'
    BY <2>3, <2>4, SettingAfter, Moved DEF Typed, Locals
  <2>7. UsersTyped' /\ SessionsTyped' /\ Counted'
    BY <2>1, <2>2, <2>4, <2>6, RowInserted DEF SignUp
  <2>8. Others'
    BY <1>0, <2>1, <2>5 DEF SignUp, Others
  <2> QED
    BY <2>6, <2>7, <2>8, Reassembled
<1> QED
  BY <1>1, <1>2 DEF SignupStep

LEMMA TypedChange ==
  ASSUME Typed, NEW r \in Requests, NEW t \in DOMAIN sessions, ChangeBegin(r, t)
  PROVE  Typed'
<1> DEFINE c == [Idle EXCEPT !.pc = "set", !.user = sessions[t].user, !.keep = t]
<1>0. UsersTyped /\ SessionsTyped /\ Others
  BY PartsOfType DEF Typed
<1>1. c \in Request
  <2>1. "set" \in Steps /\ sessions[t].user \in AllIds \cup {0} /\ t \in Tokens \cup {NULL}
    BY UsersAreTyped DEF Steps
  <2> QED
    BY <2>1, LocalType
<1>2. Become(r, c)
  BY DEF ChangeBegin, Begin
<1> HIDE DEF c
<1>3. Locals' /\ UsersTyped'
  BY <1>0, <1>1, <1>2, Moved DEF ChangeBegin, Typed, Locals, UsersTyped, Ids
<1>4. Counted'
  BY <1>1, <1>2, ChangeCounted DEF ChangeBegin
<1>5. SessionsTyped' /\ Others'
  BY <1>0, SessionsSame DEF ChangeBegin, Others
<1> QED
  BY <1>3, <1>4, <1>5, Reassembled

LEMMA TypedSet ==
  ASSUME Typed, NEW r \in Requests, SetPassword(r)
  PROVE  Typed'
<1>0. SessionsTyped /\ Others /\ Idle \in Request /\ Idle.pc # "set"
  BY PartsOfType, IdleType DEF Typed
<1>1. Others'
  BY <1>0 DEF SetPassword, Others
<1>2. CASE At(r, "set") /\ NewHash(r) /\ Goto(r, "drop") /\ UNCHANGED sessions
  <2>1. UsersTyped' /\ SessionsTyped' /\ Counted'
    BY <1>2, HashCounted DEF SetPassword
  <2>2. "drop" \in Steps
    BY DEF Steps
  <2>3. Locals'
    BY <1>2, <2>2, GoneOn, Moved DEF Typed, Locals
  <2> QED
    BY <1>1, <2>1, <2>3, Reassembled
<1>3. CASE /\ At(r, "drop") /\ LogOut(Target(r), request[r].keep) /\ Done(r)
           /\ UNCHANGED users
  <2>1. Locals' /\ UsersTyped' /\ Counted'
    BY <1>0, <1>3, LocalStep DEF SetPassword, Done
  <2>2. /\ \A t \in DOMAIN sessions : sessions[t] \in Session /\ sessions[t].user \in Ids
        /\ DOMAIN sessions \subseteq Tokens
        /\ \A u \in Ids : users[u].pw \in 0..MaxChanges
    BY UsersAreTyped DEF Typed, TypeOK
  <2> DEFINE u == Target(r)
             keep == request[r].keep
             kept == {t \in DOMAIN sessions : sessions[t].user # u \/ t = keep}
             row(t) == IF t = keep /\ sessions[t].user = u /\ u \in Ids
                       THEN [sessions[t] EXCEPT !.pw = users[u].pw] ELSE sessions[t]
  <2>3. sessions' = [t \in kept |-> row(t)] /\ kept \subseteq DOMAIN sessions
    BY <1>3 DEF LogOut
  <2>4. \A t \in kept : row(t) \in Session /\ row(t).user \in Ids
    BY <2>2 DEF Session
  <2> HIDE DEF kept, row
  <2>5. sessions' \in [DOMAIN sessions' -> Session]
    BY <2>3, <2>4
  <2>6. Ids' = Ids
    BY <1>3 DEF Ids
  <2>7. SessionsTyped'
    BY <2>2, <2>3, <2>4, <2>5, <2>6 DEF SessionsTyped
  <2> QED
    BY <1>1, <2>1, <2>7, Reassembled
<1> QED
  BY <1>2, <1>3 DEF SetPassword

LEMMA TypedAdmin ==
  ASSUME Typed, NEW r \in Requests, AdminStep(r)
  PROVE  Typed'
<1>0. UsersTyped /\ SessionsTyped /\ Locals /\ Others /\ Idle \in Request /\ Idle.pc # "set"
  BY PartsOfType, IdleType DEF Typed
<1>1. ASSUME NEW actor, NEW u \in Persistent, ResetBegin(r, actor, u)
      PROVE  Typed'
  <2> DEFINE c == [Idle EXCEPT !.pc = "set", !.user = u]
  <2>1. c \in Request
    <3>1. "set" \in Steps /\ u \in AllIds \cup {0}
      BY UsersAreTyped DEF Steps
    <3> QED
      BY <3>1, LocalType
  <2>2. Become(r, c)
    BY <1>1 DEF ResetBegin, Begin
  <2> HIDE DEF c
  <2>3. Locals' /\ UsersTyped'
    BY <1>0, <1>1, <2>1, <2>2, Moved DEF ResetBegin, Typed, Locals, UsersTyped, Ids
  <2>4. Counted'
    BY <1>1, <2>1, <2>2, ChangeCounted DEF ResetBegin
  <2>5. SessionsTyped' /\ Others'
    BY <1>0, <1>1, SessionsSame DEF ResetBegin, Others
  <2> QED
    BY <2>3, <2>4, <2>5, Reassembled
<1>2. ASSUME NEW actor, NEW u \in Persistent, NEW on \in BOOLEAN, SetAdminBegin(r, actor, u, on)
      PROVE  Typed'
  <2> DEFINE c == [Idle EXCEPT !.pc = "setAdmin", !.user = u, !.flag = on]
  <2>1. c \in Request /\ c.pc # "set"
    <3>1. "setAdmin" \in Steps /\ u \in AllIds \cup {0}
      BY UsersAreTyped DEF Steps
    <3> QED
      BY <3>1, LocalType
  <2>2. Become(r, c)
    BY <1>2 DEF SetAdminBegin, Begin
  <2> HIDE DEF c
  <2>3. Locals' /\ UsersTyped' /\ Counted'
    BY <1>2, <2>1, <2>2, LocalStep DEF SetAdminBegin
  <2>4. SessionsTyped' /\ Others'
    BY <1>0, <1>2, SessionsSame DEF SetAdminBegin, Others
  <2> QED
    BY <2>3, <2>4, Reassembled
<1>3. ASSUME NEW actor, NEW u \in Persistent, DeleteBegin(r, actor, u)
      PROVE  Typed'
  <2> DEFINE c == [Idle EXCEPT !.pc = "delete", !.user = u]
  <2>1. c \in Request /\ c.pc # "set"
    <3>1. "delete" \in Steps /\ u \in AllIds \cup {0}
      BY UsersAreTyped DEF Steps
    <3> QED
      BY <3>1, LocalType
  <2>2. Become(r, c)
    BY <1>3 DEF DeleteBegin, Begin
  <2> HIDE DEF c
  <2>3. Locals' /\ UsersTyped' /\ Counted'
    BY <1>3, <2>1, <2>2, LocalStep DEF DeleteBegin
  <2>4. SessionsTyped' /\ Others'
    BY <1>0, <1>3, SessionsSame DEF DeleteBegin, Others
  <2> QED
    BY <2>3, <2>4, Reassembled
<1>4. ASSUME NEW actor, SetSignup(r, actor)
      PROVE  Typed'
  <2>1. Locals' /\ UsersTyped' /\ Counted'
    <3>1. Setting' = Setting
      BY <1>4, SettingSame DEF SetSignup
    <3> QED
      BY <1>0, <1>4, <3>1 DEF SetSignup, Typed, Counted, Locals, UsersTyped, Ids
  <2>2. allow' \in BOOLEAN
    BY <1>4 DEF SetSignup
  <2>3. SessionsTyped' /\ Others'
    BY <1>0, <1>4, <2>2, SessionsSame DEF SetSignup, Others
  <2> QED
    BY <2>1, <2>3, Reassembled
<1>5. CASE SetAdmin(r)
  <2>1. Locals' /\ Cardinality(Setting') <= Cardinality(Setting) /\ Cardinality(Setting') \in Nat
    BY <1>0, <1>5, SettingAfter, Moved DEF SetAdmin, Done, Typed, Locals
  <2>2. Others'
    BY <1>0, <1>5 DEF SetAdmin, Others
  <2>3. CASE Target(r) \in Ids
    <3> DEFINE row == [users[Target(r)] EXCEPT !.admin = request[r].flag]
    <3>1. row \in User /\ row.pw = users[Target(r)].pw
      <4>1. users[Target(r)] \in User /\ request[r].flag \in BOOLEAN
        BY <2>3, UsersAreTyped
      <4> QED
        BY <4>1 DEF User
    <3>2. Update(Target(r), row)
      BY <1>5, <2>3 DEF SetAdmin
    <3> HIDE DEF row
    <3>3. UsersTyped' /\ SessionsTyped' /\ Counted'
      BY <1>5, <2>1, <2>3, <3>1, <3>2, RowUpdated DEF SetAdmin
    <3> QED
      BY <2>1, <2>2, <3>3, Reassembled
  <2>4. CASE Target(r) \notin Ids
    <3>1. Locals' /\ UsersTyped' /\ Counted' /\ SessionsTyped'
      BY <1>0, <1>5, <2>4, LocalStep, SessionsSame DEF SetAdmin, Done
    <3> QED
      BY <2>2, <3>1, Reassembled
  <2> QED
    BY <2>3, <2>4
<1>6. CASE Delete(r)
  <2>1. Locals' /\ Cardinality(Setting') <= Cardinality(Setting) /\ Cardinality(Setting') \in Nat
    BY <1>0, <1>6, SettingAfter, Moved DEF Delete, Done, Typed, Locals
  <2>2. UsersTyped' /\ SessionsTyped' /\ Counted'
    BY <1>6, <2>1, RowsRemoved DEF Delete
  <2>3. Others'
    BY <1>0, <1>6 DEF Delete, Others
  <2> QED
    BY <2>1, <2>2, <2>3, Reassembled
<1> QED
  BY <1>1, <1>2, <1>3, <1>4, <1>5, <1>6 DEF AdminStep

LEMMA TypedDemo ==
  ASSUME Typed, NEW r \in Requests, DemoStep(r)
  PROVE  Typed'
<1>0. UsersTyped /\ SessionsTyped /\ Others /\ Idle \in Request /\ Idle.pc # "set"
  BY PartsOfType, IdleType DEF Typed
<1>1. CASE DemoBegin(r)
  <2> DEFINE c == [Idle EXCEPT !.pc = "provision"]
  <2>1. c \in Request /\ c.pc # "set"
    <3>1. "provision" \in Steps
      BY DEF Steps
    <3> QED
      BY <3>1, LocalType
  <2>2. Become(r, c)
    BY <1>1 DEF DemoBegin, Begin
  <2> HIDE DEF c
  <2>3. Locals' /\ UsersTyped' /\ Counted'
    BY <1>1, <2>1, <2>2, LocalStep DEF DemoBegin
  <2>4. SessionsTyped' /\ Others'
    BY <1>0, <1>1, SessionsSame DEF DemoBegin, Others
  <2> QED
    BY <2>3, <2>4, Reassembled
<1>2. CASE Provision(r)
  <2> DEFINE row == [Fresh EXCEPT !.left = DemoTtl]
             c == [Idle EXCEPT !.pc = "demoSession", !.user = NewId]
  <2>1. row \in User /\ row.pw = 0
    BY FreshType
  <2>2. c \in Request /\ c.pc # "set"
    <3>1. "demoSession" \in Steps /\ NewId \in AllIds \cup {0}
      BY <1>2 DEF Steps, Provision
    <3> QED
      BY <3>1, LocalType
  <2>3. Become(r, c) /\ InsertUser(row) /\ NewId \in AllIds
    BY <1>2 DEF Provision
  <2> HIDE DEF row, c
  <2>4. Cardinality(Setting') <= Cardinality(Setting) /\ Cardinality(Setting') \in Nat /\ Locals'
    BY <2>2, <2>3, SettingAfter, Moved DEF Typed, Locals
  <2>5. UsersTyped' /\ SessionsTyped' /\ Counted'
    BY <1>2, <2>1, <2>3, <2>4, RowInserted DEF Provision
  <2>6. Others'
    BY <1>0, <1>2 DEF Provision, Others
  <2> QED
    BY <2>4, <2>5, <2>6, Reassembled
<1>3. CASE DemoSession(r)
  <2> DEFINE c == [request[r] EXCEPT !.pc = "grant"]
  <2>1. c \in Request /\ c.pc # "set" /\ Become(r, c)
    <3>1. "grant" \in Steps
      BY DEF Steps
    <3> QED
      BY <1>3, <3>1, GoneOn DEF DemoSession, Typed
  <2> HIDE DEF c
  <2>2. Locals' /\ UsersTyped' /\ Counted'
    BY <1>3, <2>1, LocalStep DEF DemoSession
  <2>3. SessionsTyped' /\ Others'
    BY <1>0, <1>3, SessionsSame DEF DemoSession, Others
  <2> QED
    BY <2>2, <2>3, Reassembled
<1>4. CASE DemoFails(r)
  <2>1. Locals' /\ UsersTyped' /\ Counted'
    BY <1>0, <1>4, LocalStep DEF DemoFails, Done
  <2>2. faults' \in Nat
    BY <1>0, <1>4 DEF DemoFails, Others
  <2>3. SessionsTyped' /\ Others'
    BY <1>0, <1>4, <2>2, SessionsSame DEF DemoFails, Others
  <2> QED
    BY <2>1, <2>3, Reassembled
<1>5. CASE Grant(r)
  <2>0. GrantFor(r, DemoTtl) /\ DemoTtl \in Left
    BY <1>5, Limits DEF Grant, Left
  <2>1. Locals' /\ Cardinality(Setting') <= Cardinality(Setting) /\ Cardinality(Setting') \in Nat
    BY <1>0, <2>0, SettingAfter, Moved DEF GrantFor, Done, Typed, Locals
  <2>2. Others'
    BY <1>0, <2>0 DEF GrantFor, Others
  <2>3. CASE Target(r) \in Ids
    <3> DEFINE row == [users[Target(r)] EXCEPT !.granted = TRUE]
    <3>1. row \in User /\ row.pw = users[Target(r)].pw
      <4>1. users[Target(r)] \in User
        BY <2>3, UsersAreTyped
      <4> QED
        BY <4>1 DEF User
    <3>2. Update(Target(r), row)
      BY <2>0, <2>3 DEF GrantFor
    <3> HIDE DEF row
    <3>3. UsersTyped' /\ SessionsTyped' /\ Counted'
      BY <2>0, <2>1, <2>3, <3>1, <3>2, RowUpdated DEF GrantFor
    <3> QED
      BY <2>1, <2>2, <3>3, Reassembled
  <2>4. CASE Target(r) \notin Ids
    <3>1. Locals' /\ UsersTyped' /\ Counted' /\ SessionsTyped'
      BY <1>0, <2>0, <2>4, LocalStep, SessionsSame DEF GrantFor, Done
    <3> QED
      BY <2>2, <3>1, Reassembled
  <2> QED
    BY <2>3, <2>4
<1> QED
  BY <1>1, <1>2, <1>3, <1>4, <1>5 DEF DemoStep

LEMMA TypedLogout ==
  ASSUME Typed, NEW t \in DOMAIN sessions, Logout(t)
  PROVE  Typed'
<1>1. UsersTyped' /\ Locals' /\ Others' /\ Counted'
  <2>1. Setting' = Setting
    BY SettingSame DEF Logout
  <2> QED
    BY <2>1, PartsOfType DEF Logout, Typed, UsersTyped, Locals, Others, Counted, Ids
<1>2. SessionsTyped'
  BY PartsOfType DEF Logout, Typed, SessionsTyped, Ids
<1> QED
  BY <1>1, <1>2, Reassembled

LEMMA TypedCleanup ==
  ASSUME Typed, Cleanup
  PROVE  Typed'
<1>0. UsersTyped /\ SessionsTyped /\ Locals /\ Others
  BY PartsOfType DEF Typed
<1>1. Setting' = Setting /\ Locals'
  BY <1>0, SettingSame DEF Cleanup, CleanupList, CleanupDelete, CleanupEnds, Locals
<1>2. CASE CleanupList \/ CleanupEnds
  <2>1. Expired \subseteq AllIds
    BY <1>0 DEF Expired, UsersTyped
  <2>2. UsersTyped' /\ SessionsTyped'
    BY <1>0, <1>2 DEF CleanupList, CleanupEnds, UsersTyped, SessionsTyped, Ids
  <2>3. Others'
    BY <1>0, <1>2, <2>1 DEF CleanupList, CleanupEnds, Others
  <2>4. Counted'
    BY <1>1, <1>2 DEF CleanupList, CleanupEnds, Typed, Counted, Ids
  <2> QED
    BY <1>1, <2>2, <2>3, <2>4, Reassembled
<1>3. CASE CleanupDelete
  <2>1. Others'
    BY <1>0, <1>3 DEF CleanupDelete, Others
  <2>2. CASE Remove(Min(doomed))
    <3>1. UsersTyped' /\ SessionsTyped' /\ Counted'
      BY <1>1, <1>3, <2>2, RowsRemoved, SettingFinite DEF CleanupDelete
    <3> QED
      BY <1>1, <2>1, <3>1, Reassembled
  <2>3. CASE UNCHANGED <<users, sessions>>
    <3>1. UsersTyped' /\ SessionsTyped' /\ Counted'
      BY <1>0, <1>1, <1>3, <2>3 DEF CleanupDelete, UsersTyped, SessionsTyped, Typed, Counted, Ids
    <3> QED
      BY <1>1, <2>1, <3>1, Reassembled
  <2> QED
    BY <1>3, <2>2, <2>3 DEF CleanupDelete
<1> QED
  BY <1>2, <1>3 DEF Cleanup

LEMMA Ticked ==
  ASSUME Typed, Tick
  PROVE  /\ Ids' = Ids
         /\ \A u \in Ids : /\ users'[u] = [users[u] EXCEPT !.left = Less(users[u].left)]
                           /\ users'[u].pw = users[u].pw /\ users'[u].admin = users[u].admin
                           /\ users'[u].granted = users[u].granted
                           /\ users'[u].left = Less(users[u].left) /\ users'[u] \in User
         /\ users' \in [Ids -> User]
<1>1. users' = [u \in Ids |-> [users[u] EXCEPT !.left = Less(users[u].left)]]
  BY DEF Tick
<1>2. \A u \in Ids : users[u] \in User /\ Less(users[u].left) \in Left
  BY UsersAreTyped, LessLeft
<1>3. ASSUME NEW u \in Ids
      PROVE  LET row == [users[u] EXCEPT !.left = Less(users[u].left)]
             IN /\ row \in User /\ row.pw = users[u].pw /\ row.admin = users[u].admin
                /\ row.granted = users[u].granted /\ row.left = Less(users[u].left)
  BY <1>2 DEF User
<1>4. DOMAIN users' = Ids
  BY <1>1
<1> QED
  BY <1>1, <1>3, <1>4 DEF Ids

LEMMA TypedTick ==
  ASSUME Typed, Tick
  PROVE  Typed'
<1>0. UsersTyped /\ SessionsTyped /\ Locals /\ Others
  BY PartsOfType DEF Typed
<1>1. Setting' = Setting /\ Locals'
  BY <1>0, SettingSame DEF Tick, Locals
<1>2. UsersTyped' /\ SessionsTyped'
  BY <1>0, Ticked DEF UsersTyped, SessionsTyped, Tick
<1>3. Counted'
  BY <1>1, Ticked DEF Typed, Counted, Tick
<1>4. Others'
  <2>1. limiter' \in [count : Nat, age : 0..(Window - 1)]
    BY <1>0, AgedType DEF Tick, Others
  <2>2. throttle' \in Left
    BY <1>0, LessLeft DEF Tick, Others, Left
  <2> QED
    BY <1>0, <2>1, <2>2 DEF Tick, Others
<1> QED
  BY <1>1, <1>2, <1>3, <1>4, Reassembled

LEMMA TypedStep == Typed /\ [Next]_vars => Typed'
<1> SUFFICES ASSUME Typed, [Next]_vars PROVE Typed'
  OBVIOUS
<1>1. ASSUME NEW r \in Requests, LoginStep(r) PROVE Typed'
  BY <1>1, TypedLogin
<1>2. ASSUME NEW r \in Requests, SignupStep(r) PROVE Typed'
  BY <1>2, TypedSignup
<1>3. ASSUME NEW r \in Requests, DemoStep(r) PROVE Typed'
  BY <1>3, TypedDemo
<1>4. ASSUME NEW r \in Requests, AdminStep(r) PROVE Typed'
  BY <1>4, TypedAdmin
<1>5. ASSUME NEW r \in Requests, NEW t \in DOMAIN sessions, ChangeBegin(r, t) PROVE Typed'
  BY <1>5, TypedChange
<1>6. ASSUME NEW r \in Requests, SetPassword(r) PROVE Typed'
  BY <1>6, TypedSet
<1>7. ASSUME NEW t \in DOMAIN sessions, Logout(t) PROVE Typed'
  BY <1>7, TypedLogout
<1>8. CASE Cleanup
  BY <1>8, TypedCleanup
<1>9. CASE Tick
  BY <1>9, TypedTick
<1>10. CASE UNCHANGED vars
  <2>1. Setting' = Setting
    BY <1>10, SettingSame DEF vars
  <2> QED
    BY <1>10, <2>1 DEF vars, Typed, TypeOK, Counted, Ids
<1> QED
  BY <1>1, <1>2, <1>3, <1>4, <1>5, <1>6, <1>7, <1>8, <1>9, <1>10 DEF Next

LEMMA AlwaysTyped == Spec => []Typed
<1>1. Init => Typed
  BY TypedInit
<1>2. Typed /\ [Next]_vars => Typed'
  BY TypedStep
<1> QED
  BY <1>1, <1>2, PTL DEF Spec

(* The tables and the handlers keep their types; in particular every       *)
(* session is one of a user that exists, although users are deleted         *)
(* between the steps of a login or of a change of password.                 *)
THEOREM TypeCorrect == Spec => []TypeOK
<1>1. Typed => TypeOK
  BY DEF Typed
<1> QED
  BY <1>1, AlwaysTyped, PTL

-----------------------------------------------------------------------------
(* Sessions opened with an old password. *)

Dropped == {Target(r) : r \in {q \in Requests : At(q, "drop")}}

Covered(t) ==
  sessions[t].pw = users[sessions[t].user].pw \/ sessions[t].late \/ sessions[t].user \in Dropped

LEMMA OldPasswordOutIs == OldPasswordOut <=> \A t \in DOMAIN sessions : Covered(t)
  BY DEF OldPasswordOut, Covered, Dropped

LEMMA OldPasswordOutNext ==
  ASSUME \A t \in DOMAIN sessions' : Covered(t)'
  PROVE  OldPasswordOut'
  BY DEF OldPasswordOut, Covered, Dropped, At, Target

(* A handler that is not dropping sessions leaves the others at it. *)
LEMMA StillDropping ==
  ASSUME Typed, NEW r \in Requests, ~At(r, "drop"), NEW c \in Request, Become(r, c)
  PROVE  Dropped \subseteq Dropped'
<1>1. \A q \in Requests : At(q, "drop") => request'[q] = request[q]
  BY Moved DEF Typed
<1> QED
  BY <1>1 DEF Dropped, At, Target

LEMMA NoRequestMoves ==
  ASSUME UNCHANGED request
  PROVE  Dropped' = Dropped
  BY DEF Dropped, At, Target

(* A step that opens no session and changes no password. *)
LEMMA StillCovered ==
  ASSUME OldPasswordOut, Dropped \subseteq Dropped',
         DOMAIN sessions' \subseteq DOMAIN sessions,
         \A t \in DOMAIN sessions' :
           sessions'[t] = sessions[t]
           /\ sessions[t].user \in Ids' /\ users'[sessions[t].user].pw = users[sessions[t].user].pw
  PROVE  OldPasswordOut'
<1>1. \A t \in DOMAIN sessions' : Covered(t)'
  BY OldPasswordOutIs DEF Covered
<1> QED
  BY <1>1, OldPasswordOutNext

LEMMA OldOutOpened ==
  ASSUME Typed, OldPasswordOut, NEW r \in Requests, CreateSession(r)
  PROVE  OldPasswordOut'
<1>1. ~At(r, "drop") /\ Become(r, Idle) /\ Idle \in Request /\ UNCHANGED users /\ Ids' = Ids
  BY IdleType DEF CreateSession, At, Done, Ids
<1>2. Dropped \subseteq Dropped'
  BY <1>1, StillDropping
<1>3. CASE Target(r) \notin Ids
  BY <1>1, <1>2, <1>3, StillCovered, UsersAreTyped DEF CreateSession
<1>4. CASE Target(r) \in Ids
  <2> DEFINE row == [user |-> Target(r), pw |-> request[r].pw,
                     late |-> request[r].pw # users[Target(r)].pw]
  <2>1. PICK token \in Unused :
          /\ DOMAIN sessions' = DOMAIN sessions \cup {token}
          /\ \A t \in DOMAIN sessions' : sessions'[t] = IF t = token THEN row ELSE sessions[t]
    <3>1. Insert(row)
      BY <1>4 DEF CreateSession
    <3> HIDE DEF row
    <3> QED
      BY <3>1, InsertedSession
  <2>2. ASSUME NEW t \in DOMAIN sessions' PROVE Covered(t)'
    <3>1. CASE t = token
      <4>1. /\ row.user = Target(r) /\ row.pw = request[r].pw
            /\ row.pw # users[row.user].pw => row.late
        OBVIOUS
      <4>2. sessions'[t] = row
        BY <2>1, <3>1
      <4> HIDE DEF row
      <4> QED
        BY <1>1, <4>1, <4>2 DEF Covered
    <3>2. CASE t # token
      <4>1. t \in DOMAIN sessions /\ sessions'[t] = sessions[t] /\ Covered(t)
        BY <2>1, <3>2, OldPasswordOutIs
      <4> QED
        BY <1>1, <1>2, <4>1 DEF Covered
    <3> QED
      BY <3>1, <3>2
  <2> QED
    BY <2>2, OldPasswordOutNext
<1> QED
  BY <1>3, <1>4

LEMMA OldOutSet ==
  ASSUME Typed, OldPasswordOut, NEW r \in Requests, SetPassword(r)
  PROVE  OldPasswordOut'
<1> DEFINE u == Target(r)
<1>0. \A t \in DOMAIN sessions : sessions[t].user \in Ids /\ sessions[t] \in Session
  BY UsersAreTyped DEF Typed, TypeOK
<1>1. CASE At(r, "set") /\ NewHash(r) /\ Goto(r, "drop") /\ UNCHANGED sessions
  <2>1. "drop" \in Steps
    BY DEF Steps
  <2> DEFINE c == [request[r] EXCEPT !.pc = "drop"]
  <2>c. c \in Request /\ Become(r, c) /\ c.pc = "drop" /\ c.user = u
    BY <1>1, <2>1, GoneOn DEF Typed
  <2> HIDE DEF c
  <2>2. u \in Dropped'
    <3>1. request'[r].pc = "drop" /\ request'[r].user = u
      BY <2>c, Moved DEF Typed
    <3> QED
      BY <3>1 DEF Dropped, At, Target
  <2>3. Dropped \subseteq Dropped'
    <3>1. ~At(r, "drop")
      BY <1>1 DEF At
    <3> QED
      BY <2>c, <3>1, StillDropping
  <2>4. \A v \in Ids : v # u => users'[v] = users[v]
    BY <1>1, UpdatedRows DEF NewHash
  <2>5. \A t \in DOMAIN sessions' : Covered(t)'
    <3> TAKE t \in DOMAIN sessions'
    <3>1. sessions' = sessions /\ sessions[t].user \in Ids /\ Covered(t)
      BY <1>0, <1>1, OldPasswordOutIs
    <3>2. CASE sessions[t].user = u
      BY <2>2, <3>1, <3>2 DEF Covered
    <3>3. CASE sessions[t].user # u
      BY <2>3, <2>4, <3>1, <3>3 DEF Covered
    <3> QED
      BY <3>2, <3>3
  <2> QED
    BY <2>5, OldPasswordOutNext
<1>2. CASE /\ At(r, "drop") /\ LogOut(u, request[r].keep) /\ Done(r) /\ UNCHANGED users
  <2>1. Dropped \ {u} \subseteq Dropped'
    <3>1. \A q \in Requests : q # r => request'[q] = request[q]
      BY <1>2, Moved, IdleType DEF Typed, Done
    <3> QED
      BY <3>1 DEF Dropped, At, Target
  <2> DEFINE keep == request[r].keep
             kept == {t \in DOMAIN sessions : sessions[t].user # u \/ t = keep}
             row(t) == IF t = keep /\ sessions[t].user = u /\ u \in Ids
                       THEN [sessions[t] EXCEPT !.pw = users[u].pw] ELSE sessions[t]
  <2>2. sessions' = [t \in kept |-> row(t)]
    BY <1>2 DEF LogOut
  <2>3. ASSUME NEW t \in kept PROVE Covered(t)'
    <3>1. sessions'[t] = row(t) /\ t \in DOMAIN sessions
      BY <2>2
    <3>2. CASE sessions[t].user = u
      <4>1. u \in Ids /\ row(t) = [sessions[t] EXCEPT !.pw = users[u].pw] /\ sessions[t] \in Session
        BY <1>0, <3>1, <3>2
      <4>2. row(t).user = u /\ row(t).pw = users[u].pw
        BY <3>2, <4>1 DEF Session
      <4> HIDE DEF row
      <4> QED
        BY <1>2, <3>1, <4>2 DEF Covered
    <3>3. CASE sessions[t].user # u
      <4>1. sessions'[t] = sessions[t] /\ Covered(t)
        BY <3>1, <3>3, OldPasswordOutIs
      <4> QED
        BY <1>2, <2>1, <3>3, <4>1 DEF Covered
    <3> QED
      BY <3>2, <3>3
  <2> HIDE DEF kept, row
  <2>4. DOMAIN sessions' = kept
    BY <2>2
  <2> QED
    BY <2>3, <2>4, OldPasswordOutNext
<1> QED
  BY <1>1, <1>2 DEF SetPassword

(* Nobody has a session of an id that was never used or is gone. *)
LEMMA OldOutInserted ==
  ASSUME Typed, OldPasswordOut, NEW row, InsertUser(row), UNCHANGED sessions,
         Dropped \subseteq Dropped'
  PROVE  OldPasswordOut'
<1>1. NewId \notin Ids
  BY NewIdIsNew DEF Typed, TypeOK
<1>2. \A t \in DOMAIN sessions : sessions[t].user \in Ids
  BY UsersAreTyped
<1>3. \A u \in Ids : u \in Ids' /\ users'[u] = users[u]
  BY <1>1, InsertedRows
<1> QED
  BY <1>2, <1>3, StillCovered

LEMMA OldOutRemoved ==
  ASSUME Typed, OldPasswordOut, NEW u, Remove(u), Dropped \subseteq Dropped'
  PROVE  OldPasswordOut'
<1>1. \A t \in DOMAIN sessions : sessions[t].user \in Ids
  BY UsersAreTyped
<1>2. \A t \in DOMAIN sessions' :
        t \in DOMAIN sessions /\ sessions'[t] = sessions[t] /\ sessions[t].user \in Ids \ {u}
  BY <1>1, RemovedRows
<1>3. \A i \in Ids \ {u} : i \in Ids' /\ users'[i] = users[i]
  BY RemovedRows
<1> QED
  BY <1>2, <1>3, StillCovered

LEMMA OldOutUpdated ==
  ASSUME Typed, OldPasswordOut, UNCHANGED sessions, Dropped \subseteq Dropped',
         Ids' = Ids, \A u \in Ids : users'[u].pw = users[u].pw
  PROVE  OldPasswordOut'
<1>1. \A t \in DOMAIN sessions : sessions[t].user \in Ids
  BY UsersAreTyped
<1> QED
  BY <1>1, StillCovered

(* Where each handler stands when it takes a step. *)
LEMMA StepsOf ==
  ASSUME NEW r \in Requests
  PROVE  /\ LoginBegin(r) \/ SignupBegin(r) \/ DemoBegin(r) => At(r, "idle")
         /\ \A a, u : ResetBegin(r, a, u) \/ DeleteBegin(r, a, u) => At(r, "idle")
         /\ \A a, u, on : SetAdminBegin(r, a, u, on) => At(r, "idle")
         /\ \A t : ChangeBegin(r, t) => At(r, "idle")
         /\ WrongPassword(r) \/ RightPassword(r) => At(r, "password")
         /\ CreateSession(r) => At(r, "session")
         /\ CreateFirstAdmin(r) => At(r, "signup")
         /\ SetAdmin(r) => At(r, "setAdmin")
         /\ Delete(r) => At(r, "delete")
         /\ Provision(r) => At(r, "provision")
         /\ DemoSession(r) => At(r, "demoSession")
         /\ DemoFails(r) => At(r, "provision") \/ At(r, "demoSession")
         /\ Grant(r) => At(r, "grant")
  BY DEF LoginBegin, SignupBegin, DemoBegin, ResetBegin, DeleteBegin, SetAdminBegin, ChangeBegin,
         Begin, WrongPassword, RightPassword, CreateSession, CreateFirstAdmin, SignUp, SetAdmin,
         Delete, Provision, DemoSession, DemoFails, Grant, GrantFor

(* Whatever a handler becomes, it becomes something of its type. *)
LEMMA Becomes ==
  ASSUME Typed, Typed', NEW r \in Requests, NEW c, Become(r, c)
  PROVE  /\ c \in Request
         /\ request'[r] = c /\ \A q \in Requests : q # r => request'[q] = request[q]
<1>1. request' = [request EXCEPT ![r] = c] /\ DOMAIN request = Requests
  BY DEF Become, Typed, TypeOK
<1>2. request'[r] = c /\ \A q \in Requests : q # r => request'[q] = request[q]
  BY <1>1
<1>3. request'[r] \in Request
  BY DEF Typed, TypeOK
<1> QED
  BY <1>2, <1>3

(* A step of r moves no other handler. *)
LEMMA OneMoves ==
  ASSUME Typed, Typed', NEW r \in Requests,
         \/ LoginStep(r) \/ SignupStep(r) \/ DemoStep(r) \/ SetPassword(r)
         \/ AdminStep(r) \/ \E t \in DOMAIN sessions : ChangeBegin(r, t)
  PROVE  \A q \in Requests : q # r => request'[q] = request[q]
<1>1. (\E c : Become(r, c)) => \A q \in Requests : q # r => request'[q] = request[q]
  BY Becomes
<1>2. LoginStep(r) => \E c : Become(r, c)
  BY DEF LoginStep, LoginBegin, WrongPassword, RightPassword, CreateSession, Begin, Done
<1>3. SignupStep(r) => \E c : Become(r, c)
  BY DEF SignupStep, SignupBegin, CreateFirstAdmin, SignUp, Begin
<1>4. DemoStep(r) => \E c : Become(r, c)
  BY DEF DemoStep, DemoBegin, Provision, DemoSession, DemoFails, Grant, GrantFor, Begin, Done, Goto
<1>5. SetPassword(r) => \E c : Become(r, c)
  BY DEF SetPassword, Done, Goto
<1>6. AdminStep(r) => (\E c : Become(r, c)) \/ UNCHANGED request
  BY DEF AdminStep, ResetBegin, SetAdminBegin, DeleteBegin, SetSignup, SetAdmin, Delete, Begin, Done
<1>7. (\E t \in DOMAIN sessions : ChangeBegin(r, t)) => \E c : Become(r, c)
  BY DEF ChangeBegin, Begin
<1> QED
  BY <1>1, <1>2, <1>3, <1>4, <1>5, <1>6, <1>7

LEMMA OthersDrop ==
  ASSUME NEW r \in Requests, ~At(r, "drop"),
         \A q \in Requests : q # r => request'[q] = request[q]
  PROVE  Dropped \subseteq Dropped'
<1>1. \A q \in Requests : At(q, "drop") => request'[q] = request[q]
  OBVIOUS
<1> QED
  BY <1>1 DEF Dropped, At, Target

LEMMA SameUsers == UNCHANGED users => Ids' = Ids
  BY DEF Ids

LEMMA OldOutByHandler ==
  ASSUME Typed, Typed', OldPasswordOut, NEW r \in Requests,
         \/ LoginStep(r) \/ SignupStep(r) \/ DemoStep(r)
         \/ AdminStep(r) \/ \E t \in DOMAIN sessions : ChangeBegin(r, t)
  PROVE  OldPasswordOut'
<1>1. ~At(r, "drop")
  BY StepsOf DEF LoginStep, SignupStep, DemoStep, AdminStep, At, SetSignup
<1>2. Dropped \subseteq Dropped'
  BY <1>1, OneMoves, OthersDrop
<1>3. CASE UNCHANGED <<users, sessions>>
  BY <1>2, <1>3, SameUsers, OldOutUpdated
<1>4. CASE CreateSession(r)
  BY <1>4, OldOutOpened
<1>5. CASE CreateFirstAdmin(r)
  BY <1>2, <1>5, OldOutInserted DEF CreateFirstAdmin, SignUp
<1>6. CASE Provision(r)
  BY <1>2, <1>6, OldOutInserted DEF Provision
<1>7. CASE SetAdmin(r)
  <2>1. UNCHANGED sessions /\ (Target(r) \notin Ids => UNCHANGED users)
    BY <1>7 DEF SetAdmin
  <2>2. CASE Target(r) \in Ids
    <3> DEFINE row == [users[Target(r)] EXCEPT !.admin = request[r].flag]
    <3>1. Update(Target(r), row)
      BY <1>7, <2>2 DEF SetAdmin
    <3>2. row.pw = users[Target(r)].pw
      BY <2>2, UsersAreTyped DEF User
    <3> HIDE DEF row
    <3> QED
      BY <1>2, <2>1, <3>1, <3>2, UpdatedRows, OldOutUpdated
  <2> QED
    BY <1>3, <2>1, <2>2
<1>8. CASE Delete(r)
  BY <1>2, <1>8, OldOutRemoved DEF Delete
<1>9. CASE Grant(r)
  <2>1. UNCHANGED sessions /\ (Target(r) \notin Ids => UNCHANGED users)
    BY <1>9 DEF Grant, GrantFor
  <2>2. CASE Target(r) \in Ids
    <3> DEFINE row == [users[Target(r)] EXCEPT !.granted = TRUE]
    <3>1. Update(Target(r), row)
      BY <1>9, <2>2 DEF Grant, GrantFor
    <3>2. row.pw = users[Target(r)].pw
      BY <2>2, UsersAreTyped DEF User
    <3> HIDE DEF row
    <3> QED
      BY <1>2, <2>1, <3>1, <3>2, UpdatedRows, OldOutUpdated
  <2> QED
    BY <1>3, <2>1, <2>2
<1> QED
  <2>1. LoginStep(r) => CreateSession(r) \/ UNCHANGED <<users, sessions>>
    BY DEF LoginStep, LoginBegin, WrongPassword, RightPassword
  <2>2. SignupStep(r) => CreateFirstAdmin(r) \/ UNCHANGED <<users, sessions>>
    BY DEF SignupStep, SignupBegin
  <2>3. DemoStep(r) => Provision(r) \/ Grant(r) \/ UNCHANGED <<users, sessions>>
    BY DEF DemoStep, DemoBegin, DemoSession, DemoFails
  <2>4. AdminStep(r) => SetAdmin(r) \/ Delete(r) \/ UNCHANGED <<users, sessions>>
    BY DEF AdminStep, ResetBegin, SetAdminBegin, DeleteBegin, SetSignup
  <2>5. (\E t \in DOMAIN sessions : ChangeBegin(r, t)) => UNCHANGED <<users, sessions>>
    BY DEF ChangeBegin
  <2> QED
    BY <1>3, <1>4, <1>5, <1>6, <1>7, <1>8, <1>9, <2>1, <2>2, <2>3, <2>4, <2>5

LEMMA OldOutStep ==
  ASSUME Typed, Typed', OldPasswordOut, [Next]_vars
  PROVE  OldPasswordOut'
<1>1. ASSUME NEW r \in Requests, SetPassword(r) PROVE OldPasswordOut'
  BY <1>1, OldOutSet
<1>2. ASSUME NEW t \in DOMAIN sessions, Logout(t) PROVE OldPasswordOut'
  <2>1. UNCHANGED <<users, request>> /\ Ids' = Ids /\ Dropped' = Dropped
    BY <1>2, SameUsers, NoRequestMoves DEF Logout
  <2>2. \A x \in DOMAIN sessions : sessions[x].user \in Ids
    BY UsersAreTyped
  <2>3. \A x \in DOMAIN sessions' : x \in DOMAIN sessions /\ sessions'[x] = sessions[x]
    BY <1>2 DEF Logout
  <2>4. \A x \in DOMAIN sessions' :
          /\ sessions'[x] = sessions[x] /\ sessions[x].user \in Ids'
          /\ users'[sessions[x].user].pw = users[sessions[x].user].pw
    BY <2>1, <2>2, <2>3
  <2> QED
    BY <2>1, <2>3, <2>4, StillCovered
<1>3. CASE Cleanup
  <2>1. Dropped' = Dropped
    BY <1>3, NoRequestMoves DEF Cleanup, CleanupList, CleanupDelete, CleanupEnds
  <2>2. CASE UNCHANGED <<users, sessions>>
    BY <2>1, <2>2, SameUsers, OldOutUpdated
  <2>3. CASE Remove(Min(doomed))
    BY <2>1, <2>3, OldOutRemoved
  <2> QED
    BY <1>3, <2>2, <2>3 DEF Cleanup, CleanupList, CleanupDelete, CleanupEnds
<1>4. CASE Tick
  <2>1. Dropped' = Dropped /\ UNCHANGED sessions
    BY <1>4, NoRequestMoves DEF Tick
  <2> QED
    BY <1>4, <2>1, Ticked, OldOutUpdated
<1>5. CASE UNCHANGED vars
  BY <1>5, NoRequestMoves, SameUsers, OldOutUpdated DEF vars
<1> QED
  BY <1>1, <1>2, <1>3, <1>4, <1>5, OldOutByHandler DEF Next

(* A session opened with a password that has been replaced is one that a    *)
(* change of that password is about to drop, or one whose login had checked *)
(* the password before the change and got its row after it: SetPassword     *)
(* followed by DeleteOtherSessions or DeleteUserSessions in                 *)
(* settingsPassword and adminUserPassword, against login.                   *)
THEOREM OldPasswordsEnd == Spec => []OldPasswordOut
<1>1. Init => OldPasswordOut
  BY DEF Init, OldPasswordOut
<1>2. Typed /\ Typed' /\ OldPasswordOut /\ [Next]_vars => OldPasswordOut'
  BY OldOutStep
<1> QED
  BY <1>1, <1>2, AlwaysTyped, PTL DEF Spec

-----------------------------------------------------------------------------
(* Where a step takes its handler. *)

LEMMA Became ==
  ASSUME Typed, NEW r \in Requests, NEW c, Become(r, c)
  PROVE  request'[r] = c
  BY DEF Become, Typed, TypeOK

LEMMA BeginsAt ==
  ASSUME Typed, NEW r \in Requests
  PROVE  /\ LoginBegin(r) => At(r, "password")'
         /\ SignupBegin(r) => At(r, "signup")'
         /\ DemoBegin(r) => At(r, "provision")'
         /\ \A a, u : ResetBegin(r, a, u) => At(r, "set")' /\ Target(r)' = u
         /\ \A a, u : DeleteBegin(r, a, u) => At(r, "delete")' /\ Target(r)' = u
         /\ \A a, u, on : SetAdminBegin(r, a, u, on) =>
              At(r, "setAdmin")' /\ Target(r)' = u /\ request'[r].flag = on
         /\ \A t : ChangeBegin(r, t) => At(r, "set")' /\ Target(r)' = sessions[t].user
<1>1. LoginBegin(r) => At(r, "password")'
  BY Became DEF LoginBegin, Begin, Idle, At
<1>2. SignupBegin(r) => At(r, "signup")'
  BY Became DEF SignupBegin, Begin, Idle, At
<1>3. DemoBegin(r) => At(r, "provision")'
  BY Became DEF DemoBegin, Begin, Idle, At
<1>4. ASSUME NEW a, NEW u, ResetBegin(r, a, u) PROVE At(r, "set")' /\ Target(r)' = u
  BY <1>4, Became DEF ResetBegin, Begin, Idle, At, Target
<1>5. ASSUME NEW a, NEW u, DeleteBegin(r, a, u) PROVE At(r, "delete")' /\ Target(r)' = u
  BY <1>5, Became DEF DeleteBegin, Begin, Idle, At, Target
<1>6. ASSUME NEW a, NEW u, NEW on, SetAdminBegin(r, a, u, on)
      PROVE  At(r, "setAdmin")' /\ Target(r)' = u /\ request'[r].flag = on
  BY <1>6, Became DEF SetAdminBegin, Begin, Idle, At, Target
<1>7. ASSUME NEW t, ChangeBegin(r, t) PROVE At(r, "set")' /\ Target(r)' = sessions[t].user
  BY <1>7, Became DEF ChangeBegin, Begin, Idle, At, Target
<1> QED
  BY <1>1, <1>2, <1>3, <1>4, <1>5, <1>6, <1>7

LEMMA GoesTo ==
  ASSUME Typed, NEW r \in Requests
  PROVE  /\ WrongPassword(r) \/ CreateSession(r) \/ SetAdmin(r) \/ Delete(r)
              \/ DemoFails(r) \/ Grant(r) => At(r, "idle")'
         /\ RightPassword(r) \/ CreateFirstAdmin(r) => At(r, "session")'
         /\ Provision(r) => At(r, "demoSession")' /\ Target(r)' = NewId
         /\ DemoSession(r) => At(r, "grant")' /\ Target(r)' = Target(r)
         /\ SetPassword(r) => \/ At(r, "set") /\ At(r, "drop")'
                              \/ At(r, "drop") /\ At(r, "idle")'
<1>0. Done(r) => At(r, "idle")'
  BY Became DEF Done, Idle, At
<1>1. WrongPassword(r) \/ CreateSession(r) \/ SetAdmin(r) \/ Delete(r)
              \/ DemoFails(r) \/ Grant(r) => At(r, "idle")'
  BY <1>0 DEF WrongPassword, CreateSession, SetAdmin, Delete, DemoFails, Grant, GrantFor
<1>2. RightPassword(r) => At(r, "session")'
  BY Became DEF RightPassword, Idle, At
<1>3. CreateFirstAdmin(r) => At(r, "session")'
  BY Became DEF CreateFirstAdmin, SignUp, Idle, At
<1>4. Provision(r) => At(r, "demoSession")' /\ Target(r)' = NewId
  BY Became DEF Provision, Idle, At, Target
<1>5. ASSUME NEW step \in Steps, Goto(r, step) PROVE At(r, step)' /\ Target(r)' = Target(r)
  <2>1. request[r] \in Request /\ request'[r] = [request[r] EXCEPT !.pc = step]
    BY <1>5, Became, UsersAreTyped DEF Goto
  <2> QED
    BY <2>1 DEF Request, At, Target
<1>6. "grant" \in Steps /\ "drop" \in Steps
  BY DEF Steps
<1> QED
  BY <1>0, <1>1, <1>2, <1>3, <1>4, <1>5, <1>6 DEF DemoSession, SetPassword

-----------------------------------------------------------------------------
(* Failed logins. *)

Checking == {r \in Requests : At(r, "password")}

LEMMA CheckingFinite ==
  /\ IsFiniteSet(Checking) /\ Cardinality(Checking) \in Nat /\ Cardinality(Requests) \in Nat
  /\ Cardinality(Checking) <= Cardinality(Requests)
  BY FS_Subset, FS_CardinalityType DEF Checking

(* Failures counted, and those that may still come. *)
Guesses ==
  limiter.count + Cardinality(Checking) <= MaxFailures + Cardinality(Requests) - 1

LEMMA CheckingOf ==
  ASSUME NEW r \in Requests, \A q \in Requests : q # r => request'[q] = request[q]
  PROVE  /\ ~At(r, "password") /\ ~At(r, "password")' => Checking' = Checking
         /\ At(r, "password") /\ ~At(r, "password")' => r \in Checking /\ Checking' = Checking \ {r}
  BY DEF Checking, At

LEMMA GuessesByLogin ==
  ASSUME Typed, Typed', Guesses, NEW r \in Requests, LoginStep(r)
  PROVE  Guesses'
<1>0. \A q \in Requests : q # r => request'[q] = request[q]
  BY OneMoves
<1>1. /\ limiter.count \in Nat /\ MaxFailures \in Nat \ {0}
      /\ Cardinality(Checking) \in Nat /\ Cardinality(Requests) \in Nat
      /\ Cardinality(Checking) <= Cardinality(Requests)
  BY UsersAreTyped, CheckingFinite, Limits
<1>2. Cardinality(Checking') \in Nat /\ Cardinality(Checking') <= Cardinality(Requests)
  <2>1. Checking' \subseteq Requests
    BY DEF Checking
  <2> QED
    BY <2>1, FS_Subset, FS_CardinalityType
<1>3. CASE LoginBegin(r)
  <2>1. limiter' = limiter /\ limiter.count < MaxFailures
    BY <1>1, <1>3 DEF LoginBegin, Blocked
  <2> QED
    BY <1>1, <1>2, <2>1 DEF Guesses
<1>4. CASE WrongPassword(r)
  <2>1. limiter'.count = limiter.count + 1
    BY <1>4 DEF WrongPassword, Typed, TypeOK
  <2>2. r \in Checking /\ Checking' = Checking \ {r}
    <3>1. At(r, "password") /\ ~At(r, "password")'
      BY <1>4, StepsOf, GoesTo DEF At
    <3> QED
      BY <1>0, <3>1, CheckingOf
  <2>3. Cardinality(Checking') = Cardinality(Checking) - 1
    BY <2>2, CheckingFinite, FS_RemoveElement
  <2> QED
    BY <1>1, <2>1, <2>3 DEF Guesses
<1>5. CASE RightPassword(r)
  <2>1. limiter'.count = 0
    BY <1>5 DEF RightPassword
  <2>2. r \in Checking /\ Checking' = Checking \ {r}
    <3>1. At(r, "password") /\ ~At(r, "password")'
      BY <1>5, StepsOf, GoesTo DEF At
    <3> QED
      BY <1>0, <3>1, CheckingOf
  <2>3. Cardinality(Checking') = Cardinality(Checking) - 1
    BY <2>2, CheckingFinite, FS_RemoveElement
  <2> QED
    BY <1>1, <2>1, <2>3 DEF Guesses
<1>6. CASE CreateSession(r)
  <2>1. ~At(r, "password") /\ ~At(r, "password")'
    BY <1>6, StepsOf, GoesTo DEF At
  <2>2. Checking' = Checking /\ limiter' = limiter
    BY <1>0, <1>6, <2>1, CheckingOf DEF CreateSession
  <2> QED
    BY <2>2 DEF Guesses
<1> QED
  BY <1>3, <1>4, <1>5, <1>6 DEF LoginStep

LEMMA GuessesByOthers ==
  ASSUME Typed, Typed', Guesses, NEW r \in Requests,
         \/ SignupStep(r) \/ DemoStep(r) \/ SetPassword(r)
         \/ AdminStep(r) \/ \E t \in DOMAIN sessions : ChangeBegin(r, t)
  PROVE  Guesses'
<1>1. \A q \in Requests : q # r => request'[q] = request[q]
  BY OneMoves
<1>2. limiter' = limiter
  BY DEF SignupStep, SignupBegin, CreateFirstAdmin, SignUp, DemoStep, DemoBegin, Provision,
         DemoSession, DemoFails, Grant, GrantFor, SetPassword, AdminStep, ResetBegin,
         SetAdminBegin, DeleteBegin, SetSignup, SetAdmin, Delete, ChangeBegin
<1>3. CASE UNCHANGED request
  <2>1. Checking' = Checking
    BY <1>3 DEF Checking, At
  <2> QED
    BY <1>2, <2>1 DEF Guesses
<1>4. CASE ~UNCHANGED request
  <2>1. ~At(r, "password") /\ ~At(r, "password")'
    <3>1. SignupStep(r) => ~At(r, "password") /\ ~At(r, "password")'
      BY StepsOf, BeginsAt, GoesTo DEF At, SignupStep
    <3>2. DemoStep(r) => ~At(r, "password") /\ ~At(r, "password")'
      BY StepsOf, BeginsAt, GoesTo DEF At, DemoStep
    <3>3. SetPassword(r) => ~At(r, "password") /\ ~At(r, "password")'
      BY GoesTo DEF At
    <3>4. AdminStep(r) => ~At(r, "password") /\ ~At(r, "password")'
      BY <1>4, StepsOf, BeginsAt, GoesTo DEF At, AdminStep, SetSignup
    <3>5. (\E t \in DOMAIN sessions : ChangeBegin(r, t)) =>
             ~At(r, "password") /\ ~At(r, "password")'
      BY StepsOf, BeginsAt DEF At
    <3> QED
      BY <3>1, <3>2, <3>3, <3>4, <3>5
  <2>2. Checking' = Checking
    BY <1>1, <2>1, CheckingOf
  <2> QED
    BY <1>2, <2>2 DEF Guesses
<1> QED
  BY <1>3, <1>4

LEMMA GuessesStep ==
  ASSUME Typed, Typed', Guesses, [Next]_vars
  PROVE  Guesses'
<1>1. UNCHANGED request => Checking' = Checking
  BY DEF Checking, At
<1>2. ASSUME NEW t \in DOMAIN sessions, Logout(t) PROVE Guesses'
  BY <1>1, <1>2 DEF Logout, Guesses
<1>3. CASE Cleanup
  BY <1>1, <1>3 DEF Cleanup, CleanupList, CleanupDelete, CleanupEnds, Guesses
<1>4. CASE Tick
  <2>1. limiter'.count \in Nat /\ limiter'.count <= limiter.count /\ limiter.count \in Nat
    <3>1. limiter \in [count : Nat, age : 0..(Window - 1)]
      BY DEF Typed, TypeOK
    <3> QED
      BY <1>4, <3>1 DEF Tick, Aged
  <2>2. Checking' = Checking
    BY <1>1, <1>4 DEF Tick
  <2> QED
    BY <2>1, <2>2, CheckingFinite, Limits DEF Guesses
<1>5. CASE UNCHANGED vars
  BY <1>1, <1>5 DEF vars, Guesses
<1> QED
  BY <1>2, <1>3, <1>4, <1>5, GuessesByLogin, GuessesByOthers DEF Next

(* loginLimiter: an address fails at most maxFailures times in a window,    *)
(* plus the requests that passed the check before the last failure of the   *)
(* window was counted, however many are in flight.                          *)
THEOREM FailuresStayBounded == Spec => []FailuresBounded
<1>1. Init => Guesses
  <2> SUFFICES ASSUME Init PROVE Guesses
    OBVIOUS
  <2>1. Checking = {} /\ limiter.count = 0
    BY DEF Init, Checking, At, Idle
  <2>2. Cardinality(Checking) = 0 /\ Cardinality(Requests) \in Nat
    BY <2>1, FS_EmptySet, CheckingFinite
  <2> QED
    BY <2>1, <2>2, Limits DEF Guesses
<1>2. Typed /\ Typed' /\ Guesses /\ [Next]_vars => Guesses'
  BY GuessesStep
<1>3. Typed /\ Guesses => FailuresBounded
  BY UsersAreTyped, CheckingFinite, Limits DEF Guesses, FailuresBounded
<1> QED
  BY <1>1, <1>2, <1>3, AlwaysTyped, PTL DEF Spec

-----------------------------------------------------------------------------
(* The two modes.  In demo mode the seed account, whose id is 1, is the     *)
(* only persistent one and the only admin, nobody signs up and no handler   *)
(* deletes an account, so what a cleanup pass lists stays expired.          *)

Seed ==
  /\ 1 \in Ids /\ users[1].left = NULL /\ users[1].admin = TRUE /\ users[1].granted = FALSE
  /\ \A u \in Ids \ {1} : users[u].left # NULL /\ users[u].admin = FALSE

Role(r) ==
  /\ ~At(r, "signup") /\ ~At(r, "delete")
  /\ At(r, "setAdmin") => Target(r) = 1 /\ request[r].flag = TRUE
  /\ At(r, "demoSession") \/ At(r, "grant") => Target(r) # 1

Roles == \A r \in Requests : Role(r)

InDemo == Seed /\ Roles /\ doomed \subseteq Expired /\ founders = 1

OpensDemo(r) == At(r, "provision") \/ At(r, "demoSession") \/ At(r, "grant")

NoDemo ==
  /\ cleanup = "wait" /\ \A r \in Requests : ~OpensDemo(r)
  /\ \A u \in Ids : users[u].left = NULL /\ users[u].granted = FALSE

Mode == (demo => InDemo) /\ (~demo => NoDemo)

LEMMA ModeInit == Init => Mode
<1> SUFFICES ASSUME Init PROVE Mode
  OBVIOUS
<1>0. \A r \in Requests : At(r, "idle") /\ Role(r) /\ ~OpensDemo(r)
  BY DEF Init, Idle, At, Role, OpensDemo
<1>1. ASSUME demo PROVE InDemo
  <2>1. users = [u \in {1} |-> [Fresh EXCEPT !.admin = TRUE]] /\ Ids = {1}
    BY <1>1 DEF Init, Ids
  <2>2. users[1] = [Fresh EXCEPT !.admin = TRUE]
    BY <2>1
  <2>3. Seed
    BY <2>1, <2>2 DEF Seed, Fresh
  <2> QED
    BY <1>0, <1>1, <2>3 DEF InDemo, Roles, Init
<1>2. ASSUME ~demo PROVE NoDemo
  BY <1>0, <1>2 DEF NoDemo, Init, Ids
<1> QED
  BY <1>1, <1>2 DEF Mode

LEMMA SeedAlone ==
  ASSUME Typed, Seed
  PROVE  Persistent = {1} /\ Admins = {1} /\ LastAdmin(1)
<1>1. Persistent = {1} /\ Admins = {1}
  BY DEF Seed, Persistent, Admins
<1>2. Cardinality(Admins) = 1
  BY <1>1, FS_Singleton
<1> QED
  BY <1>1, <1>2 DEF LastAdmin, Seed

(* The handler that moved is the only one whose role can have changed. *)
LEMMA RolesKept ==
  ASSUME Roles, NEW r \in Requests, \A q \in Requests : q # r => request'[q] = request[q],
         Role(r)'
  PROVE  Roles'
<1>1. ASSUME NEW q \in Requests PROVE Role(q)'
  BY <1>1 DEF Roles, Role, At, Target
<1> QED
  BY <1>1 DEF Roles

LEMMA RoleOfStep ==
  ASSUME Typed, Typed', demo, InDemo, NEW r \in Requests,
         \/ LoginStep(r) \/ SignupStep(r) \/ DemoStep(r) \/ SetPassword(r)
         \/ AdminStep(r) \/ \E t \in DOMAIN sessions : ChangeBegin(r, t)
  PROVE  Role(r)' /\ ~SignupStep(r) /\ ~Delete(r)
<1>0. Role(r) /\ Seed /\ Persistent = {1} /\ Admins = {1} /\ LastAdmin(1)
  BY SeedAlone DEF InDemo, Roles
<1>1. ~SignupStep(r) /\ ~Delete(r)
  BY <1>0, StepsOf DEF Role, SignupStep, SignupBegin, AllowSignup
<1>2. LoginStep(r) => Role(r)'
  BY BeginsAt, GoesTo DEF LoginStep, Role, At
<1>3. DemoStep(r) => Role(r)'
  <2>1. NewId # 1
    BY <1>0, NewIdIsNew DEF Seed, Typed, TypeOK
  <2>2. DemoBegin(r) \/ DemoFails(r) \/ Grant(r) => Role(r)'
    BY BeginsAt, GoesTo DEF Role, At
  <2>3. Provision(r) => Role(r)'
    BY <2>1, GoesTo DEF Role, At
  <2>4. DemoSession(r) => Role(r)'
    BY <1>0, StepsOf, GoesTo DEF Role, At
  <2> QED
    BY <2>2, <2>3, <2>4 DEF DemoStep
<1>4. SetPassword(r) => Role(r)'
  BY GoesTo DEF Role, At
<1>5. (\E t \in DOMAIN sessions : ChangeBegin(r, t)) => Role(r)'
  BY BeginsAt DEF Role, At
<1>6. ASSUME AdminStep(r) PROVE Role(r)'
  <2>1. ASSUME NEW actor, NEW u, ResetBegin(r, actor, u) PROVE Role(r)'
    BY <2>1, BeginsAt DEF Role, At
  <2>2. ASSUME NEW actor, NEW u, NEW on \in BOOLEAN, SetAdminBegin(r, actor, u, on)
        PROVE Role(r)'
    <3>1. u = 1 /\ on = TRUE
      BY <1>0, <2>2 DEF SetAdminBegin
    <3> QED
      BY <2>2, <3>1, BeginsAt DEF Role, At, Target
  <2>3. ASSUME NEW actor, NEW u, DeleteBegin(r, actor, u) PROVE FALSE
    BY <1>0, <2>3 DEF DeleteBegin, AdminActs
  <2>4. ASSUME NEW actor, SetSignup(r, actor) PROVE Role(r)'
    BY <1>0, <2>4 DEF SetSignup, Role, At, Target
  <2>5. SetAdmin(r) => Role(r)'
    BY GoesTo DEF Role, At
  <2> QED
    BY <1>1, <1>6, <2>1, <2>2, <2>3, <2>4, <2>5 DEF AdminStep
<1> QED
  BY <1>1, <1>2, <1>3, <1>4, <1>5, <1>6

(* A row that stays is of the same mode, and expired if it was. *)
SameRow(u) ==
  /\ users'[u].left = NULL <=> users[u].left = NULL
  /\ users[u].left = 0 => users'[u].left = 0
  /\ users'[u].admin = users[u].admin
  /\ u = 1 => users'[u].granted = users[u].granted

LEMMA SeedKept ==
  ASSUME Typed, Seed, doomed \subseteq Expired, 1 \in Ids',
         \A u \in Ids \cap Ids' : SameRow(u),
         \A u \in Ids' \ Ids : users'[u].left # NULL /\ users'[u].admin = FALSE,
         doomed' \subseteq doomed \cap Ids'
  PROVE  Seed' /\ doomed' \subseteq Expired'
<1>1. 1 \in Ids /\ SameRow(1)
  BY DEF Seed
<1>2. Seed'
  BY <1>1 DEF Seed, SameRow
<1>3. doomed' \subseteq Expired'
  BY DEF Expired, SameRow
<1> QED
  BY <1>2, <1>3

LEMMA LessKeeps ==
  ASSUME NEW left \in Left
  PROVE  /\ Less(left) = NULL <=> left = NULL
         /\ left = 0 => Less(left) = 0
  BY Limits DEF Left, Less

LEMMA DemoByHandler ==
  ASSUME Typed, Typed', demo, InDemo, NEW r \in Requests,
         \/ LoginStep(r) \/ SignupStep(r) \/ DemoStep(r) \/ SetPassword(r)
         \/ AdminStep(r) \/ \E t \in DOMAIN sessions : ChangeBegin(r, t)
  PROVE  InDemo'
<1>0. /\ Roles /\ Role(r) /\ Seed /\ doomed \subseteq Expired /\ doomed \subseteq Ids
      /\ ~SignupStep(r) /\ ~Delete(r)
  BY RoleOfStep DEF InDemo, Roles, Expired
<1>1. Roles'
  BY <1>0, OneMoves, RoleOfStep, RolesKept
<1>2. UNCHANGED <<doomed, founders>>
  BY <1>0 DEF LoginStep, LoginBegin, WrongPassword, RightPassword, CreateSession,
         DemoStep, DemoBegin, Provision,
         DemoSession, DemoFails, Grant, GrantFor, SetPassword, AdminStep, ResetBegin,
         SetAdminBegin, DeleteBegin, SetSignup, SetAdmin, ChangeBegin
<1>3. Seed' /\ doomed' \subseteq Expired'
  <2>1. CASE UNCHANGED users
    BY <1>0, <1>2, <2>1 DEF Seed, Expired, Ids
  <2>2. ASSUME NEW u \in Ids, NEW row, Update(u, row),
               row.left = users[u].left, row.admin = users[u].admin,
               u = 1 => row.granted = users[u].granted
        PROVE  Seed' /\ doomed' \subseteq Expired'
    <3>1. Ids' = Ids /\ \A i \in Ids : users'[i] = IF i = u THEN row ELSE users[i]
      BY <2>2, UpdatedRows
    <3>2. \A i \in Ids \cap Ids' : SameRow(i)
      BY <2>2, <3>1 DEF SameRow
    <3>3. 1 \in Ids' /\ doomed' \subseteq doomed \cap Ids'
      BY <1>0, <1>2, <3>1 DEF Seed
    <3> QED
      BY <1>0, <3>1, <3>2, <3>3, SeedKept
  <2>3. CASE SetPassword(r) /\ NewHash(r) /\ Target(r) \in Ids
    <3> DEFINE row == [users[Target(r)] EXCEPT !.pw = @ + 1]
    <3>1. Update(Target(r), row)
      BY <2>3 DEF NewHash
    <3>2. row.left = users[Target(r)].left /\ row.admin = users[Target(r)].admin
          /\ row.granted = users[Target(r)].granted
      BY <2>3, UsersAreTyped DEF User
    <3> HIDE DEF row
    <3> QED
      BY <2>2, <2>3, <3>1, <3>2
  <2>4. CASE SetAdmin(r) /\ Target(r) \in Ids
    <3> DEFINE row == [users[Target(r)] EXCEPT !.admin = request[r].flag]
    <3>1. Update(Target(r), row)
      BY <2>4 DEF SetAdmin
    <3>2. Target(r) = 1 /\ request[r].flag = TRUE /\ users[1].admin = TRUE
      BY <1>0, <2>4, StepsOf DEF Role, Seed
    <3>3. row.left = users[Target(r)].left /\ row.admin = users[Target(r)].admin
          /\ row.granted = users[Target(r)].granted
      BY <2>4, <3>2, UsersAreTyped DEF User
    <3> HIDE DEF row
    <3> QED
      BY <2>2, <2>4, <3>1, <3>3
  <2>5. CASE Provision(r)
    <3> DEFINE row == [Fresh EXCEPT !.left = DemoTtl]
    <3>1. /\ Ids' = Ids \cup {NewId} /\ NewId \notin Ids
          /\ \A i \in Ids' : users'[i] = IF i = NewId THEN row ELSE users[i]
      BY <2>5, InsertedRows, NewIdIsNew DEF Provision, Typed, TypeOK
    <3>2. row.left # NULL /\ row.admin = FALSE
      BY Limits DEF Fresh
    <3> HIDE DEF row
    <3>3. \A i \in Ids \cap Ids' : SameRow(i)
      BY <3>1 DEF SameRow
    <3>4. \A u \in Ids' \ Ids : users'[u].left # NULL /\ users'[u].admin = FALSE
      BY <3>1, <3>2
    <3>5. 1 \in Ids' /\ doomed' \subseteq doomed \cap Ids'
      BY <1>0, <1>2, <3>1 DEF Seed
    <3> QED
      BY <1>0, <3>3, <3>4, <3>5, SeedKept
  <2>6. CASE Grant(r) /\ Target(r) \in Ids
    <3> DEFINE row == [users[Target(r)] EXCEPT !.granted = TRUE]
    <3>1. Update(Target(r), row) /\ Target(r) # 1
      BY <1>0, <2>6, StepsOf DEF Grant, GrantFor, Role
    <3>2. row.left = users[Target(r)].left /\ row.admin = users[Target(r)].admin
      BY <2>6, UsersAreTyped DEF User
    <3> HIDE DEF row
    <3> QED
      BY <2>2, <2>6, <3>1, <3>2
  <2> QED
    <3>1. LoginStep(r) => UNCHANGED users
      BY DEF LoginStep, LoginBegin, WrongPassword, RightPassword, CreateSession
    <3>2. DemoStep(r) => \/ Provision(r) \/ UNCHANGED users
                         \/ Grant(r) /\ Target(r) \in Ids
      BY DEF DemoStep, DemoBegin, DemoSession, DemoFails, Grant, GrantFor
    <3>3. AdminStep(r) /\ ~Delete(r) => \/ SetAdmin(r) /\ Target(r) \in Ids
                                        \/ UNCHANGED users
      BY DEF AdminStep, ResetBegin, SetAdminBegin, DeleteBegin, SetSignup, SetAdmin
    <3>4. (\E t \in DOMAIN sessions : ChangeBegin(r, t)) => UNCHANGED users
      BY DEF ChangeBegin
    <3>5. SetPassword(r) => \/ NewHash(r) /\ Target(r) \in Ids
                            \/ UNCHANGED users
      BY DEF SetPassword, NewHash
    <3> QED
      BY <1>0, <2>1, <2>3, <2>4, <2>5, <2>6, <3>1, <3>2, <3>3, <3>4, <3>5
<1> QED
  BY <1>1, <1>2, <1>3 DEF InDemo

(* The pass deletes the least id it has left. *)
LEMMA LeastDoomed ==
  ASSUME Typed, doomed # {}
  PROVE  Min(doomed) \in doomed
  BY LeastId DEF Typed, TypeOK, AllIds

LEMMA DemoByCleanup ==
  ASSUME Typed, demo, InDemo, Cleanup
  PROVE  InDemo'
<1>0. Roles /\ Seed /\ doomed \subseteq Expired /\ doomed \subseteq Ids
  BY DEF InDemo, Expired
<1>1. Roles' /\ founders' = founders
  <2>1. UNCHANGED <<request, founders>>
    BY DEF Cleanup, CleanupList, CleanupDelete, CleanupEnds
  <2> QED
    BY <1>0, <2>1 DEF Roles, Role, At, Target
<1>2. CASE CleanupList \/ CleanupEnds
  BY <1>0, <1>1, <1>2 DEF CleanupList, CleanupEnds, InDemo, Seed, Expired, Ids
<1>3. CASE CleanupDelete
  <2>1. doomed' = doomed \ {Min(doomed)} /\ Min(doomed) \in doomed
    BY <1>3, LeastDoomed DEF CleanupDelete
  <2>2. CASE UNCHANGED users
    BY <1>0, <1>1, <2>1, <2>2 DEF InDemo, Seed, Expired, Ids
  <2>3. CASE Remove(Min(doomed))
    <3>1. /\ Ids' = Ids \ {Min(doomed)}
          /\ \A i \in Ids \ {Min(doomed)} : users'[i] = users[i]
      BY <2>3, RemovedRows
    <3>2. Min(doomed) # 1
      <4>1. users[1].left # 0
        BY <1>0, Limits DEF Seed
      <4> QED
        BY <1>0, <2>1, <4>1 DEF Expired
    <3>3. 1 \in Ids' /\ doomed' \subseteq doomed \cap Ids'
      BY <1>0, <2>1, <3>1, <3>2 DEF Seed
    <3>4. \A i \in Ids \cap Ids' : SameRow(i)
      BY <3>1 DEF SameRow
    <3>5. Seed' /\ doomed' \subseteq Expired'
      BY <1>0, <3>1, <3>3, <3>4, SeedKept
    <3> QED
      BY <1>1, <3>5 DEF InDemo
  <2> QED
    BY <1>3, <2>2, <2>3 DEF CleanupDelete
<1> QED
  BY <1>2, <1>3 DEF Cleanup

LEMMA DemoByTick ==
  ASSUME Typed, demo, InDemo, Tick
  PROVE  InDemo'
<1>0. Roles /\ Seed /\ doomed \subseteq Expired /\ doomed \subseteq Ids
  BY DEF InDemo, Expired
<1>1. Roles' /\ founders' = founders /\ doomed' = doomed
  BY <1>0 DEF Tick, Roles, Role, At, Target
<1>2. \A u \in Ids \cap Ids' : SameRow(u)
  BY Ticked, LessKeeps, UsersAreTyped DEF SameRow
<1>3. Ids' = Ids /\ 1 \in Ids' /\ doomed' \subseteq doomed \cap Ids'
  BY <1>0, <1>1, Ticked DEF Seed
<1>4. Seed' /\ doomed' \subseteq Expired'
  BY <1>0, <1>2, <1>3, SeedKept
<1> QED
  BY <1>1, <1>4 DEF InDemo

LEMMA NoDemoByHandler ==
  ASSUME Typed, Typed', ~demo, NoDemo, NEW r \in Requests,
         \/ LoginStep(r) \/ SignupStep(r) \/ DemoStep(r) \/ SetPassword(r)
         \/ AdminStep(r) \/ \E t \in DOMAIN sessions : ChangeBegin(r, t)
  PROVE  NoDemo'
<1>1. ~DemoStep(r)
  BY StepsOf DEF NoDemo, DemoStep, OpensDemo, DemoBegin
<1>2. ~OpensDemo(r)'
  <2>1. LoginStep(r) \/ SignupStep(r) \/ SetPassword(r)
          \/ (\E t \in DOMAIN sessions : ChangeBegin(r, t)) => ~OpensDemo(r)'
    BY BeginsAt, GoesTo DEF LoginStep, SignupStep, OpensDemo, At
  <2>2. AdminStep(r) => ~OpensDemo(r)'
    <3>1. \A a : SetSignup(r, a) => ~OpensDemo(r)'
      BY DEF NoDemo, SetSignup, OpensDemo, At
    <3> QED
      BY <3>1, BeginsAt, GoesTo DEF AdminStep, OpensDemo, At
  <2> QED
    BY <1>1, <2>1, <2>2
<1>3. \A q \in Requests : ~OpensDemo(q)'
  <2>1. \A q \in Requests : q # r => request'[q] = request[q]
    BY OneMoves
  <2> QED
    BY <1>2, <2>1 DEF NoDemo, OpensDemo, At
<1>4. cleanup' = "wait"
  BY <1>1 DEF LoginStep, LoginBegin, WrongPassword, RightPassword, CreateSession,
         SignupStep, SignupBegin, CreateFirstAdmin, SignUp, SetPassword, AdminStep, ResetBegin,
         SetAdminBegin, DeleteBegin, SetSignup, SetAdmin, Delete, ChangeBegin, NoDemo
<1>5. \A u \in Ids' : users'[u].left = NULL /\ users'[u].granted = FALSE
  <2>1. CASE UNCHANGED users
    BY <2>1 DEF NoDemo, Ids
  <2>2. ASSUME NEW u \in Ids, NEW row, Update(u, row),
               row.left = users[u].left, row.granted = users[u].granted
        PROVE  \A i \in Ids' : users'[i].left = NULL /\ users'[i].granted = FALSE
    BY <2>2, UpdatedRows DEF NoDemo
  <2>3. CASE SetPassword(r) /\ NewHash(r) /\ Target(r) \in Ids
    <3> DEFINE row == [users[Target(r)] EXCEPT !.pw = @ + 1]
    <3>1. Update(Target(r), row)
      BY <2>3 DEF NewHash
    <3>2. row.left = users[Target(r)].left /\ row.granted = users[Target(r)].granted
      BY <2>3, UsersAreTyped DEF User
    <3> HIDE DEF row
    <3> QED
      BY <2>2, <2>3, <3>1, <3>2
  <2>4. CASE SetAdmin(r) /\ Target(r) \in Ids
    <3> DEFINE row == [users[Target(r)] EXCEPT !.admin = request[r].flag]
    <3>1. Update(Target(r), row)
      BY <2>4 DEF SetAdmin
    <3>2. row.left = users[Target(r)].left /\ row.granted = users[Target(r)].granted
      BY <2>4, UsersAreTyped DEF User
    <3> HIDE DEF row
    <3> QED
      BY <2>2, <2>4, <3>1, <3>2
  <2>5. CASE CreateFirstAdmin(r)
    <3> DEFINE row == [Fresh EXCEPT !.admin = (Persistent = {})]
    <3>1. /\ Ids' = Ids \cup {NewId}
          /\ \A i \in Ids' : users'[i] = IF i = NewId THEN row ELSE users[i]
      BY <2>5, InsertedRows DEF CreateFirstAdmin, SignUp
    <3>2. row.left = NULL /\ row.granted = FALSE
      BY DEF Fresh
    <3> HIDE DEF row
    <3> QED
      BY <3>1, <3>2 DEF NoDemo
  <2>6. CASE Delete(r)
    BY <2>6, RemovedRows DEF Delete, NoDemo
  <2> QED
    <3>1. LoginStep(r) => UNCHANGED users
      BY DEF LoginStep, LoginBegin, WrongPassword, RightPassword, CreateSession
    <3>2. SignupStep(r) => CreateFirstAdmin(r) \/ UNCHANGED users
      BY DEF SignupStep, SignupBegin
    <3>3. AdminStep(r) => \/ SetAdmin(r) /\ Target(r) \in Ids
                          \/ Delete(r) \/ UNCHANGED users
      BY DEF AdminStep, ResetBegin, SetAdminBegin, DeleteBegin, SetSignup, SetAdmin
    <3>4. (\E t \in DOMAIN sessions : ChangeBegin(r, t)) => UNCHANGED users
      BY DEF ChangeBegin
    <3>5. SetPassword(r) => \/ NewHash(r) /\ Target(r) \in Ids
                            \/ UNCHANGED users
      BY DEF SetPassword, NewHash
    <3> QED
      BY <1>1, <2>1, <2>3, <2>4, <2>5, <2>6, <3>1, <3>2, <3>3, <3>4, <3>5
<1> QED
  BY <1>3, <1>4, <1>5 DEF NoDemo

(* The mode is the server's and never changes. *)
LEMMA SameMode == [Next]_vars => demo' = demo
<1> SUFFICES ASSUME [Next]_vars PROVE demo' = demo
  OBVIOUS
<1>1. ASSUME NEW r \in Requests,
             LoginStep(r) \/ SignupStep(r) \/ DemoStep(r) \/ SetPassword(r)
      PROVE  demo' = demo
  BY <1>1 DEF LoginStep, LoginBegin, WrongPassword, RightPassword, CreateSession, SignupStep,
         SignupBegin, CreateFirstAdmin, SignUp, DemoStep, DemoBegin, Provision, DemoSession,
         DemoFails, Grant, GrantFor, SetPassword
<1>2. ASSUME NEW r \in Requests, AdminStep(r) PROVE demo' = demo
  BY <1>2 DEF AdminStep, ResetBegin, SetAdminBegin, DeleteBegin, SetSignup, SetAdmin, Delete
<1>3. ASSUME NEW r, NEW t, ChangeBegin(r, t) \/ Logout(t) PROVE demo' = demo
  BY <1>3 DEF ChangeBegin, Logout
<1>4. Cleanup \/ Tick \/ UNCHANGED vars => demo' = demo
  BY DEF Cleanup, CleanupList, CleanupDelete, CleanupEnds, Tick, vars
<1> QED
  BY <1>1, <1>2, <1>3, <1>4 DEF Next

LEMMA ModeStep ==
  ASSUME Typed, Typed', Mode, [Next]_vars
  PROVE  Mode'
<1>1. demo' = demo
  BY SameMode
<1>2. ASSUME demo PROVE InDemo'
  <2>0. InDemo
    BY <1>2 DEF Mode
  <2>1. ASSUME NEW t, Logout(t) PROVE InDemo'
    BY <2>0, <2>1 DEF Logout, InDemo, Roles, Role, At, Target, Seed, Expired, Ids
  <2>2. CASE UNCHANGED vars
    BY <2>0, <2>2 DEF vars, InDemo, Roles, Role, At, Target, Seed, Expired, Ids
  <2> QED
    BY <1>2, <2>0, <2>1, <2>2, DemoByHandler, DemoByCleanup, DemoByTick DEF Next
<1>3. ASSUME ~demo PROVE NoDemo'
  <2>0. NoDemo
    BY <1>3 DEF Mode
  <2>1. ASSUME NEW t, Logout(t) PROVE NoDemo'
    BY <2>0, <2>1 DEF Logout, NoDemo, OpensDemo, At, Ids
  <2>2. CASE UNCHANGED vars
    BY <2>0, <2>2 DEF vars, NoDemo, OpensDemo, At, Ids
  <2>3. ~Cleanup
    BY <1>3, <2>0 DEF Cleanup, CleanupList, CleanupDelete, CleanupEnds, NoDemo
  <2>4. CASE Tick
    <3>1. \A u \in Ids' : users'[u].left = NULL /\ users'[u].granted = FALSE
      BY <2>0, <2>4, Ticked, LessKeeps, UsersAreTyped DEF NoDemo
    <3> QED
      BY <2>0, <2>4, <3>1 DEF Tick, NoDemo, OpensDemo, At
  <2> QED
    BY <1>3, <2>0, <2>1, <2>2, <2>3, <2>4, NoDemoByHandler DEF Next
<1> QED
  BY <1>1, <1>2, <1>3 DEF Mode

LEMMA AlwaysInMode == Spec => [](Typed /\ Mode)
<1>1. Typed /\ Typed' /\ Mode /\ [Next]_vars => Mode'
  BY ModeStep
<1> QED
  BY <1>1, ModeInit, AlwaysTyped, PTL DEF Spec

(* DeleteExpiredDemos: a pass deletes only accounts that are demos and have *)
(* expired, whatever happened between its listing and the deletion and      *)
(* although a new account may get the id of a deleted one.                  *)
THEOREM CleanupSparesOthers == Spec => CleanupSpares
<1>1. ASSUME Typed, Mode, CleanupDelete
      PROVE  \A u \in Ids \ DOMAIN users' : users[u].left = 0
  <2>1. demo
    BY <1>1 DEF Mode, NoDemo, CleanupDelete
  <2>2. Min(doomed) \in Expired
    BY <1>1, <2>1, LeastDoomed DEF Mode, InDemo, CleanupDelete
  <2>3. UNCHANGED users \/ Remove(Min(doomed))
    BY <1>1 DEF CleanupDelete
  <2> DEFINE least == Min(doomed)
  <2>4. \A u \in Ids \ DOMAIN users' : u = least
    <3>1. UNCHANGED users \/ users' = [i \in Ids \ {least} |-> users[i]]
      BY <2>3 DEF Remove
    <3> HIDE DEF least
    <3> QED
      BY <3>1 DEF Ids
  <2> QED
    BY <2>2, <2>4 DEF Expired
<1> QED
  BY <1>1, AlwaysInMode, PTL DEF CleanupSpares

-----------------------------------------------------------------------------
(* Demos of one address. *)

Holding == {u \in Ids : users[u].granted /\ users[u].left # 0}
Opening == {r \in Requests : OpensDemo(r)}

(* Demos held, and those that may still be granted; the throttle outlives   *)
(* every demo it has recorded.                                              *)
Demos ==
  /\ Cardinality(Holding) + Cardinality(Opening) <= Cardinality(Requests)
  /\ throttle = NULL => Holding = {}
  /\ throttle # NULL => \A u \in Holding : users[u].left <= throttle

LEMMA AllIdsFinite == IsFiniteSet(AllIds)
  BY Limits, FS_Interval DEF AllIds

LEMMA DemosFinite ==
  ASSUME Typed
  PROVE  /\ IsFiniteSet(Holding) /\ Cardinality(Holding) \in Nat
         /\ IsFiniteSet(Opening) /\ Cardinality(Opening) \in Nat
         /\ Cardinality(Opening) <= Cardinality(Requests)
<1>1. Holding \subseteq AllIds /\ IsFiniteSet(AllIds)
  BY AllIdsFinite DEF Typed, TypeOK, Holding
<1>2. IsFiniteSet(Holding) /\ Cardinality(Holding) \in Nat
  BY <1>1, FS_Subset, FS_CardinalityType
<1> QED
  BY <1>2, FS_Subset, FS_CardinalityType DEF Opening

LEMMA DemosFiniteNext ==
  ASSUME Typed'
  PROVE  /\ IsFiniteSet(Holding') /\ Cardinality(Holding') \in Nat
         /\ IsFiniteSet(Opening') /\ Cardinality(Opening') \in Nat
         /\ Cardinality(Opening') <= Cardinality(Requests)
<1>1. Holding' \subseteq AllIds /\ IsFiniteSet(AllIds)
  BY AllIdsFinite DEF Typed, TypeOK, Holding
<1>2. IsFiniteSet(Holding') /\ Cardinality(Holding') \in Nat
  BY <1>1, FS_Subset, FS_CardinalityType
<1>3. Opening' \subseteq Requests
  BY DEF Opening
<1> QED
  BY <1>2, <1>3, FS_Subset, FS_CardinalityType

(* A step that grants nothing and lets nobody in. *)
LEMMA DemosKept ==
  ASSUME Typed, Demos, Holding' \subseteq Holding, Opening' \subseteq Opening,
         throttle' = throttle, \A u \in Holding' : users'[u].left = users[u].left
  PROVE  Demos'
<1>1. Cardinality(Holding') <= Cardinality(Holding) /\ Cardinality(Opening') <= Cardinality(Opening)
  BY DemosFinite, FS_Subset
<1>2. /\ Cardinality(Holding') \in Nat /\ Cardinality(Opening') \in Nat
      /\ Cardinality(Requests) \in Nat
  BY DemosFinite, FS_Subset, FS_CardinalityType
<1>3. Cardinality(Holding') + Cardinality(Opening') <= Cardinality(Requests)
  BY <1>1, <1>2, DemosFinite DEF Demos
<1> QED
  BY <1>3 DEF Demos

LEMMA OpeningOf ==
  ASSUME NEW r \in Requests, \A q \in Requests : q # r => request'[q] = request[q]
  PROVE  /\ (OpensDemo(r)' => OpensDemo(r)) => Opening' \subseteq Opening
         /\ OpensDemo(r) /\ ~OpensDemo(r)' => r \in Opening /\ Opening' = Opening \ {r}
  BY DEF Opening, OpensDemo, At

LEMMA HoldingSame ==
  ASSUME UNCHANGED users
  PROVE  Holding' = Holding
  BY DEF Holding, Ids

(* A row rewritten with the same lifetime and grant. *)
LEMMA HoldingUpdated ==
  ASSUME NEW u \in Ids, NEW row, Update(u, row), row.left = users[u].left,
         row.granted = users[u].granted
  PROVE  Holding' \subseteq Holding /\ \A i \in Holding' : users'[i].left = users[i].left
  BY UpdatedRows DEF Holding

LEMMA DemosByGrant ==
  ASSUME Typed, Typed', Demos, InDemo, NEW r \in Requests, Grant(r)
  PROVE  Demos'
<1>0. GrantFor(r, DemoTtl) /\ throttle' = DemoTtl /\ DemoTtl # NULL
  BY Limits DEF Grant, GrantFor
<1>1. r \in Opening /\ Opening' = Opening \ {r}
  <2>1. \A q \in Requests : q # r => request'[q] = request[q]
    BY OneMoves DEF DemoStep
  <2>2. OpensDemo(r) /\ ~OpensDemo(r)'
    BY StepsOf, GoesTo DEF OpensDemo, At
  <2> QED
    BY <2>1, <2>2, OpeningOf
<1>2. Cardinality(Opening') = Cardinality(Opening) - 1
  BY <1>1, DemosFinite, FS_RemoveElement
<1>3. CASE Target(r) \in Ids
  <2> DEFINE u == Target(r)
             row == [users[u] EXCEPT !.granted = TRUE]
  <2>1. Update(u, row) /\ u # 1 /\ row.left = users[u].left
    BY <1>0, <1>3, StepsOf, UsersAreTyped DEF GrantFor, InDemo, Roles, Role, User
  <2> HIDE DEF row
  <2>2. Ids' = Ids /\ \A i \in Ids : users'[i].left = users[i].left
    BY <1>3, <2>1, UpdatedRows
  <2>3. Holding' \subseteq Holding \cup {u}
    BY <1>3, <2>1, <2>2, UpdatedRows DEF Holding
  <2>4. Cardinality(Holding') <= Cardinality(Holding) + 1
    <3>1. IsFiniteSet(Holding \cup {u}) /\ Cardinality(Holding \cup {u}) \in Nat
          /\ Cardinality(Holding \cup {u}) <= Cardinality(Holding) + 1
      <4>1. IsFiniteSet(Holding) /\ Cardinality(Holding) \in Nat
        BY DemosFinite
      <4>2. /\ IsFiniteSet(Holding \cup {u})
            /\ Cardinality(Holding \cup {u}) = IF u \in Holding THEN Cardinality(Holding)
                                               ELSE Cardinality(Holding) + 1
        BY <4>1, FS_AddElement
      <4> QED
        BY <4>1, <4>2, FS_CardinalityType
    <3>2. Cardinality(Holding') <= Cardinality(Holding \cup {u}) /\ Cardinality(Holding') \in Nat
      BY <2>3, <3>1, FS_Subset, DemosFiniteNext
    <3> QED
      BY <3>1, <3>2, DemosFinite
  <2>5. \A i \in Holding' : users'[i].left <= throttle'
    <3>1. \A i \in Holding' : i \in Ids /\ i # 1
      <4>1. 1 \notin Holding
        BY DEF Holding, InDemo, Seed
      <4> QED
        BY <1>3, <2>1, <2>3, <4>1 DEF Holding
    <3>2. \A i \in Ids \ {1} : users[i].left \in 0..DemoTtl
      BY UsersAreTyped DEF InDemo, Seed, Left
    <3> QED
      BY <1>0, <2>2, <3>1, <3>2, Limits
  <2>6. /\ Cardinality(Holding') \in Nat /\ Cardinality(Holding) \in Nat
        /\ Cardinality(Opening) \in Nat /\ Cardinality(Requests) \in Nat
    BY DemosFinite, DemosFiniteNext, FS_CardinalityType
  <2>7. Cardinality(Holding') + Cardinality(Opening') <= Cardinality(Requests)
    BY <1>2, <2>4, <2>6 DEF Demos
  <2> QED
    BY <1>0, <2>5, <2>7 DEF Demos
<1>4. CASE Target(r) \notin Ids
  <2>1. UNCHANGED users /\ Holding' = Holding
    BY <1>0, <1>4, HoldingSame DEF GrantFor
  <2>2. \A i \in Holding' : users'[i].left <= throttle'
    <3>1. \A i \in Holding : i \in Ids /\ i # 1
      BY DEF Holding, InDemo, Seed
    <3>2. \A i \in Ids \ {1} : users[i].left \in 0..DemoTtl
      BY UsersAreTyped DEF InDemo, Seed, Left
    <3> QED
      BY <1>0, <2>1, <3>1, <3>2, Limits
  <2>3. Cardinality(Holding') + Cardinality(Opening') <= Cardinality(Requests)
    <3>1. /\ Cardinality(Holding) \in Nat /\ Cardinality(Opening) \in Nat
          /\ Cardinality(Requests) \in Nat
      BY DemosFinite, FS_CardinalityType
    <3> QED
      BY <1>2, <2>1, <3>1 DEF Demos
  <2> QED
    BY <1>0, <2>2, <2>3 DEF Demos
<1> QED
  BY <1>3, <1>4

LEMMA DemosByHandler ==
  ASSUME Typed, Typed', demo, InDemo, Demos, NEW r \in Requests,
         \/ LoginStep(r) \/ SignupStep(r) \/ DemoStep(r) \/ SetPassword(r)
         \/ AdminStep(r) \/ \E t \in DOMAIN sessions : ChangeBegin(r, t)
  PROVE  Demos'
<1>0. ~SignupStep(r) /\ ~Delete(r) /\ \A q \in Requests : q # r => request'[q] = request[q]
  BY RoleOfStep, OneMoves
<1>1. CASE DemoBegin(r)
  <2>1. Holding = {} /\ Holding' = {} /\ throttle' = NULL
    BY <1>1, HoldingSame DEF DemoBegin, Demos
  <2>2. Cardinality(Holding') = 0
    BY <2>1, FS_EmptySet
  <2>3. Cardinality(Opening') <= Cardinality(Requests) /\ Cardinality(Opening') \in Nat
    BY DemosFiniteNext
  <2>4. Cardinality(Holding') + Cardinality(Opening') <= Cardinality(Requests)
    BY <2>2, <2>3, FS_CardinalityType
  <2> QED
    BY <2>1, <2>4 DEF Demos
<1>2. CASE Grant(r)
  BY <1>2, DemosByGrant
<1>3. CASE DemoSession(r) \/ DemoFails(r)
  <2>1. UNCHANGED <<users, throttle>> /\ Holding' = Holding
    BY <1>3, HoldingSame DEF DemoSession, DemoFails
  <2>2. OpensDemo(r)
    BY <1>3, StepsOf DEF OpensDemo
  <2>3. Opening' \subseteq Opening
    BY <1>0, <2>2, OpeningOf
  <2> QED
    BY <2>1, <2>3, DemosKept
<1>4. CASE Provision(r)
  <2> DEFINE row == [Fresh EXCEPT !.left = DemoTtl]
  <2>1. /\ Ids' = Ids \cup {NewId} /\ NewId \notin Ids
        /\ \A i \in Ids' : users'[i] = IF i = NewId THEN row ELSE users[i]
    BY <1>4, InsertedRows, NewIdIsNew DEF Provision, Typed, TypeOK
  <2>2. row.granted = FALSE
    BY DEF Fresh
  <2> HIDE DEF row
  <2>3. Holding' \subseteq Holding /\ \A i \in Holding' : users'[i].left = users[i].left
    BY <2>1, <2>2 DEF Holding
  <2>4. OpensDemo(r)
    BY <1>4, StepsOf DEF OpensDemo
  <2>5. Opening' \subseteq Opening /\ throttle' = throttle
    BY <1>0, <1>4, <2>4, OpeningOf DEF Provision
  <2> QED
    BY <2>3, <2>5, DemosKept
<1>5. ASSUME \/ LoginStep(r) \/ SetPassword(r)
             \/ AdminStep(r) \/ \E t \in DOMAIN sessions : ChangeBegin(r, t)
      PROVE  Demos'
  <2>1. throttle' = throttle
    BY <1>0, <1>5 DEF LoginStep, LoginBegin, WrongPassword, RightPassword, CreateSession,
           SetPassword, AdminStep, ResetBegin, SetAdminBegin, DeleteBegin, SetSignup, SetAdmin,
           ChangeBegin
  <2>2. Opening' \subseteq Opening
    <3>1. LoginStep(r) \/ SetPassword(r)
            \/ (\E t \in DOMAIN sessions : ChangeBegin(r, t)) => ~OpensDemo(r)'
      BY BeginsAt, GoesTo DEF LoginStep, OpensDemo, At
    <3>2. AdminStep(r) => ~OpensDemo(r)' \/ UNCHANGED request
      BY BeginsAt, GoesTo DEF AdminStep, SetSignup, OpensDemo, At
    <3>3. UNCHANGED request => Opening' = Opening
      BY DEF Opening, OpensDemo, At
    <3> QED
      BY <1>0, <1>5, <3>1, <3>2, <3>3, OpeningOf
  <2>3. Holding' \subseteq Holding /\ \A i \in Holding' : users'[i].left = users[i].left
    <3>1. CASE UNCHANGED users
      BY <3>1, HoldingSame
    <3>2. CASE SetPassword(r) /\ NewHash(r) /\ Target(r) \in Ids
      <4> DEFINE row == [users[Target(r)] EXCEPT !.pw = @ + 1]
      <4>1. Update(Target(r), row)
        BY <3>2 DEF NewHash
      <4>2. row.left = users[Target(r)].left /\ row.granted = users[Target(r)].granted
        BY <3>2, UsersAreTyped DEF User
      <4> HIDE DEF row
      <4> QED
        BY <3>2, <4>1, <4>2, HoldingUpdated
    <3>3. CASE SetAdmin(r) /\ Target(r) \in Ids
      <4> DEFINE row == [users[Target(r)] EXCEPT !.admin = request[r].flag]
      <4>1. Update(Target(r), row)
        BY <3>3 DEF SetAdmin
      <4>2. row.left = users[Target(r)].left /\ row.granted = users[Target(r)].granted
        BY <3>3, UsersAreTyped DEF User
      <4> HIDE DEF row
      <4> QED
        BY <3>3, <4>1, <4>2, HoldingUpdated
    <3> QED
      <4>1. LoginStep(r) => UNCHANGED users
        BY DEF LoginStep, LoginBegin, WrongPassword, RightPassword, CreateSession
      <4>2. AdminStep(r) /\ ~Delete(r) => \/ SetAdmin(r) /\ Target(r) \in Ids
                                          \/ UNCHANGED users
        BY DEF AdminStep, ResetBegin, SetAdminBegin, DeleteBegin, SetSignup, SetAdmin
      <4>3. (\E t \in DOMAIN sessions : ChangeBegin(r, t)) => UNCHANGED users
        BY DEF ChangeBegin
      <4>4. SetPassword(r) => \/ NewHash(r) /\ Target(r) \in Ids
                              \/ UNCHANGED users
        BY DEF SetPassword, NewHash
      <4> QED
        BY <1>0, <1>5, <3>1, <3>2, <3>3, <4>1, <4>2, <4>3, <4>4
  <2> QED
    BY <2>1, <2>2, <2>3, DemosKept
<1> QED
  BY <1>0, <1>1, <1>2, <1>3, <1>4, <1>5 DEF DemoStep

LEMMA DemosByTick ==
  ASSUME Typed, Typed', InDemo, Demos, Tick
  PROVE  Demos'
<1>0. Opening' = Opening
  BY DEF Tick, Opening, OpensDemo, At
<1>1. /\ Ids' = Ids /\ \A u \in Ids : /\ users'[u].left = Less(users[u].left)
                                      /\ users'[u].granted = users[u].granted
                                      /\ users[u].left \in Left
  BY Ticked, UsersAreTyped
<1>2. Holding' \subseteq Holding
  BY <1>1, LessKeeps DEF Holding
<1>3. Cardinality(Holding') + Cardinality(Opening') <= Cardinality(Requests)
  <2>1. Cardinality(Holding') <= Cardinality(Holding)
    BY <1>2, DemosFinite, FS_Subset
  <2>2. /\ Cardinality(Holding') \in Nat /\ Cardinality(Holding) \in Nat
        /\ Cardinality(Opening) \in Nat /\ Cardinality(Requests) \in Nat
    BY DemosFinite, DemosFiniteNext, FS_CardinalityType
  <2> QED
    BY <1>0, <2>1, <2>2 DEF Demos
<1>4. \A u \in Holding : u \in Ids /\ users[u].left \in 1..DemoTtl
  <2>1. \A u \in Holding : u \in Ids /\ u # 1 /\ users[u].left # 0
    BY DEF Holding, InDemo, Seed
  <2>2. \A u \in Ids \ {1} : users[u].left \in 0..DemoTtl
    BY UsersAreTyped DEF InDemo, Seed, Left
  <2> QED
    BY <2>1, <2>2, Limits
<1>5. throttle \in Left
  BY DEF Typed, TypeOK
<1>6. CASE throttle = NULL \/ throttle = 0
  <2>1. Holding = {}
    BY <1>4, <1>6, Limits DEF Demos
  <2>2. Holding' = {}
    BY <1>2, <2>1
  <2> QED
    BY <1>3, <2>2 DEF Demos
<1>7. CASE throttle # NULL /\ throttle # 0
  <2>1. throttle \in 1..DemoTtl /\ throttle' = throttle - 1 /\ throttle' # NULL
    BY <1>5, <1>7, Limits DEF Tick, Less, Left
  <2>2. \A u \in Holding' : users'[u].left <= throttle'
    <3> TAKE u \in Holding'
    <3>1. u \in Holding /\ users[u].left \in 1..DemoTtl /\ users[u].left <= throttle
      BY <1>2, <1>4, <1>7 DEF Demos
    <3>2. users'[u].left = users[u].left - 1
      BY <1>1, <1>4, <3>1, Limits DEF Less
    <3> QED
      BY <2>1, <3>1, <3>2, Limits
  <2> QED
    BY <1>3, <2>1, <2>2 DEF Demos
<1> QED
  BY <1>6, <1>7

LEMMA DemosStep ==
  ASSUME Typed, Typed', Mode, Mode', Demos, [Next]_vars
  PROVE  Demos'
<1>1. CASE demo
  <2>0. InDemo
    BY <1>1 DEF Mode
  <2>1. ASSUME UNCHANGED <<users, request, throttle>> PROVE Demos'
    <3>1. Holding' = Holding /\ Opening' = Opening
      BY <2>1, HoldingSame DEF Opening, OpensDemo, At
    <3> QED
      BY <2>1, <3>1, DemosKept
  <2>2. ASSUME NEW t, Logout(t) PROVE Demos'
    BY <2>1, <2>2 DEF Logout
  <2>3. CASE Cleanup
    <3>1. UNCHANGED <<request, throttle>> /\ (UNCHANGED users \/ Remove(Min(doomed)))
      BY <2>3 DEF Cleanup, CleanupList, CleanupDelete, CleanupEnds
    <3>2. ASSUME NEW u, Remove(u) PROVE Demos'
      <4>1. Holding' \subseteq Holding /\ \A i \in Holding' : users'[i].left = users[i].left
        BY <3>2, RemovedRows DEF Holding
      <4>2. Opening' = Opening
        BY <3>1 DEF Opening, OpensDemo, At
      <4> QED
        BY <3>1, <4>1, <4>2, DemosKept
    <3> QED
      BY <2>1, <3>1, <3>2
  <2>4. CASE UNCHANGED vars
    BY <2>1, <2>4 DEF vars
  <2> QED
    BY <1>1, <2>0, <2>2, <2>3, <2>4, DemosByHandler, DemosByTick DEF Next
<1>2. CASE ~demo
  <2>1. NoDemo'
    BY <1>2, SameMode DEF Mode
  <2>2. Holding' = {} /\ Opening' = {}
    BY <2>1 DEF NoDemo, Holding, Opening, OpensDemo, At
  <2>3. Cardinality(Holding') + Cardinality(Opening') <= Cardinality(Requests)
    <3>1. Cardinality(Holding') = 0 /\ Cardinality(Opening') = 0
      BY <2>2, FS_EmptySet
    <3>2. Cardinality(Requests) \in Nat
      BY FS_CardinalityType
    <3> QED
      BY <3>1, <3>2
  <2> QED
    BY <2>2, <2>3 DEF Demos
<1> QED
  BY <1>1, <1>2

(* demoThrottle: however many demos an address opens, expires and opens     *)
(* again, it never holds more than the requests it can have in flight, one  *)
(* when they come one by one.                                               *)
THEOREM DemosStayBounded == Spec => []DemosBounded
<1>1. Init => Demos
  <2> SUFFICES ASSUME Init PROVE Demos
    OBVIOUS
  <2>1. Opening = {}
    BY DEF Init, Opening, OpensDemo, At, Idle
  <2>2. Holding = {}
    BY ModeInit DEF Mode, InDemo, NoDemo, Seed, Holding, Init, Ids, Fresh
  <2>3. Cardinality({}) = 0 /\ Cardinality(Requests) \in Nat
    BY FS_EmptySet, FS_CardinalityType
  <2> QED
    BY <2>1, <2>2, <2>3 DEF Demos
<1>2. Typed /\ Typed' /\ Mode /\ Mode' /\ Demos /\ [Next]_vars => Demos'
  BY DemosStep
<1>3. Typed /\ Demos => DemosBounded
  <2> SUFFICES ASSUME Typed, Demos PROVE DemosBounded
    OBVIOUS
  <2>1. Cardinality(Holding) <= Cardinality(Requests)
    BY DemosFinite, FS_CardinalityType DEF Demos
  <2> QED
    BY <2>1 DEF DemosBounded, Holding
<1> QED
  BY <1>1, <1>2, <1>3, AlwaysInMode, PTL DEF Spec

-----------------------------------------------------------------------------
(* The last admin. *)

OneAdmin == \A r, s \in AdminRequests : r = s

Removing(r) == At(r, "delete") \/ (At(r, "setAdmin") /\ request[r].flag = FALSE)

(* What a handler is about to take away leaves another admin. *)
Spare(r) == Removing(r) => r \in AdminRequests /\ \E a \in Admins : a # Target(r)

Guarded ==
  /\ founders <= 1
  /\ founders > 0 => Admins # {}
  /\ \A r \in Requests : Spare(r)

LEMMA OtherAdmin ==
  ASSUME Typed, NEW actor \in Admins, NEW u \in Ids, ~LastAdmin(u)
  PROVE  \E a \in Admins : a # u
<1>1. CASE ~users[u].admin
  BY <1>1 DEF Admins
<1>2. CASE Cardinality(Admins) > 1
  <2>1. SUFFICES ASSUME \A a \in Admins : a = u PROVE FALSE
    OBVIOUS
  <2>2. Admins = {u}
    BY <2>1
  <2> QED
    BY <1>2, <2>2, FS_Singleton
<1>3. Cardinality(Admins) \in Nat
  <2>1. Admins \subseteq AllIds
    BY DEF Typed, TypeOK, Admins
  <2> QED
    BY <2>1, AllIdsFinite, FS_Subset, FS_CardinalityType
<1> QED
  BY <1>1, <1>2, <1>3 DEF LastAdmin

(* A step that takes no admin away. *)
LEMMA AdminsKept ==
  ASSUME Typed, Guarded, Admins \subseteq Admins',
         \/ founders' = founders
         \/ Admins = {} /\ Admins' # {} /\ founders' = founders + 1,
         \A q \in Requests : \/ Spare(q)'
                             \/ request'[q] = request[q]
  PROVE  Guarded'
<1>1. \A q \in Requests : request'[q] = request[q] => Spare(q)'
  BY DEF Guarded, Spare, Removing, At, Target
<1>2. founders \in Nat
  BY DEF Typed, TypeOK
<1>3. founders' <= 1 /\ (founders' > 0 => Admins' # {})
  BY <1>2 DEF Guarded
<1>4. \A q \in Requests : Spare(q)'
  BY <1>1
<1> QED
  BY <1>3, <1>4 DEF Guarded

(* The rows of the others stay when one is rewritten. *)
LEMMA AdminUpdated ==
  ASSUME Typed, NEW u \in Ids, NEW row, Update(u, row), users[u].admin => row.admin
  PROVE  Admins \subseteq Admins'
  BY UpdatedRows DEF Admins

LEMMA GuardedByRemoval ==
  ASSUME Typed, Typed', Guarded, NoDemo, OneAdmin, NEW r \in Requests,
         Removing(r), Delete(r) \/ SetAdmin(r)
  PROVE  Guarded'
<1>1. r \in AdminRequests /\ \E a \in Admins : a # Target(r)
  BY DEF Guarded, Spare
<1>2. PICK a \in Admins : a # Target(r)
  BY <1>1
<1>3. a \in Ids' /\ users'[a] = users[a]
  <2>1. CASE Delete(r)
    <3>1. a \in Ids \ {Target(r)} /\ Remove(Target(r))
      BY <1>2, <2>1 DEF Admins, Delete
    <3> QED
      BY <3>1, RemovedRows
  <2>2. CASE SetAdmin(r)
    <3>1. a \in Ids
      BY <1>2 DEF Admins
    <3>2. UNCHANGED users \/ \E row : Update(Target(r), row)
      BY <2>2 DEF SetAdmin
    <3>3. CASE UNCHANGED users
      BY <3>1, <3>3, SameUsers
    <3>4. ASSUME NEW row, Update(Target(r), row) PROVE a \in Ids' /\ users'[a] = users[a]
      BY <1>2, <3>1, <3>4, UpdatedRows
    <3> QED
      BY <3>2, <3>3, <3>4
  <2> QED
    BY <2>1, <2>2
<1>4. Admins' # {}
  <2>1. a \in Admins'
    BY <1>2, <1>3 DEF Admins
  <2> QED
    BY <2>1
<1>5. founders' = founders
  BY DEF Delete, SetAdmin
<1>6. \A q \in Requests : Spare(q)'
  <2> TAKE q \in Requests
  <2>1. CASE q = r
    <3>1. At(r, "idle")'
      BY GoesTo
    <3> QED
      BY <2>1, <3>1 DEF Spare, Removing, At
  <2>2. CASE q # r
    <3>1. request'[q] = request[q]
      BY <2>2, OneMoves DEF AdminStep
    <3>2. ~Removing(q)
      BY <1>1, <2>2 DEF Guarded, Spare, OneAdmin
    <3> QED
      BY <3>1, <3>2 DEF Spare, Removing, At
  <2> QED
    BY <2>1, <2>2
<1> QED
  BY <1>4, <1>5, <1>6 DEF Guarded

LEMMA GuardedByBegin ==
  ASSUME Typed, Typed', Guarded, NEW r \in Requests, NEW actor \in Admins, NEW u \in Persistent,
         DeleteBegin(r, actor, u) \/ \E on \in BOOLEAN : SetAdminBegin(r, actor, u, on)
  PROVE  Guarded'
<1>0. AdminStep(r) /\ UNCHANGED <<users, founders>> /\ r \in AdminRequests /\ u \in Ids
  BY UsersAreTyped DEF AdminStep, DeleteBegin, SetAdminBegin, AdminActs
<1>1. Admins' = Admins
  BY <1>0 DEF Admins, Ids
<1>2. \A q \in Requests : q # r => request'[q] = request[q]
  BY <1>0, OneMoves
<1>3. Spare(r)'
  <2>1. CASE DeleteBegin(r, actor, u)
    <3>1. actor # u /\ Target(r)' = u
      BY <2>1, BeginsAt DEF DeleteBegin
    <3>2. (\E a \in Admins : a # Target(r))'
      BY <1>1, <3>1 DEF Target
    <3> QED
      BY <1>0, <3>2 DEF Spare
  <2>2. ASSUME NEW on \in BOOLEAN, SetAdminBegin(r, actor, u, on) PROVE Spare(r)'
    <3>1. At(r, "setAdmin")' /\ Target(r)' = u /\ request'[r].flag = on
      BY <2>2, BeginsAt
    <3>2. CASE on = TRUE
      BY <3>1, <3>2 DEF Spare, Removing, At
    <3>3. CASE on = FALSE
      <4>1. ~LastAdmin(u)
        BY <2>2, <3>3 DEF SetAdminBegin
      <4>2. \E a \in Admins : a # u
        BY <1>0, <4>1, OtherAdmin
      <4>3. (\E a \in Admins : a # Target(r))'
        BY <1>1, <3>1, <4>2 DEF Target
      <4> QED
        BY <1>0, <4>3 DEF Spare
    <3> QED
      BY <3>2, <3>3
  <2> QED
    BY <2>1, <2>2
<1> QED
  BY <1>0, <1>1, <1>2, <1>3, AdminsKept

LEMMA GuardedByHandler ==
  ASSUME Typed, Typed', Guarded, NoDemo, OneAdmin, ~demo, NEW r \in Requests,
         \/ LoginStep(r) \/ SignupStep(r) \/ DemoStep(r) \/ SetPassword(r)
         \/ AdminStep(r) \/ \E t \in DOMAIN sessions : ChangeBegin(r, t)
  PROVE  Guarded'
<1>1. \A q \in Requests : q # r => request'[q] = request[q]
  BY OneMoves
<1>2. ASSUME Admins \subseteq Admins',
             \/ founders' = founders
             \/ Admins = {} /\ Admins' # {} /\ founders' = founders + 1,
             ~At(r, "delete")' /\ ~At(r, "setAdmin")'
      PROVE  Guarded'
  BY <1>1, <1>2, AdminsKept DEF Spare, Removing, At
<1>3. UNCHANGED users => Admins' = Admins
  BY DEF Admins, Ids
<1>4. CASE CreateFirstAdmin(r)
  <2> DEFINE first == Persistent = {}
             row == [Fresh EXCEPT !.admin = first]
  <2>1. /\ InsertUser(row) /\ (first => founders' = founders + 1)
        /\ (~first => founders' = founders)
    BY <1>4 DEF CreateFirstAdmin, SignUp
  <2>2. row.admin = first
    BY DEF Fresh
  <2> HIDE DEF row
  <2>3. /\ Ids' = Ids \cup {NewId} /\ NewId \notin Ids
        /\ \A i \in Ids' : users'[i] = IF i = NewId THEN row ELSE users[i]
    BY <2>1, InsertedRows, NewIdIsNew DEF Typed, TypeOK
  <2>4. Admins \subseteq Admins'
    BY <2>3 DEF Admins
  <2>5. first => Admins = {} /\ NewId \in Admins'
    BY <2>2, <2>3 DEF Admins, Persistent, NoDemo
  <2>6. ~At(r, "delete")' /\ ~At(r, "setAdmin")'
    BY <1>4, GoesTo DEF At
  <2> QED
    BY <1>2, <2>1, <2>4, <2>5, <2>6
<1>5. CASE SetPassword(r)
  <2>1. ~At(r, "delete")' /\ ~At(r, "setAdmin")' /\ founders' = founders
    BY <1>5, GoesTo DEF At, SetPassword
  <2>2. CASE UNCHANGED users
    BY <1>2, <1>3, <2>1, <2>2
  <2>3. CASE NewHash(r) /\ Target(r) \in Ids
    <3> DEFINE row == [users[Target(r)] EXCEPT !.pw = @ + 1]
    <3>1. Update(Target(r), row)
      BY <2>3 DEF NewHash
    <3>2. row.admin = users[Target(r)].admin
      BY <2>3, UsersAreTyped DEF User
    <3> HIDE DEF row
    <3> QED
      BY <1>2, <2>1, <2>3, <3>1, <3>2, AdminUpdated
  <2> QED
    BY <1>5, <2>2, <2>3 DEF SetPassword, NewHash
<1>6. CASE AdminStep(r)
  <2>1. ASSUME NEW actor \in Admins, NEW u \in Persistent,
               DeleteBegin(r, actor, u) \/ \E on \in BOOLEAN : SetAdminBegin(r, actor, u, on)
        PROVE  Guarded'
    BY <2>1, GuardedByBegin
  <2>2. ASSUME NEW actor, NEW u, ResetBegin(r, actor, u) PROVE Guarded'
    <3>1. ~At(r, "delete")' /\ ~At(r, "setAdmin")'
      BY <2>2, BeginsAt DEF At
    <3> QED
      BY <1>2, <1>3, <2>2, <3>1 DEF ResetBegin
  <2>3. ASSUME NEW actor, SetSignup(r, actor) PROVE Guarded'
    <3>1. ~At(r, "delete")' /\ ~At(r, "setAdmin")'
      BY <2>3 DEF SetSignup, At
    <3> QED
      BY <1>2, <1>3, <2>3, <3>1 DEF SetSignup
  <2>4. CASE Delete(r)
    <3>1. Removing(r)
      BY <2>4, StepsOf DEF Removing
    <3> QED
      BY <2>4, <3>1, GuardedByRemoval
  <2>5. CASE SetAdmin(r)
    <3>1. CASE request[r].flag = FALSE
      <4>1. Removing(r)
        BY <2>5, <3>1, StepsOf DEF Removing
      <4> QED
        BY <2>5, <4>1, GuardedByRemoval
    <3>2. CASE request[r].flag = TRUE
      <4>1. ~At(r, "delete")' /\ ~At(r, "setAdmin")' /\ founders' = founders
        BY <2>5, GoesTo DEF At, SetAdmin
      <4>2. CASE Target(r) \in Ids
        <5> DEFINE row == [users[Target(r)] EXCEPT !.admin = request[r].flag]
        <5>1. Update(Target(r), row)
          BY <2>5, <4>2 DEF SetAdmin
        <5>2. row.admin = TRUE
          BY <3>2, <4>2, UsersAreTyped DEF User
        <5> HIDE DEF row
        <5> QED
          BY <1>2, <4>1, <4>2, <5>1, <5>2, AdminUpdated
      <4>3. CASE Target(r) \notin Ids
        BY <1>2, <1>3, <2>5, <4>1, <4>3 DEF SetAdmin
      <4> QED
        BY <4>2, <4>3
    <3> QED
      BY <3>1, <3>2, UsersAreTyped
  <2> QED
    BY <1>6, <2>1, <2>2, <2>3, <2>4, <2>5 DEF AdminStep
<1> QED
  <2>1. ~DemoStep(r)
    BY StepsOf DEF NoDemo, DemoStep, OpensDemo, DemoBegin
  <2>2. ASSUME LoginStep(r) \/ SignupBegin(r) \/ \E t \in DOMAIN sessions : ChangeBegin(r, t)
        PROVE  Guarded'
    <3>1. UNCHANGED <<users, founders>>
      BY <2>2 DEF LoginStep, LoginBegin, WrongPassword, RightPassword, CreateSession,
                  SignupBegin, ChangeBegin
    <3>2. ~At(r, "delete")' /\ ~At(r, "setAdmin")'
      BY <2>2, BeginsAt, GoesTo DEF LoginStep, At
    <3> QED
      BY <1>2, <1>3, <3>1, <3>2
  <2> QED
    BY <1>4, <1>5, <1>6, <2>1, <2>2 DEF SignupStep

LEMMA GuardedStep ==
  ASSUME Typed, Typed', Mode, Mode', Guarded, OneAdmin, [Next]_vars
  PROVE  Guarded'
<1>1. CASE demo
  <2>1. InDemo'
    BY <1>1, SameMode DEF Mode
  <2>2. Admins' # {} /\ founders' = 1
    BY <2>1 DEF InDemo, Seed, Admins
  <2>3. \A r \in Requests : Spare(r)'
    BY <2>1 DEF InDemo, Roles, Role, Spare, Removing, At
  <2> QED
    BY <2>2, <2>3 DEF Guarded
<1>2. CASE ~demo
  <2>0. NoDemo
    BY <1>2 DEF Mode
  <2>1. ASSUME UNCHANGED <<request, founders>>, Admins' = Admins PROVE Guarded'
    BY <2>1, AdminsKept
  <2>2. UNCHANGED users => Admins' = Admins
    BY DEF Admins, Ids
  <2>3. ASSUME NEW t, Logout(t) PROVE Guarded'
    BY <2>1, <2>2, <2>3 DEF Logout
  <2>4. ~Cleanup
    BY <1>2, <2>0 DEF Cleanup, CleanupList, CleanupDelete, CleanupEnds, NoDemo
  <2>5. CASE Tick
    <3>1. Admins' = Admins
      BY <2>5, Ticked DEF Admins
    <3> QED
      BY <2>1, <2>5, <3>1 DEF Tick
  <2>6. CASE UNCHANGED vars
    BY <2>1, <2>2, <2>6 DEF vars
  <2> QED
    BY <1>2, <2>0, <2>3, <2>4, <2>5, <2>6, GuardedByHandler DEF Next
<1> QED
  BY <1>1, <1>2

LEMMA GuardedInit == Init => Guarded
<1> SUFFICES ASSUME Init PROVE Guarded
  OBVIOUS
<1>1. \A r \in Requests : Spare(r)
  BY DEF Init, Spare, Removing, At, Idle
<1>2. founders <= 1
  BY DEF Init
<1>3. founders > 0 => Admins # {}
  <2>1. CASE demo
    BY <2>1, ModeInit DEF Mode, InDemo, Seed, Admins
  <2>2. CASE ~demo
    BY <2>2 DEF Init
  <2> QED
    BY <2>1, <2>2
<1> QED
  BY <1>1, <1>2, <1>3 DEF Guarded

LEMMA GuardedMeans ==
  ASSUME Mode, Guarded
  PROVE  AdminRemains /\ OneFounder
<1>1. Admins \subseteq Admins \cap Persistent
  <2>1. CASE demo
    BY <2>1 DEF Mode, InDemo, Seed, Admins, Persistent
  <2>2. CASE ~demo
    BY <2>2 DEF Mode, NoDemo, Admins, Persistent
  <2> QED
    BY <2>1, <2>2
<1> QED
  BY <1>1 DEF Guarded, AdminRemains, OneFounder

(* lastAdmin: if at most one request acts on the admin pages at a time,     *)
(* then, once there is an admin, there always is one whose account is       *)
(* persistent, though what the handler checked and what it does are two     *)
(* statements and signups, logins and deletions go on in between.           *)
THEOREM AnAdminRemains ==
  ASSUME OneAdmin
  PROVE  Spec => []AdminRemains
<1>1. Typed /\ Typed' /\ Mode /\ Mode' /\ Guarded /\ [Next]_vars => Guarded'
  BY GuardedStep
<1>2. Mode /\ Guarded => AdminRemains
  BY GuardedMeans
<1> QED
  BY <1>1, <1>2, GuardedInit, AlwaysInMode, PTL DEF Spec

(* CreateFirstAdmin: under the same condition, however many first signups   *)
(* are in flight together, at most one is made an admin, and the bootstrap  *)
(* window never opens again.                                                *)
THEOREM OneFounderOnly ==
  ASSUME OneAdmin
  PROVE  Spec => []OneFounder
<1>1. Typed /\ Typed' /\ Mode /\ Mode' /\ Guarded /\ [Next]_vars => Guarded'
  BY GuardedStep
<1>2. Mode /\ Guarded => OneFounder
  BY GuardedMeans
<1> QED
  BY <1>1, <1>2, GuardedInit, AlwaysInMode, PTL DEF Spec

=============================================================================
