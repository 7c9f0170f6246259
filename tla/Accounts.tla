------------------------------- MODULE Accounts -------------------------------
(***************************************************************************)
(* Who may do what: users, sessions, API keys and groups, as the portal    *)
(* (httpserver/portal_auth.go, portal_keys.go) and the administrators      *)
(* (admin.go, admin_groups.go, admin_users_keys.go) change them.           *)
(*                                                                         *)
(* Every request runs in a goroutine of its own and every statement of it  *)
(* in a transaction of its own: who it acts for, what it checked and what  *)
(* it then writes are read at different moments, while other requests run. *)
(* A request may end at any point, by an error of the database, a client   *)
(* that went away, or the death of the process.                            *)
(***************************************************************************)
EXTENDS Integers, FiniteSets

CONSTANTS
    Users,
    Supers, Admins, Members,    \* those there at the beginning
    Registered,                 \* those with a default group, who recharged
    Groups, Open,               \* ids, and those there at the beginning
    Keys, Owned,                \* ids of API keys, and those there at first
    Names,                      \* what users type to log in
    AccountOf,                  \* whose name it is
    Procs,                      \* requests served at the same time
    KeyLimit,                   \* maxKeysPerUser
    MaxFailures,                \* maxLoginFailures
    MaxTracked,                 \* loginFailMaxTracked
    MaxRequests, MaxBegun       \* bounds: requests, and those but for logins

ASSUME AccountsAssumption ==
    /\ Supers \cup Admins \cup Members \subseteq Users
    /\ Groups \subseteq Nat /\ Groups # {} /\ Open \subseteq Groups /\ Names # {}
    /\ IsFiniteSet(Procs) /\ Procs # {} /\ IsFiniteSet(Keys)
    /\ Owned \subseteq Keys /\ Cardinality(Owned) <= KeyLimit
    /\ KeyLimit \in Nat \ {0} /\ MaxFailures \in Nat \ {0}
    /\ AccountOf \in [Names -> Users]

VARIABLES
    acct,           \* users: role and status; role "none": no such row
    default,        \* users.default_group_id
    allowed,        \* user_allowed_groups: rows of a user
    balance,        \* user_balances
    group,          \* groups.status; "deleted" softly, "none": no such row
    key,            \* api_keys that are not deleted
    sessions,       \* auth_sessions of a user
    fails,          \* Portal.fails, in memory
    req,            \* the requests being served
    begun, tried,   \* how many there were, logins apart
    trail,          \* what the audit log last said of an account
    crossed,        \* accounts whose requests crossed, or lost a record
    hasty           \* accounts changed by a check that no longer held

users == <<acct, default, allowed, balance>>
counts == <<begun, tried>>
history == <<trail, crossed, hasty>>
vars == <<users, group, key, sessions, fails, req, counts, history>>

NoGroup == -1
Anyone == CHOOSE u \in Users : TRUE
AnyName == CHOOSE n \in Names : TRUE
Roles == {"user", "admin", "super"}
NoRow == -1     \* of user_balances, made by the first recharge
Amount == [debit |-> -1, credit |-> 1, grant |-> 2]

\* who and role: the principal; to, val, set: what it asks for; seen: rows
\* its transaction deletes; over: another one wrote the same in between.
Blank == [pc |-> "idle", kind |-> "none", who |-> Anyone, role |-> "none",
          grp |-> NoGroup, to |-> Anyone, name |-> AnyName, val |-> "none",
          set |-> {}, seen |-> {}, over |-> FALSE, no |-> 0]

Exists(u) == acct[u].role # "none"
ActiveSuper(u) == acct[u].role = "super" /\ acct[u].status = "active"
Live(k) == key[k].status # "free"
KeysOf(u) == {k \in Keys : Live(k) /\ key[k].owner = u}
\* What a foreign key may name: rows, deleted softly or not.
Rows == {g \in Groups : group[g] # "none"}
GroupsOf(rows) == {row.group : row \in rows}
Pending(p, u, kinds) ==
    req[p].pc \in {"allow", "audit"} /\ req[p].to = u /\ req[p].kind \in kinds


\* Accounts whose change a record is still missing for.
Unrecorded(P) ==
    {u \in Users : \E p \in P : Pending(p, u, {"role", "status", "create"})}

Init ==
    /\ acct = [u \in Users |->
                 [role |-> IF u \in Supers THEN "super"
                           ELSE IF u \in Admins THEN "admin"
                           ELSE IF u \in Members THEN "user" ELSE "none",
                  status |-> "active"]]
    /\ default \in {d \in [Users -> Open \cup {NoGroup}] :
                      \A u \in Users : d[u] # NoGroup <=> u \in Registered}
    /\ allowed = [u \in Users |->
                    [group : {default[u]} \ {NoGroup}, no : {0}]]
    /\ balance = [u \in Users |-> IF u \in Registered THEN 1 ELSE NoRow]
    /\ group = [g \in Groups |-> IF g \in Open THEN "active" ELSE "none"]
    /\ \E u \in Registered \cap Supers, g \in Open :
           key = [k \in Keys |->
                    IF k \in Owned
                    THEN [status |-> "active", owner |-> u, group |-> g]
                    ELSE [status |-> "free", owner |-> Anyone, group |-> NoGroup]]
    /\ sessions = [u \in Users |-> IF Exists(u) THEN 1 ELSE 0]
    /\ fails = [n \in Names |->
                  [count |-> IF n = AnyName THEN MaxFailures - 1 ELSE 0, lock |-> "no"]]
    /\ req = [p \in Procs |-> Blank]
    /\ begun = 0 /\ tried = 0
    /\ trail = acct
    /\ crossed = {} /\ hasty = {}

At(p, label) == req[p].pc = label
Goto(p, label) == req' = [req EXCEPT ![p].pc = label]
End(p) == req' = [req EXCEPT ![p] = Blank]

Begin(p, r) ==
    /\ At(p, "idle") /\ begun < MaxBegun /\ begun + tried < MaxRequests
    /\ begun' = begun + 1
    /\ req' = [req EXCEPT ![p] = [r EXCEPT !.no = begun + 1]]
    /\ UNCHANGED tried

-----------------------------------------------------------------------------
(* Who is asking: the credential, its user and its group are three reads.  *)

\* A session that was not logged out; one past its time is not used again.
BySession(p, u) ==
    /\ sessions[u] > 0
    /\ Begin(p, [Blank EXCEPT !.pc = "user", !.who = u])
    /\ UNCHANGED <<users, group, key, sessions, fails, history>>

\* An active key, not past its time; administrators may use one too.
ByKey(p, k) ==
    /\ key[k].status = "active"
    /\ Begin(p, [Blank EXCEPT !.pc = "user", !.who = key[k].owner,
                              !.grp = key[k].group])
    /\ UNCHANGED <<users, group, key, sessions, fails, history>>

ReadUser(p) ==
    /\ At(p, "user")
    /\ IF Exists(req[p].who) /\ acct[req[p].who].status = "active"
       THEN req' = [req EXCEPT ![p].role = acct[req[p].who].role,
                               ![p].pc = IF req[p].grp = NoGroup
                                         THEN "ready" ELSE "group"]
       ELSE End(p)
    /\ UNCHANGED <<users, group, key, sessions, fails, counts, history>>

ReadGroup(p) ==
    /\ At(p, "group")
    /\ IF group[req[p].grp] = "active" THEN Goto(p, "ready") ELSE End(p)
    /\ UNCHANGED <<users, group, key, sessions, fails, counts, history>>

\* Any error, a refusal, or a client that went away; what was written stays.
Abort(p) ==
    /\ ~At(p, "idle")
    /\ End(p)
    /\ crossed' = crossed \cup Unrecorded({p})
    /\ UNCHANGED <<users, group, key, sessions, fails, counts, trail, hasty>>

\* The process dies, and with it what it kept in memory.
Restart ==
    /\ req' = [p \in Procs |-> Blank]
    /\ fails' = [n \in Names |-> [count |-> 0, lock |-> "no"]]
    /\ crossed' = crossed \cup Unrecorded(Procs)
    /\ UNCHANGED <<users, group, key, sessions, counts, trail, hasty>>

-----------------------------------------------------------------------------
(* Administrators: a handler checks the account it is about, changes it    *)
(* and records the change.                                                 *)

RequireAdmin(p) == At(p, "ready") /\ req[p].role \in {"admin", "super"}
IsSuper(p) == req[p].role = "super"

TargetRequiresSuper(p, u) == acct[u].role = "super" /\ ~IsSuper(p)

\* Mutant of NotOneself: it is the role that is compared.
NotOnesRole(p, u) == acct[u].role # req[p].role \/ IsSuper(p)

NotOneself(p, u) == u # req[p].who

\* The handler may go on to the write, with what it was asked for.
Ask(p, label, kind, u, val, g, set) ==
    /\ RequireAdmin(p)
    /\ req' = [req EXCEPT ![p].pc = label, ![p].kind = kind, ![p].to = u,
                          ![p].val = val, ![p].grp = g, ![p].set = set]
    /\ UNCHANGED <<users, group, key, sessions, fails, counts, history>>

AskProfile(p, u) ==
    /\ Exists(u) /\ ~TargetRequiresSuper(p, u)
    /\ \E g \in Rows : Ask(p, "profile", "profile", u, "none", g, {})

AskStatus(p, u, val) ==
    /\ Exists(u)
    /\ val = "disabled" => NotOneself(p, u)
    /\ ~TargetRequiresSuper(p, u)
    /\ Ask(p, "status", "status", u, val, NoGroup, {})

AskRole(p, u, val) ==
    /\ IsSuper(p) /\ NotOneself(p, u) /\ Exists(u)
    /\ Ask(p, "role", "role", u, val, NoGroup, {})

\* More than manualAdjustLimit takes a super administrator.
AskAdjust(p, u, val) ==
    /\ val = "grant" => IsSuper(p)
    /\ Exists(u) /\ ~TargetRequiresSuper(p, u) /\ NotOneself(p, u)
    /\ Ask(p, "adjust", "adjust", u, val, NoGroup, {})

AskGroups(p, u, set) ==
    /\ Exists(u) /\ ~TargetRequiresSuper(p, u)
    /\ Ask(p, "groups", "groups", u, "none", NoGroup, set)

AskUser(p, u, val, g) ==
    /\ val # "user" => IsSuper(p)
    /\ g # NoGroup => group[g] \in {"active", "disabled"}
    /\ Ask(p, "create", "create", u, val, g, {})

\* The account p is about, if p's principal, or the account itself, is not
\* what it was when p looked.
Unfounded(p) ==
    IF /\ acct[req[p].who] = [role |-> req[p].role, status |-> "active"]
       /\ ~TargetRequiresSuper(p, req[p].to)
    THEN {} ELSE {req[p].to}

\* Others that wait to record an earlier change of the same come too late.
Overtake(p, label) ==
    [q \in Procs |->
        IF q = p THEN [req[p] EXCEPT !.pc = label]
        ELSE IF Pending(q, req[p].to, {req[p].kind, "create"})
        THEN [req[q] EXCEPT !.over = TRUE] ELSE req[q]]

UpdateUserProfile(p) ==
    /\ At(p, "profile")
    /\ default' = [default EXCEPT ![req[p].to] = req[p].grp]
    /\ Goto(p, "audit")
    /\ UNCHANGED <<acct, allowed, balance, group, key, sessions, fails, counts,
                   history>>

SetUserStatus(p) ==
    /\ At(p, "status")
    /\ acct' = [acct EXCEPT ![req[p].to].status = req[p].val]
    /\ req' = Overtake(p, "audit")
    /\ hasty' = hasty \cup Unfounded(p)
    /\ UNCHANGED <<default, allowed, balance, group, key, sessions, fails, counts,
                   trail, crossed>>

SetUserRole(p) ==
    /\ At(p, "role")
    /\ acct' = [acct EXCEPT ![req[p].to].role = req[p].val]
    /\ req' = Overtake(p, "audit")
    /\ hasty' = hasty \cup Unfounded(p)
    /\ UNCHANGED <<default, allowed, balance, group, key, sessions, fails, counts,
                   trail, crossed>>

\* One conditional update, and the ledger entry in the same transaction.
ManualBalanceAdjust(p) ==
    /\ At(p, "adjust")
    /\ balance[req[p].to] # NoRow /\ balance[req[p].to] + Amount[req[p].val] >= 0
    /\ balance' = [balance EXCEPT ![req[p].to] = @ + Amount[req[p].val]]
    /\ Goto(p, "audit")
    /\ UNCHANGED <<acct, default, allowed, group, key, sessions, fails, counts,
                   history>>

\* PUT of a user's groups: the transaction deletes the rows it sees ...
DeleteAllowed(p) ==
    /\ At(p, "groups")
    /\ req' = [req EXCEPT ![p].pc = "insert", ![p].seen = allowed[req[p].to]]
    /\ UNCHANGED <<users, group, key, sessions, fails, counts, history>>

\* Rows that came after the DELETE looked stay; there is one for each group.
Replaced(rows, seen, set, no) ==
    (rows \ seen) \cup [group : set \ GroupsOf(rows \ seen), no : {no}]

\* ... and inserts those asked for; read committed.
InsertAllowed(p) ==
    LET u == req[p].to IN
    /\ At(p, "insert")
    /\ allowed' = [allowed EXCEPT ![u] =
                      Replaced(@, req[p].seen, req[p].set, req[p].no)]
    /\ Goto(p, "audit")
    /\ UNCHANGED <<acct, default, balance, group, key, sessions, fails, counts,
                   trail, crossed, hasty>>

\* Mutant of Recorded: a change of role is recorded with the role of who asked.
Misrecorded(t, r) ==
    CASE r.kind = "role" -> [t EXCEPT ![r.to].role = r.role]
      [] r.kind = "status" -> [t EXCEPT ![r.to].status = r.val]
      [] r.kind = "create" -> [t EXCEPT ![r.to] = [role |-> r.val, status |-> "active"]]
      [] OTHER -> t

\* What the audit log says of the accounts once r is recorded.
Recorded(t, r) ==
    CASE r.kind = "role" -> [t EXCEPT ![r.to].role = r.val]
      [] r.kind = "status" -> [t EXCEPT ![r.to].status = r.val]
      [] r.kind = "create" -> [t EXCEPT ![r.to] = [role |-> r.val, status |-> "active"]]
      [] OTHER -> t

Audit(p) ==
    /\ At(p, "audit")
    /\ trail' = Recorded(trail, req[p])
    /\ crossed' = IF req[p].over THEN crossed \cup Unrecorded({p}) ELSE crossed
    /\ End(p)
    /\ UNCHANGED <<users, group, key, sessions, fails, counts, hasty>>

\* Groups: created in two statements, changed and deleted whoever uses them.
AskGroup(p, g) ==
    /\ \E label \in {"gcreate", "gpatch", "gdelete"}, val \in {"active", "disabled"} :
           /\ label = "gdelete" => val = "active"
           /\ label = "gpatch" => group[g] \in {"active", "disabled"}
           /\ Ask(p, label, "group", Anyone, val, g, {})

CreateGroup(p) ==
    /\ At(p, "gcreate") /\ group[req[p].grp] = "none"
    /\ group' = [group EXCEPT ![req[p].grp] = req[p].val]
    /\ Goto(p, "gpatch")
    /\ UNCHANGED <<users, key, sessions, fails, counts, history>>

UpdateGroup(p) ==
    /\ At(p, "gpatch") /\ group[req[p].grp] \in {"active", "disabled"}
    /\ group' = [group EXCEPT ![req[p].grp] = req[p].val]
    /\ Goto(p, "audit")
    /\ UNCHANGED <<users, key, sessions, fails, counts, history>>

DeleteGroup(p) ==
    /\ At(p, "gdelete") /\ group[req[p].grp] \in {"active", "disabled"}
    /\ group' = [group EXCEPT ![req[p].grp] = "deleted"]
    /\ Goto(p, "audit")
    /\ UNCHANGED <<users, key, sessions, fails, counts, history>>

-----------------------------------------------------------------------------
(* Registration and, with the same statements, a user an administrator     *)
(* creates.                                                                *)

FirstActiveGroup(g) ==
    group[g] = "active" /\ \A h \in Groups : group[h] = "active" => g <= h

Register(p, u) ==
    /\ \E g \in Groups :
           /\ FirstActiveGroup(g)
           /\ Begin(p, [Blank EXCEPT !.pc = "create", !.kind = "register",
                                     !.to = u, !.val = "user", !.grp = g])
    /\ UNCHANGED <<users, group, key, sessions, fails, history>>

\* Names are unique; nobody records a registration.
CreateUser(p) ==
    LET u == req[p].to  new == [role |-> req[p].val, status |-> "active"] IN
    /\ At(p, "create") /\ ~Exists(u)
    /\ acct' = [acct EXCEPT ![u] = new]
    /\ default' = [default EXCEPT ![u] = req[p].grp]
    /\ trail' = IF req[p].kind = "register" THEN [trail EXCEPT ![u] = new] ELSE trail
    /\ Goto(p, IF req[p].grp # NoGroup THEN "allow"
               ELSE IF req[p].kind = "register" THEN "ready" ELSE "audit")
    /\ UNCHANGED <<allowed, balance, group, key, sessions, fails, counts,
                   crossed, hasty>>

\* An error of this one is not looked at.
AllowUserGroup(p) ==
    LET u == req[p].to  g == req[p].grp IN
    /\ At(p, "allow")
    /\ \/ allowed' = [allowed EXCEPT ![u] =
                  IF g \in GroupsOf(@) THEN @ ELSE @ \cup {[group |-> g, no |-> req[p].no]}]
       \/ UNCHANGED allowed
    /\ IF req[p].kind = "register" THEN End(p) ELSE Goto(p, "audit")
    /\ UNCHANGED <<acct, default, balance, group, key, sessions, fails, counts,
                   trail, crossed, hasty>>

-----------------------------------------------------------------------------
(* Login.  Names are counted one by one, a user's and a mere guess alike.  *)

\* Mutant of Blocked: a name is looked up among those that are not locked.
NeverBlocked(n) == FALSE

Blocked(n) == fails[n].lock = "yes"

Login(p, n) ==
    /\ ~Blocked(n)
    /\ At(p, "idle") /\ begun + tried < MaxRequests
    /\ tried' = tried + 1
    /\ req' = [req EXCEPT ![p] = [Blank EXCEPT !.pc = "lookup", !.name = n]]
    /\ UNCHANGED <<users, group, key, sessions, fails, begun, history>>

\* UserByLogin; the hash of the password takes its time afterwards.
LookUp(p) ==
    /\ At(p, "lookup")
    /\ req' = [req EXCEPT ![p].pc = "verify", ![p].to = AccountOf[req[p].name],
                ![p].val = IF Exists(AccountOf[req[p].name])
                           THEN acct[AccountOf[req[p].name]].status ELSE "none"]
    /\ UNCHANGED <<users, group, key, sessions, fails, counts, history>>

Zero == [count |-> 0, lock |-> "no"]

Failed(f) ==
    LET count == (IF f.lock = "over" THEN 0 ELSE f.count) + 1 IN
    [count |-> count, lock |-> IF count >= MaxFailures THEN "yes" ELSE "no"]

\* pruneLocked: too many names are counted, those not locked are forgotten.
Pruned(fs) ==
    IF Cardinality({n \in Names : fs[n].count > 0}) > MaxTracked
    THEN [n \in Names |-> IF fs[n].lock = "yes" THEN fs[n] ELSE Zero]
    ELSE fs

RecordFailure(p) ==
    /\ At(p, "verify")
    /\ fails' = Pruned([fails EXCEPT ![req[p].name] = Failed(@)])
    /\ End(p)
    /\ UNCHANGED <<users, group, key, sessions, counts, history>>

\* The password is right and the user was active; else nothing is counted.
ClearFailures(p) ==
    /\ At(p, "verify") /\ req[p].val = "active"
    /\ fails' = [fails EXCEPT ![req[p].name] = Zero]
    /\ Goto(p, "session")
    /\ UNCHANGED <<users, group, key, sessions, counts, history>>

CreateAuthSession(p) ==
    /\ At(p, "session")
    /\ sessions' = [sessions EXCEPT ![req[p].to] = @ + 1]
    /\ End(p)
    /\ UNCHANGED <<users, group, key, fails, counts, history>>

\* loginLockWindow is over.
Unlock(n) ==
    /\ fails[n].lock = "yes"
    /\ fails' = [fails EXCEPT ![n].lock = "over"]
    /\ UNCHANGED <<users, group, key, sessions, req, counts, history>>

Logout(p) ==
    /\ At(p, "ready") /\ sessions[req[p].who] > 0
    /\ sessions' = [sessions EXCEPT ![req[p].who] = @ - 1]
    /\ End(p)
    /\ UNCHANGED <<users, group, key, fails, counts, history>>

-----------------------------------------------------------------------------
(* A user's own keys.                                                      *)

\* The group is one allowed and active, or the user's default.
AskKey(p, g) ==
    /\ At(p, "ready") /\ req[p].grp = NoGroup
    /\ \/ g \in GroupsOf(allowed[req[p].who]) /\ group[g] = "active"
       \/ g = default[req[p].who]
    /\ req' = [req EXCEPT ![p].pc = "keygroup", ![p].grp = g]
    /\ UNCHANGED <<users, group, key, sessions, fails, counts, history>>

CheckGroup(p) ==
    /\ At(p, "keygroup") /\ group[req[p].grp] = "active"
    /\ Goto(p, "count")
    /\ UNCHANGED <<users, group, key, sessions, fails, counts, history>>

\* Mutant of BelowLimit: one more than the limit.
AtLimit(u) == Cardinality(KeysOf(u)) <= KeyLimit

BelowLimit(u) == Cardinality(KeysOf(u)) < KeyLimit

CountUserKeys(p) ==
    /\ At(p, "count") /\ BelowLimit(req[p].who)
    /\ Goto(p, "newkey")
    /\ UNCHANGED <<users, group, key, sessions, fails, counts, history>>

CreateAPIKey(p) ==
    /\ At(p, "newkey")
    /\ \E k \in Keys :
           /\ ~Live(k)
           /\ key' = [key EXCEPT ![k] = [status |-> "active", owner |-> req[p].who,
                                         group |-> req[p].grp]]
    /\ End(p)
    /\ UNCHANGED <<users, group, sessions, fails, counts, history>>

UpdateAPIKeySelf(p) ==
    /\ At(p, "ready") /\ req[p].grp = NoGroup
    /\ \E k \in KeysOf(req[p].who), val \in {"active", "disabled"} :
           key' = [key EXCEPT ![k].status = val]
    /\ End(p)
    /\ UNCHANGED <<users, group, sessions, fails, counts, history>>

DeleteAPIKeyByUser(p) ==
    /\ At(p, "ready") /\ req[p].grp = NoGroup
    /\ \E k \in KeysOf(req[p].who) : key' = [key EXCEPT ![k].status = "free"]
    /\ End(p)
    /\ UNCHANGED <<users, group, sessions, fails, counts, history>>

-----------------------------------------------------------------------------
Principals(p) ==
    \/ \E u \in Users : BySession(p, u)
    \/ \E k \in Keys : ByKey(p, k)
    \/ ReadUser(p) \/ ReadGroup(p) \/ Abort(p)

Administration(p) ==
    \/ \E u \in Users :
           \/ AskProfile(p, u)
           \/ \E val \in {"active", "disabled"} : AskStatus(p, u, val)
           \/ \E val \in Roles : AskRole(p, u, val)
           \/ \E val \in DOMAIN Amount : AskAdjust(p, u, val)
           \/ \E set \in SUBSET Rows : AskGroups(p, u, set)
           \/ \E val \in Roles, g \in Groups \cup {NoGroup} :
                  ~Exists(u) /\ AskUser(p, u, val, g)
    \/ \E g \in Groups : AskGroup(p, g)
    \/ UpdateUserProfile(p) \/ SetUserStatus(p) \/ SetUserRole(p)
    \/ ManualBalanceAdjust(p) \/ DeleteAllowed(p) \/ InsertAllowed(p)
    \/ CreateGroup(p) \/ UpdateGroup(p) \/ DeleteGroup(p) \/ Audit(p)

Portal(p) ==
    \/ \E u \in Users : ~Exists(u) /\ Register(p, u)
    \/ CreateUser(p) \/ AllowUserGroup(p)
    \/ \E n \in Names : Login(p, n)
    \/ LookUp(p) \/ RecordFailure(p) \/ ClearFailures(p)
    \/ CreateAuthSession(p) \/ Logout(p)
    \/ \E g \in Groups : AskKey(p, g)
    \/ CheckGroup(p) \/ CountUserKeys(p) \/ CreateAPIKey(p)
    \/ UpdateAPIKeySelf(p) \/ DeleteAPIKeyByUser(p)

Next ==
    \/ \E p \in Procs : Principals(p) \/ Administration(p) \/ Portal(p)
    \/ \E n \in Names : Unlock(n)
    \/ Restart

Spec == Init /\ [][Next]_vars
-----------------------------------------------------------------------------
\* An active super administrator is left, whatever administrators do to each
\* other, unless one was changed on the word of a check that had ceased to
\* hold: two who demote or disable each other at once both succeed (admin.go,
\* handleUserRole and setUserActive; each forbids only oneself).
SuperLossHasCause == (\E u \in Users : ActiveSuper(u)) \/ hasty # {}

\* Keys are counted and made in separate statements: of requests side by side
\* each but one may exceed the limit by one (portal_keys.go).
KeysBounded ==
    \A u \in Users : Cardinality(KeysOf(u)) <= KeyLimit - 1 + Cardinality(Procs)

\* A name is locked between two critical sections, with the hashing of the
\* password between them: no more wrong passwords are tried for it than
\* MaxFailures and those that were on their way (portal_auth.go).
GuessesBounded ==
    \A n \in Names : fails[n].count <= MaxFailures - 1 + Cardinality(Procs)

\* The audit log tells the role and status an account has, but while a record
\* is being written, or where requests crossed or a record was lost: change
\* and record are separate statements (admin.go, audit).
AuditTells ==
    \A u \in Users :
        \/ trail[u] = acct[u]
        \/ u \in crossed
        \/ \E p \in Procs : Pending(p, u, {"role", "status", "create"})
=============================================================================
