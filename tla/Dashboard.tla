----------------------------- MODULE Dashboard -----------------------------
(***************************************************************************)
(* Access to the web dashboard: the login throttle (per account and        *)
(* global), the in-memory sessions and their cap, and the role check that  *)
(* stands before every page and every write to the daemon.                 *)
(*                                                                         *)
(* Requests are served concurrently: a login derives its key between the   *)
(* throttle's two locks, and a role is looked up before the handler runs.  *)
(* Credentials are right or wrong, tokens are numbers in order of issue.   *)
(***************************************************************************)
EXTENDS Integers, FiniteSetsExt, SequencesExt

CONSTANTS
  DbReqs,          \* requests that can be in flight at once
  DbUsers,         \* config-provisioned users
  DbAdmins,        \* accounts of the auth store
  DbNames,         \* sequence of names nobody has, tried at /login one after the other
  DbScenes,        \* bound: of "login", "names", "session", what a behaviour exercises
  DbMax, DbWindow, DbLockout, DbGlobalMax,   \* the throttle's constants
  DbCap, DbTimeout,                          \* maxSessionsPerUser, SessionTimeout
  DbMaxTime, DbMaxTries, DbMaxReloads        \* bounds: clock, requests per scene, reloads

DbRoles == <<"viewer", "operator", "admin">>
DbAny == DbUsers \cup DbAdmins \cup ToSet(DbNames)

ASSUME DbConstants ==
  /\ {DbMax, DbWindow, DbLockout, DbGlobalMax, DbCap, DbTimeout} \subseteq Nat \ {0}
  /\ DbMaxTime \in Nat \ {0} /\ DbMaxReloads \in Nat /\ IsFiniteSet(DbReqs)
  /\ DbWindow <= DbLockout /\ DbScenes \subseteq {"login", "names", "session"}
  /\ DbUsers \cap DbAdmins = {} /\ ToSet(DbNames) \cap (DbUsers \cup DbAdmins) = {}
  /\ DbNames \in Seq(ToSet(DbNames)) /\ DbMaxTries \in [DbScenes -> 0 .. Len(DbNames)]

VARIABLES
  dbScene,      \* what this behaviour exercises; never changes
  dbNow, dbTries, dbReloads,   \* clock and bounded counters
  dbRole,       \* userSet: level of each config user in DbRoles, 0 when absent
  dbEntries,    \* sessionStore.entries: token -> [user, expires]
  dbPer,        \* sessionStore.perUser
  dbIssued,     \* tokens issued so far
  dbFail,       \* loginThrottle.failures: name -> [stamps, until]
  dbGlobal,     \* loginThrottle.globalStamps
  dbReq,        \* the requests in flight
  dbWrites,     \* history: writes that reached the daemon
  dbGuesses     \* history: per name, times of wrong guesses since the last right one

dbThrottle == <<dbFail, dbGlobal, dbGuesses>>
dbSessions == <<dbEntries, dbPer, dbIssued>>
dbVars == <<dbScene, dbNow, dbTries, dbReloads, dbRole, dbSessions, dbThrottle, dbReq, dbWrites>>

DbIdle == [pc |-> "idle", user |-> "", good |-> FALSE, tok |-> 0, act |-> "", csrf |-> FALSE,
           reloaded |-> FALSE]

DbInit ==
  /\ dbScene \in DbScenes
  /\ dbNow = 1 /\ dbTries = 0 /\ dbReloads = 0
  /\ dbRole \in [DbUsers -> IF dbScene = "session" THEN {2, 3} ELSE {1}]
  /\ dbEntries = <<>> /\ dbIssued = 0
  /\ dbPer = [u \in DbUsers \cup DbAdmins |-> <<>>]
  /\ dbFail = <<>> /\ dbGlobal = <<>>
  /\ dbReq = [r \in DbReqs |-> DbIdle]
  /\ dbWrites = 0
  /\ dbGuesses = [u \in DbAny |-> <<>>]

---------------------------------------------------------------------------
(* The login throttle.                                                     *)

\* trimStamps: stamps are in order of time, so what is out of the window leads
DbTrim(stamps) ==
  SubSeq(stamps, Cardinality({i \in DOMAIN stamps : stamps[i] <= dbNow - DbWindow}) + 1, Len(stamps))

DbLocked(u) == u \in DOMAIN dbFail /\ dbNow < dbFail[u].until
DbUnlocked(u) == u \in DOMAIN dbFail /\ dbFail[u].until # 0 /\ dbNow >= dbFail[u].until

\* Allow, and what it forgets: an expired lockout leaves a clean slate
DbAllow(u) == Len(DbTrim(dbGlobal)) < DbGlobalMax /\ ~DbLocked(u)

DbLoginAllowed(r, u, good) ==
  /\ dbReq[r] = DbIdle /\ dbTries < DbMaxTries[dbScene] /\ DbAllow(u)
  /\ dbTries' = dbTries + 1
  /\ dbGlobal' = DbTrim(dbGlobal)
  /\ dbFail' = IF DbUnlocked(u) THEN Restrict(dbFail, DOMAIN dbFail \ {u}) ELSE dbFail
  /\ dbReq' = [dbReq EXCEPT ![r] = [DbIdle EXCEPT !.pc = "verify", !.user = u, !.good = good]]
  /\ UNCHANGED <<dbScene, dbNow, dbReloads, dbRole, dbSessions, dbWrites, dbGuesses>>

DbLoginRefused(u) ==
  /\ dbTries < DbMaxTries[dbScene] /\ ~DbAllow(u)
  /\ dbTries' = dbTries + 1
  /\ dbGlobal' = DbTrim(dbGlobal)
  /\ UNCHANGED <<dbScene, dbNow, dbReloads, dbRole, dbSessions, dbFail, dbReq, dbWrites, dbGuesses>>

\* a config user's token, else the auth store's password or a decoy
DbVerified(r) ==
  /\ dbReq[r].good
  /\ \/ dbReq[r].user \in DbUsers /\ dbRole[dbReq[r].user] > 0
     \/ dbReq[r].user \in DbAdmins

\* RecordFailure: the account's stamps, its lockout, and the map kept bounded
DbUntilFirst(stamps) == IF Len(stamps) >= DbMax THEN Head(stamps) + DbLockout ELSE 0
DbUntil(stamps) == IF Len(stamps) >= DbMax THEN dbNow + DbLockout ELSE 0

DbPruned(fails) ==
  IF Cardinality(DOMAIN fails) <= DbGlobalMax THEN fails
  ELSE Restrict([n \in DOMAIN fails |-> [fails[n] EXCEPT !.stamps = DbTrim(@)]],
                {n \in DOMAIN fails : DbTrim(fails[n].stamps) # <<>> \/ dbNow < fails[n].until})

DbFailed(u) ==
  LET old == IF u \in DOMAIN dbFail THEN dbFail[u] ELSE [stamps |-> <<>>, until |-> 0]
      stamps == Append(DbTrim(old.stamps), dbNow)
      until == IF DbUntil(stamps) # 0 THEN DbUntil(stamps) ELSE old.until
  IN DbPruned([n \in DOMAIN dbFail \cup {u} |->
                 IF n = u THEN [stamps |-> stamps, until |-> until] ELSE dbFail[n]])

DbLoginWrong(r) ==
  /\ dbReq[r].pc = "verify" /\ ~DbVerified(r)
  /\ LET u == dbReq[r].user IN
       /\ dbFail' = DbFailed(u)
       /\ dbGuesses' = [dbGuesses EXCEPT ![u] = Append(@, dbNow)]
  /\ dbGlobal' = Append(DbTrim(dbGlobal), dbNow)
  /\ dbReq' = [dbReq EXCEPT ![r] = DbIdle]
  /\ UNCHANGED <<dbScene, dbNow, dbTries, dbReloads, dbRole, dbSessions, dbWrites>>

\* Clear, before the session is created
DbLoginRight(r) ==
  /\ dbReq[r].pc = "verify" /\ DbVerified(r)
  /\ LET u == dbReq[r].user IN
       /\ dbFail' = Restrict(dbFail, DOMAIN dbFail \ {u})
       /\ dbGuesses' = [dbGuesses EXCEPT ![u] = <<>>]
  /\ dbReq' = [dbReq EXCEPT ![r].pc = "create"]
  /\ UNCHANGED <<dbScene, dbNow, dbTries, dbReloads, dbRole, dbSessions, dbGlobal, dbWrites>>

\* the auth store could not be read: an error page, nothing counted
DbLookupFails(r) ==
  /\ dbReq[r].pc = "verify" /\ ~(dbReq[r].user \in DbUsers /\ DbVerified(r))
  /\ dbReq' = [dbReq EXCEPT ![r] = DbIdle]
  /\ UNCHANGED <<dbScene, dbNow, dbTries, dbReloads, dbRole, dbSessions, dbThrottle, dbWrites>>

---------------------------------------------------------------------------
(* Sessions.                                                               *)

\* enforceCapLocked: the oldest go until there is room for one more
DbEvicted(u) == SubSeq(dbPer[u], 1, Len(dbPer[u]) - (DbCap - 1))

DbCreate(r) ==
  /\ dbReq[r].pc = "create"
  /\ LET u == dbReq[r].user
         tok == dbIssued + 1
         gone == ToSet(DbEvicted(u))
     IN /\ dbIssued' = tok
        /\ dbEntries' = [t \in (DOMAIN dbEntries \ gone) \cup {tok} |->
                           IF t = tok THEN [user |-> u, expires |-> dbNow + DbTimeout] ELSE dbEntries[t]]
        /\ dbPer' = [dbPer EXCEPT ![u] = Append(SubSeq(@, Len(DbEvicted(u)) + 1, Len(@)), tok)]
  /\ dbReq' = [dbReq EXCEPT ![r] = DbIdle]
  /\ UNCHANGED <<dbScene, dbNow, dbTries, dbReloads, dbRole, dbThrottle, dbWrites>>

\* removeLocked: out of the entries and out of the account's list
DbListWithout(tok) == [dbPer EXCEPT ![dbEntries[tok].user] = RemoveFirst(@, tok)]
DbRemove(tok) ==
  IF tok \in DOMAIN dbEntries
  THEN /\ dbEntries' = Restrict(dbEntries, DOMAIN dbEntries \ {tok})
       /\ dbPer' = DbListWithout(tok)
  ELSE UNCHANGED <<dbEntries, dbPer>>

\* requireAuth: a cookie names a session, is Looked up, and slides its expiry
DbArrives(r, tok, act, csrf) ==
  /\ dbReq[r] = DbIdle /\ dbTries < DbMaxTries[dbScene] /\ tok <= dbIssued
  /\ dbTries' = dbTries + 1
  /\ UNCHANGED <<dbScene, dbNow, dbReloads, dbRole, dbIssued, dbThrottle, dbWrites>>
  /\ \/ /\ tok \in DOMAIN dbEntries /\ dbNow < dbEntries[tok].expires
        /\ dbEntries' = [dbEntries EXCEPT ![tok].expires = dbNow + DbTimeout]
        /\ dbReq' = [dbReq EXCEPT ![r] = [DbIdle EXCEPT !.pc = "role", !.user = dbEntries[tok].user,
                                          !.tok = tok, !.act = act, !.csrf = csrf]]
        /\ UNCHANGED dbPer
     \/ /\ ~(tok \in DOMAIN dbEntries /\ dbNow < dbEntries[tok].expires)
        /\ DbRemove(tok)
        /\ UNCHANGED dbReq

---------------------------------------------------------------------------
(* Roles and handlers.                                                     *)

\* roleFor, at the time of the request; 0 for a user no longer known
DbRoleFor(u) == IF u \in DbUsers THEN dbRole[u] ELSE IF u \in DbAdmins THEN 3 ELSE 0

\* actionRoles
DbNeed(act) == CASE act \in {"view", "logout"} -> 1 [] act = "ban" -> 2 [] OTHER -> 3

DbUnknown(r) ==
  /\ dbReq[r].pc = "role" /\ DbRoleFor(dbReq[r].user) = 0
  /\ DbRemove(dbReq[r].tok)
  /\ dbReq' = [dbReq EXCEPT ![r] = DbIdle]
  /\ UNCHANGED <<dbScene, dbNow, dbTries, dbReloads, dbRole, dbIssued, dbThrottle, dbWrites>>

DbEnds(r) ==
  /\ dbReq' = [dbReq EXCEPT ![r] = DbIdle]
  /\ UNCHANGED <<dbScene, dbNow, dbTries, dbReloads, dbRole, dbSessions, dbThrottle, dbWrites>>

DbDenied(r) ==
  dbReq[r].pc = "role" /\ DbRoleFor(dbReq[r].user) \in 1 .. DbNeed(dbReq[r].act) - 1 /\ DbEnds(r)

DbGranted(r) ==
  /\ dbReq[r].pc = "role"
  /\ DbRoleFor(dbReq[r].user) > 0 /\ DbRoleFor(dbReq[r].user) >= DbNeed(dbReq[r].act)
  /\ dbReq' = [dbReq EXCEPT ![r].pc = "handle"]
  /\ UNCHANGED <<dbScene, dbNow, dbTries, dbReloads, dbRole, dbSessions, dbThrottle, dbWrites>>

\* a page shows what the daemon answered, or that it is offline
DbPage(r) == dbReq[r].pc = "handle" /\ dbReq[r].act = "view" /\ DbEnds(r)

\* a POST whose token is not its session's, or whose form is refused
DbCsrf(r) == dbReq[r].csrf
DbForged(r) == dbReq[r].pc = "handle" /\ dbReq[r].act # "view" /\ ~DbCsrf(r) /\ DbEnds(r)
DbBadForm(r) == dbReq[r].pc = "handle" /\ dbReq[r].act \in {"ban", "allow"} /\ DbCsrf(r) /\ DbEnds(r)

DbLogout(r) ==
  /\ dbReq[r].pc = "handle" /\ dbReq[r].act = "logout" /\ DbCsrf(r)
  /\ DbRemove(dbReq[r].tok)
  /\ dbReq' = [dbReq EXCEPT ![r] = DbIdle]
  /\ UNCHANGED <<dbScene, dbNow, dbTries, dbReloads, dbRole, dbIssued, dbThrottle, dbWrites>>

\* handleBanPost, handleUnbanPost, handleAllowPost: the request reaches the daemon
DbWrite(r) ==
  /\ dbReq[r].pc = "handle" /\ dbReq[r].act \in {"ban", "allow"} /\ DbCsrf(r)
  /\ dbWrites' = dbWrites + 1
  /\ dbReq' = [dbReq EXCEPT ![r] = DbIdle]
  /\ UNCHANGED <<dbScene, dbNow, dbTries, dbReloads, dbRole, dbSessions, dbThrottle>>

\* the daemon is offline or refuses: the operator sees an error
DbWriteFails(r) == dbReq[r].pc = "handle" /\ dbReq[r].act \in {"ban", "allow"} /\ DbCsrf(r) /\ DbEnds(r)

\* ReloadUsers: requests already past the role check go on with what it found
DbReload(roles) ==
  /\ dbScene = "session" /\ dbReloads < DbMaxReloads
  /\ dbReloads' = dbReloads + 1
  /\ dbRole' = roles
  /\ dbReq' = [r \in DbReqs |-> [dbReq[r] EXCEPT !.reloaded = dbReq[r].pc = "handle"]]
  /\ UNCHANGED <<dbScene, dbNow, dbTries, dbSessions, dbThrottle, dbWrites>>

DbTick ==
  /\ dbNow < DbMaxTime /\ dbNow' = dbNow + 1
  /\ UNCHANGED <<dbScene, dbTries, dbReloads, dbRole, dbSessions, dbThrottle, dbReq, dbWrites>>

DbNext ==
  \/ /\ dbScene = "login"
     /\ \/ \E r \in DbReqs, u \in DbAdmins, good \in BOOLEAN : DbLoginAllowed(r, u, good)
        \/ \E u \in DbAdmins : DbLoginRefused(u)
  \/ /\ dbScene = "names" /\ dbTries < DbMaxTries[dbScene]
     /\ \/ \E r \in DbReqs : DbLoginAllowed(r, DbNames[dbTries + 1], FALSE)
        \/ DbLoginRefused(DbNames[dbTries + 1])
  \/ /\ dbScene = "session"
     /\ \/ \E r \in DbReqs, u \in DbUsers : DbLoginAllowed(r, u, TRUE)
        \/ \E r \in DbReqs, tok \in 1 .. dbIssued, csrf \in BOOLEAN :
             \E act \in {"view", "logout", "ban", "allow"} : DbArrives(r, tok, act, csrf)
        \/ \E roles \in [DbUsers -> 0 .. 3] : DbReload(roles)
  \/ \E r \in DbReqs :
       \/ DbLoginWrong(r) \/ DbLoginRight(r) \/ DbLookupFails(r) \/ DbCreate(r)
       \/ DbUnknown(r) \/ DbDenied(r) \/ DbGranted(r) \/ DbPage(r) \/ DbForged(r)
       \/ DbBadForm(r) \/ DbLogout(r) \/ DbWrite(r) \/ DbWriteFails(r)
  \/ DbTick

DbSpec == DbInit /\ [][DbNext]_dbVars

---------------------------------------------------------------------------
\* Every variable holds values of its type.
DbTypeOK ==
  /\ dbNow \in 1 .. DbMaxTime /\ dbTries \in 0 .. DbMaxTries[dbScene] /\ dbIssued \in 0 .. dbTries
  /\ dbRole \in [DbUsers -> 0 .. 3]
  /\ DOMAIN dbEntries \subseteq 1 .. dbIssued /\ DOMAIN dbFail \subseteq DbAny
  /\ \A r \in DbReqs : dbReq[r].pc \in {"idle", "verify", "create", "role", "handle"}

\* The two indexes of the session store agree: an account's list is its live
\* sessions in order of login, and never more than maxSessionsPerUser of them,
\* whatever expiry, logout, eviction and removal of users did in between.
DbSessionsExact ==
  \A u \in DbUsers \cup DbAdmins :
    /\ ToSet(dbPer[u]) = {t \in DOMAIN dbEntries : dbEntries[t].user = u}
    /\ Len(dbPer[u]) <= DbCap
    /\ \A i, j \in DOMAIN dbPer[u] : i < j => dbPer[u][i] < dbPer[u][j]

\* Guessing is slowed down even by concurrent logins: inside one window, all
\* accounts together see at most DbGlobalMax - 1 wrong guesses plus the requests
\* in flight, and one account DbMax - 1 plus those since its last clean slate and
\* at most DbMax - 1 before it, of requests that outlasted the lockout.
DbGuessBound ==
  LET recent(s) == Len(DbTrim(s)) IN
    /\ \A u \in DbAny : recent(dbGuesses[u]) <= 2 * (DbMax - 1) + Cardinality(DbReqs)
    /\ recent(dbGlobal) <= DbGlobalMax - 1 + Cardinality(DbReqs)

\* The throttle's map stays bounded when every guess uses a new name.
DbThrottleBounded == Cardinality(DOMAIN dbFail) <= DbGlobalMax + Cardinality(DbReqs) - 1

\* A reload applies to live sessions at once: only a request whose role was
\* checked before it may still write with the role the user then had, and a
\* user who is gone writes nothing.
DbRoleCurrent == [][
  \A r \in DbReqs :
    (dbWrites' # dbWrites /\ dbReq'[r] # dbReq[r] /\ ~dbReq[r].reloaded) =>
      \/ dbReq[r].user \in DbAdmins
      \/ dbRole[dbReq[r].user] >= (IF dbReq[r].act = "ban" THEN 2 ELSE 3)]_dbVars

\* Sign-in, sessions and roles with concurrent requests: the session indexes
\* agree, guessing is bounded, the throttle's memory too, and a reload counts.
DbSafe == [](DbTypeOK /\ DbSessionsExact /\ DbGuessBound /\ DbThrottleBounded) /\ DbRoleCurrent
=============================================================================
