----------------------------- MODULE AuthCache ------------------------------
(***************************************************************************)
(* Authentication: tokens in the database, cached in Redis.                *)
(*                                                                         *)
(* Every request with a token passes the Auth middleware, which asks       *)
(* FindUserByToken: the session comes from the cache or else from the      *)
(* database, and then the user, with roles and teams, in the same way.     *)
(* What was read from the database is put in the cache in a step of its    *)
(* own, so that a logout or a change of rights may fall in between.  Login *)
(* and Register fill the cache too.  Errors of the cache are ignored       *)
(* everywhere, and so are those of the database in Logout.                 *)
(*                                                                         *)
(* Time is counted in ticks that remain: of a session until it expires, of *)
(* a cache entry until Redis drops it.                                     *)
(***************************************************************************)
EXTENDS Naturals, FiniteSets

CONSTANTS
  Users,        \* accounts, registered or not
  Tokens,       \* tokens ever issued
  DemoTokens,   \* tokens of the seed, valid from the start
  DemoOwner,    \* DemoOwner[t]: the user of demo token t
  Lookups,      \* requests with a token, one after the other in each process
  Logins,       \* login and register requests
  Admins,       \* requests that change a user's rights
  Life,         \* accessTokenTTL, in ticks
  ContextTTL,   \* userContextTTL, in ticks
  MaxRights,    \* bound: versions of a user's rights
  CacheFaults,  \* whether a cache call may fail
  RepoFaults,   \* whether a database call may fail
  Restarts,     \* whether the server restarts, running the seed
  None          \* no token, no user

ASSUME AuthAssumption ==
  /\ DemoTokens \subseteq Tokens
  /\ DemoOwner \in [DemoTokens -> Users]
  /\ {Life, ContextTTL, MaxRights} \subseteq Nat \ {0}
  /\ {CacheFaults, RepoFaults, Restarts} \subseteq BOOLEAN
  /\ None \notin Tokens \cup Users

VARIABLES
  rights,        \* rights[u]: version of u's roles and teams; 0: no account
  sessions,      \* sessions[t]: the row of auth_sessions
  sessionCache,  \* sessionCache[t]: ticks the cached session has; 0: none
  contextCache,  \* contextCache[u]: the cached user and the ticks it has
  lookup,        \* lookup[p]: the local state of a request with a token
  login,         \* login[g]: the local state of a login or register request
  admin,         \* admin[a]: the local state of a change of rights
  loggedOut      \* tokens whose Logout has answered (for the properties only)

database == <<rights, sessions>>
caches   == <<sessionCache, contextCache>>
vars     == <<database, caches, lookup, login, admin, loggedOut>>

-----------------------------------------------------------------------------
(* Values. *)

\* A session whose `left' is 0 has expired.
Session == [user : Users \cup {None}, left : 0..Life, revoked : BOOLEAN]
Context == [rights : 0..MaxRights, ttl : 0..ContextTTL]

\* left: what remains of the session in hand; rights: the user in hand;
\* late: the request came after its token's Logout had answered.
LookupState ==
  [pc : {"idle", "find", "fill", "check", "drop", "context", "user",
         "fillContext", "handler", "forget"},
   token : Tokens \cup {None}, left : 0..Life, rights : 0..MaxRights,
   late : BOOLEAN]

LoginState ==
  [pc : {"idle", "create", "session", "findUser", "fill", "fillContext",
         "ended", "refused"},
   op : {"login", "register"}, user : Users \cup {None},
   token : Tokens \cup {None}, left : 0..Life, rights : 0..MaxRights]

AdminState == [pc : {"idle", "invalidate", "ended"}, user : Users \cup {None}]

TypeOK ==
  /\ rights \in [Users -> 0..MaxRights]
  /\ sessions \in [Tokens -> Session]
  /\ sessionCache \in [Tokens -> 0..Life]
  /\ contextCache \in [Users -> Context]
  /\ lookup \in [Lookups -> LookupState]
  /\ login \in [Logins -> LoginState]
  /\ admin \in [Admins -> AdminState]
  /\ loggedOut \subseteq Tokens

IdleLookup == [pc |-> "idle", token |-> None, left |-> 0, rights |-> 0,
               late |-> FALSE]
IdleLogin  == [pc |-> "idle", op |-> "login", user |-> None, token |-> None,
               left |-> 0, rights |-> 0]

\* The seed has run: the demo users have accounts and sessions.
Init ==
  /\ rights = [u \in Users |-> IF \E t \in DemoTokens : DemoOwner[t] = u
                               THEN 1 ELSE 0]
  /\ sessions = [t \in Tokens |->
       IF t \in DemoTokens
       THEN [user |-> DemoOwner[t], left |-> Life, revoked |-> FALSE]
       ELSE [user |-> None, left |-> 0, revoked |-> FALSE]]
  /\ sessionCache = [t \in Tokens |-> 0]
  /\ contextCache = [u \in Users |-> [rights |-> 0, ttl |-> 0]]
  /\ lookup = [p \in Lookups |-> IdleLookup]
  /\ login = [g \in Logins |-> IdleLogin]
  /\ admin = [a \in Admins |-> [pc |-> "idle", user |-> None]]
  /\ loggedOut = {}

-----------------------------------------------------------------------------
(* The cache.  A call either works or, with faults, has no effect; its error *)
(* is ignored by every caller, and a failed read counts as a miss.           *)

UserOf(p) == sessions[lookup[p].token].user

\* SetSession with a TTL that is not positive deletes the entry.
StoreSession(t, left) ==
  \/ sessionCache' = [sessionCache EXCEPT ![t] = left]
  \/ CacheFaults /\ UNCHANGED sessionCache
DeleteSession(t) == StoreSession(t, 0)

\* Faulty: the life of a cached user is added to what it has left.
StoreContextLonger(u, v) ==
  \/ contextCache' = [contextCache EXCEPT ![u] = [rights |-> v,
                                       ttl |-> contextCache[u].ttl + ContextTTL]]
  \/ CacheFaults /\ UNCHANGED contextCache

StoreContext(u, v) ==
  \/ contextCache' = [contextCache EXCEPT ![u] = [rights |-> v,
                                                  ttl |-> ContextTTL]]
  \/ CacheFaults /\ UNCHANGED contextCache
DeleteUserContext(u) ==
  \/ contextCache' = [contextCache EXCEPT ![u] = [rights |-> 0, ttl |-> 0]]
  \/ CacheFaults /\ UNCHANGED contextCache

-----------------------------------------------------------------------------
(* FindUserByToken. *)

\* A request ends; its process waits for another one.
Ends(p) == lookup' = [lookup EXCEPT ![p] = IdleLookup]

\* Tokens that a client can hold: those of the seed, and those a login or
\* register request has answered with.
Known(t) ==
  t \in DemoTokens \/ \E g \in Logins : login[g].pc = "ended" /\ login[g].token = t

\* GetSession finds the session in the cache ...
GetSession(p) ==
  /\ lookup[p].pc = "idle"
  /\ \E t \in Tokens :
       /\ Known(t) /\ sessionCache[t] > 0
       /\ lookup' = [lookup EXCEPT ![p] =
            [IdleLookup EXCEPT !.pc = "check", !.token = t,
                               !.left = sessionCache[t],
                               !.late = t \in loggedOut]]
  /\ UNCHANGED <<database, caches, login, admin, loggedOut>>

\* ... or not.
MissSession(p) ==
  /\ lookup[p].pc = "idle"
  /\ \E t \in Tokens :
       /\ Known(t)
       /\ sessionCache[t] = 0 \/ CacheFaults
       /\ lookup' = [lookup EXCEPT ![p] =
            [IdleLookup EXCEPT !.pc = "find", !.token = t,
                               !.late = t \in loggedOut]]
  /\ UNCHANGED <<database, caches, login, admin, loggedOut>>

\* Faulty: a revoked session is found.
FindRevokedSession(p) ==
  /\ lookup[p].pc = "find"
  /\ LET row == sessions[lookup[p].token] IN
       \/ /\ row.left > 0
          /\ lookup' = [lookup EXCEPT ![p].pc = "fill", ![p].left = row.left]
       \/ row.left = 0 /\ Ends(p)
  /\ UNCHANGED <<database, caches, login, admin, loggedOut>>

\* FindSessionByToken: TOKEN_REVOKED, TOKEN_EXPIRED, an error, or the session.
FindSessionByToken(p) ==
  /\ lookup[p].pc = "find"
  /\ LET row == sessions[lookup[p].token] IN
       \/ /\ ~row.revoked /\ row.left > 0
          /\ lookup' = [lookup EXCEPT ![p].pc = "fill", ![p].left = row.left]
       \/ /\ row.revoked \/ row.left = 0 \/ RepoFaults
          /\ Ends(p)
  /\ UNCHANGED <<database, caches, login, admin, loggedOut>>

FillSession(p) ==
  /\ lookup[p].pc = "fill"
  /\ StoreSession(lookup[p].token, lookup[p].left)
  /\ lookup' = [lookup EXCEPT ![p].pc = "check"]
  /\ UNCHANGED <<database, contextCache, login, admin, loggedOut>>

\* Faulty: what comes from the cache has not expired.
TrustSession(p) ==
  /\ lookup[p].pc = "check"
  /\ lookup' = [lookup EXCEPT ![p].pc = "context"]
  /\ UNCHANGED <<database, caches, login, admin, loggedOut>>

\* An expired session is refused, and removed from the cache.
CheckExpiry(p) ==
  /\ lookup[p].pc = "check"
  /\ lookup' = [lookup EXCEPT ![p].pc =
                  IF lookup[p].left > 0 THEN "context" ELSE "drop"]
  /\ UNCHANGED <<database, caches, login, admin, loggedOut>>

DropExpired(p) ==
  /\ lookup[p].pc = "drop"
  /\ DeleteSession(lookup[p].token)
  /\ Ends(p)
  /\ UNCHANGED <<database, contextCache, login, admin, loggedOut>>

\* Faulty: every use of a cached user prolongs its life.
GetUserContextSliding(p) ==
  /\ lookup[p].pc = "context"
  /\ LET c == contextCache[UserOf(p)] IN
       \/ /\ c.ttl > 0
          /\ contextCache' = [contextCache EXCEPT ![UserOf(p)].ttl = ContextTTL]
          /\ lookup' = [lookup EXCEPT ![p].pc = "handler",
                                      ![p].rights = c.rights]
       \/ /\ c.ttl = 0 \/ CacheFaults
          /\ UNCHANGED contextCache
          /\ lookup' = [lookup EXCEPT ![p].pc = "user"]
  /\ UNCHANGED <<database, sessionCache, login, admin, loggedOut>>

GetUserContext(p) ==
  /\ lookup[p].pc = "context"
  /\ LET c == contextCache[UserOf(p)] IN
       \/ /\ c.ttl > 0
          /\ lookup' = [lookup EXCEPT ![p].pc = "handler",
                                      ![p].rights = c.rights]
       \/ /\ c.ttl = 0 \/ CacheFaults
          /\ lookup' = [lookup EXCEPT ![p].pc = "user"]
  /\ UNCHANGED <<database, caches, login, admin, loggedOut>>

FindByID(p) ==
  /\ lookup[p].pc = "user"
  /\ \/ lookup' = [lookup EXCEPT ![p].pc = "fillContext",
                                 ![p].rights = rights[UserOf(p)]]
     \/ RepoFaults /\ Ends(p)
  /\ UNCHANGED <<database, caches, login, admin, loggedOut>>

FillUserContext(p) ==
  /\ lookup[p].pc = "fillContext"
  /\ StoreContext(UserOf(p), lookup[p].rights)
  /\ lookup' = [lookup EXCEPT ![p].pc = "handler"]
  /\ UNCHANGED <<database, sessionCache, login, admin, loggedOut>>

-----------------------------------------------------------------------------
(* The handler, with the user and the token in its context. *)

\* Any handler but logout's.
Handle(p) ==
  /\ lookup[p].pc = "handler"
  /\ Ends(p)
  /\ UNCHANGED <<database, caches, login, admin, loggedOut>>

\* Logout: the row is revoked, whatever the database answers ...
RevokeToken(p) ==
  /\ lookup[p].pc = "handler"
  /\ \/ sessions' = [sessions EXCEPT ![lookup[p].token].revoked = TRUE]
     \/ RepoFaults /\ UNCHANGED sessions
  /\ lookup' = [lookup EXCEPT ![p].pc = "forget"]
  /\ UNCHANGED <<rights, caches, login, admin, loggedOut>>

\* ... and the cached session is deleted, whatever the cache answers.
ForgetToken(p) ==
  /\ lookup[p].pc = "forget"
  /\ DeleteSession(lookup[p].token)
  /\ loggedOut' = loggedOut \cup {lookup[p].token}
  /\ Ends(p)
  /\ UNCHANGED <<database, contextCache, login, admin>>

-----------------------------------------------------------------------------
(* Login and Register. *)

Refuse(g) == login' = [login EXCEPT ![g].pc = "refused"]

\* Login: FindByAccount answers the user, and the password is right; or not.
BeginLogin(g) ==
  /\ login[g].pc = "idle"
  /\ \E u \in Users :
       /\ rights[u] > 0
       /\ login' = [login EXCEPT ![g].pc = "session", ![g].op = "login",
                                 ![g].user = u, ![g].rights = rights[u]]
  /\ UNCHANGED <<database, caches, lookup, admin, loggedOut>>

\* Register: FindByAccount answers that there is no such account.
BeginRegister(g) ==
  /\ login[g].pc = "idle"
  /\ \E u \in Users :
       /\ rights[u] = 0
       /\ login' = [login EXCEPT ![g].pc = "create", ![g].op = "register",
                                 ![g].user = u]
  /\ UNCHANGED <<database, caches, lookup, admin, loggedOut>>

\* Faulty: the account is stored whether or not it exists.
CreateAnyway(g) ==
  /\ login[g].pc = "create"
  /\ rights' = [rights EXCEPT ![login[g].user] = 1]
  /\ login' = [login EXCEPT ![g].pc = "session"]
  /\ UNCHANGED <<sessions, caches, lookup, admin, loggedOut>>

\* Create: one transaction; accounts are unique in the database.
Create(g) ==
  /\ login[g].pc = "create"
  /\ \/ /\ rights[login[g].user] = 0
        /\ rights' = [rights EXCEPT ![login[g].user] = 1]
        /\ login' = [login EXCEPT ![g].pc = "session"]
     \/ /\ rights[login[g].user] > 0 \/ RepoFaults
        /\ Refuse(g)
        /\ UNCHANGED rights
  /\ UNCHANGED <<sessions, caches, lookup, admin, loggedOut>>

\* CreateSession with a fresh token that lives for accessTokenTTL.
CreateSession(g) ==
  /\ login[g].pc = "session"
  /\ \/ \E t \in Tokens :
          /\ sessions[t].user = None
          /\ sessions' = [sessions EXCEPT ![t] =
               [user |-> login[g].user, left |-> Life, revoked |-> FALSE]]
          /\ login' = [login EXCEPT
               ![g].pc = IF login[g].op = "register"
                         THEN "findUser" ELSE "fill",
               ![g].token = t, ![g].left = Life]
     \/ /\ RepoFaults
        /\ Refuse(g)
        /\ UNCHANGED sessions
  /\ UNCHANGED <<rights, caches, lookup, admin, loggedOut>>

\* Register reads the new user back, to cache it; an error only means that
\* there is no user to cache.
FindCreatedUser(g) ==
  /\ login[g].pc = "findUser"
  /\ \E v \in {rights[login[g].user]} \cup (IF RepoFaults THEN {0} ELSE {}) :
       login' = [login EXCEPT ![g].pc = "fill", ![g].rights = v]
  /\ UNCHANGED <<database, caches, lookup, admin, loggedOut>>

CacheSession(g) ==
  /\ login[g].pc = "fill"
  /\ StoreSession(login[g].token, login[g].left)
  /\ login' = [login EXCEPT ![g].pc =
                 IF login[g].rights > 0 THEN "fillContext" ELSE "ended"]
  /\ UNCHANGED <<database, contextCache, lookup, admin, loggedOut>>

CacheUser(g) ==
  /\ login[g].pc = "fillContext"
  /\ StoreContext(login[g].user, login[g].rights)
  /\ login' = [login EXCEPT ![g].pc = "ended"]
  /\ UNCHANGED <<database, sessionCache, lookup, admin, loggedOut>>

-----------------------------------------------------------------------------
(* Changes of roles and teams (BusinessService), the clock and restarts. *)

ChangeRights(a) ==
  /\ admin[a].pc = "idle"
  /\ \E u \in Users :
       /\ rights[u] \in 1..(MaxRights - 1)
       /\ rights' = [rights EXCEPT ![u] = @ + 1]
       /\ admin' = [admin EXCEPT ![a] = [pc |-> "invalidate", user |-> u]]
  /\ UNCHANGED <<sessions, caches, lookup, login, loggedOut>>

InvalidateUserContext(a) ==
  /\ admin[a].pc = "invalidate"
  /\ DeleteUserContext(admin[a].user)
  /\ admin' = [admin EXCEPT ![a].pc = "ended"]
  /\ UNCHANGED <<database, sessionCache, lookup, login, loggedOut>>

Less(n) == IF n = 0 THEN 0 ELSE n - 1

Tick ==
  /\ sessions' = [t \in Tokens |-> [sessions[t] EXCEPT !.left = Less(@)]]
  /\ sessionCache' = [t \in Tokens |-> Less(sessionCache[t])]
  /\ contextCache' = [u \in Users |->
       IF contextCache[u].ttl > 1
       THEN [contextCache[u] EXCEPT !.ttl = @ - 1]
       ELSE [rights |-> 0, ttl |-> 0]]
  /\ lookup' = [p \in Lookups |-> [lookup[p] EXCEPT !.left = Less(@)]]
  /\ login' = [g \in Logins |-> [login[g] EXCEPT !.left = Less(@)]]
  /\ UNCHANGED <<rights, admin, loggedOut>>

\* The server stops with all its requests and starts again: the seed renews
\* the sessions of the demo users, revoked ones too, and resets their roles
\* and teams.  Redis keeps its entries.
Restart ==
  /\ Restarts
  /\ sessions' = [t \in Tokens |->
       IF t \in DemoTokens
       THEN [sessions[t] EXCEPT !.left = Life, !.revoked = FALSE]
       ELSE sessions[t]]
  /\ rights' \in [Users -> 0..MaxRights]
  /\ \A u \in Users :
       \/ rights'[u] = rights[u]
       \/ (\E t \in DemoTokens : DemoOwner[t] = u) /\ rights'[u] = rights[u] + 1
  /\ lookup' = [p \in Lookups |-> IdleLookup]
  /\ login' = [g \in Logins |->
       IF login[g].pc \in {"idle", "ended"} THEN login[g]
                                           ELSE [login[g] EXCEPT !.pc = "refused"]]
  /\ admin' = [a \in Admins |->
       IF admin[a].pc = "idle" THEN admin[a] ELSE [admin[a] EXCEPT !.pc = "ended"]]
  /\ UNCHANGED <<caches, loggedOut>>

-----------------------------------------------------------------------------
LookupStep(p) ==
  \/ FindSessionByToken(p) \/ FillSession(p) \/ CheckExpiry(p) \/ DropExpired(p)
  \/ GetUserContext(p) \/ FindByID(p) \/ FillUserContext(p)
  \/ Handle(p) \/ RevokeToken(p) \/ ForgetToken(p)

LoginStep(g) ==
  \/ Create(g) \/ CreateSession(g) \/ FindCreatedUser(g)
  \/ CacheSession(g) \/ CacheUser(g)

Next ==
  \/ \E p \in Lookups : GetSession(p) \/ MissSession(p) \/ LookupStep(p)
  \/ \E g \in Logins : BeginLogin(g) \/ BeginRegister(g) \/ LoginStep(g)
  \/ \E a \in Admins : ChangeRights(a) \/ InvalidateUserContext(a)
  \/ Tick
  \/ Restart

Spec == Init /\ [][Next]_vars

\* Time passes, and a request under way goes on.
FairSpec ==
  /\ Spec
  /\ WF_vars(Tick)
  /\ \A p \in Lookups : WF_vars(LookupStep(p))
  /\ \A g \in Logins : WF_vars(LoginStep(g))
  /\ \A a \in Admins : WF_vars(InvalidateUserContext(a))

-----------------------------------------------------------------------------
(* Properties. *)

\* No request is let in on a session that has expired in the database, although
\* the expiry it looks at is a copy: of the row, through the cache and through
\* a request that may have been waiting, renewed by restarts meanwhile.
ExpiredNeverAdmitted ==
  [][\A p \in Lookups :
       (lookup[p].pc = "check" /\ lookup'[p].pc = "context")
          => sessions[lookup[p].token].left > 0]_vars

\* A session that is out: revoked, not cached, and in nobody's hands who
\* would cache it.
Out(t) ==
  /\ sessions[t].revoked
  /\ sessionCache[t] = 0
  /\ \A p \in Lookups : lookup[p].token = t => lookup[p].pc # "fill"

\* A request passes FindUserByToken's look-up of the session of t.
Enters(p, t) ==
  lookup[p].pc # "check" /\ lookup'[p].pc = "check" /\ lookup'[p].token = t

\* Once a logout has got a session out, no request brings it back and none that
\* asks for it is answered with it: it takes a restart, whose seed renews the row.
OutForGood ==
  [][\A t \in Tokens : Out(t) =>
       \/ ~sessions'[t].revoked
       \/ Out(t)' /\ \A p \in Lookups : ~Enters(p, t)]_vars

\* Of all requests that register one account at most one succeeds, although
\* each of them has seen that the account does not exist.
Registered(g) ==
  /\ login[g].op = "register"
  /\ login[g].pc \in {"session", "findUser", "fill", "fillContext", "ended"}
OneRegistration ==
  \A g1, g2 \in Logins :
    (Registered(g1) /\ Registered(g2) /\ login[g1].user = login[g2].user)
       => g1 = g2

\* A login or register request that holds rights it will cache.
WillCache(g) ==
  \/ login[g].pc = "fillContext"
  \/ /\ login[g].rights > 0
     /\ login[g].pc = "fill" \/ (login[g].pc = "session" /\ login[g].op = "login")

\* No cache fill under way holds rights of u other than those u has.
HandsCurrent(u) ==
  /\ \A p \in Lookups :
       (lookup[p].pc = "fillContext" /\ UserOf(p) = u)
          => lookup[p].rights = rights[u]
  /\ \A g \in Logins :
       (WillCache(g) /\ login[g].user = u) => login[g].rights = rights[u]

Stale(u) == contextCache[u].ttl > 0 /\ contextCache[u].rights # rights[u]

\* After a change of u's rights, once the fills that read the old ones are done
\* with, no cached user becomes stale again and a stale one only ages: neither
\* use nor a fill of another request prolongs it.
StaleOnlyAges ==
  [][\A u \in Users : (HandsCurrent(u) /\ rights'[u] = rights[u]) =>
       /\ HandsCurrent(u)'
       /\ Stale(u)' => /\ Stale(u)
                       /\ contextCache'[u].ttl <= contextCache[u].ttl]_vars

\* When roles and teams change no more, requests stop seeing old ones, whatever
\* fills, invalidations, restarts and cache errors happened: a cached user lives
\* for its TTL and no longer, however often it is used.
StaleRightsVanish ==
  <>[](\A p \in Lookups : lookup[p].pc = "handler"
                             => lookup[p].rights = rights[UserOf(p)])

\* What the documentation promises of Logout: a request that comes after it is
\* answered TOKEN_REVOKED.
LogoutIsFinal ==
  \A p \in Lookups : lookup[p].pc = "handler" => ~lookup[p].late
=============================================================================
