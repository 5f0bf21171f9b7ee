-------------------------- MODULE AuthCache_proofs --------------------------
(***************************************************************************)
(* Proofs about AuthCache: types, the expiry of sessions, registration.    *)
(***************************************************************************)
EXTENDS AuthCache, TLAPS

\* The session row has been created.
Issued(t) == t \in Tokens /\ sessions[t].user \in Users

\* Who is under way knows what it works on.
UnderWay ==
  /\ \A t \in DemoTokens : Issued(t)
  /\ \A p \in Lookups : lookup[p].pc # "idle" => Issued(lookup[p].token)
  /\ \A g \in Logins :
       /\ login[g].pc # "idle" => login[g].user \in Users
       /\ login[g].pc \in {"findUser", "fill", "fillContext", "ended"}
            => Issued(login[g].token)
  /\ \A a \in Admins : admin[a].pc = "invalidate" => admin[a].user \in Users

TypeInv == TypeOK /\ UnderWay

LEMMA Constants ==
  /\ Life \in Nat /\ Life > 0
  /\ ContextTTL \in Nat /\ ContextTTL > 0
  /\ MaxRights \in Nat /\ MaxRights > 0
  /\ None \notin Tokens /\ None \notin Users
  BY AuthAssumption

LEMMA InitTypeInv == Init => TypeInv
  <1> SUFFICES ASSUME Init PROVE TypeInv
    OBVIOUS
  <1>1. TypeOK
    BY Constants, AuthAssumption DEF Init, TypeOK, Session, Context, LookupState, LoginState,
       AdminState, IdleLookup, IdleLogin
  <1>2. UnderWay
    BY Constants, AuthAssumption DEF Init, UnderWay, Issued, IdleLookup, IdleLogin
  <1> QED
    BY <1>1, <1>2 DEF TypeInv

\* A step of a request with a token, that leaves the others alone.
LEMMA LookupMoves ==
  ASSUME TypeInv, NEW p \in Lookups, NEW r \in LookupState,
         r.pc # "idle" => Issued(r.token),
         lookup' = [lookup EXCEPT ![p] = r],
         sessions' \in [Tokens -> Session],
         \A t \in Tokens : sessions'[t].user = sessions[t].user,
         sessionCache' \in [Tokens -> 0..Life],
         contextCache' \in [Users -> Context],
         loggedOut' \subseteq Tokens,
         UNCHANGED <<rights, login, admin>>
  PROVE  TypeInv'
  <1>1. TypeOK'
    BY DEF TypeInv, TypeOK
  <1>2. \A t : Issued(t) => Issued(t)'
    BY DEF Issued
  <1>3. \A q \in Lookups : lookup'[q].pc # "idle" => Issued(lookup[q].token)'
    BY <1>2 DEF TypeInv, TypeOK, UnderWay
  <1>4. UnderWay'
    BY <1>2, <1>3, AuthAssumption DEF TypeInv, UnderWay
  <1> QED
    BY <1>1, <1>4 DEF TypeInv

\* A step of a login or register request.
LEMMA LoginMoves ==
  ASSUME TypeInv, NEW g \in Logins, NEW r \in LoginState,
         r.pc # "idle" => r.user \in Users,
         r.pc \in {"findUser", "fill", "fillContext", "ended"}
           => r.token \in Tokens /\ sessions'[r.token].user \in Users,
         login' = [login EXCEPT ![g] = r],
         rights' \in [Users -> 0..MaxRights],
         sessions' \in [Tokens -> Session],
         \A t \in Tokens : sessions[t].user \in Users
                             => sessions'[t].user = sessions[t].user,
         sessionCache' \in [Tokens -> 0..Life],
         contextCache' \in [Users -> Context],
         UNCHANGED <<lookup, admin, loggedOut>>
  PROVE  TypeInv'
  <1>1. TypeOK'
    BY DEF TypeInv, TypeOK
  <1>2. \A t : Issued(t) => Issued(t)'
    BY DEF Issued
  <1>3. \A h \in Logins :
          /\ login'[h].pc # "idle" => login'[h].user \in Users
          /\ login'[h].pc \in {"findUser", "fill", "fillContext", "ended"}
               => Issued(login[h].token)'
    <2> TAKE h \in Logins
    <2>1. CASE h = g
      BY <2>1 DEF TypeInv, TypeOK, Issued
    <2>2. CASE h # g
      BY <2>2, <1>2 DEF TypeInv, TypeOK, UnderWay
    <2> QED
      BY <2>1, <2>2
  <1>4. UnderWay'
    BY <1>2, <1>3, AuthAssumption DEF TypeInv, UnderWay
  <1> QED
    BY <1>1, <1>4 DEF TypeInv

LEMMA IdleTyped == IdleLookup \in LookupState /\ IdleLookup.pc = "idle"
  BY Constants DEF IdleLookup, LookupState

\* A request that has just asked for its session, and rows that change.
LEMMA RequestTyped ==
  ASSUME NEW t \in Tokens, NEW n \in 0..Life, NEW b \in BOOLEAN,
         NEW c \in {"find", "check"}
  PROVE  /\ [IdleLookup EXCEPT !.pc = c, !.token = t, !.left = n, !.late = b]
               \in LookupState
         /\ [IdleLookup EXCEPT !.pc = c, !.token = t, !.late = b] \in LookupState
  <1>1. /\ c \in {"idle", "find", "fill", "check", "drop", "context", "user",
                  "fillContext", "handler", "forget"}
        /\ t \in Tokens \cup {None}
    OBVIOUS
  <1>2. [IdleLookup EXCEPT !.pc = c, !.token = t, !.left = n, !.late = b]
          \in LookupState
    BY <1>1, IdleTyped, Zenon DEF LookupState
  <1>3. [IdleLookup EXCEPT !.pc = c, !.token = t, !.late = b] \in LookupState
    BY <1>1, IdleTyped, Zenon DEF LookupState
  <1> QED
    BY <1>2, <1>3

LEMMA RowRevoked ==
  ASSUME NEW row \in Session
  PROVE  /\ [row EXCEPT !.revoked = TRUE] \in Session
         /\ [row EXCEPT !.revoked = TRUE].user = row.user
  <1>1. [row EXCEPT !.revoked = TRUE] \in Session
    BY DEF Session
  <1>2. [row EXCEPT !.revoked = TRUE].user = row.user
    BY DEF Session
  <1> QED
    BY <1>1, <1>2

LEMMA RowRenewed ==
  ASSUME NEW row \in Session
  PROVE  /\ [row EXCEPT !.left = Life, !.revoked = FALSE] \in Session
         /\ [row EXCEPT !.left = Life, !.revoked = FALSE].user = row.user
  <1>1. [row EXCEPT !.left = Life, !.revoked = FALSE] \in Session
    <2>1. FALSE \in BOOLEAN /\ Life \in 0..Life
      BY Constants
    <2> QED
      BY <2>1, Zenon DEF Session
  <1>2. [row EXCEPT !.left = Life, !.revoked = FALSE].user = row.user
    BY DEF Session
  <1> QED
    BY <1>1, <1>2

\* What TypeInv says of the request at hand.
LEMMA AtHand ==
  ASSUME TypeInv
  PROVE  /\ \A p \in Lookups :
              /\ lookup[p] \in LookupState
              /\ lookup[p].pc # "idle" => Issued(lookup[p].token)
         /\ \A g \in Logins : login[g] \in LoginState
         /\ \A t \in Tokens : sessions[t] \in Session
         /\ \A u \in Users : contextCache[u] \in Context
  BY DEF TypeInv, TypeOK, UnderWay

LEMMA KnownIssued == ASSUME TypeInv, NEW t \in Tokens, Known(t) PROVE Issued(t)
  BY DEF Known, TypeInv, UnderWay

LEMMA NextTypeInv == TypeInv /\ [Next]_vars => TypeInv'
  <1> SUFFICES ASSUME TypeInv, [Next]_vars PROVE TypeInv'
    OBVIOUS
  <1> USE Constants, IdleTyped, AtHand
  <1>a. /\ sessionCache \in [Tokens -> 0..Life]
        /\ contextCache \in [Users -> Context]
        /\ sessions \in [Tokens -> Session]
        /\ rights \in [Users -> 0..MaxRights]
        /\ loggedOut \subseteq Tokens
    BY DEF TypeInv, TypeOK
  <1>b. ASSUME NEW t \in Tokens, NEW n \in 0..Life, StoreSession(t, n)
        PROVE  sessionCache' \in [Tokens -> 0..Life]
    BY <1>a, <1>b DEF StoreSession
  <1>c. ASSUME NEW u \in Users, NEW v \in 0..MaxRights, StoreContext(u, v)
        PROVE  contextCache' \in [Users -> Context]
    <2>1. [rights |-> v, ttl |-> ContextTTL] \in Context
      BY DEF Context
    <2> QED
      BY <1>a, <1>c, <2>1 DEF StoreContext
  <1>0. CASE UNCHANGED vars
    BY <1>0 DEF vars, database, caches, TypeInv, TypeOK, UnderWay, Issued
  <1>1. ASSUME NEW p \in Lookups, GetSession(p) PROVE TypeInv'
    <2>1. PICK t \in Tokens :
            /\ Known(t) /\ sessionCache[t] > 0
            /\ lookup' = [lookup EXCEPT ![p] =
                 [IdleLookup EXCEPT !.pc = "check", !.token = t,
                                    !.left = sessionCache[t],
                                    !.late = t \in loggedOut]]
      BY <1>1 DEF GetSession
    <2> DEFINE r == [IdleLookup EXCEPT !.pc = "check", !.token = t,
                                       !.left = sessionCache[t],
                                       !.late = t \in loggedOut]
    <2>2. r \in LookupState /\ r.token = t
      <3>1. (t \in loggedOut) \in BOOLEAN
        OBVIOUS
      <3>2. sessionCache[t] \in 0..Life
        BY <1>a
      <3>3. r \in LookupState
        BY <3>1, <3>2, RequestTyped
      <3> QED
        BY <3>3 DEF IdleLookup
    <2>3. Issued(r.token)
      BY <2>1, <2>2, KnownIssued
    <2> HIDE DEF r
    <2> QED
      BY <1>1, <1>a, <2>1, <2>2, <2>3, LookupMoves DEF GetSession, database, caches, r
  <1>2. ASSUME NEW p \in Lookups, MissSession(p) PROVE TypeInv'
    <2>1. PICK t \in Tokens :
            /\ Known(t)
            /\ lookup' = [lookup EXCEPT ![p] =
                 [IdleLookup EXCEPT !.pc = "find", !.token = t,
                                    !.late = t \in loggedOut]]
      BY <1>2 DEF MissSession
    <2> DEFINE r == [IdleLookup EXCEPT !.pc = "find", !.token = t,
                                       !.late = t \in loggedOut]
    <2>2. r \in LookupState /\ r.token = t
      <3>1. (t \in loggedOut) \in BOOLEAN
        OBVIOUS
      <3>2. 0 \in 0..Life
        OBVIOUS
      <3>3. r \in LookupState
        BY <3>1, <3>2, RequestTyped
      <3> QED
        BY <3>3 DEF IdleLookup
    <2>3. Issued(r.token)
      BY <2>1, <2>2, KnownIssued
    <2> HIDE DEF r
    <2> QED
      BY <1>2, <1>a, <2>1, <2>2, <2>3, LookupMoves DEF MissSession, database, caches, r
  <1>e. ASSUME NEW p \in Lookups, Ends(p),
               sessionCache' \in [Tokens -> 0..Life],
               loggedOut' \subseteq Tokens,
               UNCHANGED <<database, contextCache, login, admin>>
        PROVE  TypeInv'
    BY <1>a, <1>e, LookupMoves DEF Ends, database
  <1>3. ASSUME NEW p \in Lookups, FindSessionByToken(p) PROVE TypeInv'
    <2>1. CASE Ends(p)
      BY <1>3, <1>a, <1>e, <2>1 DEF FindSessionByToken, database, caches
    <2>2. CASE lookup' = [lookup EXCEPT ![p].pc = "fill",
                            ![p].left = sessions[lookup[p].token].left]
      <3> DEFINE r == [lookup[p] EXCEPT !.pc = "fill",
                            !.left = sessions[lookup[p].token].left]
      <3>1. Issued(lookup[p].token)
        BY <1>3 DEF FindSessionByToken
      <3>2. sessions[lookup[p].token].left \in 0..Life
        BY <3>1 DEF Issued, Session
      <3>3. r \in LookupState /\ r.token = lookup[p].token
        BY <3>2 DEF LookupState
      <3>4. lookup' = [lookup EXCEPT ![p] = r]
        BY <2>2
      <3> QED
        BY <1>3, <1>a, <3>1, <3>3, <3>4, LookupMoves DEF FindSessionByToken, database, caches
    <2> QED
      BY <1>3, <2>1, <2>2 DEF FindSessionByToken
  <1>4. ASSUME NEW p \in Lookups, FillSession(p) PROVE TypeInv'
    <2> DEFINE r == [lookup[p] EXCEPT !.pc = "check"]
    <2>1. Issued(lookup[p].token)
      BY <1>4 DEF FillSession
    <2>2. r \in LookupState /\ r.token = lookup[p].token
      BY DEF LookupState
    <2>3. lookup[p].left \in 0..Life
      BY DEF LookupState
    <2>4. sessionCache' \in [Tokens -> 0..Life]
      BY <1>4, <1>b, <2>1, <2>3 DEF FillSession, Issued
    <2> QED
      BY <1>4, <1>a, <2>1, <2>2, <2>4, LookupMoves DEF FillSession, database
  <1>5. ASSUME NEW p \in Lookups, CheckExpiry(p) PROVE TypeInv'
    <2> DEFINE r == [lookup[p] EXCEPT !.pc =
                       IF lookup[p].left > 0 THEN "context" ELSE "drop"]
    <2>1. Issued(lookup[p].token)
      BY <1>5 DEF CheckExpiry
    <2>2. r \in LookupState /\ r.token = lookup[p].token
      BY DEF LookupState
    <2> QED
      BY <1>5, <1>a, <2>1, <2>2, LookupMoves DEF CheckExpiry, database, caches
  <1>6. ASSUME NEW p \in Lookups, DropExpired(p) PROVE TypeInv'
    <2>1. Issued(lookup[p].token)
      BY <1>6 DEF DropExpired
    <2>2. sessionCache' \in [Tokens -> 0..Life]
      BY <1>6, <1>b, <2>1 DEF DropExpired, DeleteSession, Issued
    <2> QED
      BY <1>6, <1>a, <1>e, <2>2 DEF DropExpired
  <1>7. ASSUME NEW p \in Lookups, GetUserContext(p) PROVE TypeInv'
    <2> DEFINE c == contextCache[UserOf(p)]
    <2>1. Issued(lookup[p].token)
      BY <1>7 DEF GetUserContext
    <2>2. c.rights \in 0..MaxRights
      BY <2>1 DEF UserOf, Issued, Context
    <2>3. PICK r \in {[lookup[p] EXCEPT !.pc = "handler", !.rights = c.rights],
                      [lookup[p] EXCEPT !.pc = "user"]} :
            lookup' = [lookup EXCEPT ![p] = r]
      BY <1>7 DEF GetUserContext
    <2>4. r \in LookupState /\ r.token = lookup[p].token
      BY <2>2, <2>3 DEF LookupState
    <2> QED
      BY <1>7, <1>a, <2>1, <2>3, <2>4, LookupMoves DEF GetUserContext, database, caches
  <1>8. ASSUME NEW p \in Lookups, FindByID(p) PROVE TypeInv'
    <2>1. CASE Ends(p)
      BY <1>8, <1>a, <1>e, <2>1 DEF FindByID, database, caches
    <2>2. CASE lookup' = [lookup EXCEPT ![p].pc = "fillContext",
                                        ![p].rights = rights[UserOf(p)]]
      <3> DEFINE r == [lookup[p] EXCEPT !.pc = "fillContext",
                                        !.rights = rights[UserOf(p)]]
      <3>1. Issued(lookup[p].token)
        BY <1>8 DEF FindByID
      <3>2. rights[UserOf(p)] \in 0..MaxRights
        BY <1>a, <3>1 DEF UserOf, Issued
      <3>3. r \in LookupState /\ r.token = lookup[p].token
        BY <3>2 DEF LookupState
      <3>4. lookup' = [lookup EXCEPT ![p] = r]
        BY <2>2
      <3> QED
        BY <1>8, <1>a, <3>1, <3>3, <3>4, LookupMoves DEF FindByID, database, caches
    <2> QED
      BY <1>8, <2>1, <2>2 DEF FindByID
  <1>9. ASSUME NEW p \in Lookups, FillUserContext(p) PROVE TypeInv'
    <2> DEFINE r == [lookup[p] EXCEPT !.pc = "handler"]
    <2>1. Issued(lookup[p].token)
      BY <1>9 DEF FillUserContext
    <2>2. r \in LookupState /\ r.token = lookup[p].token /\ lookup[p].rights \in 0..MaxRights
      BY DEF LookupState
    <2>3. contextCache' \in [Users -> Context]
      BY <1>9, <1>c, <2>1, <2>2 DEF FillUserContext, UserOf, Issued
    <2> QED
      BY <1>9, <1>a, <2>1, <2>2, <2>3, LookupMoves DEF FillUserContext, database
  <1>10. ASSUME NEW p \in Lookups, Handle(p) PROVE TypeInv'
    BY <1>10, <1>a, <1>e DEF Handle, database, caches
  <1>11. ASSUME NEW p \in Lookups, RevokeToken(p) PROVE TypeInv'
    <2> DEFINE r == [lookup[p] EXCEPT !.pc = "forget"]
    <2>1. Issued(lookup[p].token)
      BY <1>11 DEF RevokeToken
    <2>2. r \in LookupState /\ r.token = lookup[p].token
      BY DEF LookupState
    <2>3. /\ sessions' \in [Tokens -> Session]
          /\ \A t \in Tokens : sessions'[t].user = sessions[t].user
      <3> DEFINE k == lookup[p].token
                 row == [sessions[k] EXCEPT !.revoked = TRUE]
      <3>1. row \in Session /\ row.user = sessions[k].user
        BY <2>1, RowRevoked DEF Issued
      <3>2. CASE sessions' = [sessions EXCEPT ![k] = row]
        BY <1>a, <3>1, <3>2
      <3>3. CASE UNCHANGED sessions
        BY <1>a, <3>3
      <3> QED
        BY <1>11, <3>2, <3>3 DEF RevokeToken
    <2> QED
      BY <1>11, <1>a, <2>1, <2>2, <2>3, LookupMoves DEF RevokeToken, caches
  <1>12. ASSUME NEW p \in Lookups, ForgetToken(p) PROVE TypeInv'
    <2>1. Issued(lookup[p].token)
      BY <1>12 DEF ForgetToken
    <2>2. sessionCache' \in [Tokens -> 0..Life] /\ loggedOut' \subseteq Tokens
      BY <1>12, <1>a, <1>b, <2>1 DEF ForgetToken, DeleteSession, Issued
    <2> QED
      BY <1>12, <1>e, <2>2 DEF ForgetToken
  <1>g. \A g \in Logins :
          /\ login[g].pc # "idle" => login[g].user \in Users
          /\ login[g].pc \in {"findUser", "fill", "fillContext", "ended"}
               => Issued(login[g].token)
    BY DEF TypeInv, UnderWay
  <1>13. ASSUME NEW g \in Logins, BeginLogin(g) PROVE TypeInv'
    <2>1. PICK u \in Users :
            login' = [login EXCEPT ![g].pc = "session", ![g].op = "login",
                                   ![g].user = u, ![g].rights = rights[u]]
      BY <1>13 DEF BeginLogin
    <2> DEFINE r == [login[g] EXCEPT !.pc = "session", !.op = "login",
                                     !.user = u, !.rights = rights[u]]
    <2>2. r \in LoginState /\ r.pc = "session" /\ r.user = u
      BY <1>a DEF LoginState
    <2>3. login' = [login EXCEPT ![g] = r]
      BY <2>1
    <2> QED
      BY <1>13, <1>a, <2>2, <2>3, LoginMoves DEF BeginLogin, database, caches
  <1>14. ASSUME NEW g \in Logins, BeginRegister(g) PROVE TypeInv'
    <2>1. PICK u \in Users :
            login' = [login EXCEPT ![g].pc = "create", ![g].op = "register",
                                   ![g].user = u]
      BY <1>14 DEF BeginRegister
    <2> DEFINE r == [login[g] EXCEPT !.pc = "create", !.op = "register", !.user = u]
    <2>2. r \in LoginState /\ r.pc = "create" /\ r.user = u
      BY DEF LoginState
    <2>3. login' = [login EXCEPT ![g] = r]
      BY <2>1
    <2> QED
      BY <1>14, <1>a, <2>2, <2>3, LoginMoves DEF BeginRegister, database, caches
  <1>15. ASSUME NEW g \in Logins, Create(g) PROVE TypeInv'
    <2>1. PICK c \in {"session", "refused"} : login' = [login EXCEPT ![g].pc = c]
      BY <1>15 DEF Create, Refuse
    <2> DEFINE r == [login[g] EXCEPT !.pc = c]
    <2>2. r \in LoginState /\ r.pc = c /\ r.user = login[g].user
      BY DEF LoginState
    <2>3. login[g].user \in Users
      BY <1>15, <1>g DEF Create
    <2>4. rights' \in [Users -> 0..MaxRights]
      BY <1>15, <1>a DEF Create
    <2> QED
      BY <1>15, <1>a, <2>1, <2>2, <2>3, <2>4, LoginMoves DEF Create, caches
  <1>16. ASSUME NEW g \in Logins, CreateSession(g) PROVE TypeInv'
    <2>1. login[g].user \in Users
      BY <1>16, <1>g DEF CreateSession
    <2>2. CASE Refuse(g) /\ UNCHANGED sessions
      <3> DEFINE r == [login[g] EXCEPT !.pc = "refused"]
      <3>1. r \in LoginState /\ r.pc = "refused" /\ r.user = login[g].user
        BY DEF LoginState
      <3> QED
        BY <1>16, <1>a, <2>1, <2>2, <3>1, LoginMoves DEF Refuse, CreateSession, caches
    <2>3. ASSUME NEW t \in Tokens,
                 sessions[t].user = None,
                 sessions' = [sessions EXCEPT ![t] =
                   [user |-> login[g].user, left |-> Life, revoked |-> FALSE]],
                 NEW c \in {"findUser", "fill"},
                 login' = [login EXCEPT ![g].pc = c, ![g].token = t, ![g].left = Life]
          PROVE  TypeInv'
      <3> DEFINE r == [login[g] EXCEPT !.pc = c, !.token = t, !.left = Life]
                 row == [user |-> login[g].user, left |-> Life, revoked |-> FALSE]
      <3>1. r \in LoginState /\ r.user = login[g].user /\ r.token = t /\ r.pc = c
        <4>1. Life \in 0..Life /\ c \in {"idle", "create", "session", "findUser",
                "fill", "fillContext", "ended", "refused"}
          OBVIOUS
        <4> QED
          BY <4>1 DEF LoginState
      <3>2. row \in Session /\ row.user = login[g].user
        BY <2>1 DEF Session
      <3>3. /\ sessions' \in [Tokens -> Session]
            /\ sessions'[t].user \in Users
            /\ \A s \in Tokens : sessions[s].user \in Users
                                   => sessions'[s].user = sessions[s].user
        BY <1>a, <2>1, <2>3, <3>2
      <3>4. login' = [login EXCEPT ![g] = r]
        BY <2>3
      <3> QED
        BY <1>16, <1>a, <2>1, <3>1, <3>3, <3>4, LoginMoves DEF CreateSession, caches
    <2> QED
      BY <1>16, <2>2, <2>3 DEF CreateSession
  <1>17. ASSUME NEW g \in Logins, FindCreatedUser(g) PROVE TypeInv'
    <2>1. login[g].user \in Users /\ Issued(login[g].token)
      BY <1>17, <1>g DEF FindCreatedUser
    <2>2. PICK v \in 0..MaxRights :
            login' = [login EXCEPT ![g].pc = "fill", ![g].rights = v]
      <3>1. PICK v \in {rights[login[g].user]} \cup (IF RepoFaults THEN {0} ELSE {}) :
              login' = [login EXCEPT ![g].pc = "fill", ![g].rights = v]
        BY <1>17 DEF FindCreatedUser
      <3>2. v \in 0..MaxRights
        BY <1>a, <2>1, <3>1
      <3> QED
        BY <3>1, <3>2
    <2> DEFINE r == [login[g] EXCEPT !.pc = "fill", !.rights = v]
    <2>3. r \in LoginState /\ r.user = login[g].user /\ r.token = login[g].token
      BY DEF LoginState
    <2>4. login' = [login EXCEPT ![g] = r]
      BY <2>2
    <2> QED
      BY <1>17, <1>a, <2>1, <2>3, <2>4, LoginMoves
         DEF FindCreatedUser, Issued, database, caches
  <1>18. ASSUME NEW g \in Logins, CacheSession(g) PROVE TypeInv'
    <2>1. login[g].user \in Users /\ Issued(login[g].token)
      BY <1>18, <1>g DEF CacheSession
    <2> DEFINE r == [login[g] EXCEPT !.pc =
                       IF login[g].rights > 0 THEN "fillContext" ELSE "ended"]
    <2>2. /\ r \in LoginState /\ r.user = login[g].user /\ r.token = login[g].token
          /\ login[g].left \in 0..Life
      BY DEF LoginState
    <2>3. sessionCache' \in [Tokens -> 0..Life]
      BY <1>18, <1>b, <2>1, <2>2 DEF CacheSession, Issued
    <2> QED
      BY <1>18, <1>a, <2>1, <2>2, <2>3, LoginMoves DEF CacheSession, Issued, database
  <1>19. ASSUME NEW g \in Logins, CacheUser(g) PROVE TypeInv'
    <2>1. login[g].user \in Users /\ Issued(login[g].token)
      BY <1>19, <1>g DEF CacheUser
    <2> DEFINE r == [login[g] EXCEPT !.pc = "ended"]
    <2>2. /\ r \in LoginState /\ r.user = login[g].user /\ r.token = login[g].token
          /\ login[g].rights \in 0..MaxRights
      BY DEF LoginState
    <2>3. contextCache' \in [Users -> Context]
      BY <1>19, <1>c, <2>1, <2>2 DEF CacheUser
    <2> QED
      BY <1>19, <1>a, <2>1, <2>2, <2>3, LoginMoves DEF CacheUser, Issued, database
  <1>20. ASSUME NEW a \in Admins, ChangeRights(a) PROVE TypeInv'
    <2>1. rights' \in [Users -> 0..MaxRights] /\ admin' \in [Admins -> AdminState]
      BY <1>20, <1>a DEF ChangeRights, TypeInv, TypeOK, AdminState
    <2>2. TypeOK'
      BY <1>20, <2>1 DEF ChangeRights, caches, TypeInv, TypeOK
    <2>3. \A b \in Admins : admin'[b].pc = "invalidate" => admin'[b].user \in Users
      BY <1>20 DEF ChangeRights, TypeInv, TypeOK, UnderWay
    <2> QED
      BY <1>20, <2>2, <2>3 DEF ChangeRights, caches, TypeInv, UnderWay, Issued
  <1>21. ASSUME NEW a \in Admins, InvalidateUserContext(a) PROVE TypeInv'
    <2>1. admin' \in [Admins -> AdminState]
      BY <1>21 DEF InvalidateUserContext, TypeInv, TypeOK, AdminState
    <2>2. contextCache' \in [Users -> Context]
      <3>1. [rights |-> 0, ttl |-> 0] \in Context
        BY DEF Context
      <3> QED
        BY <1>21, <1>a, <3>1 DEF InvalidateUserContext, DeleteUserContext
    <2>3. TypeOK'
      BY <1>21, <2>1, <2>2 DEF InvalidateUserContext, database, TypeInv, TypeOK
    <2>4. \A b \in Admins : admin'[b].pc = "invalidate" => admin'[b].user \in Users
      BY <1>21 DEF InvalidateUserContext, TypeInv, TypeOK, UnderWay
    <2> QED
      BY <1>21, <2>3, <2>4 DEF InvalidateUserContext, database, TypeInv, UnderWay, Issued
  <1>22. CASE Tick
    <2>1. \A n \in 0..Life : Less(n) \in 0..Life
      BY DEF Less
    <2>2. /\ sessions' \in [Tokens -> Session]
          /\ \A t \in Tokens : sessions'[t].user = sessions[t].user
      BY <1>22, <1>a, <2>1 DEF Tick, Session
    <2>3. sessionCache' \in [Tokens -> 0..Life]
      BY <1>22, <1>a, <2>1 DEF Tick
    <2>4. contextCache' \in [Users -> Context]
      <3>1. ASSUME NEW u \in Users PROVE contextCache'[u] \in Context
        BY <1>22, <1>a DEF Tick, Context
      <3> QED
        BY <1>22, <3>1 DEF Tick
    <2>5. /\ lookup' \in [Lookups -> LookupState]
          /\ \A p \in Lookups : /\ lookup'[p].pc = lookup[p].pc
                                /\ lookup'[p].token = lookup[p].token
      BY <1>22, <2>1 DEF Tick, LookupState
    <2>6. /\ login' \in [Logins -> LoginState]
          /\ \A g \in Logins : /\ login'[g].pc = login[g].pc
                               /\ login'[g].user = login[g].user
                               /\ login'[g].token = login[g].token
      BY <1>22, <2>1 DEF Tick, LoginState
    <2>7. TypeOK'
      BY <1>22, <2>2, <2>3, <2>4, <2>5, <2>6 DEF Tick, TypeInv, TypeOK
    <2>8. \A t : Issued(t) => Issued(t)'
      BY <2>2 DEF Issued
    <2>9. UnderWay'
      BY <1>22, <2>5, <2>6, <2>8, AuthAssumption DEF Tick, TypeInv, UnderWay
    <2> QED
      BY <2>7, <2>9 DEF TypeInv
  <1>23. CASE Restart
    <2>1. /\ sessions' \in [Tokens -> Session]
          /\ \A t \in Tokens : sessions'[t].user = sessions[t].user
      <3>1. ASSUME NEW t \in Tokens
            PROVE  sessions'[t] \in Session /\ sessions'[t].user = sessions[t].user
        <4>1. CASE t \in DemoTokens
          <5>1. sessions'[t] = [sessions[t] EXCEPT !.left = Life, !.revoked = FALSE]
            BY <1>23, <4>1 DEF Restart
          <5> QED
            BY <5>1, RowRenewed
        <4>2. CASE t \notin DemoTokens
          BY <1>23, <1>a, <4>2 DEF Restart
        <4> QED
          BY <4>1, <4>2
      <3> QED
        BY <1>23, <3>1 DEF Restart
    <2>2. lookup' \in [Lookups -> LookupState] /\ \A p \in Lookups : lookup'[p].pc = "idle"
      BY <1>23 DEF Restart
    <2>3. /\ login' \in [Logins -> LoginState]
          /\ \A g \in Logins : /\ login'[g].pc \in {login[g].pc, "refused"}
                               /\ login[g].pc = "idle" => login'[g].pc = "idle"
                               /\ login'[g].user = login[g].user
                               /\ login'[g].token = login[g].token
      <3>1. ASSUME NEW g \in Logins
            PROVE  /\ login'[g] \in LoginState
                   /\ login'[g].pc \in {login[g].pc, "refused"}
                   /\ login[g].pc = "idle" => login'[g].pc = "idle"
                   /\ login'[g].user = login[g].user
                   /\ login'[g].token = login[g].token
        <4>1. CASE login'[g] = login[g]
          BY <4>1
        <4>2. CASE /\ login[g].pc # "idle"
                   /\ login'[g] = [login[g] EXCEPT !.pc = "refused"]
          BY <4>2 DEF LoginState
        <4> QED
          BY <1>23, <4>1, <4>2 DEF Restart
      <3> QED
        BY <1>23, <3>1 DEF Restart
    <2>4. /\ admin' \in [Admins -> AdminState]
          /\ \A a \in Admins : admin'[a].pc # "invalidate"
      BY <1>23 DEF Restart, TypeInv, TypeOK, AdminState
    <2>5. rights' \in [Users -> 0..MaxRights]
      BY <1>23 DEF Restart
    <2>6. TypeOK'
      BY <1>23, <2>1, <2>2, <2>3, <2>4, <2>5 DEF Restart, caches, TypeInv, TypeOK
    <2>7. \A t : Issued(t) => Issued(t)'
      BY <2>1 DEF Issued
    <2>8. UnderWay'
      BY <2>2, <2>3, <2>4, <2>7, AuthAssumption DEF TypeInv, UnderWay
    <2> QED
      BY <2>6, <2>8 DEF TypeInv
  <1> QED
    BY <1>0, <1>1, <1>2, <1>3, <1>4, <1>5, <1>6, <1>7, <1>8, <1>9, <1>10, <1>11,
       <1>12, <1>13, <1>14, <1>15, <1>16, <1>17, <1>18, <1>19, <1>20, <1>21,
       <1>22, <1>23
       DEF Next, LookupStep, LoginStep

LEMMA TypeInvariant == Spec => []TypeInv
  <1>1. Init => TypeInv
    BY InitTypeInv
  <1>2. TypeInv /\ [Next]_vars => TypeInv'
    BY NextTypeInv
  <1> QED
    BY <1>1, <1>2, PTL DEF Spec

\* Types: for any users, tokens, requests and lifetimes every variable keeps its
\* type; among others no copy of a session outlives accessTokenTTL.
THEOREM TypeCorrect == Spec => []TypeOK
  <1>1. TypeInv => TypeOK
    BY DEF TypeInv
  <1> QED
    BY <1>1, TypeInvariant, PTL

-----------------------------------------------------------------------------
(* Copies of an expiry: in the cache, and in the hands of a request. *)

CachedLeft == \A t \in Tokens : sessionCache[t] <= sessions[t].left
LookupLeft ==
  \A p \in Lookups : lookup[p].pc \in {"fill", "check"}
                       => lookup[p].left <= sessions[lookup[p].token].left
LoginLeft ==
  \A g \in Logins : login[g].pc \in {"findUser", "fill"}
                      => login[g].left <= sessions[login[g].token].left

ExpiryInv == CachedLeft /\ LookupLeft /\ LoginLeft

LEMMA InitExpiry == Init => ExpiryInv
  BY Constants DEF Init, ExpiryInv, CachedLeft, LookupLeft, LoginLeft, IdleLookup, IdleLogin

\* A step of a request with a token: what it stores in the cache and what it
\* holds afterwards is bounded by the row.
LEMMA LookupExpiry ==
  ASSUME TypeInv, ExpiryInv, NEW p \in Lookups,
         \A q \in Lookups : q # p => lookup'[q] = lookup[q],
         lookup'[p].pc \in {"fill", "check"}
           => /\ lookup'[p].token \in Tokens
              /\ lookup'[p].left <= sessions[lookup'[p].token].left,
         \A t \in Tokens : sessions'[t].left = sessions[t].left,
         \/ UNCHANGED sessionCache
         \/ \E t \in Tokens, n \in 0..Life :
              n <= sessions[t].left /\ StoreSession(t, n),
         UNCHANGED login
  PROVE  ExpiryInv'
  <1>1. CachedLeft'
    BY DEF TypeInv, TypeOK, ExpiryInv, CachedLeft, StoreSession
  <1>2. LookupLeft'
    BY DEF TypeInv, UnderWay, Issued, ExpiryInv, LookupLeft
  <1>3. LoginLeft'
    BY DEF TypeInv, UnderWay, Issued, ExpiryInv, LoginLeft
  <1> QED
    BY <1>1, <1>2, <1>3 DEF ExpiryInv

\* A step of a login or register request, the same; it may create the row.
LEMMA LoginExpiry ==
  ASSUME TypeInv, ExpiryInv, NEW g \in Logins,
         \A h \in Logins : h # g => login'[h] = login[h],
         login'[g].pc \in {"findUser", "fill"}
           => /\ login'[g].token \in Tokens
              /\ login'[g].left <= sessions'[login'[g].token].left,
         \A t \in Tokens : /\ sessions[t].left \in Nat /\ sessions'[t].left \in Nat
                           /\ sessions[t].left <= sessions'[t].left,
         \/ UNCHANGED sessionCache
         \/ \E t \in Tokens, n \in 0..Life :
              n <= sessions'[t].left /\ StoreSession(t, n),
         UNCHANGED lookup
  PROVE  ExpiryInv'
  <1>1. CachedLeft'
    <2> SUFFICES ASSUME NEW t \in Tokens PROVE sessionCache'[t] <= sessions'[t].left
      BY DEF CachedLeft
    <2>1. sessionCache[t] \in Nat /\ sessionCache[t] <= sessions[t].left
      BY Constants DEF TypeInv, TypeOK, ExpiryInv, CachedLeft
    <2>2. CASE sessionCache'[t] = sessionCache[t]
      BY <2>1, <2>2
    <2>3. CASE sessionCache'[t] # sessionCache[t]
      BY <2>3 DEF TypeInv, TypeOK, StoreSession
    <2> QED
      BY <2>2, <2>3
  <1>2. LookupLeft'
    <2> SUFFICES ASSUME NEW q \in Lookups, lookup[q].pc \in {"fill", "check"}
                 PROVE  lookup[q].left <= sessions'[lookup[q].token].left
      BY DEF LookupLeft
    <2>1. lookup[q].left \in Nat /\ lookup[q].token \in Tokens
      BY Constants, AtHand DEF LookupState, Issued
    <2> QED
      BY <2>1 DEF ExpiryInv, LookupLeft
  <1>3. LoginLeft'
    <2> SUFFICES ASSUME NEW h \in Logins, h # g, login[h].pc \in {"findUser", "fill"}
                 PROVE  login[h].left <= sessions'[login[h].token].left
      BY DEF LoginLeft
    <2>1. login[h].left \in Nat /\ login[h].token \in Tokens
      BY Constants, AtHand DEF LoginState, Issued, TypeInv, UnderWay
    <2> QED
      BY <2>1 DEF ExpiryInv, LoginLeft
  <1> QED
    BY <1>1, <1>2, <1>3 DEF ExpiryInv

LEMMA NextExpiry == TypeInv /\ ExpiryInv /\ [Next]_vars => ExpiryInv'
  <1> SUFFICES ASSUME TypeInv, ExpiryInv, [Next]_vars PROVE ExpiryInv'
    OBVIOUS
  <1> USE Constants, IdleTyped, AtHand
  <1>a. /\ lookup \in [Lookups -> LookupState] /\ login \in [Logins -> LoginState]
        /\ sessions \in [Tokens -> Session] /\ sessionCache \in [Tokens -> 0..Life]
    BY DEF TypeInv, TypeOK
  <1>b. \A t \in Tokens : sessions[t].left \in Nat /\ sessions[t].left <= Life
    BY DEF Session
  <1>c. \A p \in Lookups : lookup[p].pc \in {"fill", "check"}
          => /\ lookup[p].token \in Tokens /\ lookup[p].left \in 0..Life
             /\ lookup[p].left <= sessions[lookup[p].token].left
    BY DEF LookupState, Issued, ExpiryInv, LookupLeft
  <1>d. \A g \in Logins : login[g].pc \in {"findUser", "fill"}
          => /\ login[g].token \in Tokens /\ login[g].left \in 0..Life
             /\ login[g].left <= sessions[login[g].token].left
    BY DEF TypeInv, UnderWay, LoginState, Issued, ExpiryInv, LoginLeft
  <1>0. CASE UNCHANGED vars
    BY <1>0 DEF vars, database, caches, ExpiryInv, CachedLeft, LookupLeft, LoginLeft
  <1>1. ASSUME NEW p \in Lookups, GetSession(p) PROVE ExpiryInv'
    <2>1. PICK t \in Tokens :
            lookup' = [lookup EXCEPT ![p] =
              [IdleLookup EXCEPT !.pc = "check", !.token = t,
                                 !.left = sessionCache[t],
                                 !.late = t \in loggedOut]]
      BY <1>1 DEF GetSession
    <2>2. lookup'[p].token = t /\ lookup'[p].left = sessionCache[t]
      BY <1>a, <2>1 DEF IdleLookup
    <2>3. sessionCache[t] <= sessions[t].left
      BY DEF ExpiryInv, CachedLeft
    <2>4. \A q \in Lookups : q # p => lookup'[q] = lookup[q]
      BY <1>a, <2>1
    <2> QED
      BY <1>1, <2>2, <2>3, <2>4, LookupExpiry DEF GetSession, database, caches
  <1>2. ASSUME NEW p \in Lookups, MissSession(p) PROVE ExpiryInv'
    <2>1. PICK t \in Tokens :
            lookup' = [lookup EXCEPT ![p] =
              [IdleLookup EXCEPT !.pc = "find", !.token = t,
                                 !.late = t \in loggedOut]]
      BY <1>2 DEF MissSession
    <2>2. lookup'[p].pc = "find"
      BY <1>a, <2>1 DEF IdleLookup
    <2>3. \A q \in Lookups : q # p => lookup'[q] = lookup[q]
      BY <1>a, <2>1
    <2> QED
      BY <1>2, <2>2, <2>3, LookupExpiry DEF MissSession, database, caches
  <1>3. ASSUME NEW p \in Lookups, FindSessionByToken(p) PROVE ExpiryInv'
    <2>1. \A q \in Lookups : q # p => lookup'[q] = lookup[q]
      BY <1>3, <1>a DEF FindSessionByToken, Ends
    <2>2. lookup'[p].pc \in {"fill", "check"}
            => /\ lookup'[p].token \in Tokens
               /\ lookup'[p].left <= sessions[lookup'[p].token].left
      <3>1. CASE Ends(p)
        BY <1>a, <3>1 DEF Ends
      <3>2. CASE lookup' = [lookup EXCEPT ![p].pc = "fill",
                              ![p].left = sessions[lookup[p].token].left]
        <4>1. lookup[p].token \in Tokens
          BY <1>3 DEF FindSessionByToken, Issued
        <4>2. /\ lookup'[p].token = lookup[p].token
              /\ lookup'[p].left = sessions[lookup[p].token].left
          BY <1>a, <3>2 DEF LookupState
        <4> QED
          BY <1>b, <4>1, <4>2
      <3> QED
        BY <1>3, <3>1, <3>2 DEF FindSessionByToken
    <2> QED
      BY <1>3, <2>1, <2>2, LookupExpiry DEF FindSessionByToken, database, caches
  <1>4. ASSUME NEW p \in Lookups, FillSession(p) PROVE ExpiryInv'
    <2>1. \A q \in Lookups : q # p => lookup'[q] = lookup[q]
      BY <1>4, <1>a DEF FillSession
    <2>2. lookup'[p].token = lookup[p].token /\ lookup'[p].left = lookup[p].left
      BY <1>4, <1>a DEF FillSession, LookupState
    <2>3. \E t \in Tokens, n \in 0..Life :
            n <= sessions[t].left /\ StoreSession(t, n)
      BY <1>4, <1>c DEF FillSession
    <2> QED
      BY <1>4, <1>c, <2>1, <2>2, <2>3, LookupExpiry DEF FillSession, database
  <1>5. ASSUME NEW p \in Lookups, CheckExpiry(p) PROVE ExpiryInv'
    <2>1. \A q \in Lookups : q # p => lookup'[q] = lookup[q]
      BY <1>5, <1>a DEF CheckExpiry
    <2>2. lookup'[p].pc \in {"context", "drop"}
      BY <1>5, <1>a DEF CheckExpiry
    <2> QED
      BY <1>5, <2>1, <2>2, LookupExpiry DEF CheckExpiry, database, caches
  <1>e. ASSUME NEW p \in Lookups, Ends(p),
               lookup[p].pc # "idle", StoreSession(lookup[p].token, 0),
               UNCHANGED <<database, login>>
        PROVE  ExpiryInv'
    <2>1. \A q \in Lookups : q # p => lookup'[q] = lookup[q]
      BY <1>e, <1>a DEF Ends
    <2>2. lookup'[p].pc = "idle"
      BY <1>e, <1>a DEF Ends
    <2>3. \E t \in Tokens, n \in 0..Life :
            n <= sessions[t].left /\ StoreSession(t, n)
      <3>1. lookup[p].token \in Tokens /\ 0 \in 0..Life
        BY <1>e DEF Issued
      <3>2. 0 <= sessions[lookup[p].token].left
        BY <1>b, <3>1
      <3> QED
        BY <1>e, <3>1, <3>2
    <2> QED
      BY <1>e, <2>1, <2>2, <2>3, LookupExpiry DEF database
  <1>6. ASSUME NEW p \in Lookups, DropExpired(p) PROVE ExpiryInv'
    BY <1>6, <1>e DEF DropExpired, DeleteSession
  <1>7. ASSUME NEW p \in Lookups,
               GetUserContext(p) \/ FindByID(p) \/ FillUserContext(p) \/ Handle(p)
        PROVE  ExpiryInv'
    <2>1. \A q \in Lookups : q # p => lookup'[q] = lookup[q]
      BY <1>7, <1>a DEF GetUserContext, FindByID, FillUserContext, Handle, Ends
    <2>2. lookup'[p].pc \in {"handler", "user", "fillContext", "idle"}
      <3>1. CASE GetUserContext(p)
        BY <3>1, <1>a DEF GetUserContext, LookupState
      <3>2. CASE FindByID(p)
        BY <3>2, <1>a DEF FindByID, Ends, LookupState
      <3>3. CASE FillUserContext(p)
        BY <3>3, <1>a DEF FillUserContext
      <3>4. CASE Handle(p)
        BY <3>4, <1>a DEF Handle, Ends
      <3> QED
        BY <1>7, <3>1, <3>2, <3>3, <3>4
    <2>3. UNCHANGED <<sessions, sessionCache, login>>
      BY <1>7 DEF GetUserContext, FindByID, FillUserContext, Handle, database, caches
    <2> QED
      BY <2>1, <2>2, <2>3, LookupExpiry
  <1>8. ASSUME NEW p \in Lookups, RevokeToken(p) PROVE ExpiryInv'
    <2>1. \A q \in Lookups : q # p => lookup'[q] = lookup[q]
      BY <1>8, <1>a DEF RevokeToken
    <2>2. lookup'[p].pc = "forget"
      BY <1>8, <1>a DEF RevokeToken
    <2>3. \A t \in Tokens : sessions'[t].left = sessions[t].left
      BY <1>8, <1>a DEF RevokeToken, Session
    <2> QED
      BY <1>8, <2>1, <2>2, <2>3, LookupExpiry DEF RevokeToken, caches
  <1>9. ASSUME NEW p \in Lookups, ForgetToken(p) PROVE ExpiryInv'
    BY <1>9, <1>e DEF ForgetToken, DeleteSession
  <1>10. ASSUME NEW g \in Logins, BeginLogin(g) \/ BeginRegister(g) PROVE ExpiryInv'
    <2>1. \A h \in Logins : h # g => login'[h] = login[h]
      BY <1>10, <1>a DEF BeginLogin, BeginRegister
    <2>2. login'[g].pc \in {"session", "create"}
      <3>1. CASE BeginLogin(g)
        <4>1. PICK u \in Users :
                login' = [login EXCEPT ![g].pc = "session", ![g].op = "login",
                                       ![g].user = u, ![g].rights = rights[u]]
          BY <3>1 DEF BeginLogin
        <4> QED
          BY <4>1, <1>a DEF LoginState
      <3>2. CASE BeginRegister(g)
        <4>1. PICK u \in Users :
                login' = [login EXCEPT ![g].pc = "create", ![g].op = "register",
                                       ![g].user = u]
          BY <3>2 DEF BeginRegister
        <4> QED
          BY <4>1, <1>a DEF LoginState
      <3> QED
        BY <1>10, <3>1, <3>2
    <2>3. UNCHANGED <<sessions, sessionCache, lookup>>
      BY <1>10 DEF BeginLogin, BeginRegister, database, caches
    <2> QED
      BY <1>b, <2>1, <2>2, <2>3, LoginExpiry
  <1>11. ASSUME NEW g \in Logins, Create(g) PROVE ExpiryInv'
    <2>1. \A h \in Logins : h # g => login'[h] = login[h]
      BY <1>11, <1>a DEF Create, Refuse
    <2>2. login'[g].pc \in {"session", "refused"}
      <3>1. PICK c \in {"session", "refused"} : login' = [login EXCEPT ![g].pc = c]
        BY <1>11 DEF Create, Refuse
      <3> QED
        BY <3>1, <1>a
    <2>3. UNCHANGED <<sessions, sessionCache, lookup>>
      BY <1>11 DEF Create, caches
    <2> QED
      BY <1>b, <2>1, <2>2, <2>3, LoginExpiry
  <1>12. ASSUME NEW g \in Logins, CreateSession(g) PROVE ExpiryInv'
    <2>1. \A h \in Logins : h # g => login'[h] = login[h]
      BY <1>12, <1>a DEF CreateSession, Refuse
    <2>2. CASE Refuse(g) /\ UNCHANGED sessions
      <3>1. login'[g].pc = "refused"
        BY <1>a, <2>2 DEF Refuse
      <3>2. UNCHANGED <<sessions, sessionCache, lookup>>
        BY <1>12, <2>2 DEF CreateSession, caches
      <3> QED
        BY <1>b, <2>1, <3>1, <3>2, LoginExpiry
    <2>3. ASSUME NEW t \in Tokens,
                 sessions' = [sessions EXCEPT ![t] =
                   [user |-> login[g].user, left |-> Life, revoked |-> FALSE]],
                 NEW c \in {"findUser", "fill"},
                 login' = [login EXCEPT ![g].pc = c, ![g].token = t, ![g].left = Life]
          PROVE  ExpiryInv'
      <3>1. login'[g].token = t /\ login'[g].left = Life
        BY <1>a, <2>3 DEF LoginState
      <3>2. sessions'[t].left = Life
        BY <1>a, <2>3
      <3>3. \A s \in Tokens : s # t => sessions'[s] = sessions[s]
        BY <1>a, <2>3
      <3>4. \A s \in Tokens : /\ sessions[s].left \in Nat /\ sessions'[s].left \in Nat
                              /\ sessions[s].left <= sessions'[s].left
        BY <1>b, <3>2, <3>3
      <3>5. UNCHANGED <<sessionCache, lookup>>
        BY <1>12 DEF CreateSession, caches
      <3>6. /\ login'[g].token \in Tokens
            /\ login'[g].left <= sessions'[login'[g].token].left
        BY <3>1, <3>2
      <3> QED
        BY <2>1, <3>4, <3>5, <3>6, LoginExpiry
    <2> QED
      BY <1>12, <2>2, <2>3 DEF CreateSession
  <1>13. ASSUME NEW g \in Logins, FindCreatedUser(g) PROVE ExpiryInv'
    <2>1. \A h \in Logins : h # g => login'[h] = login[h]
      BY <1>13, <1>a DEF FindCreatedUser
    <2>2. login'[g].token = login[g].token /\ login'[g].left = login[g].left
      BY <1>13, <1>a DEF FindCreatedUser, LoginState
    <2>3. login[g].pc = "findUser" /\ UNCHANGED <<sessions, sessionCache, lookup>>
      BY <1>13 DEF FindCreatedUser, database, caches
    <2> QED
      BY <1>b, <1>d, <2>1, <2>2, <2>3, LoginExpiry
  <1>14. ASSUME NEW g \in Logins, CacheSession(g) PROVE ExpiryInv'
    <2>1. \A h \in Logins : h # g => login'[h] = login[h]
      BY <1>14, <1>a DEF CacheSession
    <2>2. login'[g].pc \in {"fillContext", "ended"}
      BY <1>14, <1>a DEF CacheSession
    <2>3. UNCHANGED <<sessions, lookup>>
      BY <1>14 DEF CacheSession, database
    <2>4. \E t \in Tokens, n \in 0..Life :
            n <= sessions'[t].left /\ StoreSession(t, n)
      BY <1>14, <1>d, <2>3 DEF CacheSession
    <2> QED
      BY <1>b, <2>1, <2>2, <2>3, <2>4, LoginExpiry
  <1>15. ASSUME NEW g \in Logins, CacheUser(g) PROVE ExpiryInv'
    <2>1. \A h \in Logins : h # g => login'[h] = login[h]
      BY <1>15, <1>a DEF CacheUser
    <2>2. login'[g].pc = "ended"
      BY <1>15, <1>a DEF CacheUser
    <2> QED
      BY <1>15, <1>b, <2>1, <2>2, LoginExpiry DEF CacheUser, database
  <1>16. ASSUME NEW a \in Admins, ChangeRights(a) \/ InvalidateUserContext(a)
         PROVE  ExpiryInv'
    BY <1>16 DEF ChangeRights, InvalidateUserContext, database, caches,
                 ExpiryInv, CachedLeft, LookupLeft, LoginLeft
  <1>17. CASE Tick
    <2>0. \A m, n \in Nat : m <= n => Less(m) <= Less(n)
      BY DEF Less
    <2>1. CachedLeft'
      <3> SUFFICES ASSUME NEW t \in Tokens PROVE sessionCache'[t] <= sessions'[t].left
        BY DEF CachedLeft
      <3>1. sessionCache[t] \in Nat /\ sessionCache[t] <= sessions[t].left
        BY <1>a DEF ExpiryInv, CachedLeft
      <3>2. sessionCache'[t] = Less(sessionCache[t]) /\ sessions'[t].left = Less(sessions[t].left)
        BY <1>17 DEF Tick, Session
      <3> QED
        BY <1>b, <2>0, <3>1, <3>2
    <2>2. LookupLeft'
      <3> SUFFICES ASSUME NEW p \in Lookups, lookup'[p].pc \in {"fill", "check"}
                   PROVE  lookup'[p].left <= sessions'[lookup'[p].token].left
        BY DEF LookupLeft
      <3>1. /\ lookup'[p].pc = lookup[p].pc /\ lookup'[p].token = lookup[p].token
            /\ lookup'[p].left = Less(lookup[p].left)
        BY <1>17 DEF Tick, LookupState
      <3>2. lookup[p].token \in Tokens /\ lookup[p].left \in Nat
            /\ lookup[p].left <= sessions[lookup[p].token].left
        BY <1>c, <3>1
      <3>3. sessions'[lookup[p].token].left = Less(sessions[lookup[p].token].left)
        BY <1>17, <3>2 DEF Tick, Session
      <3> QED
        BY <1>b, <2>0, <3>1, <3>2, <3>3
    <2>3. LoginLeft'
      <3> SUFFICES ASSUME NEW g \in Logins, login'[g].pc \in {"findUser", "fill"}
                   PROVE  login'[g].left <= sessions'[login'[g].token].left
        BY DEF LoginLeft
      <3>1. /\ login'[g].pc = login[g].pc /\ login'[g].token = login[g].token
            /\ login'[g].left = Less(login[g].left)
        BY <1>17 DEF Tick, LoginState
      <3>2. login[g].token \in Tokens /\ login[g].left \in Nat
            /\ login[g].left <= sessions[login[g].token].left
        BY <1>d, <3>1
      <3>3. sessions'[login[g].token].left = Less(sessions[login[g].token].left)
        BY <1>17, <3>2 DEF Tick, Session
      <3> QED
        BY <1>b, <2>0, <3>1, <3>2, <3>3
    <2> QED
      BY <2>1, <2>2, <2>3 DEF ExpiryInv
  <1>18. CASE Restart
    <2>1. \A t \in Tokens : /\ sessions'[t].left \in Nat
                            /\ sessions[t].left <= sessions'[t].left
      <3> SUFFICES ASSUME NEW t \in Tokens
                   PROVE  /\ sessions'[t].left \in Nat
                          /\ sessions[t].left <= sessions'[t].left
        OBVIOUS
      <3>1. CASE t \in DemoTokens
        <4>1. sessions'[t] = [sessions[t] EXCEPT !.left = Life, !.revoked = FALSE]
          BY <1>18, <3>1 DEF Restart
        <4>2. sessions'[t].left = Life
          BY <4>1 DEF Session
        <4> QED
          BY <1>b, <4>2
      <3>2. CASE t \notin DemoTokens
        <4>1. sessions'[t] = sessions[t]
          BY <1>18, <3>2 DEF Restart
        <4> QED
          BY <1>b, <4>1
      <3> QED
        BY <3>1, <3>2
    <2>2. CachedLeft'
      <3> SUFFICES ASSUME NEW t \in Tokens PROVE sessionCache'[t] <= sessions'[t].left
        BY DEF CachedLeft
      <3>1. sessionCache'[t] \in Nat /\ sessionCache'[t] <= sessions[t].left
        <4>1. UNCHANGED sessionCache
          BY <1>18 DEF Restart, caches
        <4>2. sessionCache[t] \in Nat
          BY <1>a
        <4> QED
          BY <4>1, <4>2 DEF ExpiryInv, CachedLeft
      <3> QED
        BY <1>b, <2>1, <3>1
    <2>3. LookupLeft'
      BY <1>18 DEF Restart, LookupLeft
    <2>4. LoginLeft'
      <3> SUFFICES ASSUME NEW g \in Logins, login'[g].pc \in {"findUser", "fill"}
                   PROVE  FALSE
        BY DEF LoginLeft
      <3>1. CASE login'[g] = login[g] /\ login[g].pc \in {"idle", "ended"}
        BY <3>1
      <3>2. CASE login'[g] = [login[g] EXCEPT !.pc = "refused"]
        BY <3>2, <1>a DEF LoginState
      <3> QED
        BY <1>18, <3>1, <3>2 DEF Restart
    <2> QED
      BY <2>2, <2>3, <2>4 DEF ExpiryInv
  <1> QED
    BY <1>0, <1>1, <1>2, <1>3, <1>4, <1>5, <1>6, <1>7, <1>8, <1>9, <1>10, <1>11,
       <1>12, <1>13, <1>14, <1>15, <1>16, <1>17, <1>18
       DEF Next, LookupStep, LoginStep

\* A request leaves "check" for "context" only in CheckExpiry.
LEMMA OnlyCheckAdmits ==
  ASSUME TypeInv, [Next]_vars, NEW p \in Lookups,
         lookup[p].pc = "check", lookup'[p].pc = "context"
  PROVE  lookup[p].left > 0
  <1>a. lookup \in [Lookups -> LookupState]
    BY DEF TypeInv, TypeOK
  <1>1. ASSUME NEW q \in Lookups, q # p,
               GetSession(q) \/ MissSession(q) \/ LookupStep(q)
        PROVE  FALSE
    <2>1. lookup'[p] = lookup[p]
      BY <1>1, <1>a DEF GetSession, MissSession, LookupStep, FindSessionByToken,
         FillSession, CheckExpiry, DropExpired, GetUserContext, FindByID,
         FillUserContext, Handle, RevokeToken, ForgetToken, Ends
    <2> QED
      BY <2>1
  <1>2. CASE CheckExpiry(p)
    BY <1>2, <1>a DEF CheckExpiry
  <1>3. CASE (GetSession(p) \/ MissSession(p) \/ LookupStep(p)) /\ ~CheckExpiry(p)
    BY <1>3 DEF GetSession, MissSession, LookupStep, FindSessionByToken,
       FillSession, DropExpired, GetUserContext, FindByID,
       FillUserContext, Handle, RevokeToken, ForgetToken
  <1>4. CASE UNCHANGED lookup
    BY <1>4
  <1>5. CASE Tick
    BY <1>5, <1>a DEF Tick, LookupState
  <1>6. CASE Restart
    BY <1>6 DEF Restart, IdleLookup
  <1>7. ASSUME NEW g \in Logins, BeginLogin(g) \/ BeginRegister(g) \/ LoginStep(g)
        PROVE  UNCHANGED lookup
    BY <1>7 DEF BeginLogin, BeginRegister, LoginStep, Create, CreateSession,
       FindCreatedUser, CacheSession, CacheUser
  <1>8. ASSUME NEW a \in Admins, ChangeRights(a) \/ InvalidateUserContext(a)
        PROVE  UNCHANGED lookup
    BY <1>8 DEF ChangeRights, InvalidateUserContext
  <1> QED
    BY <1>1, <1>2, <1>3, <1>4, <1>5, <1>6, <1>7, <1>8 DEF Next, vars

\* No request is let in on a session whose row has expired, however its expiry
\* has been copied (FindUserByToken): the proof shows that no copy, in the cache
\* or in a request, exceeds what remains of the row.
THEOREM ExpiredRefused == Spec => ExpiredNeverAdmitted
  <1>1. Init => ExpiryInv
    BY InitExpiry
  <1>2. TypeInv /\ ExpiryInv /\ [Next]_vars => ExpiryInv'
    BY NextExpiry
  <1>3. Spec => []ExpiryInv
    BY <1>1, <1>2, TypeInvariant, PTL DEF Spec
  <1>4. ASSUME TypeInv, ExpiryInv, [Next]_vars, NEW p \in Lookups,
               lookup[p].pc = "check", lookup'[p].pc = "context"
        PROVE  sessions[lookup[p].token].left > 0
    <2>1. /\ lookup[p].token \in Tokens /\ lookup[p].left \in Nat
          /\ lookup[p].left <= sessions[lookup[p].token].left
      BY <1>4, Constants, AtHand DEF LookupState, Issued, ExpiryInv, LookupLeft
    <2>2. sessions[lookup[p].token] \in Session
      BY <1>4, <2>1, AtHand
    <2>3. sessions[lookup[p].token].left \in Nat
      BY <2>2, Constants DEF Session
    <2>4. lookup[p].left > 0
      BY <1>4, OnlyCheckAdmits
    <2> QED
      BY <2>1, <2>3, <2>4
  <1>5. TypeInv /\ ExpiryInv /\ [Next]_vars
          => [\A p \in Lookups :
                (lookup[p].pc = "check" /\ lookup'[p].pc = "context")
                   => sessions[lookup[p].token].left > 0]_vars
    BY <1>4
  <1> QED
    BY <1>3, <1>5, TypeInvariant, PTL DEF Spec, ExpiredNeverAdmitted

-----------------------------------------------------------------------------
(* Registration. *)

\* The account of a register request that has passed Create exists.
RegisteredExists == \A g \in Logins : Registered(g) => rights[login[g].user] > 0
RegistrationInv == RegisteredExists /\ OneRegistration

\* A step that registers nobody and removes no account.
LEMMA RegistrationFrame ==
  ASSUME TypeInv, TypeInv', RegistrationInv,
         \A g \in Logins : /\ Registered(g)' => Registered(g)
                           /\ Registered(g) => login'[g].user = login[g].user,
         \A u \in Users : rights[u] > 0 => rights'[u] > 0
  PROVE  RegistrationInv'
  <1>1. \A g \in Logins : Registered(g) => login[g].user \in Users
    BY DEF Registered, TypeInv, UnderWay
  <1>2. RegisteredExists'
    BY <1>1 DEF RegistrationInv, RegisteredExists
  <1>3. OneRegistration'
    BY DEF RegistrationInv, OneRegistration
  <1> QED
    BY <1>2, <1>3 DEF RegistrationInv

LEMMA NextRegistration ==
  TypeInv /\ RegistrationInv /\ [Next]_vars /\ TypeInv' => RegistrationInv'
  <1> SUFFICES ASSUME TypeInv, RegistrationInv, [Next]_vars, TypeInv'
               PROVE  RegistrationInv'
    OBVIOUS
  <1>a. /\ login \in [Logins -> LoginState]
        /\ rights \in [Users -> 0..MaxRights] /\ MaxRights \in Nat
    BY Constants DEF TypeInv, TypeOK
  <1>0. CASE UNCHANGED <<rights, login>>
    BY <1>0, RegistrationFrame DEF Registered
  <1>1. ASSUME NEW p \in Lookups,
               GetSession(p) \/ MissSession(p) \/ LookupStep(p)
        PROVE  UNCHANGED <<rights, login>>
    BY <1>1 DEF GetSession, MissSession, LookupStep, FindSessionByToken,
       FillSession, CheckExpiry, DropExpired, GetUserContext, FindByID,
       FillUserContext, Handle, RevokeToken, ForgetToken, database
  <1>2. ASSUME NEW g \in Logins, BeginLogin(g) PROVE RegistrationInv'
    <2>1. PICK u \in Users :
            login' = [login EXCEPT ![g].pc = "session", ![g].op = "login",
                                   ![g].user = u, ![g].rights = rights[u]]
      BY <1>2 DEF BeginLogin
    <2>2. login'[g].op = "login"
      BY <1>a, <2>1 DEF LoginState
    <2>3. ~Registered(g) /\ \A h \in Logins : h # g => login'[h] = login[h]
      BY <1>2, <1>a, <2>1 DEF BeginLogin, Registered
    <2> QED
      BY <1>2, <2>2, <2>3, RegistrationFrame DEF BeginLogin, database, Registered
  <1>3. ASSUME NEW g \in Logins, BeginRegister(g) PROVE RegistrationInv'
    <2>1. PICK u \in Users :
            login' = [login EXCEPT ![g].pc = "create", ![g].op = "register",
                                   ![g].user = u]
      BY <1>3 DEF BeginRegister
    <2>2. login'[g].pc = "create"
      BY <1>a, <2>1 DEF LoginState
    <2>3. ~Registered(g) /\ \A h \in Logins : h # g => login'[h] = login[h]
      BY <1>3, <1>a, <2>1 DEF BeginRegister, Registered
    <2> QED
      BY <1>3, <2>2, <2>3, RegistrationFrame DEF BeginRegister, database, Registered
  <1>4. ASSUME NEW g \in Logins, Create(g) PROVE RegistrationInv'
    <2>1. /\ login[g].pc = "create" /\ ~Registered(g)
          /\ \A h \in Logins : h # g => login'[h] = login[h]
      BY <1>4, <1>a DEF Create, Refuse, Registered
    <2>2. CASE Refuse(g) /\ UNCHANGED rights
      <3>1. login'[g].pc = "refused"
        BY <1>a, <2>2 DEF Refuse
      <3> QED
        BY <2>1, <2>2, <3>1, RegistrationFrame DEF Registered
    <2>3. CASE /\ rights[login[g].user] = 0
               /\ rights' = [rights EXCEPT ![login[g].user] = 1]
               /\ login' = [login EXCEPT ![g].pc = "session"]
      <3>1. login[g].user \in Users
        BY <2>1 DEF TypeInv, UnderWay
      <3>2. login'[g].user = login[g].user
        BY <1>a, <2>3 DEF LoginState
      <3>3. rights'[login[g].user] = 1
        BY <1>a, <2>3, <3>1
      <3>4. \A h \in Logins : Registered(h) =>
              login[h].user \in Users /\ login[h].user # login[g].user
        BY <2>3 DEF RegistrationInv, RegisteredExists, Registered, TypeInv, UnderWay
      <3>5. \A h \in Logins : h # g => (Registered(h)' <=> Registered(h))
        BY <2>1 DEF Registered
      <3>6. RegisteredExists'
        <4> SUFFICES ASSUME NEW h \in Logins, Registered(h)'
                     PROVE  rights'[login'[h].user] > 0
          BY DEF RegisteredExists
        <4>1. CASE h = g
          BY <3>2, <3>3, <4>1
        <4>2. CASE h # g
          <5>1. Registered(h) /\ login'[h] = login[h]
            BY <2>1, <3>5, <4>2
          <5>2. rights'[login[h].user] = rights[login[h].user]
            BY <1>a, <2>3, <3>4, <5>1
          <5> QED
            BY <5>1, <5>2 DEF RegistrationInv, RegisteredExists
        <4> QED
          BY <4>1, <4>2
      <3>7. OneRegistration'
        BY <2>1, <3>2, <3>4, <3>5 DEF RegistrationInv, OneRegistration
      <3> QED
        BY <3>6, <3>7 DEF RegistrationInv
    <2> QED
      BY <1>4, <2>2, <2>3 DEF Create
  <1>5. ASSUME NEW g \in Logins,
               CreateSession(g) \/ FindCreatedUser(g) \/ CacheSession(g) \/ CacheUser(g)
        PROVE  RegistrationInv'
    <2>1. UNCHANGED rights /\ \A h \in Logins : h # g => login'[h] = login[h]
      BY <1>5, <1>a DEF CreateSession, Refuse, FindCreatedUser, CacheSession,
         CacheUser, database
    <2>2. login[g].pc \in {"session", "findUser", "fill", "fillContext"}
      BY <1>5 DEF CreateSession, FindCreatedUser, CacheSession, CacheUser
    <2>3. login'[g].op = login[g].op /\ login'[g].user = login[g].user
      <3>1. CASE CreateSession(g)
        <4>1. CASE Refuse(g)
          BY <4>1, <1>a DEF Refuse, LoginState
        <4>2. ASSUME NEW t \in Tokens, NEW c \in {"findUser", "fill"},
                     login' = [login EXCEPT ![g].pc = c, ![g].token = t,
                                            ![g].left = Life]
              PROVE  login'[g].op = login[g].op /\ login'[g].user = login[g].user
          BY <4>2, <1>a DEF LoginState
        <4> QED
          BY <3>1, <4>1, <4>2 DEF CreateSession
      <3>2. CASE FindCreatedUser(g)
        BY <3>2, <1>a DEF FindCreatedUser, LoginState
      <3>3. CASE CacheSession(g) \/ CacheUser(g)
        BY <3>3, <1>a DEF CacheSession, CacheUser, LoginState
      <3> QED
        BY <1>5, <3>1, <3>2, <3>3
    <2> QED
      BY <2>1, <2>2, <2>3, RegistrationFrame DEF Registered
  <1>6. ASSUME NEW a \in Admins, ChangeRights(a) PROVE RegistrationInv'
    <2>1. PICK u \in Users : rights' = [rights EXCEPT ![u] = @ + 1]
      BY <1>6 DEF ChangeRights
    <2>2. \A v \in Users : rights[v] > 0 => rights'[v] > 0
      BY <1>a, <2>1
    <2> QED
      BY <1>6, <2>2, RegistrationFrame DEF ChangeRights, Registered
  <1>7. ASSUME NEW a \in Admins, InvalidateUserContext(a) PROVE RegistrationInv'
    BY <1>7, <1>0 DEF InvalidateUserContext, database
  <1>8. CASE Tick
    <2>1. \A g \in Logins : /\ login'[g].pc = login[g].pc
                            /\ login'[g].op = login[g].op
                            /\ login'[g].user = login[g].user
      BY <1>8, <1>a DEF Tick, LoginState
    <2> QED
      BY <1>8, <2>1, RegistrationFrame DEF Tick, Registered
  <1>9. CASE Restart
    <2>1. ASSUME NEW g \in Logins
          PROVE  /\ login'[g].pc \in {login[g].pc, "refused"}
                 /\ login'[g].op = login[g].op
                 /\ login'[g].user = login[g].user
      <3>1. CASE login'[g] = login[g]
        BY <3>1
      <3>2. CASE login'[g] = [login[g] EXCEPT !.pc = "refused"]
        BY <3>2, <1>a DEF LoginState
      <3> QED
        BY <1>9, <3>1, <3>2 DEF Restart
    <2>2. \A u \in Users : rights[u] > 0 => rights'[u] > 0
      <3> TAKE u \in Users
      <3>1. rights[u] \in Nat /\ (rights'[u] = rights[u] \/ rights'[u] = rights[u] + 1)
        <4>1. rights[u] \in Nat
          BY <1>a
        <4>2. rights'[u] = rights[u] \/ rights'[u] = rights[u] + 1
          BY <1>9 DEF Restart
        <4> QED
          BY <4>1, <4>2
      <3> QED
        BY <3>1
    <2> QED
      BY <2>1, <2>2, RegistrationFrame DEF Registered
  <1> QED
    BY <1>0, <1>1, <1>2, <1>3, <1>4, <1>5, <1>6, <1>7, <1>8, <1>9
       DEF Next, LoginStep, vars, database

\* Of the register requests for one account at most one succeeds, for any number
\* of them: whoever passes Create has made the account exist (auth_service.go,
\* Register; the unique account in Create).
THEOREM RegistersOnce == Spec => []OneRegistration
  <1>1. Init => RegistrationInv
    BY DEF Init, RegistrationInv, RegisteredExists, OneRegistration, Registered, IdleLogin
  <1>2. RegistrationInv => OneRegistration
    BY DEF RegistrationInv
  <1> QED
    BY <1>1, <1>2, NextRegistration, TypeInvariant, PTL DEF Spec

-----------------------------------------------------------------------------
(* What one step does to a request, a row and a cached value, whoever takes  *)
(* it.                                                                       *)

LookupGoes(p) ==
  \/ lookup'[p] = lookup[p]
  \/ lookup'[p].pc = "idle"
  \/ /\ lookup[p].pc = "idle"
     /\ Known(lookup'[p].token) /\ lookup'[p].token \in Tokens
     /\ \/ lookup'[p].pc = "find"
        \/ lookup'[p].pc = "check" /\ sessionCache[lookup'[p].token] > 0
  \/ /\ lookup[p].pc # "idle"
     /\ lookup'[p].token = lookup[p].token
     /\ lookup'[p].pc = "fill" =>
          \/ lookup[p].pc = "fill"
          \/ lookup[p].pc = "find" /\ ~sessions[lookup[p].token].revoked
     /\ lookup'[p].pc = "check" => lookup[p].pc \in {"fill", "check"}
     /\ lookup'[p].pc = "fillContext" =>
          \/ lookup[p].pc = "fillContext" /\ lookup'[p].rights = lookup[p].rights
          \/ lookup[p].pc = "user" /\ lookup'[p].rights = rights[UserOf(p)]

\* Request g gets token t.
Issues(g, t) ==
  /\ login[g].pc = "session" /\ login'[g].pc \in {"findUser", "fill"}
  /\ login'[g].pc = "fill" => login[g].op = "login"
  /\ login'[g].token = t
  /\ login'[g].user = login[g].user /\ login'[g].rights = login[g].rights
  /\ sessions[t].user = None
  /\ sessions'[t].user \in Users /\ ~sessions'[t].revoked
  /\ \A h \in Logins : h # g => login'[h] = login[h]

CreatorsRegister ==
  \A g \in Logins : login[g].pc = "create" => login[g].op = "register"

\* Request g goes on without one.
LoginGoes(g) ==
  /\ login'[g].pc = "create" => \/ login[g].pc = "create" /\ login'[g].op = login[g].op
                                \/ login'[g].op = "register"
  /\ login'[g].token = login[g].token
  /\ login[g].pc = "ended" => login'[g].pc = "ended"
  /\ WillCache(g)' =>
       \/ /\ WillCache(g)
          /\ login'[g].user = login[g].user /\ login'[g].rights = login[g].rights
       \/ login'[g].rights = rights[login'[g].user]

RowGoes(t) ==
  sessions'[t].revoked =>
    \/ sessions[t].revoked
    \/ \E p \in Lookups : lookup[p].pc = "handler" /\ lookup[p].token = t

CachedSessionGoes(t) ==
  \/ sessionCache'[t] <= sessionCache[t]
  \/ \E p \in Lookups : lookup[p].pc = "fill" /\ lookup[p].token = t
  \/ \E g \in Logins : login[g].pc = "fill" /\ login[g].token = t

CachedUserGoes(u) ==
  \/ contextCache'[u].ttl = 0
  \/ /\ contextCache'[u].rights = contextCache[u].rights
     /\ contextCache'[u].ttl <= contextCache[u].ttl
  \/ \E p \in Lookups :
       /\ lookup[p].pc = "fillContext" /\ UserOf(p) = u
       /\ contextCache'[u].rights = lookup[p].rights
  \/ \E g \in Logins :
       /\ login[g].pc = "fillContext" /\ login[g].user = u
       /\ contextCache'[u].rights = login[g].rights

LEMMA LookupSteps ==
  ASSUME TypeInv, [Next]_vars, NEW p \in Lookups
  PROVE  LookupGoes(p)
  <1>a. lookup \in [Lookups -> LookupState]
    BY DEF TypeInv, TypeOK
  <1>1. ASSUME NEW q \in Lookups, q # p,
               GetSession(q) \/ MissSession(q) \/ LookupStep(q)
        PROVE  lookup'[p] = lookup[p]
    BY <1>1, <1>a DEF GetSession, MissSession, LookupStep, FindSessionByToken,
       FillSession, CheckExpiry, DropExpired, GetUserContext, FindByID,
       FillUserContext, Handle, RevokeToken, ForgetToken, Ends
  <1>2. CASE GetSession(p)
    <2>1. PICK t \in Tokens :
            /\ Known(t) /\ sessionCache[t] > 0
            /\ lookup' = [lookup EXCEPT ![p] =
                 [IdleLookup EXCEPT !.pc = "check", !.token = t,
                                    !.left = sessionCache[t],
                                    !.late = t \in loggedOut]]
      BY <1>2 DEF GetSession
    <2>2. lookup'[p].token = t /\ lookup'[p].pc = "check"
      BY <2>1, <1>a DEF IdleLookup
    <2> QED
      BY <1>2, <2>1, <2>2 DEF GetSession, LookupGoes
  <1>3. CASE MissSession(p)
    <2>1. PICK t \in Tokens :
            /\ Known(t)
            /\ lookup' = [lookup EXCEPT ![p] =
                 [IdleLookup EXCEPT !.pc = "find", !.token = t,
                                    !.late = t \in loggedOut]]
      BY <1>3 DEF MissSession
    <2>2. lookup'[p].token = t /\ lookup'[p].pc = "find"
      BY <2>1, <1>a DEF IdleLookup
    <2> QED
      BY <1>3, <2>1, <2>2 DEF MissSession, LookupGoes
  <1>4. CASE Ends(p)
    BY <1>4, <1>a, IdleTyped DEF Ends, LookupGoes
  <1>5. CASE FindSessionByToken(p)
    <2>1. CASE /\ ~sessions[lookup[p].token].revoked
               /\ lookup' = [lookup EXCEPT ![p].pc = "fill",
                               ![p].left = sessions[lookup[p].token].left]
      BY <1>5, <2>1, <1>a DEF FindSessionByToken, LookupState, LookupGoes
    <2> QED
      BY <1>4, <1>5, <2>1 DEF FindSessionByToken
  <1>6. CASE FillSession(p) \/ CheckExpiry(p) \/ FillUserContext(p) \/ RevokeToken(p)
    BY <1>6, <1>a DEF FillSession, CheckExpiry, FillUserContext, RevokeToken,
       LookupState, LookupGoes
  <1>7. CASE GetUserContext(p)
    BY <1>7, <1>a DEF GetUserContext, LookupState, LookupGoes
  <1>8. CASE FindByID(p)
    <2>1. CASE lookup' = [lookup EXCEPT ![p].pc = "fillContext",
                                        ![p].rights = rights[UserOf(p)]]
      BY <1>8, <2>1, <1>a DEF FindByID, LookupState, LookupGoes
    <2> QED
      BY <1>4, <1>8, <2>1 DEF FindByID
  <1>9. CASE DropExpired(p) \/ Handle(p) \/ ForgetToken(p)
    BY <1>4, <1>9 DEF DropExpired, Handle, ForgetToken
  <1>10. CASE UNCHANGED lookup
    BY <1>10 DEF LookupGoes
  <1>11. CASE Tick
    <2>1. /\ lookup'[p].pc = lookup[p].pc /\ lookup'[p].token = lookup[p].token
          /\ lookup'[p].rights = lookup[p].rights
      BY <1>11, <1>a DEF Tick, LookupState
    <2> QED
      BY <2>1 DEF LookupGoes
  <1>12. CASE Restart
    BY <1>12, IdleTyped DEF Restart, LookupGoes
  <1>13. ASSUME NEW g \in Logins, BeginLogin(g) \/ BeginRegister(g) \/ LoginStep(g)
         PROVE  UNCHANGED lookup
    BY <1>13 DEF BeginLogin, BeginRegister, LoginStep, Create, CreateSession,
       FindCreatedUser, CacheSession, CacheUser
  <1>14. ASSUME NEW a \in Admins, ChangeRights(a) \/ InvalidateUserContext(a)
         PROVE  UNCHANGED lookup
    BY <1>14 DEF ChangeRights, InvalidateUserContext
  <1>15. ASSUME NEW q \in Lookups, GetSession(q) \/ MissSession(q) \/ LookupStep(q)
         PROVE  LookupGoes(p)
    <2>1. CASE q # p
      BY <1>1, <1>15, <2>1 DEF LookupGoes
    <2> QED
      BY <1>2, <1>3, <1>5, <1>6, <1>7, <1>8, <1>9, <1>15, <2>1 DEF LookupStep
  <1> QED
    BY <1>10, <1>11, <1>12, <1>13, <1>14, <1>15 DEF Next, vars

LEMMA LoginSteps ==
  ASSUME TypeInv, CreatorsRegister, [Next]_vars, NEW g \in Logins
  PROVE  LoginGoes(g) \/ \E t \in Tokens : Issues(g, t)
  <1>a. login \in [Logins -> LoginState]
    BY DEF TypeInv, TypeOK
  <1>u. CASE login'[g] = login[g]
    BY <1>u DEF LoginGoes, WillCache
  <1>1. ASSUME NEW h \in Logins, h # g,
               BeginLogin(h) \/ BeginRegister(h) \/ LoginStep(h)
        PROVE  login'[g] = login[g]
    BY <1>1, <1>a DEF BeginLogin, BeginRegister, LoginStep, Create, CreateSession,
       FindCreatedUser, CacheSession, CacheUser, Refuse
  <1>2. CASE BeginLogin(g)
    BY <1>2, <1>a DEF BeginLogin, LoginState, LoginGoes, WillCache
  <1>3. CASE BeginRegister(g)
    BY <1>3, <1>a DEF BeginRegister, LoginState, LoginGoes, WillCache
  <1>4. CASE Refuse(g) /\ login[g].pc # "ended"
    BY <1>4, <1>a DEF Refuse, LoginState, LoginGoes, WillCache
  <1>5. CASE Create(g)
    <2>1. CASE login' = [login EXCEPT ![g].pc = "session"]
      <3>1. /\ login'[g].pc = "session" /\ login'[g].op = login[g].op
            /\ login'[g].token = login[g].token
        BY <1>a, <2>1 DEF LoginState
      <3>2. login[g].op = "register"
        BY <1>5 DEF Create, CreatorsRegister
      <3> QED
        BY <1>5, <3>1, <3>2 DEF Create, LoginGoes, WillCache
    <2> QED
      BY <1>4, <1>5, <2>1 DEF Create
  <1>6. CASE CreateSession(g)
    <2>1. ASSUME NEW t \in Tokens, sessions[t].user = None,
                 sessions' = [sessions EXCEPT ![t] =
                   [user |-> login[g].user, left |-> Life, revoked |-> FALSE]],
                 login' = [login EXCEPT
                   ![g].pc = IF login[g].op = "register"
                             THEN "findUser" ELSE "fill",
                   ![g].token = t, ![g].left = Life]
          PROVE  Issues(g, t)
      <3>1. login[g].pc = "session" /\ login[g].user \in Users
        BY <1>6 DEF CreateSession, TypeInv, UnderWay
      <3>2. login[g].op \in {"login", "register"}
        BY <1>a DEF LoginState
      <3>3. /\ login'[g].pc = IF login[g].op = "register" THEN "findUser" ELSE "fill"
            /\ login'[g].token = t
            /\ login'[g].user = login[g].user /\ login'[g].rights = login[g].rights
        BY <1>a, <2>1 DEF LoginState
      <3>4. sessions'[t] = [user |-> login[g].user, left |-> Life, revoked |-> FALSE]
        BY <2>1 DEF TypeInv, TypeOK
      <3>5. \A h \in Logins : h # g => login'[h] = login[h]
        BY <1>a, <2>1
      <3>6. sessions'[t].user \in Users /\ ~sessions'[t].revoked
        BY <3>1, <3>4
      <3>7. /\ login'[g].pc \in {"findUser", "fill"}
            /\ login'[g].pc = "fill" => login[g].op = "login"
        BY <3>2, <3>3
      <3> QED
        BY <2>1, <3>1, <3>3, <3>5, <3>6, <3>7 DEF Issues
    <2> QED
      BY <1>4, <1>6, <2>1 DEF CreateSession
  <1>7. CASE FindCreatedUser(g)
    <2>1. PICK v \in {rights[login[g].user], 0} :
            login' = [login EXCEPT ![g].pc = "fill", ![g].rights = v]
      BY <1>7 DEF FindCreatedUser
    <2>2. /\ login'[g].pc = "fill" /\ login'[g].rights = v
          /\ login'[g].user = login[g].user /\ login'[g].token = login[g].token
      BY <1>a, <2>1 DEF LoginState
    <2> QED
      BY <1>7, <2>2 DEF FindCreatedUser, LoginGoes, WillCache
  <1>8. CASE CacheSession(g)
    <2>1. /\ login'[g].pc = IF login[g].rights > 0 THEN "fillContext" ELSE "ended"
          /\ login'[g].rights = login[g].rights
          /\ login'[g].user = login[g].user /\ login'[g].token = login[g].token
      BY <1>8, <1>a DEF CacheSession, LoginState
    <2> QED
      BY <1>8, <2>1 DEF CacheSession, LoginGoes, WillCache
  <1>9. CASE CacheUser(g)
    BY <1>9, <1>a DEF CacheUser, LoginState, LoginGoes, WillCache
  <1>10. CASE Tick
    <2>1. /\ login'[g].pc = login[g].pc /\ login'[g].token = login[g].token
          /\ login'[g].op = login[g].op /\ login'[g].user = login[g].user
          /\ login'[g].rights = login[g].rights
      BY <1>10, <1>a DEF Tick, LoginState
    <2> QED
      BY <2>1 DEF LoginGoes, WillCache
  <1>11. CASE Restart
    <2>1. CASE login'[g] = [login[g] EXCEPT !.pc = "refused"] /\ login[g].pc # "ended"
      <3>1. login'[g].pc = "refused" /\ login'[g].token = login[g].token
        BY <1>a, <2>1 DEF LoginState
      <3> QED
        BY <2>1, <3>1 DEF LoginGoes, WillCache
    <2> QED
      BY <1>u, <1>11, <2>1 DEF Restart
  <1>12. ASSUME NEW p \in Lookups, GetSession(p) \/ MissSession(p) \/ LookupStep(p)
         PROVE  UNCHANGED login
    BY <1>12 DEF GetSession, MissSession, LookupStep, FindSessionByToken,
       FillSession, CheckExpiry, DropExpired, GetUserContext, FindByID,
       FillUserContext, Handle, RevokeToken, ForgetToken
  <1>13. ASSUME NEW a \in Admins, ChangeRights(a) \/ InvalidateUserContext(a)
         PROVE  UNCHANGED login
    BY <1>13 DEF ChangeRights, InvalidateUserContext
  <1>14. CASE UNCHANGED login
    BY <1>u, <1>14
  <1>15. ASSUME NEW h \in Logins, BeginLogin(h) \/ BeginRegister(h) \/ LoginStep(h)
         PROVE  LoginGoes(g) \/ \E t \in Tokens : Issues(g, t)
    <2>1. CASE h # g
      BY <1>u, <1>1, <1>15, <2>1
    <2> QED
      BY <1>2, <1>3, <1>5, <1>6, <1>7, <1>8, <1>9, <1>15, <2>1 DEF LoginStep
  <1> QED
    BY <1>10, <1>11, <1>12, <1>13, <1>14, <1>15 DEF Next, vars

LEMMA RowSteps ==
  ASSUME TypeInv, [Next]_vars, NEW t \in Tokens
  PROVE  /\ RowGoes(t)
         /\ sessions[t].user \in Users => sessions'[t].user = sessions[t].user
  <1>a. sessions \in [Tokens -> Session]
    BY DEF TypeInv, TypeOK
  <1>u. CASE sessions'[t] = sessions[t]
    BY <1>u DEF RowGoes
  <1>1. ASSUME NEW p \in Lookups, RevokeToken(p)
        PROVE  /\ RowGoes(t)
               /\ sessions[t].user \in Users => sessions'[t].user = sessions[t].user
    <2>1. lookup[p].pc = "handler"
      BY <1>1 DEF RevokeToken
    <2>2. CASE sessions' = [sessions EXCEPT ![lookup[p].token].revoked = TRUE]
      <3>1. CASE lookup[p].token = t
        BY <1>a, <2>1, <2>2, <3>1 DEF RowGoes, Session
      <3>2. CASE lookup[p].token # t
        BY <1>a, <1>u, <2>2, <3>2
      <3> QED
        BY <3>1, <3>2
    <2> QED
      BY <1>u, <1>1, <2>2 DEF RevokeToken
  <1>2. ASSUME NEW g \in Logins, CreateSession(g)
        PROVE  /\ RowGoes(t)
               /\ sessions[t].user \in Users => sessions'[t].user = sessions[t].user
    <2>1. ASSUME NEW n \in Tokens, sessions[n].user = None,
                 sessions' = [sessions EXCEPT ![n] =
                   [user |-> login[g].user, left |-> Life, revoked |-> FALSE]]
          PROVE  /\ RowGoes(t)
                 /\ sessions[t].user \in Users => sessions'[t].user = sessions[t].user
      <3>1. CASE n = t
        BY <1>a, <2>1, <3>1, Constants DEF RowGoes
      <3>2. CASE n # t
        BY <1>a, <1>u, <2>1, <3>2
      <3> QED
        BY <3>1, <3>2
    <2> QED
      BY <1>u, <1>2, <2>1 DEF CreateSession
  <1>3. CASE Tick
    <2>1. sessions'[t] = [sessions[t] EXCEPT !.left = Less(@)]
      BY <1>3 DEF Tick
    <2>2. sessions'[t].revoked = sessions[t].revoked /\ sessions'[t].user = sessions[t].user
      BY <1>a, <2>1 DEF Session
    <2> QED
      BY <2>2 DEF RowGoes
  <1>4. CASE Restart
    <2>1. CASE sessions'[t] = [sessions[t] EXCEPT !.left = Life, !.revoked = FALSE]
      <3>1. ~sessions'[t].revoked /\ sessions'[t].user = sessions[t].user
        BY <1>a, <2>1 DEF Session
      <3> QED
        BY <3>1 DEF RowGoes
    <2> QED
      BY <1>u, <1>4, <2>1 DEF Restart
  <1>5. ASSUME NEW p \in Lookups, GetSession(p) \/ MissSession(p) \/ LookupStep(p),
               ~RevokeToken(p)
        PROVE  UNCHANGED sessions
    BY <1>5 DEF GetSession, MissSession, LookupStep, FindSessionByToken,
       FillSession, CheckExpiry, DropExpired, GetUserContext, FindByID,
       FillUserContext, Handle, ForgetToken, database
  <1>6. ASSUME NEW g \in Logins, BeginLogin(g) \/ BeginRegister(g) \/ LoginStep(g),
               ~CreateSession(g)
        PROVE  UNCHANGED sessions
    BY <1>6 DEF BeginLogin, BeginRegister, LoginStep, Create, FindCreatedUser,
       CacheSession, CacheUser, database
  <1>7. ASSUME NEW a \in Admins, ChangeRights(a) \/ InvalidateUserContext(a)
        PROVE  UNCHANGED sessions
    BY <1>7 DEF ChangeRights, InvalidateUserContext, database
  <1>8. CASE UNCHANGED sessions
    BY <1>u, <1>8
  <1> QED
    BY <1>1, <1>2, <1>3, <1>4, <1>5, <1>6, <1>7, <1>8 DEF Next, LookupStep, LoginStep, vars, database

LEMMA CachedSessionSteps ==
  ASSUME TypeInv, [Next]_vars, NEW t \in Tokens
  PROVE  CachedSessionGoes(t)
  <1>a. sessionCache \in [Tokens -> 0..Life] /\ sessionCache[t] \in Nat
    BY Constants DEF TypeInv, TypeOK
  <1>1. ASSUME NEW n \in Tokens, NEW left, StoreSession(n, left), n = t => left = 0
        PROVE  sessionCache'[t] <= sessionCache[t]
    BY <1>a, <1>1 DEF StoreSession
  <1>2. ASSUME NEW p \in Lookups, FillSession(p)
        PROVE  CachedSessionGoes(t)
    <2>1. lookup[p].pc = "fill" /\ lookup[p].token \in Tokens
      BY <1>2 DEF FillSession, TypeInv, UnderWay, Issued
    <2>2. CASE lookup[p].token = t
      BY <2>1, <2>2 DEF CachedSessionGoes
    <2>3. CASE lookup[p].token # t
      BY <1>1, <1>2, <2>1, <2>3 DEF FillSession, CachedSessionGoes
    <2> QED
      BY <2>2, <2>3
  <1>3. ASSUME NEW p \in Lookups, DropExpired(p) \/ ForgetToken(p)
        PROVE  CachedSessionGoes(t)
    <2>1. lookup[p].token \in Tokens /\ StoreSession(lookup[p].token, 0)
      BY <1>3 DEF DropExpired, ForgetToken, DeleteSession, TypeInv, UnderWay, Issued
    <2> QED
      BY <1>1, <2>1 DEF CachedSessionGoes
  <1>4. ASSUME NEW g \in Logins, CacheSession(g)
        PROVE  CachedSessionGoes(t)
    <2>1. login[g].pc = "fill" /\ login[g].token \in Tokens
      BY <1>4 DEF CacheSession, TypeInv, UnderWay, Issued
    <2>2. CASE login[g].token = t
      BY <2>1, <2>2 DEF CachedSessionGoes
    <2>3. CASE login[g].token # t
      BY <1>1, <1>4, <2>1, <2>3 DEF CacheSession, CachedSessionGoes
    <2> QED
      BY <2>2, <2>3
  <1>5. CASE Tick
    <2>1. sessionCache'[t] = Less(sessionCache[t])
      BY <1>5 DEF Tick
    <2> QED
      BY <1>a, <2>1 DEF CachedSessionGoes, Less
  <1>6. CASE UNCHANGED sessionCache
    BY <1>a, <1>6 DEF CachedSessionGoes
  <1>7. ASSUME NEW p \in Lookups, GetSession(p) \/ MissSession(p) \/ LookupStep(p),
               ~FillSession(p), ~DropExpired(p), ~ForgetToken(p)
        PROVE  UNCHANGED sessionCache
    BY <1>7 DEF GetSession, MissSession, LookupStep, FindSessionByToken,
       CheckExpiry, GetUserContext, FindByID, FillUserContext, Handle,
       RevokeToken, caches
  <1>8. ASSUME NEW g \in Logins, BeginLogin(g) \/ BeginRegister(g) \/ LoginStep(g),
               ~CacheSession(g)
        PROVE  UNCHANGED sessionCache
    BY <1>8 DEF BeginLogin, BeginRegister, LoginStep, Create, CreateSession,
       FindCreatedUser, CacheUser, caches
  <1>9. ASSUME NEW a \in Admins, ChangeRights(a) \/ InvalidateUserContext(a)
        PROVE  UNCHANGED sessionCache
    BY <1>9 DEF ChangeRights, InvalidateUserContext, caches
  <1>10. CASE Restart
    BY <1>6, <1>10 DEF Restart, caches
  <1> QED
    BY <1>2, <1>3, <1>4, <1>5, <1>6, <1>7, <1>8, <1>9, <1>10
       DEF Next, LookupStep, LoginStep, vars, caches

LEMMA CachedUserSteps ==
  ASSUME TypeInv, [Next]_vars, NEW u \in Users
  PROVE  CachedUserGoes(u)
  <1>a. contextCache \in [Users -> Context] /\ contextCache[u].ttl \in Nat
    BY Constants DEF TypeInv, TypeOK, Context
  <1>1. ASSUME NEW w \in Users, NEW v, StoreContext(w, v)
        PROVE  \/ contextCache'[u] = contextCache[u]
               \/ w = u /\ contextCache'[u].rights = v
    BY <1>a, <1>1 DEF StoreContext
  <1>u. CASE contextCache'[u] = contextCache[u]
    BY <1>a, <1>u DEF CachedUserGoes
  <1>2. ASSUME NEW p \in Lookups, FillUserContext(p)
        PROVE  CachedUserGoes(u)
    <2>1. lookup[p].pc = "fillContext" /\ UserOf(p) \in Users
      BY <1>2 DEF FillUserContext, TypeInv, UnderWay, Issued, UserOf
    <2>2. StoreContext(UserOf(p), lookup[p].rights)
      BY <1>2 DEF FillUserContext
    <2>3. \/ contextCache'[u] = contextCache[u]
          \/ UserOf(p) = u /\ contextCache'[u].rights = lookup[p].rights
      BY <1>1, <2>1, <2>2
    <2> QED
      BY <1>u, <2>1, <2>3 DEF CachedUserGoes
  <1>3. ASSUME NEW g \in Logins, CacheUser(g)
        PROVE  CachedUserGoes(u)
    <2>1. login[g].pc = "fillContext" /\ login[g].user \in Users
      BY <1>3 DEF CacheUser, TypeInv, UnderWay
    <2>2. StoreContext(login[g].user, login[g].rights)
      BY <1>3 DEF CacheUser
    <2>3. \/ contextCache'[u] = contextCache[u]
          \/ login[g].user = u /\ contextCache'[u].rights = login[g].rights
      BY <1>1, <2>1, <2>2
    <2> QED
      BY <1>u, <2>1, <2>3 DEF CachedUserGoes
  <1>4. ASSUME NEW a \in Admins, InvalidateUserContext(a)
        PROVE  CachedUserGoes(u)
    <2>1. \/ contextCache'[u] = contextCache[u]
          \/ contextCache'[u] = [rights |-> 0, ttl |-> 0]
      BY <1>4, <1>a DEF InvalidateUserContext, DeleteUserContext
    <2> QED
      BY <1>u, <2>1 DEF CachedUserGoes
  <1>5. CASE Tick
    <2>1. contextCache'[u] = IF contextCache[u].ttl > 1
                             THEN [contextCache[u] EXCEPT !.ttl = @ - 1]
                             ELSE [rights |-> 0, ttl |-> 0]
      BY <1>5 DEF Tick
    <2>2. CASE contextCache[u].ttl > 1
      <3>1. /\ contextCache'[u].rights = contextCache[u].rights
            /\ contextCache'[u].ttl = contextCache[u].ttl - 1
        BY <1>a, <2>1, <2>2 DEF Context
      <3> QED
        BY <1>a, <3>1 DEF CachedUserGoes
    <2>3. CASE ~(contextCache[u].ttl > 1)
      BY <2>1, <2>3 DEF CachedUserGoes
    <2> QED
      BY <2>2, <2>3
  <1>6. CASE UNCHANGED contextCache
    BY <1>u, <1>6
  <1>7. ASSUME NEW p \in Lookups, GetSession(p) \/ MissSession(p) \/ LookupStep(p),
               ~FillUserContext(p)
        PROVE  UNCHANGED contextCache
    BY <1>7 DEF GetSession, MissSession, LookupStep, FindSessionByToken,
       FillSession, CheckExpiry, DropExpired, GetUserContext, FindByID, Handle,
       RevokeToken, ForgetToken, caches
  <1>8. ASSUME NEW g \in Logins, BeginLogin(g) \/ BeginRegister(g) \/ LoginStep(g),
               ~CacheUser(g)
        PROVE  UNCHANGED contextCache
    BY <1>8 DEF BeginLogin, BeginRegister, LoginStep, Create, CreateSession,
       FindCreatedUser, CacheSession, caches
  <1>9. ASSUME NEW a \in Admins, ChangeRights(a)
        PROVE  UNCHANGED contextCache
    BY <1>9 DEF ChangeRights, caches
  <1>10. CASE Restart
    BY <1>6, <1>10 DEF Restart, caches
  <1> QED
    BY <1>2, <1>3, <1>4, <1>5, <1>6, <1>7, <1>8, <1>9, <1>10
       DEF Next, LookupStep, LoginStep, vars, caches

-----------------------------------------------------------------------------
(* Tokens belong to one login; a client only has those that it was given.    *)

TokensOfOne ==
  \A g \in Logins : login[g].token # None =>
    /\ Issued(login[g].token) /\ login[g].token \notin DemoTokens
    /\ \A h \in Logins : login[h].token = login[g].token => h = g

KnownInUse ==
  /\ \A p \in Lookups : lookup[p].pc # "idle" => Known(lookup[p].token)
  /\ \A t \in Tokens : sessions[t].revoked => Known(t)

IssueInv == CreatorsRegister /\ TokensOfOne /\ KnownInUse

LEMMA InitIssue == Init => IssueInv
  <1> SUFFICES ASSUME Init PROVE IssueInv
    OBVIOUS
  <1>1. \A t \in Tokens : ~sessions[t].revoked
    BY DEF Init
  <1>2. \A p \in Lookups : lookup[p].pc = "idle"
    BY IdleTyped DEF Init
  <1>3. \A g \in Logins : login[g].pc = "idle" /\ login[g].token = None
    BY DEF Init, IdleLogin
  <1> QED
    BY <1>1, <1>2, <1>3 DEF IssueInv, CreatorsRegister, TokensOfOne, KnownInUse

LEMMA IssuedStays ==
  ASSUME TypeInv, [Next]_vars, NEW t, Issued(t)
  PROVE  Issued(t)'
  BY RowSteps DEF Issued

LEMMA KnownStays ==
  ASSUME TypeInv, CreatorsRegister, [Next]_vars, NEW t, Known(t)
  PROVE  Known(t)'
  <1>1. CASE t \in DemoTokens
    BY <1>1 DEF Known
  <1>2. ASSUME NEW g \in Logins, login[g].pc = "ended", login[g].token = t
        PROVE  Known(t)'
    <2>1. LoginGoes(g)
      BY <1>2, LoginSteps DEF Issues
    <2> QED
      BY <1>2, <2>1 DEF LoginGoes, Known
  <1> QED
    BY <1>1, <1>2 DEF Known

LEMMA NextIssue == TypeInv /\ IssueInv /\ [Next]_vars => IssueInv'
  <1> SUFFICES ASSUME TypeInv, IssueInv, [Next]_vars PROVE IssueInv'
    OBVIOUS
  <1> USE DEF IssueInv
  <1>1. CreatorsRegister'
    BY LoginSteps DEF CreatorsRegister, LoginGoes, Issues
  <1>2. TokensOfOne'
    <2> SUFFICES ASSUME NEW g \in Logins, login'[g].token # None
                 PROVE  /\ Issued(login[g].token)'
                        /\ login'[g].token \notin DemoTokens
                        /\ \A h \in Logins : login'[h].token = login'[g].token => h = g
      BY DEF TokensOfOne
    <2>1. ASSUME NEW t \in Tokens, Issues(g, t)
          PROVE  /\ Issued(login[g].token)'
                 /\ login'[g].token \notin DemoTokens
                 /\ \A h \in Logins : login'[h].token = login'[g].token => h = g
      <3>1. Issued(login[g].token)'
        BY <2>1 DEF Issues, Issued
      <3>2. ~Issued(t)
        BY <2>1, Constants DEF Issues, Issued
      <3>3. t \notin DemoTokens
        BY <3>2 DEF TypeInv, UnderWay
      <3>4. ASSUME NEW h \in Logins, login'[h].token = t, h # g PROVE FALSE
        <4>1. login[h].token = t
          BY <2>1, <3>4 DEF Issues
        <4>2. t # None
          BY Constants
        <4> QED
          BY <3>2, <4>1, <4>2 DEF TokensOfOne
      <3> QED
        BY <2>1, <3>1, <3>3, <3>4 DEF Issues
    <2>2. CASE login'[g].token = login[g].token
      <3>1. /\ Issued(login[g].token) /\ login[g].token \notin DemoTokens
            /\ \A h \in Logins : login[h].token = login[g].token => h = g
        BY <2>2 DEF TokensOfOne
      <3>2. Issued(login[g].token)'
        <4>1. \A t : Issued(t) => Issued(t)'
          BY IssuedStays
        <4> QED
          BY <2>2, <3>1, <4>1 DEF Issued
      <3>3. ASSUME NEW h \in Logins, login'[h].token = login[g].token, h # g
            PROVE  FALSE
        <4>1. CASE login'[h].token = login[h].token
          BY <3>1, <3>3, <4>1
        <4>2. ASSUME NEW t \in Tokens, Issues(h, t) PROVE FALSE
          BY <3>1, <3>3, <4>2, Constants DEF Issues, Issued
        <4> QED
          BY <4>1, <4>2, LoginSteps DEF LoginGoes
      <3> QED
        BY <2>2, <3>1, <3>2, <3>3
    <2> QED
      BY <2>1, <2>2, LoginSteps DEF LoginGoes
  <1>3. \A t : Known(t) => Known(t)'
    BY KnownStays
  <1>4. ASSUME NEW p \in Lookups, lookup'[p].pc # "idle"
        PROVE  Known(lookup[p].token)'
    <2>1. LookupGoes(p)
      BY LookupSteps
    <2>2. Known(lookup'[p].token)
      BY <1>4, <2>1 DEF LookupGoes, KnownInUse
    <2> QED
      BY <1>3, <2>2 DEF Known
  <1>5. ASSUME NEW t \in Tokens, sessions'[t].revoked
        PROVE  Known(t)'
    <2>1. RowGoes(t)
      BY RowSteps
    <2>2. Known(t)
      BY <1>5, <2>1 DEF RowGoes, KnownInUse
    <2> QED
      BY <1>3, <2>2
  <1> QED
    BY <1>1, <1>2, <1>4, <1>5 DEF KnownInUse

\* A token that a client has is not being cached by the login that made it.
LEMMA KnownNotFilled ==
  ASSUME TypeInv, IssueInv, NEW t \in Tokens, Known(t),
         NEW g \in Logins, login[g].token = t
  PROVE  login[g].pc # "fill"
  BY Constants DEF IssueInv, TokensOfOne, Known

\* A session that a logout got out of the cache stays out, and admits nobody, until
\* the seed renews its row: for any number of overlapping requests, logins,
\* logouts and failing cache calls (FindUserByToken, Logout).
THEOREM OutStays == Spec => OutForGood
  <1>1. ASSUME TypeInv, IssueInv, [Next]_vars, NEW t \in Tokens, Out(t),
               sessions'[t].revoked
        PROVE  Out(t)' /\ \A p \in Lookups : ~Enters(p, t)
    <2>1. sessions[t].revoked /\ sessionCache[t] = 0 /\ Known(t)
      BY <1>1 DEF Out, IssueInv, KnownInUse
    <2>2. sessionCache'[t] = 0
      <3>1. CachedSessionGoes(t) /\ sessionCache'[t] \in 0..Life
        BY <1>1, CachedSessionSteps, NextTypeInv DEF TypeInv, TypeOK
      <3>2. sessionCache'[t] <= sessionCache[t]
        BY <1>1, <2>1, <3>1, KnownNotFilled DEF CachedSessionGoes, Out
      <3> QED
        BY <2>1, <3>1, <3>2, Constants
    <2>3. ASSUME NEW p \in Lookups, lookup'[p].token = t
          PROVE  lookup'[p].pc # "fill" /\ ~Enters(p, t)
      <3>1. LookupGoes(p)
        BY <1>1, LookupSteps
      <3>2. lookup[p].token = t => lookup[p].pc # "fill"
        BY <1>1 DEF Out
      <3>3. lookup'[p].pc # "fill"
        BY <2>1, <2>3, <3>1, <3>2 DEF LookupGoes
      <3>4. ~Enters(p, t)
        BY <2>1, <2>3, <3>1, <3>2 DEF LookupGoes, Enters
      <3> QED
        BY <3>3, <3>4
    <2>4. Out(t)'
      BY <1>1, <2>2, <2>3 DEF Out
    <2>5. \A p \in Lookups : ~Enters(p, t)
      BY <2>3 DEF Enters
    <2> QED
      BY <2>4, <2>5
  <1>2. TypeInv /\ IssueInv /\ [Next]_vars
          => [\A t \in Tokens : Out(t) =>
                \/ ~sessions'[t].revoked
                \/ Out(t)' /\ \A p \in Lookups : ~Enters(p, t)]_vars
    BY <1>1
  <1>3. Spec => []IssueInv
    BY InitIssue, NextIssue, TypeInvariant, PTL DEF Spec
  <1> QED
    BY <1>2, <1>3, TypeInvariant, PTL DEF Spec, OutForGood

\* Once the reads made before a change of rights are done with, a stale cached
\* user only ages, whoever uses, fills or invalidates it (userWithPermissions,
\* Login, Register, InvalidateUserContext).
THEOREM StaleAges == Spec => StaleOnlyAges
  <1>1. ASSUME TypeInv, IssueInv, [Next]_vars, NEW u \in Users,
               HandsCurrent(u), rights'[u] = rights[u]
        PROVE  /\ HandsCurrent(u)'
               /\ Stale(u)' => /\ Stale(u)
                               /\ contextCache'[u].ttl <= contextCache[u].ttl
    <2>1. ASSUME NEW p \in Lookups, lookup'[p].pc = "fillContext",
                 sessions'[lookup'[p].token].user = u
          PROVE  lookup'[p].rights = rights'[u]
      <3>1. LookupGoes(p)
        BY <1>1, LookupSteps
      <3>2. CASE lookup'[p].pc = "fillContext" /\ lookup[p].pc \notin {"fillContext", "user"}
        BY <3>1, <3>2 DEF LookupGoes
      <3>3. CASE lookup[p].pc \in {"fillContext", "user"}
        <4>1. Issued(lookup[p].token) /\ lookup'[p].token = lookup[p].token
          BY <1>1, <2>1, <3>1, <3>3, AtHand DEF LookupGoes
        <4>2. UserOf(p) = u
          BY <1>1, <2>1, <4>1, RowSteps DEF UserOf, Issued
        <4> QED
          BY <1>1, <2>1, <3>1, <3>3, <4>2 DEF LookupGoes, HandsCurrent
      <3> QED
        BY <2>1, <3>2, <3>3
    <2>2. ASSUME NEW g \in Logins, WillCache(g)', login'[g].user = u
          PROVE  login'[g].rights = rights'[u]
      <3>1. CASE LoginGoes(g)
        BY <1>1, <2>2, <3>1 DEF LoginGoes, HandsCurrent
      <3>2. ASSUME NEW t \in Tokens, Issues(g, t)
            PROVE  login'[g].rights = rights'[u]
        <4>1. WillCache(g)
          BY <2>2, <3>2 DEF Issues, WillCache
        <4> QED
          BY <1>1, <2>2, <3>2, <4>1 DEF Issues, HandsCurrent
      <3> QED
        BY <1>1, <3>1, <3>2, LoginSteps DEF IssueInv
    <2>3. HandsCurrent(u)'
      BY <2>1, <2>2 DEF HandsCurrent, UserOf
    <2>4. ASSUME Stale(u)'
          PROVE  Stale(u) /\ contextCache'[u].ttl <= contextCache[u].ttl
      <3>1. CachedUserGoes(u)
        BY <1>1, CachedUserSteps
      <3>2. contextCache'[u].ttl # 0
        BY <2>4 DEF Stale
      <3>3. ASSUME NEW p \in Lookups, lookup[p].pc = "fillContext", UserOf(p) = u
            PROVE  contextCache'[u].rights # lookup[p].rights
        BY <1>1, <2>4, <3>3 DEF Stale, HandsCurrent
      <3>4. ASSUME NEW g \in Logins, login[g].pc = "fillContext", login[g].user = u
            PROVE  contextCache'[u].rights # login[g].rights
        BY <1>1, <2>4, <3>4 DEF Stale, HandsCurrent, WillCache
      <3>5. /\ contextCache'[u].rights = contextCache[u].rights
            /\ contextCache'[u].ttl <= contextCache[u].ttl
        BY <3>1, <3>2, <3>3, <3>4 DEF CachedUserGoes
      <3>6. contextCache[u].ttl \in Nat /\ contextCache'[u].ttl \in Nat
        <4>1. TypeInv'
          BY <1>1, NextTypeInv
        <4>2. contextCache[u] \in Context /\ contextCache'[u] \in Context
          BY <1>1, <4>1 DEF TypeInv, TypeOK
        <4> QED
          BY <4>2, Constants DEF Context
      <3> QED
        BY <1>1, <2>4, <3>5, <3>6 DEF Stale
    <2> QED
      BY <2>3, <2>4
  <1>2. TypeInv /\ IssueInv /\ [Next]_vars
          => [\A u \in Users : (HandsCurrent(u) /\ rights'[u] = rights[u]) =>
                /\ HandsCurrent(u)'
                /\ Stale(u)' => /\ Stale(u)
                                /\ contextCache'[u].ttl <= contextCache[u].ttl]_vars
    BY <1>1
  <1>3. Spec => []IssueInv
    BY InitIssue, NextIssue, TypeInvariant, PTL DEF Spec
  <1> QED
    BY <1>2, <1>3, TypeInvariant, PTL DEF Spec, StaleOnlyAges
=============================================================================
