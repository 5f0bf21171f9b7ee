------------------------------- MODULE Teams --------------------------------
(***************************************************************************)
(* Teams, memberships and global roles: BusinessService over PostgreSQL,   *)
(* and the cached users it invalidates.                                    *)
(*                                                                         *)
(* A user's rights are a global role and the memberships that are enabled  *)
(* in teams that are.  Requests with a token read them from Redis or else, *)
(* in two statements, from the database, and put what they read in Redis   *)
(* in a step of its own.  Admin requests (of users with the permission     *)
(* "team.manage", which nothing here grants or withdraws) write the        *)
(* database and then delete the cached users they know to be affected;     *)
(* errors of the cache are ignored.                                        *)
(*                                                                         *)
(* The database runs transactions at its default level, READ COMMITTED: a  *)
(* statement sees what was committed when it began, and waits for the rows *)
(* it writes that another transaction has written.                         *)
(***************************************************************************)
EXTENDS Naturals, FiniteSets

CONSTANTS
  Users,        \* accounts
  Teams,        \* team ids ever issued
  SeedTeams,    \* the teams of the seed
  SeedTeamOf,   \* SeedTeamOf[u]: the team of seed user u
  SeedRoleOf,   \* SeedRoleOf[u]: the role of u in it
  SeedAdmins,   \* seed users whose global role is "admin"
  HomeTeam,     \* the team of a user who registers
  Roles,        \* roles in a team: manager and employee
  Names,        \* names of teams
  SeedName,     \* the name of a team of the seed
  Admins,       \* admin requests, one after the other in each process
  Lookups,      \* requests with a token, one after the other in each process
  CacheFaults,  \* whether a cache call may fail
  RepoFaults,   \* whether a database call may fail
  Restarts,     \* whether the server restarts, running the seed
  None          \* no user, no team, no cached user

SeedUsers == DOMAIN SeedTeamOf

ASSUME TeamsAssumption ==
  /\ SeedTeams \subseteq Teams
  /\ HomeTeam \in SeedTeams
  /\ SeedUsers \subseteq Users
  /\ SeedTeamOf \in [SeedUsers -> SeedTeams]
  /\ SeedRoleOf \in [SeedUsers -> Roles]
  /\ SeedAdmins \subseteq SeedUsers
  /\ "employee" \in Roles /\ "none" \notin Roles
  /\ SeedName \in Names
  /\ {CacheFaults, RepoFaults, Restarts} \subseteq BOOLEAN
  /\ None \notin Users \cup Teams

VARIABLES
  team,         \* team[t]: the row of teams
  member,       \* member[u][t]: the row of team_members
  globalRole,   \* globalRole[u]: "admin" or ""
  contextCache, \* contextCache[u]: the cached user, or None
  lookup,       \* lookup[p]: the local state of a request with a token
  admin         \* admin[a]: the local state of an admin request

database == <<team, member, globalRole>>
vars     == <<database, contextCache, lookup, admin>>

-----------------------------------------------------------------------------
(* Values. *)

\* Without a row the role of a membership is "none".
TeamRow   == [state : {"none", "enabled", "disabled"}, name : Names]
MemberRow == [role : Roles \cup {"none"}, enabled : BOOLEAN]
NoMember  == [role |-> "none", enabled |-> FALSE]

Membership == [team : Teams, role : Roles \cup {"none"}, name : Names]
Context    == [global : {"", "admin"}, memberships : SUBSET Membership]

LookupState ==
  [pc : {"idle", "memberships", "fill"}, user : Users \cup {None},
   global : {"", "admin"}, context : Context \cup {None}]

\* rows: the teams whose row the first statement of AddTeamMember updates;
\* targets: the users whose cached context is to be deleted.
AdminState ==
  [pc : {"idle", "write", "leave", "join", "invalidate", "failed"},
   op : {"", "update", "disable"}, team : Teams \cup {None},
   user : Users \cup {None}, role : Roles \cup {"none"}, rows : SUBSET Teams,
   targets : SUBSET Users]

TypeOK ==
  /\ team \in [Teams -> TeamRow]
  /\ member \in [Users -> [Teams -> MemberRow]]
  /\ globalRole \in [Users -> {"", "admin"}]
  /\ contextCache \in [Users -> Context \cup {None}]
  /\ lookup \in [Lookups -> LookupState]
  /\ admin \in [Admins -> AdminState]

IdleLookup == [pc |-> "idle", user |-> None, global |-> "", context |-> None]
IdleAdmin  == [pc |-> "idle", op |-> "", team |-> None, user |-> None,
               role |-> "none", rows |-> {}, targets |-> {}]

\* What the seed writes for seed user u: the role, and the membership.
SeedGlobal(u) == IF u \in SeedAdmins THEN "admin" ELSE ""
SeedMember(u) == [role |-> SeedRoleOf[u], enabled |-> TRUE]

\* The seed has run; other users have registered, which made them employees
\* of the home team.
Init ==
  /\ team = [t \in Teams |->
       [state |-> IF t \in SeedTeams THEN "enabled" ELSE "none",
        name  |-> SeedName]]
  /\ member = [u \in Users |-> [t \in Teams |->
       IF u \in SeedUsers
       THEN IF t = SeedTeamOf[u] THEN SeedMember(u) ELSE NoMember
       ELSE IF t = HomeTeam
            THEN [role |-> "employee", enabled |-> TRUE]
            ELSE NoMember]]
  /\ globalRole = [u \in Users |-> SeedGlobal(u)]
  /\ contextCache = [u \in Users |-> None]
  /\ lookup = [p \in Lookups |-> IdleLookup]
  /\ admin = [a \in Admins |-> IdleAdmin]

-----------------------------------------------------------------------------
(* Reading a user: userWithPermissions, userMemberships. *)

\* The teams a user counts as a member of.
Active(u) == {t \in Teams : member[u][t].enabled /\ team[t].state = "enabled"}

\* The user as read now, with a global role that may have been read before.
UserContext(u, global) ==
  [global      |-> global,
   memberships |-> {[team |-> t, role |-> member[u][t].role,
                     name |-> team[t].name] : t \in Active(u)}]

\* What a read of user u that nothing interferes with answers.
Rights(u) == UserContext(u, globalRole[u])

\* The cached user is missing, or the cache fails: the row of users is read ...
FindUser(p) ==
  /\ lookup[p].pc = "idle"
  /\ \E u \in Users :
       /\ contextCache[u] = None \/ CacheFaults
       /\ lookup' = [lookup EXCEPT ![p] =
            [IdleLookup EXCEPT !.pc = "memberships", !.user = u,
                               !.global = globalRole[u]]]
  /\ UNCHANGED <<database, contextCache, admin>>

\* ... then the memberships; an error of either ends the request.
UserMemberships(p) ==
  /\ lookup[p].pc = "memberships"
  /\ \/ lookup' = [lookup EXCEPT ![p].pc = "fill",
          ![p].context = UserContext(lookup[p].user, lookup[p].global)]
     \/ RepoFaults /\ lookup' = [lookup EXCEPT ![p] = IdleLookup]
  /\ UNCHANGED <<database, contextCache, admin>>

\* SetUserContext, whose error is ignored.
FillUserContext(p) ==
  /\ lookup[p].pc = "fill"
  /\ \/ contextCache' = [contextCache EXCEPT ![lookup[p].user] =
                           lookup[p].context]
     \/ CacheFaults /\ UNCHANGED contextCache
  /\ lookup' = [lookup EXCEPT ![p] = IdleLookup]
  /\ UNCHANGED <<database, admin>>

\* Redis drops the entry when its TTL has passed.
Expire(u) ==
  /\ contextCache[u] # None
  /\ contextCache' = [contextCache EXCEPT ![u] = None]
  /\ UNCHANGED <<database, lookup, admin>>

-----------------------------------------------------------------------------
(* Admin requests on teams. *)

\* Request a goes on to delete the contexts of the users in targets.
Invalidating(targets) ==
  [IdleAdmin EXCEPT !.pc = "invalidate", !.targets = targets]

\* CreateTeam: a fresh id (the nanoseconds of the clock), which no row and no
\* request has.
Fresh(t) ==
  /\ team[t].state = "none"
  /\ \A u \in Users : member[u][t].role = "none"
  /\ \A a \in Admins : admin[a].team # t
CreateTeam(a) ==
  /\ admin[a].pc = "idle"
  /\ \E t \in Teams, n \in Names :
       /\ Fresh(t)
       /\ team' = [team EXCEPT ![t] = [state |-> "enabled", name |-> n]]
  /\ admin' = [admin EXCEPT ![a] = IdleAdmin]
  /\ UNCHANGED <<member, globalRole, contextCache, lookup>>

\* ListTeamMembers: also of a team that is disabled.
TeamMembers(t) ==
  {u \in Users : member[u][t].enabled /\ team[t].state # "none"}

\* teamMemberUserIDs: UpdateTeam and DisableTeam read the members first; an
\* error counts as no members.
ReadMembers(a) ==
  /\ admin[a].pc = "idle"
  /\ \E t \in Teams, op \in {"update", "disable"},
        list \in {TRUE} \cup (IF RepoFaults THEN {FALSE} ELSE {}) :
       admin' = [admin EXCEPT ![a] =
         [IdleAdmin EXCEPT !.pc = "write", !.op = op, !.team = t,
                           !.targets = IF list THEN TeamMembers(t) ELSE {}]]
  /\ UNCHANGED <<database, contextCache, lookup>>

\* The row is updated, and after UpdateTeam the teams are listed for the
\* answer; an error then is the answer although the name is written.
UpdateTeam(a) ==
  /\ admin[a].pc = "write" /\ admin[a].op = "update"
  /\ team[admin[a].team].state # "none"
  /\ \E n \in Names : team' = [team EXCEPT ![admin[a].team].name = n]
  /\ \/ admin' = [admin EXCEPT ![a] = Invalidating(admin[a].targets)]
     \/ RepoFaults /\ admin' = [admin EXCEPT ![a].pc = "failed"]
  /\ UNCHANGED <<member, globalRole, contextCache, lookup>>

DisableTeam(a) ==
  /\ admin[a].pc = "write" /\ admin[a].op = "disable"
  /\ team[admin[a].team].state # "none"
  /\ team' = [team EXCEPT ![admin[a].team].state = "disabled"]
  /\ admin' = [admin EXCEPT ![a] = Invalidating(admin[a].targets)]
  /\ UNCHANGED <<member, globalRole, contextCache, lookup>>

\* No such team, or an error of the database: nothing is invalidated.
WriteFails(a) ==
  /\ admin[a].pc = "write"
  /\ team[admin[a].team].state = "none" \/ RepoFaults
  /\ admin' = [admin EXCEPT ![a] = IdleAdmin]
  /\ UNCHANGED <<database, contextCache, lookup>>

-----------------------------------------------------------------------------
(* Admin requests on members and roles. *)

\* A transaction that has disabled rows holds them until it ends.
Holds(a, u, t) == admin[a].pc = "join" /\ admin[a].user = u /\ t \in admin[a].rows
Free(u, t)     == \A a \in Admins : ~Holds(a, u, t)

\* AddTeamMember begins its transaction; the first statement updates the rows
\* of the user in other teams, those that exist now.  The team is not looked at:
\* it may be disabled or not exist.
BeginAddTeamMember(a) ==
  /\ admin[a].pc = "idle"
  /\ \E u \in Users, t \in Teams, r \in Roles :
       admin' = [admin EXCEPT ![a] =
         [IdleAdmin EXCEPT !.pc = "leave", !.user = u, !.team = t, !.role = r,
            !.rows = {s \in Teams \ {t} : member[u][s].role # "none"}]]
  /\ UNCHANGED <<database, contextCache, lookup>>

\* They are disabled, for this transaction only as yet.
LeaveOtherTeams(a) ==
  /\ admin[a].pc = "leave"
  /\ \A t \in admin[a].rows : Free(admin[a].user, t)
  /\ admin' = [admin EXCEPT ![a].pc = "join"]
  /\ UNCHANGED <<database, contextCache, lookup>>

\* Faulty: the membership in the old teams stays.
JoinBeside(a) ==
  /\ admin[a].pc = "join"
  /\ LET u == admin[a].user
         t == admin[a].team
     IN  /\ Free(u, t)
         /\ member' = [member EXCEPT ![u][t] =
              [role |-> admin[a].role, enabled |-> TRUE]]
         /\ admin' = [admin EXCEPT ![a] = Invalidating({u})]
  /\ UNCHANGED <<team, globalRole, contextCache, lookup>>

\* The row of the team is inserted, or overwritten whatever it was, and the
\* transaction commits.
JoinTeam(a) ==
  /\ admin[a].pc = "join"
  /\ LET u == admin[a].user
         t == admin[a].team
     IN  /\ Free(u, t)
         /\ member' = [member EXCEPT ![u] = [s \in Teams |->
              IF s = t
              THEN [role |-> admin[a].role, enabled |-> TRUE]
              ELSE [member[u][s] EXCEPT
                      !.enabled = @ /\ s \notin admin[a].rows]]]
         /\ admin' = [admin EXCEPT ![a] = Invalidating({u})]
  /\ UNCHANGED <<team, globalRole, contextCache, lookup>>

\* The transaction ends without effect: an error, or two that wait for each
\* other's rows, of which the database ends one.
Rollback(a) ==
  /\ admin[a].pc \in {"leave", "join"}
  /\ admin' = [admin EXCEPT ![a] = IdleAdmin]
  /\ UNCHANGED <<database, contextCache, lookup>>

\* Faulty: a membership that had ended is not followed up.
UpdateTeamMemberQuietly(a) ==
  /\ admin[a].pc = "idle"
  /\ \E u \in Users, t \in Teams, r \in Roles :
       /\ member[u][t].role # "none" /\ Free(u, t)
       /\ member' = [member EXCEPT ![u][t] = [role |-> r, enabled |-> TRUE]]
       /\ admin' = [admin EXCEPT ![a] =
            IF member[u][t].enabled THEN Invalidating({u}) ELSE IdleAdmin]
  /\ UNCHANGED <<team, globalRole, contextCache, lookup>>

\* UpdateTeamMember: any row of the user in the team, also one of a membership
\* that has ended, which begins again.
UpdateTeamMember(a) ==
  /\ admin[a].pc = "idle"
  /\ \E u \in Users, t \in Teams, r \in Roles :
       /\ member[u][t].role # "none" /\ Free(u, t)
       /\ member' = [member EXCEPT ![u][t] = [role |-> r, enabled |-> TRUE]]
       /\ admin' = [admin EXCEPT ![a] = Invalidating({u})]
  /\ UNCHANGED <<team, globalRole, contextCache, lookup>>

RemoveTeamMember(a) ==
  /\ admin[a].pc = "idle"
  /\ \E u \in Users, t \in Teams :
       /\ member[u][t].role # "none" /\ Free(u, t)
       /\ member' = [member EXCEPT ![u][t].enabled = FALSE]
       /\ admin' = [admin EXCEPT ![a] = Invalidating({u})]
  /\ UNCHANGED <<team, globalRole, contextCache, lookup>>

\* Faulty: a role in a team is taken for a global role.
UpdateToAnyRole(a) ==
  /\ admin[a].pc = "idle"
  /\ \E u \in Users, g \in {"", "admin"} \cup Roles :
       /\ globalRole' = [globalRole EXCEPT ![u] = g]
       /\ admin' = [admin EXCEPT ![a] = Invalidating({u})]
  /\ UNCHANGED <<team, member, contextCache, lookup>>

\* The role is written and the user read back for the answer; an error then is
\* the answer although the role is written.
UpdateUserGlobalRole(a) ==
  /\ admin[a].pc = "idle"
  /\ \E u \in Users, g \in {"", "admin"} :
       /\ globalRole' = [globalRole EXCEPT ![u] = g]
       /\ \/ admin' = [admin EXCEPT ![a] = Invalidating({u})]
          \/ RepoFaults /\ admin' = [admin EXCEPT ![a] =
               [IdleAdmin EXCEPT !.pc = "failed"]]
  /\ UNCHANGED <<team, member, contextCache, lookup>>

\* The answer is an error, whatever was written: nothing is invalidated.
AnswerError(a) ==
  /\ admin[a].pc = "failed"
  /\ admin' = [admin EXCEPT ![a] = IdleAdmin]
  /\ UNCHANGED <<database, contextCache, lookup>>

\* invalidateUserContexts, one user after the other, whose errors are ignored.
InvalidateUserContexts(a) ==
  /\ admin[a].pc = "invalidate"
  /\ IF admin[a].targets = {}
     THEN /\ admin' = [admin EXCEPT ![a] = IdleAdmin]
          /\ UNCHANGED contextCache
     ELSE \E u \in admin[a].targets :
            /\ admin' = [admin EXCEPT ![a].targets = @ \ {u}]
            /\ \/ contextCache' = [contextCache EXCEPT ![u] = None]
               \/ CacheFaults /\ UNCHANGED contextCache
  /\ UNCHANGED <<database, lookup>>

-----------------------------------------------------------------------------
\* The server stops with all its requests and starts again: the seed enables
\* its teams and memberships again, whatever became of them, and resets the
\* global roles of its users.  Redis keeps its entries.
Restart ==
  /\ Restarts
  /\ team' = [t \in Teams |-> IF t \in SeedTeams
                              THEN [state |-> "enabled", name |-> SeedName]
                              ELSE team[t]]
  /\ member' = [u \in Users |-> [t \in Teams |->
       IF u \in SeedUsers /\ t = SeedTeamOf[u] THEN SeedMember(u)
                                               ELSE member[u][t]]]
  /\ globalRole' = [u \in Users |-> IF u \in SeedUsers THEN SeedGlobal(u)
                                                       ELSE globalRole[u]]
  /\ lookup' = [p \in Lookups |-> IdleLookup]
  /\ admin' = [a \in Admins |-> IdleAdmin]
  /\ UNCHANGED contextCache

-----------------------------------------------------------------------------
LookupStep(p) == UserMemberships(p) \/ FillUserContext(p)

BeginRequest(a) ==
  \/ CreateTeam(a) \/ ReadMembers(a) \/ BeginAddTeamMember(a)
  \/ UpdateTeamMember(a) \/ RemoveTeamMember(a) \/ UpdateUserGlobalRole(a)

AdminStep(a) ==
  \/ UpdateTeam(a) \/ DisableTeam(a) \/ WriteFails(a)
  \/ LeaveOtherTeams(a) \/ JoinTeam(a) \/ Rollback(a)
  \/ AnswerError(a) \/ InvalidateUserContexts(a)

Next ==
  \/ \E p \in Lookups : FindUser(p) \/ LookupStep(p)
  \/ \E a \in Admins : BeginRequest(a) \/ AdminStep(a)
  \/ \E u \in Users : Expire(u)
  \/ Restart

Spec == Init /\ [][Next]_vars

-----------------------------------------------------------------------------
(* Properties. *)

\* Neither the cache nor a request that will fill it has anything of user u
\* but what the database says now.
Settled(u) ==
  /\ contextCache[u] \in {None, Rights(u)}
  /\ \A p \in Lookups : lookup[p].user = u =>
       /\ lookup[p].pc = "memberships" => lookup[p].global = globalRole[u]
       /\ lookup[p].pc = "fill" => lookup[p].context = Rights(u)

\* An invalidation of user u is under way.
Awaited(u) == \E a \in Admins :
  admin[a].pc = "invalidate" /\ u \in admin[a].targets

\* Request a writes the row of a team without user u in the list of members it
\* has read.
WritesUnlisted(a, u) ==
  /\ admin[a].pc = "write" /\ admin'[a].pc = "invalidate"
  /\ u \notin admin[a].targets

\* Rights do not go stale unnoticed: of a user of whom no stale copy exists or
\* is under way none comes up, whatever happens to the teams, the memberships
\* and the global role, unless an invalidation is under way.  The exceptions
\* are a member the list did not show (who joined after it was read), a request
\* that answered an error after it had written, and the seed.
StaleOnlyAnnounced ==
  [][\A u \in Users : Settled(u) =>
       \/ Settled(u)' \/ Awaited(u)'
       \/ \E a \in Admins : WritesUnlisted(a, u) \/ admin'[a].pc = "failed"
       \/ Restart]_vars

\* The user is in one team at most, whether or not the team is enabled.
OneTeam(u) == \A s, t \in Teams :
  member[u][s].enabled /\ member[u][t].enabled => s = t

\* Since request a to move user u began, another has put u in a team in which
\* u had no row then.
Overtaken(a, u) ==
  /\ admin[a].pc = "join" /\ admin[a].user = u
  /\ \E t \in Teams \ admin[a].rows :
       t # admin[a].team /\ member[u][t].enabled

\* Request a, which begins and writes in one step, begins a membership of user
\* u again that had ended.
Reopens(a, u) ==
  /\ admin[a].pc = "idle" /\ admin'[a].pc = "invalidate"
  /\ \E t \in Teams : ~member[u][t].enabled /\ member'[u][t].enabled

\* AddTeamMember moves: a user of one team comes to be in two only when a move
\* commits that another has overtaken, when a membership that had ended is
\* updated, or when the seed runs.
SecondTeamExplained ==
  [][\A u \in Users : OneTeam(u) =>
       \/ OneTeam(u)'
       \/ \E a \in Admins : Overtaken(a, u) \/ Reopens(a, u)
       \/ Restart]_vars
=============================================================================
