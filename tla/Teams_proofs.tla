---------------------------- MODULE Teams_proofs ----------------------------
(***************************************************************************)
(* Theorems about Teams, for every value of its constants that satisfies   *)
(* TeamsAssumption: any users, teams, roles, requests and faults.          *)
(***************************************************************************)
EXTENDS Teams, TLAPS

-----------------------------------------------------------------------------
(* The inductive invariant.                                                *)

\* What an admin request under way holds: the ids it was asked for, and for a
\* move the rows of teams other than the one asked for.
AdminPrepared(q) ==
  /\ q.pc = "write" => q.team \in Teams
  /\ q.pc \in {"leave", "join"} =>
       /\ q.user \in Users
       /\ q.team \in Teams \ q.rows
       /\ q.role \in Roles

LookupPrepared(q) == q.pc # "idle" => q.user \in Users

AllPrepared ==
  /\ \A a \in Admins  : AdminPrepared(admin[a])
  /\ \A p \in Lookups : LookupPrepared(lookup[p])

\* Where no row of team_members is, nothing is enabled.
NothingWithoutRow == \A u \in Users, t \in Teams :
  member[u][t].role = "none" => ~member[u][t].enabled

TeamsInv == TypeOK /\ AllPrepared /\ NothingWithoutRow

-----------------------------------------------------------------------------
(* Types.                                                                  *)

LEMMA IdleTypes ==
  /\ IdleLookup \in LookupState /\ LookupPrepared(IdleLookup)
  /\ IdleAdmin \in AdminState /\ AdminPrepared(IdleAdmin)
  /\ IdleAdmin.pc = "idle"
  BY DEF IdleLookup, IdleAdmin, LookupState, AdminState, LookupPrepared,
         AdminPrepared

LEMMA InvalidatingType ==
  ASSUME NEW targets \in SUBSET Users
  PROVE  /\ Invalidating(targets) \in AdminState
         /\ AdminPrepared(Invalidating(targets))
         /\ Invalidating(targets).pc = "invalidate"
         /\ Invalidating(targets).targets = targets
  BY DEF Invalidating, IdleAdmin, AdminState, AdminPrepared

LEMMA SeedTypes ==
  ASSUME NEW u \in Users
  PROVE  /\ SeedGlobal(u) \in {"", "admin"}
         /\ u \in SeedUsers => SeedMember(u) \in MemberRow
         /\ u \in SeedUsers => SeedMember(u).role # "none"
  BY TeamsAssumption DEF SeedGlobal, SeedMember, MemberRow

LEMMA ContextType ==
  ASSUME TypeOK, NEW u \in Users, NEW g \in {"", "admin"}
  PROVE  UserContext(u, g) \in Context
<1>1. \A t \in Teams :
        [team |-> t, role |-> member[u][t].role, name |-> team[t].name]
          \in Membership
  <2> TAKE t \in Teams
  <2>1. member[u][t] \in MemberRow /\ team[t] \in TeamRow
    BY DEF TypeOK
  <2> QED
    BY <2>1 DEF MemberRow, TeamRow, Membership
<1>2. Active(u) \subseteq Teams
  BY DEF Active
<1> QED
  BY <1>1, <1>2 DEF UserContext, Context

-----------------------------------------------------------------------------
(* The invariant holds in every reachable state.                           *)

\* Initially.
LEMMA InitInv == Init => TeamsInv
<1> SUFFICES ASSUME Init PROVE TeamsInv
  OBVIOUS
<1>1. team \in [Teams -> TeamRow]
  BY TeamsAssumption DEF Init, TeamRow
<1>2. \A u \in Users, t \in Teams :
        /\ member[u][t] \in MemberRow
        /\ member[u][t].role = "none" => ~member[u][t].enabled
  <2> TAKE u \in Users, t \in Teams
  <2>1. NoMember \in MemberRow /\ ~NoMember.enabled
    BY DEF NoMember, MemberRow
  <2>2. CASE u \in SeedUsers
    <3>1. member[u][t] \in {SeedMember(u), NoMember}
      BY <2>2 DEF Init
    <3> QED
      BY <2>1, <2>2, <3>1, SeedTypes
  <2>3. CASE u \notin SeedUsers
    <3>1. member[u][t] \in {[role |-> "employee", enabled |-> TRUE], NoMember}
      BY <2>3 DEF Init
    <3>2. /\ [role |-> "employee", enabled |-> TRUE] \in MemberRow
          /\ [role |-> "employee", enabled |-> TRUE].role # "none"
      BY TeamsAssumption DEF MemberRow
    <3> QED
      BY <2>1, <3>1, <3>2
  <2> QED
    BY <2>2, <2>3
<1>3. member \in [Users -> [Teams -> MemberRow]]
  BY <1>2 DEF Init
<1>4. globalRole \in [Users -> {"", "admin"}]
  BY SeedTypes DEF Init
<1>5. /\ contextCache \in [Users -> Context \cup {None}]
      /\ lookup \in [Lookups -> LookupState]
      /\ admin \in [Admins -> AdminState]
      /\ AllPrepared
  BY IdleTypes DEF Init, AllPrepared
<1> QED
  BY <1>1, <1>2, <1>3, <1>4, <1>5 DEF TeamsInv, TypeOK, NothingWithoutRow

\* A step of one request leaves all requests prepared.
LEMMA AdminMoves ==
  ASSUME TeamsInv, NEW a \in Admins, NEW q \in AdminState, AdminPrepared(q),
         admin' = [admin EXCEPT ![a] = q], lookup' = lookup
  PROVE  /\ admin' \in [Admins -> AdminState]
         /\ lookup' \in [Lookups -> LookupState]
         /\ AllPrepared'
<1>1. admin' \in [Admins -> AdminState] /\ lookup' \in [Lookups -> LookupState]
  BY DEF TeamsInv, TypeOK
<1>2. \A b \in Admins : AdminPrepared(admin'[b])
  BY DEF TeamsInv, TypeOK, AllPrepared
<1>3. \A p \in Lookups : LookupPrepared(lookup'[p])
  BY DEF TeamsInv, AllPrepared
<1> QED
  BY <1>1, <1>2, <1>3 DEF AllPrepared

LEMMA LookupMoves ==
  ASSUME TeamsInv, NEW p \in Lookups, NEW q \in LookupState, LookupPrepared(q),
         lookup' = [lookup EXCEPT ![p] = q], admin' = admin
  PROVE  /\ admin' \in [Admins -> AdminState]
         /\ lookup' \in [Lookups -> LookupState]
         /\ AllPrepared'
<1>1. admin' \in [Admins -> AdminState] /\ lookup' \in [Lookups -> LookupState]
  BY DEF TeamsInv, TypeOK
<1>2. \A b \in Admins : AdminPrepared(admin'[b])
  BY DEF TeamsInv, AllPrepared
<1>3. \A r \in Lookups : LookupPrepared(lookup'[r])
  BY DEF TeamsInv, TypeOK, AllPrepared
<1> QED
  BY <1>1, <1>2, <1>3 DEF AllPrepared

\* The steps that leave the database as it is.
LEMMA LookupInv ==
  ASSUME TeamsInv, NEW p \in Lookups, FindUser(p) \/ LookupStep(p)
  PROVE  TeamsInv'
<1>1. UNCHANGED <<team, member, globalRole, admin>>
  BY DEF FindUser, LookupStep, UserMemberships, FillUserContext, database
<1>2. lookup[p] \in LookupState /\ LookupPrepared(lookup[p])
  BY DEF TeamsInv, TypeOK, AllPrepared
<1>3. contextCache' \in [Users -> Context \cup {None}] /\
      \E q \in LookupState :
        LookupPrepared(q) /\ lookup' = [lookup EXCEPT ![p] = q]
  <2>1. CASE FindUser(p)
    <3>1. PICK u \in Users : lookup' = [lookup EXCEPT ![p] =
            [IdleLookup EXCEPT !.pc = "memberships", !.user = u,
                               !.global = globalRole[u]]]
      BY <2>1 DEF FindUser
    <3> DEFINE q == [IdleLookup EXCEPT !.pc = "memberships", !.user = u,
                                       !.global = globalRole[u]]
    <3>2. globalRole[u] \in {"", "admin"}
      BY DEF TeamsInv, TypeOK
    <3>3. q \in LookupState /\ LookupPrepared(q)
      BY <3>2 DEF IdleLookup, LookupState, LookupPrepared
    <3>4. UNCHANGED contextCache
      BY <2>1 DEF FindUser
    <3> QED
      BY <3>1, <3>3, <3>4 DEF TeamsInv, TypeOK
  <2>2. CASE UserMemberships(p)
    <3> DEFINE c == UserContext(lookup[p].user, lookup[p].global)
               q == [lookup[p] EXCEPT !.pc = "fill", !.context = c]
    <3>1. lookup[p].user \in Users /\ lookup[p].global \in {"", "admin"}
      BY <1>2, <2>2 DEF UserMemberships, LookupPrepared, LookupState
    <3>2. c \in Context
      BY <3>1, ContextType DEF TeamsInv
    <3>3. q \in LookupState /\ LookupPrepared(q)
      <4> HIDE DEF c
      <4> QED
        BY <1>2, <3>1, <3>2 DEF LookupState, LookupPrepared
    <3>4. \/ lookup' = [lookup EXCEPT ![p] = q]
          \/ lookup' = [lookup EXCEPT ![p] = IdleLookup]
      <4> HIDE DEF c
      <4>1. \/ lookup' = [lookup EXCEPT ![p].pc = "fill", ![p].context = c]
            \/ lookup' = [lookup EXCEPT ![p] = IdleLookup]
        BY <2>2 DEF UserMemberships, c
      <4> QED
        BY <4>1 DEF TeamsInv, TypeOK
    <3>5. UNCHANGED contextCache
      BY <2>2 DEF UserMemberships
    <3> HIDE DEF q
    <3> QED
      BY <3>3, <3>4, <3>5, IdleTypes DEF TeamsInv, TypeOK
  <2>3. CASE FillUserContext(p)
    <3>1. lookup[p].context \in Context \cup {None}
      BY <1>2 DEF LookupState
    <3>2. contextCache' \in [Users -> Context \cup {None}]
      BY <2>3, <3>1 DEF FillUserContext, TeamsInv, TypeOK
    <3> QED
      BY <2>3, <3>2, IdleTypes DEF FillUserContext
  <2> QED
    BY <2>1, <2>2, <2>3 DEF LookupStep
<1>4. PICK q \in LookupState :
        LookupPrepared(q) /\ lookup' = [lookup EXCEPT ![p] = q]
  BY <1>3
<1>5. /\ admin' \in [Admins -> AdminState]
      /\ lookup' \in [Lookups -> LookupState]
      /\ AllPrepared'
  BY <1>1, <1>4, LookupMoves
<1> QED
  BY <1>1, <1>3, <1>5 DEF TeamsInv, TypeOK, NothingWithoutRow

\* What an admin request writes, action by action.
LEMMA TeamRowsInv ==
  ASSUME TeamsInv, NEW t \in Teams, NEW row \in TeamRow,
         team' = [team EXCEPT ![t] = row], UNCHANGED <<member, globalRole>>
  PROVE  /\ team' \in [Teams -> TeamRow]
         /\ member' \in [Users -> [Teams -> MemberRow]]
         /\ globalRole' \in [Users -> {"", "admin"}]
         /\ NothingWithoutRow'
  BY DEF TeamsInv, TypeOK, NothingWithoutRow

LEMMA MemberRowsInv ==
  ASSUME TeamsInv, NEW u \in Users, NEW rows \in [Teams -> MemberRow],
         \A t \in Teams : rows[t].role = "none" => ~rows[t].enabled,
         member' = [member EXCEPT ![u] = rows], UNCHANGED <<team, globalRole>>
  PROVE  /\ team' \in [Teams -> TeamRow]
         /\ member' \in [Users -> [Teams -> MemberRow]]
         /\ globalRole' \in [Users -> {"", "admin"}]
         /\ NothingWithoutRow'
  BY DEF TeamsInv, TypeOK, NothingWithoutRow

\* One request begins, moves on or ends, and writes what its action says.
Request(a) == \E q \in AdminState :
  AdminPrepared(q) /\ admin' = [admin EXCEPT ![a] = q]

LEMMA RequestInv ==
  ASSUME TeamsInv, NEW a \in Admins, Request(a), lookup' = lookup,
         team' \in [Teams -> TeamRow],
         member' \in [Users -> [Teams -> MemberRow]],
         globalRole' \in [Users -> {"", "admin"}],
         contextCache' \in [Users -> Context \cup {None}],
         NothingWithoutRow'
  PROVE  TeamsInv'
<1>1. PICK q \in AdminState :
        AdminPrepared(q) /\ admin' = [admin EXCEPT ![a] = q]
  BY DEF Request
<1>2. /\ admin' \in [Admins -> AdminState]
      /\ lookup' \in [Lookups -> LookupState]
      /\ AllPrepared'
  BY <1>1, AdminMoves
<1> QED
  BY <1>2 DEF TeamsInv, TypeOK

\* The actions on teams.
LEMMA TeamActionsInv ==
  ASSUME TeamsInv, NEW a \in Admins,
         CreateTeam(a) \/ UpdateTeam(a) \/ DisableTeam(a)
  PROVE  TeamsInv'
<1>1. UNCHANGED <<member, globalRole, contextCache, lookup>>
  BY DEF CreateTeam, UpdateTeam, DisableTeam
<1>2. admin[a] \in AdminState /\ AdminPrepared(admin[a])
  BY DEF TeamsInv, TypeOK, AllPrepared
<1>3. Invalidating(admin[a].targets) \in AdminState /\
      AdminPrepared(Invalidating(admin[a].targets))
  BY <1>2, InvalidatingType DEF AdminState
<1>4. Request(a)
  <2>1. CASE CreateTeam(a)
    BY <2>1, IdleTypes DEF CreateTeam, Request
  <2>2. CASE UpdateTeam(a)
    <3> DEFINE q == [admin[a] EXCEPT !.pc = "failed"]
    <3>1. q \in AdminState /\ AdminPrepared(q)
      BY <1>2 DEF AdminState, AdminPrepared
    <3>2. \/ admin' = [admin EXCEPT ![a] = Invalidating(admin[a].targets)]
          \/ admin' = [admin EXCEPT ![a] = q]
      BY <2>2 DEF UpdateTeam, TeamsInv, TypeOK
    <3> HIDE DEF q
    <3> QED
      BY <1>3, <3>1, <3>2 DEF Request
  <2>3. CASE DisableTeam(a)
    BY <1>3, <2>3 DEF DisableTeam, Request
  <2> QED
    BY <2>1, <2>2, <2>3
<1>5. \E t \in Teams, row \in TeamRow : team' = [team EXCEPT ![t] = row]
  <2>1. CASE CreateTeam(a)
    <3>1. PICK t \in Teams, n \in Names :
            team' = [team EXCEPT ![t] = [state |-> "enabled", name |-> n]]
      BY <2>1 DEF CreateTeam
    <3>2. [state |-> "enabled", name |-> n] \in TeamRow
      BY DEF TeamRow
    <3> QED
      BY <3>1, <3>2
  <2>2. CASE UpdateTeam(a)
    <3>1. PICK n \in Names : team' = [team EXCEPT ![admin[a].team].name = n]
      BY <2>2 DEF UpdateTeam
    <3>2. admin[a].team \in Teams
      BY <1>2, <2>2 DEF UpdateTeam, AdminPrepared
    <3>3. [team[admin[a].team] EXCEPT !.name = n] \in TeamRow
      BY <3>2 DEF TeamsInv, TypeOK, TeamRow
    <3>4. team' = [team EXCEPT ![admin[a].team] =
                     [team[admin[a].team] EXCEPT !.name = n]]
      BY <3>1, <3>2 DEF TeamsInv, TypeOK
    <3> QED
      BY <3>2, <3>3, <3>4
  <2>3. CASE DisableTeam(a)
    <3>1. admin[a].team \in Teams
      BY <1>2, <2>3 DEF DisableTeam, AdminPrepared
    <3>2. [team[admin[a].team] EXCEPT !.state = "disabled"] \in TeamRow
      BY <3>1 DEF TeamsInv, TypeOK, TeamRow
    <3>3. team' = [team EXCEPT ![admin[a].team] =
                     [team[admin[a].team] EXCEPT !.state = "disabled"]]
      BY <2>3, <3>1 DEF DisableTeam, TeamsInv, TypeOK
    <3> QED
      BY <3>1, <3>2, <3>3
  <2> QED
    BY <2>1, <2>2, <2>3
<1>6. PICK t \in Teams, row \in TeamRow : team' = [team EXCEPT ![t] = row]
  BY <1>5
<1>7. /\ team' \in [Teams -> TeamRow]
      /\ member' \in [Users -> [Teams -> MemberRow]]
      /\ globalRole' \in [Users -> {"", "admin"}]
      /\ NothingWithoutRow'
  BY <1>1, <1>6, TeamRowsInv
<1>8. contextCache' \in [Users -> Context \cup {None}]
  BY <1>1 DEF TeamsInv, TypeOK
<1> QED
  BY <1>1, <1>4, <1>7, <1>8, RequestInv

\* The actions on members.  Each gives one user new rows and goes on to
\* invalidate that user.
LEMMA MemberActions ==
  ASSUME TeamsInv, NEW a \in Admins,
         JoinTeam(a) \/ UpdateTeamMember(a) \/ RemoveTeamMember(a)
  PROVE  \E u \in Users, rows \in [Teams -> MemberRow] :
           /\ member' = [member EXCEPT ![u] = rows]
           /\ \A t \in Teams : rows[t].role = "none" => ~rows[t].enabled
           /\ admin' = [admin EXCEPT ![a] = Invalidating({u})]
           /\ UNCHANGED <<team, globalRole, contextCache, lookup>>
<1>1. UNCHANGED <<team, globalRole, contextCache, lookup>>
  BY DEF JoinTeam, UpdateTeamMember, RemoveTeamMember
<1>2. CASE JoinTeam(a)
  <2> DEFINE u == admin[a].user
             t == admin[a].team
             rows == [s \in Teams |->
               IF s = t
               THEN [role |-> admin[a].role, enabled |-> TRUE]
               ELSE [member[u][s] EXCEPT
                       !.enabled = @ /\ s \notin admin[a].rows]]
  <2>1. u \in Users /\ t \in Teams /\ admin[a].role \in Roles
    BY <1>2 DEF JoinTeam, TeamsInv, AllPrepared, AdminPrepared
  <2>2. member[u] \in [Teams -> MemberRow]
    BY <2>1 DEF TeamsInv, TypeOK
  <2>3. \A s \in Teams : rows[s] \in MemberRow
    BY <2>1, <2>2 DEF MemberRow
  <2>4. \A s \in Teams : rows[s].role = "none" => ~rows[s].enabled
    BY <2>1, <2>2, TeamsAssumption DEF TeamsInv, NothingWithoutRow, MemberRow
  <2>5. rows \in [Teams -> MemberRow]
    BY <2>3
  <2>6. /\ member' = [member EXCEPT ![u] = rows]
        /\ admin' = [admin EXCEPT ![a] = Invalidating({u})]
    BY <1>2 DEF JoinTeam
  <2> HIDE DEF rows, u
  <2> QED
    BY <1>1, <2>1, <2>4, <2>5, <2>6
<1>3. ASSUME NEW u \in Users, NEW t \in Teams, NEW row \in MemberRow,
             row.role # "none" \/ ~row.enabled,
             member' = [member EXCEPT ![u][t] = row],
             admin' = [admin EXCEPT ![a] = Invalidating({u})]
      PROVE  \E v \in Users, rows \in [Teams -> MemberRow] :
               /\ member' = [member EXCEPT ![v] = rows]
               /\ \A s \in Teams : rows[s].role = "none" => ~rows[s].enabled
               /\ admin' = [admin EXCEPT ![a] = Invalidating({v})]
               /\ UNCHANGED <<team, globalRole, contextCache, lookup>>
  <2> DEFINE rows == [member[u] EXCEPT ![t] = row]
  <2>1. member[u] \in [Teams -> MemberRow]
    BY DEF TeamsInv, TypeOK
  <2>2. rows \in [Teams -> MemberRow]
    BY <2>1
  <2>3. \A s \in Teams : rows[s].role = "none" => ~rows[s].enabled
    BY <1>3, <2>1 DEF TeamsInv, NothingWithoutRow
  <2>4. member' = [member EXCEPT ![u] = rows]
    BY <1>3 DEF TeamsInv, TypeOK
  <2> HIDE DEF rows
  <2> QED
    BY <1>1, <1>3, <2>2, <2>3, <2>4
<1>4. CASE UpdateTeamMember(a)
  <2>1. PICK u \in Users, t \in Teams, r \in Roles :
          /\ member' = [member EXCEPT ![u][t] = [role |-> r, enabled |-> TRUE]]
          /\ admin' = [admin EXCEPT ![a] = Invalidating({u})]
    BY <1>4 DEF UpdateTeamMember
  <2> DEFINE row == [role |-> r, enabled |-> TRUE]
  <2>2. row \in MemberRow /\ row.role # "none"
    BY TeamsAssumption DEF MemberRow
  <2>3. member' = [member EXCEPT ![u][t] = row]
    BY <2>1
  <2> HIDE DEF row
  <2> QED
    BY <1>3, <2>1, <2>2, <2>3
<1>5. CASE RemoveTeamMember(a)
  <2>1. PICK u \in Users, t \in Teams :
          /\ member' = [member EXCEPT ![u][t].enabled = FALSE]
          /\ admin' = [admin EXCEPT ![a] = Invalidating({u})]
    BY <1>5 DEF RemoveTeamMember
  <2> DEFINE row == [member[u][t] EXCEPT !.enabled = FALSE]
  <2>2. row \in MemberRow /\ ~row.enabled
    <3>1. member[u][t] \in MemberRow
      BY DEF TeamsInv, TypeOK
    <3> QED
      BY <3>1 DEF MemberRow
  <2>3. member' = [member EXCEPT ![u][t] = row]
    BY <2>1 DEF TeamsInv, TypeOK
  <2> HIDE DEF row
  <2> QED
    BY <1>3, <2>1, <2>2, <2>3
<1> QED
  BY <1>2, <1>4, <1>5

LEMMA MemberActionsInv ==
  ASSUME TeamsInv, NEW a \in Admins,
         JoinTeam(a) \/ UpdateTeamMember(a) \/ RemoveTeamMember(a)
  PROVE  TeamsInv'
<1>1. PICK u \in Users, rows \in [Teams -> MemberRow] :
        /\ member' = [member EXCEPT ![u] = rows]
        /\ \A t \in Teams : rows[t].role = "none" => ~rows[t].enabled
        /\ admin' = [admin EXCEPT ![a] = Invalidating({u})]
        /\ UNCHANGED <<team, globalRole, contextCache, lookup>>
  BY MemberActions
<1>2. /\ team' \in [Teams -> TeamRow]
      /\ member' \in [Users -> [Teams -> MemberRow]]
      /\ globalRole' \in [Users -> {"", "admin"}]
      /\ NothingWithoutRow'
  BY <1>1, MemberRowsInv
<1>3. Request(a)
  BY <1>1, InvalidatingType DEF Request
<1>4. contextCache' \in [Users -> Context \cup {None}]
  BY <1>1 DEF TeamsInv, TypeOK
<1> QED
  BY <1>1, <1>2, <1>3, <1>4, RequestInv

\* A global role, and the steps of admin requests that write nothing.
LEMMA OtherActionsInv ==
  ASSUME TeamsInv, NEW a \in Admins,
         \/ UpdateUserGlobalRole(a) \/ ReadMembers(a) \/ BeginAddTeamMember(a)
         \/ WriteFails(a) \/ LeaveOtherTeams(a) \/ Rollback(a) \/ AnswerError(a)
         \/ InvalidateUserContexts(a)
  PROVE  TeamsInv'
<1>1. UNCHANGED <<team, member, lookup>>
  BY DEF UpdateUserGlobalRole, ReadMembers, BeginAddTeamMember, WriteFails,
         LeaveOtherTeams, Rollback, AnswerError, InvalidateUserContexts, database
<1>2. admin[a] \in AdminState /\ AdminPrepared(admin[a])
  BY DEF TeamsInv, TypeOK, AllPrepared
<1>3. /\ Request(a)
      /\ globalRole' \in [Users -> {"", "admin"}]
      /\ contextCache' \in [Users -> Context \cup {None}]
  <2>1. CASE UpdateUserGlobalRole(a)
    <3>1. PICK u \in Users, g \in {"", "admin"} :
            /\ globalRole' = [globalRole EXCEPT ![u] = g]
            /\ \/ admin' = [admin EXCEPT ![a] = Invalidating({u})]
               \/ admin' = [admin EXCEPT ![a] =
                    [IdleAdmin EXCEPT !.pc = "failed"]]
      BY <2>1 DEF UpdateUserGlobalRole
    <3>2. [IdleAdmin EXCEPT !.pc = "failed"] \in AdminState /\
          AdminPrepared([IdleAdmin EXCEPT !.pc = "failed"])
      BY DEF IdleAdmin, AdminState, AdminPrepared
    <3>3. Request(a)
      BY <3>1, <3>2, InvalidatingType DEF Request
    <3>4. globalRole' \in [Users -> {"", "admin"}]
      BY <3>1 DEF TeamsInv, TypeOK
    <3>5. UNCHANGED contextCache
      BY <2>1 DEF UpdateUserGlobalRole
    <3> QED
      BY <3>3, <3>4, <3>5 DEF TeamsInv, TypeOK
  <2>2. CASE ReadMembers(a)
    <3>1. PICK t \in Teams, op \in {"update", "disable"}, list \in BOOLEAN :
            admin' = [admin EXCEPT ![a] =
              [IdleAdmin EXCEPT !.pc = "write", !.op = op, !.team = t,
                 !.targets = IF list THEN TeamMembers(t) ELSE {}]]
      BY <2>2 DEF ReadMembers
    <3> DEFINE q == [IdleAdmin EXCEPT !.pc = "write", !.op = op, !.team = t,
                       !.targets = IF list THEN TeamMembers(t) ELSE {}]
    <3>2. (IF list THEN TeamMembers(t) ELSE {}) \subseteq Users
      BY DEF TeamMembers
    <3>3. q \in AdminState /\ AdminPrepared(q)
      BY <3>2 DEF IdleAdmin, AdminState, AdminPrepared
    <3>4. UNCHANGED <<globalRole, contextCache>>
      BY <2>2 DEF ReadMembers, database
    <3> HIDE DEF q
    <3> QED
      BY <3>1, <3>3, <3>4 DEF Request, TeamsInv, TypeOK, q
  <2>3. CASE BeginAddTeamMember(a)
    <3> DEFINE q(u, t, r) ==
          [IdleAdmin EXCEPT !.pc = "leave", !.user = u, !.team = t, !.role = r,
             !.rows = {s \in Teams \ {t} : member[u][s].role # "none"}]
    <3>1. PICK u \in Users, t \in Teams, r \in Roles :
            admin' = [admin EXCEPT ![a] = q(u, t, r)]
      BY <2>3 DEF BeginAddTeamMember
    <3>2. q(u, t, r) \in AdminState /\ AdminPrepared(q(u, t, r))
      BY DEF IdleAdmin, AdminState, AdminPrepared
    <3>3. UNCHANGED <<globalRole, contextCache>>
      BY <2>3 DEF BeginAddTeamMember, database
    <3> HIDE DEF q
    <3> QED
      BY <3>1, <3>2, <3>3 DEF Request, TeamsInv, TypeOK
  <2>4. CASE LeaveOtherTeams(a)
    <3> DEFINE q == [admin[a] EXCEPT !.pc = "join"]
    <3>1. q \in AdminState /\ AdminPrepared(q)
      BY <1>2, <2>4 DEF LeaveOtherTeams, AdminState, AdminPrepared
    <3>2. admin' = [admin EXCEPT ![a] = q]
      BY <2>4 DEF LeaveOtherTeams, TeamsInv, TypeOK
    <3>3. UNCHANGED <<globalRole, contextCache>>
      BY <2>4 DEF LeaveOtherTeams, database
    <3> HIDE DEF q
    <3> QED
      BY <3>1, <3>2, <3>3 DEF Request, TeamsInv, TypeOK
  <2>5. CASE WriteFails(a) \/ Rollback(a) \/ AnswerError(a)
    <3>1. /\ admin' = [admin EXCEPT ![a] = IdleAdmin]
          /\ UNCHANGED <<globalRole, contextCache>>
      BY <2>5 DEF WriteFails, Rollback, AnswerError, database
    <3> QED
      BY <3>1, IdleTypes DEF Request, TeamsInv, TypeOK
  <2>6. CASE InvalidateUserContexts(a)
    <3>1. CASE admin[a].targets = {}
      <4>1. admin' = [admin EXCEPT ![a] = IdleAdmin]
            /\ UNCHANGED <<globalRole, contextCache>>
        BY <2>6, <3>1 DEF InvalidateUserContexts, database
      <4> QED
        BY <4>1, IdleTypes DEF Request, TeamsInv, TypeOK
    <3>2. CASE admin[a].targets # {}
      <4>1. PICK u \in admin[a].targets :
              /\ admin' = [admin EXCEPT ![a].targets = @ \ {u}]
              /\ \/ contextCache' = [contextCache EXCEPT ![u] = None]
                 \/ UNCHANGED contextCache
              /\ UNCHANGED globalRole
        BY <2>6, <3>2 DEF InvalidateUserContexts, database
      <4> DEFINE q == [admin[a] EXCEPT !.targets = @ \ {u}]
      <4>2. q \in AdminState /\ AdminPrepared(q)
        BY <1>2 DEF AdminState, AdminPrepared
      <4>3. admin' = [admin EXCEPT ![a] = q]
        BY <4>1 DEF TeamsInv, TypeOK
      <4>4. contextCache' \in [Users -> Context \cup {None}]
        BY <4>1 DEF TeamsInv, TypeOK
      <4> HIDE DEF q
      <4> QED
        BY <4>1, <4>2, <4>3, <4>4 DEF Request, TeamsInv, TypeOK
    <3> QED
      BY <3>1, <3>2
  <2> QED
    BY <2>1, <2>2, <2>3, <2>4, <2>5, <2>6
<1>4. member' \in [Users -> [Teams -> MemberRow]] /\ team' \in [Teams -> TeamRow]
      /\ NothingWithoutRow'
  BY <1>1 DEF TeamsInv, TypeOK, NothingWithoutRow
<1> QED
  BY <1>1, <1>3, <1>4, RequestInv

\* A restart: what the seed writes has its types, the rest stays.
LEMMA RestartInv == TeamsInv /\ Restart => TeamsInv'
<1> SUFFICES ASSUME TeamsInv, Restart PROVE TeamsInv'
  OBVIOUS
<1>1. team' \in [Teams -> TeamRow]
  <2>1. [state |-> "enabled", name |-> SeedName] \in TeamRow
    BY TeamsAssumption DEF TeamRow
  <2> QED
    BY <2>1 DEF Restart, TeamsInv, TypeOK
<1>2. \A u \in Users, t \in Teams :
        /\ member'[u][t] \in MemberRow
        /\ member'[u][t].role = "none" => ~member'[u][t].enabled
  <2> TAKE u \in Users, t \in Teams
  <2>1. \/ u \in SeedUsers /\ member'[u][t] = SeedMember(u)
        \/ member'[u][t] = member[u][t]
    BY DEF Restart
  <2>2. /\ member[u][t] \in MemberRow
        /\ member[u][t].role = "none" => ~member[u][t].enabled
    BY DEF TeamsInv, TypeOK, NothingWithoutRow
  <2> QED
    BY <2>1, <2>2, SeedTypes
<1>3. member' \in [Users -> [Teams -> MemberRow]]
  BY <1>2 DEF Restart
<1>4. globalRole' \in [Users -> {"", "admin"}]
  BY SeedTypes DEF Restart, TeamsInv, TypeOK
<1>5. /\ lookup' \in [Lookups -> LookupState]
      /\ admin' \in [Admins -> AdminState]
      /\ AllPrepared'
  BY IdleTypes DEF Restart, AllPrepared
<1>6. contextCache' \in [Users -> Context \cup {None}]
  BY DEF Restart, TeamsInv, TypeOK
<1> QED
  BY <1>1, <1>2, <1>3, <1>4, <1>5, <1>6 DEF TeamsInv, TypeOK, NothingWithoutRow

LEMMA ExpireInv ==
  ASSUME TeamsInv, NEW u \in Users, Expire(u)
  PROVE  TeamsInv'
<1>1. UNCHANGED <<team, member, globalRole, lookup, admin>>
  BY DEF Expire, database
<1>2. contextCache' \in [Users -> Context \cup {None}]
  BY DEF Expire, TeamsInv, TypeOK
<1> QED
  BY <1>1, <1>2 DEF TeamsInv, TypeOK, AllPrepared, NothingWithoutRow

\* The actions of a request, grouped by what they write.
LEMMA AdminActions ==
  ASSUME NEW a, BeginRequest(a) \/ AdminStep(a)
  PROVE  \/ CreateTeam(a) \/ UpdateTeam(a) \/ DisableTeam(a)
         \/ JoinTeam(a) \/ UpdateTeamMember(a) \/ RemoveTeamMember(a)
         \/ UpdateUserGlobalRole(a) \/ ReadMembers(a) \/ BeginAddTeamMember(a)
         \/ WriteFails(a) \/ LeaveOtherTeams(a) \/ Rollback(a) \/ AnswerError(a)
         \/ InvalidateUserContexts(a)
  BY DEF BeginRequest, AdminStep

\* Every step keeps the invariant.
LEMMA NextInv == TeamsInv /\ [Next]_vars => TeamsInv'
<1> SUFFICES ASSUME TeamsInv, [Next]_vars PROVE TeamsInv'
  OBVIOUS
<1>1. CASE \E p \in Lookups : FindUser(p) \/ LookupStep(p)
  BY <1>1, LookupInv
<1>2. CASE \E a \in Admins : BeginRequest(a) \/ AdminStep(a)
  <2>1. PICK a \in Admins : BeginRequest(a) \/ AdminStep(a)
    BY <1>2
  <2> QED
    BY <2>1, AdminActions, TeamActionsInv, MemberActionsInv, OtherActionsInv
<1>3. CASE \E u \in Users : Expire(u)
  BY <1>3, ExpireInv
<1>4. CASE Restart
  BY <1>4, RestartInv
<1>5. CASE UNCHANGED vars
  BY <1>5 DEF vars, database, TeamsInv, TypeOK, AllPrepared, NothingWithoutRow
<1> QED
  BY <1>1, <1>2, <1>3, <1>4, <1>5 DEF Next

THEOREM TeamsInvariance == Spec => []TeamsInv
  BY InitInv, NextInv, PTL DEF Spec

\* Every table, every cached user and every request keeps its type: a global
\* role is "admin" or none, a membership has one of the roles of a team, and the
\* cache answers nothing that is not a user.
THEOREM TypeCorrect == Spec => []TypeOK
  BY TeamsInvariance, PTL DEF TeamsInv

-----------------------------------------------------------------------------
(* A second team has an explanation.                                       *)

\* What a move leaves enabled: the team asked for, and teams without a row when
\* the move began.
LEMMA MoveLeaves ==
  ASSUME TeamsInv, NEW a \in Admins, JoinTeam(a), NEW t \in Teams,
         member'[admin[a].user][t].enabled
  PROVE  \/ t = admin[a].team
         \/ member[admin[a].user][t].enabled /\ t \notin admin[a].rows
<1>1. admin[a].user \in Users
  BY DEF JoinTeam, TeamsInv, AllPrepared, AdminPrepared
<1>2. member'[admin[a].user] = [s \in Teams |->
        IF s = admin[a].team
        THEN [role |-> admin[a].role, enabled |-> TRUE]
        ELSE [member[admin[a].user][s] EXCEPT
                !.enabled = @ /\ s \notin admin[a].rows]]
  BY <1>1 DEF JoinTeam, TeamsInv, TypeOK
<1>3. member[admin[a].user][t] \in MemberRow
  BY <1>1 DEF TeamsInv, TypeOK
<1> QED
  BY <1>2, <1>3 DEF MemberRow

\* A user of one team gets another only by a move that another has overtaken, by
\* an update of a membership that had ended, or by the seed.
THEOREM SecondTeam == Spec => SecondTeamExplained
<1> DEFINE Explained(u) ==
      \/ OneTeam(u)'
      \/ \E a \in Admins : Overtaken(a, u) \/ Reopens(a, u)
      \/ Restart
<1>1. TeamsInv /\ [Next]_vars =>
        [\A u \in Users : OneTeam(u) => Explained(u)]_vars
  <2> SUFFICES ASSUME TeamsInv, Next, NEW u \in Users, OneTeam(u)
               PROVE  Explained(u)
    OBVIOUS
  <2>1. CASE member'[u] = member[u]
    BY <2>1 DEF OneTeam
  <2>2. CASE \E a \in Admins :
               JoinTeam(a) \/ UpdateTeamMember(a) \/ RemoveTeamMember(a)
    <3>1. PICK a \in Admins :
            JoinTeam(a) \/ UpdateTeamMember(a) \/ RemoveTeamMember(a)
      BY <2>2
    <3>2. CASE JoinTeam(a)
      <4>1. CASE admin[a].user # u
        BY <2>1, <3>2, <4>1 DEF JoinTeam, TeamsInv, TypeOK
      <4>2. CASE admin[a].user = u
        <5>1. SUFFICES ASSUME ~Overtaken(a, u) PROVE OneTeam(u)'
          OBVIOUS
        <5>2. admin[a].pc = "join"
          BY <3>2 DEF JoinTeam
        <5>3. \A t \in Teams : member'[u][t].enabled => t = admin[a].team
          BY <3>2, <4>2, <5>1, <5>2, MoveLeaves DEF Overtaken
        <5> QED
          BY <5>3 DEF OneTeam
      <4> QED
        BY <4>1, <4>2
    <3>3. CASE UpdateTeamMember(a) \/ RemoveTeamMember(a)
      <4>1. \E v \in Users : admin' = [admin EXCEPT ![a] = Invalidating({v})]
        BY <3>3 DEF UpdateTeamMember, RemoveTeamMember
      <4>2. admin[a].pc = "idle" /\ admin'[a].pc = "invalidate"
        <5>1. admin[a].pc = "idle"
          BY <3>3 DEF UpdateTeamMember, RemoveTeamMember
        <5>2. admin'[a].pc = "invalidate"
          BY <4>1 DEF Invalidating, IdleAdmin, TeamsInv, TypeOK
        <5> QED
          BY <5>1, <5>2
      <4>3. SUFFICES ASSUME ~Reopens(a, u) PROVE OneTeam(u)'
        OBVIOUS
      <4>4. \A t \in Teams : member'[u][t].enabled => member[u][t].enabled
        BY <4>2, <4>3 DEF Reopens
      <4> QED
        BY <4>4 DEF OneTeam
    <3> QED
      BY <3>1, <3>2, <3>3
  <2>3. CASE Restart
    BY <2>3
  <2> QED
    BY <2>1, <2>2, <2>3, AdminActions
       DEF Next, FindUser, LookupStep, UserMemberships, FillUserContext, Expire,
           CreateTeam, UpdateTeam, DisableTeam, UpdateUserGlobalRole,
           ReadMembers, BeginAddTeamMember, WriteFails, LeaveOtherTeams,
           Rollback, AnswerError, InvalidateUserContexts, database
<1> QED
  BY <1>1, TeamsInvariance, PTL DEF Spec, SecondTeamExplained

-----------------------------------------------------------------------------
(* Rights do not go stale unnoticed.                                       *)

\* A user whose role, memberships and teams a step leaves alone keeps the
\* rights a read answers.
LEMMA SameRights ==
  ASSUME NEW u \in Users, globalRole'[u] = globalRole[u],
         \/ UNCHANGED <<team, member>>
         \/ UNCHANGED team /\ member'[u] = member[u]
  PROVE  Rights(u)' = Rights(u)
  BY DEF Rights, UserContext, Active

\* Nor does a step make a copy stale that leaves the rights, the requests that
\* read and the cached user alone, or deletes the cached user.
LEMMA StaysSettled ==
  ASSUME NEW u \in Users, Settled(u), Rights(u)' = Rights(u),
         globalRole'[u] = globalRole[u], lookup' = lookup,
         contextCache'[u] \in {None, contextCache[u]}
  PROVE  Settled(u)'
  BY DEF Settled

\* A new team has no members.
LEMMA NewTeamSettles ==
  ASSUME TeamsInv, NEW a \in Admins, CreateTeam(a), NEW u \in Users, Settled(u)
  PROVE  Settled(u)'
<1>1. PICK t \in Teams, n \in Names :
        /\ Fresh(t)
        /\ team' = [team EXCEPT ![t] = [state |-> "enabled", name |-> n]]
  BY DEF CreateTeam
<1>2. UNCHANGED <<member, globalRole, contextCache, lookup>>
  BY DEF CreateTeam
<1>3. ~member[u][t].enabled
  BY <1>1 DEF Fresh, TeamsInv, NothingWithoutRow
<1>4. \A s \in Teams : s # t => team'[s] = team[s]
  BY <1>1 DEF TeamsInv, TypeOK
<1>5. Active(u)' = Active(u) /\ t \notin Active(u)
  BY <1>2, <1>3, <1>4 DEF Active
<1>6. {[team |-> s, role |-> member[u][s].role, name |-> team[s].name]
         : s \in Active(u)}' =
      {[team |-> s, role |-> member[u][s].role, name |-> team[s].name]
         : s \in Active(u)}
  BY <1>2, <1>4, <1>5 DEF Active
<1>7. Rights(u)' = Rights(u)
  BY <1>2, <1>6 DEF Rights, UserContext
<1> QED
  BY <1>2, <1>7, StaysSettled

\* A request that writes a member or a role invalidates the user it writes, and
\* leaves the others alone.
LEMMA WriterAnnounces ==
  ASSUME TeamsInv, NEW a \in Admins, NEW v \in Users,
         UNCHANGED <<team, contextCache, lookup>>,
         \A w \in Users \ {v} :
           member'[w] = member[w] /\ globalRole'[w] = globalRole[w],
         admin' = [admin EXCEPT ![a] = Invalidating({v})],
         NEW u \in Users, Settled(u)
  PROVE  Settled(u)' \/ Awaited(u)'
<1>1. CASE u = v
  <2>1. admin'[a].pc = "invalidate" /\ u \in admin'[a].targets
    BY <1>1 DEF Invalidating, IdleAdmin, TeamsInv, TypeOK
  <2> QED
    BY <2>1 DEF Awaited
<1>2. CASE u # v
  <2>1. member'[u] = member[u] /\ globalRole'[u] = globalRole[u]
    BY <1>2
  <2>2. Rights(u)' = Rights(u)
    BY <2>1, SameRights
  <2> QED
    BY <2>1, <2>2, StaysSettled
<1> QED
  BY <1>1, <1>2

\* A request that writes a team invalidates the members it has read.
LEMMA TeamWriterAnnounces ==
  ASSUME TeamsInv, NEW a \in Admins, UpdateTeam(a) \/ DisableTeam(a),
         NEW u \in Users
  PROVE  Awaited(u)' \/ WritesUnlisted(a, u) \/ admin'[a].pc = "failed"
<1>1. \/ admin' = [admin EXCEPT ![a] = Invalidating(admin[a].targets)]
      \/ admin' = [admin EXCEPT ![a].pc = "failed"]
  BY DEF UpdateTeam, DisableTeam
<1>2. CASE admin' = [admin EXCEPT ![a].pc = "failed"]
  BY <1>2 DEF TeamsInv, TypeOK, AdminState
<1>3. CASE admin' = [admin EXCEPT ![a] = Invalidating(admin[a].targets)]
  <2>1. admin[a].pc = "write" /\ admin[a].targets \subseteq Users
    BY DEF UpdateTeam, DisableTeam, TeamsInv, TypeOK, AdminState
  <2>2. admin'[a].pc = "invalidate" /\ admin'[a].targets = admin[a].targets
    BY <1>3, <2>1, InvalidatingType DEF TeamsInv, TypeOK
  <2> QED
    BY <2>1, <2>2 DEF Awaited, WritesUnlisted
<1> QED
  BY <1>1, <1>2, <1>3

\* A look-up copies what the database says, if it does not change meanwhile.
LEMMA LookupSettles ==
  ASSUME TeamsInv, NEW p \in Lookups, FindUser(p) \/ LookupStep(p),
         NEW u \in Users, Settled(u)
  PROVE  Settled(u)'
<1>1. UNCHANGED <<team, member, globalRole>>
  BY DEF FindUser, LookupStep, UserMemberships, FillUserContext, database
<1>2. Rights(u)' = Rights(u)
  BY <1>1, SameRights
<1> DEFINE Reads(q) == q.user = u =>
      /\ q.pc = "memberships" => q.global = globalRole[u]
      /\ q.pc = "fill" => q.context = Rights(u)
<1>3. /\ contextCache'[u] \in {None, Rights(u)}
      /\ \E q : lookup' = [lookup EXCEPT ![p] = q] /\ Reads(q)
  <2>1. CASE FindUser(p)
    <3>1. PICK v \in Users : lookup' = [lookup EXCEPT ![p] =
            [IdleLookup EXCEPT !.pc = "memberships", !.user = v,
                               !.global = globalRole[v]]]
      BY <2>1 DEF FindUser
    <3> DEFINE q == [IdleLookup EXCEPT !.pc = "memberships", !.user = v,
                                       !.global = globalRole[v]]
    <3>2. Reads(q)
      BY DEF IdleLookup
    <3>3. UNCHANGED contextCache
      BY <2>1 DEF FindUser
    <3> HIDE DEF q, Reads
    <3> QED
      BY <3>1, <3>2, <3>3 DEF Settled, q
  <2>2. CASE UserMemberships(p)
    <3> DEFINE c == UserContext(lookup[p].user, lookup[p].global)
               q == [lookup[p] EXCEPT !.pc = "fill", !.context = c]
    <3>1. /\ lookup[p] \in LookupState /\ lookup[p].pc = "memberships"
      BY <2>2 DEF UserMemberships, TeamsInv, TypeOK
    <3>2. lookup[p].user = u => c = Rights(u)
      BY <3>1 DEF Settled, Rights
    <3>3. Reads(q)
      <4> HIDE DEF c
      <4> QED
        BY <3>1, <3>2 DEF LookupState
    <3>4. Reads(IdleLookup)
      BY DEF IdleLookup
    <3>5. \/ lookup' = [lookup EXCEPT ![p] = q]
          \/ lookup' = [lookup EXCEPT ![p] = IdleLookup]
      <4> HIDE DEF c
      <4>1. \/ lookup' = [lookup EXCEPT ![p].pc = "fill", ![p].context = c]
            \/ lookup' = [lookup EXCEPT ![p] = IdleLookup]
        BY <2>2 DEF UserMemberships, c
      <4> QED
        BY <4>1 DEF TeamsInv, TypeOK
    <3>6. UNCHANGED contextCache
      BY <2>2 DEF UserMemberships
    <3> HIDE DEF q, Reads
    <3> QED
      BY <3>3, <3>4, <3>5, <3>6 DEF Settled
  <2>3. CASE FillUserContext(p)
    <3>1. lookup' = [lookup EXCEPT ![p] = IdleLookup]
      BY <2>3 DEF FillUserContext
    <3>2. Reads(IdleLookup)
      BY DEF IdleLookup
    <3>3. lookup[p].user = u => lookup[p].context = Rights(u)
      BY <2>3 DEF FillUserContext, Settled
    <3>4. contextCache'[u] \in {None, Rights(u)}
      BY <2>3, <3>3 DEF FillUserContext, Settled, TeamsInv, TypeOK
    <3> HIDE DEF Reads
    <3> QED
      BY <3>1, <3>2, <3>4
  <2> QED
    BY <2>1, <2>2, <2>3 DEF LookupStep
<1>4. PICK q : lookup' = [lookup EXCEPT ![p] = q] /\ Reads(q)
  BY <1>3
<1>5. \A r \in Lookups : Reads(lookup'[r])
  <2> TAKE r \in Lookups
  <2>1. Reads(lookup[r])
    BY DEF Settled
  <2>2. lookup'[r] = IF r = p THEN q ELSE lookup[r]
    BY <1>4 DEF TeamsInv, TypeOK
  <2> HIDE DEF Reads
  <2> QED
    BY <1>4, <2>1, <2>2
<1>6. globalRole'[u] = globalRole[u]
  BY <1>1
<1> QED
  BY <1>2, <1>3, <1>5, <1>6 DEF Settled

\* Of a user of whom no stale copy exists none comes up unless an invalidation
\* of the user is under way, a request has answered an error after writing, the
\* list of members a request read did not show the user, or the seed ran.
THEOREM StaleAnnounced == Spec => StaleOnlyAnnounced
<1> DEFINE Announced(u) ==
      \/ Settled(u)' \/ Awaited(u)'
      \/ \E a \in Admins : WritesUnlisted(a, u) \/ admin'[a].pc = "failed"
      \/ Restart
<1>1. TeamsInv /\ [Next]_vars =>
        [\A u \in Users : Settled(u) => Announced(u)]_vars
  <2> SUFFICES ASSUME TeamsInv, Next, NEW u \in Users, Settled(u)
               PROVE  Announced(u)
    OBVIOUS
  <2>1. CASE \E p \in Lookups : FindUser(p) \/ LookupStep(p)
    BY <2>1, LookupSettles
  <2>2. CASE \E a \in Admins : BeginRequest(a) \/ AdminStep(a)
    <3>1. PICK a \in Admins : BeginRequest(a) \/ AdminStep(a)
      BY <2>2
    <3>2. CASE CreateTeam(a)
      BY <3>2, NewTeamSettles
    <3>3. CASE UpdateTeam(a) \/ DisableTeam(a)
      BY <3>3, TeamWriterAnnounces
    <3>4. CASE JoinTeam(a) \/ UpdateTeamMember(a) \/ RemoveTeamMember(a)
      <4>1. PICK v \in Users, rows \in [Teams -> MemberRow] :
              /\ member' = [member EXCEPT ![v] = rows]
              /\ admin' = [admin EXCEPT ![a] = Invalidating({v})]
              /\ UNCHANGED <<team, globalRole, contextCache, lookup>>
        BY <3>4, MemberActions
      <4>2. \A w \in Users \ {v} : member'[w] = member[w]
        BY <4>1 DEF TeamsInv, TypeOK
      <4> QED
        BY <4>1, <4>2, WriterAnnounces
    <3>5. CASE UpdateUserGlobalRole(a)
      <4>1. PICK v \in Users, g \in {"", "admin"} :
              /\ globalRole' = [globalRole EXCEPT ![v] = g]
              /\ \/ admin' = [admin EXCEPT ![a] = Invalidating({v})]
                 \/ admin' = [admin EXCEPT ![a] =
                      [IdleAdmin EXCEPT !.pc = "failed"]]
        BY <3>5 DEF UpdateUserGlobalRole
      <4>2. UNCHANGED <<team, member, contextCache, lookup>>
        BY <3>5 DEF UpdateUserGlobalRole
      <4>3. \A w \in Users \ {v} : globalRole'[w] = globalRole[w]
        BY <4>1 DEF TeamsInv, TypeOK
      <4>4. CASE admin' = [admin EXCEPT ![a] = Invalidating({v})]
        BY <4>2, <4>3, <4>4, WriterAnnounces
      <4>5. CASE admin' = [admin EXCEPT ![a] = [IdleAdmin EXCEPT !.pc = "failed"]]
        BY <4>5 DEF IdleAdmin, TeamsInv, TypeOK
      <4> QED
        BY <4>1, <4>4, <4>5
    <3>6. CASE \/ ReadMembers(a) \/ BeginAddTeamMember(a) \/ WriteFails(a)
               \/ LeaveOtherTeams(a) \/ Rollback(a) \/ AnswerError(a)
               \/ InvalidateUserContexts(a)
      <4>1. UNCHANGED <<team, member, globalRole, lookup>>
        BY <3>6 DEF ReadMembers, BeginAddTeamMember, WriteFails,
                    LeaveOtherTeams, Rollback, AnswerError,
                    InvalidateUserContexts, database
      <4>2. contextCache'[u] \in {None, contextCache[u]}
        BY <3>6 DEF ReadMembers, BeginAddTeamMember, WriteFails,
                    LeaveOtherTeams, Rollback, AnswerError,
                    InvalidateUserContexts, TeamsInv, TypeOK
      <4>3. Rights(u)' = Rights(u)
        BY <4>1, SameRights
      <4> QED
        BY <4>1, <4>2, <4>3, StaysSettled
    <3> QED
      BY <3>1, <3>2, <3>3, <3>4, <3>5, <3>6, AdminActions
  <2>3. CASE \E v \in Users : Expire(v)
    <3>1. UNCHANGED <<team, member, globalRole, lookup>>
      BY <2>3 DEF Expire, database
    <3>2. contextCache'[u] \in {None, contextCache[u]}
      BY <2>3 DEF Expire, TeamsInv, TypeOK
    <3>3. Rights(u)' = Rights(u)
      BY <3>1, SameRights
    <3> QED
      BY <3>1, <3>2, <3>3, StaysSettled
  <2> QED
    BY <2>1, <2>2, <2>3 DEF Next
<1> QED
  BY <1>1, TeamsInvariance, PTL DEF Spec, StaleOnlyAnnounced
=============================================================================
