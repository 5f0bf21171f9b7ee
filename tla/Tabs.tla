-------------------------------- MODULE Tabs ---------------------------------
(***************************************************************************)
(* The tabs of the container: who publishes a tab to whom, and which tabs  *)
(* a user's list shows.                                                    *)
(*                                                                         *)
(* A row of tabs has an owner (none: a system tab) and a scope; the rows   *)
(* of tab_visibility_targets name the users and teams of scope "custom".   *)
(* A row of user_tabs says whether a user has the tab on; without one the  *)
(* tab's default decides.                                                  *)
(*                                                                         *)
(* A request reads and checks first (a query of its own) and writes then,  *)
(* in one transaction; other requests come in between.  Users, teams and   *)
(* permissions are constant.                                               *)
(***************************************************************************)
EXTENDS FiniteSets

CONSTANTS
  Users, Publishers,  \* accounts; those who may publish to others
  Teams, TeamsOf,     \* enabled teams; TeamsOf[u]: the teams of u
  Unknown,            \* ids that name no user and no team
  TabIDs, SystemTabs, \* ids of tabs; those of the tabs the seed creates
  Usable,             \* Usable[u]: system tabs whose permissions u has
  Routes, SystemRoute,
  Audiences,          \* sets of targets that a client may ask for
  SeedRows,           \* the user_tabs of the seed: pairs <<user, tab>>
  Requests,           \* requests, one after the other each
  RepoFaults,         \* whether a database call may fail
  None                \* the empty owner, user, tab or visibility

Scopes == {"self", "company", "custom"}
Targets == Users \cup Teams \cup Unknown
Sources == {"self", "admin_publish", "user_add", "user_disabled"}

ASSUME TabsAssumption ==
  /\ Publishers \subseteq Users
  /\ TeamsOf \in [Users -> SUBSET Teams]
  /\ SystemTabs \subseteq TabIDs
  /\ Usable \in [Users -> SUBSET SystemTabs]
  /\ SystemRoute \in Routes
  /\ Audiences \subseteq (SUBSET Targets) \ {{}}
  /\ SeedRows \subseteq Users \X SystemTabs
  /\ Users \cap Teams = {}
  /\ Unknown \cap (Users \cup Teams) = {}
  /\ RepoFaults \in BOOLEAN
  /\ None \notin Users \cup TabIDs

VARIABLES
  tabs,     \* tabs[t]: the row of a tab, or NoTab
  targets,  \* targets[t]: the rows of tab_visibility_targets
  rows,     \* rows[u][t]: the row of user_tabs, or NoRow
  request   \* request[r]: the local state of a request

vars == <<tabs, targets, rows, request>>

Tab == [owner : Users \cup {None}, scope : Scopes, byDefault : BOOLEAN,
        route : Routes]
NoTab == [owner |-> None, scope |-> "none", byDefault |-> FALSE,
          route |-> None]
UserTab == [enabled : BOOLEAN, source : Sources]
NoRow == [enabled |-> FALSE, source |-> "none"]

\* normalizeTabVisibility: only "custom" has targets, and it has some.
Visibility ==
  [scope : {"self", "company"}, targets : {{}}, byDefault : BOOLEAN]
  \cup [scope : {"custom"}, targets : Audiences, byDefault : BOOLEAN]
NoVisibility == [scope |-> "none", targets |-> {}, byDefault |-> FALSE]

RequestState ==
  [pc : {"idle", "enable", "disable", "create", "save", "delete"},
   user : Users \cup {None}, tab : TabIDs \cup {None},
   copy : Tab \cup {NoTab}, visibility : Visibility \cup {NoVisibility}]

Idle == [pc |-> "idle", user |-> None, tab |-> None, copy |-> NoTab,
         visibility |-> NoVisibility]

TypeOK ==
  /\ tabs \in [TabIDs -> Tab \cup {NoTab}]
  /\ targets \in [TabIDs -> SUBSET Targets]
  /\ rows \in [Users -> [TabIDs -> UserTab \cup {NoRow}]]
  /\ request \in [Requests -> RequestState]
  /\ \A t \in TabIDs : tabs[t].owner = None <=>
                        t \in SystemTabs \/ tabs[t] = NoTab

\* The seed has run on an empty database.
Init ==
  /\ tabs = [t \in TabIDs |->
       IF t \in SystemTabs
       THEN [owner |-> None, scope |-> "company", byDefault |-> TRUE,
             route |-> SystemRoute]
       ELSE NoTab]
  /\ targets = [t \in TabIDs |-> {}]
  /\ rows = [u \in Users |-> [t \in TabIDs |->
       IF <<u, t>> \in SeedRows
       THEN [enabled |-> TRUE, source |-> "self"] ELSE NoRow]]
  /\ request = [r \in Requests |-> Idle]

-----------------------------------------------------------------------------
(* What a user sees.                                                       *)

\* visibleTabQuery.  The targets count whatever the scope is.
Visible(u, t) ==
  /\ tabs[t] # NoTab
  /\ \/ t \in SystemTabs
     \/ tabs[t].owner = u
     \/ tabs[t].scope = "company"
     \/ ({u} \cup TeamsOf[u]) \cap targets[t] # {}

\* ListByUser: a row decides, or else the default.
Listed(u, t) ==
  /\ Visible(u, t)
  /\ IF rows[u][t] = NoRow THEN tabs[t].byDefault ELSE rows[u][t].enabled

CanUseTab(u, t) == t \in SystemTabs => t \in Usable[u]

CanPublishTabVisibility(u, v) == v.scope = "self" \/ u \in Publishers

RouteExistsForUser(u, route) ==
  \E t \in TabIDs : /\ tabs[t] # NoTab
                    /\ tabs[t].route = route
                    /\ t \in SystemTabs \/ tabs[t].owner = u

-----------------------------------------------------------------------------
(* What a publication writes.                                              *)

\* GORM's Create gives a zero value the default of its column.
Inserted(value, default) == IF value = FALSE THEN default ELSE value

\* resolveTargetUserIDs refuses targets that do not exist.
ValidTargets(v) == v.targets \cap Unknown = {}

TargetUsers(owner, v) ==
  {owner} \cup
  {u \in Users : \/ v.scope = "company"
                 \/ v.scope = "custom"
                    /\ ({u} \cup TeamsOf[u]) \cap v.targets # {}}

\* Faulty: the teams are left out of the targets stored.
StoredUsers(v) == v.targets \cap Users

\* replaceVisibilityTargets.
StoredTargets(v) == v.targets

\* upsertUserTabs for the users a tab is published to, tombstones or not.
Published(t, owner, v) ==
  IF ~v.byDefault THEN rows
  ELSE [u \in Users |->
          IF u \in TargetUsers(owner, v)
          THEN [rows[u] EXCEPT ![t] =
                  [enabled |-> TRUE,
                   source |-> IF v.scope = "self" THEN "self"
                                                  ELSE "admin_publish"]]
          ELSE rows[u]]

-----------------------------------------------------------------------------
(* Requests, their first step: read and check.                             *)

Begins(r, pc, u, t, copy, v) ==
  /\ request[r].pc = "idle"
  /\ request' = [request EXCEPT ![r] =
       [pc |-> pc, user |-> u, tab |-> t, copy |-> copy, visibility |-> v]]
  /\ UNCHANGED <<tabs, targets, rows>>

EnableTab(r) ==
  \E u \in Users, t \in TabIDs :
    /\ Visible(u, t)
    /\ CanUseTab(u, t)
    /\ Begins(r, "enable", u, t, NoTab, NoVisibility)

\* Any tab that exists may be switched off.
DisableTab(r) ==
  \E u \in Users, t \in TabIDs :
    /\ tabs[t] # NoTab
    /\ Begins(r, "disable", u, t, NoTab, NoVisibility)

CreateCustomTab(r) ==
  \E u \in Users, t \in TabIDs, route \in Routes, v \in Visibility :
    /\ ~RouteExistsForUser(u, route)
    /\ CanPublishTabVisibility(u, v)
    /\ Begins(r, "create", u, t,
              [owner |-> u, scope |-> v.scope, byDefault |-> v.byDefault,
               route |-> route], v)

\* Faulty: what the request leaves out is overwritten all the same.
Overwritten(tab, v) ==
  [tab EXCEPT !.scope = v.scope, !.byDefault = v.byDefault]

\* An update may leave the visibility as it is (NoVisibility).
Changed(tab, v) ==
  IF v = NoVisibility THEN tab
  ELSE [tab EXCEPT !.scope = v.scope, !.byDefault = v.byDefault]

\* Faulty: the right to publish is asked of the scope the tab has.
UpdateWithOldScope(r) ==
  \E u \in Users, t \in TabIDs, v \in Visibility \cup {NoVisibility} :
    /\ tabs[t].owner = u
    /\ v # NoVisibility => CanPublishTabVisibility(u, tabs[t])
    /\ Begins(r, "save", u, t, Changed(tabs[t], v), v)

\* Faulty: whoever sees the tab may change it.
UpdateVisibleTab(r) ==
  \E u \in Users, t \in TabIDs \ SystemTabs,
     v \in Visibility \cup {NoVisibility} :
    /\ Visible(u, t)
    /\ v # NoVisibility => CanPublishTabVisibility(u, v)
    /\ Begins(r, "save", u, t, Changed(tabs[t], v), v)

UpdateCustomTab(r) ==
  \E u \in Users, t \in TabIDs, v \in Visibility \cup {NoVisibility} :
    /\ tabs[t].owner = u
    /\ v # NoVisibility => CanPublishTabVisibility(u, v)
    /\ Begins(r, "save", u, t, Changed(tabs[t], v), v)

DeleteCustomTab(r) ==
  \E u \in Users, t \in TabIDs :
    /\ tabs[t].owner = u
    /\ Begins(r, "delete", u, t, NoTab, NoVisibility)

-----------------------------------------------------------------------------
(* Their second step: the write.                                           *)

Ends(r) == request' = [request EXCEPT ![r] = Idle]

\* Upsert of the row.
Enable(r) ==
  /\ request[r].pc = "enable"
  /\ rows' = [rows EXCEPT ![request[r].user][request[r].tab] =
       [enabled |-> TRUE, source |-> "user_add"]]
  /\ Ends(r)
  /\ UNCHANGED <<tabs, targets>>

\* The same with FALSE, for which the column's default is written.
Disable(r) ==
  /\ request[r].pc = "disable"
  /\ rows' = [rows EXCEPT ![request[r].user][request[r].tab] =
       [enabled |-> Inserted(FALSE, TRUE), source |-> "user_disabled"]]
  /\ Ends(r)
  /\ UNCHANGED <<tabs, targets>>

\* A transaction of CreateCustom or UpdateCustom writes the tab and, when v is
\* a visibility, its targets and the rows of the users it is for.
Writes(r, tab) ==
  LET t == request[r].tab
      v == request[r].visibility IN
  /\ tabs' = [tabs EXCEPT ![t] = tab]
  /\ targets' = IF v = NoVisibility THEN targets
                ELSE [targets EXCEPT ![t] = StoredTargets(v)]
  /\ rows' = Published(t, request[r].user, v)

Refused(v) == v.byDefault /\ ~ValidTargets(v)

\* CreateCustom: the id is taken, or a target does not exist, or it is written.
CreateCustom(r) ==
  /\ request[r].pc = "create"
  /\ IF tabs[request[r].tab] # NoTab \/ Refused(request[r].visibility)
     THEN UNCHANGED <<tabs, targets, rows>>
     ELSE Writes(r, [request[r].copy EXCEPT !.byDefault = Inserted(@, TRUE)])
  /\ Ends(r)

\* UpdateCustom: Save writes the whole row, as it was read but for the changes,
\* and inserts it if it is gone.
UpdateCustom(r) ==
  /\ request[r].pc = "save"
  /\ IF Refused(request[r].visibility)
     THEN UNCHANGED <<tabs, targets, rows>>
     ELSE IF tabs[request[r].tab] = NoTab
     THEN Writes(r, [request[r].copy EXCEPT !.byDefault = Inserted(@, TRUE)])
     ELSE Writes(r, request[r].copy)
  /\ Ends(r)

DeleteCustom(r) ==
  /\ request[r].pc = "delete"
  /\ tabs' = [tabs EXCEPT ![request[r].tab] = NoTab]
  /\ targets' = [targets EXCEPT ![request[r].tab] = {}]
  /\ rows' = [u \in Users |-> [rows[u] EXCEPT ![request[r].tab] = NoRow]]
  /\ Ends(r)

\* A call fails; the transaction is rolled back.
RepositoryFails(r) ==
  /\ RepoFaults
  /\ request[r].pc # "idle"
  /\ Ends(r)
  /\ UNCHANGED <<tabs, targets, rows>>

-----------------------------------------------------------------------------
Begin(r) ==
  \/ EnableTab(r) \/ DisableTab(r) \/ CreateCustomTab(r)
  \/ UpdateCustomTab(r) \/ DeleteCustomTab(r)

Write(r) ==
  \/ Enable(r) \/ Disable(r) \/ CreateCustom(r)
  \/ UpdateCustom(r) \/ DeleteCustom(r) \/ RepositoryFails(r)

Next == \E r \in Requests : Begin(r) \/ Write(r)

Spec == Init /\ [][Next]_vars

-----------------------------------------------------------------------------
(* Properties.                                                             *)

\* A tab that is meant for others than its owner is a system tab or belongs to
\* a user who may publish, whatever updates, deletions and creations of the
\* same id have come between the check and the write.
PublishersOnly ==
  \A t \in TabIDs :
    tabs[t].owner # None /\ tabs[t].scope # "self"
    => tabs[t].owner \in Publishers

\* The tab has an owner, and only the owner's changes of it are under way.
Kept(t) ==
  /\ tabs[t].owner \in Users
  /\ \A r \in Requests :
       request[r].pc \in {"save", "delete"} /\ request[r].tab = t
       => request[r].user = tabs[t].owner

\* Such a tab and its targets change only by a request of the owner, and stay
\* the owner's: the check of UpdateCustom and DeleteCustom is made before
\* their transaction (postgres_tab_repository.go:196 and 257).
OwnersDecide ==
  [][\A t \in TabIDs : Kept(t) =>
       /\ \/ Kept(t)' /\ tabs'[t].owner = tabs[t].owner
          \/ tabs'[t] = NoTab
       /\ <<tabs[t], targets[t]>>' # <<tabs[t], targets[t]>>
          => \E r \in Requests : /\ request[r].user = tabs[t].owner
                                 /\ request[r].pc \in {"save", "delete"}
                                 /\ request[r].tab = t
                                 /\ request'[r] = Idle]_vars

\* A row of a user's workspace changes by the user's own request, by deletion of
\* the tab, or by a publisher, who turns the tab on for users that see it:
\* resolveTargetUserIDs and visibleTabQuery agree on who that is.
RowsByUserOrPublisher ==
  [][\A u \in Users, t \in TabIDs : rows'[u][t] # rows[u][t] =>
       \E r \in Requests :
         /\ request[r].tab = t /\ request'[r] = Idle
         /\ \/ request[r].user = u
            \/ request[r].pc = "delete" /\ rows'[u][t] = NoRow
            \/ /\ request[r].user \in Publishers
               /\ rows'[u][t].enabled
               /\ Visible(u, t)']_vars

\* SERVER_DEFENSE_HIGHLIGHTS.md:425: a tab that a user has switched off is not
\* shown again by default.
DisabledStaysHidden ==
  \A u \in Users, t \in TabIDs :
    rows[u][t].source = "user_disabled" => ~Listed(u, t)
=============================================================================
