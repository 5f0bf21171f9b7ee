--------------------------- MODULE BusinessRecords ---------------------------
(***************************************************************************)
(* Approvals, calendar events and announcements: who may change them, and  *)
(* what concurrent changes do.                                             *)
(*                                                                         *)
(* A request that changes a record is authorised by the service on a first *)
(* read of it (FindApprovalItem, FindCalendarEvent, FindAnnouncement); the *)
(* repository then reads the row again (First) and writes all its columns  *)
(* back (Save), or deletes it.  No condition ties the three together, so   *)
(* other requests may come between any two of them.                        *)
(*                                                                         *)
(* Users, their roles and permissions are constant: a request works with   *)
(* the user its middleware found (AuthCache says how stale that may be).   *)
(***************************************************************************)
EXTENDS FiniteSets

CONSTANTS
  Users, Admins,    \* accounts, and those whose global role is admin
  Teams,            \* enabled teams
  TeamRole,         \* TeamRole[u][t]: u's role in t, or "none"
  CurrentTeam,      \* CurrentTeam[u]: u's first team, or None
  Permissions,      \* Permissions[u]: the permission codes u has
  ApprovalIDs, EventIDs, AnnouncementIDs,
  SeedApproval, SeedEvent, SeedAnnouncement,  \* the rows of the seed, by id
  Requests,         \* requests that change a record, one after the other each
  RepoFaults,       \* whether a database call may fail
  Restarts,         \* whether the server restarts, running the seed
  None              \* the empty string as team, visibility, user or id

Statuses     == {"pending", "approved", "rejected", "cancelled"}
Visibilities == {"team", "company"}

\* What a request may say: a stored value, nothing, or a text that trimming
\* changes: white space only, and "company" with white space around it.
Blank         == "blank"
PaddedCompany == "paddedCompany"
Asked         == Visibilities \cup {None, Blank, PaddedCompany}
AskedTeams    == Teams \cup {None, Blank}
RecordIDs    == ApprovalIDs \cup EventIDs \cup AnnouncementIDs

Approval == [status : Statuses, applicant : Users, team : Teams]
Event    == [row : {"stored"}, visibility : Visibilities,
             team : Teams \cup {None}]
Announcement == [row : {"stored"}, scope : Visibilities,
                 team : Teams \cup {None}]

ASSUME RecordsAssumption ==
  /\ Admins \subseteq Users
  /\ TeamRole \in [Users -> [Teams -> {"none", "employee", "manager"}]]
  /\ CurrentTeam \in [Users -> Teams \cup {None}]
  /\ ApprovalIDs \cap EventIDs = {}
  /\ ApprovalIDs \cap AnnouncementIDs = {}
  /\ EventIDs \cap AnnouncementIDs = {}
  /\ DOMAIN SeedApproval \subseteq ApprovalIDs
  /\ SeedApproval \in [DOMAIN SeedApproval -> Approval]
  /\ DOMAIN SeedEvent \subseteq EventIDs
  /\ SeedEvent \in [DOMAIN SeedEvent -> Event]
  /\ DOMAIN SeedAnnouncement \subseteq AnnouncementIDs
  /\ SeedAnnouncement \in [DOMAIN SeedAnnouncement -> Announcement]
  /\ {RepoFaults, Restarts} \subseteq BOOLEAN
  /\ None \notin Users \cup Teams \cup RecordIDs \cup Visibilities
  /\ {Blank, PaddedCompany} \cap (Teams \cup {None}) = {}

VARIABLES
  approvals,      \* approvals[i]: a row of approval_items, or NoApproval
  events,         \* events[e]: a row of calendar_events, or NoEvent, GoneEvent
  announcements,  \* announcements[n]: a row of announcements, or none yet
  request         \* request[r]: the local state of a request

vars == <<approvals, events, announcements, request>>

NoApproval     == [status |-> "none", applicant |-> None, team |-> None]
NoEvent        == [row |-> "unused", visibility |-> None, team |-> None]
GoneEvent      == [NoEvent EXCEPT !.row = "deleted"]
NoAnnouncement == [row |-> "unused", scope |-> None, team |-> None]

\* What a request asks for; the first three are the statuses it writes.
Operations == {"approved", "rejected", "cancelled",
               "editEvent", "deleteEvent",
               "editAnnouncement", "deleteAnnouncement"}

\* load: authorised, before First; save: First has found the row (copy).
RequestState ==
  [pc : {"idle", "load", "save"}, op : Operations \cup {None},
   user : Users \cup {None}, id : RecordIDs \cup {None},
   team : AskedTeams, visibility : Asked,
   copy : Event \cup {NoEvent}]

Idle == [pc |-> "idle", op |-> None, user |-> None, id |-> None,
         team |-> None, visibility |-> None, copy |-> NoEvent]

TypeOK ==
  /\ approvals \in [ApprovalIDs -> Approval \cup {NoApproval}]
  /\ events \in [EventIDs -> Event \cup {NoEvent, GoneEvent}]
  /\ announcements \in [AnnouncementIDs ->
       [row : {"stored", "deleted"}, scope : Visibilities,
        team : Teams \cup {None}] \cup {NoAnnouncement}]
  /\ request \in [Requests -> RequestState]

\* The seed has run on an empty database.
Init ==
  /\ approvals = [i \in ApprovalIDs |->
       IF i \in DOMAIN SeedApproval THEN SeedApproval[i] ELSE NoApproval]
  /\ events = [e \in EventIDs |->
       IF e \in DOMAIN SeedEvent THEN SeedEvent[e] ELSE NoEvent]
  /\ announcements = [n \in AnnouncementIDs |->
       IF n \in DOMAIN SeedAnnouncement THEN SeedAnnouncement[n]
                                        ELSE NoAnnouncement]
  /\ request = [r \in Requests |-> Idle]

-----------------------------------------------------------------------------
(* Policies.                                                               *)

HasAny(u, codes) == Permissions[u] \cap codes # {}
IsAdmin(u) == u \in Admins
InTeam(u, t) == t # None /\ TeamRole[u][t] # "none"
IsManager(u, t) == t # None /\ TeamRole[u][t] = "manager"

CanCreateApproval(u, t) == IsAdmin(u) \/ InTeam(u, t)
CanApproveTeamApproval(u, t) == IsAdmin(u) \/ IsManager(u, t)
CanCancelApproval(u, applicant) == u = applicant
CanManageCalendar(u, t) == IsAdmin(u) \/ IsManager(u, t)
CanWriteAnnouncement(u, scope, t) ==
  IsAdmin(u) \/ (scope # "company" /\ IsManager(u, t))
CanManageAnnouncement(u, t) == IsAdmin(u) \/ IsManager(u, t)

\* The service's defaultValue and targetTeamID: an absent value is replaced, any
\* other is taken as it was sent.
Default(value, fallback) == IF value = None THEN fallback ELSE value

\* strings.TrimSpace.
Trimmed(value) ==
  CASE value = Blank         -> None
    [] value = PaddedCompany -> "company"
    [] OTHER                 -> value

\* The repository's valueOrDefault, which trims: it comes after the checks.
ValueOrDefault(value, fallback) == Default(Trimmed(value), fallback)

-----------------------------------------------------------------------------
(* Creation: checks that read no record, then one insert.                  *)

\* Faulty: the team asked for is taken as it is.
AnyTeam(t) == {t}

\* resolveApprovalTeamAndManager: the team of an approval has a manager;
\* without a team, that of any manager is taken.
ApprovalTeams(t) ==
  {m \in IF t = None THEN Teams ELSE {t} : \E u \in Users : IsManager(u, m)}

CreateApproval ==
  /\ \E u \in Users, t \in Teams \cup {None}, i \in ApprovalIDs :
       LET target == Default(t, CurrentTeam[u]) IN
       /\ HasAny(u, {"tab.approval.create"})
       /\ CanCreateApproval(u, target)
       /\ approvals[i] = NoApproval
       /\ \E team \in ApprovalTeams(target) :
            approvals' = [approvals EXCEPT ![i] =
              [status |-> "pending", applicant |-> u, team |-> team]]
  /\ UNCHANGED <<events, announcements, request>>

CreateCalendarEvent ==
  /\ \E u \in Users, t \in Teams \cup {None}, e \in EventIDs,
        v \in Asked :
       LET team == Default(t, CurrentTeam[u])
           visibility == Default(v, "team") IN
       /\ HasAny(u, {"tab.calendar.create", "tab.calendar.manage",
                     "tab.calendar.all"})
       /\ \/ visibility = "company" /\ IsAdmin(u)
          \/ visibility # "company" /\ CanManageCalendar(u, team)
       /\ events[e] = NoEvent
       /\ events' = [events EXCEPT ![e] =
            [row |-> "stored", team |-> team,
             visibility |-> ValueOrDefault(visibility, "team")]]
  /\ UNCHANGED <<approvals, announcements, request>>

CreateAnnouncement ==
  /\ \E u \in Users, t \in Teams \cup {None}, n \in AnnouncementIDs,
        s \in Asked :
       LET team == Default(t, CurrentTeam[u])
           scope == Default(s, "team") IN
       /\ HasAny(u, {"tab.announcement.write"})
       /\ CanWriteAnnouncement(u, scope, team)
       /\ announcements[n] = NoAnnouncement
       /\ announcements' = [announcements EXCEPT ![n] =
            [row |-> "stored", team |-> team,
             scope |-> ValueOrDefault(scope, "team")]]
  /\ UNCHANGED <<approvals, events, request>>

-----------------------------------------------------------------------------
(* The service authorises a change of a record it finds.  That the user can *)
(* see the record follows from being allowed to change it.                  *)

Authorised(r, u, op, id) ==
  [Idle EXCEPT !.pc = "load", !.op = op, !.user = u, !.id = id]

\* ApproveItem, RejectItem: updateApprovalStatus.
Decide(r) ==
  /\ request[r].pc = "idle"
  /\ \E u \in Users, i \in ApprovalIDs, status \in {"approved", "rejected"} :
       /\ HasAny(u, {"tab.approval.approve", "tab.approval.all"})
       /\ approvals[i].status = "pending"
       /\ CanApproveTeamApproval(u, approvals[i].team)
       /\ request' = [request EXCEPT ![r] = Authorised(r, u, status, i)]
  /\ UNCHANGED <<approvals, events, announcements>>

\* Faulty: an approval that was decided may be withdrawn.
CancelAny(r) ==
  /\ request[r].pc = "idle"
  /\ \E u \in Users, i \in ApprovalIDs :
       /\ HasAny(u, {"tab.approval.create"})
       /\ approvals[i] # NoApproval
       /\ CanCancelApproval(u, approvals[i].applicant)
       /\ request' = [request EXCEPT ![r] = Authorised(r, u, "cancelled", i)]
  /\ UNCHANGED <<approvals, events, announcements>>

CancelApprovalItem(r) ==
  /\ request[r].pc = "idle"
  /\ \E u \in Users, i \in ApprovalIDs :
       /\ HasAny(u, {"tab.approval.create"})
       /\ approvals[i].status = "pending"
       /\ CanCancelApproval(u, approvals[i].applicant)
       /\ request' = [request EXCEPT ![r] = Authorised(r, u, "cancelled", i)]
  /\ UNCHANGED <<approvals, events, announcements>>

\* Faulty: the visibility is checked before its default is filled in.
EditRequestedVisibility(r) ==
  /\ request[r].pc = "idle"
  /\ \E u \in Users, e \in EventIDs, t \in AskedTeams, v \in Asked :
       /\ HasAny(u, {"tab.calendar.manage", "tab.calendar.all"})
       /\ events[e].row = "stored"
       /\ CanManageCalendar(u, events[e].team)
       /\ v = "company" => IsAdmin(u)
       /\ request' = [request EXCEPT ![r] =
            [Authorised(r, u, "editEvent", e) EXCEPT
               !.team = Default(t, events[e].team),
               !.visibility = Default(v, events[e].visibility)]]
  /\ UNCHANGED <<approvals, events, announcements>>

\* The user manages the team the event has; the team it gets is not checked, and
\* its visibility is compared with "company" as it was sent.
UpdateCalendarEvent(r) ==
  /\ request[r].pc = "idle"
  /\ \E u \in Users, e \in EventIDs, t \in AskedTeams, v \in Asked :
       LET visibility == Default(v, events[e].visibility) IN
       /\ HasAny(u, {"tab.calendar.manage", "tab.calendar.all"})
       /\ events[e].row = "stored"
       /\ CanManageCalendar(u, events[e].team)
       /\ visibility = "company" => IsAdmin(u)
       /\ request' = [request EXCEPT ![r] =
            [Authorised(r, u, "editEvent", e) EXCEPT
               !.team = Default(t, events[e].team),
               !.visibility = visibility]]
  /\ UNCHANGED <<approvals, events, announcements>>

DeleteCalendarEvent(r) ==
  /\ request[r].pc = "idle"
  /\ \E u \in Users, e \in EventIDs :
       /\ HasAny(u, {"tab.calendar.manage", "tab.calendar.all"})
       /\ events[e].row = "stored"
       /\ CanManageCalendar(u, events[e].team)
       /\ request' = [request EXCEPT ![r] = Authorised(r, u, "deleteEvent", e)]
  /\ UNCHANGED <<approvals, events, announcements>>

\* UpdateAnnouncement and DeleteAnnouncement.
ManageAnnouncement(r) ==
  /\ request[r].pc = "idle"
  /\ \E u \in Users, n \in AnnouncementIDs,
        op \in {"editAnnouncement", "deleteAnnouncement"} :
       /\ HasAny(u, {"tab.announcement.write"})
       /\ announcements[n].row = "stored"
       /\ CanManageAnnouncement(u, announcements[n].team)
       /\ request' = [request EXCEPT ![r] = Authorised(r, u, op, n)]
  /\ UNCHANGED <<approvals, events, announcements>>

-----------------------------------------------------------------------------
(* The repository: First, then Save or Delete.                             *)

Ends(r) == request' = [request EXCEPT ![r] = Idle]

\* First finds an approval whatever its status, ...
LoadApproval(r) ==
  /\ request[r].pc = "load" /\ request[r].id \in ApprovalIDs
  /\ request' = [request EXCEPT ![r].pc = "save"]
  /\ UNCHANGED <<approvals, events, announcements>>

\* ... an event that is still there, ...
LoadEvent(r) ==
  /\ request[r].pc = "load" /\ request[r].id \in EventIDs
  /\ LET e == events[request[r].id] IN
       IF e.row = "stored"
       THEN request' = [request EXCEPT ![r].pc = "save", ![r].copy = e]
       ELSE Ends(r)
  /\ UNCHANGED <<approvals, events, announcements>>

\* Faulty: the announcement is found by its id alone.
LoadAnyAnnouncement(r) ==
  /\ request[r].pc = "load" /\ request[r].id \in AnnouncementIDs
  /\ request' = [request EXCEPT ![r].pc = "save"]
  /\ UNCHANGED <<approvals, events, announcements>>

\* ... an announcement that is not deleted.
LoadAnnouncement(r) ==
  /\ request[r].pc = "load" /\ request[r].id \in AnnouncementIDs
  /\ IF announcements[request[r].id].row = "stored"
     THEN request' = [request EXCEPT ![r].pc = "save"]
     ELSE Ends(r)
  /\ UNCHANGED <<approvals, events, announcements>>

\* Save writes every column, without a condition on the row.
UpdateApprovalStatus(r) ==
  /\ request[r].pc = "save" /\ request[r].id \in ApprovalIDs
  /\ approvals' = [approvals EXCEPT ![request[r].id].status = request[r].op]
  /\ Ends(r)
  /\ UNCHANGED <<events, announcements>>

\* What is blank is filled in from the row that First has found.  Save of a row
\* that is gone meanwhile inserts it again.
SaveEvent(r) ==
  /\ request[r].pc = "save" /\ request[r].op = "editEvent"
  /\ events' = [events EXCEPT ![request[r].id] =
       [row |-> "stored",
        visibility |-> ValueOrDefault(request[r].visibility,
                                      request[r].copy.visibility),
        team |-> ValueOrDefault(request[r].team, request[r].copy.team)]]
  /\ Ends(r)
  /\ UNCHANGED <<approvals, announcements>>

DeleteEventRow(r) ==
  /\ request[r].pc = "save" /\ request[r].op = "deleteEvent"
  /\ events' = [events EXCEPT ![request[r].id] = GoneEvent]
  /\ Ends(r)
  /\ UNCHANGED <<approvals, announcements>>

\* An update writes deleted_at as it was read, NULL; a deletion sets it.
SaveAnnouncement(r) ==
  /\ request[r].pc = "save" /\ request[r].id \in AnnouncementIDs
  /\ announcements' = [announcements EXCEPT ![request[r].id].row =
       IF request[r].op = "editAnnouncement" THEN "stored" ELSE "deleted"]
  /\ Ends(r)
  /\ UNCHANGED <<approvals, events>>

\* A call fails; the request answers the error, nothing is written.
RepositoryFails(r) ==
  /\ RepoFaults
  /\ request[r].pc # "idle"
  /\ Ends(r)
  /\ UNCHANGED <<approvals, events, announcements>>

-----------------------------------------------------------------------------
\* The server stops with its requests and starts again.  The seed assigns its
\* rows' non-empty columns to the rows that exist and creates those that do
\* not; a deleted announcement is still a row.
Restart ==
  /\ Restarts
  /\ approvals' = [i \in ApprovalIDs |->
       IF i \in DOMAIN SeedApproval THEN SeedApproval[i] ELSE approvals[i]]
  /\ events' = [e \in EventIDs |->
       IF e \in DOMAIN SeedEvent
       THEN [SeedEvent[e] EXCEPT !.team = Default(@, events[e].team)]
       ELSE events[e]]
  /\ announcements' = [n \in AnnouncementIDs |->
       IF n \in DOMAIN SeedAnnouncement
       THEN [SeedAnnouncement[n] EXCEPT !.row = announcements[n].row]
       ELSE announcements[n]]
  /\ request' = [r \in Requests |-> Idle]

Authorise(r) ==
  \/ Decide(r) \/ CancelApprovalItem(r)
  \/ UpdateCalendarEvent(r) \/ DeleteCalendarEvent(r)
  \/ ManageAnnouncement(r)

RepositoryStep(r) ==
  \/ LoadApproval(r) \/ LoadEvent(r) \/ LoadAnnouncement(r)
  \/ UpdateApprovalStatus(r) \/ SaveEvent(r) \/ DeleteEventRow(r)
  \/ SaveAnnouncement(r) \/ RepositoryFails(r)

Next ==
  \/ CreateApproval \/ CreateCalendarEvent \/ CreateAnnouncement
  \/ \E r \in Requests : Authorise(r) \/ RepositoryStep(r)
  \/ Restart

Spec == Init /\ [][Next]_vars

-----------------------------------------------------------------------------
(* Properties.                                                             *)

\* A decision that no request authorised before it can overwrite any more.
Settled(i) ==
  /\ approvals[i].status \in Statuses \ {"pending"}
  /\ \A r \in Requests : request[r].id # i

\* A settled decision is final: requests on "pending" records only
\* (business_service.go:88) leave one hole, the time between that check and
\* Save.  A restart changes the seed's approvals, and no other.
SettledForGood ==
  [][\A i \in ApprovalIDs :
       Settled(i) /\ ~(Restart /\ i \in DOMAIN SeedApproval)
       => Settled(i)' /\ approvals'[i] = approvals[i]]_vars

\* The step is request r's write of the record.
Writes(r, id) ==
  request[r].pc = "save" /\ request[r].id = id /\ request'[r] = Idle

\* A request of anybody else that saves an event as the company's: one that the
\* check (business_service.go:185) took for another visibility, as it was not
\* trimmed yet, or a blank one that keeps what First has found.
Untrimmed(q) ==
  \/ q.visibility = PaddedCompany
  \/ q.visibility = Blank /\ q.copy.visibility = "company"

\* An event that the whole company does not see comes to be seen by it only
\* through an administrator, by a text not trimmed when it was checked, or from
\* the seed: a visibility that was sent as it is stored, or left to its default,
\* is the one checked, whatever other requests have changed since.
CompanyExplained ==
  [][\A e \in EventIDs :
       /\ events[e].row # "unused"
       /\ events[e].visibility # "company"
       /\ events'[e].visibility = "company"
       => \/ \E r \in Requests :
                /\ Writes(r, e)
                /\ IsAdmin(request[r].user) \/ Untrimmed(request[r])
          \/ Restart /\ e \in DOMAIN SeedEvent]_vars

\* Deleted, and no update has loaded the record and will write it back.
Gone(x) ==
  /\ \/ x \in EventIDs /\ events[x].row = "deleted"
     \/ x \in AnnouncementIDs /\ announcements[x].row = "deleted"
  /\ \A r \in Requests :
       request[r].pc = "save" /\ request[r].id = x
       => request[r].op \notin {"editEvent", "editAnnouncement"}

\* What is gone comes back only if it is an event of the seed, by a restart: an
\* update authorised before the deletion writes only what First still found
\* (postgres_business_repository.go:180 and 272).
GoneForGood ==
  [][\A x \in EventIDs \cup AnnouncementIDs :
       Gone(x) /\ ~(Restart /\ x \in DOMAIN SeedEvent) => Gone(x)']_vars
=============================================================================
