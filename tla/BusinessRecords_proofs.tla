----------------------- MODULE BusinessRecords_proofs ------------------------
(***************************************************************************)
(* Theorems about BusinessRecords, for every value of its constants that   *)
(* satisfies RecordsAssumption: any users, teams, records and requests.    *)
(***************************************************************************)
EXTENDS BusinessRecords, TLAPS

-----------------------------------------------------------------------------
(* The inductive invariant.                                                *)

\* A request under way asks for something its record can suffer, an approval or
\* an announcement it works on exists, and an event it saves was found.
Suits(q) ==
  q.pc # "idle" =>
    \/ /\ q.id \in ApprovalIDs
       /\ q.op \in Statuses \ {"pending"}
       /\ approvals[q.id] \in Approval
    \/ /\ q.id \in EventIDs
       /\ q.op \in {"editEvent", "deleteEvent"}
       /\ q.op = "editEvent" =>
            /\ q.visibility \in Visibilities \cup {Blank, PaddedCompany}
            /\ q.pc = "save" => q.copy \in Event
    \/ /\ q.id \in AnnouncementIDs
       /\ q.op \in {"editAnnouncement", "deleteAnnouncement"}
       /\ announcements[q.id] # NoAnnouncement
Suited == \A r \in Requests : Suits(request[r])

\* The rows of the seed's announcements are there, if only as deleted ones.
Seeded ==
  \A n \in DOMAIN SeedAnnouncement : announcements[n] # NoAnnouncement

TypeInv == TypeOK /\ Suited /\ Seeded

\* Whoever is about to show an event to the whole company, and has said so in the
\* text that was checked, is an administrator.
CompanyInv ==
  \A r \in Requests :
    request[r].pc # "idle" /\ request[r].op = "editEvent"
    /\ request[r].visibility = "company"
    => IsAdmin(request[r].user)

-----------------------------------------------------------------------------
(* Helpers.                                                                *)

\* Default returns one of its two arguments, and never None for a fallback.
LEMMA DefaultType ==
  ASSUME NEW S, NEW v \in S \cup {None}, NEW w \in S \cup {None}
  PROVE  /\ Default(v, w) \in S \cup {None}
         /\ w \in S => Default(v, w) \in S
  BY DEF Default

\* What valueOrDefault makes of a text is stored, and is "company" only if the
\* text or the value in its place is.
LEMMA TrimmedVisibility ==
  ASSUME NEW v \in Asked, NEW w \in Visibilities
  PROVE  /\ ValueOrDefault(v, w) \in Visibilities
         /\ ValueOrDefault(v, w) = "company" =>
              \/ v \in {"company", PaddedCompany}
              \/ v \in {None, Blank} /\ w = "company"
  BY RecordsAssumption
     DEF ValueOrDefault, Default, Trimmed, Asked, Visibilities, Blank, PaddedCompany

LEMMA TrimmedTeam ==
  ASSUME NEW t \in AskedTeams, NEW w \in Teams \cup {None}
  PROVE  ValueOrDefault(t, w) \in Teams \cup {None}
  BY RecordsAssumption
     DEF ValueOrDefault, Default, Trimmed, AskedTeams, Blank, PaddedCompany

\* defaultValue of a text, with a stored value as the default.
LEMMA DefaultAsked ==
  ASSUME NEW v \in Asked, NEW w \in Visibilities
  PROVE  Default(v, w) \in Visibilities \cup {Blank, PaddedCompany}
  BY DEF Default, Asked

LEMMA DefaultAskedTeam ==
  ASSUME NEW t \in AskedTeams, NEW w \in Teams \cup {None}
  PROVE  Default(t, w) \in AskedTeams
  BY DEF Default, AskedTeams

\* The team of an approval is a team.
LEMMA ApprovalTeamsType ==
  ASSUME NEW t \in Teams \cup {None}
  PROVE  ApprovalTeams(t) \subseteq Teams
  BY DEF ApprovalTeams

\* The stored rows are no marks for missing ones.
LEMMA RowsDiffer ==
  /\ NoApproval \notin Approval
  /\ NoEvent \notin Event /\ GoneEvent \notin Event
  BY DEF NoApproval, Approval, Statuses, NoEvent, GoneEvent, Event

\* What an authorised request is.
LEMMA AuthorisedType ==
  ASSUME NEW r, NEW u \in Users, NEW op \in Operations, NEW id \in RecordIDs
  PROVE  /\ Authorised(r, u, op, id) \in RequestState
         /\ Authorised(r, u, op, id).pc = "load"
         /\ Authorised(r, u, op, id).op = op
         /\ Authorised(r, u, op, id).user = u
         /\ Authorised(r, u, op, id).id = id
  BY DEF Authorised, Idle, RequestState, NoEvent, Asked, AskedTeams

LEMMA IdleType == Idle \in RequestState /\ Idle.pc = "idle" /\ Idle.id = None
  BY DEF Idle, RequestState, Asked, AskedTeams

-----------------------------------------------------------------------------
(* Type correctness.                                                       *)

LEMMA InitTypeInv == Init => TypeInv
<1> SUFFICES ASSUME Init PROVE TypeInv
  OBVIOUS
<1> USE RecordsAssumption DEF Init
<1>1. approvals \in [ApprovalIDs -> Approval \cup {NoApproval}]
  OBVIOUS
<1>2. events \in [EventIDs -> Event \cup {NoEvent, GoneEvent}]
  OBVIOUS
<1>3. announcements \in [AnnouncementIDs ->
        [row : {"stored", "deleted"}, scope : Visibilities,
         team : Teams \cup {None}] \cup {NoAnnouncement}]
  BY DEF Announcement
<1>4. request \in [Requests -> RequestState] /\ Suited
  BY IdleType DEF Suited, Suits
<1>5. Seeded
  BY DEF Seeded, Announcement, NoAnnouncement
<1> QED
  BY <1>1, <1>2, <1>3, <1>4, <1>5 DEF TypeInv, TypeOK

\* A creation keeps what exists.
LEMMA CreationTypeInv ==
  ASSUME TypeInv, CreateApproval \/ CreateCalendarEvent \/ CreateAnnouncement
  PROVE  TypeInv'
<1> USE RecordsAssumption
<1> USE DEF TypeInv, TypeOK
<1>1. CASE CreateApproval
  <2>1. PICK u \in Users, t \in Teams \cup {None}, i \in ApprovalIDs :
          /\ approvals[i] = NoApproval
          /\ \E team \in ApprovalTeams(Default(t, CurrentTeam[u])) :
               approvals' = [approvals EXCEPT ![i] =
                 [status |-> "pending", applicant |-> u, team |-> team]]
    BY <1>1 DEF CreateApproval
  <2>2. ApprovalTeams(Default(t, CurrentTeam[u])) \subseteq Teams
    BY ApprovalTeamsType, DefaultType
  <2>3. PICK team \in Teams :
          approvals' = [approvals EXCEPT ![i] =
            [status |-> "pending", applicant |-> u, team |-> team]]
    BY <2>1, <2>2
  <2>4. UNCHANGED <<events, announcements, request>>
    BY <1>1 DEF CreateApproval
  <2>5. [status |-> "pending", applicant |-> u, team |-> team] \in Approval
    BY DEF Approval, Statuses
  <2>6. TypeOK'
    BY <2>3, <2>4, <2>5
  <2>7. \A j \in ApprovalIDs : approvals[j] \in Approval => approvals'[j] \in Approval
    BY <2>3, <2>5
  <2>8. Suited' /\ Seeded'
    BY <2>4, <2>7 DEF Suited, Suits, Seeded
  <2> QED
    BY <2>6, <2>8
<1>2. CASE CreateCalendarEvent
  <2>1. PICK u \in Users, t \in Teams \cup {None}, e \in EventIDs,
             v \in Asked :
          events' = [events EXCEPT ![e] =
            [row |-> "stored", team |-> Default(t, CurrentTeam[u]),
             visibility |-> ValueOrDefault(Default(v, "team"), "team")]]
    BY <1>2 DEF CreateCalendarEvent
  <2>2. UNCHANGED <<approvals, announcements, request>>
    BY <1>2 DEF CreateCalendarEvent
  <2>3. ValueOrDefault(Default(v, "team"), "team") \in Visibilities
    BY DefaultAsked, TrimmedVisibility DEF Visibilities, Asked
  <2>4. Default(t, CurrentTeam[u]) \in Teams \cup {None}
    BY DefaultType
  <2>5. TypeOK'
    BY <2>1, <2>2, <2>3, <2>4 DEF Event
  <2> QED
    BY <2>2, <2>5 DEF Suited, Suits, Seeded
<1>3. CASE CreateAnnouncement
  <2>1. PICK u \in Users, t \in Teams \cup {None}, n \in AnnouncementIDs,
             s \in Asked :
          announcements' = [announcements EXCEPT ![n] =
            [row |-> "stored", team |-> Default(t, CurrentTeam[u]),
             scope |-> ValueOrDefault(Default(s, "team"), "team")]]
    BY <1>3 DEF CreateAnnouncement
  <2>2. UNCHANGED <<approvals, events, request>>
    BY <1>3 DEF CreateAnnouncement
  <2>3. ValueOrDefault(Default(s, "team"), "team") \in Visibilities
    BY DefaultAsked, TrimmedVisibility DEF Visibilities, Asked
  <2>4. Default(t, CurrentTeam[u]) \in Teams \cup {None}
    BY DefaultType
  <2>5. TypeOK'
    BY <2>1, <2>2, <2>3, <2>4
  <2>6. \A m \in AnnouncementIDs :
          announcements[m] # NoAnnouncement => announcements'[m] # NoAnnouncement
    BY <2>1 DEF NoAnnouncement
  <2>7. Suited' /\ Seeded'
    BY <2>2, <2>6 DEF Suited, Suits, Seeded
  <2> QED
    BY <2>5, <2>7
<1> QED
  BY <1>1, <1>2, <1>3

\* A step that changes one request only, to a state that suits its record.
LEMMA RequestTypeInv ==
  ASSUME TypeInv, NEW r \in Requests, NEW q \in RequestState, Suits(q),
         request' = [request EXCEPT ![r] = q],
         UNCHANGED <<approvals, events, announcements>>
  PROVE  TypeInv'
<1>1. TypeOK' /\ Seeded'
  BY DEF TypeInv, TypeOK, Seeded
<1>2. Suited'
  <2> SUFFICES ASSUME NEW x \in Requests PROVE Suits(request[x])'
    BY DEF Suited
  <2>1. request'[x] = q \/ request'[x] = request[x]
    BY DEF TypeInv, TypeOK
  <2>2. Suits(request[x])
    BY DEF TypeInv, Suited
  <2> QED
    BY <2>1, <2>2 DEF Suits
<1> QED
  BY <1>1, <1>2 DEF TypeInv

\* A request that ends.
LEMMA EndsTypeInv ==
  ASSUME TypeInv, NEW r \in Requests, Ends(r),
         UNCHANGED <<approvals, events, announcements>>
  PROVE  TypeInv'
<1>1. Suits(Idle)
  BY IdleType DEF Suits
<1> QED
  BY <1>1, RequestTypeInv, IdleType DEF Ends

LEMMA AuthoriseTypeInv ==
  ASSUME TypeInv, NEW r \in Requests, Authorise(r)
  PROVE  TypeInv'
<1> USE RecordsAssumption
<1>1. CASE Decide(r)
  <2>1. PICK u \in Users, i \in ApprovalIDs, status \in {"approved", "rejected"} :
          /\ approvals[i].status = "pending"
          /\ request' = [request EXCEPT ![r] = Authorised(r, u, status, i)]
    BY <1>1 DEF Decide
  <2>2. approvals[i] \in Approval
    BY <2>1 DEF TypeInv, TypeOK, NoApproval
  <2>3. status \in Operations /\ status \in Statuses \ {"pending"}
    BY DEF Operations, Statuses
  <2>4. i \in RecordIDs
    BY DEF RecordIDs
  <2>5. /\ Authorised(r, u, status, i) \in RequestState
        /\ Suits(Authorised(r, u, status, i))
    BY <2>2, <2>3, <2>4, AuthorisedType DEF Suits
  <2> QED
    BY <1>1, <2>1, <2>5, RequestTypeInv DEF Decide
<1>2. CASE CancelApprovalItem(r)
  <2>1. PICK u \in Users, i \in ApprovalIDs :
          /\ approvals[i].status = "pending"
          /\ request' = [request EXCEPT ![r] = Authorised(r, u, "cancelled", i)]
    BY <1>2 DEF CancelApprovalItem
  <2>2. approvals[i] \in Approval
    BY <2>1 DEF TypeInv, TypeOK, NoApproval
  <2>3. "cancelled" \in Operations /\ "cancelled" \in Statuses \ {"pending"}
    BY DEF Operations, Statuses
  <2>4. i \in RecordIDs
    BY DEF RecordIDs
  <2>5. /\ Authorised(r, u, "cancelled", i) \in RequestState
        /\ Suits(Authorised(r, u, "cancelled", i))
    BY <2>2, <2>3, <2>4, AuthorisedType DEF Suits
  <2> QED
    BY <1>2, <2>1, <2>5, RequestTypeInv
       DEF CancelApprovalItem
<1>3. CASE UpdateCalendarEvent(r)
  <2>1. PICK u \in Users, e \in EventIDs, t \in AskedTeams, v \in Asked :
          /\ events[e].row = "stored"
          /\ request' = [request EXCEPT ![r] =
               [Authorised(r, u, "editEvent", e) EXCEPT
                  !.team = Default(t, events[e].team),
                  !.visibility = Default(v, events[e].visibility)]]
    BY <1>3 DEF UpdateCalendarEvent
  <2> DEFINE a == Authorised(r, u, "editEvent", e)
             q == [a EXCEPT !.team = Default(t, events[e].team),
                            !.visibility = Default(v, events[e].visibility)]
  <2>2. events[e] \in Event
    BY <2>1 DEF TypeInv, TypeOK, NoEvent, GoneEvent
  <2>3. /\ Default(t, events[e].team) \in AskedTeams
        /\ Default(v, events[e].visibility)
             \in Visibilities \cup {Blank, PaddedCompany}
    BY <2>2, DefaultAsked, DefaultAskedTeam DEF Event
  <2>4. a \in RequestState /\ a.id = e /\ a.op = "editEvent" /\ a.pc = "load"
    <3>1. "editEvent" \in Operations /\ e \in RecordIDs
      BY DEF Operations, RecordIDs
    <3> QED
      BY <3>1, AuthorisedType
  <2>5. request' = [request EXCEPT ![r] = q]
    BY <2>1
  <2>6. UNCHANGED <<approvals, events, announcements>>
    BY <1>3 DEF UpdateCalendarEvent
  <2> HIDE DEF a
  <2>7. /\ q \in RequestState
        /\ q.id = e /\ q.op = "editEvent" /\ q.pc = "load"
        /\ q.visibility \in Visibilities \cup {Blank, PaddedCompany}
    BY <2>3, <2>4 DEF RequestState, Asked
  <2> HIDE DEF q
  <2>8. Suits(q)
    BY <2>7 DEF Suits
  <2> QED
    BY <2>5, <2>6, <2>7, <2>8, RequestTypeInv
<1>4. CASE DeleteCalendarEvent(r)
  <2>1. PICK u \in Users, e \in EventIDs :
          request' = [request EXCEPT ![r] = Authorised(r, u, "deleteEvent", e)]
    BY <1>4 DEF DeleteCalendarEvent
  <2>2. "deleteEvent" \in Operations /\ e \in RecordIDs
    BY DEF Operations, RecordIDs
  <2>3. /\ Authorised(r, u, "deleteEvent", e) \in RequestState
        /\ Suits(Authorised(r, u, "deleteEvent", e))
    BY <2>2, AuthorisedType DEF Suits
  <2> QED
    BY <1>4, <2>1, <2>3, RequestTypeInv DEF DeleteCalendarEvent
<1>5. CASE ManageAnnouncement(r)
  <2>1. PICK u \in Users, n \in AnnouncementIDs,
             op \in {"editAnnouncement", "deleteAnnouncement"} :
          /\ announcements[n].row = "stored"
          /\ request' = [request EXCEPT ![r] = Authorised(r, u, op, n)]
    BY <1>5 DEF ManageAnnouncement
  <2>2. announcements[n] # NoAnnouncement
    BY <2>1 DEF NoAnnouncement
  <2>3. op \in Operations /\ n \in RecordIDs
    BY DEF Operations, RecordIDs
  <2>4. /\ Authorised(r, u, op, n) \in RequestState
        /\ Suits(Authorised(r, u, op, n))
    BY <2>2, <2>3, AuthorisedType DEF Suits
  <2> QED
    BY <1>5, <2>1, <2>4, RequestTypeInv DEF ManageAnnouncement
<1> QED
  BY <1>1, <1>2, <1>3, <1>4, <1>5 DEF Authorise

LEMMA LoadTypeInv ==
  ASSUME TypeInv, NEW r \in Requests,
         LoadApproval(r) \/ LoadEvent(r) \/ LoadAnnouncement(r)
  PROVE  TypeInv'
<1>1. /\ request[r] \in RequestState /\ Suits(request[r])
      /\ request[r].pc = "load"
  BY DEF TypeInv, TypeOK, Suited, LoadApproval, LoadEvent, LoadAnnouncement
<1>2. UNCHANGED <<approvals, events, announcements>>
  BY DEF LoadApproval, LoadEvent, LoadAnnouncement
<1>3. CASE /\ request[r].id \in ApprovalIDs \cup AnnouncementIDs
           /\ request' = [request EXCEPT ![r].pc = "save"]
  <2> DEFINE q == [request[r] EXCEPT !.pc = "save"]
  <2>1. q \in RequestState /\ Suits(q)
    BY <1>1, <1>3, RecordsAssumption DEF RequestState, Suits, Statuses
  <2>2. request' = [request EXCEPT ![r] = q]
    BY <1>3
  <2> HIDE DEF q
  <2> QED
    BY <1>2, <2>1, <2>2, RequestTypeInv
<1>4. CASE /\ events[request[r].id] \in Event
           /\ request' = [request EXCEPT ![r].pc = "save",
                                         ![r].copy = events[request[r].id]]
  <2> DEFINE e == events[request[r].id]
             q == [request[r] EXCEPT !.pc = "save", !.copy = e]
  <2>1. q \in RequestState /\ Suits(q)
    BY <1>1, <1>4 DEF RequestState, Suits
  <2>2. request' = [request EXCEPT ![r] = q]
    BY <1>4 DEF TypeInv, TypeOK
  <2> HIDE DEF q
  <2> QED
    BY <1>2, <2>1, <2>2, RequestTypeInv
<1>5. CASE Ends(r)
  BY <1>2, <1>5, EndsTypeInv
<1>6. LoadEvent(r) /\ events[request[r].id].row = "stored"
      => events[request[r].id] \in Event
  BY DEF LoadEvent, TypeInv, TypeOK, NoEvent, GoneEvent
<1> QED
  BY <1>3, <1>4, <1>5, <1>6 DEF LoadApproval, LoadEvent, LoadAnnouncement

\* A write: the request ends, and the rows keep what Suits and Seeded ask.
LEMMA WriteTypeInv ==
  ASSUME TypeInv, NEW r \in Requests, Ends(r),
         approvals' \in [ApprovalIDs -> Approval \cup {NoApproval}],
         events' \in [EventIDs -> Event \cup {NoEvent, GoneEvent}],
         announcements' \in [AnnouncementIDs ->
           [row : {"stored", "deleted"}, scope : Visibilities,
            team : Teams \cup {None}] \cup {NoAnnouncement}],
         \A i \in ApprovalIDs :
           approvals[i] \in Approval => approvals'[i] \in Approval,
         \A n \in AnnouncementIDs :
           announcements[n] # NoAnnouncement => announcements'[n] # NoAnnouncement
  PROVE  TypeInv'
<1>1. TypeOK'
  BY IdleType DEF TypeInv, TypeOK, Ends
<1>2. Seeded'
  BY RecordsAssumption DEF TypeInv, Seeded
<1>3. Suited'
  <2> SUFFICES ASSUME NEW x \in Requests PROVE Suits(request[x])'
    BY DEF Suited
  <2>1. request'[x] = Idle \/ request'[x] = request[x]
    BY DEF TypeInv, TypeOK, Ends
  <2>2. Suits(request[x])
    BY DEF TypeInv, Suited
  <2> QED
    BY <2>1, <2>2, IdleType DEF Suits
<1> QED
  BY <1>1, <1>2, <1>3 DEF TypeInv

LEMMA SaveTypeInv ==
  ASSUME TypeInv, NEW r \in Requests,
         \/ UpdateApprovalStatus(r) \/ SaveEvent(r) \/ DeleteEventRow(r)
         \/ SaveAnnouncement(r)
  PROVE  TypeInv'
<1> USE RecordsAssumption
<1>1. request[r] \in RequestState /\ Suits(request[r]) /\ request[r].pc # "idle"
  BY DEF TypeInv, TypeOK, Suited, UpdateApprovalStatus, SaveEvent,
         DeleteEventRow, SaveAnnouncement
<1>2. CASE UpdateApprovalStatus(r)
  <2> DEFINE i == request[r].id
  <2>1. /\ i \in ApprovalIDs /\ request[r].op \in Statuses
        /\ approvals[i] \in Approval
    BY <1>1, <1>2 DEF UpdateApprovalStatus, Suits
  <2>2. [approvals[i] EXCEPT !.status = request[r].op] \in Approval
    BY <2>1 DEF Approval
  <2>3. approvals' = [approvals EXCEPT
                        ![i] = [approvals[i] EXCEPT !.status = request[r].op]]
    BY <1>2 DEF UpdateApprovalStatus
  <2>4. Ends(r) /\ UNCHANGED <<events, announcements>>
    BY <1>2 DEF UpdateApprovalStatus
  <2>5. /\ approvals' \in [ApprovalIDs -> Approval \cup {NoApproval}]
        /\ \A j \in ApprovalIDs :
             approvals[j] \in Approval => approvals'[j] \in Approval
    BY <2>1, <2>2, <2>3 DEF TypeInv, TypeOK
  <2> QED
    BY <2>4, <2>5, WriteTypeInv DEF TypeInv, TypeOK
<1>3. CASE SaveEvent(r)
  <2> DEFINE e == request[r].id
             visibility == ValueOrDefault(request[r].visibility,
                                          request[r].copy.visibility)
             team == ValueOrDefault(request[r].team, request[r].copy.team)
             new == [row |-> "stored", visibility |-> visibility, team |-> team]
  <2>1. /\ request[r].visibility \in Asked /\ request[r].team \in AskedTeams
        /\ request[r].copy \in Event
    BY <1>1, <1>3 DEF SaveEvent, Suits, Statuses, RequestState
  <2>2. visibility \in Visibilities
    BY <2>1, TrimmedVisibility DEF Event
  <2>3. team \in Teams \cup {None}
    BY <2>1, TrimmedTeam DEF Event
  <2>4. new \in Event
    BY <2>2, <2>3 DEF Event
  <2>5. events' = [events EXCEPT ![e] = new]
    BY <1>3 DEF SaveEvent
  <2>6. Ends(r) /\ UNCHANGED <<approvals, announcements>>
    BY <1>3 DEF SaveEvent
  <2> HIDE DEF new
  <2>7. events' \in [EventIDs -> Event \cup {NoEvent, GoneEvent}]
    BY <2>4, <2>5 DEF TypeInv, TypeOK
  <2> QED
    BY <2>6, <2>7, WriteTypeInv DEF TypeInv, TypeOK
<1>4. CASE DeleteEventRow(r)
  <2>1. Ends(r) /\ UNCHANGED <<approvals, announcements>>
    BY <1>4 DEF DeleteEventRow
  <2>2. events' \in [EventIDs -> Event \cup {NoEvent, GoneEvent}]
    BY <1>4 DEF DeleteEventRow, TypeInv, TypeOK
  <2> QED
    BY <2>1, <2>2, WriteTypeInv DEF TypeInv, TypeOK
<1>5. CASE SaveAnnouncement(r)
  <2> DEFINE n == request[r].id
             row == IF request[r].op = "editAnnouncement" THEN "stored"
                                                          ELSE "deleted"
             new == [announcements[n] EXCEPT !.row = row]
  <2>1. n \in AnnouncementIDs /\ announcements[n] # NoAnnouncement
    BY <1>1, <1>5 DEF SaveAnnouncement, Suits
  <2>2. announcements[n] \in [row : {"stored", "deleted"}, scope : Visibilities,
                              team : Teams \cup {None}]
    BY <2>1 DEF TypeInv, TypeOK
  <2>3. new \in [row : {"stored", "deleted"}, scope : Visibilities,
                 team : Teams \cup {None}]
    BY <2>2
  <2>4. new # NoAnnouncement
    BY <2>3 DEF NoAnnouncement
  <2>5. announcements' = [announcements EXCEPT ![n] = new]
    BY <1>5 DEF SaveAnnouncement
  <2>6. Ends(r) /\ UNCHANGED <<approvals, events>>
    BY <1>5 DEF SaveAnnouncement
  <2> HIDE DEF new
  <2>7. /\ announcements' \in [AnnouncementIDs ->
             [row : {"stored", "deleted"}, scope : Visibilities,
              team : Teams \cup {None}] \cup {NoAnnouncement}]
        /\ \A m \in AnnouncementIDs :
             announcements[m] # NoAnnouncement => announcements'[m] # NoAnnouncement
    BY <2>3, <2>4, <2>5 DEF TypeInv, TypeOK
  <2> QED
    BY <2>6, <2>7, WriteTypeInv DEF TypeInv, TypeOK
<1> QED
  BY <1>2, <1>3, <1>4, <1>5

LEMMA RestartTypeInv ==
  ASSUME TypeInv, Restart
  PROVE  TypeInv'
<1> USE RecordsAssumption DEF Restart
<1>1. approvals' \in [ApprovalIDs -> Approval \cup {NoApproval}]
  BY DEF TypeInv, TypeOK
<1>2. events' \in [EventIDs -> Event \cup {NoEvent, GoneEvent}]
  <2> SUFFICES ASSUME NEW e \in EventIDs
               PROVE  events'[e] \in Event \cup {NoEvent, GoneEvent}
    OBVIOUS
  <2>1. CASE e \notin DOMAIN SeedEvent
    BY <2>1 DEF TypeInv, TypeOK
  <2>2. CASE e \in DOMAIN SeedEvent
    <3>1. SeedEvent[e] \in Event
      BY <2>2
    <3>2. events[e].team \in Teams \cup {None}
      BY DEF TypeInv, TypeOK, Event, NoEvent, GoneEvent
    <3>3. Default(SeedEvent[e].team, events[e].team) \in Teams \cup {None}
      BY <3>1, <3>2, DefaultType DEF Event
    <3>4. events'[e] = [SeedEvent[e] EXCEPT
                          !.team = Default(SeedEvent[e].team, events[e].team)]
      BY <2>2
    <3> QED
      BY <3>1, <3>3, <3>4 DEF Event
  <2> QED
    BY <2>1, <2>2
<1>3. \A n \in AnnouncementIDs :
        /\ announcements'[n] \in
             [row : {"stored", "deleted"}, scope : Visibilities,
              team : Teams \cup {None}] \cup {NoAnnouncement}
        /\ announcements[n] # NoAnnouncement => announcements'[n] # NoAnnouncement
  <2> SUFFICES ASSUME NEW n \in AnnouncementIDs
               PROVE  /\ announcements'[n] \in
                           [row : {"stored", "deleted"}, scope : Visibilities,
                            team : Teams \cup {None}] \cup {NoAnnouncement}
                      /\ announcements[n] # NoAnnouncement
                           => announcements'[n] # NoAnnouncement
    OBVIOUS
  <2>1. CASE n \notin DOMAIN SeedAnnouncement
    BY <2>1 DEF TypeInv, TypeOK
  <2>2. CASE n \in DOMAIN SeedAnnouncement
    <3>1. SeedAnnouncement[n] \in Announcement
      BY <2>2
    <3>2. announcements[n].row \in {"stored", "deleted"}
      BY <2>2 DEF TypeInv, TypeOK, Seeded
    <3>3. announcements'[n] = [SeedAnnouncement[n] EXCEPT
                                 !.row = announcements[n].row]
      BY <2>2
    <3> QED
      BY <3>1, <3>2, <3>3 DEF Announcement, NoAnnouncement
  <2> QED
    BY <2>1, <2>2
<1>4. request' \in [Requests -> RequestState] /\ Suited'
  BY IdleType DEF Suited, Suits
<1>5. Seeded'
  BY <1>3 DEF TypeInv, Seeded
<1> QED
  BY <1>1, <1>2, <1>3, <1>4, <1>5 DEF TypeInv, TypeOK

LEMMA StepTypeInv == TypeInv /\ [Next]_vars => TypeInv'
<1> SUFFICES ASSUME TypeInv, [Next]_vars PROVE TypeInv'
  OBVIOUS
<1>1. CASE CreateApproval \/ CreateCalendarEvent \/ CreateAnnouncement
  BY <1>1, CreationTypeInv
<1>2. ASSUME NEW r \in Requests, Authorise(r) PROVE TypeInv'
  BY <1>2, AuthoriseTypeInv
<1>3. ASSUME NEW r \in Requests, RepositoryStep(r) PROVE TypeInv'
  <2>1. CASE LoadApproval(r) \/ LoadEvent(r) \/ LoadAnnouncement(r)
    BY <2>1, LoadTypeInv
  <2>2. CASE \/ UpdateApprovalStatus(r) \/ SaveEvent(r) \/ DeleteEventRow(r)
             \/ SaveAnnouncement(r)
    BY <2>2, SaveTypeInv
  <2>3. CASE RepositoryFails(r)
    BY <2>3, EndsTypeInv DEF RepositoryFails
  <2> QED
    BY <1>3, <2>1, <2>2, <2>3 DEF RepositoryStep
<1>4. CASE Restart
  BY <1>4, RestartTypeInv
<1>5. CASE UNCHANGED vars
  BY <1>5 DEF vars, TypeInv, TypeOK, Suited, Suits, Seeded
<1> QED
  BY <1>1, <1>2, <1>3, <1>4, <1>5 DEF Next

LEMMA TypeInvariance == Spec => []TypeInv
  BY InitTypeInv, StepTypeInv, PTL DEF Spec

\* The state is of its type, and a request asks only what its record can suffer.
THEOREM TypeCorrect == Spec => []TypeOK
<1>1. TypeInv => TypeOK
  BY DEF TypeInv
<1> QED
  BY <1>1, TypeInvariance, PTL

-----------------------------------------------------------------------------
(* Decisions.                                                              *)

\* What the authorisation of request r may do: it changes r alone.
LEMMA AuthoriseMoves ==
  ASSUME TypeInv, NEW r \in Requests, Authorise(r)
  PROVE  /\ UNCHANGED <<approvals, events, announcements>>
         /\ \A y \in Requests : y # r => request'[y] = request[y]
         /\ request'[r].pc = "load"
         /\ request'[r].id \in ApprovalIDs
              => approvals[request'[r].id].status = "pending"
         /\ request'[r].op = "editEvent" /\ request'[r].visibility = "company"
              => IsAdmin(request'[r].user)
<1> USE RecordsAssumption DEF TypeInv, TypeOK
<1>1. CASE Decide(r)
  <2>1. PICK u \in Users, i \in ApprovalIDs, status \in {"approved", "rejected"} :
          /\ approvals[i].status = "pending"
          /\ request' = [request EXCEPT ![r] = Authorised(r, u, status, i)]
    BY <1>1 DEF Decide
  <2>2. request'[r] = Authorised(r, u, status, i)
    BY <2>1
  <2>3. /\ request'[r].pc = "load" /\ request'[r].id = i
        /\ request'[r].op = status
    BY <2>2 DEF Authorised, Idle
  <2> QED
    BY <1>1, <2>1, <2>3 DEF Decide
<1>2. CASE CancelApprovalItem(r)
  <2>1. PICK u \in Users, i \in ApprovalIDs :
          /\ approvals[i].status = "pending"
          /\ request' = [request EXCEPT ![r] = Authorised(r, u, "cancelled", i)]
    BY <1>2 DEF CancelApprovalItem
  <2>2. request'[r] = Authorised(r, u, "cancelled", i)
    BY <2>1
  <2>3. /\ request'[r].pc = "load" /\ request'[r].id = i
        /\ request'[r].op = "cancelled"
    BY <2>2 DEF Authorised, Idle
  <2> QED
    BY <1>2, <2>1, <2>3 DEF CancelApprovalItem
<1>3. CASE UpdateCalendarEvent(r)
  <2>1. PICK u \in Users, e \in EventIDs, t \in AskedTeams, v \in Asked :
          /\ HasAny(u, {"tab.calendar.manage", "tab.calendar.all"})
          /\ events[e].row = "stored"
          /\ CanManageCalendar(u, events[e].team)
          /\ Default(v, events[e].visibility) = "company" => IsAdmin(u)
          /\ request' = [request EXCEPT ![r] =
               [Authorised(r, u, "editEvent", e) EXCEPT
                  !.team = Default(t, events[e].team),
                  !.visibility = Default(v, events[e].visibility)]]
    BY <1>3, Zenon DEF UpdateCalendarEvent
  <2>2. request'[r] = [Authorised(r, u, "editEvent", e) EXCEPT
                         !.team = Default(t, events[e].team),
                         !.visibility = Default(v, events[e].visibility)]
    BY <2>1
  <2>3. /\ request'[r].pc = "load" /\ request'[r].id = e
        /\ request'[r].visibility = Default(v, events[e].visibility)
        /\ request'[r].user = u
    BY <2>2 DEF Authorised, Idle
  <2>4. \A y \in Requests : y # r => request'[y] = request[y]
    BY <2>1
  <2> QED
    BY <1>3, <2>1, <2>3, <2>4 DEF UpdateCalendarEvent
<1>4. CASE DeleteCalendarEvent(r)
  <2>1. PICK u \in Users, e \in EventIDs :
          request' = [request EXCEPT ![r] = Authorised(r, u, "deleteEvent", e)]
    BY <1>4 DEF DeleteCalendarEvent
  <2>2. request'[r] = Authorised(r, u, "deleteEvent", e)
    BY <2>1
  <2>3. /\ request'[r].pc = "load" /\ request'[r].id = e
        /\ request'[r].op = "deleteEvent"
    BY <2>2 DEF Authorised, Idle
  <2> QED
    BY <1>4, <2>1, <2>3 DEF DeleteCalendarEvent
<1>5. CASE ManageAnnouncement(r)
  <2>1. PICK u \in Users, n \in AnnouncementIDs,
             op \in {"editAnnouncement", "deleteAnnouncement"} :
          request' = [request EXCEPT ![r] = Authorised(r, u, op, n)]
    BY <1>5 DEF ManageAnnouncement
  <2>2. request'[r] = Authorised(r, u, op, n)
    BY <2>1
  <2>3. /\ request'[r].pc = "load" /\ request'[r].id = n
        /\ request'[r].op = op
    BY <2>2 DEF Authorised, Idle
  <2> QED
    BY <1>5, <2>1, <2>3 DEF ManageAnnouncement
<1> QED
  BY <1>1, <1>2, <1>3, <1>4, <1>5 DEF Authorise

\* What a step may do to request x: leave it, end it, authorise it on a record,
\* or move it from load to save.
LEMMA RequestMoves ==
  ASSUME TypeInv, Next, NEW x \in Requests
  PROVE  \/ request'[x] = request[x]
         \/ request'[x] = Idle
         \/ /\ request'[x].pc = "load"
            /\ request'[x].id \in ApprovalIDs
                 => approvals[request'[x].id].status = "pending"
         \/ /\ request[x].pc = "load"
            /\ request'[x].id = request[x].id /\ request'[x].op = request[x].op
            /\ request[x].id \in EventIDs
                 => events[request[x].id].row = "stored"
            /\ request[x].id \in AnnouncementIDs
                 => announcements[request[x].id].row = "stored"
<1> USE RecordsAssumption
<1> DEFINE Moved ==
      \/ request'[x] = request[x]
      \/ request'[x] = Idle
      \/ /\ request'[x].pc = "load"
         /\ request'[x].id \in ApprovalIDs
              => approvals[request'[x].id].status = "pending"
      \/ /\ request[x].pc = "load"
         /\ request'[x].id = request[x].id /\ request'[x].op = request[x].op
         /\ request[x].id \in EventIDs => events[request[x].id].row = "stored"
         /\ request[x].id \in AnnouncementIDs
              => announcements[request[x].id].row = "stored"
<1>1. request \in [Requests -> RequestState]
  BY DEF TypeInv, TypeOK
<1>2. CASE UNCHANGED request
  BY <1>2
<1>3. ASSUME NEW r \in Requests, Authorise(r) PROVE Moved
  BY <1>3, AuthoriseMoves
<1>4. ASSUME NEW r \in Requests, RepositoryStep(r) PROVE Moved
  <2>1. CASE Ends(r)
    BY <1>1, <2>1 DEF Ends
  <2>2. CASE LoadApproval(r)
    BY <1>1, <2>2 DEF LoadApproval, RequestState
  <2>3. CASE LoadEvent(r) /\ ~Ends(r)
    BY <1>1, <2>3 DEF LoadEvent, RequestState
  <2>4. CASE LoadAnnouncement(r) /\ ~Ends(r)
    BY <1>1, <2>4 DEF LoadAnnouncement, RequestState
  <2> QED
    BY <1>4, <2>1, <2>2, <2>3, <2>4
       DEF RepositoryStep, UpdateApprovalStatus, SaveEvent, DeleteEventRow,
           SaveAnnouncement, RepositoryFails
<1>5. CASE Restart
  BY <1>5 DEF Restart
<1> QED
  BY <1>2, <1>3, <1>4, <1>5
     DEF Next, CreateApproval, CreateCalendarEvent, CreateAnnouncement

\* What a step may do to an approval.
LEMMA ApprovalMoves ==
  ASSUME TypeInv, Next, NEW i \in ApprovalIDs, approvals'[i] # approvals[i]
  PROVE  \/ approvals[i] = NoApproval
         \/ \E r \in Requests : request[r].id = i
         \/ Restart /\ i \in DOMAIN SeedApproval
<1>1. CASE CreateApproval
  BY <1>1 DEF CreateApproval, TypeInv, TypeOK
<1>2. ASSUME NEW r \in Requests, UpdateApprovalStatus(r)
      PROVE  request[r].id = i
  BY <1>2 DEF UpdateApprovalStatus, TypeInv, TypeOK
<1>3. CASE Restart
  BY <1>3 DEF Restart
<1> QED
  BY <1>1, <1>2, <1>3
     DEF Next, CreateCalendarEvent, CreateAnnouncement, Authorise, Decide,
         CancelApprovalItem, UpdateCalendarEvent, DeleteCalendarEvent,
         ManageAnnouncement, RepositoryStep, LoadApproval, LoadEvent,
         LoadAnnouncement, SaveEvent, DeleteEventRow, SaveAnnouncement,
         RepositoryFails

\* A decision that no request can overwrite any more is final, but for the
\* approvals of the seed, at a restart.
THEOREM DecisionsStand == Spec => SettledForGood
<1>1. TypeInv /\ [Next]_vars =>
        [\A i \in ApprovalIDs :
           Settled(i) /\ ~(Restart /\ i \in DOMAIN SeedApproval)
           => Settled(i)' /\ approvals'[i] = approvals[i]]_vars
  <2> SUFFICES ASSUME TypeInv, Next, NEW i \in ApprovalIDs, Settled(i),
                      ~(Restart /\ i \in DOMAIN SeedApproval)
               PROVE  Settled(i)' /\ approvals'[i] = approvals[i]
    BY DEF vars
  <2>1. approvals'[i] = approvals[i]
    BY ApprovalMoves DEF Settled, NoApproval, Statuses
  <2>2. ASSUME NEW x \in Requests PROVE request'[x].id # i
    <3>1. request[x].id # i /\ approvals[i].status # "pending"
      BY DEF Settled
    <3>2. Idle.id # i
      BY IdleType, RecordsAssumption DEF RecordIDs
    <3> QED
      BY <3>1, <3>2, RequestMoves
  <2> QED
    BY <2>1, <2>2 DEF Settled
<1> QED
  BY <1>1, TypeInvariance, PTL DEF Spec, SettledForGood

-----------------------------------------------------------------------------
(* Deletions.                                                              *)

\* What a step may do to an event that is there or was.
LEMMA EventMoves ==
  ASSUME TypeInv, Next, NEW e \in EventIDs, events'[e] # events[e]
  PROVE  \/ events[e] = NoEvent
         \/ \E r \in Requests :
              /\ SaveEvent(r) /\ request[r].id = e
              /\ events'[e].visibility = ValueOrDefault(
                   request[r].visibility, request[r].copy.visibility)
         \/ events'[e] = GoneEvent
         \/ Restart /\ e \in DOMAIN SeedEvent
<1>1. CASE CreateCalendarEvent
  BY <1>1 DEF CreateCalendarEvent, TypeInv, TypeOK
<1>2. ASSUME NEW r \in Requests, SaveEvent(r)
      PROVE  /\ request[r].id = e
             /\ events'[e].visibility = ValueOrDefault(
                  request[r].visibility, request[r].copy.visibility)
  BY <1>2 DEF SaveEvent, TypeInv, TypeOK
<1>3. ASSUME NEW r \in Requests, DeleteEventRow(r)
      PROVE  events'[e] = GoneEvent
  BY <1>3 DEF DeleteEventRow, TypeInv, TypeOK
<1>4. CASE Restart
  BY <1>4 DEF Restart
<1> QED
  BY <1>1, <1>2, <1>3, <1>4
     DEF Next, CreateApproval, CreateAnnouncement, Authorise, Decide,
         CancelApprovalItem, UpdateCalendarEvent, DeleteCalendarEvent,
         ManageAnnouncement, RepositoryStep, LoadApproval, LoadEvent,
         LoadAnnouncement, UpdateApprovalStatus, SaveAnnouncement,
         RepositoryFails

\* What a step may do to an announcement's row.
LEMMA AnnouncementMoves ==
  ASSUME TypeInv, Next, NEW n \in AnnouncementIDs,
         announcements'[n].row # announcements[n].row
  PROVE  \/ announcements[n] = NoAnnouncement
         \/ \E r \in Requests : /\ request[r].pc = "save" /\ request[r].id = n
                                /\ request[r].op = "editAnnouncement"
         \/ announcements'[n].row = "deleted"
<1>1. CASE CreateAnnouncement
  BY <1>1 DEF CreateAnnouncement, TypeInv, TypeOK
<1>2. ASSUME NEW r \in Requests, SaveAnnouncement(r)
      PROVE  \/ /\ request[r].pc = "save" /\ request[r].id = n
                /\ request[r].op = "editAnnouncement"
             \/ announcements'[n].row = "deleted"
  <2> DEFINE m == request[r].id
             row == IF request[r].op = "editAnnouncement" THEN "stored"
                                                          ELSE "deleted"
  <2>1. announcements' = [announcements EXCEPT
                            ![m] = [announcements[m] EXCEPT !.row = row]]
    BY <1>2 DEF SaveAnnouncement
  <2>2. m = n
    BY <2>1 DEF TypeInv, TypeOK
  <2>3. announcements[n] \in [row : {"stored", "deleted"}, scope : Visibilities,
                              team : Teams \cup {None}] \cup {NoAnnouncement}
    BY DEF TypeInv, TypeOK
  <2>4. announcements'[n].row = row
    BY <2>1, <2>2, <2>3 DEF TypeInv, TypeOK, NoAnnouncement
  <2> QED
    BY <1>2, <2>2, <2>4 DEF SaveAnnouncement
<1>3. CASE Restart
  <2>1. CASE n \notin DOMAIN SeedAnnouncement
    BY <1>3, <2>1 DEF Restart
  <2>2. CASE n \in DOMAIN SeedAnnouncement
    <3>1. announcements'[n] = [SeedAnnouncement[n] EXCEPT
                                 !.row = announcements[n].row]
      BY <1>3, <2>2 DEF Restart
    <3>2. SeedAnnouncement[n] \in Announcement
      BY <2>2, RecordsAssumption
    <3> QED
      BY <3>1, <3>2 DEF Announcement
  <2> QED
    BY <2>1, <2>2
<1> QED
  BY <1>1, <1>2, <1>3
     DEF Next, CreateApproval, CreateCalendarEvent, Authorise, Decide,
         CancelApprovalItem, UpdateCalendarEvent, DeleteCalendarEvent,
         ManageAnnouncement, RepositoryStep, LoadApproval, LoadEvent,
         LoadAnnouncement, UpdateApprovalStatus, SaveEvent, DeleteEventRow,
         RepositoryFails

\* A deleted record that no update has loaded does not come back, but for the
\* events of the seed, at a restart.
THEOREM DeletionsStand == Spec => GoneForGood
<1>1. TypeInv /\ [Next]_vars =>
        [\A x \in EventIDs \cup AnnouncementIDs :
           Gone(x) /\ ~(Restart /\ x \in DOMAIN SeedEvent) => Gone(x)']_vars
  <2> SUFFICES ASSUME TypeInv, Next, NEW x \in EventIDs \cup AnnouncementIDs,
                      Gone(x), ~(Restart /\ x \in DOMAIN SeedEvent)
               PROVE  Gone(x)'
    BY DEF vars
  <2>1. /\ x \in EventIDs => x \notin AnnouncementIDs
        /\ x \in AnnouncementIDs => x \notin EventIDs
        /\ x # None
    BY RecordsAssumption DEF RecordIDs
  <2>2. CASE x \in EventIDs
    <3>1. events[x].row = "deleted"
      BY <2>1, <2>2 DEF Gone
    <3>2. events'[x].row = "deleted"
      <4>1. events[x] # NoEvent /\ GoneEvent.row = "deleted"
        BY <3>1 DEF NoEvent, GoneEvent
      <4>2. \A r \in Requests : SaveEvent(r) => request[r].id # x
        BY DEF Gone, SaveEvent
      <4> QED
        BY <2>2, <3>1, <4>1, <4>2, EventMoves
    <3>3. ASSUME NEW r \in Requests,
                 request'[r].pc = "save", request'[r].id = x
          PROVE  request'[r].op \notin {"editEvent", "editAnnouncement"}
      BY <2>1, <2>2, <3>1, <3>3, RequestMoves, IdleType DEF Gone
    <3> QED
      BY <2>2, <3>2, <3>3 DEF Gone
  <2>3. CASE x \in AnnouncementIDs
    <3>1. announcements[x].row = "deleted"
      BY <2>1, <2>3 DEF Gone
    <3>2. announcements'[x].row = "deleted"
      BY <2>3, <3>1, AnnouncementMoves DEF Gone, NoAnnouncement
    <3>3. ASSUME NEW r \in Requests,
                 request'[r].pc = "save", request'[r].id = x
          PROVE  request'[r].op \notin {"editEvent", "editAnnouncement"}
      BY <2>1, <2>3, <3>1, <3>3, RequestMoves, IdleType DEF Gone
    <3> QED
      BY <2>3, <3>2, <3>3 DEF Gone
  <2> QED
    BY <2>2, <2>3
<1> QED
  BY <1>1, TypeInvariance, PTL DEF Spec, GoneForGood

-----------------------------------------------------------------------------
(* Events of the whole company.                                            *)

LEMMA CompanyInvariance == Spec => []CompanyInv
<1>1. Init => CompanyInv
  BY DEF Init, CompanyInv, Idle
<1>2. TypeInv /\ CompanyInv /\ [Next]_vars => CompanyInv'
  <2> SUFFICES ASSUME TypeInv, CompanyInv, [Next]_vars, NEW x \in Requests,
                      request'[x].pc # "idle", request'[x].op = "editEvent",
                      request'[x].visibility = "company"
               PROVE  IsAdmin(request'[x].user)
    BY DEF CompanyInv, IsAdmin
  <2>1. request \in [Requests -> RequestState]
    BY DEF TypeInv, TypeOK
  <2>2. CASE UNCHANGED request
    BY <2>2 DEF CompanyInv
  <2>3. ASSUME NEW r \in Requests, Authorise(r)
        PROVE  IsAdmin(request'[x].user)
    <3>1. CASE x = r
      BY <2>3, <3>1, AuthoriseMoves
    <3>2. CASE x # r
      <4>1. request'[x] = request[x]
        BY <2>3, <3>2, AuthoriseMoves
      <4> QED
        BY <4>1 DEF CompanyInv
    <3> QED
      BY <3>1, <3>2
  <2>4. ASSUME NEW r \in Requests, RepositoryStep(r)
        PROVE  IsAdmin(request'[x].user)
    <3>1. CASE Ends(r)
      BY <2>1, <3>1, IdleType DEF Ends, CompanyInv
    <3>2. CASE LoadApproval(r)
      BY <2>1, <3>2 DEF LoadApproval, RequestState, CompanyInv
    <3>3. CASE LoadEvent(r) /\ ~Ends(r)
      BY <2>1, <3>3 DEF LoadEvent, RequestState, CompanyInv
    <3>4. CASE LoadAnnouncement(r) /\ ~Ends(r)
      BY <2>1, <3>4 DEF LoadAnnouncement, RequestState, CompanyInv
    <3> QED
      BY <2>4, <3>1, <3>2, <3>3, <3>4
         DEF RepositoryStep, UpdateApprovalStatus, SaveEvent, DeleteEventRow,
             SaveAnnouncement, RepositoryFails
  <2>5. CASE Restart
    BY <2>5, IdleType DEF Restart
  <2> QED
    BY <2>2, <2>3, <2>4, <2>5
       DEF Next, vars, CreateApproval, CreateCalendarEvent,
           CreateAnnouncement
<1> QED
  BY <1>1, <1>2, TypeInvariance, PTL DEF Spec

\* An event comes to be seen by the whole company through an administrator, or
\* the seed, or by one of the texts that valueOrDefault makes "company" after the
\* check of UpdateCalendarEvent has taken them for something else.
THEOREM CompanyHasItsReasons == Spec => CompanyExplained
<1>1. TypeInv /\ CompanyInv /\ [Next]_vars =>
        [\A e \in EventIDs :
           /\ events[e].row # "unused"
           /\ events[e].visibility # "company"
           /\ events'[e].visibility = "company"
           => \/ \E r \in Requests :
                    /\ Writes(r, e)
                    /\ IsAdmin(request[r].user) \/ Untrimmed(request[r])
              \/ Restart /\ e \in DOMAIN SeedEvent]_vars
  <2> SUFFICES ASSUME TypeInv, CompanyInv, Next, NEW e \in EventIDs,
                      events[e].row # "unused",
                      events[e].visibility # "company",
                      events'[e].visibility = "company"
               PROVE  \/ \E r \in Requests :
                            /\ Writes(r, e)
                            /\ IsAdmin(request[r].user) \/ Untrimmed(request[r])
                      \/ Restart /\ e \in DOMAIN SeedEvent
    BY DEF vars
  <2>1. events'[e] # GoneEvent /\ events[e] # NoEvent
    BY RecordsAssumption DEF GoneEvent, NoEvent, Visibilities
  <2>2. CASE Restart /\ e \in DOMAIN SeedEvent
    BY <2>2
  <2>3. CASE \E r \in Requests :
               /\ SaveEvent(r) /\ request[r].id = e
               /\ events'[e].visibility = ValueOrDefault(
                    request[r].visibility, request[r].copy.visibility)
    <3>1. PICK r \in Requests :
            /\ SaveEvent(r) /\ request[r].id = e
            /\ ValueOrDefault(request[r].visibility,
                              request[r].copy.visibility) = "company"
      BY <2>3
    <3>2. /\ request[r].visibility \in Visibilities \cup {Blank, PaddedCompany}
          /\ request[r].copy.visibility \in Visibilities
      BY <3>1, RecordsAssumption
         DEF SaveEvent, TypeInv, Suited, Suits, Statuses, Event
    <3>3. \/ request[r].visibility \in {"company", PaddedCompany}
          \/ /\ request[r].visibility \in {None, Blank}
             /\ request[r].copy.visibility = "company"
      BY <3>1, <3>2, TrimmedVisibility DEF Asked
    <3>4. request[r].visibility # None
      BY <3>2, RecordsAssumption
    <3>5. request[r].visibility = "company" => IsAdmin(request[r].user)
      BY <3>1 DEF SaveEvent, CompanyInv
    <3>6. Writes(r, e)
      BY <3>1 DEF SaveEvent, Writes, Ends, TypeInv, TypeOK
    <3> QED
      BY <3>3, <3>4, <3>5, <3>6 DEF Untrimmed
  <2> QED
    BY <2>1, <2>2, <2>3, EventMoves
<1> QED
  BY <1>1, TypeInvariance, CompanyInvariance, PTL DEF Spec, CompanyExplained
=============================================================================
