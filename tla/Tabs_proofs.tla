----------------------------- MODULE Tabs_proofs -----------------------------
(***************************************************************************)
(* Theorems about Tabs, for every value of its constants that satisfies    *)
(* TabsAssumption: any users, teams, tabs, routes and requests.            *)
(***************************************************************************)
EXTENDS Tabs, TLAPS

-----------------------------------------------------------------------------
(* The inductive invariant.                                                *)

\* What a request past its check holds: a copy of a tab of its user, in scope
\* for others only if the user may publish.
Prepared(q) ==
  /\ q.pc # "idle" => q.user \in Users /\ q.tab \in TabIDs
  /\ q.pc \in {"create", "save"} =>
       /\ q.copy \in Tab
       /\ q.copy.owner = q.user
       /\ q.copy.scope # "self" => q.user \in Publishers
       /\ q.visibility # NoVisibility => q.copy.scope = q.visibility.scope
  /\ q.pc = "create" => q.visibility \in Visibility
  /\ q.pc \in {"save", "delete"} => q.tab \notin SystemTabs

AllPrepared == \A r \in Requests : Prepared(request[r])

\* A system tab is there for good.
SystemTabsStay == \A t \in SystemTabs : tabs[t] # NoTab

TabsInv == TypeOK /\ AllPrepared /\ SystemTabsStay /\ PublishersOnly

-----------------------------------------------------------------------------
(* Helpers.                                                                *)

\* The marks for what is missing are no values.
LEMMA MarksDiffer ==
  /\ NoTab \notin Tab
  /\ NoVisibility \notin Visibility
  /\ NoTab.owner = None /\ NoTab.scope # "self"
  BY DEF NoTab, Tab, Scopes, NoVisibility, Visibility

LEMMA IdleType == Idle \in RequestState /\ Prepared(Idle) /\ Idle.pc = "idle"
  BY DEF Idle, RequestState, Prepared

\* Fields of a visibility.
LEMMA VisibilityType ==
  ASSUME NEW v \in Visibility \cup {NoVisibility}
  PROVE  /\ v.targets \subseteq Targets
         /\ v.byDefault \in BOOLEAN
         /\ v # NoVisibility => v.scope \in Scopes
<1>1. CASE v = NoVisibility
  BY <1>1 DEF NoVisibility
<1>2. CASE v \in [scope : {"self", "company"}, targets : {{}},
                 byDefault : BOOLEAN]
  BY <1>2 DEF Scopes
<1>3. CASE v \in [scope : {"custom"}, targets : Audiences,
                 byDefault : BOOLEAN]
  <2>1. v.targets \in Audiences /\ v.byDefault \in BOOLEAN /\ v.scope = "custom"
    BY <1>3
  <2>2. v.targets \subseteq Targets
    BY <2>1, TabsAssumption
  <2> QED
    BY <2>1, <2>2 DEF Scopes
<1> QED
  BY <1>1, <1>2, <1>3 DEF Visibility

\* What Create stores of a copy.
LEMMA InsertedType ==
  ASSUME NEW copy \in Tab
  PROVE  LET tab == [copy EXCEPT !.byDefault = Inserted(@, TRUE)] IN
         /\ tab \in Tab
         /\ tab.owner = copy.owner
         /\ tab.scope = copy.scope
  BY DEF Tab, Inserted

\* A publication writes rows of the tab published only.
LEMMA PublishedType ==
  ASSUME rows \in [Users -> [TabIDs -> UserTab \cup {NoRow}]],
         NEW t \in TabIDs, NEW owner,
         NEW v \in Visibility \cup {NoVisibility}
  PROVE  Published(t, owner, v) \in [Users -> [TabIDs -> UserTab \cup {NoRow}]]
<1>1. [enabled |-> TRUE,
       source |-> IF v.scope = "self" THEN "self" ELSE "admin_publish"]
        \in UserTab
  BY DEF UserTab, Sources
<1> QED
  BY <1>1 DEF Published

-----------------------------------------------------------------------------
(* Type correctness and the right to publish.                              *)

LEMMA InitTabsInv == Init => TabsInv
<1> SUFFICES ASSUME Init PROVE TabsInv
  OBVIOUS
<1> USE TabsAssumption DEF Init
<1>1. tabs \in [TabIDs -> Tab \cup {NoTab}]
  BY DEF Tab, Scopes
<1>2. targets \in [TabIDs -> SUBSET Targets]
  OBVIOUS
<1>3. rows \in [Users -> [TabIDs -> UserTab \cup {NoRow}]]
  BY DEF UserTab, Sources
<1>4. request \in [Requests -> RequestState] /\ AllPrepared
  BY IdleType DEF AllPrepared
<1>5. \A t \in TabIDs : tabs[t].owner = None
  BY DEF NoTab
<1>6. \A t \in TabIDs : tabs[t].owner = None <=>
                          t \in SystemTabs \/ tabs[t] = NoTab
  BY <1>5
<1>7. SystemTabsStay
  BY DEF SystemTabsStay, NoTab
<1>8. PublishersOnly
  BY <1>5 DEF PublishersOnly
<1> QED
  BY <1>1, <1>2, <1>3, <1>4, <1>6, <1>7, <1>8 DEF TabsInv, TypeOK

\* A request that begins well prepared keeps the invariant.
LEMMA BeginsTabsInv ==
  ASSUME TabsInv, NEW r \in Requests, NEW pc, NEW u, NEW t, NEW copy, NEW v,
         Begins(r, pc, u, t, copy, v),
         LET q == [pc |-> pc, user |-> u, tab |-> t, copy |-> copy,
                   visibility |-> v]
         IN q \in RequestState /\ Prepared(q)
  PROVE  TabsInv'
<1> DEFINE q == [pc |-> pc, user |-> u, tab |-> t, copy |-> copy,
                 visibility |-> v]
<1>1. request' = [request EXCEPT ![r] = q] /\ UNCHANGED <<tabs, targets, rows>>
  BY DEF Begins
<1>2. q \in RequestState /\ Prepared(q)
  OBVIOUS
<1> HIDE DEF q
<1>3. TypeOK'
  BY <1>1, <1>2 DEF TabsInv, TypeOK
<1>4. AllPrepared'
  BY <1>1, <1>2 DEF TabsInv, TypeOK, AllPrepared
<1>5. SystemTabsStay' /\ PublishersOnly'
  BY <1>1 DEF TabsInv, SystemTabsStay, PublishersOnly
<1> QED
  BY <1>3, <1>4, <1>5 DEF TabsInv

\* A copy with the visibility of an update.
LEMMA ChangedType ==
  ASSUME NEW tab \in Tab, NEW v \in Visibility \cup {NoVisibility}
  PROVE  /\ Changed(tab, v) \in Tab
         /\ Changed(tab, v).owner = tab.owner
         /\ Changed(tab, v).scope =
              IF v = NoVisibility THEN tab.scope ELSE v.scope
  BY VisibilityType DEF Changed, Tab

LEMMA BeginTabsInv ==
  ASSUME TabsInv, NEW r \in Requests, Begin(r)
  PROVE  TabsInv'
<1> USE TabsAssumption
<1>1. CASE EnableTab(r)
  <2>1. PICK u \in Users, t \in TabIDs :
          Begins(r, "enable", u, t, NoTab, NoVisibility)
    BY <1>1 DEF EnableTab
  <2> QED
    BY <2>1, BeginsTabsInv DEF RequestState, Prepared
<1>2. CASE DisableTab(r)
  <2>1. PICK u \in Users, t \in TabIDs :
          Begins(r, "disable", u, t, NoTab, NoVisibility)
    BY <1>2 DEF DisableTab
  <2> QED
    BY <2>1, BeginsTabsInv DEF RequestState, Prepared
<1>3. CASE CreateCustomTab(r)
  <2>1. PICK u \in Users, t \in TabIDs, route \in Routes, v \in Visibility :
          /\ CanPublishTabVisibility(u, v)
          /\ Begins(r, "create", u, t,
                    [owner |-> u, scope |-> v.scope,
                     byDefault |-> v.byDefault, route |-> route], v)
    BY <1>3 DEF CreateCustomTab
  <2> DEFINE copy == [owner |-> u, scope |-> v.scope,
                      byDefault |-> v.byDefault, route |-> route]
  <2>2. copy \in Tab
    BY VisibilityType, MarksDiffer DEF Tab
  <2>3. [pc |-> "create", user |-> u, tab |-> t, copy |-> copy,
         visibility |-> v] \in RequestState
    BY <2>2 DEF RequestState
  <2>4. Prepared([pc |-> "create", user |-> u, tab |-> t, copy |-> copy,
                  visibility |-> v])
    BY <2>1, <2>2 DEF Prepared, CanPublishTabVisibility
  <2> QED
    BY <2>1, <2>3, <2>4, BeginsTabsInv
<1>4. CASE UpdateCustomTab(r)
  <2>1. PICK u \in Users, t \in TabIDs, v \in Visibility \cup {NoVisibility} :
          /\ tabs[t].owner = u
          /\ v # NoVisibility => CanPublishTabVisibility(u, v)
          /\ Begins(r, "save", u, t, Changed(tabs[t], v), v)
    BY <1>4 DEF UpdateCustomTab
  <2>2. tabs[t].owner # None
    BY <2>1
  <2>3. tabs[t] \in Tab /\ t \notin SystemTabs
    BY <2>2 DEF TabsInv, TypeOK
  <2>4. tabs[t].scope # "self" => u \in Publishers
    BY <2>1, <2>2 DEF TabsInv, PublishersOnly
  <2> DEFINE copy == Changed(tabs[t], v)
  <2>5. /\ copy \in Tab /\ copy.owner = u
        /\ copy.scope = IF v = NoVisibility THEN tabs[t].scope ELSE v.scope
    BY <2>1, <2>3, ChangedType
  <2> HIDE DEF copy
  <2>6. [pc |-> "save", user |-> u, tab |-> t, copy |-> copy,
         visibility |-> v] \in RequestState
    BY <2>5 DEF RequestState
  <2>7. Prepared([pc |-> "save", user |-> u, tab |-> t, copy |-> copy,
                  visibility |-> v])
    BY <2>1, <2>3, <2>4, <2>5 DEF Prepared, CanPublishTabVisibility
  <2>8. Begins(r, "save", u, t, copy, v)
    BY <2>1 DEF copy
  <2> QED
    BY <2>6, <2>7, <2>8, BeginsTabsInv
<1>5. CASE DeleteCustomTab(r)
  <2>1. PICK u \in Users, t \in TabIDs :
          /\ tabs[t].owner = u
          /\ Begins(r, "delete", u, t, NoTab, NoVisibility)
    BY <1>5 DEF DeleteCustomTab
  <2>2. t \notin SystemTabs
    BY <2>1 DEF TabsInv, TypeOK
  <2> QED
    BY <2>1, <2>2, BeginsTabsInv DEF RequestState, Prepared
<1> QED
  BY <1>1, <1>2, <1>3, <1>4, <1>5 DEF Begin

\* A request that ends leaves no copy behind.
LEMMA EndsPrepared ==
  ASSUME TabsInv, NEW r \in Requests, Ends(r)
  PROVE  request' \in [Requests -> RequestState] /\ AllPrepared'
<1>1. Idle \in RequestState /\ Prepared(Idle)
  BY IdleType
<1> QED
  BY <1>1 DEF TabsInv, TypeOK, AllPrepared, Ends

\* The write of a prepared tab.
LEMMA WritesTabsInv ==
  ASSUME TabsInv, NEW r \in Requests, request[r].pc \in {"create", "save"},
         request[r].tab \notin SystemTabs,
         NEW tab \in Tab, tab.owner = request[r].copy.owner,
         tab.scope = request[r].copy.scope,
         Writes(r, tab), Ends(r)
  PROVE  TabsInv'
<1> USE TabsAssumption
<1> DEFINE t == request[r].tab
           v == request[r].visibility
<1>1. /\ t \in TabIDs /\ t \notin SystemTabs
      /\ tab.owner \in Users
      /\ tab.scope # "self" => tab.owner \in Publishers
  BY DEF TabsInv, AllPrepared, Prepared
<1>2. v \in Visibility \cup {NoVisibility}
  BY DEF TabsInv, TypeOK, RequestState
<1>3. /\ tabs' = [tabs EXCEPT ![t] = tab]
      /\ targets' = IF v = NoVisibility THEN targets
                    ELSE [targets EXCEPT ![t] = StoredTargets(v)]
      /\ rows' = Published(t, request[r].user, v)
  BY DEF Writes
<1> HIDE DEF t, v
<1>4. tabs' \in [TabIDs -> Tab \cup {NoTab}]
  BY <1>1, <1>3 DEF TabsInv, TypeOK
<1>5. targets' \in [TabIDs -> SUBSET Targets]
  BY <1>1, <1>2, <1>3, VisibilityType DEF TabsInv, TypeOK, StoredTargets
<1>6. rows' \in [Users -> [TabIDs -> UserTab \cup {NoRow}]]
  BY <1>1, <1>2, <1>3, PublishedType DEF TabsInv, TypeOK
<1>7. \A x \in TabIDs : tabs'[x].owner = None <=>
                           x \in SystemTabs \/ tabs'[x] = NoTab
  BY <1>1, <1>3, MarksDiffer DEF TabsInv, TypeOK
<1>8. SystemTabsStay'
  BY <1>1, <1>3 DEF TabsInv, TypeOK, SystemTabsStay
<1>9. PublishersOnly'
  BY <1>1, <1>3 DEF TabsInv, TypeOK, PublishersOnly
<1> QED
  BY <1>4, <1>5, <1>6, <1>7, <1>8, <1>9, EndsPrepared DEF TabsInv, TypeOK

LEMMA WriteTabsInv ==
  ASSUME TabsInv, NEW r \in Requests, Write(r)
  PROVE  TabsInv'
<1> USE TabsAssumption
<1>1. ASSUME UNCHANGED <<tabs, targets, rows>>, Ends(r)
      PROVE  TabsInv'
  BY <1>1, EndsPrepared DEF TabsInv, TypeOK, SystemTabsStay, PublishersOnly
<1>2. CASE Enable(r) \/ Disable(r)
  <2>1. UNCHANGED <<tabs, targets>> /\ Ends(r)
    BY <1>2 DEF Enable, Disable
  <2>2. request[r].user \in Users /\ request[r].tab \in TabIDs
    BY <1>2 DEF TabsInv, AllPrepared, Prepared, Enable, Disable
  <2>3. /\ [enabled |-> TRUE, source |-> "user_add"] \in UserTab
        /\ [enabled |-> Inserted(FALSE, TRUE), source |-> "user_disabled"]
             \in UserTab
    BY DEF UserTab, Sources, Inserted
  <2>4. PICK row \in UserTab :
          rows' = [rows EXCEPT ![request[r].user][request[r].tab] = row]
    BY <1>2, <2>3 DEF Enable, Disable
  <2>5. rows' \in [Users -> [TabIDs -> UserTab \cup {NoRow}]]
    BY <2>2, <2>4 DEF TabsInv, TypeOK
  <2> QED
    BY <2>1, <2>5, EndsPrepared
       DEF TabsInv, TypeOK, SystemTabsStay, PublishersOnly
<1>3. ASSUME request[r].pc \in {"create", "save"}
      PROVE  LET tab == [request[r].copy EXCEPT !.byDefault = Inserted(@, TRUE)]
             IN /\ request[r].copy \in Tab /\ tab \in Tab
                /\ tab.owner = request[r].copy.owner
                /\ tab.scope = request[r].copy.scope
  <2>1. request[r].copy \in Tab
    BY <1>3 DEF TabsInv, AllPrepared, Prepared
  <2> QED
    BY <2>1, InsertedType
<1>4. CASE CreateCustom(r)
  <2>1. request[r].pc = "create" /\ Ends(r)
    BY <1>4 DEF CreateCustom
  <2>2. CASE UNCHANGED <<tabs, targets, rows>>
    BY <1>1, <2>1, <2>2
  <2>3. CASE ~UNCHANGED <<tabs, targets, rows>>
    <3>1. /\ tabs[request[r].tab] = NoTab
          /\ Writes(r, [request[r].copy EXCEPT !.byDefault = Inserted(@, TRUE)])
      BY <1>4, <2>3 DEF CreateCustom
    <3>2. request[r].tab \notin SystemTabs
      BY <3>1 DEF TabsInv, SystemTabsStay
    <3> QED
      BY <1>3, <2>1, <3>1, <3>2, WritesTabsInv
  <2> QED
    BY <2>2, <2>3
<1>5. CASE UpdateCustom(r)
  <2>1. request[r].pc = "save" /\ Ends(r)
    BY <1>5 DEF UpdateCustom
  <2>2. request[r].tab \notin SystemTabs
    BY <2>1 DEF TabsInv, AllPrepared, Prepared
  <2>3. \/ UNCHANGED <<tabs, targets, rows>>
        \/ Writes(r, [request[r].copy EXCEPT !.byDefault = Inserted(@, TRUE)])
        \/ Writes(r, request[r].copy)
    BY <1>5 DEF UpdateCustom
  <2> QED
    BY <1>1, <1>3, <2>1, <2>2, <2>3, WritesTabsInv
<1>6. CASE DeleteCustom(r)
  <2> DEFINE t == request[r].tab
  <2>1. t \in TabIDs \ SystemTabs /\ Ends(r)
    BY <1>6 DEF DeleteCustom, TabsInv, AllPrepared, Prepared
  <2>2. /\ tabs' = [tabs EXCEPT ![t] = NoTab]
        /\ targets' = [targets EXCEPT ![t] = {}]
        /\ rows' = [u \in Users |-> [rows[u] EXCEPT ![t] = NoRow]]
    BY <1>6 DEF DeleteCustom
  <2> HIDE DEF t
  <2>3. /\ tabs' \in [TabIDs -> Tab \cup {NoTab}]
        /\ targets' \in [TabIDs -> SUBSET Targets]
        /\ rows' \in [Users -> [TabIDs -> UserTab \cup {NoRow}]]
    BY <2>2 DEF TabsInv, TypeOK
  <2>4. \A x \in TabIDs : tabs'[x].owner = None <=>
                             x \in SystemTabs \/ tabs'[x] = NoTab
    BY <2>1, <2>2, MarksDiffer DEF TabsInv, TypeOK
  <2>5. SystemTabsStay' /\ PublishersOnly'
    BY <2>1, <2>2, MarksDiffer
       DEF TabsInv, TypeOK, SystemTabsStay, PublishersOnly
  <2> QED
    BY <2>1, <2>3, <2>4, <2>5, EndsPrepared DEF TabsInv, TypeOK
<1>7. CASE RepositoryFails(r)
  BY <1>1, <1>7 DEF RepositoryFails
<1> QED
  BY <1>2, <1>4, <1>5, <1>6, <1>7 DEF Write

LEMMA TabsInvariance == Spec => []TabsInv
<1>1. TabsInv /\ [Next]_vars => TabsInv'
  <2> SUFFICES ASSUME TabsInv, [Next]_vars PROVE TabsInv'
    OBVIOUS
  <2>1. CASE Next
    BY <2>1, BeginTabsInv, WriteTabsInv DEF Next
  <2>2. CASE UNCHANGED vars
    BY <2>2 DEF vars, TabsInv, TypeOK, AllPrepared, SystemTabsStay,
                PublishersOnly, Prepared
  <2> QED
    BY <2>1, <2>2
<1> QED
  BY <1>1, InitTabsInv, PTL DEF Spec

\* Every variable keeps its type, and the tabs without an owner are the seed's.
THEOREM TypeCorrect == Spec => []TypeOK
  BY TabsInvariance, PTL DEF TabsInv

\* Only those who may publish have tabs for others, whatever comes between the
\* check of a publication and its write.
THEOREM SharedByPublishers == Spec => []PublishersOnly
  BY TabsInvariance, PTL DEF TabsInv

-----------------------------------------------------------------------------
(* Who changes what.                                                       *)

\* The tables change by the write of one request, which ends.
LEMMA TablesMove ==
  ASSUME TabsInv, Next, <<tabs, targets, rows>>' # <<tabs, targets, rows>>
  PROVE  \E r \in Requests : /\ request[r].pc # "idle"
                             /\ Ends(r) /\ request'[r] = Idle
                             /\ \/ Enable(r) \/ Disable(r) \/ DeleteCustom(r)
                                \/ CreateCustom(r) \/ UpdateCustom(r)
<1>1. PICK r \in Requests : Begin(r) \/ Write(r)
  BY DEF Next
<1>2. ~Begin(r) /\ ~RepositoryFails(r)
  BY DEF Begin, EnableTab, DisableTab, CreateCustomTab, UpdateCustomTab,
         DeleteCustomTab, Begins, RepositoryFails
<1>3. \/ Enable(r) \/ Disable(r) \/ DeleteCustom(r)
      \/ CreateCustom(r) \/ UpdateCustom(r)
  BY <1>1, <1>2 DEF Write
<1>4. request[r].pc # "idle" /\ Ends(r)
  BY <1>3 DEF Enable, Disable, DeleteCustom, CreateCustom, UpdateCustom
<1>5. request'[r] = Idle
  BY <1>4 DEF Ends, TabsInv, TypeOK
<1> QED
  BY <1>3, <1>4, <1>5

\* A creation or an update changes nothing, or writes the copy.
LEMMA PublicationMoves ==
  ASSUME TabsInv, NEW r \in Requests, CreateCustom(r) \/ UpdateCustom(r)
  PROVE  \/ UNCHANGED <<tabs, targets, rows>>
         \/ \E tab \in Tab :
              /\ Writes(r, tab)
              /\ tab.owner = request[r].user
              /\ tab.scope = request[r].copy.scope
              /\ CreateCustom(r) => tabs[request[r].tab] = NoTab
<1>1. /\ request[r].pc \in {"create", "save"}
      /\ request[r].copy \in Tab /\ request[r].copy.owner = request[r].user
  BY DEF CreateCustom, UpdateCustom, TabsInv, AllPrepared, Prepared
<1> DEFINE new == [request[r].copy EXCEPT !.byDefault = Inserted(@, TRUE)]
<1>2. new \in Tab /\ new.owner = request[r].user
      /\ new.scope = request[r].copy.scope
  BY <1>1, InsertedType
<1>3. CASE CreateCustom(r)
  <2>1. \/ UNCHANGED <<tabs, targets, rows>>
        \/ tabs[request[r].tab] = NoTab /\ Writes(r, new)
    BY <1>3 DEF CreateCustom
  <2> QED
    BY <1>2, <2>1
<1>4. CASE UpdateCustom(r)
  <2>1. request[r].pc = "save"
    BY <1>4 DEF UpdateCustom
  <2>2. ~CreateCustom(r)
    BY <2>1 DEF CreateCustom
  <2>3. \/ UNCHANGED <<tabs, targets, rows>>
        \/ Writes(r, new)
        \/ Writes(r, request[r].copy)
    BY <1>4 DEF UpdateCustom
  <2> HIDE DEF new
  <2> QED
    BY <1>1, <1>2, <2>2, <2>3
<1> QED
  BY <1>3, <1>4

\* An owner's tab follows the owner's requests.
THEOREM OwnersKeepTheirTabs == Spec => OwnersDecide
<1> DEFINE Follows(t) ==
      Kept(t) =>
       /\ \/ Kept(t)' /\ tabs'[t].owner = tabs[t].owner
          \/ tabs'[t] = NoTab
       /\ <<tabs[t], targets[t]>>' # <<tabs[t], targets[t]>>
          => \E r \in Requests : /\ request[r].user = tabs[t].owner
                                 /\ request[r].pc \in {"save", "delete"}
                                 /\ request[r].tab = t
                                 /\ request'[r] = Idle
<1>1. TabsInv /\ [Next]_vars => [\A t \in TabIDs : Follows(t)]_vars
  <2> SUFFICES ASSUME TabsInv, Next, NEW t \in TabIDs, Kept(t)
               PROVE  Follows(t)
    OBVIOUS
  <2>1. tabs[t] # NoTab
    BY TabsAssumption, MarksDiffer DEF Kept
  <2>2. CASE UNCHANGED <<tabs, targets, rows>>
    <3> SUFFICES Kept(t)'
      BY <2>2
    <3>1. PICK r \in Requests : Begin(r) \/ Write(r)
      BY DEF Next
    <3>2. CASE Ends(r)
      BY <2>2, <3>2, IdleType DEF Kept, Ends, TabsInv, TypeOK
    <3>3. CASE EnableTab(r) \/ DisableTab(r) \/ CreateCustomTab(r)
      <4>1. request'[r].pc \notin {"save", "delete"}
        BY <3>3 DEF EnableTab, DisableTab, CreateCustomTab, Begins, TabsInv,
                    TypeOK
      <4>2. \A s \in Requests \ {r} : request'[s] = request[s]
        BY <3>3 DEF EnableTab, DisableTab, CreateCustomTab, Begins, TabsInv,
                    TypeOK
      <4> QED
        BY <2>2, <4>1, <4>2 DEF Kept
    <3>4. CASE UpdateCustomTab(r) \/ DeleteCustomTab(r)
      <4>1. PICK u, x, pc, copy, v :
              /\ tabs[x].owner = u
              /\ Begins(r, pc, u, x, copy, v)
        <5>1. CASE UpdateCustomTab(r)
          BY <5>1, Zenon DEF UpdateCustomTab
        <5>2. CASE DeleteCustomTab(r)
          BY <5>2, Zenon DEF DeleteCustomTab
        <5> QED
          BY <3>4, <5>1, <5>2
      <4>2. request'[r].user = u /\ request'[r].tab = x
        BY <4>1 DEF Begins, TabsInv, TypeOK
      <4>3. \A s \in Requests \ {r} : request'[s] = request[s]
        BY <4>1 DEF Begins, TabsInv, TypeOK
      <4> QED
        BY <2>2, <4>1, <4>2, <4>3 DEF Kept
    <3>5. Write(r) => Ends(r)
      BY DEF Write, Enable, Disable, CreateCustom, UpdateCustom,
             DeleteCustom, RepositoryFails
    <3> QED
      BY <3>1, <3>2, <3>3, <3>4, <3>5 DEF Begin
  <2>3. CASE ~UNCHANGED <<tabs, targets, rows>>
    <3>1. PICK r \in Requests : /\ Ends(r) /\ request'[r] = Idle
                               /\ \/ Enable(r) \/ Disable(r) \/ DeleteCustom(r)
                                  \/ CreateCustom(r) \/ UpdateCustom(r)
      BY <2>3, TablesMove
    <3>2. \A s \in Requests : request'[s].pc \in {"save", "delete"}
                               => request'[s] = request[s]
      BY <3>1, IdleType DEF Ends, TabsInv, TypeOK
    <3>3. tabs'[t].owner = tabs[t].owner => Kept(t)'
      BY <3>2 DEF Kept
    <3>4. CASE Enable(r) \/ Disable(r)
      BY <3>3, <3>4 DEF Enable, Disable
    <3>5. CASE DeleteCustom(r)
      <4>1. /\ request[r].pc = "delete"
            /\ tabs' = [tabs EXCEPT ![request[r].tab] = NoTab]
            /\ targets' = [targets EXCEPT ![request[r].tab] = {}]
        BY <3>5 DEF DeleteCustom
      <4>2. CASE request[r].tab = t
        BY <3>1, <4>1, <4>2 DEF Kept, TabsInv, TypeOK
      <4>3. CASE request[r].tab # t
        BY <3>3, <4>1, <4>3 DEF TabsInv, TypeOK
      <4> QED
        BY <4>2, <4>3
    <3>6. CASE CreateCustom(r) \/ UpdateCustom(r)
      <4>1. PICK tab \in Tab :
              /\ Writes(r, tab)
              /\ tab.owner = request[r].user
              /\ CreateCustom(r) => tabs[request[r].tab] = NoTab
        BY <2>3, <3>6, PublicationMoves
      <4>2. CASE request[r].tab = t
        <5>1. request[r].pc = "save"
          BY <2>1, <3>6, <4>1, <4>2 DEF UpdateCustom
        <5>2. request[r].user = tabs[t].owner
          BY <4>2, <5>1 DEF Kept
        <5>3. tabs'[t].owner = tabs[t].owner
          BY <4>1, <4>2, <5>2 DEF Writes, TabsInv, TypeOK
        <5> QED
          BY <3>1, <3>3, <4>2, <5>1, <5>2, <5>3
      <4>3. CASE request[r].tab # t
        <5>1. tabs'[t] = tabs[t] /\ targets'[t] = targets[t]
          BY <4>1, <4>3 DEF Writes, TabsInv, TypeOK
        <5> QED
          BY <3>3, <5>1
      <4> QED
        BY <4>2, <4>3
    <3> QED
      BY <3>1, <3>4, <3>5, <3>6
  <2> QED
    BY <2>2, <2>3
<1> QED
  BY <1>1, TabsInvariance, PTL DEF Spec, OwnersDecide

\* Whom a tab is published to sees it: what resolveTargetUserIDs finds,
\* visibleTabQuery lets through.
LEMMA PublishedVisible ==
  ASSUME TabsInv, NEW r \in Requests, NEW tab \in Tab, Writes(r, tab),
         tab.owner = request[r].user, tab.scope = request[r].visibility.scope,
         request[r].visibility \in Visibility,
         NEW t \in TabIDs, request[r].tab = t,
         NEW u \in TargetUsers(request[r].user, request[r].visibility)
  PROVE  Visible(u, t)'
<1> DEFINE v == request[r].visibility
<1>1. tabs'[t] = tab /\ targets'[t] = v.targets
  BY MarksDiffer DEF Writes, StoredTargets, TabsInv, TypeOK
<1>2. tabs'[t] # NoTab
  BY <1>1, MarksDiffer
<1>3. \/ tab.owner = u
      \/ tab.scope = "company"
      \/ ({u} \cup TeamsOf[u]) \cap v.targets # {}
  BY DEF TargetUsers
<1> QED
  BY <1>1, <1>2, <1>3 DEF Visible

\* A user's row changes by the user, by the deletion of the tab, or by a
\* publisher whose tab the user sees.
THEOREM RowsHaveTheirReasons == Spec => RowsByUserOrPublisher
<1> DEFINE Reason(u, t) ==
      \E r \in Requests :
         /\ request[r].tab = t /\ request'[r] = Idle
         /\ \/ request[r].user = u
            \/ request[r].pc = "delete" /\ rows'[u][t] = NoRow
            \/ /\ request[r].user \in Publishers
               /\ rows'[u][t].enabled
               /\ Visible(u, t)'
<1>1. TabsInv /\ [Next]_vars =>
        [\A u \in Users, t \in TabIDs :
           rows'[u][t] # rows[u][t] => Reason(u, t)]_vars
  <2> SUFFICES ASSUME TabsInv, Next, NEW u \in Users, NEW t \in TabIDs,
                      rows'[u][t] # rows[u][t]
               PROVE  Reason(u, t)
    OBVIOUS
  <2>1. PICK r \in Requests : /\ Ends(r) /\ request'[r] = Idle
                             /\ \/ Enable(r) \/ Disable(r) \/ DeleteCustom(r)
                                \/ CreateCustom(r) \/ UpdateCustom(r)
    BY TablesMove
  <2>2. CASE Enable(r) \/ Disable(r)
    <3>1. request[r].tab = t /\ request[r].user = u
      BY <2>2 DEF Enable, Disable, TabsInv, TypeOK
    <3> QED
      BY <2>1, <3>1
  <2>3. CASE DeleteCustom(r)
    <3>1. /\ request[r].pc = "delete"
          /\ rows' = [x \in Users |-> [rows[x] EXCEPT ![request[r].tab] = NoRow]]
      BY <2>3 DEF DeleteCustom
    <3>2. request[r].tab = t /\ rows'[u][t] = NoRow
      BY <3>1 DEF TabsInv, TypeOK
    <3> QED
      BY <2>1, <3>1, <3>2
  <2>4. CASE CreateCustom(r) \/ UpdateCustom(r)
    <3> DEFINE v == request[r].visibility
    <3>1. PICK tab \in Tab :
            /\ Writes(r, tab)
            /\ tab.owner = request[r].user
            /\ tab.scope = request[r].copy.scope
      BY <2>4, PublicationMoves
    <3>2. rows' = Published(request[r].tab, request[r].user, v)
      BY <3>1 DEF Writes
    <3>3. /\ v.byDefault
          /\ u \in TargetUsers(request[r].user, v)
          /\ request[r].tab = t
          /\ rows'[u][t].enabled
      BY <3>2 DEF Published, TabsInv, TypeOK
    <3>4. v \in Visibility
      BY <3>3 DEF TabsInv, TypeOK, RequestState, NoVisibility
    <3>5. /\ request[r].copy.scope = v.scope
          /\ v.scope # "self" => request[r].user \in Publishers
      BY <2>4, <3>4, MarksDiffer
         DEF CreateCustom, UpdateCustom, TabsInv, AllPrepared, Prepared
    <3>6. Visible(u, t)'
      BY <3>1, <3>3, <3>4, <3>5, PublishedVisible
    <3>7. v.scope = "self" => request[r].user = u
      BY <3>3 DEF TargetUsers
    <3> QED
      BY <2>1, <3>3, <3>5, <3>6, <3>7
  <2> QED
    BY <2>1, <2>2, <2>3, <2>4
<1> QED
  BY <1>1, TabsInvariance, PTL DEF Spec, RowsByUserOrPublisher
=============================================================================
