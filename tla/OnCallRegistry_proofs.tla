----------------------- MODULE OnCallRegistry_proofs -----------------------
(***************************************************************************)
(* Proofs about OnCallStream: the user limiter, the registry of active     *)
(* streams and the replies that are saved.                                 *)
(***************************************************************************)
EXTENDS OnCallStream_proofs

-----------------------------------------------------------------------------
(* The user limiter. *)

\* Sessions may be infinitely many: that a user holds finitely many keys is
\* part of the invariant.
UserSlotsInv ==
  /\ UserSlotsBalanced
  /\ \A u \in Users : IsFiniteSet(Held(u))

LEMMA InitUserSlots == Init => UserSlotsInv
  <1> SUFFICES ASSUME Init PROVE UserSlotsInv
    OBVIOUS
  <1>1. \A u \in Users : Held(u) = {}
    BY DEF Init, Held
  <1> QED
    BY <1>1, FS_EmptySet, LimitTypes DEF UserSlotsInv, UserSlotsBalanced

\* What holds a key goes on holding it.
LEMMA UserSlotsFrame ==
  ASSUME UserSlotsInv, UNCHANGED slot,
         \A r \in Requests : HoldsUser(r) =>
           /\ HoldsUser(r)'
           /\ req'[r].user = req[r].user /\ req'[r].sess = req[r].sess
  PROVE  UserSlotsInv'
  <1>1. \A u \in Users : Held(u)' = Held(u)
    BY DEF Held
  <1>2. \A r \in Requests : HoldsUser(r) => KeyOf(r)' = KeyOf(r)
    BY DEF KeyOf
  <1>3. \A r : IdOf(r)' = IdOf(r)
    BY DEF IdOf
  <1> QED
    BY <1>1, <1>2, <1>3 DEF UserSlotsInv, UserSlotsBalanced

\* Only TryAcquireStream and ReleaseStream change the limiter, and only the
\* latter ends a request's hold.
LEMMA ProgramStepUserSlots ==
  ASSUME TypeInv, UserSlotsInv, NEW r \in Requests, ProgramStep(r),
         ~TryAcquireStream(r), ~ReleaseStream(r)
  PROVE  UserSlotsInv'
  <1> USE TypeInvParts
  <1>1. Moves(r) /\ UNCHANGED aiAvailable
    BY ProgramStepMoves, ProgramStepFrame
  <1>2. UNCHANGED slot /\ ~At(r, "relUser")
    BY DEF ProgramStep, Local, Relay, FindMessageFails, ReplayExisting,
       NoExisting, RegisterActiveStream, UseMock, UserBusy, TryAcquire,
       TooManyRequests, EmitStatus, AttemptCancelled, MockText, MockDone,
       Release, SaveUnfinished, UnregisterActiveStream, RelayDelta,
       RelayTool, RelayDone, RelayError, AttemptCompletes, AttemptFails,
       limits, At
  <1>3. HoldsUser(r) => HoldsUser(r)'
    BY <1>1, <1>2, MovesOne DEF HoldsUser, UserPCs, GlobalPCs, Flow,
       ReturnsTo, At
  <1>4. \A r2 \in Requests \ {r} : HoldsUser(r2)' <=> HoldsUser(r2)
    BY <1>1, MovesOne DEF HoldsUser
  <1>5. \A r2 \in Requests :
          req'[r2].user = req[r2].user /\ req'[r2].sess = req[r2].sess
    BY <1>1, MovesOne
  <1> QED
    BY <1>2, <1>3, <1>4, <1>5, UserSlotsFrame

LEMMA TryAcquireStreamUserSlots ==
  ASSUME TypeInv, UserSlotsInv, NEW r \in Requests, TryAcquireStream(r)
  PROVE  UserSlotsInv'
  <1> USE TypeInvParts
  <1>1. PICK u \in Users, k \in Keys :
          /\ u = req[r].user /\ k = KeyOf(r) /\ At(r, "user") /\ aiAvailable
          /\ UNCHANGED aiAvailable
          /\ k \in Held(u) \/ Cardinality(Held(u)) < UserLimit
          /\ slot' = [slot EXCEPT ![u][k] = IdOf(r)]
    <2>1. req[r].user \in Users /\ KeyOf(r) \in Keys
      BY DEF TryAcquireStream, At, KeyOf, Keys, RequestsTyped, Located, Requests
    <2> QED
      BY <2>1 DEF TryAcquireStream, repo
  <1>2. /\ HoldsUser(r)' /\ ~HoldsUser(r)
        /\ req'[r].user = u /\ req'[r].sess = req[r].sess
        /\ \A r2 \in Requests \ {r} : req'[r2] = req[r2]
    BY <1>1 DEF TryAcquireStream, Goto, At, HoldsUser, UserPCs, GlobalPCs,
       RequestsTyped, RequestState
  <1>3. KeyOf(r)' = k /\ \A r2 \in Requests \ {r} : KeyOf(r2)' = KeyOf(r2)
    BY <1>1, <1>2 DEF KeyOf
  <1>4. /\ slot'[u][k] = IdOf(r)
        /\ \A u2 \in Users, k2 \in Keys :
             (u2 # u \/ k2 # k) => slot'[u2][k2] = slot[u2][k2]
    BY <1>1 DEF StoreTyped
  <1>5. \A u2 \in Users \ {u} : Held(u2)' = Held(u2)
    BY <1>4 DEF Held
  <1>6. Held(u)' \in SUBSET (Held(u) \cup {k})
    BY <1>1, <1>4 DEF Held
  <1>7. IsFiniteSet(Held(u)') /\ Cardinality(Held(u)') <= UserLimit
    <2>1. IsFiniteSet(Held(u)) /\ Cardinality(Held(u)) <= UserLimit
      BY <1>1 DEF UserSlotsInv, UserSlotsBalanced
    <2>2. /\ IsFiniteSet(Held(u) \cup {k})
          /\ Cardinality(Held(u) \cup {k}) <= UserLimit
      <3>1. /\ IsFiniteSet(Held(u) \cup {k})
            /\ Cardinality(Held(u) \cup {k}) =
                 IF k \in Held(u) THEN Cardinality(Held(u))
                                  ELSE Cardinality(Held(u)) + 1
        BY <2>1, FS_AddElement
      <3>2. Cardinality(Held(u)) \in Nat
        BY <2>1, FS_CardinalityType
      <3> QED
        BY <1>1, <2>1, <3>1, <3>2, LimitTypes
    <2>3. /\ IsFiniteSet(Held(u)')
          /\ Cardinality(Held(u)') <= Cardinality(Held(u) \cup {k})
      BY <1>6, <2>2, FS_Subset
    <2> QED
      BY <2>2, <2>3, FS_CardinalityType, LimitTypes
  <1>8. ASSUME NEW u2 \in Users, NEW k2 \in Held(u2)'
        PROVE  \E w \in Requests :
                 /\ HoldsUser(w)' /\ req'[w].user = u2
                 /\ KeyOf(w)' = k2 /\ slot'[u2][k2] = IdOf(w)
    <2>1. CASE u2 = u /\ k2 = k
      BY <1>2, <1>3, <1>4, <2>1
    <2>2. CASE u2 # u \/ k2 # k
      <3>1. k2 \in Keys /\ slot'[u2][k2] = slot[u2][k2] /\ k2 \in Held(u2)
        BY <1>4, <2>2 DEF Held
      <3>2. PICK w \in Requests :
              /\ HoldsUser(w) /\ req[w].user = u2
              /\ KeyOf(w) = k2 /\ slot[u2][k2] = IdOf(w)
        BY <3>1 DEF UserSlotsInv, UserSlotsBalanced
      <3>3. w # r /\ req'[w] = req[w] /\ KeyOf(w)' = KeyOf(w) /\ HoldsUser(w)'
        BY <1>1, <1>2, <1>3, <3>2 DEF HoldsUser
      <3> QED
        BY <3>1, <3>2, <3>3
    <2> QED
      BY <2>1, <2>2
  <1>9. \A w : IdOf(w)' = IdOf(w)
    BY DEF IdOf
  <1> QED
    BY <1>5, <1>7, <1>8, <1>9 DEF UserSlotsInv, UserSlotsBalanced

LEMMA ReleaseStreamUserSlots ==
  ASSUME TypeInv, UserSlotsInv, NEW r \in Requests, ReleaseStream(r)
  PROVE  UserSlotsInv'
  <1> USE TypeInvParts
  <1>1. PICK u \in Users, k \in Keys :
          /\ u = req[r].user /\ k = KeyOf(r) /\ UNCHANGED aiAvailable
          /\ slot' = IF IdOf(r) = NoId \/ slot[u][k] = IdOf(r)
                     THEN [slot EXCEPT ![u][k] = None]
                     ELSE slot
    <2>1. req[r].user \in Users /\ KeyOf(r) \in Keys
      BY DEF ReleaseStream, At, KeyOf, Keys, RequestsTyped, Located, Requests
    <2> QED
      BY <2>1 DEF ReleaseStream, repo
  <1>2. \A r2 \in Requests \ {r} : req'[r2] = req[r2]
    BY DEF ReleaseStream, Goto, RequestsTyped
  <1>3. \A r2 \in Requests \ {r} : KeyOf(r2)' = KeyOf(r2)
    BY <1>2 DEF KeyOf
  <1>4. \A u2 \in Users, k2 \in Keys :
          slot'[u2][k2] # None =>
            /\ slot'[u2][k2] = slot[u2][k2]
            /\ ~(u2 = u /\ k2 = k /\ slot[u2][k2] = IdOf(r))
    BY <1>1 DEF StoreTyped
  <1>5. \A u2 \in Users : Held(u2)' \in SUBSET Held(u2)
    BY <1>4 DEF Held
  <1>6. \A u2 \in Users :
          IsFiniteSet(Held(u2)') /\ Cardinality(Held(u2)') <= UserLimit
    <2> TAKE u2 \in Users
    <2>1. IsFiniteSet(Held(u2)) /\ Cardinality(Held(u2)) <= UserLimit
      BY DEF UserSlotsInv, UserSlotsBalanced
    <2>2. /\ IsFiniteSet(Held(u2)')
          /\ Cardinality(Held(u2)') <= Cardinality(Held(u2))
      BY <1>5, <2>1, FS_Subset
    <2> QED
      BY <2>1, <2>2, FS_CardinalityType, LimitTypes
  <1>7. ASSUME NEW u2 \in Users, NEW k2 \in Held(u2)'
        PROVE  \E w \in Requests :
                 /\ HoldsUser(w)' /\ req'[w].user = u2
                 /\ KeyOf(w)' = k2 /\ slot'[u2][k2] = IdOf(w)
    <2>1. k2 \in Keys /\ slot'[u2][k2] # None /\ k2 \in Held(u2)
      BY <1>5 DEF Held
    <2>2. PICK w \in Requests :
            /\ HoldsUser(w) /\ req[w].user = u2
            /\ KeyOf(w) = k2 /\ slot[u2][k2] = IdOf(w)
      BY <2>1 DEF UserSlotsInv, UserSlotsBalanced
    <2>3. w # r
      BY <1>1, <1>4, <2>1, <2>2
    <2>4. req'[w] = req[w] /\ KeyOf(w)' = KeyOf(w) /\ HoldsUser(w)'
      BY <1>1, <1>2, <1>3, <2>2, <2>3 DEF HoldsUser
    <2> QED
      BY <1>4, <2>1, <2>2, <2>4
  <1>8. \A w : IdOf(w)' = IdOf(w)
    BY DEF IdOf
  <1> QED
    BY <1>6, <1>7, <1>8 DEF UserSlotsInv, UserSlotsBalanced

LEMMA NextUserSlots ==
  ASSUME TypeInv, UserSlotsInv, [Next]_vars
  PROVE  UserSlotsInv'
  <1>1. CASE UNCHANGED vars
    BY <1>1, UserSlotsFrame DEF vars, repo, limits, HoldsUser
  <1>2. CASE ActorStep
    BY <1>2, ActorStepFrame, UserSlotsFrame DEF HoldsUser
  <1>3. ASSUME NEW r \in Requests, FindMessage(r) \/ BeginChat(r)
        PROVE  UserSlotsInv'
    <2>1. ~HoldsUser(r)
      BY <1>3, BeginMoves DEF HoldsUser, UserPCs, GlobalPCs
    <2>2. \A r2 \in Requests \ {r} :
            req'[r2] = req[r2] /\ (HoldsUser(r2)' <=> HoldsUser(r2))
      BY <1>3, BeginMoves DEF HoldsUser
    <2>3. UNCHANGED slot
      BY <1>3, BeginMoves
    <2> QED
      BY <2>1, <2>2, <2>3, UserSlotsFrame
  <1>4. ASSUME NEW r \in Requests, ProgramStep(r) PROVE UserSlotsInv'
    BY <1>4, ProgramStepUserSlots, TryAcquireStreamUserSlots,
       ReleaseStreamUserSlots
  <1> QED
    BY <1>1, <1>2, <1>3, <1>4, Steps

\* A user never holds more keys than the limit, and every key is held for a
\* request that will release it.
THEOREM UserSlots == Spec => []UserSlotsBalanced
  <1>1. UserSlotsInv => UserSlotsBalanced
    BY DEF UserSlotsInv
  <1> QED
    BY TypeInvariant, InitUserSlots, NextUserSlots, <1>1, PTL DEF Spec

-----------------------------------------------------------------------------
(* The registry of active streams. *)

\* A stream that has not been cancelled is the registered one of its session.
LiveStreamRegistered ==
  \A r \in SessionRequests :
    Registered(r) /\ ~Cancelled(r) => activeStreams[req[r].sess] = r

LEMMA LiveStreamIsOne == LiveStreamRegistered => OneLiveStreamPerSession
  BY DEF LiveStreamRegistered, OneLiveStreamPerSession

\* Steps that register no stream and cancel none that was not cancelled.
LEMMA RegistryFrame ==
  ASSUME LiveStreamRegistered, UNCHANGED activeStreams,
         \A r \in SessionRequests : Registered(r)' =>
           Registered(r) /\ req'[r].sess = req[r].sess,
         \A r \in SessionRequests : Cancelled(r) => Cancelled(r)'
  PROVE  LiveStreamRegistered'
  BY DEF LiveStreamRegistered

LEMMA ActorStepRegistry ==
  ASSUME TypeInv, LiveStreamRegistered, ActorStep
  PROVE  LiveStreamRegistered'
  <1> USE TypeInvParts
  <1>0. \A r \in SessionRequests : Registered(r)' <=> Registered(r)
    BY ActorStepFrame DEF Registered
  <1>1. CASE \E s \in Sessions : CreateSession(s) \/ AddUserMessage(s)
    BY <1>0, <1>1, RegistryFrame DEF CreateSession, AddUserMessage, streams,
       Cancelled
  <1>2. CASE \E r \in Requests : ClientGone(r)
    BY <1>0, <1>2, RegistryFrame DEF ClientGone, Cancelled
  <1>3. ASSUME NEW c \in Callers,
               \/ \E s \in Sessions, op \in {"cancel", "delete"} :
                    BeginCall(c, s, op)
               \/ DeleteSession(c)
        PROVE  LiveStreamRegistered'
    <2>1. /\ UNCHANGED <<activeStreams, ctxDone, req>>
          /\ caller[c].pc # "call"
          /\ \A d \in Callers \ {c} : caller'[d] = caller[d]
      BY <1>3 DEF BeginCall, DeleteSession, streams, StoreTyped
    <2>2. \A r \in SessionRequests : Cancelled(r) => Cancelled(r)'
      BY <2>1 DEF Cancelled
    <2> QED
      BY <1>0, <2>1, <2>2, RegistryFrame
  <1>4. ASSUME NEW c \in Callers, TakeActiveStream(c)
        PROVE  LiveStreamRegistered'
    <2> DEFINE s == caller[c].sess
    <2>1. /\ s \in Sessions /\ UNCHANGED <<ctxDone, req>>
          /\ caller[c].pc = "take"
          /\ \A d \in Callers \ {c} : caller'[d] = caller[d]
      BY <1>4 DEF TakeActiveStream, StoreTyped, Targeted
    <2>2. \A r \in SessionRequests : Cancelled(r) => Cancelled(r)'
      BY <2>1 DEF Cancelled
    <2>3. CASE activeStreams[s] = None
      BY <1>0, <1>4, <2>1, <2>2, <2>3, RegistryFrame DEF TakeActiveStream
    <2>4. CASE activeStreams[s] # None
      <3>1. /\ activeStreams' = [activeStreams EXCEPT ![s] = None]
            /\ caller'[c].pc = "call" /\ caller'[c].target = activeStreams[s]
        BY <1>4, <2>4 DEF TakeActiveStream, StoreTyped, CallerState
      <3>2. ASSUME NEW r \in SessionRequests, activeStreams[s] = r
            PROVE  Cancelled(r)'
        BY <3>1, <3>2 DEF Cancelled
      <3>3. ASSUME NEW r \in SessionRequests, Registered(r)', ~Cancelled(r)'
            PROVE  activeStreams'[req'[r].sess] = r
        <4>1. Registered(r) /\ ~Cancelled(r) /\ req'[r].sess = req[r].sess
          BY <1>0, <2>1, <2>2, <3>3
        <4>2. activeStreams[req[r].sess] = r
          BY <4>1 DEF LiveStreamRegistered
        <4>3. req[r].sess # s
          BY <3>2, <3>3, <4>2
        <4> QED
          BY <3>1, <4>1, <4>2, <4>3 DEF StoreTyped
      <3> QED
        BY <3>3 DEF LiveStreamRegistered
    <2> QED
      BY <2>3, <2>4
  <1>5. ASSUME NEW c \in Callers, CallCancel(c)
        PROVE  LiveStreamRegistered'
    <2>1. \A r \in SessionRequests : Cancelled(r) => Cancelled(r)'
      BY <1>5 DEF CallCancel, Cancelled, StoreTyped
    <2> QED
      BY <1>0, <1>5, <2>1, RegistryFrame DEF CallCancel
  <1> QED
    BY <1>1, <1>2, <1>3, <1>4, <1>5 DEF ActorStep, CallerStep

LEMMA ProgramStepRegistry ==
  ASSUME TypeInv, LiveStreamRegistered, NEW r \in Requests, ProgramStep(r)
  PROVE  LiveStreamRegistered'
  <1> USE TypeInvParts
  <1>1. Moves(r) /\ UNCHANGED <<aiAvailable, caller>>
    BY ProgramStepMoves, ProgramStepFrame
  <1>2. \A r2 \in Requests \ {r} : req'[r2] = req[r2]
    BY <1>1, MovesOne
  <1>3. CASE RegisterActiveStream(r)
    <2>1. PICK s \in Sessions : s = req[r].sess /\ r \in SessionRequests
      BY <1>3, SessionPlaces DEF RegisterActiveStream, At
    <2>2. /\ activeStreams' = [activeStreams EXCEPT ![s] = r]
          /\ ctxDone' = ctxDone \cup ({activeStreams[s]} \ {None})
          /\ req'[r].sess = s
      BY <1>1, <1>3, <2>1, MovesOne DEF RegisterActiveStream
    <2>3. ASSUME NEW r2 \in SessionRequests, Registered(r2)', ~Cancelled(r2)'
          PROVE  activeStreams'[req'[r2].sess] = r2
      <3>1. CASE r2 = r
        BY <2>2, <3>1 DEF StoreTyped
      <3>2. CASE r2 # r
        <4>1. req'[r2] = req[r2]
          BY <1>2, <3>2 DEF Requests
        <4>2. Registered(r2) /\ ~Cancelled(r2)
          BY <1>1, <2>2, <2>3, <4>1 DEF Registered, Cancelled
        <4>3. activeStreams[req[r2].sess] = r2
          BY <4>2 DEF LiveStreamRegistered
        <4>4. req[r2].sess # s
          <5>1. r2 # None
            BY OnCallAssumption DEF OnCallAssumption, Requests
          <5> QED
            BY <2>2, <2>3, <4>3, <5>1 DEF Cancelled
        <4> QED
          BY <2>2, <4>1, <4>3, <4>4 DEF StoreTyped
      <3> QED
        BY <3>1, <3>2
    <2> QED
      BY <2>3 DEF LiveStreamRegistered
  <1>4. CASE UnregisterActiveStream(r)
    <2>1. PICK s \in Sessions : s = req[r].sess /\ r \in SessionRequests
      BY <1>4, SessionPlaces DEF UnregisterActiveStream, At
    <2>2. /\ activeStreams' = IF activeStreams[s] = r
                              THEN [activeStreams EXCEPT ![s] = None]
                              ELSE activeStreams
          /\ ctxDone' = ctxDone \cup {r}
      BY <1>4, <2>1 DEF UnregisterActiveStream
    <2>3. ASSUME NEW r2 \in SessionRequests, Registered(r2)', ~Cancelled(r2)'
          PROVE  activeStreams'[req'[r2].sess] = r2
      <3>1. r2 # r
        BY <2>2, <2>3 DEF Cancelled
      <3>2. req'[r2] = req[r2]
        BY <1>2, <3>1 DEF Requests
      <3>3. Registered(r2) /\ ~Cancelled(r2)
        BY <1>1, <2>2, <2>3, <3>2 DEF Registered, Cancelled
      <3>4. activeStreams[req[r2].sess] = r2
        BY <3>3 DEF LiveStreamRegistered
      <3> QED
        BY <2>2, <3>1, <3>2, <3>4 DEF StoreTyped
    <2> QED
      BY <2>3 DEF LiveStreamRegistered
  <1>5. CASE ~RegisterActiveStream(r) /\ ~UnregisterActiveStream(r)
    <2>1. UNCHANGED <<activeStreams, ctxDone>> /\ ~At(r, "register")
      BY <1>5 DEF ProgramStep, Local, Relay, FindMessageFails, ReplayExisting,
         NoExisting, UseMock, TryAcquireStream, UserBusy, TryAcquire,
         TooManyRequests, EmitStatus, AttemptCancelled, MockText, MockDone,
         Release, ReleaseStream, SaveUnfinished, RelayDelta, RelayTool,
         RelayDone, RelayError, AttemptCompletes, AttemptFails, streams, At
    <2>2. Registered(r)' => Registered(r)
      BY <1>1, <2>1, MovesOne DEF Registered, Flow, At
    <2>3. \A r2 \in SessionRequests : Registered(r2)' =>
            Registered(r2) /\ req'[r2].sess = req[r2].sess
      BY <1>1, <1>2, <2>2, MovesOne DEF Registered, Requests
    <2>4. \A r2 \in SessionRequests : Cancelled(r2) => Cancelled(r2)'
      BY <1>1, <2>1 DEF Cancelled
    <2> QED
      BY <2>1, <2>3, <2>4, RegistryFrame
  <1> QED
    BY <1>3, <1>4, <1>5

LEMMA NextRegistry ==
  ASSUME TypeInv, LiveStreamRegistered, [Next]_vars
  PROVE  LiveStreamRegistered'
  <1>1. CASE UNCHANGED vars
    BY <1>1, RegistryFrame DEF vars, streams, Registered, Cancelled
  <1>2. CASE ActorStep
    BY <1>2, ActorStepRegistry
  <1>3. ASSUME NEW r \in Requests, FindMessage(r) \/ BeginChat(r)
        PROVE  LiveStreamRegistered'
    <2>1. ~Registered(r)'
      BY <1>3, BeginMoves, OnCallAssumption DEF Registered, OnCallAssumption
    <2>2. \A r2 \in Requests \ {r} : req'[r2] = req[r2]
      BY <1>3, BeginMoves
    <2>3. UNCHANGED <<activeStreams, ctxDone, caller>>
      BY <1>3, BeginMoves
    <2> QED
      BY <2>1, <2>2, <2>3, RegistryFrame DEF Registered, Cancelled, Requests
  <1>4. ASSUME NEW r \in Requests, ProgramStep(r)
        PROVE  LiveStreamRegistered'
    BY <1>4, ProgramStepRegistry
  <1> QED
    BY <1>1, <1>2, <1>3, <1>4, Steps

\* Of the streams of one session at most one has not been cancelled.
THEOREM OneLiveStream == Spec => []OneLiveStreamPerSession
  <1>1. Init => LiveStreamRegistered
    BY DEF Init, LiveStreamRegistered, Registered, Requests
  <1> QED
    BY TypeInvariant, <1>1, NextRegistry, LiveStreamIsOne, PTL DEF Spec

LEMMA LeavesRegistryStep ==
  ASSUME TypeInv, [Next]_vars,
         NEW s \in Sessions, NEW r \in SessionRequests,
         activeStreams[s] = r, activeStreams'[s] # r
  PROVE  Cancelled(r)' \/ At(r, "ended")'
  <1> USE TypeInvParts
  <1>1. r # None
    BY OnCallAssumption DEF OnCallAssumption, Requests
  <1>2. ASSUME NEW r2 \in Requests, RegisterActiveStream(r2)
        PROVE  Cancelled(r)'
    <2>1. r \in ctxDone'
      BY <1>1, <1>2 DEF RegisterActiveStream, StoreTyped
    <2> QED
      BY <2>1 DEF Cancelled
  <1>3. ASSUME NEW r2 \in Requests, UnregisterActiveStream(r2)
        PROVE  At(r, "ended")'
    <2>1. r2 = r
      BY <1>3 DEF UnregisterActiveStream, StoreTyped
    <2> QED
      BY <1>3, <2>1 DEF UnregisterActiveStream, At, RequestsTyped, RequestState
  <1>4. ASSUME NEW c \in Callers, TakeActiveStream(c)
        PROVE  Cancelled(r)'
    <2>1. s = caller[c].sess /\ activeStreams[s] # None
      BY <1>1, <1>4 DEF TakeActiveStream, StoreTyped
    <2>2. caller' = [caller EXCEPT ![c].pc = "call", ![c].target = r]
      BY <1>4, <2>1 DEF TakeActiveStream
    <2>3. caller'[c].pc = "call" /\ caller'[c].target = r
      BY <2>2 DEF StoreTyped, CallerState
    <2> QED
      BY <2>3 DEF Cancelled
  <1>5. ASSUME ActorStep, ~\E c \in Callers : TakeActiveStream(c)
        PROVE  FALSE
    BY <1>5 DEF ActorStep, CreateSession, AddUserMessage, ClientGone,
       BeginCall, CallerStep, CallCancel, DeleteSession, streams
  <1>6. ASSUME NEW r2 \in Requests, ProgramStep(r2),
               ~RegisterActiveStream(r2), ~UnregisterActiveStream(r2)
        PROVE  FALSE
    BY <1>6 DEF ProgramStep, Local, Relay, FindMessageFails, ReplayExisting,
       NoExisting, UseMock, TryAcquireStream, UserBusy, TryAcquire,
       TooManyRequests, EmitStatus, AttemptCancelled, MockText, MockDone,
       Release, ReleaseStream, SaveUnfinished, RelayDelta, RelayTool,
       RelayDone, RelayError, AttemptCompletes, AttemptFails, streams
  <1>7. ASSUME NEW r2 \in Requests, FindMessage(r2) \/ BeginChat(r2)
        PROVE  FALSE
    BY <1>7, BeginMoves
  <1>8. ~UNCHANGED vars
    BY DEF vars, streams
  <1> QED
    BY <1>2, <1>3, <1>4, <1>5, <1>6, <1>7, <1>8, Steps

\* An entry of the registry disappears only with a stream that is cancelled or
\* over: an old stream that ends late leaves its successor's entry alone.
THEOREM LeavesRegistry == Spec => LeavesRegistryCancelledOrEnded
  <1>1. TypeInv /\ [Next]_vars =>
          [\A s \in Sessions, r \in SessionRequests :
             (activeStreams[s] = r /\ activeStreams'[s] # r) =>
                Cancelled(r)' \/ At(r, "ended")']_vars
    BY LeavesRegistryStep
  <1> QED
    BY TypeInvariant, <1>1, PTL DEF Spec, LeavesRegistryCancelledOrEnded

-----------------------------------------------------------------------------
(* The registry implements SessionStreams. *)

\* The other direction: an entry is a registered stream of its session.  With
\* it, what takes the place of an entry ends no stream of another session.
EntryIsStream ==
  \A s \in Sessions, r \in SessionRequests :
    activeStreams[s] = r => Registered(r) /\ req[r].sess = s

RegistryInv == LiveStreamRegistered /\ EntryIsStream

\* Steps after which the entries are old ones, of streams that go on.
LEMMA EntryFrame ==
  ASSUME EntryIsStream,
         \A s \in Sessions, r \in SessionRequests : activeStreams'[s] = r =>
           /\ activeStreams[s] = r
           /\ Registered(r)' /\ req'[r].sess = req[r].sess
  PROVE  EntryIsStream'
  BY DEF EntryIsStream

LEMMA ProgramStepEntry ==
  ASSUME TypeInv, EntryIsStream, NEW r \in Requests, ProgramStep(r)
  PROVE  EntryIsStream'
  <1> USE TypeInvParts
  <1>1. Moves(r)
    BY ProgramStepMoves
  <1>2. \A r2 \in SessionRequests \ {r} : req'[r2] = req[r2]
    BY <1>1, MovesOne DEF Requests
  <1>3. CASE RegisterActiveStream(r)
    <2>1. PICK s \in Sessions : s = req[r].sess /\ r \in SessionRequests
      BY <1>3, SessionPlaces DEF RegisterActiveStream, At
    <2>2. /\ activeStreams' = [activeStreams EXCEPT ![s] = r]
          /\ req'[r].sess = s /\ req'[r].pc = "user"
      BY <1>1, <1>3, <2>1, MovesOne
         DEF RegisterActiveStream, Goto, RequestsTyped, RequestState
    <2>3. ASSUME NEW t \in Sessions, NEW r2 \in SessionRequests,
                 activeStreams'[t] = r2
          PROVE  Registered(r2)' /\ req'[r2].sess = t
      <3>1. CASE t = s
        BY <2>2, <2>3, <3>1 DEF StoreTyped, Registered
      <3>2. CASE t # s
        <4>1. Registered(r2) /\ req[r2].sess = t
          BY <2>2, <2>3, <3>2 DEF StoreTyped, EntryIsStream
        <4>2. r2 # r
          BY <2>1, <3>2, <4>1
        <4> QED
          BY <1>2, <4>1, <4>2 DEF Registered
      <3> QED
        BY <3>1, <3>2
    <2> QED
      BY <2>3 DEF EntryIsStream
  <1>4. CASE UnregisterActiveStream(r)
    <2>1. PICK s \in Sessions : s = req[r].sess /\ r \in SessionRequests
      BY <1>4, SessionPlaces DEF UnregisterActiveStream, At
    <2>2. activeStreams' = IF activeStreams[s] = r
                           THEN [activeStreams EXCEPT ![s] = None]
                           ELSE activeStreams
      BY <1>4, <2>1 DEF UnregisterActiveStream
    <2>3. r # None
      BY <2>1, OnCallAssumption DEF OnCallAssumption, Requests
    <2>4. ASSUME NEW t \in Sessions, NEW r2 \in SessionRequests,
                 activeStreams'[t] = r2
          PROVE  activeStreams[t] = r2 /\ r2 # r
      <3>1. activeStreams[t] = r2
        BY <2>2, <2>4, OnCallAssumption
           DEF StoreTyped, OnCallAssumption, Requests
      <3>2. r2 = r => t = s
        BY <2>1, <3>1 DEF EntryIsStream
      <3> QED
        BY <2>2, <2>3, <2>4, <3>1, <3>2 DEF StoreTyped
    <2> QED
      BY <1>2, <2>4, EntryFrame DEF EntryIsStream, Registered
  <1>5. CASE ~RegisterActiveStream(r) /\ ~UnregisterActiveStream(r)
    <2>1. UNCHANGED activeStreams /\ ~At(r, "unregister")
      BY <1>5 DEF ProgramStep, Local, Relay, FindMessageFails, ReplayExisting,
         NoExisting, UseMock, TryAcquireStream, UserBusy, TryAcquire,
         TooManyRequests, EmitStatus, AttemptCancelled, MockText, MockDone,
         Release, ReleaseStream, SaveUnfinished, RelayDelta, RelayTool,
         RelayDone, RelayError, AttemptCompletes, AttemptFails, streams, At
    <2>2. Registered(r) => Registered(r)' /\ req'[r].sess = req[r].sess
      BY <1>1, <2>1, MovesOne, OnCallAssumption
         DEF Registered, Flow, ReturnsTo, AfterStream, At, OnCallAssumption
    <2> QED
      BY <1>2, <2>1, <2>2, EntryFrame DEF EntryIsStream, Registered
  <1> QED
    BY <1>3, <1>4, <1>5

LEMMA NextEntry ==
  ASSUME TypeInv, EntryIsStream, [Next]_vars
  PROVE  EntryIsStream'
  <1> USE TypeInvParts
  <1>0. \A r \in SessionRequests : r # None
    BY OnCallAssumption DEF OnCallAssumption, Requests
  <1>1. CASE UNCHANGED vars
    BY <1>1 DEF vars, streams, EntryIsStream, Registered
  <1>2. CASE ActorStep
    <2>1. UNCHANGED req
      BY <1>2, ActorStepFrame
    <2>2. CASE \E c \in Callers : TakeActiveStream(c)
      <3>1. \A s \in Sessions, r \in SessionRequests :
              activeStreams'[s] = r => activeStreams[s] = r
        BY <1>0, <2>2 DEF TakeActiveStream, StoreTyped
      <3> QED
        BY <2>1, <3>1 DEF EntryIsStream, Registered
    <2>3. CASE ~\E c \in Callers : TakeActiveStream(c)
      <3>1. UNCHANGED activeStreams
        BY <1>2, <2>3 DEF ActorStep, CreateSession, AddUserMessage, ClientGone,
           BeginCall, CallerStep, CallCancel, DeleteSession, streams
      <3> QED
        BY <2>1, <3>1 DEF EntryIsStream, Registered
    <2> QED
      BY <2>2, <2>3
  <1>3. ASSUME NEW r \in Requests, FindMessage(r) \/ BeginChat(r)
        PROVE  EntryIsStream'
    <2>1. ~Registered(r)
      BY <1>3, BeginMoves DEF Registered
    <2>2. UNCHANGED activeStreams /\ \A r2 \in Requests \ {r} : req'[r2] = req[r2]
      BY <1>3, BeginMoves
    <2> QED
      BY <2>1, <2>2, EntryFrame DEF EntryIsStream, Registered, Requests
  <1>4. ASSUME NEW r \in Requests, ProgramStep(r) PROVE EntryIsStream'
    BY <1>4, ProgramStepEntry
  <1> QED
    BY <1>1, <1>2, <1>3, <1>4, Steps

LEMMA RegistryInvariant == Spec => []RegistryInv
  <1>1. Init => RegistryInv
    BY OnCallAssumption
       DEF Init, RegistryInv, LiveStreamRegistered, EntryIsStream, Registered,
           Requests, OnCallAssumption
  <1>2. TypeInv /\ RegistryInv /\ [Next]_vars => RegistryInv'
    BY NextRegistry, NextEntry DEF RegistryInv
  <1> QED
    BY TypeInvariant, <1>1, <1>2, PTL DEF Spec

\* A session has at most one live stream, the registered one.
LEMMA LiveOfOne ==
  ASSUME LiveStreamRegistered, NEW s \in Sessions
  PROVE  LiveOf(s) \subseteq {activeStreams[s]}
  BY DEF LiveStreamRegistered, LiveOf, Live

LiveMap == [s \in Sessions |-> LiveOf(s)]

\* Steps after which every stream is as live as before.
LEMMA NothingStops ==
  ASSUME UNCHANGED Waiting,
         \A r \in SessionRequests :
           /\ Live(r)' <=> Live(r)
           /\ Live(r) => req'[r].sess = req[r].sess
  PROVE  UNCHANGED <<Waiting, LiveMap>>
  <1>1. \A s \in Sessions : LiveOf(s)' = LiveOf(s)
    BY DEF LiveOf
  <1> QED
    BY <1>1 DEF LiveMap

\* Steps that at most stop stream q.
LEMMA OneStops ==
  ASSUME RegistryInv, UNCHANGED Waiting, NEW q \in SessionRequests,
         req[q].sess \in Sessions \/ ~Live(q),
         Live(q)' => Live(q),
         \A r \in SessionRequests :
           /\ r # q => (Live(r)' <=> Live(r))
           /\ Live(r) => req'[r].sess = req[r].sess
  PROVE  [Streams!Next]_<<Waiting, LiveMap>>
  <1>1. CASE Live(q)' <=> Live(q)
    BY <1>1, NothingStops
  <1>2. CASE ~Live(q)' /\ Live(q)
    <2>1. PICK s \in Sessions : s = req[q].sess
      BY <1>2
    <2>2. LiveOf(s) = {q}
      BY <1>2, <2>1, LiveOfOne DEF RegistryInv, LiveOf
    <2>3. LiveOf(s)' = {}
      <3>1. \A r \in SessionRequests :
              Live(r)' /\ req'[r].sess = s => Live(r) /\ req[r].sess = s /\ r # q
        BY <1>2
      <3> QED
        BY <2>2, <3>1 DEF LiveOf
    <2>4. \A t \in Sessions : t # s => LiveOf(t)' = LiveOf(t)
      BY <1>2, <2>1 DEF LiveOf
    <2>5. LiveMap' = [LiveMap EXCEPT ![s] = {}] /\ LiveMap[s] # {}
      BY <2>1, <2>2, <2>3, <2>4 DEF LiveMap
    <2> QED
      BY <2>1, <2>5 DEF Streams!Next, Streams!Stop, LiveMap
  <1> QED
    BY <1>1, <1>2

LEMMA ActorStepStreams ==
  ASSUME TypeInv, RegistryInv, ActorStep
  PROVE  [Streams!Next]_<<Waiting, LiveMap>>
  <1> USE TypeInvParts
  <1>0. /\ UNCHANGED req /\ UNCHANGED Waiting
        /\ \A r \in SessionRequests : Registered(r)' <=> Registered(r)
    BY ActorStepFrame DEF Registered, Waiting
  <1>s. \A r \in SessionRequests : req[r].sess \in Sessions \/ ~Live(r)
    BY DEF Live, Registered, RequestsTyped, Located, Requests
  <1>1. ASSUME NEW q \in SessionRequests, Cancelled(q) => Cancelled(q)',
               \A r \in SessionRequests : r # q => (Cancelled(r)' <=> Cancelled(r))
        PROVE  [Streams!Next]_<<Waiting, LiveMap>>
    BY <1>0, <1>1, <1>s, OneStops DEF Live
  <1>2. ASSUME \A r \in SessionRequests : Cancelled(r)' <=> Cancelled(r)
        PROVE  [Streams!Next]_<<Waiting, LiveMap>>
    BY <1>0, <1>2, NothingStops DEF Live
  <1>3. CASE \E s \in Sessions : CreateSession(s) \/ AddUserMessage(s)
    BY <1>2, <1>3 DEF CreateSession, AddUserMessage, streams, Cancelled
  <1>4. ASSUME NEW q \in Requests, ClientGone(q)
        PROVE  [Streams!Next]_<<Waiting, LiveMap>>
    <2>1. /\ UNCHANGED caller
          /\ \A r \in SessionRequests :
               r \in ctxDone' <=> r \in ctxDone \/ r = q
      BY <1>4 DEF ClientGone
    <2>2. CASE q \in SessionRequests
      BY <1>1, <2>1, <2>2 DEF Cancelled
    <2>3. CASE q \notin SessionRequests
      BY <1>2, <2>1, <2>3 DEF Cancelled
    <2> QED
      BY <2>2, <2>3
  <1>5. ASSUME NEW c \in Callers,
               \/ \E s \in Sessions, op \in {"cancel", "delete"} :
                    BeginCall(c, s, op)
               \/ DeleteSession(c)
        PROVE  [Streams!Next]_<<Waiting, LiveMap>>
    <2>1. /\ UNCHANGED ctxDone
          /\ caller[c].pc # "call" /\ caller'[c].pc # "call"
          /\ \A d \in Callers \ {c} : caller'[d] = caller[d]
      BY <1>5 DEF BeginCall, DeleteSession, streams, StoreTyped, CallerState
    <2> QED
      BY <1>2, <2>1 DEF Cancelled
  <1>6. ASSUME NEW c \in Callers, TakeActiveStream(c)
        PROVE  [Streams!Next]_<<Waiting, LiveMap>>
    <2> DEFINE s == caller[c].sess
    <2>1. /\ s \in Sessions /\ UNCHANGED ctxDone
          /\ caller[c].pc = "take"
          /\ \A d \in Callers \ {c} : caller'[d] = caller[d]
      BY <1>6 DEF TakeActiveStream, StoreTyped, Targeted
    <2>2. CASE activeStreams[s] = None
      <3>1. caller'[c].pc # "call"
        BY <1>6, <2>2 DEF TakeActiveStream, StoreTyped, CallerState
      <3> QED
        BY <1>2, <2>1, <3>1 DEF Cancelled
    <2>3. CASE activeStreams[s] # None
      <3>1. activeStreams[s] \in SessionRequests
        BY <2>1, <2>3 DEF StoreTyped
      <3>2. caller'[c].pc = "call" /\ caller'[c].target = activeStreams[s]
        BY <1>6, <2>3 DEF TakeActiveStream, StoreTyped, CallerState
      <3>3. \A r \in SessionRequests :
              Cancelled(r)' <=> Cancelled(r) \/ r = activeStreams[s]
        BY <2>1, <3>2 DEF Cancelled
      <3> QED
        BY <1>1, <3>1, <3>3
    <2> QED
      BY <2>2, <2>3
  <1>7. ASSUME NEW c \in Callers, CallCancel(c)
        PROVE  [Streams!Next]_<<Waiting, LiveMap>>
    <2>1. /\ caller[c].pc = "call" /\ caller'[c].pc # "call"
          /\ ctxDone' = ctxDone \cup {caller[c].target}
          /\ \A d \in Callers \ {c} : caller'[d] = caller[d]
      BY <1>7 DEF CallCancel, StoreTyped, CallerState
    <2> QED
      BY <1>2, <2>1 DEF Cancelled
  <1> QED
    BY <1>3, <1>4, <1>5, <1>6, <1>7 DEF ActorStep, CallerStep

\* Who waits after request r has moved to another place.
LEMMA WaitingMoves ==
  ASSUME NEW r \in SessionRequests,
         \A r2 \in SessionRequests \ {r} : req'[r2] = req[r2]
  PROVE  Waiting' = IF req'[r].pc \in {"idle", "check", "register"}
                    THEN Waiting \cup {r} ELSE Waiting \ {r}
  BY DEF Waiting

\* A registration starts a stream, unless it is cancelled already, and ends the
\* session's other stream.
LEMMA RegisterStreams ==
  ASSUME TypeInv, RegistryInv, NEW r \in Requests, RegisterActiveStream(r)
  PROVE  [Streams!Next]_<<Waiting, LiveMap>>
  <1> USE TypeInvParts
  <1>1. PICK s \in Sessions : s = req[r].sess /\ r \in SessionRequests
    BY SessionPlaces DEF RegisterActiveStream, At
  <1>2. Moves(r)
    BY ProgramStepMoves DEF ProgramStep, Local
  <1>3. \A r2 \in SessionRequests \ {r} : req'[r2] = req[r2]
    BY <1>2, MovesOne DEF Requests
  <1>4. /\ req[r].pc = "register" /\ req'[r].pc = "user" /\ req'[r].sess = s
        /\ ctxDone' = ctxDone \cup ({activeStreams[s]} \ {None})
        /\ UNCHANGED caller
    BY <1>1, <1>2, MovesOne
       DEF RegisterActiveStream, Goto, At, RequestsTyped, RequestState
  <1>5. r \in Waiting /\ Waiting' = Waiting \ {r}
    BY <1>1, <1>3, <1>4, WaitingMoves DEF Waiting
  <1>6. \A r2 \in SessionRequests :
          Cancelled(r2)' <=> Cancelled(r2) \/ r2 = activeStreams[s]
    BY <1>4, OnCallAssumption DEF Cancelled, OnCallAssumption, Requests
  <1>7. LiveOf(s)' \subseteq {r}
    <2>1. ASSUME NEW r2 \in LiveOf(s)', r2 # r PROVE FALSE
      <3>1. r2 \in SessionRequests /\ Live(r2) /\ req[r2].sess = s
        BY <1>3, <1>6, <2>1 DEF LiveOf, Live, Registered
      <3>2. r2 = activeStreams[s]
        BY <3>1 DEF RegistryInv, LiveStreamRegistered, Live
      <3> QED
        BY <1>6, <2>1, <3>1, <3>2 DEF LiveOf, Live
    <2> QED
      BY <2>1
  <1>8. \A t \in Sessions : t # s => LiveOf(t)' = LiveOf(t)
    <2> TAKE t \in Sessions
    <2>1. ASSUME NEW r2 \in SessionRequests, r2 # r, t # s, req[r2].sess = t
          PROVE  Live(r2)' <=> Live(r2)
      <3>1. r2 # activeStreams[s]
        BY <2>1 DEF RegistryInv, EntryIsStream
      <3> QED
        BY <1>3, <1>6, <2>1, <3>1 DEF Live, Registered
    <2> QED
      BY <1>1, <1>3, <1>4, <2>1 DEF LiveOf
  <1>9. \E L \in {{}, {r}} : LiveMap' = [LiveMap EXCEPT ![s] = L]
    BY <1>7, <1>8 DEF LiveMap
  <1> QED
    BY <1>1, <1>5, <1>9 DEF Streams!Next, Streams!Start, Streams!GiveUp, LiveMap

LEMMA ProgramStepStreams ==
  ASSUME TypeInv, RegistryInv, NEW r \in Requests, ProgramStep(r)
  PROVE  [Streams!Next]_<<Waiting, LiveMap>>
  <1> USE TypeInvParts
  <1>1. Moves(r) /\ UNCHANGED caller
    BY ProgramStepMoves, ProgramStepFrame
  <1>2. \A r2 \in SessionRequests \ {r} : req'[r2] = req[r2]
    BY <1>1, MovesOne DEF Requests
  <1>s. \A r2 \in SessionRequests : req'[r2].sess = req[r2].sess
    BY <1>1, <1>2, MovesOne
  <1>3. CASE RegisterActiveStream(r)
    BY <1>3, RegisterStreams
  <1>4. CASE UnregisterActiveStream(r)
    <2>1. r \in SessionRequests /\ req[r].sess \in Sessions
      BY <1>4, SessionPlaces DEF UnregisterActiveStream, At
    <2>2. /\ req[r].pc = "unregister" /\ req'[r].pc = "ended"
          /\ ctxDone' = ctxDone \cup {r}
      BY <1>4 DEF UnregisterActiveStream, At, RequestsTyped, RequestState
    <2>3. UNCHANGED Waiting
      BY <1>2, <2>1, <2>2, WaitingMoves DEF Waiting
    <2>4. ~Live(r)'
      BY <2>2 DEF Live, Registered
    <2>5. \A r2 \in SessionRequests : r2 # r => (Live(r2)' <=> Live(r2))
      BY <1>1, <1>2, <2>2 DEF Live, Registered, Cancelled
    <2> QED
      BY <1>s, <2>1, <2>3, <2>4, <2>5, OneStops
  <1>5. CASE ~RegisterActiveStream(r) /\ ~UnregisterActiveStream(r)
    <2>1. /\ UNCHANGED ctxDone
          /\ ~At(r, "register") /\ ~At(r, "unregister")
      BY <1>5 DEF ProgramStep, Local, Relay, FindMessageFails, ReplayExisting,
         NoExisting, UseMock, TryAcquireStream, UserBusy, TryAcquire,
         TooManyRequests, EmitStatus, AttemptCancelled, MockText, MockDone,
         Release, ReleaseStream, SaveUnfinished, RelayDelta, RelayTool,
         RelayDone, RelayError, AttemptCompletes, AttemptFails, streams, At
    <2>2. r \in SessionRequests =>
            /\ Registered(r)' <=> Registered(r)
            /\ Registered(r) => ~(req'[r].pc \in {"idle", "check", "register"})
      BY <1>1, <2>1, MovesOne, OnCallAssumption
         DEF Registered, Flow, ReturnsTo, AfterStream, At, OnCallAssumption
    <2>3. \A r2 \in SessionRequests : Live(r2)' <=> Live(r2)
      BY <1>1, <1>2, <2>1, <2>2 DEF Live, Registered, Cancelled
    <2>4. UNCHANGED LiveMap
      <3>1. \A s \in Sessions : LiveOf(s)' = LiveOf(s)
        BY <1>s, <2>3 DEF LiveOf
      <3> QED
        BY <3>1 DEF LiveMap
    <2>5. CASE UNCHANGED Waiting
      BY <2>4, <2>5
    <2>6. CASE Waiting' # Waiting
      <3>1. r \in SessionRequests
        BY <1>2, <2>6 DEF Waiting
      <3>2. req[r].pc # "ended" /\ ~Registered(r)
        BY <1>1, <1>2, <2>2, <2>6, <3>1, MovesOne, WaitingMoves
           DEF Waiting, Flow, At, Registered
      <3>3. r \in Waiting
        BY <3>1, <3>2 DEF Registered, Waiting
      <3>4. Waiting' = Waiting \ {r}
        BY <1>2, <2>6, <3>1, <3>3, WaitingMoves
      <3> QED
        BY <2>4, <3>1, <3>3, <3>4 DEF Streams!Next, Streams!GiveUp, LiveMap
    <2> QED
      BY <2>5, <2>6
  <1> QED
    BY <1>3, <1>4, <1>5

LEMMA NextStreams ==
  ASSUME TypeInv, RegistryInv, [Next]_vars
  PROVE  [Streams!Next]_<<Waiting, LiveMap>>
  <1>1. CASE UNCHANGED vars
    BY <1>1, NothingStops
       DEF vars, streams, Waiting, Live, Registered, Cancelled
  <1>2. CASE ActorStep
    BY <1>2, ActorStepStreams
  <1>3. ASSUME NEW r \in Requests, FindMessage(r) \/ BeginChat(r)
        PROVE  [Streams!Next]_<<Waiting, LiveMap>>
    <2>1. ~Registered(r) /\ ~Registered(r)'
      BY <1>3, BeginMoves, OnCallAssumption DEF Registered, OnCallAssumption
    <2>2. /\ \A r2 \in Requests \ {r} : req'[r2] = req[r2]
          /\ UNCHANGED <<ctxDone, caller>>
      BY <1>3, BeginMoves
    <2>3. UNCHANGED Waiting
      BY <1>3, <2>2, BeginMoves, OnCallAssumption
         DEF Waiting, Requests, OnCallAssumption
    <2>4. \A r2 \in SessionRequests :
            /\ Live(r2)' <=> Live(r2)
            /\ Live(r2) => req'[r2].sess = req[r2].sess
      BY <2>1, <2>2 DEF Live, Registered, Cancelled, Requests
    <2> QED
      BY <2>3, <2>4, NothingStops
  <1>4. ASSUME NEW r \in Requests, ProgramStep(r)
        PROVE  [Streams!Next]_<<Waiting, LiveMap>>
    BY <1>4, ProgramStepStreams
  <1> QED
    BY <1>1, <1>2, <1>3, <1>4, Steps

\* The registry implements SessionStreams, for any number of sessions, streams
\* and callers: starting a generation replaces its session's live stream and no
\* other, and a stream that was replaced or cancelled stays so.
THEOREM RegistryIsSessionStreams == Spec => ImplementsSessionStreams
  <1>1. Init => Streams!Init
    <2> SUFFICES ASSUME Init PROVE Streams!Init
      OBVIOUS
    <2>1. \A r \in SessionRequests : req[r].pc = "idle"
      BY DEF Init, Requests
    <2>2. Waiting = SessionRequests /\ \A s \in Sessions : LiveOf(s) = {}
      BY <2>1 DEF Waiting, LiveOf, Live, Registered
    <2> QED
      BY <2>2 DEF Streams!Init
  <1>2. TypeInv /\ RegistryInv /\ [Next]_vars
          => [Streams!Next]_<<Waiting, LiveMap>>
    BY NextStreams
  <1>3. TypeInv /\ RegistryInv /\ [Next]_vars
          => [Streams!Next]_<<Waiting, [s \in Sessions |-> LiveOf(s)]>>
    BY <1>2 DEF LiveMap
  <1> QED
    BY TypeInvariant, RegistryInvariant, <1>1, <1>3, PTL
       DEF Spec, ImplementsSessionStreams, Streams!Spec

-----------------------------------------------------------------------------
(* The replies that are saved. *)

\* Where a request is once it has saved a reply: wherever it may still pass a
\* point that saves, it knows that it did.
HasSaved(r) ==
  \/ req[r].pc \in {"unregister", "ended"}
  \/ req[r].pc \in {"relGlobal", "relUser"} /\ (req[r].saved \/ ~req[r].ok)
  \/ req[r].pc = "late" /\ req[r].saved
  \/ req[r].pc = "relay" /\ req[r].closed /\ req[r].emitted /\ req[r].saved

RepliesRecorded ==
  \A s \in Sessions : \A i \in DOMAIN log[s] :
    log[s][i].by # None => HasSaved(log[s][i].by)

RepliesInv == RepliesRecorded /\ OneReplyPerRequest

\* The author of a message is a session request.
LEMMA Authors ==
  ASSUME StoreTyped
  PROVE  \A s \in Sessions :
           /\ DOMAIN log[s] = 1..Len(log[s]) /\ Len(log[s]) \in Nat
           /\ \A i \in DOMAIN log[s] :
                log[s][i].by # None => log[s][i].by \in SessionRequests
  <1> TAKE s \in Sessions
  <1>1. log[s] \in Seq(Message)
    BY DEF StoreTyped
  <1>2. \A i \in DOMAIN log[s] : log[s][i] \in Message
    BY <1>1
  <1> QED
    BY <1>1, <1>2 DEF Message

\* Steps that save nothing.
LEMMA RepliesFrame ==
  ASSUME TypeInv, RepliesInv, UNCHANGED log,
         \A r \in SessionRequests : HasSaved(r) => HasSaved(r)'
  PROVE  RepliesInv'
  <1>1. \A s \in Sessions : \A i \in DOMAIN log[s] :
          log[s][i].by # None => log[s][i].by \in SessionRequests
    BY Authors, TypeInvParts
  <1>2. RepliesRecorded'
    BY <1>1 DEF RepliesInv, RepliesRecorded, HasSaved
  <1>3. OneReplyPerRequest'
    BY DEF RepliesInv, OneReplyPerRequest
  <1> QED
    BY <1>2, <1>3 DEF RepliesInv

\* A message m is appended: one of a user, or the first one of its author.
LEMMA RepliesAppend ==
  ASSUME TypeInv, RepliesInv, NEW s \in Sessions, NEW m,
         log' = [log EXCEPT ![s] = Append(@, m)],
         \A r \in SessionRequests : HasSaved(r) => HasSaved(r)',
         m.by # None => m.by \in SessionRequests /\ ~HasSaved(m.by)
                        /\ HasSaved(m.by)'
  PROVE  RepliesInv'
  <1> USE TypeInvParts
  <1>1. \A t \in Sessions :
          /\ DOMAIN log[t] = 1..Len(log[t]) /\ Len(log[t]) \in Nat
          /\ \A i \in DOMAIN log[t] :
               log[t][i].by # None => /\ log[t][i].by \in SessionRequests
                                      /\ HasSaved(log[t][i].by)
    BY Authors DEF RepliesInv, RepliesRecorded
  <1>2. \A t \in Sessions : \A i \in DOMAIN log'[t] :
          \/ i \in DOMAIN log[t] /\ log'[t][i] = log[t][i]
          \/ t = s /\ i = Len(log[s]) + 1 /\ log'[t][i] = m
    <2> TAKE t \in Sessions
    <2>1. CASE t # s
      BY <2>1 DEF StoreTyped
    <2>2. CASE t = s
      <3>1. log[s] \in Seq(Message) /\ log'[s] = Append(log[s], m)
        BY DEF StoreTyped
      <3>2. /\ DOMAIN log'[s] = 1..(Len(log[s]) + 1)
            /\ \A i \in 1..Len(log[s]) : log'[s][i] = log[s][i]
            /\ log'[s][Len(log[s]) + 1] = m
        BY <3>1
      <3> QED
        BY <1>1, <2>2, <3>2
    <2> QED
      BY <2>1, <2>2
  <1>3. RepliesRecorded'
    <2>1. ASSUME NEW t \in Sessions, NEW i \in DOMAIN log'[t],
                 log'[t][i].by # None
          PROVE  HasSaved(log[t][i].by)'
      <3>1. CASE i \in DOMAIN log[t] /\ log'[t][i] = log[t][i]
        <4>1. PICK r \in SessionRequests : r = log[t][i].by /\ HasSaved(r)
          BY <1>1, <2>1, <3>1
        <4>2. HasSaved(r)'
          BY <4>1
        <4> QED
          BY <3>1, <4>1, <4>2 DEF HasSaved
      <3>2. CASE t = s /\ i = Len(log[s]) + 1 /\ log'[t][i] = m
        <4>1. PICK r \in SessionRequests : r = m.by /\ HasSaved(r)'
          BY <2>1, <3>2
        <4> QED
          BY <3>2, <4>1 DEF HasSaved
      <3> QED
        BY <1>2, <3>1, <3>2
    <2> QED
      BY <2>1 DEF RepliesRecorded
  <1>4. OneReplyPerRequest'
    <2>1. ASSUME NEW t1 \in Sessions, NEW t2 \in Sessions,
                 NEW i \in DOMAIN log'[t1], NEW j \in DOMAIN log'[t2],
                 log'[t1][i].by = log'[t2][j].by, log'[t1][i].by # None
          PROVE  t1 = t2 /\ i = j
      <3>1. CASE i \in DOMAIN log[t1] /\ log'[t1][i] = log[t1][i]
        <4>1. j \in DOMAIN log[t2] /\ log'[t2][j] = log[t2][j]
          BY <1>1, <1>2, <2>1, <3>1
        <4> QED
          BY <2>1, <3>1, <4>1 DEF RepliesInv, OneReplyPerRequest
      <3>2. CASE t1 = s /\ i = Len(log[s]) + 1 /\ log'[t1][i] = m
        BY <1>1, <1>2, <2>1, <3>2
      <3> QED
        BY <1>2, <3>1, <3>2
    <2> QED
      BY <2>1 DEF OneReplyPerRequest
  <1> QED
    BY <1>3, <1>4 DEF RepliesInv

\* AddMessage, if it succeeds, is the first of its request.
LEMMA RepliesSave ==
  ASSUME TypeInv, RepliesInv, NEW r \in SessionRequests,
         req[r].sess \in Sessions, NEW stored \in BOOLEAN,
         log' = LogWithReply(r, stored),
         ~HasSaved(r), stored => HasSaved(r)',
         \A r2 \in SessionRequests \ {r} : req'[r2] = req[r2]
  PROVE  RepliesInv'
  <1>1. \A r2 \in SessionRequests : HasSaved(r2) => HasSaved(r2)'
    BY DEF HasSaved
  <1>2. CASE ~stored
    BY <1>1, <1>2, RepliesFrame DEF LogWithReply
  <1>3. CASE stored
    <2> DEFINE m == [role |-> "assistant", blank |-> ~req[r].text, by |-> r]
    <2>1. log' = [log EXCEPT ![req[r].sess] = Append(@, m)]
      BY <1>3 DEF LogWithReply
    <2>2. m.by = r
      OBVIOUS
    <2> HIDE DEF m
    <2> QED
      BY <1>1, <1>3, <2>1, <2>2, RepliesAppend
  <1> QED
    BY <1>2, <1>3

\* A request that returns from the relay after "done" was saved either returns
\* an error or remembers the reply.
LEMMA ReturnSaved ==
  ASSUME TypeInv, NEW r \in SessionRequests, NEW ok \in BOOLEAN,
         aiAvailable, req'[r] = Return(r, ok), req[r].saved \/ ~ok
  PROVE  HasSaved(r)'
  BY ReturnType DEF HasSaved, TypeInv, Requests

\* The steps that save nothing keep what they know of a saved reply.
LEMMA QuietStepSaved ==
  ASSUME TypeInv, NEW r \in SessionRequests, ProgramStep(r), HasSaved(r),
         ~RelayDone(r), ~MockDone(r), ~SaveUnfinished(r)
  PROVE  HasSaved(r)'
  <1> USE TypeInvParts
  <1>0. r \in Requests /\ req \in [Requests -> RequestState]
    BY DEF Requests, RequestsTyped
  <1>1. CASE req[r].pc \in {"unregister", "ended", "relGlobal", "relUser"}
    <2>1. \/ UnregisterActiveStream(r) \/ Release(r) \/ ReleaseStream(r)
      BY <1>1 DEF ProgramStep, Local, Relay, FindMessageFails, ReplayExisting,
         NoExisting, RegisterActiveStream, UseMock, TryAcquireStream, UserBusy,
         TryAcquire, TooManyRequests, EmitStatus, AttemptCancelled, MockText,
         SaveUnfinished, RelayDelta, RelayTool, RelayDone, MockDone,
         RelayError, AttemptCompletes, AttemptFails, At
    <2>2. CASE UnregisterActiveStream(r)
      BY <1>0, <2>2 DEF UnregisterActiveStream, HasSaved, RequestState
    <2>3. CASE Release(r)
      BY <1>0, <2>3 DEF Release, Goto, At, HasSaved, RequestState
    <2>4. CASE ReleaseStream(r)
      <3>1. r \notin ChatRequests
        BY OnCallAssumption DEF OnCallAssumption
      <3>2. req[r].ok \in BOOLEAN
        BY <1>0 DEF RequestState
      <3> QED
        BY <1>0, <2>4, <3>1, <3>2
           DEF ReleaseStream, Goto, At, AfterStream, HasSaved, RequestState
    <2> QED
      BY <2>1, <2>2, <2>3, <2>4
  <1>2. CASE req[r].pc = "late"
    BY <1>2 DEF ProgramStep, Local, Relay, FindMessageFails, ReplayExisting,
       NoExisting, RegisterActiveStream, UseMock, TryAcquireStream, UserBusy,
       TryAcquire, TooManyRequests, EmitStatus, AttemptCancelled, MockText,
       SaveUnfinished, RelayDelta, RelayTool, RelayDone, MockDone, Release,
       ReleaseStream, UnregisterActiveStream, RelayError, AttemptCompletes,
       AttemptFails, At
  <1>3. CASE req[r].pc = "relay"
    <2>1. req[r].closed /\ req[r].emitted /\ req[r].saved /\ aiAvailable
      BY <1>0, <1>3 DEF HasSaved, RequestsTyped, WithoutAI
    <2>2. \/ RelayTool(r) \/ AttemptCompletes(r) \/ AttemptFails(r)
          \/ AttemptCancelled(r)
      BY <1>3, <2>1 DEF ProgramStep, Local, Relay, FindMessageFails,
         ReplayExisting, NoExisting, RegisterActiveStream, UseMock,
         TryAcquireStream, UserBusy, TryAcquire, TooManyRequests, EmitStatus,
         MockText, SaveUnfinished, RelayDelta, RelayDone, MockDone, Release,
         ReleaseStream, UnregisterActiveStream, RelayError, At
    <2>3. CASE RelayTool(r)
      <3>1. PICK sent \in BOOLEAN :
              req' = [req EXCEPT ![r] = AfterWrite(r, sent, req[r])]
        BY <2>3 DEF RelayTool
      <3>2. req'[r] = AfterWrite(r, sent, req[r])
        BY <1>0, <3>1
      <3>3. CASE sent
        BY <1>0, <1>3, <2>1, <3>2, <3>3 DEF AfterWrite, HasSaved, RequestState
      <3>4. CASE ~sent
        <4> DEFINE p == Return(r, FALSE)
        <4>1. p \in RequestState /\ p.pc = "relGlobal" /\ p.saved
          BY <1>0, <2>1, ReturnType DEF TypeInv
        <4>2. req'[r] = [p EXCEPT !.text = req[r].text, !.saved = req[r].saved]
          BY <3>2, <3>4 DEF AfterWrite
        <4> HIDE DEF p
        <4>3. req'[r].pc = "relGlobal" /\ req'[r].saved
          BY <2>1, <4>1, <4>2 DEF RequestState
        <4> QED
          BY <4>3 DEF HasSaved
      <3> QED
        BY <3>3, <3>4
    <2>4. CASE AttemptCompletes(r)
      BY <1>0, <2>1, <2>4, ReturnSaved DEF AttemptCompletes
    <2>5. CASE AttemptFails(r)
      BY <1>0, <2>1, <2>5, ReturnSaved DEF AttemptFails
    <2>6. CASE AttemptCancelled(r)
      BY <1>0, <2>1, <2>6, ReturnSaved DEF AttemptCancelled
    <2> QED
      BY <2>2, <2>3, <2>4, <2>5, <2>6
  <1> QED
    BY <1>1, <1>2, <1>3 DEF HasSaved

LEMMA ProgramStepReplies ==
  ASSUME TypeInv, RepliesInv, NEW r \in Requests, ProgramStep(r)
  PROVE  RepliesInv'
  <1> USE TypeInvParts
  <1>0. req \in [Requests -> RequestState]
    BY DEF RequestsTyped
  <1>1. \A r2 \in Requests \ {r} : req'[r2] = req[r2]
    BY ProgramStepMoves, MovesOne
  <1>2. CASE RelayDone(r)
    <2>1. /\ r \in SessionRequests /\ req[r].sess \in Sessions
          /\ ~HasSaved(r) /\ aiAvailable
      BY <1>2 DEF RelayDone, At, HasSaved, RequestsTyped, Located, WithoutAI,
         Requests
    <2>2. PICK stored \in BOOLEAN, sent \in BOOLEAN :
            /\ log' = LogWithReply(r, stored)
            /\ req' = [req EXCEPT ![r] =
                         AfterWrite(r, sent, [@ EXCEPT !.saved = stored,
                                                       !.closed = TRUE])]
      BY <1>2 DEF RelayDone, AddMessageResults
    <2> DEFINE q == [req[r] EXCEPT !.saved = stored, !.closed = TRUE]
    <2>3. /\ q \in RequestState /\ q.pc = "relay" /\ q.saved = stored /\ q.closed
          /\ q.user = req[r].user /\ q.sess = req[r].sess
      BY <1>0, <1>2 DEF RelayDone, At, RequestState
    <2>4. req'[r] = AfterWrite(r, sent, q)
      BY <1>0, <2>2
    <2> HIDE DEF q
    <2>5. /\ req'[r].saved = stored
          /\ req'[r].pc = IF sent THEN "relay" ELSE "relGlobal"
      <3>1. req[r].pc = "relay" /\ FALSE \in BOOLEAN
        BY <1>2 DEF RelayDone, At
      <3>2. Return(r, FALSE).pc = "relGlobal"
        BY <2>1, ReturnType DEF TypeInv
      <3>3. /\ AfterWrite(r, sent, q).saved = q.saved
            /\ AfterWrite(r, sent, q).pc =
                 IF sent THEN req[r].pc ELSE Return(r, FALSE).pc
        <4>1. TypeOK /\ q.pc = req[r].pc
          BY <2>3, <3>1 DEF TypeInv
        <4> QED
          BY <2>3, <4>1, AfterWriteType
      <3> QED
        BY <2>3, <2>4, <3>1, <3>2, <3>3
    <2>6. sent => req'[r].closed /\ req'[r].emitted
      BY <2>3, <2>4 DEF AfterWrite, RequestState
    <2>7. stored => HasSaved(r)'
      BY <2>5, <2>6 DEF HasSaved
    <2> QED
      BY <1>1, <2>1, <2>2, <2>7, RepliesSave DEF Requests
  <1>3. CASE MockDone(r)
    <2>1. /\ r \in SessionRequests /\ req[r].sess \in Sessions
          /\ ~HasSaved(r) /\ r \notin ChatRequests
      BY <1>3, SessionPlaces, OnCallAssumption
         DEF MockDone, At, HasSaved, OnCallAssumption
    <2>2. PICK stored \in BOOLEAN, sent \in BOOLEAN :
            /\ log' = LogWithReply(r, stored)
            /\ req' = [req EXCEPT ![r] =
                         [Return(r, sent) EXCEPT !.saved = stored]]
      BY <1>3 DEF MockDone, AddMessageResults
    <2> DEFINE p == Return(r, sent)
    <2>3. /\ p \in RequestState
          /\ p.pc \in {"relGlobal", "unregister"} \/ p.pc = "late"
      BY <2>1, ReturnType DEF TypeInv, AfterStream
    <2>4. req'[r] = [p EXCEPT !.saved = stored]
      BY <1>0, <2>2
    <2> HIDE DEF p
    <2>5. stored => HasSaved(r)'
      BY <2>3, <2>4 DEF HasSaved, RequestState
    <2> QED
      BY <1>1, <2>1, <2>2, <2>5, RepliesSave DEF Requests
  <1>4. CASE SaveUnfinished(r)
    <2>1. r \in SessionRequests /\ req[r].sess \in Sessions
      BY <1>4, SessionPlaces DEF SaveUnfinished, At
    <2>2. HasSaved(r)'
      BY <1>0, <1>4 DEF SaveUnfinished, Goto, HasSaved, RequestState
    <2>3. CASE ~req[r].saved /\ req[r].text
      <3>1. PICK stored \in BOOLEAN : log' = LogWithReply(r, stored)
        BY <1>4, <2>3 DEF SaveUnfinished, AddMessageResults
      <3>2. ~HasSaved(r)
        BY <1>4, <2>3 DEF SaveUnfinished, At, HasSaved
      <3> QED
        BY <1>1, <2>1, <2>2, <3>1, <3>2, RepliesSave DEF Requests
    <2>4. CASE ~(~req[r].saved /\ req[r].text)
      <3>1. UNCHANGED log
        BY <1>4, <2>4 DEF SaveUnfinished
      <3>2. \A r2 \in SessionRequests : HasSaved(r2) => HasSaved(r2)'
        BY <1>1, <2>2 DEF HasSaved, Requests
      <3> QED
        BY <3>1, <3>2, RepliesFrame
    <2> QED
      BY <2>3, <2>4
  <1>5. CASE ~RelayDone(r) /\ ~MockDone(r) /\ ~SaveUnfinished(r)
    <2>1. UNCHANGED log
      BY <1>5 DEF ProgramStep, Local, Relay, FindMessageFails, ReplayExisting,
         NoExisting, RegisterActiveStream, UseMock, TryAcquireStream, UserBusy,
         TryAcquire, TooManyRequests, EmitStatus, AttemptCancelled, MockText,
         Release, ReleaseStream, UnregisterActiveStream, RelayDelta, RelayTool,
         RelayError, AttemptCompletes, AttemptFails, repo
    <2>2. \A r2 \in SessionRequests \ {r} : HasSaved(r2) => HasSaved(r2)'
      BY <1>1 DEF HasSaved, Requests
    <2>3. r \in SessionRequests /\ HasSaved(r) => HasSaved(r)'
      BY <1>5, QuietStepSaved
    <2> QED
      BY <2>1, <2>2, <2>3, RepliesFrame
  <1> QED
    BY <1>2, <1>3, <1>4, <1>5

LEMMA NextReplies ==
  ASSUME TypeInv, RepliesInv, [Next]_vars
  PROVE  RepliesInv'
  <1>0. ASSUME UNCHANGED req
        PROVE  \A r \in SessionRequests : HasSaved(r) => HasSaved(r)'
    BY <1>0 DEF HasSaved
  <1>1. CASE UNCHANGED vars
    BY <1>0, <1>1, RepliesFrame DEF vars, repo
  <1>2. CASE ActorStep
    <2>1. UNCHANGED req
      BY <1>2, ActorStepFrame
    <2>2. ASSUME NEW s \in Sessions, AddUserMessage(s) PROVE RepliesInv'
      <3> DEFINE m == [role |-> "user", blank |-> FALSE, by |-> None]
      <3>1. log' = [log EXCEPT ![s] = Append(@, m)] /\ m.by = None
        BY <2>2 DEF AddUserMessage
      <3> HIDE DEF m
      <3> QED
        BY <1>0, <2>1, <3>1, RepliesAppend
    <2>3. CASE ~\E s \in Sessions : AddUserMessage(s)
      <3>1. UNCHANGED log
        BY <1>2, <2>3 DEF ActorStep, CreateSession, ClientGone, BeginCall,
           CallerStep, TakeActiveStream, CallCancel, DeleteSession, repo
      <3> QED
        BY <1>0, <2>1, <3>1, RepliesFrame
    <2> QED
      BY <2>2, <2>3
  <1>3. ASSUME NEW r \in Requests, FindMessage(r) \/ BeginChat(r)
        PROVE  RepliesInv'
    <2>1. ~HasSaved(r)
      BY <1>3, BeginMoves DEF HasSaved
    <2>2. \A r2 \in SessionRequests : HasSaved(r2) => HasSaved(r2)'
      BY <1>3, <2>1, BeginMoves DEF HasSaved, Requests
    <2> QED
      BY <1>3, <2>2, BeginMoves, RepliesFrame
  <1>4. ASSUME NEW r \in Requests, ProgramStep(r) PROVE RepliesInv'
    BY <1>4, ProgramStepReplies
  <1> QED
    BY <1>1, <1>2, <1>3, <1>4, Steps

\* A request saves at most one reply, whichever of the points that save it
\* passes.
THEOREM RepliesSavedOnce == Spec => []OneReplyPerRequest
  <1>1. Init => RepliesInv
    BY DEF Init, RepliesInv, RepliesRecorded, OneReplyPerRequest
  <1>2. RepliesInv => OneReplyPerRequest
    BY DEF RepliesInv
  <1> QED
    BY TypeInvariant, <1>1, <1>2, NextReplies, PTL DEF Spec
=============================================================================
