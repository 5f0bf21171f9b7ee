------------------------ MODULE OnCallStream_proofs ------------------------
(***************************************************************************)
(* Proofs about OnCallStream, for any users, sessions, requests, callers   *)
(* and limits.                                                             *)
(***************************************************************************)
EXTENDS OnCallStream, TLAPS, FiniteSetTheorems

-----------------------------------------------------------------------------
(* The inductive invariant behind TypeOK. *)

\* A chat request has no session: it is never where a session is looked at.
ChatPCs == {"idle", "user", "global", "status", "relay", "mock", "relGlobal",
            "relUser", "ended"}

\* A request under way knows its user and, if it has one, its session.
Located ==
  \A r \in Requests :
    /\ r \in ChatRequests => req[r].pc \in ChatPCs
    /\ req[r].pc \notin {"idle", "ended"} =>
         /\ req[r].user \in Users
         /\ r \in SessionRequests => req[r].sess \in Sessions

\* A caller under way knows its session and, once it took one, its stream.
Targeted ==
  \A c \in Callers :
    /\ caller[c].pc \notin {"idle", "ended"} => caller[c].sess \in Sessions
    /\ caller[c].pc = "call" => caller[c].target \in SessionRequests

\* Without an AI service no request passes the limiters.
WithoutAI ==
  ~aiAvailable => \A r \in Requests :
    req[r].pc \notin {"global", "status", "relay", "relGlobal", "relUser"}

TypeInv == TypeOK /\ Located /\ Targeted /\ WithoutAI

LEMMA LimitTypes == AILimit \in Nat \ {0} /\ UserLimit \in Nat \ {0}
  BY OnCallAssumption DEF OnCallAssumption, AILimit, UserLimit

LEMMA InitTypeInv == Init => TypeInv
  <1> SUFFICES ASSUME Init PROVE TypeInv
    OBVIOUS
  <1>1. TypeOK
    BY LimitTypes DEF Init, TypeOK, RequestState, RequestPC, CallerState,
       CallerPC, MaxAttempts
  <1>2. Located /\ Targeted /\ WithoutAI
    BY DEF Init, Located, Targeted, WithoutAI, ChatPCs
  <1> QED
    BY <1>1, <1>2 DEF TypeInv

LEMMA ReturnType ==
  ASSUME TypeOK, NEW r \in Requests, NEW ok \in BOOLEAN
  PROVE  /\ Return(r, ok) \in RequestState
         /\ Return(r, ok).user = req[r].user
         /\ Return(r, ok).sess = req[r].sess
         /\ Return(r, ok).text = req[r].text
         /\ Return(r, ok).saved = req[r].saved
         /\ Return(r, ok).ok = ok
         /\ Return(r, ok).pc = IF aiAvailable THEN "relGlobal"
                                              ELSE AfterStream(r, ok)
  <1>1. req[r] \in RequestState
    BY DEF TypeOK
  <1>2. AfterStream(r, ok) \in RequestPC
    BY DEF AfterStream, RequestPC
  <1>3. 0 \in 0..MaxAttempts
    BY DEF MaxAttempts
  <1> DEFINE pc == IF aiAvailable THEN "relGlobal" ELSE AfterStream(r, ok)
  <1>4. pc \in RequestPC
    BY <1>2 DEF RequestPC
  <1> HIDE DEF pc
  <1>5. [req[r] EXCEPT !.pc = pc, !.ok = ok, !.attempt = 0, !.emitted = FALSE,
                       !.closed = FALSE] = Return(r, ok)
    BY DEF Return, pc
  <1> QED
    BY <1>1, <1>3, <1>4, <1>5 DEF RequestState, pc

\* The part of TypeInv that the local state of the requests decides.
RequestsTyped == req \in [Requests -> RequestState] /\ Located /\ WithoutAI

\* The other part.
StoreTyped ==
  /\ aiAvailable \in BOOLEAN
  /\ session \in [Sessions -> {"absent", "live", "deleted"}]
  /\ log \in [Sessions -> Seq(Message)]
  /\ activeStreams \in [Sessions -> SessionRequests \cup {None}]
  /\ slot \in [Users -> [Keys -> Ids \cup {None}]]
  /\ sem \in 0..AILimit
  /\ ctxDone \in SUBSET Requests
  /\ caller \in [Callers -> CallerState]
  /\ Targeted

LEMMA TypeInvParts == TypeInv <=> RequestsTyped /\ StoreTyped
  BY DEF TypeInv, TypeOK, RequestsTyped, StoreTyped

LEMMA RequestMoves ==
  ASSUME RequestsTyped, NEW r \in Requests, NEW q \in RequestState,
         req' = [req EXCEPT ![r] = q], UNCHANGED aiAvailable,
         r \in ChatRequests => q.pc \in ChatPCs,
         q.pc \notin {"idle", "ended"} =>
           /\ q.user \in Users
           /\ r \in SessionRequests => q.sess \in Sessions,
         ~aiAvailable => q.pc \notin {"global", "status", "relay",
                                     "relGlobal", "relUser"}
  PROVE  RequestsTyped'
  BY DEF RequestsTyped, Located, WithoutAI

LEMMA UserMessageNumbers ==
  ASSUME StoreTyped, NEW s \in Sessions
  PROVE  UserMessages(s) \subseteq Nat
  <1>1. log[s] \in Seq(Message)
    BY DEF StoreTyped
  <1>2. DOMAIN log[s] = 1..Len(log[s]) /\ Len(log[s]) \in Nat
    BY <1>1
  <1> QED
    BY <1>2 DEF UserMessages


-----------------------------------------------------------------------------
(* How a request moves. *)

\* Where a request goes on after a return of streamAIWithOptions.
ReturnsTo(r, l) ==
  IF aiAvailable THEN l = "relGlobal"
                 ELSE \E ok \in BOOLEAN : l = AfterStream(r, ok)

\* The program: place l follows the place of request r.
Flow(r, l) ==
  \/ At(r, "idle") /\ l = "ended"
  \/ At(r, "check") /\ l \in {"register", "ended"}
  \/ At(r, "register") /\ l = "user"
  \/ At(r, "user") /\ IF aiAvailable
                      THEN \/ l = "global"
                           \/ \E sent \in BOOLEAN : l = AfterStream(r, sent)
                      ELSE l = "mock"
  \/ At(r, "global") /\ l \in {"status", "relUser"}
  \/ At(r, "status") /\ l \in {"relay", "relGlobal"}
  \/ At(r, "relay") /\ l \in {"relay", "mock", "relGlobal"}
  \/ /\ At(r, "mock")
     /\ \/ r \in SessionRequests /\ l = "mockDone"
        \/ ReturnsTo(r, l)
  \/ At(r, "mockDone") /\ ReturnsTo(r, l)
  \/ At(r, "relGlobal") /\ l = "relUser"
  \/ At(r, "relUser") /\ \E ok \in BOOLEAN : l = AfterStream(r, ok)
  \/ At(r, "late") /\ l = "unregister"
  \/ At(r, "unregister") /\ l = "ended"

\* Request r moves along the program, with its user and session.
Moves(r) ==
  \E q \in RequestState :
    /\ req' = [req EXCEPT ![r] = q]
    /\ q.user = req[r].user /\ q.sess = req[r].sess
    /\ Flow(r, q.pc)

\* Steps of a request that is under way, or fails to start.
ProgramStep(r) ==
  FindMessageFails(r) \/ Local(r) \/ Relay(r)

LEMMA MovesByGoto ==
  ASSUME RequestsTyped, NEW r \in Requests, NEW l \in RequestPC, Goto(r, l),
         Flow(r, l)
  PROVE  Moves(r)
  <1> DEFINE q == [req[r] EXCEPT !.pc = l]
  <1>1. req[r] \in RequestState
    BY DEF RequestsTyped
  <1>2. /\ q \in RequestState
        /\ q.pc = l /\ q.user = req[r].user /\ q.sess = req[r].sess
    BY <1>1 DEF RequestState
  <1>3. req' = [req EXCEPT ![r] = q]
    BY DEF Goto
  <1> HIDE DEF q
  <1> QED
    BY <1>2, <1>3 DEF Moves

LEMMA MovesByReturn ==
  ASSUME TypeOK, RequestsTyped, NEW r \in Requests, NEW ok \in BOOLEAN,
         req' = [req EXCEPT ![r] = Return(r, ok)],
         req[r].pc \in {"status", "relay", "mock", "mockDone"}
  PROVE  Moves(r)
  <1>1. Flow(r, Return(r, ok).pc)
    BY ReturnType DEF Flow, ReturnsTo, At, RequestsTyped, WithoutAI
  <1> QED
    BY <1>1, ReturnType DEF Moves

LEMMA AfterWriteType ==
  ASSUME TypeOK, NEW r \in Requests, NEW sent \in BOOLEAN,
         NEW q \in RequestState,
         q.user = req[r].user, q.sess = req[r].sess, q.pc = req[r].pc
  PROVE  /\ AfterWrite(r, sent, q) \in RequestState
         /\ AfterWrite(r, sent, q).user = req[r].user
         /\ AfterWrite(r, sent, q).sess = req[r].sess
         /\ AfterWrite(r, sent, q).text = q.text
         /\ AfterWrite(r, sent, q).saved = q.saved
         /\ AfterWrite(r, sent, q).pc =
              IF sent THEN req[r].pc ELSE Return(r, FALSE).pc
  <1>1. CASE sent
    BY <1>1 DEF AfterWrite, RequestState
  <1>2. CASE ~sent
    <2> DEFINE p == Return(r, FALSE)
    <2>1. /\ p \in RequestState
          /\ p.user = req[r].user /\ p.sess = req[r].sess
      BY ReturnType
    <2>2. AfterWrite(r, sent, q) =
            [p EXCEPT !.text = q.text, !.saved = q.saved]
      BY <1>2 DEF AfterWrite
    <2> HIDE DEF p
    <2>3. /\ AfterWrite(r, sent, q) \in RequestState
          /\ AfterWrite(r, sent, q).user = p.user
          /\ AfterWrite(r, sent, q).sess = p.sess
          /\ AfterWrite(r, sent, q).pc = p.pc
          /\ AfterWrite(r, sent, q).text = q.text
          /\ AfterWrite(r, sent, q).saved = q.saved
      BY <2>1, <2>2 DEF RequestState
    <2> QED
      BY <1>2, <2>1, <2>3 DEF p
  <1> QED
    BY <1>1, <1>2

LEMMA MovesByWrite ==
  ASSUME TypeOK, RequestsTyped, NEW r \in Requests, NEW sent \in BOOLEAN,
         NEW q \in RequestState, At(r, "relay"),
         q.user = req[r].user, q.sess = req[r].sess, q.pc = req[r].pc,
         req' = [req EXCEPT ![r] = AfterWrite(r, sent, q)]
  PROVE  Moves(r)
  <1>1. aiAvailable
    BY DEF RequestsTyped, WithoutAI, At
  <1>2. AfterWrite(r, sent, q).pc \in {"relay", "relGlobal"}
    <2>1. req[r].pc = "relay"
      BY DEF At
    <2>2. AfterWrite(r, sent, q).pc =
            IF sent THEN req[r].pc ELSE Return(r, FALSE).pc
      BY AfterWriteType
    <2>3. Return(r, FALSE).pc = "relGlobal"
      BY <1>1, ReturnType
    <2> QED
      BY <2>1, <2>2, <2>3
  <1>3. Flow(r, AfterWrite(r, sent, q).pc)
    BY <1>2 DEF Flow, At
  <1> QED
    BY <1>3, AfterWriteType DEF Moves

LEMMA ProgramStepMoves ==
  ASSUME TypeInv, NEW r \in Requests, ProgramStep(r)
  PROVE  Moves(r)
  <1> USE TypeInvParts
  <1>1. CASE FindMessageFails(r)
    BY <1>1, MovesByGoto DEF FindMessageFails, RequestPC, Flow, At
  <1>2. CASE ReplayExisting(r)
    BY <1>2, MovesByGoto DEF ReplayExisting, RequestPC, Flow, At
  <1>3. CASE NoExisting(r)
    BY <1>3, MovesByGoto DEF NoExisting, RequestPC, Flow, At
  <1>4. CASE RegisterActiveStream(r)
    BY <1>4, MovesByGoto DEF RegisterActiveStream, RequestPC, Flow, At
  <1>5. CASE UseMock(r)
    BY <1>5, MovesByGoto DEF UseMock, RequestPC, Flow, At
  <1>6. CASE TryAcquireStream(r)
    BY <1>6, MovesByGoto DEF TryAcquireStream, RequestPC, Flow, At
  <1>7. CASE TryAcquire(r)
    BY <1>7, MovesByGoto DEF TryAcquire, RequestPC, Flow, At
  <1>8. CASE Release(r)
    BY <1>8, MovesByGoto DEF Release, RequestPC, Flow, At
  <1>9. CASE UserBusy(r)
    <2>1. PICK sent \in BOOLEAN : Goto(r, AfterStream(r, sent))
      BY <1>9 DEF UserBusy
    <2>2. AfterStream(r, sent) \in RequestPC
      BY DEF AfterStream, RequestPC
    <2>3. Flow(r, AfterStream(r, sent))
      BY <1>9 DEF UserBusy, Flow
    <2> QED
      BY <2>1, <2>2, <2>3, MovesByGoto
  <1>10. CASE TooManyRequests(r)
    <2>1. PICK sent \in BOOLEAN :
            req' = [req EXCEPT ![r].pc = "relUser", ![r].ok = sent]
      BY <1>10 DEF TooManyRequests
    <2> DEFINE q == [req[r] EXCEPT !.pc = "relUser", !.ok = sent]
    <2>2. req[r] \in RequestState
      BY DEF RequestsTyped
    <2>3. /\ q \in RequestState /\ q.pc = "relUser"
          /\ q.user = req[r].user /\ q.sess = req[r].sess
      BY <2>2 DEF RequestState, RequestPC
    <2>4. req' = [req EXCEPT ![r] = q]
      BY <2>1
    <2> HIDE DEF q
    <2> QED
      BY <1>10, <2>3, <2>4 DEF TooManyRequests, Moves, Flow
  <1>11. CASE EmitStatus(r)
    <2>1. PICK sent \in BOOLEAN :
            req' = [req EXCEPT ![r] = IF sent
                                THEN [@ EXCEPT !.pc = "relay", !.attempt = 1]
                                ELSE Return(r, FALSE)]
      BY <1>11 DEF EmitStatus
    <2>2. CASE sent
      <3> DEFINE q == [req[r] EXCEPT !.pc = "relay", !.attempt = 1]
      <3>1. req[r] \in RequestState /\ 1 \in 0..MaxAttempts
        BY DEF RequestsTyped, MaxAttempts
      <3>2. /\ q \in RequestState /\ q.pc = "relay"
            /\ q.user = req[r].user /\ q.sess = req[r].sess
        BY <3>1 DEF RequestState, RequestPC
      <3>3. req' = [req EXCEPT ![r] = q]
        BY <2>1, <2>2
      <3> HIDE DEF q
      <3> QED
        BY <1>11, <3>2, <3>3 DEF EmitStatus, Moves, Flow
    <2>3. CASE ~sent
      BY <1>11, <2>1, <2>3, MovesByReturn DEF EmitStatus, TypeInv, At
    <2> QED
      BY <2>2, <2>3
  <1>12. CASE RelayDelta(r)
    <2>1. PICK sent \in BOOLEAN :
            req' = [req EXCEPT ![r] =
                      AfterWrite(r, sent, [@ EXCEPT !.text = TRUE])]
      BY <1>12 DEF RelayDelta
    <2> DEFINE q == [req[r] EXCEPT !.text = TRUE]
    <2>2. req[r] \in RequestState
      BY DEF RequestsTyped
    <2>3. /\ q \in RequestState /\ q.pc = req[r].pc
          /\ q.user = req[r].user /\ q.sess = req[r].sess
      BY <2>2 DEF RequestState
    <2>4. req' = [req EXCEPT ![r] = AfterWrite(r, sent, q)]
      BY <2>1
    <2> HIDE DEF q
    <2> QED
      BY <1>12, <2>3, <2>4, MovesByWrite DEF RelayDelta, TypeInv
  <1>13. CASE RelayTool(r)
    <2>1. PICK sent \in BOOLEAN :
            req' = [req EXCEPT ![r] =
                      AfterWrite(r, sent, @)]
      BY <1>13 DEF RelayTool
    <2> DEFINE q == req[r]
    <2>2. req[r] \in RequestState
      BY DEF RequestsTyped
    <2>3. /\ q \in RequestState /\ q.pc = req[r].pc
          /\ q.user = req[r].user /\ q.sess = req[r].sess
      BY <2>2 DEF RequestState
    <2>4. req' = [req EXCEPT ![r] = AfterWrite(r, sent, q)]
      BY <2>1
    <2> HIDE DEF q
    <2> QED
      BY <1>13, <2>3, <2>4, MovesByWrite DEF RelayTool, TypeInv
  <1>14. CASE RelayDone(r)
    <2>1. PICK sent \in BOOLEAN, stored \in BOOLEAN :
            req' = [req EXCEPT ![r] =
                      AfterWrite(r, sent, [@ EXCEPT !.saved = stored, !.closed = TRUE])]
      BY <1>14 DEF RelayDone, AddMessageResults
    <2> DEFINE q == [req[r] EXCEPT !.saved = stored, !.closed = TRUE]
    <2>2. req[r] \in RequestState
      BY DEF RequestsTyped
    <2>3. /\ q \in RequestState /\ q.pc = req[r].pc
          /\ q.user = req[r].user /\ q.sess = req[r].sess
      BY <2>2 DEF RequestState
    <2>4. req' = [req EXCEPT ![r] = AfterWrite(r, sent, q)]
      BY <2>1
    <2> HIDE DEF q
    <2> QED
      BY <1>14, <2>3, <2>4, MovesByWrite DEF RelayDone, TypeInv
  <1>15. CASE RelayError(r)
    <2> DEFINE q == [req[r] EXCEPT !.closed = TRUE]
    <2>1. req[r] \in RequestState
      BY DEF RequestsTyped
    <2>2. /\ q \in RequestState /\ q.pc = req[r].pc
          /\ q.user = req[r].user /\ q.sess = req[r].sess
      BY <2>1 DEF RequestState
    <2>3. req' = [req EXCEPT ![r] = q]
      BY <1>15 DEF RelayError
    <2> HIDE DEF q
    <2> QED
      BY <1>15, <2>2, <2>3 DEF RelayError, Moves, Flow, At
  <1>16. CASE AttemptCompletes(r)
    BY <1>16, MovesByReturn DEF AttemptCompletes, At, TypeInv
  <1>17. CASE AttemptCancelled(r)
    BY <1>17, MovesByReturn DEF AttemptCancelled, At, TypeInv
  <1>18. CASE AttemptFails(r)
    <2>1. req[r] \in RequestState
      BY DEF RequestsTyped
    <2>2. CASE r \in ctxDone \/ req[r].emitted
      BY <1>18, <2>2, MovesByReturn DEF AttemptFails, At, TypeInv
    <2>3. CASE /\ ~(r \in ctxDone \/ req[r].emitted)
               /\ req[r].attempt < MaxAttempts
      <3> DEFINE q == [req[r] EXCEPT !.attempt = @ + 1, !.closed = FALSE]
      <3>1. req[r].attempt + 1 \in 0..MaxAttempts
        BY <2>1, <2>3 DEF RequestState, MaxAttempts
      <3>2. /\ q \in RequestState /\ q.pc = req[r].pc
            /\ q.user = req[r].user /\ q.sess = req[r].sess
        BY <2>1, <3>1 DEF RequestState
      <3>3. req' = [req EXCEPT ![r] = q]
        BY <1>18, <2>3 DEF AttemptFails
      <3> HIDE DEF q
      <3> QED
        BY <1>18, <3>2, <3>3 DEF AttemptFails, Moves, Flow, At
    <2>4. CASE /\ ~(r \in ctxDone \/ req[r].emitted)
               /\ ~(req[r].attempt < MaxAttempts)
      <3>1. Goto(r, "mock")
        BY <1>18, <2>4 DEF AttemptFails, Goto
      <3> QED
        BY <1>18, <3>1, MovesByGoto DEF AttemptFails, Flow, RequestPC
    <2> QED
      BY <2>2, <2>3, <2>4
  <1>19. CASE MockText(r)
    <2>1. PICK sent \in BOOLEAN :
            req' = [req EXCEPT ![r] =
                      IF sent /\ r \in SessionRequests
                      THEN [@ EXCEPT !.pc = "mockDone", !.text = TRUE]
                      ELSE Return(r, sent)]
      BY <1>19 DEF MockText
    <2>2. CASE sent /\ r \in SessionRequests
      <3> DEFINE q == [req[r] EXCEPT !.pc = "mockDone", !.text = TRUE]
      <3>1. req[r] \in RequestState
        BY DEF RequestsTyped
      <3>2. /\ q \in RequestState /\ q.pc = "mockDone"
            /\ q.user = req[r].user /\ q.sess = req[r].sess
        BY <3>1 DEF RequestState, RequestPC
      <3>3. req' = [req EXCEPT ![r] = q]
        BY <2>1, <2>2
      <3> HIDE DEF q
      <3> QED
        BY <1>19, <2>2, <3>2, <3>3 DEF MockText, Moves, Flow
    <2>3. CASE ~(sent /\ r \in SessionRequests)
      BY <1>19, <2>1, <2>3, MovesByReturn DEF MockText, At, TypeInv
    <2> QED
      BY <2>2, <2>3
  <1>20. CASE MockDone(r)
    <2>1. PICK stored \in BOOLEAN, sent \in BOOLEAN :
            req' = [req EXCEPT ![r] =
                      [Return(r, sent) EXCEPT !.saved = stored]]
      BY <1>20 DEF MockDone, AddMessageResults
    <2> DEFINE p == Return(r, sent)
               q == [p EXCEPT !.saved = stored]
    <2>2. /\ p \in RequestState
          /\ p.user = req[r].user /\ p.sess = req[r].sess
          /\ ReturnsTo(r, p.pc)
      BY ReturnType DEF TypeInv, ReturnsTo
    <2>3. req' = [req EXCEPT ![r] = q]
      BY <2>1
    <2> HIDE DEF p
    <2>4. /\ q \in RequestState /\ q.pc = p.pc
          /\ q.user = req[r].user /\ q.sess = req[r].sess
      BY <2>2 DEF RequestState
    <2> HIDE DEF q
    <2> QED
      BY <1>20, <2>2, <2>3, <2>4 DEF MockDone, Moves, Flow
  <1>21. CASE ReleaseStream(r)
    <2>1. Goto(r, AfterStream(r, req[r].ok))
      BY <1>21 DEF ReleaseStream
    <2>2. AfterStream(r, req[r].ok) \in RequestPC
      BY DEF AfterStream, RequestPC
    <2>3. req[r].ok \in BOOLEAN
      BY DEF RequestsTyped, RequestState
    <2>4. Flow(r, AfterStream(r, req[r].ok))
      BY <1>21, <2>3 DEF ReleaseStream, Flow
    <2> QED
      BY <2>1, <2>2, <2>4, MovesByGoto
  <1>22. CASE SaveUnfinished(r)
    BY <1>22, MovesByGoto DEF SaveUnfinished, RequestPC, Flow
  <1>23. CASE UnregisterActiveStream(r)
    <2> DEFINE q == [req[r] EXCEPT !.pc = "ended", !.text = FALSE,
                                   !.saved = FALSE, !.ok = TRUE]
    <2>1. req[r] \in RequestState
      BY DEF RequestsTyped
    <2>2. /\ q \in RequestState /\ q.pc = "ended"
          /\ q.user = req[r].user /\ q.sess = req[r].sess
      BY <2>1 DEF RequestState, RequestPC
    <2>3. req' = [req EXCEPT ![r] = q]
      BY <1>23 DEF UnregisterActiveStream
    <2> HIDE DEF q
    <2> QED
      BY <1>23, <2>2, <2>3 DEF UnregisterActiveStream, Moves, Flow
  <1> QED
    BY <1>1, <1>2, <1>3, <1>4, <1>5, <1>6, <1>7, <1>8, <1>9, <1>10,
       <1>11, <1>12, <1>13, <1>14, <1>15, <1>16, <1>17, <1>18, <1>19,
       <1>20, <1>21, <1>22, <1>23
       DEF ProgramStep, Local, Relay

\* The steps of the other actors.
ActorStep ==
  \/ \E s \in Sessions : CreateSession(s) \/ AddUserMessage(s)
  \/ \E r \in Requests : ClientGone(r)
  \/ \E c \in Callers :
       \/ \E s \in Sessions, op \in {"cancel", "delete"} : BeginCall(c, s, op)
       \/ CallerStep(c)

\* The kinds of steps the proofs below distinguish.
LEMMA Steps ==
  ASSUME [Next]_vars
  PROVE  \/ UNCHANGED vars
         \/ ActorStep
         \/ \E r \in Requests : FindMessage(r) \/ BeginChat(r)
         \/ \E r \in Requests : ProgramStep(r)
  BY DEF Next, ActorStep, ProgramStep, Quiescent

LEMMA ActorStepFrame ==
  ASSUME ActorStep
  PROVE  UNCHANGED <<aiAvailable, slot, sem, req>>
  BY DEF ActorStep, CreateSession, AddUserMessage, ClientGone, BeginCall,
     CallerStep, TakeActiveStream, CallCancel, DeleteSession, repo, streams,
     limits

LEMMA ProgramStepFrame ==
  ASSUME NEW r \in Requests, ProgramStep(r)
  PROVE  UNCHANGED <<aiAvailable, session, caller>>
  BY DEF ProgramStep, Local, Relay, FindMessageFails, ReplayExisting,
     NoExisting, RegisterActiveStream, UseMock, TryAcquireStream, UserBusy,
     TryAcquire, TooManyRequests, EmitStatus, AttemptCancelled, MockText,
     MockDone, Release, ReleaseStream, SaveUnfinished, UnregisterActiveStream,
     RelayDelta, RelayTool, RelayDone, RelayError, AttemptCompletes,
     AttemptFails, repo, streams, limits

LEMMA MovesTyped ==
  ASSUME RequestsTyped, NEW r \in Requests, Moves(r), UNCHANGED aiAvailable
  PROVE  RequestsTyped'
  <1>1. PICK q \in RequestState :
          /\ req' = [req EXCEPT ![r] = q]
          /\ q.user = req[r].user /\ q.sess = req[r].sess
          /\ Flow(r, q.pc)
    BY DEF Moves
  <1>2. q.pc \notin {"idle", "ended"} =>
          /\ q.user \in Users
          /\ r \in SessionRequests => q.sess \in Sessions
    BY <1>1 DEF RequestsTyped, Located, Flow, At
  <1>3. r \in ChatRequests => q.pc \in ChatPCs
    BY <1>1, OnCallAssumption DEF RequestsTyped, Located, Flow, ReturnsTo, At,
       ChatPCs, AfterStream, OnCallAssumption
  <1>4. ~aiAvailable => q.pc \notin {"global", "status", "relay", "relGlobal",
                                     "relUser"}
    BY <1>1 DEF RequestsTyped, WithoutAI, Flow, ReturnsTo, At, AfterStream
  <1> QED
    BY <1>1, <1>2, <1>3, <1>4, RequestMoves

LEMMA NextRequestsTyped ==
  ASSUME TypeInv, [Next]_vars
  PROVE  RequestsTyped'
  <1> USE TypeInvParts
  <1>0. ASSUME UNCHANGED <<req, aiAvailable>> PROVE RequestsTyped'
    BY <1>0 DEF RequestsTyped, Located, WithoutAI
  <1>1. CASE UNCHANGED vars
    BY <1>0, <1>1 DEF vars, repo
  <1>2. CASE ActorStep
    BY <1>0, <1>2, ActorStepFrame
  <1>3. ASSUME NEW r \in Requests, ProgramStep(r) PROVE RequestsTyped'
    BY <1>3, ProgramStepMoves, ProgramStepFrame, MovesTyped
  <1>4. ASSUME NEW r \in Requests, FindMessage(r) PROVE RequestsTyped'
    <2>1. PICK s \in Sessions, m \in Nat :
            req' = [req EXCEPT ![r].pc = "check", ![r].user = Owner[s],
                               ![r].sess = s, ![r].msg = m]
      BY <1>4, UserMessageNumbers DEF FindMessage
    <2>2. Owner[s] \in Users
      BY OnCallAssumption DEF OnCallAssumption
    <2> DEFINE q == [req[r] EXCEPT !.pc = "check", !.user = Owner[s],
                                   !.sess = s, !.msg = m]
    <2>3. req[r] \in RequestState
      BY DEF RequestsTyped
    <2>4. q \in RequestState /\ q.pc = "check" /\ q.user = Owner[s] /\ q.sess = s
      BY <2>2, <2>3 DEF RequestState, RequestPC
    <2>5. req' = [req EXCEPT ![r] = q]
      BY <2>1
    <2>6. r \notin ChatRequests
      BY <1>4, OnCallAssumption DEF FindMessage, OnCallAssumption
    <2> HIDE DEF q
    <2> QED
      BY <1>4, <2>2, <2>4, <2>5, <2>6, RequestMoves DEF FindMessage, repo
  <1>5. ASSUME NEW r \in Requests, BeginChat(r) PROVE RequestsTyped'
    <2>1. PICK u \in Users :
            req' = [req EXCEPT ![r].pc = "user", ![r].user = u]
      BY <1>5 DEF BeginChat
    <2> DEFINE q == [req[r] EXCEPT !.pc = "user", !.user = u]
    <2>2. req[r] \in RequestState
      BY DEF RequestsTyped
    <2>3. q \in RequestState /\ q.pc = "user" /\ q.user = u
      BY <2>2 DEF RequestState, RequestPC
    <2>4. req' = [req EXCEPT ![r] = q]
      BY <2>1
    <2>5. r \notin SessionRequests
      BY <1>5, OnCallAssumption DEF BeginChat, OnCallAssumption
    <2> HIDE DEF q
    <2> QED
      BY <1>5, <2>3, <2>4, <2>5, RequestMoves DEF BeginChat, ChatPCs, repo
  <1> QED
    BY <1>1, <1>2, <1>3, <1>4, <1>5, Steps

\* Most steps of a request change nothing but its local state.
LocalStep(r) ==
  \/ FindMessage(r) \/ FindMessageFails(r) \/ BeginChat(r)
  \/ ReplayExisting(r) \/ NoExisting(r) \/ UseMock(r) \/ UserBusy(r)
  \/ TooManyRequests(r) \/ EmitStatus(r) \/ AttemptCancelled(r)
  \/ MockText(r) \/ RelayDelta(r) \/ RelayTool(r) \/ RelayError(r)
  \/ AttemptCompletes(r) \/ AttemptFails(r)

LEMMA LocalStepFrame ==
  ASSUME NEW r \in Requests, LocalStep(r)
  PROVE  UNCHANGED <<aiAvailable, session, log, activeStreams, ctxDone, slot,
                     sem, caller>>
  BY DEF LocalStep, FindMessage, FindMessageFails, BeginChat, ReplayExisting,
     NoExisting, UseMock, UserBusy, TooManyRequests, EmitStatus,
     AttemptCancelled, MockText, RelayDelta, RelayTool, RelayError,
     AttemptCompletes, AttemptFails, repo, streams, limits

\* AddMessage leaves a log of messages.
LEMMA LogType ==
  ASSUME StoreTyped, RequestsTyped, NEW r \in SessionRequests,
         NEW stored \in BOOLEAN
  PROVE  LogWithReply(r, stored) \in [Sessions -> Seq(Message)]
  <1> DEFINE m == [role |-> "assistant", blank |-> ~req[r].text, by |-> r]
  <1>1. m \in Message
    BY DEF Message
  <1>2. \A s \in Sessions : Append(log[s], m) \in Seq(Message)
    BY <1>1 DEF StoreTyped
  <1> HIDE DEF m
  <1>3. [log EXCEPT ![req[r].sess] = Append(@, m)] \in [Sessions -> Seq(Message)]
    BY <1>2 DEF StoreTyped
  <1> QED
    BY <1>3 DEF LogWithReply, m, StoreTyped

\* A chat request is never where a message is saved or a stream registered.
LEMMA SessionPlaces ==
  ASSUME RequestsTyped, NEW r \in Requests,
         req[r].pc \in {"check", "register", "mockDone", "late", "unregister"}
  PROVE  r \in SessionRequests /\ req[r].sess \in Sessions
  BY DEF RequestsTyped, Located, ChatPCs, Requests

\* A caller moves on to the deletion or to its end.
LEMMA CallerMoves ==
  ASSUME StoreTyped, NEW c \in Callers, NEW l \in {"delete", "ended"},
         caller[c].pc \notin {"idle", "ended"}, caller' = [caller EXCEPT ![c].pc = l]
  PROVE  caller' \in [Callers -> CallerState] /\ Targeted'
  <1>1. [caller[c] EXCEPT !.pc = l] \in CallerState
    BY DEF StoreTyped, CallerState, CallerPC
  <1>2. caller' \in [Callers -> CallerState]
    BY <1>1 DEF StoreTyped
  <1>3. \A d \in Callers : /\ caller'[d].sess = caller[d].sess
                             /\ caller'[d].target = caller[d].target
                             /\ caller'[d].pc = IF d = c THEN l ELSE caller[d].pc
    BY DEF StoreTyped, CallerState
  <1>4. Targeted'
    BY <1>3 DEF StoreTyped, Targeted, CallerState, CallerPC
  <1> QED
    BY <1>2, <1>4

LEMMA NextStoreTyped ==
  ASSUME TypeInv, [Next]_vars
  PROVE  StoreTyped'
  <1> USE TypeInvParts
  <1>0. CASE UNCHANGED vars
    BY <1>0 DEF vars, repo, streams, limits, StoreTyped, Targeted
  <1>1. ASSUME NEW r \in Requests, LocalStep(r) PROVE StoreTyped'
    BY <1>1, LocalStepFrame DEF StoreTyped, Targeted
  <1>2. ASSUME NEW s \in Sessions, CreateSession(s) PROVE StoreTyped'
    BY <1>2 DEF CreateSession, StoreTyped, Targeted, streams, limits
  <1>3. ASSUME NEW s \in Sessions, AddUserMessage(s) PROVE StoreTyped'
    <2> DEFINE m == [role |-> "user", blank |-> FALSE, by |-> None]
    <2>1. m \in Message
      BY DEF Message
    <2>2. Append(log[s], m) \in Seq(Message)
      BY <2>1 DEF StoreTyped
    <2>3. log' = [log EXCEPT ![s] = Append(log[s], m)]
      BY <1>3 DEF AddUserMessage
    <2> HIDE DEF m
    <2> QED
      BY <1>3, <2>2, <2>3 DEF AddUserMessage, StoreTyped, Targeted, streams, limits
  <1>4. ASSUME NEW r \in Requests, RegisterActiveStream(r) PROVE StoreTyped'
    <2>1. r \in SessionRequests /\ req[r].sess \in Sessions
      BY <1>4, SessionPlaces DEF RegisterActiveStream, At
    <2> QED
      BY <1>4, <2>1 DEF RegisterActiveStream, StoreTyped, Targeted, repo, limits, Requests
  <1>5. ASSUME NEW r \in Requests, TryAcquireStream(r) PROVE StoreTyped'
    <2>1. IdOf(r) \in Ids \cup {None}
      BY DEF IdOf, Ids, Requests
    <2> QED
      BY <1>5, <2>1 DEF TryAcquireStream, StoreTyped, Targeted, repo, streams
  <1>6. ASSUME NEW r \in Requests, TryAcquire(r) PROVE StoreTyped'
    BY <1>6, LimitTypes DEF TryAcquire, StoreTyped, Targeted, repo, streams
  <1>7. ASSUME NEW r \in Requests, Release(r) PROVE StoreTyped'
    BY <1>7, LimitTypes DEF Release, StoreTyped, Targeted, repo, streams
  <1>8. ASSUME NEW r \in Requests, ReleaseStream(r) PROVE StoreTyped'
    BY <1>8 DEF ReleaseStream, StoreTyped, Targeted, repo, streams
  <1>9. ASSUME NEW r \in Requests, RelayDone(r) PROVE StoreTyped'
    <2>1. r \in SessionRequests
      BY <1>9, SessionPlaces DEF RelayDone, At
    <2>2. UNCHANGED log \/ \E stored \in BOOLEAN : log' = LogWithReply(r, stored)
      BY <1>9 DEF RelayDone, AddMessageResults
    <2>3. log' \in [Sessions -> Seq(Message)]
      BY <2>1, <2>2, LogType DEF StoreTyped
    <2> QED
      BY <1>9, <2>3 DEF RelayDone, StoreTyped, Targeted, streams, limits
  <1>10. ASSUME NEW r \in Requests, MockDone(r) PROVE StoreTyped'
    <2>1. r \in SessionRequests
      BY <1>10, SessionPlaces DEF MockDone, At
    <2>2. UNCHANGED log \/ \E stored \in BOOLEAN : log' = LogWithReply(r, stored)
      BY <1>10 DEF MockDone, AddMessageResults
    <2>3. log' \in [Sessions -> Seq(Message)]
      BY <2>1, <2>2, LogType DEF StoreTyped
    <2> QED
      BY <1>10, <2>3 DEF MockDone, StoreTyped, Targeted, streams, limits
  <1>11. ASSUME NEW r \in Requests, SaveUnfinished(r) PROVE StoreTyped'
    <2>1. r \in SessionRequests
      BY <1>11, SessionPlaces DEF SaveUnfinished, At
    <2>2. UNCHANGED log \/ \E stored \in BOOLEAN : log' = LogWithReply(r, stored)
      BY <1>11 DEF SaveUnfinished, AddMessageResults
    <2>3. log' \in [Sessions -> Seq(Message)]
      BY <2>1, <2>2, LogType DEF StoreTyped
    <2> QED
      BY <1>11, <2>3 DEF SaveUnfinished, StoreTyped, Targeted, streams, limits
  <1>12. ASSUME NEW r \in Requests, UnregisterActiveStream(r) PROVE StoreTyped'
    BY <1>12 DEF UnregisterActiveStream, StoreTyped, Targeted, repo, limits
  <1>13. ASSUME NEW r \in Requests, ClientGone(r) PROVE StoreTyped'
    BY <1>13 DEF ClientGone, StoreTyped, Targeted, repo, limits
  <1>14. ASSUME NEW c \in Callers, NEW s \in Sessions,
               NEW op \in {"cancel", "delete"}, BeginCall(c, s, op) PROVE StoreTyped'
    <2>1. caller' = [caller EXCEPT ![c].pc = "take", ![c].op = op, ![c].sess = s]
      BY <1>14 DEF BeginCall
    <2>2. [caller[c] EXCEPT !.pc = "take", !.op = op, !.sess = s] \in CallerState
      BY DEF StoreTyped, CallerState, CallerPC
    <2>3. caller' \in [Callers -> CallerState]
      BY <2>1, <2>2 DEF StoreTyped
    <2>4. Targeted'
      BY <2>1 DEF StoreTyped, Targeted, CallerState
    <2> QED
      BY <1>14, <2>3, <2>4 DEF BeginCall, StoreTyped, repo, streams, limits
  <1>15. ASSUME NEW c \in Callers, TakeActiveStream(c) PROVE StoreTyped'
    <2>1. caller[c] \in CallerState /\ caller[c].sess \in Sessions
      BY <1>15 DEF TakeActiveStream, StoreTyped, Targeted
    <2>2. CASE activeStreams[caller[c].sess] = None
      <3>1. PICK l \in {"delete", "ended"} :
              caller' = [caller EXCEPT ![c].pc = l]
        BY <1>15, <2>2 DEF TakeActiveStream
      <3>2. caller' \in [Callers -> CallerState] /\ Targeted'
        BY <1>15, <3>1, CallerMoves DEF TakeActiveStream
      <3> QED
        BY <1>15, <2>2, <3>2 DEF TakeActiveStream, StoreTyped, repo, limits
    <2>3. CASE activeStreams[caller[c].sess] # None
      <3>1. activeStreams[caller[c].sess] \in SessionRequests
        BY <2>1, <2>3 DEF StoreTyped
      <3>2. caller' = [caller EXCEPT ![c].pc = "call",
                           ![c].target = activeStreams[caller[c].sess]]
        BY <1>15, <2>3 DEF TakeActiveStream
      <3>3. caller' \in [Callers -> CallerState] /\ Targeted'
        BY <1>15, <2>1, <3>1, <3>2 DEF StoreTyped, Targeted, CallerState, CallerPC
      <3> QED
        BY <1>15, <2>3, <3>3 DEF TakeActiveStream, StoreTyped, repo, limits
    <2> QED
      BY <2>2, <2>3
  <1>16. ASSUME NEW c \in Callers, CallCancel(c) PROVE StoreTyped'
    <2>1. PICK l \in {"delete", "ended"} : caller' = [caller EXCEPT ![c].pc = l]
      BY <1>16 DEF CallCancel
    <2>2. caller' \in [Callers -> CallerState] /\ Targeted'
      BY <1>16, <2>1, CallerMoves DEF CallCancel
    <2>3. caller[c].target \in Requests
      BY <1>16 DEF CallCancel, StoreTyped, Targeted, Requests
    <2> QED
      BY <1>16, <2>2, <2>3 DEF CallCancel, StoreTyped, repo, limits
  <1>17. ASSUME NEW c \in Callers, DeleteSession(c) PROVE StoreTyped'
    <2>1. caller' = [caller EXCEPT ![c].pc = "ended"]
      BY <1>17 DEF DeleteSession
    <2>2. caller' \in [Callers -> CallerState] /\ Targeted'
      BY <1>17, <2>1, CallerMoves DEF DeleteSession
    <2> QED
      BY <1>17, <2>2 DEF DeleteSession, StoreTyped, streams, limits
  <1> QED
    BY <1>0, <1>1, <1>2, <1>3, <1>4, <1>5, <1>6, <1>7, <1>8, <1>9, <1>10, <1>11, <1>12, <1>13, <1>14, <1>15, <1>16, <1>17
       DEF Next, Local, LocalStep, Relay, CallerStep, Quiescent

LEMMA TypeInvariant == Spec => []TypeInv
  <1>1. TypeInv /\ [Next]_vars => TypeInv'
    BY NextRequestsTyped, NextStoreTyped DEF TypeInv, TypeOK, RequestsTyped,
       StoreTyped
  <1> QED
    BY InitTypeInv, <1>1, PTL DEF Spec

\* The values of all variables stay in their types: no step of a request, a
\* caller or a client leaves a channel, a limiter or a record out of range.
THEOREM TypeCorrect == Spec => []TypeOK
  <1>1. TypeInv => TypeOK
    BY DEF TypeInv
  <1> QED
    BY TypeInvariant, <1>1, PTL

-----------------------------------------------------------------------------
(* The global limiter. *)

LEMMA BeginMoves ==
  ASSUME TypeInv, NEW r \in Requests, FindMessage(r) \/ BeginChat(r)
  PROVE  /\ req[r].pc = "idle"
         /\ \/ r \in SessionRequests /\ req'[r].pc = "check"
            \/ r \in ChatRequests /\ req'[r].pc = "user"
         /\ \A r2 \in Requests \ {r} : req'[r2] = req[r2]
         /\ UNCHANGED <<aiAvailable, session, log, activeStreams, ctxDone,
                        slot, sem, caller>>
  <1> USE TypeInvParts
  <1>1. CASE FindMessage(r)
    <2>1. PICK s \in Sessions, m \in Nat :
            req' = [req EXCEPT ![r].pc = "check", ![r].user = Owner[s],
                               ![r].sess = s, ![r].msg = m]
      BY <1>1, UserMessageNumbers DEF FindMessage
    <2>2. req'[r].pc = "check"
      BY <2>1 DEF RequestsTyped, RequestState
    <2> QED
      BY <1>1, <2>1, <2>2 DEF FindMessage, At, RequestsTyped, repo, streams,
         limits
  <1>2. CASE BeginChat(r)
    BY <1>2 DEF BeginChat, At, RequestsTyped, RequestState, repo, streams,
       limits
  <1> QED
    BY <1>1, <1>2

LEMMA MovesOne ==
  ASSUME RequestsTyped, NEW r \in Requests, Moves(r)
  PROVE  /\ req'[r] \in RequestState
         /\ req'[r].user = req[r].user /\ req'[r].sess = req[r].sess
         /\ Flow(r, req'[r].pc)
         /\ \A r2 \in Requests \ {r} : req'[r2] = req[r2]
  BY DEF Moves, RequestsTyped

LEMMA HoldersFinite == IsFiniteSet(GlobalHolders)
  <1>1. GlobalHolders \in SUBSET Requests
    BY DEF GlobalHolders
  <1> QED
    BY <1>1, FS_Subset, OnCallAssumption DEF OnCallAssumption

\* Only TryAcquire and Release move a request into or out of the holders.
LEMMA ProgramStepHolders ==
  ASSUME TypeInv, NEW r \in Requests, ProgramStep(r),
         ~TryAcquire(r), ~Release(r)
  PROVE  UNCHANGED <<sem, GlobalHolders>>
  <1> USE TypeInvParts
  <1>1. Moves(r) /\ UNCHANGED aiAvailable
    BY ProgramStepMoves, ProgramStepFrame
  <1>2. /\ UNCHANGED sem
        /\ ~At(r, "relGlobal")
        /\ At(r, "global") => TooManyRequests(r)
    BY DEF ProgramStep, Local, Relay, FindMessageFails, ReplayExisting,
       NoExisting, RegisterActiveStream, UseMock, TryAcquireStream, UserBusy,
       TooManyRequests, EmitStatus, AttemptCancelled, MockText, MockDone,
       ReleaseStream, SaveUnfinished, UnregisterActiveStream, RelayDelta,
       RelayTool, RelayDone, RelayError, AttemptCompletes, AttemptFails,
       limits, At
  <1>3. TooManyRequests(r) => req'[r].pc = "relUser"
    BY DEF TooManyRequests, RequestsTyped, RequestState
  <1>4. HoldsGlobal(r)' <=> HoldsGlobal(r)
    BY <1>1, <1>2, <1>3, MovesOne DEF HoldsGlobal, GlobalPCs, Flow, ReturnsTo,
       At, AfterStream, RequestsTyped, WithoutAI
  <1>5. \A r2 \in Requests \ {r} : HoldsGlobal(r2)' <=> HoldsGlobal(r2)
    BY <1>1, MovesOne DEF HoldsGlobal
  <1> QED
    BY <1>2, <1>4, <1>5 DEF GlobalHolders

LEMMA InitGlobalSlots == Init => GlobalSlotsBalanced
  <1> SUFFICES ASSUME Init PROVE GlobalSlotsBalanced
    OBVIOUS
  <1>1. GlobalHolders = {}
    BY DEF Init, GlobalHolders, HoldsGlobal, GlobalPCs
  <1> QED
    BY <1>1, FS_EmptySet DEF Init, GlobalSlotsBalanced

\* What a step does to the global limiter: a holder more, one less, or neither.
Enters(r) ==
  /\ r \notin GlobalHolders /\ GlobalHolders' = GlobalHolders \cup {r}
  /\ sem < AILimit /\ sem' = sem + 1
Leaves(r) ==
  /\ r \in GlobalHolders /\ GlobalHolders' = GlobalHolders \ {r}
  /\ sem' = IF sem > 0 THEN sem - 1 ELSE sem

LEMMA GlobalHolderSteps ==
  ASSUME TypeInv, [Next]_vars
  PROVE  \/ UNCHANGED <<sem, GlobalHolders>>
         \/ \E r \in Requests : Enters(r) \/ Leaves(r)
  <1> DEFINE Goal == \/ UNCHANGED <<sem, GlobalHolders>>
                     \/ \E r \in Requests : Enters(r) \/ Leaves(r)
  <1> USE TypeInvParts
  <1>1. CASE UNCHANGED vars
    BY <1>1 DEF vars, repo, limits, GlobalHolders, HoldsGlobal
  <1>2. CASE ActorStep
    BY <1>2, ActorStepFrame DEF GlobalHolders, HoldsGlobal
  <1>3. ASSUME NEW r \in Requests, FindMessage(r) \/ BeginChat(r) PROVE Goal
    <2>1. \A r2 \in Requests : HoldsGlobal(r2)' <=> HoldsGlobal(r2)
      BY <1>3, BeginMoves DEF HoldsGlobal, GlobalPCs
    <2> QED
      BY <1>3, <2>1, BeginMoves DEF GlobalHolders
  <1>4. ASSUME NEW r \in Requests, ProgramStep(r) PROVE Goal
    <2>0. Moves(r) /\ UNCHANGED aiAvailable
      BY <1>4, ProgramStepMoves, ProgramStepFrame
    <2>1. CASE TryAcquire(r)
      <3>1. ~HoldsGlobal(r)
        BY <2>1 DEF TryAcquire, At, HoldsGlobal, GlobalPCs
      <3>2. HoldsGlobal(r)'
        BY <2>0, <2>1, MovesOne DEF TryAcquire, Goto, At, HoldsGlobal,
           GlobalPCs, RequestsTyped, WithoutAI, RequestState
      <3>3. \A r2 \in Requests \ {r} : HoldsGlobal(r2)' <=> HoldsGlobal(r2)
        BY <2>0, MovesOne DEF HoldsGlobal
      <3>4. r \notin GlobalHolders /\ GlobalHolders' = GlobalHolders \cup {r}
        BY <3>1, <3>2, <3>3 DEF GlobalHolders
      <3> QED
        BY <2>1, <3>4 DEF TryAcquire, Enters
    <2>2. CASE Release(r)
      <3>1. aiAvailable /\ HoldsGlobal(r)
        BY <2>2 DEF Release, At, HoldsGlobal, GlobalPCs, RequestsTyped,
           WithoutAI
      <3>2. ~HoldsGlobal(r)'
        BY <2>2 DEF Release, Goto, At, HoldsGlobal, GlobalPCs,
           RequestsTyped, RequestState
      <3>3. \A r2 \in Requests \ {r} : HoldsGlobal(r2)' <=> HoldsGlobal(r2)
        BY <2>0, MovesOne DEF HoldsGlobal
      <3>4. r \in GlobalHolders /\ GlobalHolders' = GlobalHolders \ {r}
        BY <3>1, <3>2, <3>3 DEF GlobalHolders
      <3> QED
        BY <2>2, <3>4 DEF Release, Leaves
    <2>3. CASE ~TryAcquire(r) /\ ~Release(r)
      BY <1>4, <2>3, ProgramStepHolders
    <2> QED
      BY <2>1, <2>2, <2>3
  <1> QED
    BY <1>1, <1>2, <1>3, <1>4, Steps

LEMMA NextGlobalSlots ==
  ASSUME TypeInv, GlobalSlotsBalanced, [Next]_vars
  PROVE  GlobalSlotsBalanced'
  <1>1. CASE UNCHANGED <<sem, GlobalHolders>>
    BY <1>1 DEF GlobalSlotsBalanced
  <1>2. ASSUME NEW r \in Requests, Enters(r) PROVE GlobalSlotsBalanced'
    BY <1>2, HoldersFinite, FS_AddElement DEF GlobalSlotsBalanced, Enters
  <1>3. ASSUME NEW r \in Requests, Leaves(r) PROVE GlobalSlotsBalanced'
    <2>1. sem # 0 /\ sem \in Nat
      BY <1>3, HoldersFinite, FS_EmptySet, LimitTypes, TypeInvParts
         DEF GlobalSlotsBalanced, StoreTyped, Leaves
    <2>2. sem' = sem - 1
      BY <1>3, <2>1 DEF Leaves
    <2> QED
      BY <1>3, <2>2, HoldersFinite, FS_RemoveElement
         DEF GlobalSlotsBalanced, Leaves
  <1> QED
    BY <1>1, <1>2, <1>3, GlobalHolderSteps

\* The tokens of the global limiter are those of the requests between
\* TryAcquire and Release: whatever the retries, the fallback and the early
\* returns, no slot is lost and none is given back twice.
THEOREM GlobalSlots == Spec => []GlobalSlotsBalanced
  BY TypeInvariant, InitGlobalSlots, NextGlobalSlots, PTL DEF Spec

-----------------------------------------------------------------------------
(* The global limiter as a pool of slots. *)

LEMMA InitPool == Init => Pool!Init
  BY LimitTypes
     DEF Init, Pool!Init, GlobalHolders, HoldsGlobal, GlobalPCs

LEMMA NextPool ==
  ASSUME TypeInv, GlobalSlotsBalanced, [Next]_vars
  PROVE  [Pool!Next]_<<GlobalHolders, AILimit - sem>>
  <1> sem \in Int /\ AILimit \in Int
    BY LimitTypes, TypeInvParts DEF StoreTyped
  <1>1. ASSUME NEW r \in Requests, Enters(r) PROVE Pool!Acquire(r)
    BY <1>1 DEF Enters, Pool!Acquire
  <1>2. ASSUME NEW r \in Requests, Leaves(r) PROVE Pool!Release(r)
    <2>1. sem # 0
      BY <1>2, HoldersFinite, FS_EmptySet DEF GlobalSlotsBalanced, Leaves
    <2>2. sem > 0
      BY <2>1, TypeInvParts, LimitTypes DEF StoreTyped
    <2> QED
      BY <1>2, <2>2 DEF Leaves, Pool!Release
  <1> QED
    BY <1>1, <1>2, GlobalHolderSteps DEF Pool!Next

\* The global limiter, with its retries, fallbacks and deferred releases,
\* implements the pool of slots: never more than AILimit generations at once,
\* for any number of requests, sessions and users.
THEOREM GlobalLimiterIsPool == Spec => ImplementsSlotPool
  <1>1. Spec => [](TypeInv /\ GlobalSlotsBalanced)
    BY TypeInvariant, GlobalSlots, PTL
  <1>2. TypeInv /\ GlobalSlotsBalanced /\ [Next]_vars
          => [Pool!Next]_<<GlobalHolders, AILimit - sem>>
    BY NextPool
  <1> QED
    BY <1>1, <1>2, InitPool, PTL DEF Spec, ImplementsSlotPool, Pool!Spec

-----------------------------------------------------------------------------
(* A request only moves towards its end. *)

LEMMA PlaceAdvances ==
  ASSUME RequestsTyped, NEW r \in Requests, NEW l \in RequestPC, Flow(r, l),
         l # "relay" \/ ~At(r, "relay")
  PROVE  /\ Place[l] \in Nat /\ Place[req[r].pc] \in Nat
         /\ Place[l] < Place[req[r].pc]
  BY DEF Flow, ReturnsTo, AfterStream, At, Place, RequestPC

LEMMA ToRelayType ==
  ASSUME NEW q \in RequestState
  PROVE  /\ q.attempt \in 0..2 /\ q.text \in BOOLEAN
         /\ q.emitted \in BOOLEAN /\ q.closed \in BOOLEAN
         /\ 10 * (MaxAttempts - q.attempt) + Unset(q.text) + Unset(q.emitted)
              + Unset(q.closed) \in 0..23
  BY DEF RequestState, MaxAttempts, Unset

\* A step that leaves a request at the relay sets a mark or counts an attempt.
LEMMA RelayAdvances ==
  ASSUME TypeInv, NEW r \in Requests, ProgramStep(r),
         At(r, "relay"), At(r, "relay")', req'[r] # req[r]
  PROVE  ToRelay(r)' < ToRelay(r)
  <1> USE TypeInvParts
  <1> DEFINE q == req[r]
  <1>0. /\ req \in [Requests -> RequestState] /\ q \in RequestState
        /\ req'[r] \in RequestState /\ aiAvailable
    BY ProgramStepMoves, MovesOne DEF RequestsTyped, WithoutAI, At
  <1>1. \A ok \in BOOLEAN : Return(r, ok).pc = "relGlobal"
    BY <1>0, ReturnType DEF TypeInv
  <1>2. ASSUME NEW sent \in BOOLEAN, NEW p \in RequestState, p.pc = "relay",
               p.user = q.user, p.sess = q.sess, p.attempt = q.attempt,
               q.text => p.text, q.closed => p.closed, p.emitted = q.emitted,
               req'[r] = AfterWrite(r, sent, p),
               p = q \/ (p.text /\ ~q.text) \/ (p.closed /\ ~q.closed)
        PROVE  ToRelay(r)' < ToRelay(r)
    <2>1. sent
      <3>1. AfterWrite(r, sent, p).pc =
              IF sent THEN req[r].pc ELSE Return(r, FALSE).pc
        <4>1. TypeOK /\ p.pc = req[r].pc
          BY <1>2 DEF TypeInv, At
        <4> QED
          BY <1>2, <4>1, AfterWriteType
      <3> QED
        BY <1>1, <1>2, <3>1 DEF At
    <2>2. req'[r] = [p EXCEPT !.emitted = TRUE]
      BY <1>2, <2>1 DEF AfterWrite
    <2>3. /\ req'[r].attempt = q.attempt /\ req'[r].text = p.text
          /\ req'[r].closed = p.closed /\ req'[r].emitted
      BY <1>2, <2>2 DEF RequestState
    <2>4. p = q => ~q.emitted
      BY <2>2 DEF RequestState
    <2> QED
      BY <1>0, <1>2, <2>3, <2>4, ToRelayType DEF ToRelay, Unset, MaxAttempts
  <1>3. \/ RelayDelta(r) \/ RelayTool(r) \/ RelayDone(r) \/ RelayError(r)
        \/ AttemptCompletes(r) \/ AttemptFails(r) \/ AttemptCancelled(r)
    BY DEF ProgramStep, Local, Relay, FindMessageFails, ReplayExisting,
       NoExisting, RegisterActiveStream, UseMock, TryAcquireStream, UserBusy,
       TryAcquire, TooManyRequests, EmitStatus, MockText, MockDone, Release,
       ReleaseStream, SaveUnfinished, UnregisterActiveStream, At
  <1>4. CASE RelayDelta(r)
    <2>1. PICK sent \in BOOLEAN :
            req' = [req EXCEPT ![r] =
                      AfterWrite(r, sent, [@ EXCEPT !.text = TRUE])]
      BY <1>4 DEF RelayDelta
    <2> DEFINE p == [q EXCEPT !.text = TRUE]
    <2>2. req'[r] = AfterWrite(r, sent, p)
      BY <1>0, <2>1
    <2>3. /\ p \in RequestState /\ p.pc = "relay" /\ p.user = q.user
          /\ p.sess = q.sess /\ p.attempt = q.attempt /\ p.text
          /\ p.closed = q.closed /\ p.emitted = q.emitted
          /\ q.text => p = q
      BY <1>0 DEF RequestState, At
    <2> HIDE DEF p, q
    <2> QED
      BY <1>2, <2>2, <2>3
  <1>5. CASE RelayTool(r)
    <2>1. PICK sent \in BOOLEAN : req'[r] = AfterWrite(r, sent, q)
      BY <1>0, <1>5 DEF RelayTool
    <2>2. q.pc = "relay"
      BY DEF At
    <2> HIDE DEF q
    <2> QED
      BY <1>0, <1>2, <2>1, <2>2
  <1>6. CASE RelayDone(r)
    <2>1. PICK sent \in BOOLEAN, stored \in BOOLEAN :
            req' = [req EXCEPT ![r] =
                      AfterWrite(r, sent, [@ EXCEPT !.saved = stored,
                                                    !.closed = TRUE])]
      BY <1>6 DEF RelayDone, AddMessageResults
    <2> DEFINE p == [q EXCEPT !.saved = stored, !.closed = TRUE]
    <2>2. req'[r] = AfterWrite(r, sent, p)
      BY <1>0, <2>1
    <2>3. /\ p \in RequestState /\ p.pc = "relay" /\ p.user = q.user
          /\ p.sess = q.sess /\ p.attempt = q.attempt /\ p.text = q.text
          /\ p.closed /\ p.emitted = q.emitted /\ ~q.closed
      BY <1>0, <1>6 DEF RelayDone, RequestState, At
    <2> HIDE DEF p, q
    <2> QED
      BY <1>2, <2>2, <2>3
  <1>7. CASE RelayError(r)
    <2>1. req'[r] = [q EXCEPT !.closed = TRUE] /\ ~q.closed
      BY <1>0, <1>7 DEF RelayError
    <2>2. /\ req'[r].attempt = q.attempt /\ req'[r].text = q.text
          /\ req'[r].closed /\ req'[r].emitted = q.emitted
      BY <1>0, <2>1 DEF RequestState
    <2> QED
      BY <1>0, <2>1, <2>2, ToRelayType DEF ToRelay, Unset, MaxAttempts
  <1>8. CASE AttemptCompletes(r) \/ AttemptCancelled(r)
    <2>1. req'[r].pc = "relGlobal"
      BY <1>0, <1>1, <1>8 DEF AttemptCompletes, AttemptCancelled
    <2> QED
      BY <2>1 DEF At
  <1>9. CASE AttemptFails(r)
    <2>1. CASE r \in ctxDone \/ req[r].emitted
      <3>1. req'[r].pc = "relGlobal"
        BY <1>0, <1>1, <1>9, <2>1 DEF AttemptFails
      <3> QED
        BY <3>1 DEF At
    <2>2. CASE /\ ~(r \in ctxDone \/ req[r].emitted)
               /\ req[r].attempt < MaxAttempts
      <3>1. req'[r] = [q EXCEPT !.attempt = @ + 1, !.closed = FALSE]
        BY <1>0, <1>9, <2>2 DEF AttemptFails
      <3>2. /\ req'[r].attempt = q.attempt + 1 /\ req'[r].text = q.text
            /\ req'[r].emitted = q.emitted
        BY <1>0, <3>1 DEF RequestState
      <3> QED
        BY <1>0, <3>2, ToRelayType DEF ToRelay, Unset, MaxAttempts
    <2>3. CASE /\ ~(r \in ctxDone \/ req[r].emitted)
               /\ ~(req[r].attempt < MaxAttempts)
      <3>1. req'[r].pc = "mock"
        BY <1>0, <1>9, <2>3 DEF AttemptFails, RequestState
      <3> QED
        BY <3>1 DEF At
    <2> QED
      BY <2>1, <2>2, <2>3
  <1> QED
    BY <1>3, <1>4, <1>5, <1>6, <1>7, <1>8, <1>9

\* A step to another place advances by more than the relay can hold.
LEMMA MoveAdvances ==
  ASSUME TypeInv, NEW r \in Requests, Place[req'[r].pc] < Place[req[r].pc],
         req'[r] \in RequestState,
         Place[req'[r].pc] \in Nat, Place[req[r].pc] \in Nat
  PROVE  Distance(r)' < Distance(r)
  <1> DEFINE a == Place[req[r].pc]
             b == Place[req'[r].pc]
             c == IF At(r, "relay") THEN ToRelay(r) ELSE 0
             d == IF At(r, "relay")' THEN ToRelay(r)' ELSE 0
  <1>1. c \in 0..23 /\ d \in 0..23
    <2>1. req[r] \in RequestState
      BY TypeInvParts DEF RequestsTyped
    <2>2. ToRelay(r) \in 0..23
      BY <2>1, ToRelayType DEF ToRelay
    <2>3. ToRelay(r)' \in 0..23
      BY ToRelayType DEF ToRelay
    <2> QED
      BY <2>2, <2>3
  <1>2. Distance(r) = 100 * a + c /\ Distance(r)' = 100 * b + d
    BY DEF Distance, At
  <1>3. a \in Nat /\ b \in Nat /\ b < a
    OBVIOUS
  <1> HIDE DEF a, b, c, d
  <1> QED
    BY <1>1, <1>2, <1>3

LEMMA ChangeAdvances ==
  ASSUME TypeInv, [Next]_vars, NEW r \in Requests, req'[r] # req[r]
  PROVE  Distance(r)' < Distance(r)
  <1> USE TypeInvParts
  <1>1. ~UNCHANGED vars /\ ~ActorStep
    BY ActorStepFrame DEF vars
  <1>2. ASSUME NEW r2 \in Requests, FindMessage(r2) \/ BeginChat(r2)
        PROVE  Distance(r)' < Distance(r)
    <2>1. r2 = r
      BY <1>2, BeginMoves
    <2>2. req'[r] \in RequestState
      BY NextRequestsTyped DEF RequestsTyped
    <2>3. req[r].pc = "idle" /\ req'[r].pc \in {"check", "user"}
      BY <1>2, <2>1, BeginMoves
    <2>4. /\ Place[req[r].pc] \in Nat /\ Place[req'[r].pc] \in Nat
          /\ Place[req'[r].pc] < Place[req[r].pc]
      BY <2>3 DEF Place
    <2> QED
      BY <2>2, <2>4, MoveAdvances
  <1>3. ASSUME NEW r2 \in Requests, ProgramStep(r2)
        PROVE  Distance(r)' < Distance(r)
    <2>1. Moves(r2)
      BY <1>3, ProgramStepMoves
    <2>2. r2 = r
      BY <2>1, MovesOne
    <2>3. req'[r] \in RequestState /\ Flow(r, req'[r].pc)
      BY <2>1, <2>2, MovesOne
    <2>4. CASE At(r, "relay") /\ At(r, "relay")'
      <3>1. /\ ToRelay(r)' < ToRelay(r)
            /\ ToRelay(r) \in 0..23 /\ ToRelay(r)' \in 0..23
        BY <1>3, <2>2, <2>3, <2>4, RelayAdvances, ToRelayType
           DEF ToRelay, RequestsTyped
      <3>2. /\ Distance(r) = 100 * Place["relay"] + ToRelay(r)
            /\ Distance(r)' = 100 * Place["relay"] + ToRelay(r)'
        BY <2>4 DEF Distance, At
      <3>3. Place["relay"] = 7
        BY DEF Place
      <3> QED
        BY <3>1, <3>2, <3>3
    <2>5. CASE ~(At(r, "relay") /\ At(r, "relay")')
      <3>1. req'[r].pc \in RequestPC
        BY <2>3 DEF RequestState
      <3>2. /\ Place[req[r].pc] \in Nat /\ Place[req'[r].pc] \in Nat
            /\ Place[req'[r].pc] < Place[req[r].pc]
        BY <2>3, <2>5, <3>1, PlaceAdvances DEF At
      <3> QED
        BY <2>3, <3>2, MoveAdvances
    <2> QED
      BY <2>4, <2>5
  <1> QED
    BY <1>1, <1>2, <1>3, Steps

\* Every change of a request brings it closer to its end, so that it ends after
\* a bounded number of them: the retries of streamAIWithOptions are counted, the
\* mock reply is the last resort, and nothing leads back.
THEOREM RequestsAdvance == Spec => EveryChangeAdvances
  <1>1. TypeInv /\ [Next]_vars =>
          [\A r \in Requests :
             req'[r] # req[r] => Distance(r)' < Distance(r)]_vars
    BY ChangeAdvances
  <1> QED
    BY TypeInvariant, <1>1, PTL DEF Spec, EveryChangeAdvances
=============================================================================
