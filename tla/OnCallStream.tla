---------------------------- MODULE OnCallStream ----------------------------
(***************************************************************************)
(* The OnCall service: AI replies streamed over server-sent events.        *)
(*                                                                         *)
(* Every HTTP request is a goroutine.  A session request runs              *)
(* StreamOnCallMessage: it looks the user's message up, returns at once if *)
(* that message already has a reply, and otherwise registers itself as the *)
(* session's active stream, takes a slot of the per-user limiter and one   *)
(* of the global limiter, relays what the AI service produces, and saves   *)
(* the reply.  A chat request (POST /api/chat/stream, GET /oncall/stream)  *)
(* has no session: it only passes the two limiters.  Callers cancel        *)
(* generations and delete sessions meanwhile.                              *)
(*                                                                         *)
(* One step of a request is what it does between two points at which       *)
(* another goroutine can interfere: a repository call, a critical section  *)
(* of a mutex, a channel operation or an event written to the client.      *)
(***************************************************************************)
EXTENDS Integers, Sequences, FiniteSets

CONSTANTS
  Users,               \* users, the user "anonymous" among them
  Sessions,            \* session ids ever issued
  Owner,               \* Owner[s]: the user session s belongs to
  SessionRequests,     \* GET /oncall/sessions/{id}/stream requests
  ChatRequests,        \* POST /api/chat/stream, GET /oncall/stream requests
  Callers,             \* cancel and delete requests
  ConfiguredAILimit,   \* AIConcurrentLimit of the configuration
  ConfiguredUserLimit, \* AIUserConcurrentLimit of the configuration
  MaxUserMessages,     \* bound: user messages in one session
  RepoFaults,          \* whether a repository call may return an error
  None                 \* no stream, no session, no user

Requests == SessionRequests \cup ChatRequests

ASSUME OnCallAssumption ==
  /\ Owner \in [Sessions -> Users]
  /\ SessionRequests \cap ChatRequests = {}
  /\ IsFiniteSet(Requests)
  /\ ConfiguredAILimit \in Int
  /\ ConfiguredUserLimit \in Int
  /\ MaxUserMessages \in Nat
  /\ RepoFaults \in BOOLEAN
  /\ None \notin Requests \cup Sessions \cup Users

\* NewAIConcurrencyLimiter and NewUserAIStreamLimiter replace a limit that is
\* not positive by a default.
AILimit   == IF ConfiguredAILimit <= 0 THEN 3 ELSE ConfiguredAILimit
UserLimit == IF ConfiguredUserLimit <= 0 THEN 1 ELSE ConfiguredUserLimit

MaxAttempts == 2   \* aiStreamMaxAttempts

VARIABLES
  aiAvailable,    \* an AI service is configured; fixed when the server starts
  session,        \* state of each session
  log,            \* log[s]: the messages of session s, oldest first
  activeStreams,  \* activeStreams[s]: the request registered for s, or None
  slot,           \* slot[u][k]: the id stored under key k of user u, or None
  sem,            \* slots taken of the global limiter
  ctxDone,        \* requests whose context is cancelled
  req,            \* req[r]: the local state of request r
  caller          \* caller[c]: the local state of cancel / delete request c

repo    == <<aiAvailable, session, log>>
streams == <<activeStreams, ctxDone>>
limits  == <<slot, sem>>
vars    == <<repo, streams, limits, req, caller>>

-----------------------------------------------------------------------------
(* Values. *)

\* Keys of the user limiter: one per session, and "default" for the requests
\* that pass neither a key nor a stream id.
DefaultKey == "default"
Keys       == Sessions \cup {DefaultKey}
\* Ids the limiter stores: a request's own random id, or "" for a chat.
NoId == ""
Ids  == SessionRequests \cup {NoId}

\* by: the request that saved an assistant message (kept for the properties
\* only); blank: its text is empty.
Message == [role : {"user", "assistant"}, blank : BOOLEAN,
            by : SessionRequests \cup {None}]

RequestPC == {"idle", "check", "register", "user", "global", "status",
              "relay", "mock", "mockDone", "relGlobal", "relUser", "late",
              "unregister", "ended"}
CallerPC  == {"idle", "take", "call", "delete", "ended"}

\* attempt: the number of calls of streamAIOnce so far; text: the builder
\* holds text; saved: assistantMessageID is set; emitted:
\* emittedBusinessEvent; closed: the smoother sent its last event; ok: no
\* error is to be returned.
RequestState ==
  [pc : RequestPC, user : Users \cup {None}, sess : Sessions \cup {None},
   msg : Nat, attempt : 0..MaxAttempts, text : BOOLEAN, saved : BOOLEAN,
   emitted : BOOLEAN, closed : BOOLEAN, ok : BOOLEAN]

CallerState ==
  [pc : CallerPC, op : {"cancel", "delete"}, sess : Sessions \cup {None},
   target : SessionRequests \cup {None}]

TypeOK ==
  /\ aiAvailable \in BOOLEAN
  /\ session \in [Sessions -> {"absent", "live", "deleted"}]
  /\ log \in [Sessions -> Seq(Message)]
  /\ activeStreams \in [Sessions -> SessionRequests \cup {None}]
  /\ slot \in [Users -> [Keys -> Ids \cup {None}]]
  /\ sem \in 0..AILimit
  /\ ctxDone \in SUBSET Requests
  /\ req \in [Requests -> RequestState]
  /\ caller \in [Callers -> CallerState]

Init ==
  /\ aiAvailable \in BOOLEAN
  /\ session = [s \in Sessions |-> "absent"]
  /\ log = [s \in Sessions |-> <<>>]
  /\ activeStreams = [s \in Sessions |-> None]
  /\ slot = [u \in Users |-> [k \in Keys |-> None]]
  /\ sem = 0
  /\ ctxDone = {}
  /\ req = [r \in Requests |->
              [pc |-> "idle", user |-> None, sess |-> None, msg |-> 0,
               attempt |-> 0, text |-> FALSE, saved |-> FALSE,
               emitted |-> FALSE, closed |-> FALSE, ok |-> TRUE]]
  /\ caller = [c \in Callers |->
                [pc |-> "idle", op |-> "cancel", sess |-> None,
                 target |-> None]]

-----------------------------------------------------------------------------
(* Helpers. *)

At(r, l)   == req[r].pc = l
Goto(r, l) == req' = [req EXCEPT ![r].pc = l]

UserMessages(s) == {m \in DOMAIN log[s] : log[s][m].role = "user"}

\* findExistingAssistantReply: between message m and the next user message of
\* the session there is an assistant message with some text.
HasReply(s, m) ==
  \E j \in DOMAIN log[s] :
    /\ j > m
    /\ log[s][j].role = "assistant" /\ ~log[s][j].blank
    /\ \A k \in (m + 1)..j : log[s][k].role # "user"

\* What repository call AddMessage(s) may answer: TRUE if the message is
\* stored, FALSE if an error is returned.
AddMessageResults(s) ==
  {stored \in BOOLEAN : IF stored THEN session[s] = "live"
                                  ELSE session[s] # "live" \/ RepoFaults}

KeyOf(r) == IF r \in ChatRequests THEN DefaultKey ELSE req[r].sess
IdOf(r)  == IF r \in ChatRequests THEN NoId ELSE r
Held(u)  == {k \in Keys : slot[u][k] # None}

\* Where a request goes when streamAIWithOptions has returned and its deferred
\* releases have run: a chat handler ends, StreamOnCallMessage looks at the
\* error.
AfterStream(r, ok) ==
  IF r \in ChatRequests THEN "ended" ELSE IF ok THEN "late" ELSE "unregister"

\* Request r when streamAIWithOptions executes a return statement: to the
\* deferred releases if it holds slots; its local variables are gone.
Return(r, ok) ==
  [req[r] EXCEPT !.pc = IF aiAvailable THEN "relGlobal" ELSE AfterStream(r, ok),
                 !.ok = ok, !.attempt = 0, !.emitted = FALSE, !.closed = FALSE]
-----------------------------------------------------------------------------
(* Sessions and messages. *)

\* CreateSession: the repository issues a fresh id.
CreateSession(s) ==
  /\ session[s] = "absent"
  /\ session' = [session EXCEPT ![s] = "live"]
  /\ UNCHANGED <<streams, limits, aiAvailable, log, req, caller>>

\* AddUserMessage: refused when the session is gone.
AddUserMessage(s) ==
  /\ session[s] = "live"
  /\ Cardinality(UserMessages(s)) < MaxUserMessages
  /\ log' = [log EXCEPT ![s] = Append(@, [role |-> "user", blank |-> FALSE,
                                          by |-> None])]
  /\ UNCHANGED <<streams, limits, aiAvailable, session, req, caller>>

-----------------------------------------------------------------------------
(* StreamOnCallMessage, up to the registration. *)

\* FindMessage answers a message of a live session of the user; the client
\* asks for replies to user messages.
FindMessage(r) ==
  /\ r \in SessionRequests
  /\ At(r, "idle")
  /\ \E s \in Sessions : \E m \in UserMessages(s) :
       /\ session[s] = "live"
       /\ req' = [req EXCEPT ![r].pc = "check", ![r].user = Owner[s],
                             ![r].sess = s, ![r].msg = m]
  /\ UNCHANGED <<repo, streams, limits, caller>>

\* FindMessage answers an error: unknown message, deleted session, database.
FindMessageFails(r) ==
  /\ r \in SessionRequests
  /\ At(r, "idle")
  /\ Goto(r, "ended")
  /\ UNCHANGED <<repo, streams, limits, caller>>

\* An existing reply is announced by one "done" event and the request ends,
\* whether or not the event can be written.
ReplayExisting(r) ==
  /\ At(r, "check")
  /\ session[req[r].sess] = "live"
  /\ HasReply(req[r].sess, req[r].msg)
  /\ Goto(r, "ended")
  /\ UNCHANGED <<repo, streams, limits, caller>>

\* No reply yet.  A ListMessages error counts as no reply.
NoExisting(r) ==
  /\ At(r, "check")
  /\ \/ session[req[r].sess] # "live"
     \/ ~HasReply(req[r].sess, req[r].msg)
     \/ RepoFaults
  /\ Goto(r, "register")
  /\ UNCHANGED <<repo, streams, limits, caller>>

\* Faulty: the stream registered before is overwritten and not cancelled.
RegisterWithoutCancel(r) ==
  /\ At(r, "register")
  /\ activeStreams' = [activeStreams EXCEPT ![req[r].sess] = r]
  /\ Goto(r, "user")
  /\ UNCHANGED <<repo, ctxDone, limits, caller>>

\* registerActiveStream, under streamsMu: cancel the session's registered
\* stream, if any, and take its place.
RegisterActiveStream(r) ==
  /\ At(r, "register")
  /\ ctxDone' = ctxDone \cup ({activeStreams[req[r].sess]} \ {None})
  /\ activeStreams' = [activeStreams EXCEPT ![req[r].sess] = r]
  /\ Goto(r, "user")
  /\ UNCHANGED <<repo, limits, caller>>

\* A chat request has no session to look up.
BeginChat(r) ==
  /\ r \in ChatRequests
  /\ At(r, "idle")
  /\ \E u \in Users :
       req' = [req EXCEPT ![r].pc = "user", ![r].user = u]
  /\ UNCHANGED <<repo, streams, limits, caller>>

-----------------------------------------------------------------------------
(* streamAIWithOptions: the limiters. *)

\* Without an AI service the mock reply is sent, and no slot is taken.
UseMock(r) ==
  /\ At(r, "user")
  /\ ~aiAvailable
  /\ Goto(r, "mock")
  /\ UNCHANGED <<repo, streams, limits, caller>>

\* UserAIStreamLimiter.TryAcquireStream, under mu.  A key already present only
\* has its id overwritten; a new key needs room.
TryAcquireStream(r) ==
  /\ At(r, "user")
  /\ aiAvailable
  /\ LET u == req[r].user IN
       /\ \/ KeyOf(r) \in Held(u)
          \/ Cardinality(Held(u)) < UserLimit
       /\ slot' = [slot EXCEPT ![u][KeyOf(r)] = IdOf(r)]
  /\ Goto(r, "global")
  /\ UNCHANGED <<repo, streams, sem, caller>>

\* AI_USER_BUSY: the result is that of writing the error event.
UserBusy(r) ==
  /\ At(r, "user")
  /\ aiAvailable
  /\ KeyOf(r) \notin Held(req[r].user)
  /\ Cardinality(Held(req[r].user)) >= UserLimit
  /\ \E sent \in BOOLEAN : Goto(r, AfterStream(r, sent))
  /\ UNCHANGED <<repo, streams, limits, caller>>

\* Faulty: one token more than the limit.
TryAcquireOneMore(r) ==
  /\ At(r, "global")
  /\ sem <= AILimit
  /\ sem' = sem + 1
  /\ Goto(r, "status")
  /\ UNCHANGED <<repo, streams, slot, caller>>

\* AIConcurrencyLimiter.TryAcquire.  With room and a cancelled context both
\* cases of the select are ready and either may be taken.
TryAcquire(r) ==
  /\ At(r, "global")
  /\ sem < AILimit
  /\ sem' = sem + 1
  /\ Goto(r, "status")
  /\ UNCHANGED <<repo, streams, slot, caller>>

\* Faulty: the release of the user limiter is deferred too late.
TooManyRequestsKeepsKey(r) ==
  /\ At(r, "global")
  /\ sem = AILimit \/ r \in ctxDone
  /\ \E sent \in BOOLEAN : Goto(r, AfterStream(r, sent))
  /\ UNCHANGED <<repo, streams, limits, caller>>

\* AI_TOO_MANY_REQUESTS, then the deferred ReleaseStream.
TooManyRequests(r) ==
  /\ At(r, "global")
  /\ sem = AILimit \/ r \in ctxDone
  /\ \E sent \in BOOLEAN :
       req' = [req EXCEPT ![r].pc = "relUser", ![r].ok = sent]
  /\ UNCHANGED <<repo, streams, limits, caller>>

\* Faulty: the release of the global limiter is deferred after the event.
EmitStatusBeforeDefer(r) ==
  /\ At(r, "status")
  /\ \E sent \in BOOLEAN :
       req' = [req EXCEPT ![r] =
                 IF sent THEN [@ EXCEPT !.pc = "relay", !.attempt = 1]
                         ELSE [@ EXCEPT !.pc = "relUser", !.ok = FALSE]]
  /\ UNCHANGED <<repo, streams, limits, caller>>

\* The "status" event; when it cannot be written the stream ends.
EmitStatus(r) ==
  /\ At(r, "status")
  /\ \E sent \in BOOLEAN :
       req' = [req EXCEPT ![r] = IF sent
                                 THEN [@ EXCEPT !.pc = "relay", !.attempt = 1]
                                 ELSE Return(r, FALSE)]
  /\ UNCHANGED <<repo, streams, limits, caller>>
-----------------------------------------------------------------------------
(* streamAIOnce as its caller sees it: the events it passes to emit, in any  *)
(* order the relay can produce (module StreamRelay has the goroutines and    *)
(* channels), and the ways it can return.  A chat request has no builder and *)
(* saves nothing: its events matter only in that they count as emitted, or,  *)
(* being of kind "message" (POST /api/chat/stream), never do.                *)

\* Request r, in state q, after the write of a business event: if it failed,
\* the attempt fails, and there is no other.
AfterWrite(r, sent, q) ==
  IF sent THEN [q EXCEPT !.emitted = TRUE]
          ELSE [Return(r, FALSE) EXCEPT !.text = q.text, !.saved = q.saved]

\* A delta is added to the builder and written to the client.
RelayDelta(r) ==
  /\ r \in SessionRequests
  /\ At(r, "relay")
  /\ ~req[r].closed
  /\ \E sent \in BOOLEAN :
       req' = [req EXCEPT ![r] =
                 AfterWrite(r, sent, [@ EXCEPT !.text = TRUE])]
  /\ UNCHANGED <<repo, streams, limits, caller>>

\* A tool event; it does not pass through the smoother, so it may follow the
\* smoother's last event.  For a chat request: any business event.
RelayTool(r) ==
  /\ At(r, "relay")
  /\ \E sent \in BOOLEAN :
       req' = [req EXCEPT ![r] = AfterWrite(r, sent, @)]
  /\ UNCHANGED <<repo, streams, limits, caller>>

\* The log of request r's session after AddMessage, which may have failed.
LogWithReply(r, stored) ==
  IF stored
  THEN [log EXCEPT ![req[r].sess] =
          Append(@, [role |-> "assistant", blank |-> ~req[r].text, by |-> r])]
  ELSE log

\* The "done" event: the reply is saved, then the event is written, with the
\* id of the stored message or, if that failed, the AI service's own.
RelayDone(r) ==
  /\ r \in SessionRequests
  /\ At(r, "relay")
  /\ ~req[r].closed
  /\ \E stored \in AddMessageResults(req[r].sess), sent \in BOOLEAN :
       /\ log' = LogWithReply(r, stored)
       /\ req' = [req EXCEPT ![r] =
                    AfterWrite(r, sent, [@ EXCEPT !.saved = stored,
                                                  !.closed = TRUE])]
  /\ UNCHANGED <<streams, limits, aiAvailable, session, caller>>

\* The "error" event the smoother makes of an error of the AI service.  It
\* ends the smoother's output, and the attempt goes on to end without error.
RelayError(r) ==
  /\ r \in SessionRequests
  /\ At(r, "relay")
  /\ ~req[r].closed
  /\ req' = [req EXCEPT ![r].closed = TRUE]
  /\ UNCHANGED <<repo, streams, limits, caller>>

\* streamAIOnce returns nil.
AttemptCompletes(r) ==
  /\ At(r, "relay")
  /\ req' = [req EXCEPT ![r] = Return(r, TRUE)]
  /\ UNCHANGED <<repo, streams, limits, caller>>

\* Faulty: a failed attempt is not counted.
AttemptFailsUncounted(r) ==
  /\ At(r, "relay")
  /\ req' = IF r \in ctxDone \/ req[r].emitted
            THEN [req EXCEPT ![r] = Return(r, FALSE)]
            ELSE [req EXCEPT ![r].closed = FALSE]
  /\ UNCHANGED <<repo, streams, limits, caller>>

\* streamAIOnce returns an error.  It is final if the context is cancelled or
\* a business event went out; otherwise the AI service is asked once more, and
\* after the last attempt the mock reply is sent.
AttemptFails(r) ==
  /\ At(r, "relay")
  /\ req' = IF r \in ctxDone \/ req[r].emitted
            THEN [req EXCEPT ![r] = Return(r, FALSE)]
            ELSE IF req[r].attempt < MaxAttempts
            THEN [req EXCEPT ![r].attempt = @ + 1, ![r].closed = FALSE]
            ELSE [req EXCEPT ![r].pc = "mock"]
  /\ UNCHANGED <<repo, streams, limits, caller>>

\* Faulty: the context is looked at only until the first business event.
AttemptCancelledEarly(r) ==
  /\ At(r, "relay")
  /\ r \in ctxDone /\ ~req[r].emitted
  /\ req' = [req EXCEPT ![r] = Return(r, FALSE)]
  /\ UNCHANGED <<repo, streams, limits, caller>>

\* The relay loop takes its ctx.Done case.
AttemptCancelled(r) ==
  /\ At(r, "relay")
  /\ r \in ctxDone
  /\ req' = [req EXCEPT ![r] = Return(r, FALSE)]
  /\ UNCHANGED <<repo, streams, limits, caller>>

-----------------------------------------------------------------------------
(* emitConvertedMockEvents: it looks at no context. *)

\* The events before "done"; a session's builder gets the mock text.
MockText(r) ==
  /\ At(r, "mock")
  /\ \E sent \in BOOLEAN :
       req' = [req EXCEPT ![r] =
                 IF sent /\ r \in SessionRequests
                 THEN [@ EXCEPT !.pc = "mockDone", !.text = TRUE]
                 ELSE Return(r, sent)]
  /\ UNCHANGED <<repo, streams, limits, caller>>

MockDone(r) ==
  /\ At(r, "mockDone")
  /\ \E stored \in AddMessageResults(req[r].sess), sent \in BOOLEAN :
       /\ log' = LogWithReply(r, stored)
       /\ req' = [req EXCEPT ![r] = [Return(r, sent) EXCEPT !.saved = stored]]
  /\ UNCHANGED <<streams, limits, aiAvailable, session, caller>>

-----------------------------------------------------------------------------
(* The deferred calls, and the end of StreamOnCallMessage. *)

\* AIConcurrencyLimiter.Release: takes a token out of the channel if it has one.
Release(r) ==
  /\ At(r, "relGlobal")
  /\ sem' = IF sem > 0 THEN sem - 1 ELSE sem
  /\ Goto(r, "relUser")
  /\ UNCHANGED <<repo, streams, slot, caller>>

\* Faulty: without a stream id there is nothing to release.
ReleaseStreamById(r) ==
  /\ At(r, "relUser")
  /\ LET u == req[r].user
         k == KeyOf(r)
     IN  slot' = IF IdOf(r) # NoId /\ slot[u][k] = IdOf(r)
                 THEN [slot EXCEPT ![u][k] = None]
                 ELSE slot
  /\ Goto(r, AfterStream(r, req[r].ok))
  /\ UNCHANGED <<repo, streams, sem, caller>>

\* UserAIStreamLimiter.ReleaseStream, under mu: the key is removed if it holds
\* this request's id, and by a chat request whatever it holds.
ReleaseStream(r) ==
  /\ At(r, "relUser")
  /\ LET u == req[r].user
         k == KeyOf(r)
     IN  slot' = IF IdOf(r) = NoId \/ slot[u][k] = IdOf(r)
                 THEN [slot EXCEPT ![u][k] = None]
                 ELSE slot
  /\ Goto(r, AfterStream(r, req[r].ok))
  /\ UNCHANGED <<repo, streams, sem, caller>>

\* Faulty: text is saved again after "done" saved it.
SaveWhateverArrived(r) ==
  /\ At(r, "late")
  /\ IF req[r].text
     THEN \E stored \in AddMessageResults(req[r].sess) :
            log' = LogWithReply(r, stored)
     ELSE UNCHANGED log
  /\ Goto(r, "unregister")
  /\ UNCHANGED <<streams, limits, aiAvailable, session, caller>>

\* The stream ended without error and without a saved reply: text received so
\* far is saved as the reply.
SaveUnfinished(r) ==
  /\ At(r, "late")
  /\ IF ~req[r].saved /\ req[r].text
     THEN \E stored \in AddMessageResults(req[r].sess) :
            log' = LogWithReply(r, stored)
     ELSE UNCHANGED log
  /\ Goto(r, "unregister")
  /\ UNCHANGED <<streams, limits, aiAvailable, session, caller>>

\* Faulty: whatever is registered is removed.
UnregisterAny(r) ==
  /\ At(r, "unregister")
  /\ activeStreams' = [activeStreams EXCEPT ![req[r].sess] = None]
  /\ ctxDone' = ctxDone \cup {r}
  /\ req' = [req EXCEPT ![r].pc = "ended", ![r].text = FALSE,
                        ![r].saved = FALSE, ![r].ok = TRUE]
  /\ UNCHANGED <<repo, limits, caller>>

\* unregisterActiveStream, under streamsMu: only the request's own entry is
\* removed.  Then the deferred cancel().
UnregisterActiveStream(r) ==
  /\ At(r, "unregister")
  /\ activeStreams' = IF activeStreams[req[r].sess] = r
                      THEN [activeStreams EXCEPT ![req[r].sess] = None]
                      ELSE activeStreams
  /\ ctxDone' = ctxDone \cup {r}
  /\ req' = [req EXCEPT ![r].pc = "ended", ![r].text = FALSE,
                        ![r].saved = FALSE, ![r].ok = TRUE]
  /\ UNCHANGED <<repo, limits, caller>>

\* The client closes the connection: net/http cancels the request's context.
ClientGone(r) ==
  /\ req[r].pc \notin {"idle", "ended"}
  /\ ctxDone' = ctxDone \cup {r}
  /\ UNCHANGED <<repo, limits, activeStreams, req, caller>>

-----------------------------------------------------------------------------
(* CancelSessionGeneration and DeleteSession. *)

\* CancelSessionGeneration finds the session; DeleteSession does not look.
BeginCall(c, s, op) ==
  /\ caller[c].pc = "idle"
  /\ op = "cancel" => session[s] = "live"
  /\ caller' = [caller EXCEPT ![c].pc = "take", ![c].op = op, ![c].sess = s]
  /\ UNCHANGED <<repo, streams, limits, req>>

\* cancelActiveStream, under streamsMu: the entry is removed ...
TakeActiveStream(c) ==
  /\ caller[c].pc = "take"
  /\ LET s == caller[c].sess IN
       IF activeStreams[s] # None
       THEN /\ activeStreams' = [activeStreams EXCEPT ![s] = None]
            /\ caller' = [caller EXCEPT ![c].pc = "call",
                                        ![c].target = activeStreams[s]]
       ELSE /\ caller' = [caller EXCEPT ![c].pc =
                            IF caller[c].op = "delete" THEN "delete" ELSE "ended"]
            /\ UNCHANGED activeStreams
  /\ UNCHANGED <<repo, limits, ctxDone, req>>

\* ... and after the unlock its cancel function is called.
CallCancel(c) ==
  /\ caller[c].pc = "call"
  /\ ctxDone' = ctxDone \cup {caller[c].target}
  /\ caller' = [caller EXCEPT ![c].pc =
                  IF caller[c].op = "delete" THEN "delete" ELSE "ended"]
  /\ UNCHANGED <<repo, limits, activeStreams, req>>

\* The repository deletes the session, or answers an error.
DeleteSession(c) ==
  /\ caller[c].pc = "delete"
  /\ \/ session' = [session EXCEPT ![caller[c].sess] =
                      IF @ = "live" THEN "deleted" ELSE @]
     \/ RepoFaults /\ UNCHANGED session
  /\ caller' = [caller EXCEPT ![c].pc = "ended"]
  /\ UNCHANGED <<streams, limits, aiAvailable, log, req>>

-----------------------------------------------------------------------------
\* Steps a request takes by itself, whatever the AI service does.
Local(r) ==
  \/ ReplayExisting(r) \/ NoExisting(r) \/ RegisterActiveStream(r)
  \/ UseMock(r) \/ TryAcquireStream(r) \/ UserBusy(r)
  \/ TryAcquire(r) \/ TooManyRequests(r) \/ EmitStatus(r)
  \/ AttemptCancelled(r)
  \/ MockText(r) \/ MockDone(r)
  \/ Release(r) \/ ReleaseStream(r)
  \/ SaveUnfinished(r) \/ UnregisterActiveStream(r)

\* Steps that depend on the AI service.
Relay(r) ==
  \/ RelayDelta(r) \/ RelayTool(r) \/ RelayDone(r) \/ RelayError(r)
  \/ AttemptCompletes(r) \/ AttemptFails(r)

\* Steps of a cancel or delete request.
CallerStep(c) ==
  \/ TakeActiveStream(c) \/ CallCancel(c) \/ DeleteSession(c)

\* Nothing is under way: the server waits for requests that the instance has
\* no more of.
Quiescent ==
  /\ \A r \in Requests : At(r, "ended")
  /\ \A c \in Callers : caller[c].pc = "ended"
  /\ UNCHANGED vars

Next ==
  \/ \E s \in Sessions : CreateSession(s) \/ AddUserMessage(s)
  \/ \E r \in Requests :
       \/ FindMessage(r) \/ FindMessageFails(r) \/ BeginChat(r)
       \/ Local(r) \/ Relay(r) \/ ClientGone(r)
  \/ \E c \in Callers :
       \/ \E s \in Sessions, op \in {"cancel", "delete"} : BeginCall(c, s, op)
       \/ CallerStep(c)
  \/ Quiescent

Spec == Init /\ [][Next]_vars
\* Weak fairness of what the server does on its own: a goroutine that can take
\* a step eventually is scheduled.  Nothing is assumed of the AI service, which
\* may stay silent for ever, nor of the clients.
FairSpec ==
  /\ Spec
  /\ \A r \in Requests : WF_vars(Local(r))
  /\ \A c \in Callers : WF_vars(CallerStep(c))

-----------------------------------------------------------------------------
(* Properties. *)

\* Requests between TryAcquire and Release of the global limiter, and between
\* TryAcquireStream and ReleaseStream of the user limiter.
GlobalPCs == {"status", "relay", "mock", "mockDone", "relGlobal"}
UserPCs   == GlobalPCs \cup {"global", "relUser"}
HoldsGlobal(r) == aiAvailable /\ req[r].pc \in GlobalPCs
HoldsUser(r)   == aiAvailable /\ req[r].pc \in UserPCs
GlobalHolders  == {r \in Requests : HoldsGlobal(r)}

\* Session requests between register and unregister.
Registered(r) ==
  r \in SessionRequests /\ req[r].pc \notin {"idle", "check", "register",
                                             "ended"}

\* The context is cancelled, or its cancel function is about to be called.
Cancelled(r) ==
  \/ r \in ctxDone
  \/ \E c \in Callers : caller[c].pc = "call" /\ caller[c].target = r

\* The tokens in the global limiter's channel are those of the requests that
\* are between TryAcquire and Release: no path through the retries, the mock
\* fallback and the early returns loses a slot or gives one back twice.
GlobalSlotsBalanced ==
  sem = Cardinality(GlobalHolders)

\* The global limiter implements SlotPool: a request gets in only when a slot is
\* free, and returns it once, whether it ends with its reply, an error, a failed
\* write, a cancellation or the mock reply.
Pool == INSTANCE SlotPool WITH
  Clients <- Requests, Capacity <- AILimit,
  holders <- GlobalHolders, free <- AILimit - sem
ImplementsSlotPool == Pool!Spec

\* A user never holds more keys than the limit, and every key that is held is
\* held for a request that is still streaming under it and will release it:
\* no overwriting of ids (a replaced stream, a second chat) leaves a key behind
\* that would answer AI_USER_BUSY for ever.
UserSlotsBalanced ==
  \A u \in Users :
    /\ Cardinality(Held(u)) <= UserLimit
    /\ \A k \in Held(u) : \E r \in Requests :
         /\ HoldsUser(r) /\ req[r].user = u
         /\ KeyOf(r) = k /\ slot[u][k] = IdOf(r)

\* Of the streams of one session at most one has not been cancelled: starting
\* a generation replaces the previous one, however the registrations, the
\* cancellations and the endings of the streams interleave.
OneLiveStreamPerSession ==
  \A r1, r2 \in SessionRequests :
    (/\ Registered(r1) /\ ~Cancelled(r1)
     /\ Registered(r2) /\ ~Cancelled(r2)
     /\ req[r1].sess = req[r2].sess) => r1 = r2

\* A stream is live from its registration until it is cancelled or ends.
Live(r)   == Registered(r) /\ ~Cancelled(r)
LiveOf(s) == {r \in SessionRequests : Live(r) /\ req[r].sess = s}
Waiting   ==
  {r \in SessionRequests : req[r].pc \in {"idle", "check", "register"}}

\* The registry, the contexts and the callers implement SessionStreams: in
\* whatever order streams register, end and are cancelled, a registration ends
\* the stream of its own session and of no other, a cancellation ends one stream,
\* and no stream that was replaced or cancelled is ever live again.
Streams == INSTANCE SessionStreams WITH
  Streams <- SessionRequests, Sessions <- Sessions,
  waiting <- Waiting, live <- [s \in Sessions |-> LiveOf(s)]
ImplementsSessionStreams == Streams!Spec

\* A request saves at most one reply, although it saves at "done" of the AI
\* stream, at "done" of the mock fallback and after an unfinished stream, and
\* may retry in between.
OneReplyPerRequest ==
  \A s1, s2 \in Sessions : \A i \in DOMAIN log[s1], j \in DOMAIN log[s2] :
    (log[s1][i].by = log[s2][j].by /\ log[s1][i].by # None)
       => s1 = s2 /\ i = j

\* A stream leaves the registry only because it is cancelled or because it
\* ends: an old stream that ends late never removes its successor's entry,
\* which would put the successor out of reach of a cancellation.
LeavesRegistryCancelledOrEnded ==
  [][\A s \in Sessions, r \in SessionRequests :
       (activeStreams[s] = r /\ activeStreams'[s] # r) =>
          Cancelled(r)' \/ At(r, "ended")']_vars

\* How far a request is from its end: the place where it is and, while it relays,
\* the attempts it has left and the marks it has not set.
Place ==
  [ended |-> 0, unregister |-> 1, late |-> 2, relUser |-> 3, relGlobal |-> 4,
   mockDone |-> 5, mock |-> 6, relay |-> 7, status |-> 8, global |-> 9,
   user |-> 10, register |-> 11, check |-> 12, idle |-> 13]
Unset(b)  == IF b THEN 0 ELSE 1
ToRelay(r) ==
  10 * (MaxAttempts - req[r].attempt)
    + Unset(req[r].text) + Unset(req[r].emitted) + Unset(req[r].closed)
Distance(r) ==
  100 * Place[req[r].pc] + IF At(r, "relay") THEN ToRelay(r) ELSE 0

\* Whatever changes in a request brings it closer to its end: the retries, the
\* fallback to the mock reply, the early returns and the deferred releases never
\* take it back, so that it ends after a bounded number of changes.
EveryChangeAdvances ==
  [][\A r \in Requests : req'[r] # req[r] => Distance(r)' < Distance(r)]_vars

\* A cancelled request ends, returning its slots on the way, whatever the AI
\* service does: cancelling never depends on the service answering.
CancelledEnds ==
  \A r \in Requests :
    (r \in ctxDone /\ req[r].pc # "idle") ~> At(r, "ended")

\* What the documentation promises of the user limiter (one active generation
\* per user by default).
OneGenerationPerUser ==
  \A u \in Users :
    Cardinality({r \in Requests : /\ req[r].user = u
                                  /\ At(r, "relay")
                                  /\ ~Cancelled(r)}) <= UserLimit

\* What the documentation promises of repeated streaming: a user message gets
\* no second reply.
OneReplyPerMessage ==
  \A s \in Sessions : \A i, j \in DOMAIN log[s] :
    LET a == log[s][i]
        b == log[s][j]
    IN  (/\ a.role = "assistant" /\ ~a.blank
         /\ b.role = "assistant" /\ ~b.blank
         /\ req[a.by].msg = req[b.by].msg) => i = j
=============================================================================
