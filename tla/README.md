# Formal models of opentab-server

opentab-server is the Go backend of a tab container: it authenticates users,
serves the tabs they may open, keeps business data (approvals, calendar,
announcements, teams), and streams the replies of an AI service ("OnCall") to
clients as server-sent events. This directory holds TLA+ modules translated from
its source, TLC configurations that check them on small instances, and proofs
that TLAPS checks for every instance. `PROJECT.json` maps each definition to the
lines it stands for and lists the runs, the hazards, the findings and the
theorems.

## Inventory

| Component | State | Operations | What is hard, and what makes it correct |
|---|---|---|---|
| OnCall service (`services/oncall_service.go`) | `activeStreams`, under `streamsMu`; per request a context, a text builder, the id of the saved reply | create / delete session, add message, stream the reply to a message, chat without a session, cancel | Requests are goroutines that replace and cancel one another. One live stream per session; a request saves at most one reply; an ending stream never removes its successor; a cancelled request ends |
| AI limiters (`services/ai_limiter.go`) | a channel used as a semaphore; a map user -> key -> stream id, under `mu` | acquire without waiting, release | Two slots, taken and returned around retries, a fallback and a dozen early returns; ids overwritten under a shared key. No slot leaks, none is returned twice |
| Relay pipeline (`streamAIOnce`, `stream_smoother.go`, `ai_stream_client.go`) | four channels, the smoother's pending text, the relay's flags | read the AI service's events, smooth the text, relay, heartbeat, stop | Three goroutines that stop in any order. Text reaches the client complete, in order and before "done"; the attempt ends; a retry only if the client saw nothing |
| OnCall repositories | sessions and messages (PostgreSQL or memory) | create, find, delete, add, list | Errors of single calls; sessions deleted under a running stream |
| Auth service, auth middleware, Redis cache | database sessions (`revoked_at`, `expires_at`), cached sessions and users with TTLs | login, register, look a token up (with cache fill), logout, invalidate | A cache fill that overtakes a logout or an invalidation; cache errors that are ignored. A revoked token stays revoked |
| User repositories, seed | users, roles, memberships, sessions | create, find, revoke | The seed runs at each start |
| Approvals, calendar, announcements (`services/business_service.go`) | records with a status and a team | create, approve, reject, cancel, edit, delete | Check then update by two actors; authorised on one team, written to another |
| Teams, memberships, roles (`services/business_service.go`) | teams, memberships, global roles; the cached users | create, update, disable a team; add (move), update, remove a member; set a global role | Removed memberships revived, two moves of one user at a time, caches invalidated from a stale member list or not at all after a late error. Rights go stale only while an invalidation is under way; a user is moved, not duplicated |
| Tab service and repositories | published tabs, per-user rows with tombstones, order, visibility targets | enable, disable, create, update, delete, reorder | A removed tab must not come back |
| Policies | none | who may see or manage what | Pure functions |
| Router, audit, request ids, configuration, schema, debug endpoints | none of their own | wiring | Read once, or only logged |

Components interact by direct calls inside one process; shared state is the two
maps and the semaphore of the OnCall service, the database and the Redis cache.
Routes call services, services call repositories and the cache; the AI service
is reached over HTTP. Cancellation travels through `context.Context`: the
client's disconnection, `cancel`, `delete` and a newer stream of the session all
end in the same context.

## Modules

| Module | Models | State and actions |
|---|---|---|
| `OnCallStream` | OnCall service, limiters, the PostgreSQL OnCall repository | One process per HTTP request. `req[r].pc` is where the goroutine is in `StreamOnCallMessage` / `streamAIWithOptions`; a step is what happens between two points at which another goroutine can interfere (a repository call, a critical section, a channel operation, an event written). `caller[c]` is a cancel or delete request, whose cancellation is two steps: entry removed under the lock, `cancel()` called after it |
| `MCOnCallStream` | values of the constants for TLC | |
| `SlotPool` | what a limiter promises | `Acquire`, `Release`: a client takes a free slot and returns it once. `OnCallStream` maps to it with `holders <- GlobalHolders` (the requests between `TryAcquire` and `Release`) and `free <- AILimit - sem` (the room of the semaphore's channel) |
| `SessionStreams` | what the registry of active streams promises | `Start`, `GiveUp`, `Stop`: a session has one live stream, starting one ends the previous one in the same step. `OnCallStream` maps to it with `waiting <- Waiting` (the stream requests that are not registered yet) and `live <- Live` (those registered whose context is not cancelled) |
| `StreamRelay` | one `streamAIOnce`: reader, smoother, relay, in either protocol (`relay.doc`, chosen at the start: in document protocol every event is a "message" and goes straight to the relay) | One action per `select` case and per blocking send; closing order as in the deferred calls |
| `ReplyStream` | what a client is promised of one reply | `Produce`, `Show`, `ShowEnd`: the text shown is always a beginning of the text produced, "done" comes once and after all of it; `longest` bounds a piece (`ChunkSize` with the smoother, whatever the service sends in document protocol) |
| `StreamRelay_proofs` | theorems about `StreamRelay`, the refinement of `ReplyStream` among them | |
| `OnCallStream_proofs`, `OnCallRegistry_proofs` | theorems about `OnCallStream` | |
| `AuthCache` | `AuthService`, the auth middleware, the Redis cache, the sessions and accounts of the PostgreSQL repository, the seed at a restart | `lookup[p]` is where a request with a token is in `FindUserByToken` and its handler (logout or another); `login[g]` a login or register request; `admin[a]` a change of rights followed by its invalidation. Every call of the cache and of the database is a step of its own. `Tick` takes one tick from every expiry and TTL |
| `MCAuthCache` | values of the constants for TLC | |
| `AuthCache_proofs` | theorems about `AuthCache` | |
| `BusinessRecords` | approvals, calendar and announcements: `BusinessService`, its policies, the PostgreSQL repository, the seed at a restart | `request[r]` is where a request that changes a record is: authorised by the service on its own read (`load`), then found again by the repository (`save`), then written. Creations are one insert, hence one step |
| `MCBusinessRecords` | values of the constants for TLC | |
| `BusinessRecords_proofs` | theorems about `BusinessRecords` | |
| `Tabs` | `TabService`, its policies, the PostgreSQL tab repository | `request[r]` is where a request that changes a tab or a user's row is: checked (`FindVisibleByID`, the owner, the right to publish, the route), then written in one transaction. `tabs`, `targets` and `rows` are the tables `tabs`, `tab_visibility_targets` and `user_tabs` |
| `MCTabs` | values of the constants for TLC | |
| `Tabs_proofs` | theorems about `Tabs` | |
| `Teams` | teams, memberships and global roles: `BusinessService`, the PostgreSQL repositories, the seed at a restart, and the cached users | `team`, `member` and `globalRole` are the columns of `teams`, `team_members` and `users` that rights are made of; `contextCache` the cached users. `lookup[p]` is where a request with a token is in `userWithPermissions` (row of the user, memberships, cache fill); `admin[a]` where a request of an administrator is: the members read first, the write, for a move the two statements of its transaction (`leave`, `join`), then one deletion in the cache per user |
| `MCTeams` | values of the constants for TLC | |
| `Teams_proofs` | theorems about `Teams` | |

`OnCallStream` sees one attempt from outside (any order of the events its relay
may emit, any way to return); `StreamRelay` opens that attempt up. They meet in
`emitted` (`emittedBusinessEvent`), whose agreement with what was written is
`RetryOnlyBeforeContent`, and in the fact that a cancelled attempt returns
(`AttemptCancelled` there, `RelayCancelled` here).

### Abstractions

- Text is a flag in `OnCallStream` ("the builder holds some") and a sequence of
  numbered runes in `StreamRelay`. Text made of white space only, which the
  code would save but not count as a reply, is left out.
- A request is started once. Ids of streams are the requests themselves (random
  in the code), session and message ids are fresh (PostgreSQL's).
- `AddMessage` is one step: its check that the session is live and its insert.
  A session deleted in between (soft delete) hides the message from every read,
  so the difference cannot be observed.
- A repository call may fail when `RepoFaults` is set; writes to a client may
  always fail.
- In `RelayTool`, a chat request's events only mark that something counted as
  emitted: they are not saved. For `POST /api/chat/stream` nothing ever counts.
- The AI service ends its text once, with "done" or "error" or by closing; tool
  events may come at any time. A service that sends more than 64 text events
  after "done" would block the reader until a cancellation (listed as a hazard).
- Users may be anonymous; a chat picks any user.
- `AuthCache`: a user's roles, permissions and teams are one version number,
  raised by each change (adding, updating and removing a member and changing a
  global role are each a `ChangeRights` of the user followed by
  `InvalidateUserContext`; changes of a whole team, which pick the users to
  invalidate from a list read before, are in `Teams`). They are read in one step, though
  `userWithPermissions` asks three queries: a mixture is one more stale value
  (`Teams` reads in steps). Passwords are right or the request
  ends, `UpdatePasswordHash` is left out, accounts are never disabled (no code
  does). A client knows a token once its login has answered, or from the seed.
  A server that starts while Redis is unreachable runs without a cache; this is
  covered by cache calls that fail. Expiries are ticks that remain, so a copy of
  an expiry ages like the original; the TTL of a cached session is what remains of
  the session when it is stored (`sessionTTL`).
- `BusinessRecords`: a user's roles, teams and permissions are constants, since
  a request works with the user its middleware found; `AuthCache` says how stale
  that user may be. Of a record the model keeps its status, applicant, team and
  visibility; lists and summaries change nothing. That a user can see a record
  (`canViewApproval` and the like in the service's read) follows from being allowed
  to change it. Stored visibilities are "team" and "company". What a client sends as one (`Asked`) is
  compared as it is by the service, and trimmed only by the repository
  (`ValueOrDefault`): besides the two values and nothing it may be `Blank` (white space
  only) or `PaddedCompany` ("company" with white space around it). Padded "team" and a value
  that is neither when trimmed pass the same checks as "team" and show the record to
  no more people, and are left out. The team of an update may be `Blank` too; the teams
  named are enabled ones. Ids are fresh (the nanoseconds of the clock), so
  a deleted id is never given again. What GORM does is taken from how it documents
  it: `Save` writes every column and inserts the row if none has the id;
  `Assign(record).FirstOrCreate` assigns the columns that are not empty. A
  restart ends the requests; the seed runs before the server listens. The approvals
  and events that a new account is given, which have no team, are left out.
- `Tabs`: users, teams and permissions are constants; that the teams of a request
  may be stale, while a publication reads the members in the database, is a matter of
  `AuthCache` and `Teams`. The order of tabs, and with it `Reorder`, is left out, and
  so are names, icons and other data of a tab. `ManagedByAdmin` follows the scope.
  Custom tabs ask for no permission. A target is a user, a team or an id that
  names neither; disabled users and teams are such ids. The seed changes no tab
  after its first run, as it writes what it wrote before and custom tabs have other ids.
  `Inserted` is what GORM's `Create` makes of a value that is false.
- `Teams`: the admin requests are those of users with the permission `team.manage`,
  which no code grants or withdraws. A statement sees what was committed when it
  begins, and waits for rows that another transaction has written (PostgreSQL's
  default, READ COMMITTED); a transaction's rows appear when it commits. A
  request that writes in one statement is one step. The order of a user's
  memberships (`joined_at`, which picks the current team) and the lists and counts
  of the answers are left out. Errors after a write are those of reading back for
  the answer (`failed`). The cache holds users by id; sessions and tokens are a
  matter of `AuthCache`.
- `StreamSessionReply` and `MockReplyEvents` have no caller and are not modelled.

## Runs

| Run | Instance | Shows |
|---|---|---|
| `oncall_safety` | 2 stream requests, 2 sessions of 1 user, 1 message each, 1 canceller/deleter, 1 global slot, default user limit, faults (680 000 states) | type, both limiters, registry, at most one reply per request, leaving the registry, refinement of `SlotPool` and of `SessionStreams`, every change of a request brings it closer to its end |
| `oncall_live` | 1 stream and 2 chats of 1 user, 2 global slots, faults, `FairSpec` (62 000 states) | a cancelled request ends; chats sharing the key "default" strand nothing |
| `oncall_user_limit` | 3 streams, 2 sessions, no faults | **violated**: more than one active generation of a user |
| `oncall_duplicate` | 2 streams, 1 session, no faults | **violated**: two replies to one message |
| `stream_relay` | channels of capacity 1, 3 runes, pieces of 2, 1 tool event, both protocols, `FairSpec` (140 000 states) | type, completeness, retry, refinement of `ReplyStream`; reader, smoother and relay never all wait for one another; the attempt, the reader and the smoother end |
| `auth_safety` | 2 requests with a token, 2 login/register requests, 2 users, 2 tokens, lifetimes of one tick, faults, restarts (1 900 000 states) | type, one registration per account, expiry; a session that is out stays out |
| `auth_live` | 1 request, 1 login, 1 change of rights, 2 tokens, failing cache, restarts, `FairSpec` (160 000 states) | a stale cached user only ages; stale rights vanish |
| `auth_logout` | 2 requests with one token, nothing fails | **violated**: a logged-out token is let in |
| `records` | 2 requests at a time of an administrator, 2 managers and an employee, 2 teams, 2 records of each kind (one of the seed, one not), visibilities and teams as sent, trimmed and blank, faults, restarts (120 000 states) | type, settled decisions, how an event comes to be shown to the company, deletions |
| `tabs` | 2 requests at a time of a publisher and an employee of a team, a system tab and a custom one, 2 routes, targets that exist and one that does not, faults (280 000 states) | type, who has tabs for others, who changes a tab, who changes a user's row |
| `tabs_disabled` | the same, 1 request at a time, no faults | **violated**: a tab that was switched off stays hidden |
| `teams` | 2 requests at a time of administrators, 1 look-up at a time, a user of the seed, the seed's team and another, faults of the database, restarts (1 400 000 states) | type, stale rights are announced, a second team has a reason |

Why these bounds are enough to be interesting: with two streams over two
sessions every pair of the races listed (replace / cancel / delete / late end)
occurs, one global slot makes refusals happen, and the default user limit makes
the second session's stream refused. Channels of capacity one make every sender
block; three runes in pieces of two give a full and a short piece, and
`MaxPending` two makes the buffering notice happen. Two requests
on one token are enough for a look-up to overtake a logout at any of its steps,
and a process starts its next request when one has ended. Lifetimes of one tick
in `auth_safety` let a session expire between any two steps of a request;
longer ones, in which the copies of an expiry drift apart, are the matter of the
theorems (`ExpiredRefused`) and, with lifetimes of two ticks, of `auth_live`.
In `records` two requests are enough, as a request writes one record once; the
records share no state, so the constraint `OneRecord` follows what happens to one
record at a time, while the others are as the seed left them. `OneTab` does the same
in `tabs`, where the other tab still occupies its route. In `teams` two requests
are enough for a move to overtake another and for a member to join between the
read of the members and the write; a look-up has three steps, so that a write and
its invalidation fit between any two. One user is enough as users meet only in
the list of members; the properties speak of one user at a time. One role and
no cache faults keep the instance small: both come free with the theorems, which
are about any roles and faults.
Deadlock is checked in the OnCall runs (the quiescent state stutters explicitly),
in the auth runs (time always passes), in `records` (restarts), in `tabs` and in `teams`. It is not
where the system stops: an attempt of `StreamRelay` ends.

Fairness. `OnCallStream!FairSpec` assumes only that a goroutine that can step is
scheduled; nothing of the AI service (it may be silent for ever) and nothing of
clients. `StreamRelay!FairSpec` adds that the body of the AI service's answer
ends (the HTTP client has a timeout of five minutes), and strong fairness for the
cases of the smoother's `select`, which Go chooses at random among those ready
each time the loop comes round. `SmootherEnds` names the one way in which the
smoother outlives its attempt: `out <- event` looks at no context, so a smoother that
sends to a full channel after the relay has returned stays there. `AuthCache!FairSpec` assumes that time passes and
that a request that has begun goes on; nobody has to log in, look up or change
anything, and the cache may fail every time.

### Findings

Four sentences of the documentation do not hold for the code; each has its run
(`PROJECT.json`, "findings"):

- the user limiter can be bypassed by replacing a stream while it acquires;
- a message can get two replies, since the look-up is not atomic with the
  registration and a cancelled stream still saves;
- after a logout a token may be accepted from the cache, which a look-up that had
  read the row before the logout fills after it (no call needs to fail for this);
- a tab that a user switches off stays on, since GORM's `Create` writes the default
  of a column (`default:true`) where the value is false.

A fifth needs no run. `SERVER_DEFENSE_HIGHLIGHTS.md:445` and `:312` say that the mock reply
comes when the AI service has not yet sent content. That it comes only then is
`RetryOnlyBeforeContent`, which holds, and is proved, for the event protocol; in document
protocol every event has the kind "message" (`oncall_service.go:439`), which
`emittedBusinessEvent` does not count, so a failure in mid-reply is followed by a second
reply.

A sixth contradicts no document but the refusals of the code itself, between two layers:
the service compares the visibility of an event, and the scope of an announcement, with "company" as
it was sent (`business_service.go:158`, `:185`, `authorization.go:94`), and the
repository trims it afterwards (`postgres_business_repository.go:169`, `:183`, `:253`).
White space around the word makes the check take it for another value, although the
refusals at `:160` and `:186` say that only an administrator may have it. A blank
one is filled in from the repository's own read, which the service has not seen. That only
administrators show an event to the company is therefore not true of the code;
`CompanyExplained` says what is: for a visibility that was sent as it is stored, or not
sent, the value written is the value checked, whatever happens in between.

What does hold in the neighbourhood of these: `OutForGood` (once no copy of a
logged-out session is left, none comes back and nobody is let in with it, until a
restart); `SettledForGood` (a
decision stands once no request authorised before it is under way: one that found the
approval pending still decides it again, against `SERVER_FINAL_DEFENSE_GUIDE.md:412`);
`GoneForGood` (a deletion stands once no update has loaded the record: GORM's `Save`
re-inserts a deleted event, and an update of an announcement writes `deleted_at` as
it read it).

`StaleOnlyAnnounced` has three exceptions, and each is a behaviour of the code:
`UpdateTeam` and `DisableTeam` delete the cached users of the members they read
before they wrote, so whoever joins in between keeps the old team in the cache
until its TTL; a request that answers an error after its write deletes none; the
seed writes roles and memberships and deletes none. `SecondTeamExplained` names
the ways to a second team although `AddTeamMember` is a move: of two moves at
a time each disables only the rows it saw, an update of a membership that ended
begins it again, and the seed enables its own.

`SettledForGood` excepts the seed's approvals at a restart, and must: the seed
assigns its rows to those that exist at every start (`seed.go:266`), so a demo
approval that was decided is pending again, although `DATABASE_PLAN.md:686` and
`:945` ask that a decision survives a restart. Approvals that users created keep
theirs. Without the exception the run `records` fails at such a restart.

## Proofs

The theorems about `OnCallStream!Spec` hold for every value of the constants that
satisfies `OnCallAssumption` (requests are finitely many, limits are integers,
`None` is no value). Any number of users, sessions, requests and messages.

- `TypeCorrect` (`[]TypeOK`). `TypeOK` alone is not inductive: that `Return` and
  the saves have a session to write to depends on where the request is. The
  inductive invariant `TypeInv` adds `Located` (a request under way knows its
  user, a session request its session), `Targeted` (a caller about to cancel
  knows its target) and `WithoutAI` (without an AI service no request is past
  the limiters).
- `GlobalSlots` (`[]GlobalSlotsBalanced`). Each step moves at most one request
  (`Moves`), so the set of holders gains or loses one element exactly where `sem`
  is changed; with `TypeInv` this is inductive.
- `UserSlots` (`[]UserSlotsBalanced`). Inductive with `TypeInv` and the
  finiteness of the set of held keys.
- `OneLiveStream` (`[]OneLiveStreamPerSession`). The strengthening
  `LiveStreamRegistered`: a registered stream that is not cancelled is the entry
  of its session. An entry is one, hence so is the stream.
- `LeavesRegistry` (the action property), from `TypeInv`.
- `GlobalLimiterIsPool` (`ImplementsSlotPool`), from `TypeInv` and
  `GlobalSlotsBalanced`: a step that changes the holders takes or returns one slot.
- `RegistryIsSessionStreams` (`ImplementsSessionStreams`): a registration is `Start`
  (or `GiveUp`, when the client has left by then), what cancels or ends a live
  stream is `Stop`, all else stutters. Besides `LiveStreamRegistered` it needs the
  converse `EntryIsStream`: an entry of the registry is a stream registered for
  that session, so that replacing an entry ends no stream of another session.
- `RequestsAdvance` (the action property `EveryChangeAdvances`), from `TypeInv`.
  `Distance` counts the places a request still has to pass and, while it relays,
  the attempts it has left and the marks it has not set. Each change lowers it, so
  a request changes a bounded number of times: what remains of `CancelledEnds` is
  that a cancelled request can always change, and that is left to TLC.
- `RepliesSavedOnce` (`[]OneReplyPerRequest`). The strengthening
  `RepliesRecorded`: a reply by r in a log is in r's session, is the only one,
  and r has it recorded in `saved` or has passed the late save.

The theorems about `StreamRelay!Spec` hold for channels of any capacity, pieces of
any length, replies of any length and any number of tool events
(`RelayAssumption`: the sizes are natural numbers, the first four not zero). They
come from one inductive invariant, `RelayInv`. Its core is `TextInv`: as the runes of
a reply are numbered, every buffer holds the run between two positions of the text,
and the buffers' positions meet (`SmoothedFlow`: shown `x`, smootherOut up to `o`,
the event being sent up to `p`, pending up to `c`, rawBuffer up to `d`, the reader
from there; `DirectFlow` in document protocol). For a queue, `Carries` says so
with a function from its gaps to positions, which `CarriesAppend` and
`CarriesTail` move along. The text is lost only with a cancelled reader, a smoother that
ended early, or after an error (`HeldFrom`, `SmoothedFlow`). Around it: which events can be in which
channel (`KindsInv`), which channel is closed when (`ClosingInv`), that the service's
end is in one place and last (`SameEnd`, `OneEnd`), tool events by the same
counting (`ToolInv`), and where "done" is until it is shown (`DoneInv`).

- `TypeCorrect` (`[]TypeOK`): that what the smoother holds is a text at all needs
  `TextInv`.
- `CompleteReturn` (`[]CleanReturnIsComplete`): when both channels are closed and drained
  the positions coincide, so what is shown is the whole text.
- `RetryBeforeContent` (`[]RetryOnlyBeforeContent`), from `EmittedInv`.
- `RelayImplementsReply` (`ImplementsReplyStream`): the reader's steps are
  `Produce`, the relay's `Show` or `ShowEnd` or a stutter, all others stutter.
- `NobodyStuck` (`[]NeverStuck`). Who waits is read off the `select` cases and
  sends: `ReaderReady`, `SmootherReady`, `RelayReady` are what enables the steps of
  each (TLC found them equal to `ENABLED` in every state of the instance;
  `ENABLED` itself is out of the prover's reach). A reader that waits holds an
  event for a full channel. The relay empties directEvents, and a full rawBuffer is
  the smoother's to empty, unless the smoother has ended: it ends early only
  when the attempt is cancelled, which everybody hears, or on an "error", and then the reader has nothing left for rawBuffer (`PassedInv`).

The theorems about `AuthCache!Spec` hold for every value of the constants that
satisfies `AuthAssumption` (lifetimes are positive, `None` is no value):

- `TypeCorrect` (`[]TypeOK`). The inductive invariant `TypeInv` adds `UnderWay`: a
  request under way works on a token whose row exists, a login on a user.
- `ExpiredRefused` (the action property `ExpiredNeverAdmitted`). The strengthening
  `ExpiryInv`: no copy of an expiry, in the cache (`CachedLeft`), in a look-up
  between its read and its check (`LookupLeft`) or in a login before its fill
  (`LoginLeft`), exceeds what the row has left; restarts only raise the row.
- `RegistersOnce` (`[]OneRegistration`). The strengthening `RegisteredExists`: the
  account of a register request past `Create` exists, so no other passes it.
- `OutStays` (`OutForGood`). The strengthening `IssueInv`: a token under way in a
  login is that login's alone and its row exists, a token that a request carries or
  that is revoked is one a client knew (its login has answered, or the seed wrote
  it), and only a register request creates accounts. So no login caches a session
  that was logged out, and
  a look-up caches only what it read, which for a revoked row is nothing.
- `StaleAges` (`StaleOnlyAges`), from the same: a fill writes the rights its request
  holds, and every read after the change returns the current ones. It is the safety
  half of `StaleRightsVanish`: a stale entry is never prolonged.

The theorems about `BusinessRecords!Spec` hold for every value of the constants that
satisfies `RecordsAssumption` (the three kinds of ids are disjoint, the seed's rows
have their types, `None` is no value, and no team has a blank or padded name as its id):

- `TypeCorrect` (`[]TypeOK`). The inductive invariant `TypeInv` adds `Suited` (a
  request works on a record of the kind its operation is for, and one that has
  been created or, for an event it saves, was found) and `Seeded` (the seed's announcements have a row, if only a
  deleted one).
- `DecisionsStand` (`SettledForGood`). `ApprovalMoves` lists the ways an
  approval changes: creation, the write of a request on it, a restart. None is
  left for a settled one; and `RequestMoves` shows that no request comes to it, for
  the service authorises pending ones only.
- `DeletionsStand` (`GoneForGood`), the same way: `First` finds no deleted row.
- `CompanyHasItsReasons` (`CompanyExplained`). The strengthening `CompanyInv`: a
  request under way whose text is "company" itself is an administrator's; and
  `TrimmedVisibility` lists the other ways to "company" that `valueOrDefault` opens.

The theorems about `Tabs!Spec` hold for every value of the constants that satisfies
`TabsAssumption` (users, teams and unknown ids are disjoint, `None` is no user and
no tab):

- `TypeCorrect` (`[]TypeOK`) and `SharedByPublishers` (`[]PublishersOnly`) come from
  one inductive invariant, `TabsInv`. `PublishersOnly` is not inductive alone, as an
  update writes a copy made earlier: `Prepared` says that a copy under way belongs to
  its user and is for others only if that user may publish, `SystemTabsStay` that
  no creation takes the id of a system tab.
- `OwnersKeepTheirTabs` (`OwnersDecide`). `TablesMove` and `PublicationMoves` list
  the writes; on a tab that has an owner only the owner's update or deletion is left.
- `RowsHaveTheirReasons` (`RowsByUserOrPublisher`). `PublishedVisible` is its core:
  whom `resolveTargetUserIDs` finds, `visibleTabQuery` lets through.

The theorems about `Teams!Spec` hold for every value of the constants that satisfies
`TeamsAssumption` (the seed's teams, users and roles have their types, `None` is no
user and no team):

- `TypeCorrect` (`[]TypeOK`), from the inductive invariant `TeamsInv`: with
  `AllPrepared` (a request under way knows its user and team, and a move does not
  disable the team it is to) and `NothingWithoutRow` (no membership without a row).
- `StaleAnnounced` (`StaleOnlyAnnounced`): each write of a table is followed by an
  invalidation of those whose rights it changes, or is one of the exceptions; a
  look-up reads parts of one state as long as nothing is written.
- `SecondTeam` (`SecondTeamExplained`): a move that commits leaves, besides the new
  team, only memberships in rows its first statement did not see.

The strengthenings were first checked with TLC on the instances of
`oncall_safety`, `stream_relay`, `auth_safety`, `records`, `tabs` and `teams`. Only
model-checked is liveness (`CancelledEnds`, `AttemptReturns`, `ReaderEnds`,
`SmootherEnds`, `StaleRightsVanish`), which TLAPS 1.4.5 does not do under fairness;
`RequestsAdvance`, `NobodyStuck` and `StaleAges` are what can be proved of it. And the
runs that are expected to fail prove nothing: they show a counterexample.

## Plan

Done in this order: `OnCallStream` with its proofs, `StreamRelay` with
`ReplyStream`, `AuthCache` with its first proofs, `BusinessRecords` and
`Tabs` with theirs, `Teams` with its proofs, `SlotPool`, the proofs of `StreamRelay`, `SessionStreams`,
`OutForGood` as a theorem, and the safety halves of the liveness properties.
Left:

1. `Tabs`: the order of a user's tabs (`Reorder`, `nextSortOrder`).
2. One instance of `Teams` and `AuthCache` together, in which the version number of a user's
   rights in `AuthCache` is what `Teams` writes; today they meet in the assumption
   that a change is followed by its invalidation, which `StaleOnlyAnnounced` says of
   `Teams`.
3. Questions the repository leaves open: the team that an update gives an event is not
   checked against the caller's rights; the reply to a message is found by its position
   (`oncall_service.go:224`), so a late reply counts for a later message. No
   sentence is precise enough to say whether either should be.
4. The in-memory repositories, which number sessions per user and are not synchronised;
   they serve demonstrations without a database.

Not planned: configuration, logging and audit middleware, request ids, debug
endpoints, formatting of events, schema migration: no state of their own, or no
behaviour beyond one statement.
