# A verification of channels_envelope

`channels_envelope` lets Django applications talk to browsers over websockets:
messages are put in envelopes, consumers dispatch them, commands that need the
database become jobs on RQ, and what the workers have to say comes back through
the groups of a channel layer. This directory holds TLA+ models of its
concurrent parts, the TLC runs that check them on small instances, and TLAPS
proofs of the properties that hold for every instance.

Paths below are relative to `src/envelope/`.

## The system

| Component | State | Operations | Interacts with | Hard about it |
|---|---|---|---|---|
| Websocket consumer (`consumers/websocket.py`) | `user_pk`, `subscriptions`, `last_job`, the mailbox the layer keeps for it | connect, receive, websocket_send, ws_error_send, internal_msg, disconnect | the layer (its own channel, groups), RQ (enqueue), the session | one event at a time, but everything it reads may be stale; ends with or without `disconnect` |
| Subscriptions (`channels/messages.py`) | the consumer's list, the layer's groups | `channel.subscribe` (job), `channel.leave` (at once), `channel.subscribed`/`channel.left` (update the list when they pass the consumer), `channel.recheck` (job) | consumer, workers, permissions | list and group are changed by different processes, in different orders |
| Context channels (`channels/models.py`, `app/*`) | groups | subscribe, leave, allow_subscribe, publish | layer | `group_add` is not part of the transaction of the job that calls it |
| Deferred jobs (`deferred_jobs/`) | RQ queue, worker | enqueue, init_job, handle_failure, ttl, job timeout; `ContextAction`: lookup, permission check | consumer, database transaction, layer | a job can expire, raise at any point, be killed, and is overtaken by others; the database changes while it waits |
| Transaction sender (`utils.py`) | callables waiting on `connection.run_on_commit` | websocket_send, internal_send, websocket_send_error, batching | Django's nested transactions, layer | savepoints, a layer that raises in the middle of a commit, regrouping |
| Connection status (`deferred_jobs/jobs.py`, `utils.py`, `models.py`) | `Connection` rows | created, marked, closed by jobs | consumer (enqueues), workers | four kinds of jobs write one row, possibly from two queues |
| Batches (`messages/common.py`) | none | start, append | transaction sender | a message unlike the first one makes append raise at the commit |
| Envelopes (`core/envelope.py`, `core/transport.py`, `envelopes.py`) | none | parse, unpack, pack | consumer | error paths; each envelope carries another part of a message's meta data |
| Registries, startup checks (`registries.py`, `decorators.py`, `apps.py`) | filled while applications load | add, ready | every lookup of a message, queue or layer | what is registered after the checks is checked by nobody |
| Language (`consumers/utils.py`) | `language` of the consumer, the active language of a worker | get_language, activate | scope, jobs | the order of preference; a worker that runs one job after the other |
| Schemas, admin, logging, testing helpers | none | | | nothing that moves |

What makes each correct:

- consumer and channels: who is in which group is decided by a permission, where
  the channel has one, and not by timing; a close order is obeyed;
- subscriptions: the consumer's list covers the groups it is in (a recheck
  looks at nothing else), a recheck is final, a client learns what became of
  its command;
- actions: what the client is told agrees with what is in the database, and
  each thing an action asks for (user, context, permission) stops it when missing;
- sender: nothing leaves twice, is forgotten or overtakes its own kind; what a
  rollback undid does not leave;
- status: when the dust settles the row tells what became of the connection,
  and its `last_action` is not older than the interval allows;
- startup: what was there when the checks were made is found when it is needed;
- language and trace id: a client is answered in the language it asked for and
  under the id it gave, whichever process answers.

The hazards, with their lines, are listed in `PROJECT.json`.

## The modules

| Module | What it is |
|---|---|
| `Subscriptions` | consumers, deferred subscribe and recheck jobs, workers, layer: the core |
| `RequestReplies` | abstract: the conversation about one trace id; `Subscriptions` implements it (`Replies == INSTANCE RequestReplies`, `answers` maps to itself) |
| `SubscriptionsProofs` | theorems about `Subscriptions`: types, and who is in which group |
| `RepliesProofs` | theorems about `Subscriptions`: what becomes of a trace id |
| `MembershipProofs` | theorems about `Subscriptions` with one worker: what the consumer's list knows |
| `TransactionSender` | sending from synchronous code under nested transactions |
| `Outbox` | abstract: what becomes of a message sent from a transaction; `TransactionSender` implements it (`AsOutbox`: `Waiting` for `pending`, `Out` for `out`, `lost` for `gone`) |
| `ContextActions` | a command from the frame to the action: receive's errors, the job, its transaction, the errors around it |
| `ContextActionsProofs` | theorems about `ContextActions` |
| `ConnectionStatus` | the jobs that write `Connection` rows |
| `ConnectionStatusProofs` | theorems about `ConnectionStatus` |
| `Startup` | registries and the checks of `ready()` |
| `Languages` | `get_language`, and what its docstring promises |
| `Envelopes` | the meta data of a message through unpack, from_message and pack |
| `SequenceFacts` | lemmas the proofs share: induction over numbers, recursive functions, folds, `FlattenSeq` |
| `TransactionSenderProofs` | theorems about `TransactionSender` |
| `Server` | the composition: extends `ContextActions`, instances the three before it |
| `ServerProofs` | theorems about `Server` |
| `MCSubscriptions`, `MCTransactionSender`, `MCConnectionStatus`, `MCServer` | small instances |

Definitions called "a mistake" in a comment are not part of a model: each is
the variant of the definition after it that a plausible bug would give. They
are listed under "mutants" in `PROJECT.json`; with one in place of the original,
TLC must find the property beside it violated.

### Subscriptions

A consumer is one asyncio task that dispatches one event at a time, so a
handler is one action. Where it awaits the layer in between (connect), the
action is placed at the write others can see; `Authenticate` and `Accept` are
two actions because the session is read at one point and the group joined at
another. A worker is a process of its own: `TakeJob`, then one action for each
read of a permission (`SubscribeAllowed`, `RecheckAllowed`, ...), each
`group_add` or `group_discard` (`SubscribeJoin`, `RecheckLeave`), the commit at
which messages leave (`SubscribeCommit`, `RecheckCommit`) and the bookkeeping
after it (`UpdateStatus`). `JobRaises` (an exception or the job timeout, at any
point) rolls back what waits for the commit and leaves the groups as they are.

| Variable | In the code |
|---|---|
| `session`, `perm` | the session store; what `has_perm` would say |
| `state`, `user`, `subs` | life of the connection, `user_pk`, `subscriptions` |
| `mailbox` | events the layer holds for the consumer's own channel |
| `members`, `online` | layer groups of the context channels and of the online channel |
| `queue`, `pc`, `job`, `todo`, `at`, `lefts` | the RQ queue and each worker's place in its job |
| `answers`, `asker`, `dropped` | history: what each client was told, by whom it was asked, what RQ dropped |

Left out: payloads (`app_state`, names, states other than queued, success,
failed), `last_sent` and the like, messages that do not touch subscriptions, and
the capacity and expiry of the layer. A channel has a permission or, like those
of `Public`, none: `allow_subscribe` then says yes before it looks at the user,
so that an anonymous connection may join it, too. `Listening` covers "closing": after
`consumer.close()` the consumer goes on dispatching until the server reports the
socket closed. External definitions (RQ taking, dropping and losing jobs, the
loop of the channels library, permissions) are marked so in the map.

### TransactionSender

One database connection, hence one thread: no interleaving. Django's `atomic`
blocks (external) nest as savepoints; `hooks` is `connection.run_on_commit`, and
a rolled back savepoint forgets the callables registered under it. A message is
used at most once. `scope` remembers the savepoints a message was sent under
and `undone` those whose scope was rolled back. `BatchStart`, `BatchAppend` and
their Batch2 namesakes are `messages/common.py`, with a payload as a function
from fields to values; `BatchOf` and `Batch2Of` fold them over a group as
`batch_messages` does.

`Util[m]` is the `SenderUtil` of a message. `GroupKey` writes name, channel,
envelope, state and `group` one after the other as the code does, with nothing in
between, so messages of different names can have one key (`Lookalikes` in
`MCTransactionSender`): `append` then refuses. So does `Batch2.append`, if
`ENVELOPE_BATCH_MESSAGE` chose it (`Factory`), for a message whose payload has
other fields than the first one's (`Verbose`). Both are `Appendable`; a group that
is `Refused` stops the commit at its callable (`Breaks`), as a layer that raises
does. `InternalSend`
registers a callable of its own for every message; `Asides` are messages that
`sync_publish` sends with the internal envelope, through the sender.

### ContextActions

One connection sends frames. `ReceiveGarbage`, `ReceiveInvalid`, `ReceivePing`
and `ReceiveCommand` are the ways through `receive`; the last queues a job. A
worker reads the database three times: the user (`FindUser`), the context
(`FindContext`, `NotFound`) and the permission, if the action has one
(`Authorized`); `Unauthorized` ends the first or the last. It then acts, and
replies: at the commit when the action is atomic (`Commit`), at once when it is
not (`Reply`). Between any two of these others may delete the user or the context
or change the permission, and the job may raise (`JobRaises`), raise an
ErrorMessage of its own (`GiveUp`) or be killed. An action that is not atomic may
give up after its reply: the client gets a success and then the error.

That the lookups are separate is not a detail. A context that is found, is then
deleted, and whose permission is given only after that, makes an action that was
allowed at no single time; `has_perm` asks about the object in memory.
`WithdrawnNotDone` is therefore stated of each lookup: what is gone for good when
its own lookup comes stops the action.
`Addressed` is how init_job completes an error made without a trace id.
`CommitUnsent` is the layer raising in an on_commit callable: `atomic()` has
committed, and RQ sees a failed job. `GiveUpUnregistered` is an ErrorMessage of
a class that is in no registry: `ws_error_send` cannot unpack it and the
consumer ends (`crashed`) instead of telling its client.

| Variable | In the code |
|---|---|
| `known`, `existing`, `granted` | the rows `Message.user`, `ContextAction.context` and `has_perm` read |
| `queue`, `pc`, `job` | the RQ queue and each worker's place in `init_job` |
| `applied` | the writes of `run_job` that are committed |
| `told`, `stray` | errors and replies the client got, with and without a trace id |
| `used`, `about`, `unsent`, `dropped` | history |

A reply is sent straight to `told`; the mailbox in between is in `Subscriptions`.

### Server

From a process that starts to the answer its client gets. Every action of
`ContextActions` that concerns a client becomes an action of `Server` with what
the other parts add to it.

| Variable | In the code |
|---|---|
| `settings`, `phase`, `registered`, `unchecked` | `RQ_QUEUES`, `CHANNEL_LAYERS` and the settings that name queues; whether `ready()` has run; the registries, and what was added to them after it |
| `language`, `asked` | `consumer.language`, and the scope `connect` is reading until it accepts |
| `missed` | history: what the consumer looked up and did not find |
| `speaks` | the active language of a worker that runs jobs without forking for each |
| `wire` | history: envelope and packed meta data of what the client got |

`Load` is `ready()` or a registration. `Negotiate`, `Connect` and
`ConnectMisses` are `connect`, which reads the language, looks up the layers of
the channels it joins and the queue of the status jobs, and ends the consumer
when one is missing (`Miss`). `ReceiveMisses`, `ServeGarbage`, `ServeInvalid`,
`ServePing` and `ServeCommand` are `receive` again: a class not in the registry
is a type error the client is told of, a queue not in the settings is an
exception. `ServeTake`, `ServeRun` and `ServeFailure` are `init_job` and
`handle_failure`, with the language they activate and the meta data the answer
is packed with. `Elsewhere` is what others do to the database.

Registrations after the client has connected are left out: the model has one
client, and what a lookup finds depends only on what is there when it is made.
The connection has a user until it is deleted.

### ConnectionStatus

The clock counts, jobs carry the time they were queued at, and rows keep times.
`Setting` is `ENVELOPE_CONNECTION_UPDATE_INTERVAL` and `Fixed` the 180 s of the
class: `UpdateInterval` is the second whenever there is a first, as in
`websocket.py:76`. A row is written in one database transaction, hence in one
action. A client's message may be handled at once
(`ReceiveMessage`) or queue a job of its own (`ReceiveDeferred`), which writes the
row too, and so may one the server sends to the consumer (`ReceiveInternal`).
`last_job` is set where the code sets it (`queue_deferred_job`, not
`maybe_update_connection`). `heard` (when the client last sent) and `lost`
(failed jobs) are history.

## The runs

| Run | Instance | Shows |
|---|---|---|
| `subscriptions_requests` | 1 connection, 1 channel, 2 commands, 2 workers, all failures, leave, logout, permission changes | `RequestsAccounted`, the refinement `RepliesSpec`, the liveness properties `QueuedAnswered` and `CloseObeyed`, and `NeverAllowedNeverMember` |
| `subscriptions_members` | 1 connection, of one of 2 users or of nobody, a channel with and one without a permission and the users' own, 3 commands, 1 worker, 1 recheck, `SEND_SUBSCRIBE` | `PrivateUserChannel`, `AnonymousInPublicOnly` |
| `subscriptions_oneworker` | 1 connection, 1 channel, 2 commands, 1 worker, 1 recheck, leave, permission changes | `MembershipKnown`, `LeftIsRun` (up to two channels), `RecheckEffective` |
| `sender_savepoints` | up to 4 of 7 messages: 3 of a kind, 1 like them with one field more, 1 of another name and channel with the same group key, 2 of their name with the internal envelope; `Batch2`, 2 savepoints, a layer that may raise | `SentOnce`, `NothingForgotten`, `BatchesSound`, `BatchesReadable`, `InternalKept`, `KeyOrderKept`, and that the sender implements `Outbox` (`OutboxSpec`) |
| `status_oneworker` | 2 connections, 2 messages, 1 queue, 1 worker, failing jobs, crashes | `ClosedIsOffline`, `OnlineHasNoEnd`, `LastActionFresh`, `LastActionAdvances`, `ConnectedIsRecorded` |
| `context_actions` | `MCServer`: 3 settings, every scope with up to 3 languages, 2 frames (one may be a protected, atomic action, the other neither, and of a message registered late; either may be garbage, invalid or a ping), 1 context, 2 workers, all changes and failures | of commands `RefusedHasNoEffect`, `JobErrorMeansUndone`, `OneOutcome`, `ErrorsNamed`, `WithdrawnNotDone`, `CommandAnswered`; of the server `LookupsSucceed`, `LanguageNegotiated`, `SpeaksLanguage`, `TraceKept` |

Six runs expect a violation and check what a comment, the README or a test
says (see "findings" in `PROJECT.json`):

| Run | Counterexample |
|---|---|
| `subscriptions_logout` | connect reads the session, the user logs out, the consumer joins the user's channel: no close message reaches it. Also after `channel.leave` on the own channel |
| `subscriptions_disconnect` | with `ENVELOPE_USER_CHANNEL_SEND_SUBSCRIBE`: connect queues a Subscribe job, the client disconnects, the job adds the dead consumer |
| `subscriptions_batch` | a recheck leaves three channels, the three Left messages become one `s.batch`, no `Left.run` is called |
| `sender_undone` | sender registered outside, message added inside a savepoint, savepoint rolled back, outer commit |
| `status_twoworkers` | the close job overtakes an older job of the same connection, whose `online=True` is the last word. A second queue has the same effect |
| `actions_unregistered` | an action raises an error whose class is in no registry (`error.generic` of the package is one): no answer, and the consumer ends |

`MembershipKnown` and `RecheckEffective` are stated for one worker. With two, a
Subscribe job that has passed its check can join after the recheck; the comment
in `RecheckChannelSubscriptions.run_job` knows that. `RecheckEffective` speaks
of the channels on the list the job was queued with: TLC showed that a client
which leaves a channel between the check and the `group_add` of its Subscribe
job is in a channel its list does not name yet, and a recheck queued just then
misses it.

### Bounds

- One connection is enough for the questions about one client's commands: jobs
  and events carry their consumer, and two connections meet only in a group.
  What a second connection in a group could do to the first is nothing: no
  handler reads who else is in a group, and the theorems below say so for any
  number. In `subscriptions_members` the connection may be of either of two
  users, so that there is a channel of somebody else to get into.
- Two commands and two workers give every race of two jobs for one channel. In
  `subscriptions_members` a third command is for the third channel, so that the
  connection may be in all of them (symmetry among trace ids and among channels
  that have a permission, or have none; it checks invariants only, for which
  symmetry is sound).
- One recheck; rechecks are absent (`MaxRechecks = 0`) where the question is
  not about them.
- Three messages are what a batch takes, and the fourth (`MaxUsed`) may be
  whatever the instance has besides: one that makes append refuse, for its name or
  for its fields, or one of another kind, so that regrouping matters. Two internal
  ones, to be under different savepoints. Two savepoints nest or follow each other.
- Two frames on two workers meet in the queue and at the workers; frames share
  nothing else, so a third adds no case. One context is enough, because a
  command looks at its own only.
- Three settings, one with all queues and layers, two that lack one each, make
  every check of `ready()` fail for some set of registrations and pass for
  another. Headers of up to three codes from a code that is offered, a variant
  of it, one that is not offered, a malformed one and the wildcard have every
  case of the loop before and after every other.
- Time 0..2 with an interval of 1 lets a message come before and after the
  interval has passed.
- Every bound is a constant: `Requests`, `MaxRechecks`, `Leaving`, `Changing`,
  `MaxSavepoints`, `MaxUsed`, `MaxTime`, `MaxMessages`.

Deadlock is not checked where the bounds let the system run out of things to do
(all messages sent, everybody gone).

### Fairness

`Subscriptions!Fairness` is weak fairness of: a consumer handling the oldest
event of its mailbox (asyncio), the report that a closed socket is closed
(the ASGI server), a worker taking a job or going on with it (RQ). Nothing
obliges a client to send, a user to log out, a permission to change or anything
to fail. `ConnectionStatus!FairSpec`, `ContextActions!FairSpec` and
`Server!FairServerSpec` ask the same of their workers.

## The proofs

`SubscriptionsProofs` proves, for any sets of users, connections, channels,
requests and workers and any failures, from `ConstantsAssumption` alone:

| Theorem | Statement |
|---|---|
| `TypeCorrect` | `Spec => [](TypeOK /\ WorkerOK)` |
| `UserChannelsPrivate` | `Spec => []PrivateUserChannel` |
| `AnonymousKeptOut` | `Spec => []AnonymousInPublicOnly` |
| `PermissionNeeded` | `Spec => NeverAllowedNeverMember` |

`TypeOK` is not inductive: a worker that leaves a channel needs one to leave, a
worker with a job needs a job. `WorkerOK` says what a worker holds at each place
of its job, and `TypeInv` is both.

`PrivateUserChannel` and `AnonymousInPublicOnly` follow from `MembersInv`: every
member of a group is an accepted connection *entitled* to it (a user's channel
has that user's connections, a context channel with a permission none without a
user, one without a permission anybody's); a
worker about to join is entitled to the channels in its hands; and every
consumer named in a job has been accepted, so that its `user_pk` no longer
changes. The last two parts are what makes it inductive: the check and the join
are two steps, and between them only the fact that entitlement is stable
(`EntitledStable`) keeps the check valid. Permissions are not stable, which is
why the same argument does not work for them.

`PermissionNeeded` is a temporal formula, about the channels that have a
permission (`Guarded`). It needs that a connection's user is
its owner or nobody (`OwnerOrNobody`), and `KeptOut(c, ch)`: c is not in the
group and no worker is about to put it there. While the owner lacks the
permission `KeptOut` is preserved, and it holds at the start.

`RepliesProofs` proves, from `ConstantsAssumption` alone:

| Theorem | Statement |
|---|---|
| `RepliesImplemented` | `Spec => RepliesSpec` (the refinement of `RequestReplies`) |
| `AnswersAccounted` | `Spec => []RequestsAccounted` |

Both rest on `Once`, which says for each trace id where the news about it can be:
while its job is in the queue it is there once, no worker has it and no mailbox
speaks of it (`QueueOnce`); while a worker has it, no other does, and until the
commit nothing has been said (`WorkersOnce`); in a mailbox it is for the one who
asked, and at most a success with a failure behind it (`MailOnce`). Neither of
these survives a step without the others: a worker takes the job from the
queue, and its commit fills the mailbox. A failure behind a success is possible,
because `UpdateStatus` runs after the commit and may raise; without that case
the invariant is false, and so is the refinement of a conversation with one
final answer. Given `Once`, a step that adds to a client's answers is one of
`Acknowledge`, `Succeed` and `Fail`, and all others stutter. `AnswersAccounted`
follows the holder: a request leaves the queue to a worker, the worker to the
mailbox, and the mailbox to the client; only `ExpireJob`, `HorseKilled` (history
`dropped`) and the end of the connection take it from there.

`MembershipProofs` proves, from `ConstantsAssumption` and `OneWorker`:

| Theorem | Statement |
|---|---|
| `MembershipsKnown` | `Spec /\ [][JoinIsReported]_vars => []MembershipKnown` |
| `LeftsAreRun` | `Spec /\ []FewLefts /\ [][~ExpireJob]_vars => []LeftIsRun` |

The conditions are about the behaviour and not about the constants, because that
is what the code needs: no job breaks off between `group_add` and the message
that tells the consumer (`JoinIsReported`), a recheck leaves at most two channels
(`FewLefts`: three make a batch, whose messages nobody runs), no job expires.
Each is necessary: with one worker, TLC violates `MembershipKnown` when
`Failures` has `"raise"` or `"kill"`, and `LeftIsRun` when it has `"expire"` or
three channels are left (`subscriptions_batch`). In the instance of
`subscriptions_oneworker` (no failures, two channels) they hold in every
behaviour.
`JobsInv` says what jobs and mailboxes look like: nothing is in the mailbox of a
connection that was not accepted, a subscribe job names one channel, and what a
recheck is about to report as left is left. With one worker nobody can join it
again before the report. `Known` and `Forgotten` are the two invariants for one
connection and one channel, `Forgotten` without the bound on Left messages, and
each step is shown to keep them for a connection it moves and for the others.

`ContextActionsProofs` proves, from `ActionsAssumption` alone:

| Theorem | Statement |
|---|---|
| `ActionsTypeCorrect` | `Spec => []TypeOK` |
| `RefusalsAreTrue` | `Spec => []RefusedHasNoEffect` |
| `JobErrorsAreTrue` | `Spec => []JobErrorMeansUndone` |
| `OutcomesAreFinal` | `Spec => []OneOutcome` |
| `ErrorsAreNamed` | `Spec => []ErrorsNamed` |
| `EachNeedStops` | `Spec => WithdrawnNotDone` |

The argument is that an unanswered command has one holder: `QueueInv` (each frame
waits once, untouched, and no worker has it) and `WorkersInv` (no two workers
have the same, and how far a worker is says what came of its frame so far). Both
are needed for `Sound`, which says what can be said about a frame at any time and
has the four invariants as consequences. Every action touches one frame, so each
step shows `Sound` for that frame, and `WorkerKeeps` and `ReceiveKeeps` do the
rest once. A frame whose job is at `"status"` and was not told of its success
belongs to a closed connection; without that a job error could be its only
answer although it was done. `EachNeedStops` is a temporal formula again:
`KeptUndone(f, need)`, that f is not done and no worker is past its lookup of need
with it, holds while the lookup is still to come (`AheadUndone`) and is kept while
the need is not given. There is no such argument for the three needs together,
and no such theorem.

`ServerProofs` proves, from `ServerAssumption` and `ActionsAssumption`:

| Theorem | Statement |
|---|---|
| `ServerActs` | `ServerSpec => Spec` (of `ContextActions`) |
| `LookupsCorrect` | `ServerSpec => []LookupsSucceed` |
| `LanguageSpoken` | `ServerSpec => []SpeaksLanguage` |
| `TracesKept` | `ServerSpec => []TraceKept` |
| `ServerTypeCorrect` | `ServerSpec => []ServerTypeOK` |
| `LanguageIsNegotiated` | `ServerSpec => []LanguageNegotiated` |

By `ServerActs` the server implements `ContextActions`: every step of it is a
step of that module or leaves its variables alone, so the theorems above hold in
it.
`LookupsCorrect` needs that the checks cover what is registered and not
unchecked (`ChecksSuffice`) and that nothing is looked up before they were made.
`LanguageSpoken` needs that a worker has a job only after the negotiation, and
that the language does not change after it. `TracesKept` compares two histories,
what `ContextActions` says was told and what went over the wire; each step
extends both for one frame. `LanguageIsNegotiated` is about the loop over the
header, a fold: `Finds(found, accept, n)` says what n turns of it have found, and
is kept by one more turn (`TriedFinds`), hence holds after all of them
(`HeaderFinds`), for a header of any length. It assumes `LanguageParameters`: `"*"`
is no language, and neither is the absence of one.

`ConnectionStatusProofs` proves type correctness from the assumptions of
`ConnectionStatus`, and the rest also from `OneLine`, that is, one worker serving
one queue that every kind of job goes to. (The run `status_twoworkers` shows that
they fail without it.)

| Theorem | Statement |
|---|---|
| `StatusTypeCorrect` | `Spec => []TypeOK` |
| `ClosedRowsAreOffline` | `OneLine => (Spec => []ClosedIsOffline)` |
| `OnlineRowsHaveNoEnd` | `OneLine => (Spec => []OnlineHasNoEnd)` |
| `LastActionNeverGoesBack` | `OneLine => (Spec => LastActionAdvances)` |
| `LastActionIsFresh` | `OneLine => (Spec => []LastActionFresh)` |

With one line, the jobs of a connection run in the order they were queued, and
each invariant says what that order gives. `LineInv` has three parts: a close
job in the queue is the last of its connection there (`QueuedLast`), one that
runs has none behind it (`RunsLast`), and a row says online until its connection
is gone and has no jobs left, and offline after that unless the close job was
lost (`RowInv`); only the three together survive a step. `OrderInv`: the times along the line, row first, then worker, then queue,
do not decrease, nor pass the clock. `FreshInv`: for each connection that has
been heard there is something on the way, a job or the row, whose time covers
`last_job`, and something whose time is at most the interval behind `heard`;
when no job is left that something is the row, which is `LastActionFresh`.

`TransactionSenderProofs` proves, from `SenderAssumption` and
`PayloadAssumption`:

| Theorem | Statement |
|---|---|
| `SenderTypeCorrect` | `Spec => []TypeOK` |
| `EachSentOnce` | `Spec => []SentOnce` |
| `NoneForgotten` | `Spec => []NothingForgotten` |
| `BatchesAreSound` | `Spec => []BatchesSound` |
| `BatchesAreReadable` | `Spec => []BatchesReadable` |
| `InternalIsKept` | `Spec => []InternalKept` |
| `KeyOrderIsKept` | `Spec => KeyOrderKept` |
| `OutboxImplemented` | `Spec => OutboxSpec` (the refinement of `Outbox`) |

The inductive invariant is `SenderInv`: `TypeOK`, `Holding`, `LeftOnce` (no message
left twice), `AllSound` (`BatchesSound`, and each batch took what it was given) and
`NothingForgotten`. `Holding` says that outside a transaction there is nothing
(`Idle`), that open savepoints are among those created in it (`SidsCreated`), that a
message waits once, in one callable (`HeldOnce`), that there is at most one
sender (`OneSender`), and that what waits was sent, has not left, and was sent
under every open savepoint whose rollback would drop its callable
(`HeldScoped`). The last part is why a rollback drops nothing it should not. The
converse, that it drops all it should, `HeldScoped` says of internal messages
only; for the sender's it is false, which is the finding of `sender_undone`.

What a commit sends is computed, not stepped: `Only`, `FlattenSeq` and `FoldLeft`
over sequences of any length. Their lemmas (`OnlyPicks`, `FlattenElements`,
`FlattenInOrder`, `BatchFold`) say what they return, and give `UnitsFacts`,
`LeaderFacts`, `GroupFacts` and `BatchFacts`: `batch_messages` returns the messages
it was given, each once, those of one key in their order. `BatchesSound` needs
one more argument, `KeyTells`: the key is written without separators, so two messages with
one key may differ in name and channel, but `append` refuses another name, and
of two messages with the same name and key the channel, envelope, state and
`group` are the same too, because the state is at most one letter and is not
the name of an envelope. These are the assumptions that `SenderAssumption` makes
of messages: states are the letters of `MessageStates`, envelope names are words.
`BatchesAreReadable` then follows without another induction over steps. Messages
of one name may differ in their fields; a `Batch2` that was sent took each of
its messages (`Taken`, a part of `AllSound`), so their fields are those of the
first (`FieldsTaken`), and each row, read by the keys of the first, is the
payload of its message. `PayloadAssumption` says that a payload has finitely many fields and that
a list of values is not `None`.

Induction. The provers cannot instantiate the induction theorems of the library,
whose parameter is an operator, and `SequenceFacts` does without: a set of
numbers that has 0 and with each number up to N the next has all of them
(`UpTo`, `FromOneBefore`, from the well-foundedness of the naturals), and
"n is right" is membership in such a set. `RecursionDefined` and `FoldDefined` give
the existence of a function defined by recursion over numbers, or over sets of
positions as the folds of the community modules are. `TransactionSender!Only` is a
recursive function in place of `SelectSeq` for this reason: the prover does not
know what the latter returns.

Only model-checked are the liveness properties (`QueuedAnswered`, `CloseObeyed`,
`RecheckEffective`, `ConnectedIsRecorded`, `CommandAnswered`), which need fairness
and ENABLED and are out of the prover's reach. Every invariant and every action
property of a passing run is a theorem, `MembershipKnown` and `LeftIsRun` under
the conditions above.

## Not modelled, and why

- Of the startup checks, `check_settings_and_import` (types of settings, before
  anything else runs) and `check_registries_names`, whose condition the
  decorators make true.
- The meta data of batches: a batch keeps that of its first message, and
  `group_key` does not look at the trace id. A transaction is
  that of one job, hence of one trace id, unless an application makes messages
  for others in it.
- Binary frames, which `receive` ignores.
- Payload schemas, message classes: data fixed at import.
- Admin, logging, migrations, testing helpers: no behaviour of the running
  system.
- The channel layer's capacity and expiry: outside the repository.

Read, and in the models as the code has them, but without a run of their own,
because what is said and what is done differ by one assignment: `README.md:154`
documents `ENVELOPE_CONNECTION_UPDATE_INTERVAL`, and `websocket.py:76` sets the
interval to 180 s whatever the setting says (`UpdateInterval`); the README gives
`BatchMessage` as the default of `ENVELOPE_BATCH_MESSAGE`, and the code uses
`Batch`; `maybe_update_connection` does not set `last_job`, so that after the
interval every message queues a timestamp job.

## Plan

1. *Done*: `Subscriptions` with `RequestReplies`, its runs and first theorems;
   `TransactionSender` with `Outbox` and the contents of batches;
   `ConnectionStatus` and all of its safety properties as theorems;
   `ContextActions` and its theorems; `Startup`, `Languages`, `Envelopes` and
   their composition in `Server`, with its theorems.
2. *Done*: the refinement `RepliesSpec` and `RequestsAccounted`, `MembershipKnown`
   and `LeftIsRun` for one worker, everything about `TransactionSender`, type
   correctness and language of `Server`; the three lookups of an action, channels
   without a permission, and the fields that `Batch2` refuses.
3. Extend: the meta data of batches in `TransactionSender`.
