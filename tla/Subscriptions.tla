---------------------------- MODULE Subscriptions ----------------------------
(***************************************************************************)
(* The websocket consumers, the deferred subscribe and recheck jobs on the *)
(* RQ queue, the workers that run them, and the groups of the channel      *)
(* layer they all write to.                                                *)
(*                                                                         *)
(* A consumer is an asyncio task that dispatches one event at a time, and  *)
(* everything a handler writes besides the shared groups and the job queue *)
(* is its own: a handler is one action, placed at its write to the groups. *)
(* A worker is another process: its steps are interleaved at every read of *)
(* the permissions and every write to the groups, the transaction's commit *)
(* (when the messages leave) and the bookkeeping after it.                 *)
(***************************************************************************)
EXTENDS Naturals, Sequences, FiniteSets

CONSTANTS
    Users,                  \* users that can log in
    Anonymous,              \* django's AnonymousUser
    Consumers,              \* connections, i.e. the consumers' own channel names
    Owner,                  \* Owner[c]: the user whose session the scope of c carries
    Channels,               \* context channels of the application
    Public,                 \* those of a class whose permission is None
    Requests,               \* trace ids of subscribe commands (a bound)
    Workers,                \* RQ workers
    None,                   \* no request, no channel, no job
    SendSubscribe,          \* ENVELOPE_USER_CHANNEL_SEND_SUBSCRIBE
    AllowUnauthenticated,   \* ENVELOPE_ALLOW_UNAUTHENTICATED
    Failures,               \* the kinds of failure that can happen
    Leaving,                \* consumers whose client sends leave (a bound)
    Changing,               \* users whose permissions change (a bound)
    MaxRechecks             \* how many recheck messages are sent (a bound)

UserChannel(u) == <<"user", u>>
UserChannels   == {UserChannel(u) : u \in Users}
ContextChannel == Channels \cup UserChannels
Guarded        == Channels \ Public

ASSUME ConstantsAssumption ==
    /\ Anonymous \notin Users
    /\ Owner \in [Consumers -> Users]
    /\ Channels \cap UserChannels = {}
    /\ Public \subseteq Channels
    /\ None \notin Requests \cup ContextChannel \cup Consumers
    /\ SendSubscribe \in BOOLEAN
    /\ AllowUnauthenticated \in BOOLEAN
    /\ Failures \subseteq {"crash", "expire", "raise", "kill"}
    /\ Leaving \subseteq Consumers
    /\ Changing \subseteq Users
    /\ MaxRechecks \in Nat

VARIABLES
    session,    \* users with a session
    perm,       \* perm[u]: the guarded channels u has the permission for
    state,      \* state[c]: where the connection is
    user,       \* user[c]: WebsocketConsumer.user_pk
    subs,       \* subs[c]: WebsocketConsumer.subscriptions
    mailbox,    \* mailbox[c]: events the layer holds for c, oldest first
    members,    \* members[ch]: the layer's group of a context channel
    online,     \* the layer's group of the online channel
    queue,      \* the RQ queue
    pc,         \* pc[w]: where a worker is in its job
    job,        \* job[w]: the job a worker runs
    todo,       \* todo[w]: channels of the job not yet looked at
    at,         \* at[w]: channel found forbidden and not yet left
    lefts,      \* lefts[w]: Left messages waiting for the commit
    answers,    \* answers[r]: states the client of r has been told
    asker,      \* asker[r]: the consumer that received r
    dropped,    \* requests whose job is gone without an answer
    rechecks    \* recheck messages sent so far

appVars    == <<session, perm, rechecks>>
connVars   == <<state, user, subs>>
layerVars  == <<members, online>>
workerVars == <<pc, job, todo, at, lefts>>
clientVars == <<answers, asker, dropped>>
vars == <<appVars, connVars, mailbox, layerVars, queue, workerVars, clientVars>>

Event ==
    [type : {"subscribed"}, channel : ContextChannel, request : Requests \cup {None}]
    \cup [type : {"left"}, channel : ContextChannel]
    \cup [type : {"error"}, request : Requests \cup {None}]
    \cup [type : {"batch", "recheck", "close"}]

Job == [kind : {"subscribe", "recheck"}, consumer : Consumers,
        channels : SUBSET ContextChannel, request : Requests \cup {None}]

TypeOK ==
    /\ session \subseteq Users
    /\ perm \in [Users -> SUBSET Guarded]
    /\ state \in [Consumers -> {"new", "connecting", "open", "closing",
                                "denied", "gone", "crashed"}]
    /\ user \in [Consumers -> Users \cup {Anonymous}]
    /\ subs \in [Consumers -> SUBSET ContextChannel]
    /\ mailbox \in [Consumers -> Seq(Event)]
    /\ members \in [ContextChannel -> SUBSET Consumers]
    /\ online \subseteq Consumers
    /\ queue \in Seq(Job)
    /\ pc \in [Workers -> {"idle", "check", "join", "leave", "commit", "status"}]
    /\ job \in [Workers -> Job \cup {None}]
    /\ todo \in [Workers -> SUBSET ContextChannel]
    /\ at \in [Workers -> ContextChannel \cup {None}]
    /\ lefts \in [Workers -> Seq(ContextChannel)]
    /\ answers \in [Requests -> Seq({"queued", "success", "failed"})]
    /\ asker \in [Requests -> Consumers \cup {None}]
    /\ dropped \subseteq Requests
    /\ rechecks \in 0 .. MaxRechecks

Init ==
    /\ session = Users
    /\ perm \in [Users -> SUBSET Guarded]
    /\ state = [c \in Consumers |-> "new"]
    /\ user = [c \in Consumers |-> Anonymous]
    /\ subs = [c \in Consumers |-> {}]
    /\ mailbox = [c \in Consumers |-> << >>]
    /\ members = [ch \in ContextChannel |-> {}]
    /\ online = {}
    /\ queue = << >>
    /\ pc = [w \in Workers |-> "idle"]
    /\ job = [w \in Workers |-> None]
    /\ todo = [w \in Workers |-> {}]
    /\ at = [w \in Workers |-> None]
    /\ lefts = [w \in Workers |-> << >>]
    /\ answers = [r \in Requests |-> << >>]
    /\ asker = [r \in Requests |-> None]
    /\ dropped = {}
    /\ rechecks = 0

-----------------------------------------------------------------------------
(* Helpers *)

(* The consumer's dispatch loop runs: it reads its mailbox and its socket. *)
Listening(c) == state[c] \in {"open", "closing"}

(* Mistakes in allow_subscribe: being logged in is enough; any user may     *)
(* join the channel of any user; a check without a user is no check.       *)
AllowedToUsers(u, ch) == u \in Users \/ ch \in Public
AllowedEveryUserChannel(u, ch) ==
    ch \in Public \/ (u \in Users /\ (ch \in Guarded => ch \in perm[u]))
AllowedWithoutUser(u, ch) ==
    u \in Users => IF ch \in UserChannels THEN ch = UserChannel(u)
                                          ELSE ch \in Public \cup perm[u]

(* allow_subscribe.  The user's channel has its own and looks at the user  *)
(* only; that of a context channel whose class has no permission looks at  *)
(* nobody.                                                                 *)
Allowed(u, ch) ==
    IF ch \in UserChannels THEN u \in Users /\ ch = UserChannel(u)
                           ELSE ch \in Public \/ (u \in Users /\ ch \in perm[u])

(* The channel layer appends to the consumer's own channel; what is sent   *)
(* to a consumer that has ended reaches nobody.                            *)
Deliver(c, events) ==
    mailbox' = IF Listening(c) THEN [mailbox EXCEPT ![c] = @ \o events]
                               ELSE mailbox

(* The answer a client gets for one of its trace ids; a job without a      *)
(* trace id answers nobody.                                                *)
Answer(r, how) ==
    answers' = IF r \in Requests THEN [answers EXCEPT ![r] = Append(@, how)]
                                 ELSE answers

SubscribeJob(c, ch, r) ==
    [kind |-> "subscribe", consumer |-> c, channels |-> {ch}, request |-> r]

RecheckJob(c, chs) ==
    [kind |-> "recheck", consumer |-> c, channels |-> chs, request |-> None]

(* Subscribe.pre_queue and the enqueueing: the consumer lists the channel  *)
(* and tells the client "queued" before anything was checked.              *)
QueueSubscribe(c, ch, r) ==
    /\ subs' = [subs EXCEPT ![c] = @ \cup {ch}]
    /\ Answer(r, "queued")
    /\ queue' = Append(queue, SubscribeJob(c, ch, r))

-----------------------------------------------------------------------------
(* The consumer *)

(* A mistake: a connection without a session gets no user at all.          *)
AuthenticateNobody(c) ==
    /\ state[c] = "new"
    /\ user' = [user EXCEPT ![c] = IF Owner[c] \in session THEN Owner[c] ELSE None]
    /\ state' = [state EXCEPT ![c] = "connecting"]
    /\ UNCHANGED <<appVars, subs, mailbox, layerVars, queue, workerVars, clientVars>>

(* WebsocketConsumer.connect up to the check of the user: get_user reads   *)
(* the session, and user_pk keeps what it read for good.                   *)
Authenticate(c) ==
    /\ state[c] = "new"
    /\ LET u == IF Owner[c] \in session THEN Owner[c] ELSE Anonymous IN
           /\ user' = [user EXCEPT ![c] = u]
           /\ state' = [state EXCEPT ![c] =
                            IF u = Anonymous /\ ~AllowUnauthenticated
                            THEN "denied" ELSE "connecting"]
    /\ UNCHANGED <<appVars, subs, mailbox, layerVars, queue, workerVars, clientVars>>

(* The rest of connect for an anonymous user: accept, and consumer_connected *)
(* whose handlers skip everything that needs a user_pk.                    *)
AcceptAnonymous(c) ==
    /\ state[c] = "connecting"
    /\ user[c] = Anonymous
    /\ state' = [state EXCEPT ![c] = "open"]
    /\ online' = online \cup {c}
    /\ UNCHANGED <<appVars, user, subs, mailbox, members, queue, workerVars, clientVars>>

(* The rest of connect for a user: accept, join the user's channel and     *)
(* list it at once, or through a Subscribe message of the consumer's own,  *)
(* which carries no trace id; join the online channel.                     *)
Accept(c) ==
    LET ch == UserChannel(user[c]) IN
    /\ state[c] = "connecting"
    /\ user[c] # Anonymous
    /\ state' = [state EXCEPT ![c] = "open"]
    /\ members' = [members EXCEPT ![ch] = @ \cup {c}]
    /\ online' = online \cup {c}
    /\ \/ /\ SendSubscribe
          /\ QueueSubscribe(c, ch, None)
       \/ /\ ~SendSubscribe
          /\ subs' = [subs EXCEPT ![c] = @ \cup {ch}]
          /\ UNCHANGED <<queue, answers>>
    /\ UNCHANGED <<appVars, user, mailbox, workerVars, asker, dropped>>

(* A "channel.subscribe" command of the client, with a trace id of its own. *)
ReceiveSubscribe(c) ==
    /\ Listening(c)
    /\ \E ch \in ContextChannel, r \in Requests :
           /\ asker[r] = None
           /\ asker' = [asker EXCEPT ![r] = c]
           /\ QueueSubscribe(c, ch, r)
    /\ UNCHANGED <<appVars, state, user, mailbox, layerVars, workerVars, dropped>>

(* A mistake: the channel goes off the list, the group is not left.        *)
ReceiveLeaveListOnly(c) ==
    /\ c \in Leaving
    /\ Listening(c)
    /\ \E ch \in ContextChannel : subs' = [subs EXCEPT ![c] = @ \ {ch}]
    /\ UNCHANGED <<appVars, state, user, mailbox, layerVars, queue, workerVars, clientVars>>

(* A "channel.leave" command: leave the group, whoever asks; the Left      *)
(* message the consumer sends takes the channel off its list.              *)
ReceiveLeave(c) ==
    /\ c \in Leaving
    /\ Listening(c)
    /\ \E ch \in ContextChannel :
           /\ members' = [members EXCEPT ![ch] = @ \ {c}]
           /\ subs' = [subs EXCEPT ![c] = @ \ {ch}]
    /\ UNCHANGED <<appVars, state, user, mailbox, online, queue, workerVars, clientVars>>

(* The oldest event of the mailbox is of this type, and is taken.          *)
Takes(c, type) ==
    /\ Listening(c)
    /\ mailbox[c] # << >>
    /\ Head(mailbox[c]).type = type
    /\ mailbox' = [mailbox EXCEPT ![c] = Tail(@)]

(* websocket_send of a Subscribed message: its run() lists the channel.    *)
HandleSubscribed(c) ==
    /\ Takes(c, "subscribed")
    /\ subs' = [subs EXCEPT ![c] = @ \cup {Head(mailbox[c]).channel}]
    /\ Answer(Head(mailbox[c]).request, "success")
    /\ UNCHANGED <<appVars, state, user, layerVars, queue, workerVars, asker, dropped>>

(* websocket_send of a Left message: its run() takes the channel off.      *)
HandleLeft(c) ==
    /\ Takes(c, "left")
    /\ subs' = [subs EXCEPT ![c] = @ \ {Head(mailbox[c]).channel}]
    /\ UNCHANGED <<appVars, state, user, layerVars, queue, workerVars, clientVars>>

(* websocket_send of a Batch, which is not an AsyncRunnable: it is passed  *)
(* on to the client and that is all.                                       *)
HandleBatch(c) ==
    /\ Takes(c, "batch")
    /\ UNCHANGED <<appVars, connVars, layerVars, queue, workerVars, clientVars>>

(* ws_error_send: passed on to the client.                                 *)
HandleError(c) ==
    /\ Takes(c, "error")
    /\ Answer(Head(mailbox[c]).request, "failed")
    /\ UNCHANGED <<appVars, connVars, layerVars, queue, workerVars, asker, dropped>>

(* internal_msg of a RecheckChannelSubscriptions: pre_queue copies the     *)
(* list, and a job is queued when there is something on it.                *)
HandleRecheck(c) ==
    /\ Takes(c, "recheck")
    /\ queue' = IF subs[c] = {} THEN queue
                                ELSE Append(queue, RecheckJob(c, subs[c]))
    /\ UNCHANGED <<appVars, connVars, layerVars, workerVars, clientVars>>

(* A mistake: internal_msg does not run what it parsed.                    *)
HandleCloseUnheeded(c) ==
    /\ Takes(c, "close")
    /\ UNCHANGED <<appVars, connVars, layerVars, queue, workerVars, clientVars>>

(* internal_msg of a CloseConnection: the consumer asks the server to      *)
(* close the socket and goes on dispatching until it is told it is closed. *)
HandleClose(c) ==
    /\ Takes(c, "close")
    /\ state' = [state EXCEPT ![c] = "closing"]
    /\ UNCHANGED <<appVars, user, subs, layerVars, queue, workerVars, clientVars>>

(* websocket.disconnect: consumer_closed leaves the user's channel and the *)
(* online channel, and no other; what is left in the mailbox is never read. *)
Disconnect(c) ==
    /\ Listening(c)
    /\ state' = [state EXCEPT ![c] = "gone"]
    /\ members' = IF user[c] = Anonymous THEN members
                  ELSE [members EXCEPT ![UserChannel(user[c])] = @ \ {c}]
    /\ online' = online \ {c}
    /\ mailbox' = [mailbox EXCEPT ![c] = << >>]
    /\ UNCHANGED <<appVars, user, subs, queue, workerVars, clientVars>>

(* An exception no handler catches ends the consumer without disconnect(). *)
Crash(c) ==
    /\ "crash" \in Failures
    /\ Listening(c)
    /\ state' = [state EXCEPT ![c] = "crashed"]
    /\ mailbox' = [mailbox EXCEPT ![c] = << >>]
    /\ UNCHANGED <<appVars, user, subs, layerVars, queue, workerVars, clientVars>>

-----------------------------------------------------------------------------
(* The workers *)

Running(w, kind, where) == pc[w] = where /\ job[w].kind = kind

(* The worker is done with its job, however it ended.                      *)
Finish(w) ==
    /\ pc' = [pc EXCEPT ![w] = "idle"]
    /\ job' = [job EXCEPT ![w] = None]
    /\ todo' = [todo EXCEPT ![w] = {}]
    /\ at' = [at EXCEPT ![w] = None]
    /\ lefts' = [lefts EXCEPT ![w] = << >>]

GoTo(w, where) == pc' = [pc EXCEPT ![w] = where]

(* A mistake: init_job leaves the consumer_name of the error unset.        *)
SendErrorUnaddressed(w) == UNCHANGED mailbox

SendError(w) ==
    Deliver(job[w].consumer, << [type |-> "error", request |-> job[w].request] >>)

TakeJob(w) ==
    /\ pc[w] = "idle"
    /\ queue # << >>
    /\ job' = [job EXCEPT ![w] = Head(queue)]
    /\ todo' = [todo EXCEPT ![w] = Head(queue).channels]
    /\ queue' = Tail(queue)
    /\ GoTo(w, "check")
    /\ UNCHANGED <<appVars, connVars, mailbox, layerVars, at, lefts, clientVars>>

(* Subscribe.ttl: a job that waited too long is dropped from the queue     *)
(* without a callback.  RecheckChannelSubscriptions sets no ttl.           *)
ExpireJob ==
    /\ "expire" \in Failures
    /\ queue # << >>
    /\ Head(queue).kind = "subscribe"
    /\ dropped' = dropped \cup ({Head(queue).request} \cap Requests)
    /\ queue' = Tail(queue)
    /\ UNCHANGED <<appVars, connVars, mailbox, layerVars, workerVars, answers, asker>>

(* Subscribe.run_job: the permission is read ...                           *)
SubscribeAllowed(w) ==
    /\ Running(w, "subscribe", "check")
    /\ \A ch \in todo[w] : Allowed(user[job[w].consumer], ch)
    /\ GoTo(w, "join")
    /\ UNCHANGED <<appVars, connVars, mailbox, layerVars, queue, job, todo, at, lefts,
                   clientVars>>

(* A mistake: the error is sent but not raised.                            *)
SubscribeRefusedGoesOn(w) ==
    /\ Running(w, "subscribe", "check")
    /\ \E ch \in todo[w] : ~Allowed(user[job[w].consumer], ch)
    /\ SendError(w)
    /\ GoTo(w, "join")
    /\ UNCHANGED <<appVars, connVars, layerVars, queue, job, todo, at, lefts, clientVars>>

(* ... or SubscribeError is raised, and init_job sends it outside the      *)
(* transaction it rolls back.                                              *)
SubscribeRefused(w) ==
    /\ Running(w, "subscribe", "check")
    /\ \E ch \in todo[w] : ~Allowed(user[job[w].consumer], ch)
    /\ SendError(w)
    /\ Finish(w)
    /\ UNCHANGED <<appVars, connVars, layerVars, queue, clientVars>>

(* channel.subscribe(): group_add, which no transaction guards.            *)
SubscribeJoin(w) ==
    /\ Running(w, "subscribe", "join")
    /\ members' = [ch \in ContextChannel |->
                      IF ch \in todo[w] THEN members[ch] \cup {job[w].consumer}
                                        ELSE members[ch]]
    /\ GoTo(w, "commit")
    /\ UNCHANGED <<appVars, connVars, mailbox, online, queue, job, todo, at, lefts, clientVars>>

(* The transaction commits and its sender sends Subscribed.                *)
SubscribeCommit(w) ==
    /\ Running(w, "subscribe", "commit")
    /\ \E ch \in todo[w] :
           Deliver(job[w].consumer,
                   << [type |-> "subscribed", channel |-> ch, request |-> job[w].request] >>)
    /\ GoTo(w, "status")
    /\ UNCHANGED <<appVars, connVars, layerVars, queue, job, todo, at, lefts, clientVars>>

(* RecheckChannelSubscriptions.run_job, one channel at a time: still       *)
(* allowed, go on;                                                         *)
RecheckAllowed(w) ==
    /\ Running(w, "recheck", "check")
    /\ \E ch \in todo[w] :
           /\ Allowed(user[job[w].consumer], ch)
           /\ todo' = [todo EXCEPT ![w] = @ \ {ch}]
    /\ UNCHANGED <<appVars, connVars, mailbox, layerVars, queue, pc, job, at, lefts, clientVars>>

(* no longer allowed: leave it ...                                         *)
RecheckRefused(w) ==
    /\ Running(w, "recheck", "check")
    /\ \E ch \in todo[w] :
           /\ ~Allowed(user[job[w].consumer], ch)
           /\ todo' = [todo EXCEPT ![w] = @ \ {ch}]
           /\ at' = [at EXCEPT ![w] = ch]
    /\ GoTo(w, "leave")
    /\ UNCHANGED <<appVars, connVars, mailbox, layerVars, queue, job, lefts, clientVars>>

(* A mistake: the client is told, but the group is not left.               *)
RecheckLeaveToldOnly(w) ==
    /\ Running(w, "recheck", "leave")
    /\ lefts' = [lefts EXCEPT ![w] = Append(@, at[w])]
    /\ at' = [at EXCEPT ![w] = None]
    /\ GoTo(w, "check")
    /\ UNCHANGED <<appVars, connVars, mailbox, layerVars, queue, job, todo, clientVars>>

(* ... and keep a Left message for the commit.                             *)
RecheckLeave(w) ==
    /\ Running(w, "recheck", "leave")
    /\ members' = [members EXCEPT ![at[w]] = @ \ {job[w].consumer}]
    /\ lefts' = [lefts EXCEPT ![w] = Append(@, at[w])]
    /\ at' = [at EXCEPT ![w] = None]
    /\ GoTo(w, "check")
    /\ UNCHANGED <<appVars, connVars, mailbox, online, queue, job, todo, clientVars>>

(* A mistake: a single message is batched too.                             *)
LeftEventsBatched(chs) == IF chs = << >> THEN << >> ELSE << [type |-> "batch"] >>

(* TransactionSender.batch_messages: the Left messages of one job differ   *)
(* in their payload only, and three or more become one Batch.              *)
LeftEvents(chs) ==
    IF Len(chs) < 3 THEN [i \in 1 .. Len(chs) |-> [type |-> "left", channel |-> chs[i]]]
                    ELSE << [type |-> "batch"] >>

RecheckCommit(w) ==
    /\ Running(w, "recheck", "check")
    /\ todo[w] = {}
    /\ Deliver(job[w].consumer, LeftEvents(lefts[w]))
    /\ GoTo(w, "status")
    /\ UNCHANGED <<appVars, connVars, layerVars, queue, job, todo, at, lefts, clientVars>>

(* init_job's else branch: update_connection_status, which is outside the  *)
(* transaction.                                                            *)
UpdateStatus(w) ==
    /\ pc[w] = "status"
    /\ Finish(w)
    /\ UNCHANGED <<appVars, connVars, mailbox, layerVars, queue, clientVars>>

(* Any other exception, job_timeout included, wherever the job is: the     *)
(* transaction rolls back, the groups do not, and RQ calls handle_failure. *)
JobRaises(w) ==
    /\ "raise" \in Failures
    /\ pc[w] # "idle"
    /\ SendError(w)
    /\ Finish(w)
    /\ UNCHANGED <<appVars, connVars, layerVars, queue, clientVars>>

(* The work horse is killed: RQ calls no callback.                         *)
HorseKilled(w) ==
    /\ "kill" \in Failures
    /\ pc[w] # "idle"
    /\ dropped' = dropped \cup ({job[w].request} \cap Requests)
    /\ Finish(w)
    /\ UNCHANGED <<appVars, connVars, mailbox, layerVars, queue, answers, asker>>

-----------------------------------------------------------------------------
(* The application *)

ChangePermission(u) ==
    /\ u \in Changing
    /\ \E ch \in Guarded :
           perm' = [perm EXCEPT ![u] = IF ch \in @ THEN @ \ {ch} ELSE @ \cup {ch}]
    /\ UNCHANGED <<session, rechecks, connVars, mailbox, layerVars, queue, workerVars,
                   clientVars>>

SendRecheck(c) ==
    /\ rechecks < MaxRechecks
    /\ Listening(c)
    /\ rechecks' = rechecks + 1
    /\ Deliver(c, << [type |-> "recheck"] >>)
    /\ UNCHANGED <<session, perm, connVars, layerVars, queue, workerVars, clientVars>>

(* send_close_connection: a close message to every consumer in the group   *)
(* of the user's channel.                                                  *)
Logout(u) ==
    /\ u \in session
    /\ session' = session \ {u}
    /\ mailbox' = [c \in Consumers |->
                      IF Listening(c) /\ c \in members[UserChannel(u)]
                      THEN Append(mailbox[c], [type |-> "close"]) ELSE mailbox[c]]
    /\ UNCHANGED <<perm, rechecks, connVars, layerVars, queue, workerVars, clientVars>>

-----------------------------------------------------------------------------
(* A mistake: no handler for ws.error.send.                                *)
HandleEventButErrors(c) ==
    \/ HandleSubscribed(c) \/ HandleLeft(c) \/ HandleBatch(c)
    \/ HandleRecheck(c) \/ HandleClose(c)

HandleEvent(c) ==
    \/ HandleSubscribed(c) \/ HandleLeft(c) \/ HandleBatch(c)
    \/ HandleError(c) \/ HandleRecheck(c) \/ HandleClose(c)

ConsumerStep(c) ==
    \/ Authenticate(c) \/ AcceptAnonymous(c) \/ Accept(c)
    \/ ReceiveSubscribe(c) \/ ReceiveLeave(c)
    \/ HandleEvent(c)
    \/ Disconnect(c) \/ Crash(c)

RunJob(w) ==
    \/ SubscribeAllowed(w) \/ SubscribeRefused(w) \/ SubscribeJoin(w) \/ SubscribeCommit(w)
    \/ RecheckAllowed(w) \/ RecheckRefused(w) \/ RecheckLeave(w) \/ RecheckCommit(w)
    \/ UpdateStatus(w)

Next ==
    \/ \E c \in Consumers : ConsumerStep(c)
    \/ \E w \in Workers : TakeJob(w) \/ RunJob(w) \/ JobRaises(w) \/ HorseKilled(w)
    \/ ExpireJob
    \/ \E u \in Users : ChangePermission(u) \/ Logout(u)
    \/ \E c \in Consumers : SendRecheck(c)

Spec == Init /\ [][Next]_vars

(* The dispatch loop of a consumer always comes to the oldest event, a     *)
(* socket that was closed is reported as disconnected, and the workers     *)
(* run.  Nothing makes a client send, a user log out or a job fail.        *)
Fairness ==
    /\ \A c \in Consumers :
           /\ WF_vars(HandleEvent(c))
           /\ WF_vars(state[c] = "closing" /\ Disconnect(c))
    /\ \A w \in Workers : WF_vars(TakeJob(w) \/ RunJob(w))

FairSpec == Spec /\ Fairness

-----------------------------------------------------------------------------
(* What holds *)

Ended(c) == state[c] \in {"gone", "crashed"}

(* The job of r waits, is run and has not answered, or has answered and    *)
(* the consumer has not come to it.                                        *)
InQueue(r)  == \E i \in 1 .. Len(queue) : queue[i].request = r
OnWorker(r) == \E w \in Workers : pc[w] \notin {"idle", "status"} /\ job[w].request = r
InMail(r)   == \E i \in 1 .. Len(mailbox[asker[r]]) :
                   /\ mailbox[asker[r]][i].type \in {"subscribed", "error"}
                   /\ mailbox[asker[r]][i].request = r

(* No answer is forgotten: a client that was told "queued" and nothing     *)
(* since has its request in the queue, on a worker or in its consumer's    *)
(* mailbox, unless RQ dropped the job or the connection is over.           *)
RequestsAccounted ==
    \A r \in Requests : answers[r] = <<"queued">> =>
        InQueue(r) \/ OnWorker(r) \/ InMail(r) \/ r \in dropped \/ Ended(asker[r])

(* Nobody but a user's own connections is ever in the group of the user's  *)
(* channel, however subscribe, recheck and connect interleave: it carries  *)
(* the private messages and the order to close.                            *)
PrivateUserChannel ==
    \A u \in Users : \A c \in members[UserChannel(u)] : user[c] = u

(* A connection nobody logged in for may send any subscribe command, and   *)
(* receives from no channel but those that ask for no permission.          *)
AnonymousInPublicOnly ==
    \A ch \in ContextChannel \ Public : \A c \in members[ch] : user[c] # Anonymous

(* What the consumer will have listed about ch when it has read its mail.  *)
Mentions(c, ch) ==
    {i \in 1 .. Len(mailbox[c]) : /\ mailbox[c][i].type \in {"subscribed", "left"}
                                  /\ mailbox[c][i].channel = ch}
WillList(c, ch) ==
    IF Mentions(c, ch) = {} THEN ch \in subs[c]
    ELSE \E i \in Mentions(c, ch) :
             /\ \A j \in Mentions(c, ch) : j <= i
             /\ mailbox[c][i].type = "subscribed"

(* With one worker a live connection is never in a group it will not have  *)
(* on its list: what it is in, it lists now, or once it has read its mail, *)
(* or the worker is about to say so.  A recheck starts from the list.      *)
MembershipKnown ==
    \A c \in Consumers, ch \in ContextChannel :
        Listening(c) /\ c \in members[ch] =>
            \/ WillList(c, ch)
            \/ \E w \in Workers : /\ Running(w, "subscribe", "commit")
                                  /\ job[w].consumer = c
                                  /\ ch \in todo[w]

(* A client's trace id goes through the conversation RequestReplies states. *)
Replies == INSTANCE RequestReplies
RepliesSpec == Replies!Spec

(* A user that never holds the permission a channel asks for is never in   *)
(* it.                                                                     *)
NeverAllowedNeverMember ==
    \A c \in Consumers, ch \in Guarded :
        [](ch \notin perm[Owner[c]]) => [](c \notin members[ch])

(* A queued subscribe is answered, unless RQ drops its job or the          *)
(* connection is over.                                                     *)
QueuedAnswered ==
    \A r \in Requests :
        answers[r] = <<"queued">> ~>
            Len(answers[r]) > 1 \/ r \in dropped \/ (asker[r] # None /\ Ended(asker[r]))

(* A connection that was sent the order to close comes to an end.          *)
CloseObeyed ==
    \A c \in Consumers :
        (\E i \in 1 .. Len(mailbox[c]) : mailbox[c][i].type = "close") ~> Ended(c)

(* With one worker a recheck is final: a channel on the list the consumer  *)
(* queued, whose permission is gone for good, is left and never joined     *)
(* again, by an older subscribe job either.  (A channel that the client    *)
(* left while its subscribe job ran is not on the list and may stay.)      *)
RecheckEffective ==
    \A c \in Consumers, ch \in Guarded :
        /\ \E i \in 1 .. Len(queue) : /\ queue[i].kind = "recheck"
                                      /\ queue[i].consumer = c
                                      /\ ch \in queue[i].channels
        /\ [](ch \notin perm[Owner[c]])
        ~> [](c \notin members[ch])

(* With one worker, what a recheck took the consumer out of goes off its   *)
(* list: once the Left messages are sent, the consumer that reads its mail *)
(* ends up not listing the channel, unless its client subscribed anew.     *)
LeftIsRun ==
    \A w \in Workers, c \in Consumers, ch \in ContextChannel :
        /\ Running(w, "recheck", "status") /\ job[w].consumer = c /\ Listening(c)
        /\ \E i \in 1 .. Len(lefts[w]) : lefts[w][i] = ch
        => \/ ~WillList(c, ch)
           \/ \E i \in 1 .. Len(queue) : /\ queue[i].kind = "subscribe"
                                         /\ queue[i].consumer = c
                                         /\ ch \in queue[i].channels

-----------------------------------------------------------------------------
(* What the documentation and the tests say, and the code does not do *)

(* consumers/websocket.py:48: "The consumer will die shortly after logout". *)
DiesAfterLogout ==
    \A c \in Consumers :
        Listening(c) /\ user[c] # Anonymous /\ user[c] \notin session ~> Ended(c)

(* app/user_channel/tests/test_signals.py, test_disconnect_leaves: a       *)
(* disconnected consumer is not in the group of its user's channel.        *)
DisconnectLeaves ==
    \A c \in Consumers :
        state[c] = "gone" /\ user[c] # Anonymous => c \notin members[UserChannel(user[c])]
=============================================================================
