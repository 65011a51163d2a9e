-------------------------- MODULE ConnectionStatus --------------------------
(***************************************************************************)
(* The Connection table: the jobs a consumer queues when it connects, when *)
(* messages arrive and when it disconnects, the workers that run them, and *)
(* the row update_connection_status writes for the connection.  Only       *)
(* connections with a user queue these jobs.  Time is a clock that counts  *)
(* in parts of the update interval.                                        *)
(***************************************************************************)
EXTENDS Integers, Sequences

CONSTANTS
    Consumers,     \* connections of logged in users
    Workers,       \* RQ workers
    Queues,        \* names of RQ queues
    QueueFor,      \* QueueFor[kind]: the queue of a kind of job, None if unset
    Serves,        \* Serves[w]: the queues a worker listens to
    None,          \* no queue, no row, no time, no job
    Setting,       \* ENVELOPE_CONNECTION_UPDATE_INTERVAL, None if unset
    Fixed,         \* the 180 seconds of WebsocketConsumer.__init__
    MaxTime,       \* how long the clock runs (a bound)
    MaxMessages,   \* websocket messages that arrive (a bound)
    JobsMayFail    \* a job may raise, or its worker may be killed

Kinds == {"connect", "close", "action", "deferred"}

ASSUME StatusAssumption ==
    /\ None \notin Queues \cup Consumers \cup 0 .. MaxTime
    /\ QueueFor \in [Kinds -> Queues \cup {None}]
    /\ QueueFor["connect"] = QueueFor["close"]
    /\ QueueFor["deferred"] # None
    /\ Serves \in [Workers -> SUBSET Queues]
    /\ Setting \in Nat \cup {None}
    /\ Fixed \in Nat /\ MaxTime \in Nat /\ MaxMessages \in Nat
    /\ JobsMayFail \in BOOLEAN

VARIABLES
    clock,      \* now()
    state,      \* state[c]: new, open, gone or crashed
    lastJob,    \* lastJob[c]: WebsocketConsumer.last_job
    received,   \* messages that have arrived
    heard,      \* heard[c]: when the client of c last sent a message (history)
    queue,      \* queue[q]: the jobs on an RQ queue
    running,    \* running[w]: the job a worker has taken
    row,        \* row[c]: the Connection of the consumer's channel name
    lost        \* jobs that ended without writing: nothing runs them again

vars == <<clock, state, lastJob, received, heard, queue, running, row, lost>>

Job  == [kind : Kinds, consumer : Consumers, at : 0 .. MaxTime]
Time == 0 .. MaxTime \cup {None}
Row  == [online : BOOLEAN, offline_at : Time, last_action : Time]

ASSUME NoneApart == None \notin Job /\ None \notin Row

TypeOK ==
    /\ clock \in 0 .. MaxTime
    /\ state \in [Consumers -> {"new", "open", "gone", "crashed"}]
    /\ lastJob \in [Consumers -> 0 .. MaxTime]
    /\ received \in 0 .. MaxMessages
    /\ heard \in [Consumers -> Time]
    /\ queue \in [Queues -> Seq(Job)]
    /\ running \in [Workers -> Job \cup {None}]
    /\ row \in [Consumers -> Row \cup {None}]
    /\ lost \subseteq Kinds \X Consumers

Init ==
    /\ clock = 0
    /\ state = [c \in Consumers |-> "new"]
    /\ lastJob = [c \in Consumers |-> 0]
    /\ received = 0
    /\ heard = [c \in Consumers |-> None]
    /\ queue = [q \in Queues |-> << >>]
    /\ running = [w \in Workers |-> None]
    /\ row = [c \in Consumers |-> None]
    /\ lost = {}

-----------------------------------------------------------------------------
(* The consumer queues jobs *)

(* A mistake: the job does not carry the time it was queued at.            *)
NewJobUndated(kind, c) == [kind |-> kind, consumer |-> c]

NewJob(kind, c) == [kind |-> kind, consumer |-> c, at |-> clock]

(* A mistake: jobs are put in front of the queue.                          *)
QueuedInFront(queues, kind, c) ==
    [q \in Queues |->
        IF q = QueueFor[kind] THEN <<NewJob(kind, c)>> \o queues[q] ELSE queues[q]]

(* The queues after a job of this kind, which may have none.               *)
Queued(queues, kind, c) ==
    [q \in Queues |->
        IF q = QueueFor[kind] THEN Append(queues[q], NewJob(kind, c)) ELSE queues[q]]

(* __init__ sets last_job, whether or not dispatch_connection_job does.    *)
Connect(c) ==
    /\ state[c] = "new"
    /\ state' = [state EXCEPT ![c] = "open"]
    /\ lastJob' = [lastJob EXCEPT ![c] = clock]
    /\ queue' = Queued(queue, "connect", c)
    /\ UNCHANGED <<clock, received, heard, running, row, lost>>

(* WebsocketConsumer.__init__: the setting decides whether there is an     *)
(* interval, not how long it is.                                           *)
UpdateInterval == IF Setting \in {None, 0} THEN None ELSE Fixed

(* maybe_update_connection: the last job is older than the interval.       *)
Stale(c) ==
    /\ UpdateInterval # None
    /\ QueueFor["action"] # None
    /\ clock - lastJob[c] > UpdateInterval

Marked(c) == IF Stale(c) THEN Queued(queue, "action", c) ELSE queue

(* A websocket message, deferred or not, first meets                       *)
(* maybe_update_connection, which leaves last_job as it is, ...            *)
Receive(c) ==
    /\ state[c] = "open"
    /\ received < MaxMessages
    /\ received' = received + 1
    /\ UNCHANGED <<clock, state, running, row, lost>>

(* A mistake: every message counts as a job.                               *)
ReceiveMessageAsJob(c) ==
    /\ Receive(c)
    /\ heard' = [heard EXCEPT ![c] = clock]
    /\ queue' = Marked(c)
    /\ lastJob' = [lastJob EXCEPT ![c] = clock]

ReceiveMessage(c) ==
    /\ Receive(c)
    /\ heard' = [heard EXCEPT ![c] = clock]
    /\ queue' = Marked(c)
    /\ UNCHANGED lastJob

(* ... and then, when it is deferred, queue_deferred_job.                  *)
ReceiveDeferred(c) ==
    /\ Receive(c)
    /\ heard' = [heard EXCEPT ![c] = clock]
    /\ queue' = Queued(Marked(c), "deferred", c)
    /\ lastJob' = [lastJob EXCEPT ![c] = clock]

(* A deferred message the server sends to the consumer (internal_msg, or   *)
(* the Subscribe message of the consumer's own) meets queue_deferred_job   *)
(* only; its job writes the row like the client's.                         *)
ReceiveInternal(c) ==
    /\ Receive(c)
    /\ queue' = Queued(queue, "deferred", c)
    /\ lastJob' = [lastJob EXCEPT ![c] = clock]
    /\ UNCHANGED heard

Disconnect(c) ==
    /\ state[c] = "open"
    /\ state' = [state EXCEPT ![c] = "gone"]
    /\ lastJob' = IF QueueFor["close"] = None THEN lastJob
                  ELSE [lastJob EXCEPT ![c] = clock]
    /\ queue' = Queued(queue, "close", c)
    /\ UNCHANGED <<clock, received, heard, running, row, lost>>

(* A consumer that ends with an exception does not signal consumer_closed. *)
Crash(c) ==
    /\ JobsMayFail
    /\ state[c] = "open"
    /\ state' = [state EXCEPT ![c] = "crashed"]
    /\ UNCHANGED <<clock, lastJob, received, heard, queue, running, row, lost>>

-----------------------------------------------------------------------------
(* The workers run them *)

Take(w) ==
    /\ running[w] = None
    /\ \E q \in Serves[w] :
           /\ queue[q] # << >>
           /\ running' = [running EXCEPT ![w] = Head(queue[q])]
           /\ queue' = [queue EXCEPT ![q] = Tail(@)]
    /\ UNCHANGED <<clock, state, lastJob, received, heard, row, lost>>

NewRow == [online |-> TRUE, offline_at |-> None, last_action |-> None]

(* Mistakes: the close job does not say online=False; it does not say      *)
(* when; only a row that exists is updated.                                *)
UpdatedStillOnline(r, j) ==
    LET old == IF r = None THEN NewRow ELSE r IN
    IF j.kind = "close" THEN [old EXCEPT !.online = TRUE, !.offline_at = j.at]
                        ELSE [old EXCEPT !.online = TRUE, !.last_action = j.at]
UpdatedUndated(r, j) ==
    LET old == IF r = None THEN NewRow ELSE r IN
    IF j.kind = "close" THEN [old EXCEPT !.online = FALSE]
                        ELSE [old EXCEPT !.online = TRUE, !.last_action = j.at]
UpdatedIfThere(r, j) ==
    IF r = None THEN None
    ELSE IF j.kind = "close" THEN [r EXCEPT !.online = FALSE, !.offline_at = j.at]
                             ELSE [r EXCEPT !.online = TRUE, !.last_action = j.at]

(* update_connection_status: what a job says nothing of is left alone, and *)
(* a job that says nothing of "online" says TRUE.                          *)
Updated(r, j) ==
    LET old == IF r = None THEN NewRow ELSE r IN
    IF j.kind = "close" THEN [old EXCEPT !.online = FALSE, !.offline_at = j.at]
                        ELSE [old EXCEPT !.online = TRUE, !.last_action = j.at]

(* update_or_create is one database transaction.  A deferred job writes    *)
(* when it has done what it is for.                                        *)
Write(w) ==
    /\ running[w] # None
    /\ LET j == running[w] IN
           row' = [row EXCEPT ![j.consumer] = Updated(@, j)]
    /\ running' = [running EXCEPT ![w] = None]
    /\ UNCHANGED <<clock, state, lastJob, received, heard, queue, lost>>

(* The job ends and has written nothing.                                   *)
Forget(w) ==
    /\ lost' = lost \cup {<<running[w].kind, running[w].consumer>>}
    /\ running' = [running EXCEPT ![w] = None]
    /\ UNCHANGED <<clock, state, lastJob, received, heard, queue, row>>

(* A deferred job that ends with an error message: init_job has no else.   *)
Refuse(w) ==
    /\ running[w] # None
    /\ running[w].kind = "deferred"
    /\ Forget(w)

(* It raises, or its worker is killed: Connection jobs have no callback, and *)
(* the one of deferred jobs writes no row.                                 *)
Fail(w) ==
    /\ JobsMayFail
    /\ running[w] # None
    /\ Forget(w)

Tick ==
    /\ clock < MaxTime
    /\ clock' = clock + 1
    /\ UNCHANGED <<state, lastJob, received, heard, queue, running, row, lost>>

Next ==
    \/ \E c \in Consumers : \/ Connect(c) \/ Disconnect(c) \/ Crash(c)
                            \/ ReceiveMessage(c) \/ ReceiveDeferred(c) \/ ReceiveInternal(c)
    \/ \E w \in Workers : Take(w) \/ Write(w) \/ Refuse(w) \/ Fail(w)
    \/ Tick

Spec == Init /\ [][Next]_vars

(* Workers take what is queued and end what they took.                     *)
FairSpec == Spec /\ \A w \in Workers : WF_vars(Take(w)) /\ WF_vars(Write(w) \/ Refuse(w))

-----------------------------------------------------------------------------
(* What holds *)

Busy(c) ==
    \/ \E w \in Workers : running[w] # None /\ running[w].consumer = c
    \/ \E q \in Queues : \E i \in 1 .. Len(queue[q]) : queue[q][i].consumer = c

(* Connection's docstring: "marked as online=False when client             *)
(* disconnects".  Once the jobs of a closed connection have run, its row   *)
(* says offline, and says since when, unless the close job was lost.       *)
ClosedIsOffline ==
    \A c \in Consumers :
        state[c] = "gone" /\ ~Busy(c) /\ <<"close", c>> \notin lost =>
            row[c] # None /\ ~row[c].online /\ row[c].offline_at # None

(* The row never says online of a connection it has an offline time of     *)
(* (the FIXME in the docstring: nothing checks it).                        *)
OnlineHasNoEnd ==
    \A c \in Consumers :
        row[c] # None => (row[c].online <=> row[c].offline_at = None)

(* last_action never goes back.                                            *)
LastActionAdvances ==
    [][ \A c \in Consumers :
            row[c] # None /\ row[c].last_action # None =>
                row'[c].last_action >= row[c].last_action ]_vars

(* However messages, deferred or not, fall into the interval, a connection *)
(* whose jobs have all run and have all written is not recorded as idle    *)
(* for longer than it was: last_action is at most the interval older than  *)
(* the client's last message.  Only queued jobs may push last_job on.      *)
LastActionFresh ==
    \A c \in Consumers :
        /\ UpdateInterval # None
        /\ QueueFor["action"] # None /\ QueueFor["connect"] # None
        /\ ~Busy(c) /\ \A k \in Kinds : <<k, c>> \notin lost
        /\ heard[c] # None
        => /\ row[c] # None /\ row[c].last_action # None
           /\ heard[c] - row[c].last_action <= UpdateInterval

(* Every connection is on record in the end, whatever became of it, unless *)
(* the job that says so was lost.                                          *)
ConnectedIsRecorded ==
    \A c \in Consumers :
        state[c] = "open" ~> row[c] # None \/ <<"connect", c>> \in lost
=============================================================================
