--------------------------- MODULE ContextActions ---------------------------
(***************************************************************************)
(* A command from the frame on the websocket to the action on a context:   *)
(* what the consumer makes of a frame (parse, unpack, queue or an error),  *)
(* the job of a ContextAction (the user and the context are looked up, the *)
(* permission is checked, the action writes and replies), its transaction, *)
(* and the errors that are caught, or not, around it.  Each of the three   *)
(* lookups is a query of its own, and others change the database between   *)
(* them: a transaction of the default isolation level hides no commit.     *)
(*                                                                         *)
(* One connection; the answers are recorded when they are sent to it.      *)
(* What becomes of them on the way is in Subscriptions.                    *)
(***************************************************************************)
EXTENDS Naturals, Sequences

CONSTANTS
    Frames,      \* frames the client sends, each with a trace id of its own
    Contexts,    \* objects an action may be about
    Workers,     \* RQ workers
    None,        \* no frame, no context
    Protected,   \* frames of actions that have a permission
    Atomic,      \* frames of actions that run in a transaction
    Unregistered,  \* frames of actions that raise an error of no registry
    Failures,    \* the kinds of failure that can happen
    Changes      \* what others change in the database

ASSUME ActionsAssumption ==
    /\ None \notin Frames \cup Contexts
    /\ Protected \subseteq Frames
    /\ Atomic \subseteq Frames
    /\ Unregistered \subseteq Frames
    /\ Failures \subseteq {"raise", "kill", "layer"}
    /\ Changes \subseteq {"user", "context", "permission"}

VARIABLES
    known,      \* the connection has a user, who exists
    existing,   \* contexts that exist
    granted,    \* contexts the user has the permission for
    open,       \* the connection is open
    used,       \* frames sent
    about,      \* about[f]: the context of a command that was queued
    queue,      \* the RQ queue
    pc,         \* pc[w]: where a worker is in its job
    job,        \* job[w]: the command a worker runs
    applied,    \* commands whose action is in the database
    told,       \* told[f]: what the client was told about f
    stray,      \* frames answered by an error without a trace id
    unsent,     \* commands of which an answer was not taken by the layer
    dropped,    \* commands whose job was killed
    crashed     \* the consumer ended with an exception

database == <<known, existing, granted>>
client   == <<open, used, about>>
worker   == <<pc, job>>
history  == <<stray, unsent, dropped, crashed>>
vars == <<database, client, queue, worker, applied, told, history>>

Answers == {"type", "validation", "unauthorized", "not_found", "bad_request",
            "success", "job"}

(* Where a job can be: the first three are what it looks up next.           *)
Places == {"idle", "user", "context", "permission", "act", "reply", "commit", "status"}

TypeOK ==
    /\ known \in BOOLEAN
    /\ existing \subseteq Contexts
    /\ granted \subseteq Contexts
    /\ open \in BOOLEAN
    /\ used \subseteq Frames
    /\ about \in [Frames -> Contexts \cup {None}]
    /\ queue \in Seq(Frames)
    /\ pc \in [Workers -> Places]
    /\ job \in [Workers -> Frames \cup {None}]
    /\ \A w \in Workers : /\ pc[w] = "idle" <=> job[w] = None
                          /\ pc[w] = "permission" => job[w] \in Protected
                          /\ pc[w] = "commit" => job[w] \in Atomic
                          /\ pc[w] = "reply"  => job[w] \notin Atomic
    /\ applied \subseteq Frames
    /\ told \in [Frames -> Seq(Answers)]
    /\ stray \subseteq Frames
    /\ unsent \subseteq Frames
    /\ dropped \subseteq Frames
    /\ crashed \in BOOLEAN

Init ==
    /\ known \in BOOLEAN
    /\ existing = Contexts
    /\ granted \in SUBSET Contexts
    /\ open = TRUE
    /\ used = {}
    /\ about = [f \in Frames |-> None]
    /\ queue = << >>
    /\ pc = [w \in Workers |-> "idle"]
    /\ job = [w \in Workers |-> None]
    /\ applied = {}
    /\ told = [f \in Frames |-> << >>]
    /\ stray = {}
    /\ unsent = {}
    /\ dropped = {}
    /\ crashed = FALSE

-----------------------------------------------------------------------------
(* The consumer *)

(* A message or an error with this trace id goes to the consumer.          *)
Tell(f, answer) ==
    told' = IF open THEN [told EXCEPT ![f] = Append(@, answer)] ELSE told

Receive(f) ==
    /\ open
    /\ f \notin used
    /\ used' = used \cup {f}
    /\ UNCHANGED <<database, open, worker, applied, unsent, dropped, crashed>>

(* The envelope cannot be parsed: nobody knows the trace id.               *)
ReceiveGarbage(f) ==
    /\ Receive(f)
    /\ stray' = stray \cup {f}
    /\ UNCHANGED <<about, queue, told>>

(* Envelope.unpack: no message of that name, or a payload its schema does  *)
(* not take.                                                               *)
ReceiveInvalid(f) ==
    /\ Receive(f)
    /\ \E answer \in {"type", "validation"} : Tell(f, answer)
    /\ UNCHANGED <<about, queue, stray>>

(* An AsyncRunnable that replies, such as Ping, is run by the consumer.     *)
ReceivePing(f) ==
    /\ Receive(f)
    /\ Tell(f, "success")
    /\ UNCHANGED <<about, queue, stray>>

(* A DeferredJob: queue_deferred_job enqueues it.                          *)
ReceiveCommand(f) ==
    /\ Receive(f)
    /\ \E x \in Contexts : about' = [about EXCEPT ![f] = x]
    /\ queue' = Append(queue, f)
    /\ UNCHANGED <<told, stray>>

Close ==
    /\ open
    /\ open' = FALSE
    /\ UNCHANGED <<database, used, about, queue, worker, applied, told, history>>

-----------------------------------------------------------------------------
(* The workers *)

At(w, where) == pc[w] = where

(* A mistake: a worker goes on to the next job with the last one's message. *)
FinishWithMessage(w) == pc' = [pc EXCEPT ![w] = "idle"] /\ UNCHANGED job

Finish(w) ==
    /\ pc' = [pc EXCEPT ![w] = "idle"]
    /\ job' = [job EXCEPT ![w] = None]

GoTo(w, where) == pc' = [pc EXCEPT ![w] = where]

TakeJob(w) ==
    /\ At(w, "idle")
    /\ queue # << >>
    /\ job' = [job EXCEPT ![w] = Head(queue)]
    /\ queue' = Tail(queue)
    /\ GoTo(w, "user")
    /\ UNCHANGED <<database, client, applied, told, history>>

(* A mistake: an error keeps the trace id it was raised with.              *)
AddressedAsRaised(w, id) == id

(* init_job gives an error that was raised without a trace id the one of   *)
(* its message.                                                            *)
Addressed(w, id) == IF id = None THEN job[w] ELSE id

(* An ErrorMessage leaves run_job, hence the transaction: it is rolled     *)
(* back, and the error is sent at once.                                    *)
Caught(w, answer, id) ==
    LET f == Addressed(w, id) IN
    /\ IF f = None
       THEN stray' = stray \cup {job[w]} /\ UNCHANGED told
       ELSE Tell(f, answer) /\ UNCHANGED stray
    /\ Finish(w)
    /\ UNCHANGED <<database, client, queue, unsent, dropped, crashed>>

(* Message.user: the user is looked up.                                    *)
FindUser(w) ==
    /\ At(w, "user")
    /\ known
    /\ GoTo(w, "context")
    /\ UNCHANGED <<database, client, queue, job, applied, told, history>>

(* A mistake: the permission is not asked for.                             *)
FindContextUnasked(w) ==
    /\ At(w, "context")
    /\ about[job[w]] \in existing
    /\ GoTo(w, "act")
    /\ UNCHANGED <<database, client, queue, job, applied, told, history>>

(* ContextAction.context: the context is looked up, for a user that was    *)
(* found; without a permission that is all.                                *)
FindContext(w) ==
    /\ At(w, "context")
    /\ about[job[w]] \in existing
    /\ GoTo(w, IF job[w] \in Protected THEN "permission" ELSE "act")
    /\ UNCHANGED <<database, client, queue, job, applied, told, history>>

(* It is not there.                                                        *)
NotFound(w) ==
    /\ At(w, "context")
    /\ about[job[w]] \notin existing
    /\ Caught(w, "not_found", job[w])
    /\ UNCHANGED applied

(* allowed() has found a reason to say no: no user, or has_perm.           *)
Denied(w) ==
    \/ At(w, "user") /\ ~known
    \/ At(w, "permission") /\ about[job[w]] \notin granted

(* A mistake: the error is sent, not raised.                               *)
UnauthorizedGoesOn(w) ==
    /\ Denied(w)
    /\ Tell(job[w], "unauthorized")
    /\ GoTo(w, "act")
    /\ UNCHANGED <<database, client, queue, job, applied, history>>

(* assert_perm raises.                                                     *)
Unauthorized(w) ==
    /\ Denied(w)
    /\ Caught(w, "unauthorized", job[w])
    /\ UNCHANGED applied

(* has_perm, for the user and the context that were found: whether they    *)
(* are still there is not asked again.                                     *)
Authorized(w) ==
    /\ At(w, "permission")
    /\ about[job[w]] \in granted
    /\ GoTo(w, "act")
    /\ UNCHANGED <<database, client, queue, job, applied, told, history>>

(* A mistake: no action gets its transaction.                              *)
ActAtOnce(w) ==
    /\ At(w, "act")
    /\ applied' = applied \cup {job[w]}
    /\ GoTo(w, IF job[w] \in Atomic THEN "commit" ELSE "reply")
    /\ UNCHANGED <<database, client, queue, job, told, history>>

(* The action writes: without a transaction, for good.                     *)
Act(w) ==
    /\ At(w, "act")
    /\ applied' = IF job[w] \in Atomic THEN applied ELSE applied \cup {job[w]}
    /\ GoTo(w, IF job[w] \in Atomic THEN "commit" ELSE "reply")
    /\ UNCHANGED <<database, client, queue, job, told, history>>

(* run_job is not over: it has written or not, and without a transaction   *)
(* it may have replied.                                                    *)
InAction(w) == pc[w] \in {"act", "commit", "reply"} \/ (At(w, "status") /\ job[w] \notin Atomic)

(* A mistake: what was written is there although the action gave up.       *)
GiveUpTooLate(w) ==
    /\ InAction(w)
    /\ Caught(w, "bad_request", None)
    /\ applied' = applied \cup {job[w]}

(* The action itself raises an ErrorMessage of its own making, before or   *)
(* after it wrote, and replied if it sends at once.                        *)
GiveUp(w) ==
    /\ InAction(w)
    /\ Caught(w, "bad_request", None)
    /\ UNCHANGED applied

(* What it raises is not in the registry of errors.  That does not matter  *)
(* to the worker that sends it; ws_error_send cannot unpack it, and the    *)
(* exception ends the consumer.                                            *)
GiveUpUnregistered(w) ==
    /\ InAction(w)
    /\ job[w] \in Unregistered
    /\ open' = FALSE
    /\ crashed' = (crashed \/ open)
    /\ Finish(w)
    /\ UNCHANGED <<database, used, about, queue, applied, told, stray, unsent, dropped>>

(* websocket_send without a transaction sends at once.                     *)
Reply(w) ==
    /\ At(w, "reply")
    /\ Tell(job[w], "success")
    /\ GoTo(w, "status")
    /\ UNCHANGED <<database, client, queue, job, applied, history>>

(* With one it sends after the commit.                                     *)
Commit(w) ==
    /\ At(w, "commit")
    /\ applied' = applied \cup {job[w]}
    /\ Tell(job[w], "success")
    /\ GoTo(w, "status")
    /\ UNCHANGED <<database, client, queue, job, history>>

(* The channel layer raises then: the exception leaves atomic(), which has *)
(* committed, and RQ calls handle_failure, whose error may get through.    *)
CommitUnsent(w) ==
    /\ "layer" \in Failures
    /\ At(w, "commit")
    /\ applied' = applied \cup {job[w]}
    /\ unsent' = unsent \cup {job[w]}
    /\ \/ Tell(job[w], "job")
       \/ UNCHANGED told
    /\ Finish(w)
    /\ UNCHANGED <<database, client, queue, stray, dropped, crashed>>

UpdateStatus(w) ==
    /\ At(w, "status")
    /\ Finish(w)
    /\ UNCHANGED <<database, client, queue, applied, told, history>>

(* A mistake: an exception is not reported, as by a job without on_failure. *)
JobRaisesUnreported(w) ==
    /\ "raise" \in Failures
    /\ ~At(w, "idle")
    /\ Finish(w)
    /\ UNCHANGED <<database, client, queue, applied, told, history>>

(* Any other exception, at any point: handle_failure sends a job error,    *)
(* if the layer takes it.                                                  *)
JobRaises(w) ==
    /\ "raise" \in Failures
    /\ ~At(w, "idle")
    /\ \/ Tell(job[w], "job") /\ UNCHANGED unsent
       \/ /\ "layer" \in Failures
          /\ unsent' = unsent \cup {job[w]}
          /\ UNCHANGED told
    /\ Finish(w)
    /\ UNCHANGED <<database, client, queue, applied, stray, dropped, crashed>>

(* Nothing runs after it; a transaction may just have been committed.      *)
HorseKilled(w) ==
    /\ "kill" \in Failures
    /\ ~At(w, "idle")
    /\ dropped' = dropped \cup {job[w]}
    /\ \/ UNCHANGED applied
       \/ At(w, "commit") /\ applied' = applied \cup {job[w]}
    /\ Finish(w)
    /\ UNCHANGED <<database, client, queue, told, stray, unsent, crashed>>

-----------------------------------------------------------------------------
(* Others change the database *)

DeleteUser ==
    /\ "user" \in Changes
    /\ known
    /\ known' = FALSE
    /\ UNCHANGED <<existing, granted, client, queue, worker, applied, told, history>>

DeleteContext ==
    /\ "context" \in Changes
    /\ \E x \in existing : existing' = existing \ {x}
    /\ UNCHANGED <<known, granted, client, queue, worker, applied, told, history>>

ChangePermission ==
    /\ "permission" \in Changes
    /\ \E x \in Contexts :
           granted' = IF x \in granted THEN granted \ {x} ELSE granted \cup {x}
    /\ UNCHANGED <<known, existing, client, queue, worker, applied, told, history>>

-----------------------------------------------------------------------------
RunJob(w) ==
    \/ FindUser(w) \/ FindContext(w) \/ NotFound(w) \/ Unauthorized(w) \/ Authorized(w)
    \/ Act(w) \/ GiveUp(w) \/ GiveUpUnregistered(w)
    \/ Reply(w) \/ Commit(w) \/ UpdateStatus(w)

Next ==
    \/ \E f \in Frames : \/ ReceiveGarbage(f) \/ ReceiveInvalid(f)
                         \/ ReceivePing(f) \/ ReceiveCommand(f)
    \/ Close
    \/ \E w \in Workers : \/ TakeJob(w) \/ RunJob(w)
                          \/ CommitUnsent(w) \/ JobRaises(w) \/ HorseKilled(w)
    \/ DeleteUser \/ DeleteContext \/ ChangePermission

Spec == Init /\ [][Next]_vars

(* The workers run.                                                        *)
FairSpec == Spec /\ \A w \in Workers : WF_vars(TakeJob(w) \/ RunJob(w))

-----------------------------------------------------------------------------
(* What holds *)

Refusals == {"type", "validation", "unauthorized", "not_found", "bad_request"}
Told(f) == {told[f][i] : i \in DOMAIN told[f]}

(* A client that is told its command was refused can rely on it: nothing   *)
(* of it is in the database.  An action without a transaction that gives   *)
(* up may have written before.                                             *)
RefusedHasNoEffect ==
    \A f \in applied :
        Told(f) \cap Refusals # {} => f \notin Atomic /\ Told(f) \cap Refusals = {"bad_request"}

(* The job error of an action in a transaction means that the action was   *)
(* not done, unless the commit was, and said so or could not say so.       *)
JobErrorMeansUndone ==
    \A f \in Atomic \cap applied : told[f] = <<"job">> => f \in unsent

(* A frame has one outcome.  A success can only be followed by a job       *)
(* error, and by the action's own error if it sent the success at once.    *)
OneOutcome ==
    \A f \in Frames :
        \/ Len(told[f]) <= 1
        \/ told[f] = <<"success", "job">>
        \/ told[f] = <<"success", "bad_request">> /\ f \notin Atomic

(* Every error about a frame whose envelope could be parsed carries its    *)
(* trace id, wherever it was raised and whoever made it.                   *)
ErrorsNamed ==
    \A f \in stray : told[f] = << >> /\ about[f] = None

(* What the action of a frame asks for, and whether that is given.         *)
Needs(f) == {"user", "context"} \cup (IF f \in Protected THEN {"permission"} ELSE {})
Given(f, need) ==
    CASE need = "user"       -> known
      [] need = "context"    -> about[f] \in existing
      [] need = "permission" -> about[f] \in granted

(* The lookup of it is still to come.                                      *)
NotPast(need) ==
    CASE need = "user"       -> {"user"}
      [] need = "context"    -> {"user", "context"}
      [] need = "permission" -> {"user", "context", "permission"}
Ahead(f, need) ==
    \/ \E i \in 1 .. Len(queue) : queue[i] = f
    \/ \E w \in Workers : job[w] = f /\ pc[w] \in NotPast(need)

(* Whatever an action asks for and is taken away before it is looked up,   *)
(* for good, keeps the action from being done, however long the command    *)
(* waits and whatever else comes and goes.  That holds of each thing it    *)
(* asks for, and not of all together: a context that is deleted after it   *)
(* was found, and a permission that is given then, make an action that was *)
(* at no time allowed.                                                     *)
WithdrawnNotDone ==
    \A f \in Frames : \A need \in Needs(f) :
        [](Ahead(f, need) /\ []~Given(f, need) => [](f \notin applied))

(* Every queued command is answered, unless its horse is killed, the layer *)
(* does not take the answer or the connection is closed.                   *)
CommandAnswered ==
    \A f \in Frames :
        about[f] # None ~> told[f] # << >> \/ f \in dropped \cup unsent \/ ~open

-----------------------------------------------------------------------------
(* What the documentation says, and the code does not do *)

(* README.md: "Any error or response caused by this message will be        *)
(* returned with the same trace id": unless its client went away.          *)
ErrorsReturned ==
    \A f \in Frames :
        about[f] # None ~> told[f] # << >> \/ f \in dropped \cup unsent
                           \/ (~open /\ ~crashed)
=============================================================================
