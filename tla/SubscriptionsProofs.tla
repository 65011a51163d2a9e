------------------------ MODULE SubscriptionsProofs ------------------------
(***************************************************************************)
(* Theorems about Subscriptions for every set of users, connections,       *)
(* channels, trace ids and workers, every setting and every kind of        *)
(* failure.                                                                *)
(***************************************************************************)
EXTENDS Subscriptions, SequenceTheorems, TLAPS

(* A busy worker holds a job, and knows the channel it is about to leave.  *)
WorkerOK ==
    \A w \in Workers :
        /\ pc[w] # "idle" => job[w] \in Job
        /\ pc[w] = "leave" => at[w] \in ContextChannel

TypeInv == TypeOK /\ WorkerOK

-----------------------------------------------------------------------------
(* Lemmas about the helpers *)

(* The channel layer delivers events to mailboxes, nothing else.           *)
LEMMA DeliverType ==
    ASSUME mailbox \in [Consumers -> Seq(Event)],
           NEW c \in Consumers, NEW events \in Seq(Event), Deliver(c, events)
    PROVE  mailbox' \in [Consumers -> Seq(Event)]
BY DEF Deliver

(* Taking an event leaves mailboxes, and the event taken was an event.     *)
LEMMA TakesType ==
    ASSUME mailbox \in [Consumers -> Seq(Event)],
           NEW c \in Consumers, NEW type, Takes(c, type)
    PROVE  /\ mailbox' \in [Consumers -> Seq(Event)]
           /\ Head(mailbox[c]) \in Event
           /\ Head(mailbox[c]).type = type
BY DEF Takes

(* What the fields of an event are, by its type.                           *)
LEMMA EventFields ==
    ASSUME NEW e \in Event
    PROVE  /\ e.type = "subscribed" => e.channel \in ContextChannel
                                       /\ e.request \in Requests \cup {None}
           /\ e.type = "left" => e.channel \in ContextChannel
           /\ e.type = "error" => e.request \in Requests \cup {None}
BY DEF Event

(* Answering keeps conversations sequences of answers.                     *)
LEMMA AnswerType ==
    ASSUME answers \in [Requests -> Seq({"queued", "success", "failed"})],
           NEW r, NEW how \in {"queued", "success", "failed"}, Answer(r, how)
    PROVE  answers' \in [Requests -> Seq({"queued", "success", "failed"})]
BY DEF Answer

(* A worker that is done holds nothing.                                    *)
LEMMA FinishType ==
    ASSUME TypeInv, NEW w \in Workers, Finish(w)
    PROVE  /\ pc' \in [Workers -> {"idle", "check", "join", "leave", "commit", "status"}]
           /\ job' \in [Workers -> Job \cup {None}]
           /\ todo' \in [Workers -> SUBSET ContextChannel]
           /\ at' \in [Workers -> ContextChannel \cup {None}]
           /\ lefts' \in [Workers -> Seq(ContextChannel)]
           /\ WorkerOK'
BY DEF TypeInv, TypeOK, WorkerOK, Finish

(* What a subscribe command queues is a job.                               *)
LEMMA JobType ==
    ASSUME NEW c \in Consumers, NEW ch \in ContextChannel, NEW r \in Requests \cup {None}
    PROVE  SubscribeJob(c, ch, r) \in Job
BY DEF SubscribeJob, Job

(* Queueing a subscribe command writes a list, a conversation and a job.   *)
LEMMA QueueSubscribeType ==
    ASSUME TypeOK, NEW c \in Consumers, NEW ch \in ContextChannel,
           NEW r \in Requests \cup {None}, QueueSubscribe(c, ch, r)
    PROVE  /\ subs' \in [Consumers -> SUBSET ContextChannel]
           /\ answers' \in [Requests -> Seq({"queued", "success", "failed"})]
           /\ queue' \in Seq(Job)
<1>1. subs' \in [Consumers -> SUBSET ContextChannel]
  BY DEF TypeOK, QueueSubscribe
<1>2. answers' \in [Requests -> Seq({"queued", "success", "failed"})]
  BY DEF TypeOK, QueueSubscribe, Answer
<1>3. queue' \in Seq(Job)
  BY JobType DEF TypeOK, QueueSubscribe
<1> QED BY <1>1, <1>2, <1>3

(* The error of a job is an event.                                         *)
LEMMA ErrorType ==
    ASSUME TypeInv, NEW w \in Workers, pc[w] # "idle", SendError(w)
    PROVE  mailbox' \in [Consumers -> Seq(Event)]
<1>1. job[w] \in Job
  BY DEF TypeInv, WorkerOK
<1>2. [type |-> "error", request |-> job[w].request] \in Event
  BY <1>1 DEF Job, Event
<1>3. << [type |-> "error", request |-> job[w].request] >> \in Seq(Event)
  BY <1>2
<1> QED BY <1>1, <1>3, DeliverType DEF SendError, TypeInv, TypeOK, Job

(* The messages a recheck sends are events.                                *)
LEMMA LeftEventsType ==
    ASSUME NEW chs \in Seq(ContextChannel)
    PROVE  LeftEvents(chs) \in Seq(Event)
<1>1. CASE Len(chs) < 3
  <2>1. \A i \in 1 .. Len(chs) : [type |-> "left", channel |-> chs[i]] \in Event
    BY DEF Event
  <2> QED BY <1>1, <2>1 DEF LeftEvents
<1>2. CASE ~(Len(chs) < 3)
  <2>1. [type |-> "batch"] \in Event
    BY DEF Event
  <2> QED BY <1>2, <2>1 DEF LeftEvents
<1> QED BY <1>1, <1>2

-----------------------------------------------------------------------------
(* Type correctness *)

LEMMA InitTypeInv == Init => TypeInv
BY ConstantsAssumption DEF Init, TypeInv, TypeOK, WorkerOK

(* What the handlers of a consumer leave alone.                            *)
LEMMA ConsumerTypeInv ==
    ASSUME TypeInv, NEW c \in Consumers, ConsumerStep(c)
    PROVE  TypeInv'
<1> USE DEF TypeInv, TypeOK, WorkerOK, vars, appVars, connVars, layerVars, workerVars,
            clientVars
<1>1. CASE Authenticate(c)
  BY <1>1, ConstantsAssumption DEF Authenticate
<1>2. CASE AcceptAnonymous(c)
  BY <1>2 DEF AcceptAnonymous
<1>3. CASE Accept(c)
  <2>1. UserChannel(user[c]) \in ContextChannel
    BY <1>3 DEF Accept, ContextChannel, UserChannels
  <2>2. CASE SendSubscribe
    <3>1. /\ subs' \in [Consumers -> SUBSET ContextChannel]
          /\ answers' \in [Requests -> Seq({"queued", "success", "failed"})]
          /\ queue' \in Seq(Job)
      BY <1>3, <2>1, <2>2, QueueSubscribeType DEF Accept
    <3> QED BY <1>3, <2>1, <3>1 DEF Accept
  <2>3. CASE ~SendSubscribe
    <3>1. /\ members' \in [ContextChannel -> SUBSET Consumers]
          /\ subs' \in [Consumers -> SUBSET ContextChannel]
      <4>1. subs' = [subs EXCEPT ![c] = @ \cup {UserChannel(user[c])}]
        BY <1>3, <2>3 DEF Accept
      <4>2. members' = [members EXCEPT ![UserChannel(user[c])] = @ \cup {c}]
        BY <1>3 DEF Accept
      <4> QED BY <2>1, <4>1, <4>2
    <3> QED BY <1>3, <2>3, <3>1 DEF Accept
  <2> QED BY <2>2, <2>3
<1>4. CASE ReceiveSubscribe(c)
  <2>1. PICK ch \in ContextChannel, r \in Requests :
            asker' = [asker EXCEPT ![r] = c] /\ QueueSubscribe(c, ch, r)
    BY <1>4 DEF ReceiveSubscribe
  <2>2. /\ subs' \in [Consumers -> SUBSET ContextChannel]
        /\ answers' \in [Requests -> Seq({"queued", "success", "failed"})]
        /\ queue' \in Seq(Job)
    BY <2>1, QueueSubscribeType
  <2> QED BY <1>4, <2>1, <2>2 DEF ReceiveSubscribe
<1>5. CASE ReceiveLeave(c)
  BY <1>5 DEF ReceiveLeave
<1>6. CASE HandleSubscribed(c)
  <2>1. /\ mailbox' \in [Consumers -> Seq(Event)]
        /\ Head(mailbox[c]).channel \in ContextChannel
    BY <1>6, TakesType, EventFields DEF HandleSubscribed
  <2> QED BY <1>6, <2>1, AnswerType DEF HandleSubscribed
<1>7. CASE HandleLeft(c)
  BY <1>7, TakesType DEF HandleLeft
<1>8. CASE HandleBatch(c)
  BY <1>8, TakesType DEF HandleBatch
<1>9. CASE HandleError(c)
  BY <1>9, TakesType, AnswerType DEF HandleError
<1>10. CASE HandleRecheck(c)
  <2>1. RecheckJob(c, subs[c]) \in Job
    BY DEF RecheckJob, Job
  <2> QED BY <1>10, <2>1, TakesType DEF HandleRecheck
<1>11. CASE HandleClose(c)
  BY <1>11, TakesType DEF HandleClose
<1>12. CASE Disconnect(c)
  <2>1. members' \in [ContextChannel -> SUBSET Consumers]
    BY <1>12 DEF Disconnect
  <2> QED BY <1>12, <2>1 DEF Disconnect
<1>13. CASE Crash(c)
  BY <1>13 DEF Crash
<1> QED
  BY <1>1, <1>2, <1>3, <1>4, <1>5, <1>6, <1>7, <1>8, <1>9, <1>10, <1>11, <1>12, <1>13
     DEF ConsumerStep, HandleEvent

LEMMA WorkerTypeInv ==
    ASSUME TypeInv, NEW w \in Workers,
           TakeJob(w) \/ RunJob(w) \/ JobRaises(w) \/ HorseKilled(w)
    PROVE  TypeInv'
<1> USE DEF TypeInv, TypeOK, WorkerOK, appVars, connVars, layerVars, clientVars
<1>0. pc[w] # "idle" => job[w] \in Job /\ job[w].consumer \in Consumers
                        /\ job[w].request \in Requests \cup {None}
  BY DEF Job
<1>1. CASE TakeJob(w)
  <2>1. Head(queue) \in Job
    BY <1>1 DEF TakeJob
  <2>2. Head(queue).channels \in SUBSET ContextChannel
    BY <2>1 DEF Job
  <2> QED BY <1>1, <2>1, <2>2 DEF TakeJob, GoTo
<1>2. CASE SubscribeAllowed(w)
  BY <1>2 DEF SubscribeAllowed, Running, GoTo
<1>3. CASE SubscribeRefused(w)
  BY <1>3, ErrorType, FinishType DEF SubscribeRefused, Running
<1>4. CASE SubscribeJoin(w)
  BY <1>0, <1>4 DEF SubscribeJoin, Running, GoTo
<1>5. CASE SubscribeCommit(w)
  <2>1. PICK ch \in todo[w] :
           Deliver(job[w].consumer,
                   << [type |-> "subscribed", channel |-> ch, request |-> job[w].request] >>)
    BY <1>5 DEF SubscribeCommit
  <2>2. << [type |-> "subscribed", channel |-> ch, request |-> job[w].request] >> \in Seq(Event)
    BY <1>0, <1>5, <2>1 DEF SubscribeCommit, Running, Event
  <2>3. mailbox' \in [Consumers -> Seq(Event)]
    BY <1>0, <1>5, <2>1, <2>2, DeliverType DEF SubscribeCommit, Running
  <2> QED BY <1>5, <2>3 DEF SubscribeCommit, Running, GoTo
<1>6. CASE RecheckAllowed(w)
  BY <1>6 DEF RecheckAllowed, Running
<1>7. CASE RecheckRefused(w)
  BY <1>7 DEF RecheckRefused, Running, GoTo
<1>8. CASE RecheckLeave(w)
  BY <1>8 DEF RecheckLeave, Running, GoTo
<1>9. CASE RecheckCommit(w)
  <2>1. mailbox' \in [Consumers -> Seq(Event)]
    BY <1>0, <1>9, LeftEventsType, DeliverType DEF RecheckCommit, Running
  <2> QED BY <1>9, <2>1 DEF RecheckCommit, Running, GoTo
<1>10. CASE UpdateStatus(w)
  BY <1>10, FinishType DEF UpdateStatus
<1>11. CASE JobRaises(w)
  BY <1>11, ErrorType, FinishType DEF JobRaises
<1>12. CASE HorseKilled(w)
  BY <1>12, FinishType DEF HorseKilled
<1> QED
  BY <1>1, <1>2, <1>3, <1>4, <1>5, <1>6, <1>7, <1>8, <1>9, <1>10, <1>11, <1>12 DEF RunJob

(* Every variable keeps its type, and a busy worker keeps its job.         *)
THEOREM TypeCorrect == Spec => [](TypeOK /\ WorkerOK)
<1>1. TypeInv /\ [Next]_vars => TypeInv'
  <2> SUFFICES ASSUME TypeInv, [Next]_vars PROVE TypeInv'
    OBVIOUS
  <2> USE DEF TypeInv, TypeOK, WorkerOK
  <2>1. CASE \E c \in Consumers : ConsumerStep(c)
    BY <2>1, ConsumerTypeInv
  <2>2. CASE \E w \in Workers : TakeJob(w) \/ RunJob(w) \/ JobRaises(w) \/ HorseKilled(w)
    BY <2>2, WorkerTypeInv
  <2>3. CASE ExpireJob
    BY <2>3 DEF ExpireJob, appVars, connVars, layerVars, workerVars
  <2>4. CASE \E u \in Users : ChangePermission(u)
    BY <2>4 DEF ChangePermission, connVars, layerVars, workerVars, clientVars
  <2>5. CASE \E u \in Users : Logout(u)
    <3>1. [type |-> "close"] \in Event
      BY DEF Event
    <3> QED BY <2>5, <3>1 DEF Logout, connVars, layerVars, workerVars, clientVars
  <2>6. CASE \E c \in Consumers : SendRecheck(c)
    <3>1. PICK c \in Consumers : SendRecheck(c)
      BY <2>6
    <3>2. << [type |-> "recheck"] >> \in Seq(Event)
      BY DEF Event
    <3>3. mailbox' \in [Consumers -> Seq(Event)]
      BY <3>1, <3>2, DeliverType DEF SendRecheck
    <3>4. rechecks' \in 0 .. MaxRechecks
      BY <3>1, ConstantsAssumption DEF SendRecheck
    <3> QED BY <3>1, <3>3, <3>4 DEF SendRecheck, connVars, layerVars, workerVars, clientVars
  <2>7. CASE UNCHANGED vars
    BY <2>7 DEF vars, appVars, connVars, layerVars, workerVars, clientVars
  <2> QED BY <2>1, <2>2, <2>3, <2>4, <2>5, <2>6, <2>7 DEF Next
<1> QED BY <1>1, InitTypeInv, PTL DEF Spec, TypeInv

-----------------------------------------------------------------------------
(* Who is in a group.  A membership, a job and a permission check that has  *)
(* passed all outlive the step that made them; what ties them together is   *)
(* that the user of an accepted connection never changes.                   *)

Accepted(c) == state[c] \in {"open", "closing", "gone", "crashed"}

(* c may be in ch: ch asks for nothing, or c has a user, and ch is no other *)
(* user's own channel.                                                      *)
Entitled(c, ch) ==
    \/ ch \in Public
    \/ /\ user[c] \in Users
       /\ ch \in UserChannels => ch = UserChannel(user[c])

MembersEntitled ==
    \A ch \in ContextChannel : \A c \in members[ch] : Accepted(c) /\ Entitled(c, ch)

WorkersEntitled ==
    \A w \in Workers :
        /\ pc[w] # "idle" => Accepted(job[w].consumer)
        /\ Running(w, "subscribe", "join") =>
               \A ch \in todo[w] : Entitled(job[w].consumer, ch)

QueueAccepted == \A i \in 1 .. Len(queue) : Accepted(queue[i].consumer)

MembersInv == MembersEntitled /\ WorkersEntitled /\ QueueAccepted

(* An accepted connection stays one, for the same user.                     *)
LEMMA AcceptedStable ==
    ASSUME TypeInv, [Next]_vars, NEW c \in Consumers, Accepted(c)
    PROVE  Accepted(c)' /\ user'[c] = user[c]
<1> USE DEF Accepted, Listening, appVars, connVars, TypeInv, TypeOK
<1>1. ASSUME NEW d \in Consumers, ConsumerStep(d)
      PROVE  Accepted(c)' /\ user'[c] = user[c]
  BY <1>1 DEF ConsumerStep, HandleEvent, Authenticate, AcceptAnonymous, Accept,
              ReceiveSubscribe, ReceiveLeave, HandleSubscribed, HandleLeft, HandleBatch,
              HandleError, HandleRecheck, HandleClose, Disconnect, Crash, Takes
<1>2. ASSUME NEW w \in Workers, TakeJob(w) \/ RunJob(w) \/ JobRaises(w) \/ HorseKilled(w)
      PROVE  UNCHANGED <<state, user>>
  BY <1>2 DEF RunJob, TakeJob, JobRaises, HorseKilled, SubscribeAllowed, SubscribeRefused,
              SubscribeJoin, SubscribeCommit, RecheckAllowed, RecheckRefused, RecheckLeave,
              RecheckCommit, UpdateStatus
<1>3. ASSUME \/ ExpireJob
             \/ \E u \in Users : ChangePermission(u) \/ Logout(u)
             \/ \E d \in Consumers : SendRecheck(d)
             \/ UNCHANGED vars
      PROVE  UNCHANGED <<state, user>>
  BY <1>3 DEF ExpireJob, ChangePermission, Logout, SendRecheck, vars
<1> QED BY <1>1, <1>2, <1>3 DEF Next

(* Entitlement is a fact about the user, so it lasts as long.               *)
LEMMA EntitledStable ==
    ASSUME TypeInv, [Next]_vars, NEW c \in Consumers, Accepted(c),
           NEW ch \in ContextChannel, Entitled(c, ch)
    PROVE  Entitled(c, ch)'
BY AcceptedStable DEF Entitled

(* Members of the next state are entitled when each was a member before or  *)
(* is accepted and entitled now.                                            *)
LEMMA MembersKept ==
    ASSUME TypeInv, MembersInv, [Next]_vars,
           \A ch \in ContextChannel : \A c \in members'[ch] :
               c \in members[ch] \/ (c \in Consumers /\ Accepted(c)' /\ Entitled(c, ch)')
    PROVE  MembersEntitled'
<1> SUFFICES ASSUME NEW ch \in ContextChannel, NEW c \in members'[ch]
             PROVE  Accepted(c)' /\ Entitled(c, ch)'
  BY DEF MembersEntitled
<1>1. CASE c \in members[ch]
  <2>1. c \in Consumers /\ Accepted(c) /\ Entitled(c, ch)
    BY <1>1 DEF MembersInv, MembersEntitled, TypeInv, TypeOK
  <2> QED BY <2>1, AcceptedStable, EntitledStable
<1>2. CASE c \notin members[ch]
  BY <1>2
<1> QED BY <1>1, <1>2

(* The queue of the next state is in order when every job was on it, or is  *)
(* for a connection that is accepted now.                                   *)
LEMMA QueueKept ==
    ASSUME TypeInv, MembersInv, [Next]_vars,
           \A i \in 1 .. Len(queue') :
               \/ \E j \in 1 .. Len(queue) : queue'[i] = queue[j]
               \/ Accepted(queue[i].consumer)'
    PROVE  QueueAccepted'
<1>1. \A d \in Consumers : Accepted(d) => Accepted(d)'
  BY AcceptedStable
<1>2. \A j \in 1 .. Len(queue) : queue[j].consumer \in Consumers /\ Accepted(queue[j].consumer)
  <2> SUFFICES ASSUME NEW j \in 1 .. Len(queue)
               PROVE  queue[j].consumer \in Consumers /\ Accepted(queue[j].consumer)
    OBVIOUS
  <2>1. queue[j] \in Job
    BY DEF TypeInv, TypeOK
  <2> QED BY <2>1 DEF MembersInv, QueueAccepted, Job
<1>3. \A i \in 1 .. Len(queue') : Accepted(queue[i].consumer)'
  BY <1>1, <1>2 DEF Accepted
<1> QED BY <1>3 DEF QueueAccepted

(* The workers of the next state are in order when each kept its job and is *)
(* not newly past the permission check.                                     *)
LEMMA WorkersKept ==
    ASSUME TypeInv, MembersInv, [Next]_vars,
           \A w \in Workers :
               \/ pc'[w] = "idle"
               \/ /\ pc[w] # "idle" /\ job'[w] = job[w]
                  /\ pc'[w] = "join" => pc[w] = "join" /\ todo'[w] = todo[w]
    PROVE  WorkersEntitled'
<1> SUFFICES ASSUME NEW w \in Workers
             PROVE  /\ pc'[w] # "idle" => Accepted(job[w].consumer)'
                    /\ Running(w, "subscribe", "join")' =>
                           \A ch \in todo'[w] : Entitled(job[w].consumer, ch)'
  BY DEF WorkersEntitled
<1>1. CASE pc'[w] = "idle"
  BY <1>1 DEF Running
<1>2. CASE pc'[w] # "idle"
  <2>1. pc[w] # "idle" /\ job'[w] = job[w] /\ job[w].consumer \in Consumers
    BY <1>2 DEF TypeInv, WorkerOK, Job
  <2>2. Accepted(job[w].consumer)
    BY <2>1 DEF MembersInv, WorkersEntitled
  <2>3. Accepted(job[w].consumer)' /\ user'[job[w].consumer] = user[job[w].consumer]
    BY <2>1, <2>2, AcceptedStable DEF Accepted
  <2>4. Running(w, "subscribe", "join")' =>
            \A ch \in todo'[w] : Entitled(job[w].consumer, ch)
    BY <1>2, <2>1 DEF MembersInv, WorkersEntitled, Running
  <2> QED BY <2>1, <2>3, <2>4 DEF Accepted, Entitled
<1> QED BY <1>1, <1>2

(* What an Append or a Tail leaves on the queue.                            *)
LEMMA QueueShapes ==
    ASSUME TypeInv
    PROVE  /\ \A j \in Job : queue' = Append(queue, j) =>
                  \A i \in 1 .. Len(queue') :
                      \/ \E k \in 1 .. Len(queue) : queue'[i] = queue[k]
                      \/ queue'[i] = j
           /\ queue # << >> /\ queue' = Tail(queue) =>
                  \A i \in 1 .. Len(queue') :
                      \E k \in 1 .. Len(queue) : queue'[i] = queue[k]
<1> USE DEF TypeInv, TypeOK
<1>1. ASSUME NEW j \in Job, queue' = Append(queue, j), NEW i \in 1 .. Len(queue')
      PROVE  \/ \E k \in 1 .. Len(queue) : queue'[i] = queue[k]
             \/ queue'[i] = j
  <2>1. CASE i = Len(queue) + 1
    BY <1>1, <2>1
  <2>2. CASE i # Len(queue) + 1
    <3>1. i \in 1 .. Len(queue) /\ queue'[i] = queue[i]
      BY <1>1, <2>2
    <3> QED BY <3>1
  <2> QED BY <2>1, <2>2
<1>2. ASSUME queue # << >>, queue' = Tail(queue), NEW i \in 1 .. Len(queue')
      PROVE  \E k \in 1 .. Len(queue) : queue'[i] = queue[k]
  <2>1. i + 1 \in 1 .. Len(queue) /\ queue'[i] = queue[i + 1]
    BY <1>2
  <2> QED BY <2>1
<1> QED BY <1>1, <1>2

(* The steps that write neither the groups nor the queue nor a worker.      *)
LEMMA MembersFrame ==
    ASSUME TypeInv, MembersInv, [Next]_vars,
           UNCHANGED <<members, queue, pc, job, todo>>
    PROVE  MembersInv'
<1>1. MembersEntitled'
  BY MembersKept
<1>2. QueueAccepted'
  BY QueueKept
<1>3. WorkersEntitled'
  BY WorkersKept
<1> QED BY <1>1, <1>2, <1>3 DEF MembersInv

LEMMA ConsumerMembers ==
    ASSUME TypeInv, MembersInv, NEW c \in Consumers, ConsumerStep(c)
    PROVE  MembersInv'
<1>0. [Next]_vars
  BY DEF Next
<1>1. ASSUME UNCHANGED <<pc, job, todo>>
      PROVE  WorkersEntitled'
  BY <1>0, <1>1, WorkersKept
<1>2. CASE Accept(c)
  <2>1. state'[c] = "open" /\ UNCHANGED user
    BY <1>2 DEF Accept, TypeInv, TypeOK
  <2>2. user[c] \in Users
    BY <1>2 DEF Accept, TypeInv, TypeOK
  <2>3. MembersEntitled'
    <3>1. \A ch \in ContextChannel : \A d \in members'[ch] :
              d \in members[ch] \/ (d = c /\ ch = UserChannel(user[c]))
      BY <1>2 DEF Accept, TypeInv, TypeOK
    <3>2. Accepted(c)' /\ Entitled(c, UserChannel(user[c]))'
      BY <2>1, <2>2 DEF Accepted, Entitled
    <3>3. \A ch \in ContextChannel : \A d \in members'[ch] :
              d \in members[ch] \/ (d \in Consumers /\ Accepted(d)' /\ Entitled(d, ch)')
      BY <2>1, <3>1, <3>2 DEF Entitled
    <3> QED BY <1>0, <3>3, MembersKept
  <2>4. QueueAccepted'
    <3>1. CASE UNCHANGED queue
      BY <1>0, <3>1, QueueKept
    <3>2. CASE ~UNCHANGED queue
      <4> DEFINE j == SubscribeJob(c, UserChannel(user[c]), None)
      <4>1. UserChannel(user[c]) \in ContextChannel
        BY <2>2 DEF ContextChannel, UserChannels
      <4>2. queue' = Append(queue, j)
        BY <1>2, <3>2 DEF Accept, QueueSubscribe
      <4>3. j \in Job
        BY <4>1, JobType
      <4>4. \A i \in 1 .. Len(queue') :
                (\E k \in 1 .. Len(queue) : queue'[i] = queue[k]) \/ queue'[i] = j
        BY <4>2, <4>3, QueueShapes
      <4>5. j.consumer = c
        BY DEF SubscribeJob
      <4> HIDE DEF j
      <4>6. \A i \in 1 .. Len(queue') :
                (\E k \in 1 .. Len(queue) : queue'[i] = queue[k])
                \/ Accepted(queue[i].consumer)'
        BY <2>1, <4>4, <4>5 DEF Accepted
      <4> QED BY <1>0, <4>6, QueueKept
    <3> QED BY <3>1, <3>2
  <2> QED BY <1>1, <1>2, <2>3, <2>4 DEF Accept, workerVars, MembersInv
<1>3. ASSUME NEW j \in Job, queue' = Append(queue, j), j.consumer = c, Listening(c),
             UNCHANGED <<members, pc, job, todo, state>>
      PROVE  MembersInv'
  <2>1. \A i \in 1 .. Len(queue') :
            (\E k \in 1 .. Len(queue) : queue'[i] = queue[k]) \/ queue'[i] = j
    BY <1>3, QueueShapes
  <2>2. \A i \in 1 .. Len(queue') :
            (\E k \in 1 .. Len(queue) : queue'[i] = queue[k])
            \/ Accepted(queue[i].consumer)'
    BY <1>3, <2>1 DEF Accepted, Listening
  <2>3. QueueAccepted'
    BY <1>0, <2>2, QueueKept
  <2>4. MembersEntitled'
    BY <1>0, <1>3, MembersKept
  <2> QED BY <1>1, <1>3, <2>3, <2>4 DEF MembersInv
<1>4. CASE ReceiveSubscribe(c)
  <2>1. PICK ch \in ContextChannel, r \in Requests : QueueSubscribe(c, ch, r)
    BY <1>4 DEF ReceiveSubscribe
  <2>2. SubscribeJob(c, ch, r) \in Job /\ SubscribeJob(c, ch, r).consumer = c
    BY <2>1, JobType DEF SubscribeJob
  <2> QED
    BY <1>3, <1>4, <2>1, <2>2 DEF ReceiveSubscribe, QueueSubscribe, layerVars, workerVars
<1>5. CASE HandleRecheck(c)
  <2>1. RecheckJob(c, subs[c]) \in Job /\ RecheckJob(c, subs[c]).consumer = c
    BY DEF RecheckJob, Job, TypeInv, TypeOK
  <2>2. CASE UNCHANGED queue
    BY <1>0, <1>5, <2>2, MembersFrame DEF HandleRecheck, layerVars, workerVars
  <2>3. CASE ~UNCHANGED queue
    BY <1>3, <1>5, <2>1, <2>3
       DEF HandleRecheck, Takes, connVars, layerVars, workerVars
  <2> QED BY <2>2, <2>3
<1>6. CASE ReceiveLeave(c) \/ Disconnect(c)
  <2>1. UNCHANGED <<queue, pc, job, todo>>
    BY <1>6 DEF ReceiveLeave, Disconnect, workerVars
  <2>2. \A ch \in ContextChannel : members'[ch] \subseteq members[ch]
    <3>1. CASE ReceiveLeave(c)
      BY <3>1 DEF ReceiveLeave, TypeInv, TypeOK
    <3>2. CASE Disconnect(c)
      <4>1. \/ members' = members
            \/ members' = [members EXCEPT ![UserChannel(user[c])] = @ \ {c}]
        BY <3>2 DEF Disconnect
      <4>2. members \in [ContextChannel -> SUBSET Consumers]
        BY DEF TypeInv, TypeOK
      <4> QED BY <4>1, <4>2
    <3> QED BY <1>6, <3>1, <3>2
  <2>3. MembersEntitled'
    BY <1>0, <2>2, MembersKept
  <2>4. QueueAccepted'
    BY <1>0, <2>1, QueueKept
  <2> QED BY <1>1, <2>1, <2>3, <2>4 DEF MembersInv
<1>7. CASE ~(Accept(c) \/ ReceiveSubscribe(c) \/ HandleRecheck(c) \/ ReceiveLeave(c)
             \/ Disconnect(c))
  <2>1. UNCHANGED <<members, queue, pc, job, todo>>
    BY <1>7 DEF ConsumerStep, HandleEvent, Authenticate, AcceptAnonymous, HandleSubscribed,
                HandleLeft, HandleBatch, HandleError, HandleClose, Crash, layerVars, workerVars
  <2> QED BY <1>0, <2>1, MembersFrame
<1> QED BY <1>2, <1>4, <1>5, <1>6, <1>7

LEMMA WorkerMembers ==
    ASSUME TypeInv, MembersInv, NEW w \in Workers,
           TakeJob(w) \/ RunJob(w) \/ JobRaises(w) \/ HorseKilled(w)
    PROVE  MembersInv'
<1>0. [Next]_vars
  BY DEF Next
<1>1. ASSUME UNCHANGED queue
      PROVE  QueueAccepted'
  BY <1>0, <1>1, QueueKept
<1>2. ASSUME \A ch \in ContextChannel : members'[ch] \subseteq members[ch]
      PROVE  MembersEntitled'
  BY <1>0, <1>2, MembersKept
<1>3. CASE TakeJob(w)
  <2>1. QueueAccepted'
    BY <1>0, <1>3, QueueShapes, QueueKept DEF TakeJob
  <2>2. MembersEntitled'
    BY <1>2, <1>3 DEF TakeJob, layerVars
  <2>3. Accepted(Head(queue).consumer) /\ UNCHANGED state
    <3>1. 1 \in 1 .. Len(queue) /\ Head(queue) = queue[1]
      BY <1>3 DEF TakeJob, TypeInv, TypeOK
    <3> QED BY <1>3, <3>1 DEF MembersInv, QueueAccepted, TakeJob, connVars
  <2>4. WorkersEntitled'
    <3> SUFFICES ASSUME NEW v \in Workers
                 PROVE  /\ pc'[v] # "idle" => Accepted(job[v].consumer)'
                        /\ Running(v, "subscribe", "join")' =>
                               \A ch \in todo'[v] : Entitled(job[v].consumer, ch)'
      BY DEF WorkersEntitled
    <3>1. CASE v = w
      <4>1. pc'[v] = "check" /\ job'[v] = Head(queue)
        BY <1>3, <3>1 DEF TakeJob, GoTo, TypeInv, TypeOK
      <4> QED BY <2>3, <4>1 DEF Running, Accepted
    <3>2. CASE v # w
      <4>1. /\ pc'[v] = pc[v] /\ job'[v] = job[v] /\ todo'[v] = todo[v]
            /\ UNCHANGED <<state, user>>
        BY <1>3, <3>2 DEF TakeJob, GoTo, connVars, TypeInv, TypeOK
      <4>2. Accepted(job[v].consumer) <=> Accepted(job[v].consumer)'
        BY <4>1 DEF Accepted
      <4>3. \A ch : Entitled(job[v].consumer, ch) => Entitled(job[v].consumer, ch)'
        BY <4>1 DEF Entitled
      <4> QED BY <4>1, <4>2, <4>3 DEF MembersInv, WorkersEntitled, Running
    <3> QED BY <3>1, <3>2
  <2> QED BY <2>1, <2>2, <2>4 DEF MembersInv
<1>4. CASE SubscribeAllowed(w)
  <2>1. UNCHANGED <<members, queue, state, user, job, todo>> /\ pc' = [pc EXCEPT ![w] = "join"]
    BY <1>4 DEF SubscribeAllowed, GoTo, connVars, layerVars
  <2>2. \A ch \in todo[w] : Entitled(job[w].consumer, ch)
    BY <1>4 DEF SubscribeAllowed, Allowed, Entitled
  <2>3. Accepted(job[w].consumer)
    BY <1>4 DEF SubscribeAllowed, Running, MembersInv, WorkersEntitled
  <2>4. WorkersEntitled'
    <3> SUFFICES ASSUME NEW v \in Workers
                 PROVE  /\ pc'[v] # "idle" => Accepted(job[v].consumer)'
                        /\ Running(v, "subscribe", "join")' =>
                               \A ch \in todo'[v] : Entitled(job[v].consumer, ch)'
      BY DEF WorkersEntitled
    <3>1. Accepted(job[v].consumer) <=> Accepted(job[v].consumer)'
      BY <2>1 DEF Accepted
    <3>2. \A ch : Entitled(job[v].consumer, ch) => Entitled(job[v].consumer, ch)'
      BY <2>1 DEF Entitled
    <3>3. CASE v = w
      BY <2>1, <2>2, <2>3, <3>1, <3>2, <3>3
    <3>4. CASE v # w
      <4>1. pc'[v] = pc[v]
        BY <2>1, <3>4 DEF TypeInv, TypeOK
      <4> QED BY <2>1, <3>1, <3>2, <4>1 DEF MembersInv, WorkersEntitled, Running
    <3> QED BY <3>3, <3>4
  <2> QED BY <1>1, <1>2, <2>1, <2>4 DEF MembersInv
<1>5. CASE SubscribeJoin(w)
  <2>1. /\ job[w].consumer \in Consumers /\ Accepted(job[w].consumer)
        /\ \A ch \in todo[w] : Entitled(job[w].consumer, ch)
        /\ UNCHANGED <<state, user>>
    BY <1>5 DEF SubscribeJoin, Running, MembersInv, WorkersEntitled, TypeInv, WorkerOK, Job,
                connVars
  <2>2. \A ch \in ContextChannel : \A c \in members'[ch] :
            c \in members[ch] \/ (c = job[w].consumer /\ ch \in todo[w])
    BY <1>5 DEF SubscribeJoin
  <2>3. \A ch \in ContextChannel : \A c \in members'[ch] :
            c \in members[ch] \/ (c \in Consumers /\ Accepted(c)' /\ Entitled(c, ch)')
    BY <2>1, <2>2 DEF Accepted, Entitled
  <2>4. MembersEntitled'
    BY <1>0, <2>3, MembersKept
  <2>5. WorkersEntitled'
    BY <1>0, <1>5, WorkersKept DEF SubscribeJoin, Running, GoTo, TypeInv, TypeOK
  <2> QED BY <1>1, <1>5, <2>4, <2>5 DEF SubscribeJoin, MembersInv
<1>6. CASE SubscribeRefused(w) \/ UpdateStatus(w) \/ JobRaises(w) \/ HorseKilled(w)
  <2>1. Finish(w) /\ UNCHANGED <<members, queue>>
    BY <1>6 DEF SubscribeRefused, UpdateStatus, JobRaises, HorseKilled, layerVars
  <2>2. \A v \in Workers :
            \/ pc'[v] = "idle"
            \/ pc'[v] = pc[v] /\ job'[v] = job[v] /\ todo'[v] = todo[v]
    BY <2>1 DEF Finish, TypeInv, TypeOK
  <2>3. WorkersEntitled'
    BY <1>0, <2>2, WorkersKept
  <2> QED BY <1>1, <1>2, <2>1, <2>3 DEF MembersInv
<1>7. CASE SubscribeCommit(w) \/ RecheckAllowed(w) \/ RecheckRefused(w) \/ RecheckLeave(w)
           \/ RecheckCommit(w)
  <2>1. UNCHANGED <<queue, job>>
    BY <1>7 DEF SubscribeCommit, RecheckAllowed, RecheckRefused, RecheckLeave, RecheckCommit
  <2>2. \A ch \in ContextChannel : members'[ch] \subseteq members[ch]
    <3>1. CASE RecheckLeave(w)
      <4>1. members' = [members EXCEPT ![at[w]] = @ \ {job[w].consumer}]
        BY <3>1 DEF RecheckLeave
      <4> QED BY <4>1 DEF TypeInv, TypeOK
    <3>2. CASE ~RecheckLeave(w)
      BY <1>7, <3>2 DEF SubscribeCommit, RecheckAllowed, RecheckRefused, RecheckCommit, layerVars
    <3> QED BY <3>1, <3>2
  <2>3. \A v \in Workers :
            \/ pc'[v] = "idle"
            \/ /\ pc[v] # "idle"
               /\ pc'[v] = "join" => pc[v] = "join" /\ todo'[v] = todo[v]
    BY <1>7 DEF SubscribeCommit, RecheckAllowed, RecheckRefused, RecheckLeave, RecheckCommit,
                Running, GoTo, TypeInv, TypeOK
  <2>4. WorkersEntitled'
    BY <1>0, <2>1, <2>3, WorkersKept
  <2> QED BY <1>1, <1>2, <2>1, <2>2, <2>4 DEF MembersInv
<1> QED BY <1>3, <1>4, <1>5, <1>6, <1>7 DEF RunJob

LEMMA MembersStep == TypeInv /\ MembersInv /\ [Next]_vars => MembersInv'
<1> SUFFICES ASSUME TypeInv, MembersInv, [Next]_vars PROVE MembersInv'
  OBVIOUS
<1>1. CASE ExpireJob
  <2>1. QueueAccepted'
    BY <1>1, QueueShapes, QueueKept DEF ExpireJob
  <2>2. MembersEntitled'
    BY <1>1, MembersKept DEF ExpireJob, layerVars
  <2>3. WorkersEntitled'
    BY <1>1, WorkersKept DEF ExpireJob, workerVars
  <2> QED BY <2>1, <2>2, <2>3 DEF MembersInv
<1>2. CASE \/ \E u \in Users : ChangePermission(u) \/ Logout(u)
           \/ \E c \in Consumers : SendRecheck(c)
           \/ UNCHANGED vars
  <2>1. UNCHANGED <<members, queue, pc, job, todo>>
    BY <1>2 DEF ChangePermission, Logout, SendRecheck, vars, layerVars, workerVars
  <2> QED BY <2>1, MembersFrame
<1> QED BY <1>1, <1>2, ConsumerMembers, WorkerMembers DEF Next

LEMMA MembersInvariant == Spec => []MembersInv
<1>1. Init => MembersInv
  BY DEF Init, MembersInv, MembersEntitled, WorkersEntitled, QueueAccepted, Running
<1> QED BY <1>1, MembersStep, TypeCorrect, PTL DEF Spec, TypeInv

(* Nobody but the user's own connections is ever in the group of a user's   *)
(* channel, for any number of users, connections and workers and whatever   *)
(* fails.                                                                   *)
THEOREM UserChannelsPrivate == Spec => []PrivateUserChannel
<1>1. MembersInv => PrivateUserChannel
  <2> SUFFICES ASSUME MembersInv, NEW u \in Users, NEW c \in members[UserChannel(u)]
               PROVE  user[c] = u
    BY DEF PrivateUserChannel
  <2>1. /\ UserChannel(u) \in ContextChannel /\ UserChannel(u) \in UserChannels
        /\ UserChannel(u) \notin Public
    BY ConstantsAssumption DEF ContextChannel, UserChannels
  <2>2. UserChannel(u) = UserChannel(user[c])
    BY <2>1 DEF MembersInv, MembersEntitled, Entitled
  <2> QED BY <2>2 DEF UserChannel
<1> QED BY <1>1, MembersInvariant, PTL

(* An anonymous connection is in no group but those of the channels that    *)
(* ask for no permission, which the code lets it join.                      *)
THEOREM AnonymousKeptOut == Spec => []AnonymousInPublicOnly
<1>1. MembersInv => AnonymousInPublicOnly
  BY ConstantsAssumption DEF MembersInv, MembersEntitled, Entitled, AnonymousInPublicOnly
<1> QED BY <1>1, MembersInvariant, PTL

-----------------------------------------------------------------------------
(* A permission that is never given *)

(* c is not in ch, and no worker has let it pass for ch.                    *)
KeptOut(c, ch) ==
    /\ c \notin members[ch]
    /\ \A w \in Workers :
           Running(w, "subscribe", "join") /\ job[w].consumer = c => ch \notin todo[w]

(* The user of a connection is its owner, or nobody.                        *)
OwnerOrNobody == \A c \in Consumers : user[c] \in {Anonymous, Owner[c]}

LEMMA OwnerStep == TypeInv /\ OwnerOrNobody /\ [Next]_vars => OwnerOrNobody'
<1> SUFFICES ASSUME TypeInv, OwnerOrNobody, [Next]_vars PROVE OwnerOrNobody'
  OBVIOUS
<1> USE DEF OwnerOrNobody, appVars, connVars
<1>1. ASSUME NEW c \in Consumers, Authenticate(c)
      PROVE  OwnerOrNobody'
  BY <1>1 DEF Authenticate, TypeInv, TypeOK
<1>2. ASSUME NEW c \in Consumers, ConsumerStep(c), ~Authenticate(c)
      PROVE  UNCHANGED user
  BY <1>2 DEF ConsumerStep, HandleEvent, AcceptAnonymous, Accept,
              ReceiveSubscribe, ReceiveLeave, HandleSubscribed, HandleLeft, HandleBatch,
              HandleError, HandleRecheck, HandleClose, Disconnect, Crash
<1>3. ASSUME \/ \E w \in Workers : TakeJob(w) \/ RunJob(w) \/ JobRaises(w) \/ HorseKilled(w)
             \/ ExpireJob
             \/ \E u \in Users : ChangePermission(u) \/ Logout(u)
             \/ \E c \in Consumers : SendRecheck(c)
             \/ UNCHANGED vars
      PROVE  UNCHANGED user
  BY <1>3 DEF ExpireJob, ChangePermission, Logout, SendRecheck, vars, RunJob, TakeJob, JobRaises,
              HorseKilled, SubscribeAllowed, SubscribeRefused, SubscribeJoin, SubscribeCommit,
              RecheckAllowed, RecheckRefused, RecheckLeave, RecheckCommit, UpdateStatus
<1> QED BY <1>1, <1>2, <1>3 DEF Next

LEMMA KeptOutStep ==
    ASSUME NEW c \in Consumers, NEW ch \in Guarded
    PROVE  /\ TypeInv /\ OwnerOrNobody /\ KeptOut(c, ch) /\ ch \notin perm[Owner[c]]
           /\ [Next]_vars
           => KeptOut(c, ch)'
<1> SUFFICES ASSUME TypeInv, OwnerOrNobody, KeptOut(c, ch), ch \notin perm[Owner[c]], [Next]_vars
             PROVE  KeptOut(c, ch)'
  OBVIOUS
<1>0. ch \in ContextChannel /\ \A u \in Users : ch # UserChannel(u)
  BY ConstantsAssumption DEF Guarded, ContextChannel, UserChannels
<1>1. ~Allowed(user[c], ch)
  BY <1>0, ConstantsAssumption DEF Allowed, Guarded, OwnerOrNobody, UserChannels
<1>2. CASE UNCHANGED <<members, pc, job, todo>>
  BY <1>2 DEF KeptOut, Running
<1>3. ASSUME NEW d \in Consumers, ConsumerStep(d)
      PROVE  KeptOut(c, ch)'
  <2>1. UNCHANGED <<pc, job, todo>>
    BY <1>3 DEF ConsumerStep, HandleEvent, Authenticate, AcceptAnonymous, Accept,
                ReceiveSubscribe, ReceiveLeave, HandleSubscribed, HandleLeft, HandleBatch,
                HandleError, HandleRecheck, HandleClose, Disconnect, Crash, workerVars
  <2>2. c \notin members'[ch]
    <3>1. CASE Accept(d)
      <4>1. user[d] \in Users
        BY <3>1 DEF Accept, TypeInv, TypeOK
      <4> QED BY <1>0, <3>1, <4>1 DEF Accept, KeptOut, TypeInv, TypeOK
    <3>2. CASE ReceiveLeave(d)
      BY <1>0, <3>2 DEF ReceiveLeave, KeptOut, TypeInv, TypeOK
    <3>3. CASE Disconnect(d)
      <4>1. \/ members' = members
            \/ members' = [members EXCEPT ![UserChannel(user[d])] = @ \ {d}]
        BY <3>3 DEF Disconnect
      <4>2. members \in [ContextChannel -> SUBSET Consumers]
        BY DEF TypeInv, TypeOK
      <4> QED BY <1>0, <4>1, <4>2 DEF KeptOut
    <3>4. CASE ~(Accept(d) \/ ReceiveLeave(d) \/ Disconnect(d))
      BY <1>3, <3>4
         DEF ConsumerStep, HandleEvent, Authenticate, AcceptAnonymous, ReceiveSubscribe,
             HandleSubscribed, HandleLeft, HandleBatch, HandleError, HandleRecheck,
             HandleClose, Crash, layerVars, KeptOut
    <3> QED BY <3>1, <3>2, <3>3, <3>4
  <2> QED BY <2>1, <2>2 DEF KeptOut, Running
<1>4. ASSUME NEW w \in Workers, TakeJob(w) \/ RunJob(w) \/ JobRaises(w) \/ HorseKilled(w)
      PROVE  KeptOut(c, ch)'
  <2>1. CASE SubscribeAllowed(w)
    <3>1. job[w].consumer = c => ch \notin todo[w]
      BY <1>1, <2>1 DEF SubscribeAllowed
    <3> QED BY <2>1, <3>1 DEF SubscribeAllowed, GoTo, KeptOut, Running, layerVars, TypeInv, TypeOK
  <2>2. CASE SubscribeJoin(w)
    BY <1>0, <2>2 DEF SubscribeJoin, GoTo, KeptOut, Running, TypeInv, TypeOK
  <2>3. CASE RecheckLeave(w)
    <3>1. members' = [members EXCEPT ![at[w]] = @ \ {job[w].consumer}]
      BY <2>3 DEF RecheckLeave
    <3>2. c \notin members'[ch]
      BY <1>0, <3>1 DEF KeptOut, TypeInv, TypeOK
    <3> QED BY <2>3, <3>2 DEF RecheckLeave, GoTo, KeptOut, Running, TypeInv, TypeOK
  <2>4. CASE ~(SubscribeAllowed(w) \/ SubscribeJoin(w) \/ RecheckLeave(w))
    <3>1. UNCHANGED members
      BY <1>4, <2>4 DEF RunJob, TakeJob, JobRaises, HorseKilled, SubscribeRefused,
         SubscribeCommit, RecheckAllowed, RecheckRefused, RecheckCommit, UpdateStatus, layerVars
    <3>2. \A v \in Workers :
              \/ pc'[v] # "join"
              \/ pc'[v] = pc[v] /\ job'[v] = job[v] /\ todo'[v] = todo[v]
      BY <1>4, <2>4 DEF RunJob, TakeJob, JobRaises, HorseKilled, SubscribeRefused,
         SubscribeCommit, RecheckAllowed, RecheckRefused, RecheckCommit, UpdateStatus,
         Running, Finish, GoTo, TypeInv, TypeOK
    <3> QED BY <3>1, <3>2 DEF KeptOut, Running
  <2> QED BY <2>1, <2>2, <2>3, <2>4
<1>5. ASSUME \/ ExpireJob
             \/ \E u \in Users : ChangePermission(u) \/ Logout(u)
             \/ \E d \in Consumers : SendRecheck(d)
             \/ UNCHANGED vars
      PROVE  UNCHANGED <<members, pc, job, todo>>
  BY <1>5 DEF ExpireJob, ChangePermission, Logout, SendRecheck, vars, layerVars, workerVars
<1> QED BY <1>2, <1>3, <1>4, <1>5 DEF Next

(* Whoever never holds the permission for a channel never enters it: every  *)
(* way into a group of a guarded channel goes through the permission.       *)
THEOREM PermissionNeeded == Spec => NeverAllowedNeverMember
<1> SUFFICES ASSUME NEW c \in Consumers, NEW ch \in Guarded
             PROVE  Spec => ([](ch \notin perm[Owner[c]]) => [](c \notin members[ch]))
  BY DEF NeverAllowedNeverMember
<1>1. Init => OwnerOrNobody /\ KeptOut(c, ch)
  BY DEF Init, OwnerOrNobody, KeptOut, Running, Guarded, ContextChannel
<1>2. TypeInv /\ OwnerOrNobody /\ [Next]_vars => OwnerOrNobody'
  BY OwnerStep
<1>3. /\ TypeInv /\ OwnerOrNobody /\ KeptOut(c, ch) /\ ch \notin perm[Owner[c]]
      /\ [Next]_vars
      => KeptOut(c, ch)'
  BY KeptOutStep
<1>4. KeptOut(c, ch) => c \notin members[ch]
  BY DEF KeptOut
<1> QED BY <1>1, <1>2, <1>3, <1>4, TypeCorrect, PTL DEF Spec, TypeInv
=============================================================================
