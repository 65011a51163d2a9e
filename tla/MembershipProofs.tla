-------------------------- MODULE MembershipProofs --------------------------
(***************************************************************************)
(* What a consumer knows of the groups it is in when one worker runs the   *)
(* jobs, for any number of connections, channels and commands: it lists    *)
(* what it is in, and what a recheck took it out of goes off its list.     *)
(***************************************************************************)
EXTENDS SubscriptionsProofs

OneWorker == \A v, w \in Workers : v = w

-----------------------------------------------------------------------------
(* What the consumer will list, as its mailbox changes *)

(* The mailbox stays as it is.                                              *)
LEMMA ListReread ==
    ASSUME NEW c \in Consumers, NEW ch \in ContextChannel, mailbox'[c] = mailbox[c]
    PROVE  /\ (ch \in subs[c] => ch \in subs'[c]) => (WillList(c, ch) => WillList(c, ch)')
           /\ (ch \in subs'[c] => ch \in subs[c]) => (WillList(c, ch)' => WillList(c, ch))
<1>1. Mentions(c, ch)' = Mentions(c, ch)
  BY DEF Mentions
<1> QED BY <1>1 DEF WillList

(* Events arrive that are not about ch.                                     *)
LEMMA ListUnmentioned ==
    ASSUME TypeInv, NEW c \in Consumers, NEW ch \in ContextChannel,
           NEW events \in Seq(Event), mailbox'[c] = mailbox[c] \o events,
           \A k \in 1 .. Len(events) :
               ~(events[k].type \in {"subscribed", "left"} /\ events[k].channel = ch),
           subs'[c] = subs[c]
    PROVE  WillList(c, ch)' <=> WillList(c, ch)
<1>1. mailbox[c] \in Seq(Event)
  BY DEF TypeInv, TypeOK
<1>2. \A i \in 1 .. Len(mailbox[c]) : i \in 1 .. Len(mailbox'[c]) /\ mailbox'[c][i] = mailbox[c][i]
  BY <1>1
<1>3. ASSUME NEW i \in 1 .. Len(mailbox'[c]), i \notin 1 .. Len(mailbox[c])
      PROVE  i - Len(mailbox[c]) \in 1 .. Len(events)
             /\ mailbox'[c][i] = events[i - Len(mailbox[c])]
  BY <1>1, <1>3
<1>4. Mentions(c, ch)' = Mentions(c, ch)
  BY <1>2, <1>3 DEF Mentions
<1>5. \A i \in Mentions(c, ch) : mailbox'[c][i] = mailbox[c][i]
  BY <1>2 DEF Mentions
<1> QED BY <1>4, <1>5 DEF WillList

(* The consumer is told that it has joined ch.                              *)
LEMMA ListJoined ==
    ASSUME TypeInv, NEW c \in Consumers, NEW ch \in ContextChannel, NEW e \in Event,
           mailbox'[c] = Append(mailbox[c], e), e.type = "subscribed", e.channel = ch
    PROVE  WillList(c, ch)'
<1> DEFINE n == Len(mailbox[c]) + 1
<1>1. mailbox[c] \in Seq(Event)
  BY DEF TypeInv, TypeOK
<1>2. n \in 1 .. Len(mailbox'[c]) /\ mailbox'[c][n] = e /\ Len(mailbox'[c]) = n
  BY <1>1
<1>3. n \in Mentions(c, ch)'
  BY <1>2 DEF Mentions
<1>4. \A j \in Mentions(c, ch)' : j <= n
  BY <1>2 DEF Mentions
<1> QED BY <1>2, <1>3, <1>4 DEF WillList

(* The last thing the consumer is told of ch is that it was left.           *)
LEMMA ListLeft ==
    ASSUME TypeInv, NEW c \in Consumers, NEW ch \in ContextChannel,
           NEW events \in Seq(Event), mailbox'[c] = mailbox[c] \o events,
           NEW k \in 1 .. Len(events), events[k].type = "left", events[k].channel = ch,
           \A j \in 1 .. Len(events) : events[j].type # "subscribed"
    PROVE  ~WillList(c, ch)'
<1> DEFINE n == Len(mailbox[c]) + k
<1>1. mailbox[c] \in Seq(Event)
  BY DEF TypeInv, TypeOK
<1>2. n \in 1 .. Len(mailbox'[c]) /\ mailbox'[c][n] = events[k]
  BY <1>1
<1>3. n \in Mentions(c, ch)'
  BY <1>2 DEF Mentions
<1>4. ASSUME NEW i \in Mentions(c, ch)', n <= i
      PROVE  mailbox'[c][i].type # "subscribed"
  <2>1. i \in 1 .. Len(mailbox'[c])
    BY DEF Mentions
  <2>2. /\ i - Len(mailbox[c]) \in 1 .. Len(events)
        /\ mailbox'[c][i] = events[i - Len(mailbox[c])]
    BY <1>1, <1>4, <2>1
  <2> QED BY <2>2
<1> QED BY <1>3, <1>4 DEF WillList

(* The oldest event is taken and run: what it said of ch is done.           *)
LEMMA ListTaken ==
    ASSUME TypeInv, NEW c \in Consumers, NEW ch \in ContextChannel, NEW type, Takes(c, type),
           subs'[c] = CASE type = "subscribed" -> subs[c] \cup {Head(mailbox[c]).channel}
                        [] type = "left"       -> subs[c] \ {Head(mailbox[c]).channel}
                        [] OTHER               -> subs[c]
    PROVE  WillList(c, ch)' <=> WillList(c, ch)
<1> DEFINE M == Mentions(c, ch)
<1>1. /\ mailbox[c] \in Seq(Event) /\ mailbox[c] # << >>
      /\ mailbox'[c] = Tail(mailbox[c])
      /\ mailbox[c][1].type = type /\ Head(mailbox[c]) = mailbox[c][1]
  BY DEF Takes, TypeInv, TypeOK
<1>2. \A i \in Nat : i >= 1 =>
          /\ i \in 1 .. Len(mailbox'[c]) <=> i + 1 \in 1 .. Len(mailbox[c])
          /\ i \in 1 .. Len(mailbox'[c]) => mailbox'[c][i] = mailbox[c][i + 1]
  BY <1>1
<1>3. \A i \in Nat : i >= 1 => (i \in M' <=> i + 1 \in M)
  BY <1>2 DEF Mentions
<1>4. \A i \in M : i \in Nat /\ i >= 1
  BY DEF Mentions
<1>5. \A i \in M' : i \in Nat /\ i >= 1 /\ mailbox'[c][i] = mailbox[c][i + 1]
  BY <1>2 DEF Mentions
<1>6. 1 \in M <=> type \in {"subscribed", "left"} /\ Head(mailbox[c]).channel = ch
  BY <1>1 DEF Mentions
<1> HIDE DEF M
<1>7. WillList(c, ch) <=> IF M = {} THEN ch \in subs[c]
                          ELSE \E i \in M : (\A j \in M : j <= i) /\ mailbox[c][i].type = "subscribed"
  BY DEF WillList, M
<1>8. WillList(c, ch)' <=> IF M' = {} THEN ch \in subs'[c]
                           ELSE \E i \in M' : (\A j \in M' : j <= i)
                                              /\ mailbox'[c][i].type = "subscribed"
  BY DEF WillList, M
<1>9. CASE M' # {}
  <2>1. \A i \in M : i = 1 \/ (i - 1 \in M' /\ i - 1 + 1 = i)
    BY <1>3, <1>4
  <2>2. M # {}
    BY <1>3, <1>5, <1>9
  <2>3. ASSUME NEW i \in M', \A j \in M' : j <= i, mailbox'[c][i].type = "subscribed"
        PROVE  \E k \in M : (\A j \in M : j <= k) /\ mailbox[c][k].type = "subscribed"
    <3>1. i + 1 \in M /\ mailbox[c][i + 1].type = "subscribed"
      BY <1>3, <1>5, <2>3
    <3>2. ASSUME NEW j \in M
          PROVE  j <= i + 1
      <4>1. CASE j = 1
        BY <1>5, <4>1
      <4>2. CASE j - 1 \in M'
        <5>1. j - 1 <= i /\ j \in Nat /\ i \in Nat
          BY <1>4, <1>5, <2>3, <4>2
        <5> QED BY <5>1
      <4> QED BY <2>1, <4>1, <4>2
    <3> QED BY <3>1, <3>2
  <2>4. ASSUME NEW k \in M, \A j \in M : j <= k, mailbox[c][k].type = "subscribed"
        PROVE  \E i \in M' : (\A j \in M' : j <= i) /\ mailbox'[c][i].type = "subscribed"
    <3>1. PICK j \in M' : TRUE
      BY <1>9
    <3>2. j + 1 <= k /\ j >= 1 /\ j \in Nat /\ k \in Nat
      BY <1>3, <1>4, <1>5, <2>4, <3>1
    <3>3. k - 1 \in M' /\ k - 1 + 1 = k
      BY <2>1, <3>2
    <3>4. mailbox'[c][k - 1].type = "subscribed"
      BY <1>5, <2>4, <3>3
    <3>5. ASSUME NEW m \in M'
          PROVE  m <= k - 1
      <4>1. m + 1 \in M /\ m \in Nat
        BY <1>3, <1>5
      <4>2. m + 1 <= k
        BY <2>4, <4>1
      <4> QED BY <3>2, <4>1, <4>2
    <3> QED BY <3>3, <3>4, <3>5
  <2> QED BY <1>7, <1>8, <1>9, <2>2, <2>3, <2>4
<1>10. CASE M' = {}
  <2>1. \A i \in M : i = 1
    <3> SUFFICES ASSUME NEW i \in M, i # 1
                 PROVE  FALSE
      OBVIOUS
    <3>1. i - 1 \in Nat /\ i - 1 >= 1 /\ i - 1 + 1 = i
      BY <1>4
    <3> QED BY <1>3, <1>10, <3>1
  <2>2. CASE 1 \in M
    <3>1. WillList(c, ch) <=> type = "subscribed"
      BY <1>1, <1>7, <2>1, <2>2
    <3>2. WillList(c, ch)' <=> type = "subscribed"
      BY <1>6, <1>8, <1>10, <2>2
    <3> QED BY <3>1, <3>2
  <2>3. CASE 1 \notin M
    <3>1. WillList(c, ch) <=> ch \in subs[c]
      BY <1>7, <2>1, <2>3
    <3>2. WillList(c, ch)' <=> ch \in subs'[c]
      BY <1>8, <1>10
    <3>3. ch \in subs'[c] <=> ch \in subs[c]
      BY <1>6, <2>3
    <3> QED BY <3>1, <3>2, <3>3
  <2> QED BY <2>2, <2>3
<1> QED BY <1>9, <1>10

(* Every handler does to the list what the event said, if it said anything. *)
LEMMA EventKeepsList ==
    ASSUME TypeInv, NEW c \in Consumers, HandleEvent(c), NEW ch \in ContextChannel
    PROVE  WillList(c, ch)' <=> WillList(c, ch)
<1>1. CASE HandleSubscribed(c)
  <2>1. Takes(c, "subscribed") /\ subs'[c] = subs[c] \cup {Head(mailbox[c]).channel}
    BY <1>1 DEF HandleSubscribed, TypeInv, TypeOK
  <2> QED BY <2>1, ListTaken
<1>2. CASE HandleLeft(c)
  <2>1. Takes(c, "left") /\ subs'[c] = subs[c] \ {Head(mailbox[c]).channel}
    BY <1>2 DEF HandleLeft, TypeInv, TypeOK
  <2> QED BY <2>1, ListTaken
<1>3. CASE HandleBatch(c) \/ HandleError(c) \/ HandleRecheck(c) \/ HandleClose(c)
  <2>1. UNCHANGED subs /\ \E type \in {"batch", "error", "recheck", "close"} : Takes(c, type)
    BY <1>3 DEF HandleBatch, HandleError, HandleRecheck, HandleClose, connVars
  <2> QED BY <2>1, ListTaken
<1> QED BY <1>1, <1>2, <1>3 DEF HandleEvent

-----------------------------------------------------------------------------
(* What it takes, besides the types and MembersInv *)

(* Nothing is in the mailbox of a connection that is not accepted.          *)
ReadsNothing ==
    \A c \in Consumers : state[c] \in {"new", "connecting", "denied"} => mailbox[c] = << >>

(* A subscribe job is about one channel, on the queue and on a worker.      *)
QueuedSingle ==
    \A i \in 1 .. Len(queue) : queue[i].kind = "subscribe" =>
        \E ch \in ContextChannel : queue[i].channels = {ch}
RunSingle ==
    \A w \in Workers : pc[w] # "idle" /\ job[w].kind = "subscribe" =>
        \E ch \in ContextChannel : todo[w] = {ch}

(* What a recheck is about to report as left is left.                       *)
LeftsOut ==
    \A w \in Workers : \A i \in 1 .. Len(lefts[w]) :
        /\ pc[w] # "idle" /\ job[w].kind = "recheck"
        /\ job[w].consumer \notin members[lefts[w][i]]

JobsInv == ReadsNothing /\ QueuedSingle /\ RunSingle /\ LeftsOut

LEMMA ReadsNothingStep ==
    ASSUME TypeInv, ReadsNothing, [Next]_vars
    PROVE  ReadsNothing'
<1> USE DEF ReadsNothing, Listening, TypeInv, TypeOK, vars, appVars, connVars, layerVars,
            workerVars, clientVars
<1>1. ASSUME NEW c \in Consumers, ConsumerStep(c)
      PROVE  ReadsNothing'
  BY <1>1 DEF ConsumerStep, HandleEvent, Authenticate, AcceptAnonymous, Accept,
              ReceiveSubscribe, ReceiveLeave, HandleSubscribed, HandleLeft, HandleBatch,
              HandleError, HandleRecheck, HandleClose, Disconnect, Crash, Takes
<1>2. ASSUME NEW w \in Workers, TakeJob(w) \/ RunJob(w) \/ JobRaises(w) \/ HorseKilled(w)
      PROVE  ReadsNothing'
  <2>1. UNCHANGED state
    BY <1>2 DEF RunJob, TakeJob, JobRaises, HorseKilled, SubscribeAllowed, SubscribeRefused,
              SubscribeJoin, SubscribeCommit, RecheckAllowed, RecheckRefused, RecheckLeave,
              RecheckCommit, UpdateStatus
  <2>2. UNCHANGED mailbox \/ \E d, events : Deliver(d, events)
    BY <1>2 DEF RunJob, TakeJob, JobRaises, HorseKilled, SubscribeAllowed, SubscribeRefused,
              SubscribeJoin, SubscribeCommit, RecheckAllowed, RecheckRefused, RecheckLeave,
              RecheckCommit, UpdateStatus, SendError
  <2> QED BY <2>1, <2>2 DEF Deliver
<1>3. CASE ExpireJob \/ (\E u \in Users : ChangePermission(u)) \/ UNCHANGED vars
  BY <1>3 DEF ExpireJob, ChangePermission
<1>4. ASSUME NEW u \in Users, Logout(u)
      PROVE  ReadsNothing'
  BY <1>4 DEF Logout
<1>5. ASSUME NEW c \in Consumers, SendRecheck(c)
      PROVE  ReadsNothing'
  BY <1>5 DEF SendRecheck, Deliver
<1> QED BY <1>1, <1>2, <1>3, <1>4, <1>5 DEF Next

LEMMA QueuedSingleStep ==
    ASSUME TypeInv, QueuedSingle, [Next]_vars
    PROVE  QueuedSingle'
<1> USE DEF vars, appVars, connVars, layerVars, workerVars, clientVars
<1>1. ASSUME NEW j \in Job, queue' = Append(queue, j),
             j.kind = "subscribe" => \E ch \in ContextChannel : j.channels = {ch}
      PROVE  QueuedSingle'
  <2>1. \A i \in 1 .. Len(queue') :
            (\E k \in 1 .. Len(queue) : queue'[i] = queue[k]) \/ queue'[i] = j
    BY <1>1, QueueShapes
  <2> QED BY <1>1, <2>1 DEF QueuedSingle
<1>2. CASE queue # << >> /\ queue' = Tail(queue)
  <2>1. \A i \in 1 .. Len(queue') : \E k \in 1 .. Len(queue) : queue'[i] = queue[k]
    BY <1>2, QueueShapes
  <2> QED BY <2>1 DEF QueuedSingle
<1>3. CASE UNCHANGED queue
  BY <1>3 DEF QueuedSingle
<1>4. ASSUME NEW c \in Consumers, NEW ch \in ContextChannel, NEW r \in Requests \cup {None},
             QueueSubscribe(c, ch, r)
      PROVE  QueuedSingle'
  <2>1. SubscribeJob(c, ch, r) \in Job /\ SubscribeJob(c, ch, r).channels = {ch}
    BY JobType DEF SubscribeJob
  <2>2. queue' = Append(queue, SubscribeJob(c, ch, r))
    BY <1>4 DEF QueueSubscribe
  <2> QED BY <1>1, <2>1, <2>2
<1>5. ASSUME NEW c \in Consumers, ConsumerStep(c)
      PROVE  QueuedSingle'
  <2>1. CASE Accept(c)
    <3>1. UserChannel(user[c]) \in ContextChannel
      BY <2>1 DEF Accept, ContextChannel, UserChannels, TypeInv, TypeOK
    <3>2. QueueSubscribe(c, UserChannel(user[c]), None) \/ UNCHANGED queue
      BY <2>1 DEF Accept
    <3> QED BY <1>3, <1>4, <3>1, <3>2
  <2>2. CASE ReceiveSubscribe(c)
    BY <1>4, <2>2 DEF ReceiveSubscribe
  <2>3. CASE HandleRecheck(c)
    <3>1. RecheckJob(c, subs[c]) \in Job /\ RecheckJob(c, subs[c]).kind = "recheck"
      BY DEF RecheckJob, Job, TypeInv, TypeOK
    <3>2. UNCHANGED queue \/ queue' = Append(queue, RecheckJob(c, subs[c]))
      BY <2>3 DEF HandleRecheck
    <3> QED BY <1>1, <1>3, <3>1, <3>2
  <2>4. CASE ~(Accept(c) \/ ReceiveSubscribe(c) \/ HandleRecheck(c))
    BY <1>3, <1>5, <2>4
       DEF ConsumerStep, HandleEvent, Authenticate, AcceptAnonymous, ReceiveLeave,
           HandleSubscribed, HandleLeft, HandleBatch, HandleError, HandleClose, Disconnect, Crash
  <2> QED BY <2>1, <2>2, <2>3, <2>4
<1>6. ASSUME NEW w \in Workers, TakeJob(w) \/ RunJob(w) \/ JobRaises(w) \/ HorseKilled(w)
      PROVE  QueuedSingle'
  <2>1. (queue # << >> /\ queue' = Tail(queue)) \/ UNCHANGED queue
    BY <1>6 DEF RunJob, TakeJob, JobRaises, HorseKilled, SubscribeAllowed, SubscribeRefused,
                SubscribeJoin, SubscribeCommit, RecheckAllowed, RecheckRefused, RecheckLeave,
                RecheckCommit, UpdateStatus
  <2> QED BY <1>2, <1>3, <2>1
<1>7. CASE ExpireJob
  BY <1>2, <1>7 DEF ExpireJob
<1>8. CASE \/ \E u \in Users : ChangePermission(u) \/ Logout(u)
           \/ \E c \in Consumers : SendRecheck(c)
           \/ UNCHANGED vars
  BY <1>3, <1>8 DEF ChangePermission, Logout, SendRecheck
<1> QED BY <1>5, <1>6, <1>7, <1>8 DEF Next

LEMMA RunSingleStep ==
    ASSUME TypeInv, QueuedSingle, RunSingle, [Next]_vars
    PROVE  RunSingle'
<1> USE DEF vars, appVars, connVars, layerVars, workerVars, clientVars
<1>1. CASE UNCHANGED <<pc, job, todo>>
  BY <1>1 DEF RunSingle
<1>2. ASSUME NEW w \in Workers, TakeJob(w)
      PROVE  RunSingle'
  <2>1. /\ job' = [job EXCEPT ![w] = Head(queue)] /\ todo' = [todo EXCEPT ![w] = Head(queue).channels]
        /\ pc' = [pc EXCEPT ![w] = "check"]
    BY <1>2 DEF TakeJob, GoTo
  <2>2. 1 \in 1 .. Len(queue) /\ Head(queue) = queue[1]
    BY <1>2 DEF TakeJob, TypeInv, TypeOK
  <2> QED BY <2>1, <2>2 DEF QueuedSingle, RunSingle, TypeInv, TypeOK
<1>3. ASSUME NEW w \in Workers, JobRaises(w) \/ HorseKilled(w) \/ SubscribeRefused(w) \/ UpdateStatus(w)
      PROVE  RunSingle'
  <2>1. Finish(w)
    BY <1>3 DEF JobRaises, HorseKilled, SubscribeRefused, UpdateStatus
  <2> QED BY <2>1 DEF Finish, RunSingle, TypeInv, TypeOK
<1>4. ASSUME NEW w \in Workers,
             SubscribeAllowed(w) \/ SubscribeJoin(w) \/ SubscribeCommit(w) \/ RecheckLeave(w)
             \/ RecheckCommit(w)
      PROVE  RunSingle'
  <2>1. UNCHANGED <<job, todo>> /\ pc[w] # "idle" /\ \A v \in Workers : v # w => pc'[v] = pc[v]
    BY <1>4 DEF SubscribeAllowed, SubscribeJoin, SubscribeCommit, RecheckLeave, RecheckCommit,
                Running, GoTo, TypeInv, TypeOK
  <2> QED BY <2>1 DEF RunSingle
<1>5. ASSUME NEW w \in Workers, RecheckAllowed(w) \/ RecheckRefused(w)
      PROVE  RunSingle'
  <2>1. /\ UNCHANGED job /\ job[w].kind = "recheck"
        /\ \A v \in Workers : v # w => pc'[v] = pc[v] /\ todo'[v] = todo[v]
    BY <1>5 DEF RecheckAllowed, RecheckRefused, Running, GoTo, TypeInv, TypeOK
  <2> QED BY <2>1 DEF RunSingle
<1>6. ASSUME NEW c \in Consumers, ConsumerStep(c)
      PROVE  UNCHANGED <<pc, job, todo>>
  BY <1>6 DEF ConsumerStep, HandleEvent, Authenticate, AcceptAnonymous, Accept,
              ReceiveSubscribe, ReceiveLeave, HandleSubscribed, HandleLeft, HandleBatch,
              HandleError, HandleRecheck, HandleClose, Disconnect, Crash
<1>7. CASE \/ ExpireJob
           \/ \E u \in Users : ChangePermission(u) \/ Logout(u)
           \/ \E c \in Consumers : SendRecheck(c)
           \/ UNCHANGED vars
  BY <1>1, <1>7 DEF ExpireJob, ChangePermission, Logout, SendRecheck
<1> QED BY <1>1, <1>2, <1>3, <1>4, <1>5, <1>6, <1>7 DEF Next, RunJob

(* The groups in the steps of a consumer: nobody else joins one, and it     *)
(* joins one when it is accepted.                                           *)
LEMMA ConsumerGroups ==
    ASSUME TypeInv, NEW c \in Consumers, ConsumerStep(c), NEW ch \in ContextChannel,
           NEW d \in members'[ch]
    PROVE  d \in members[ch] \/ (d = c /\ Accept(c) /\ ch = UserChannel(user[c]))
<1> USE DEF TypeInv, TypeOK, layerVars
<1>1. CASE Accept(c)
  BY <1>1 DEF Accept
<1>2. CASE ReceiveLeave(c)
  BY <1>2 DEF ReceiveLeave
<1>3. CASE Disconnect(c)
  BY <1>3 DEF Disconnect
<1>4. CASE ~(Accept(c) \/ ReceiveLeave(c) \/ Disconnect(c))
  <2>1. UNCHANGED members
    BY <1>4 DEF ConsumerStep, HandleEvent, Authenticate, AcceptAnonymous, ReceiveSubscribe,
                HandleSubscribed, HandleLeft, HandleBatch, HandleError, HandleRecheck,
                HandleClose, Crash
  <2> QED BY <2>1
<1> QED BY <1>1, <1>2, <1>3, <1>4

LEMMA LeftsOutStep ==
    ASSUME OneWorker, TypeInv, MembersInv, LeftsOut, [Next]_vars
    PROVE  LeftsOut'
<1> USE DEF vars, appVars, connVars, layerVars, workerVars, clientVars
<1>1. ASSUME UNCHANGED <<pc, job, lefts>>,
             \A ch \in ContextChannel : \A d \in members'[ch] : d \in members[ch] \/ ~Accepted(d)
      PROVE  LeftsOut'
  <2> SUFFICES ASSUME NEW w \in Workers, NEW i \in 1 .. Len(lefts[w])
               PROVE  /\ pc[w] # "idle" /\ job[w].kind = "recheck"
                      /\ job[w].consumer \notin members'[lefts[w][i]]
    BY <1>1 DEF LeftsOut
  <2>1. /\ pc[w] # "idle" /\ job[w].kind = "recheck"
        /\ job[w].consumer \notin members[lefts[w][i]]
    BY DEF LeftsOut
  <2>2. lefts[w][i] \in ContextChannel /\ Accepted(job[w].consumer)
    BY <2>1 DEF MembersInv, WorkersEntitled, TypeInv, TypeOK
  <2> QED BY <1>1, <2>1, <2>2
<1>2. ASSUME NEW c \in Consumers, ConsumerStep(c)
      PROVE  LeftsOut'
  <2>1. UNCHANGED <<pc, job, lefts>>
    BY <1>2 DEF ConsumerStep, HandleEvent, Authenticate, AcceptAnonymous, Accept,
              ReceiveSubscribe, ReceiveLeave, HandleSubscribed, HandleLeft, HandleBatch,
              HandleError, HandleRecheck, HandleClose, Disconnect, Crash
  <2>2. Accept(c) => ~Accepted(c)
    BY DEF Accept, Accepted
  <2> QED BY <1>1, <1>2, <2>1, <2>2, ConsumerGroups
<1>3. ASSUME NEW w \in Workers, TakeJob(w) \/ RunJob(w) \/ JobRaises(w) \/ HorseKilled(w)
      PROVE  LeftsOut'
  <2> SUFFICES ASSUME NEW i \in 1 .. Len(lefts'[w])
               PROVE  /\ pc'[w] # "idle" /\ job'[w].kind = "recheck"
                      /\ job'[w].consumer \notin members'[lefts'[w][i]]
    BY DEF LeftsOut, OneWorker
  <2>0. lefts[w] \in Seq(ContextChannel)
    BY DEF TypeInv, TypeOK
  <2>1. CASE TakeJob(w) \/ SubscribeAllowed(w) \/ SubscribeJoin(w) \/ SubscribeCommit(w)
    <3>1. lefts'[w] = lefts[w] /\ (pc[w] = "idle" \/ job[w].kind = "subscribe")
      BY <2>1 DEF TakeJob, SubscribeAllowed, SubscribeJoin, SubscribeCommit, Running
    <3> QED BY <3>1 DEF LeftsOut
  <2>2. CASE SubscribeRefused(w) \/ UpdateStatus(w) \/ JobRaises(w) \/ HorseKilled(w)
    <3>1. lefts'[w] = << >>
      BY <2>2 DEF SubscribeRefused, UpdateStatus, JobRaises, HorseKilled, Finish, TypeInv, TypeOK
    <3> QED BY <3>1
  <2>3. CASE RecheckAllowed(w) \/ RecheckRefused(w) \/ RecheckCommit(w)
    <3>1. UNCHANGED <<lefts, members, job>> /\ pc'[w] # "idle"
      BY <2>3 DEF RecheckAllowed, RecheckRefused, RecheckCommit, Running, GoTo, TypeInv, TypeOK
    <3> QED BY <3>1 DEF LeftsOut
  <2>4. CASE RecheckLeave(w)
    <3>1. /\ at[w] \in ContextChannel /\ UNCHANGED job /\ pc'[w] # "idle"
          /\ job[w].kind = "recheck"
          /\ members' = [members EXCEPT ![at[w]] = @ \ {job[w].consumer}]
          /\ lefts'[w] = Append(lefts[w], at[w])
      BY <2>4 DEF RecheckLeave, Running, GoTo, TypeInv, WorkerOK, TypeOK
    <3>2. CASE i \in 1 .. Len(lefts[w])
      <4>1. lefts'[w][i] = lefts[w][i] /\ lefts[w][i] \in ContextChannel
        BY <2>0, <3>1, <3>2
      <4>2. job[w].consumer \notin members[lefts[w][i]]
        BY <3>2 DEF LeftsOut
      <4> QED BY <3>1, <4>1, <4>2 DEF TypeInv, TypeOK
    <3>3. CASE i \notin 1 .. Len(lefts[w])
      <4>1. lefts'[w][i] = at[w]
        BY <2>0, <3>1, <3>3
      <4> QED BY <3>1, <4>1 DEF TypeInv, TypeOK
    <3> QED BY <3>2, <3>3
  <2> QED BY <1>3, <2>1, <2>2, <2>3, <2>4 DEF RunJob
<1>4. CASE \/ ExpireJob
           \/ \E u \in Users : ChangePermission(u) \/ Logout(u)
           \/ \E c \in Consumers : SendRecheck(c)
           \/ UNCHANGED vars
  <2>1. UNCHANGED <<pc, job, lefts, members>>
    BY <1>4 DEF ExpireJob, ChangePermission, Logout, SendRecheck
  <2> QED BY <1>1, <2>1
<1> QED BY <1>2, <1>3, <1>4 DEF Next

LEMMA JobsInvariant == ASSUME OneWorker PROVE Spec => []JobsInv
<1>1. Init => JobsInv
  BY DEF Init, JobsInv, ReadsNothing, QueuedSingle, RunSingle, LeftsOut
<1>2. TypeInv /\ MembersInv /\ JobsInv /\ [Next]_vars => JobsInv'
  BY ReadsNothingStep, QueuedSingleStep, RunSingleStep, LeftsOutStep DEF JobsInv
<1> QED BY <1>1, <1>2, MembersInvariant, TypeCorrect, PTL DEF Spec, TypeInv

-----------------------------------------------------------------------------
(* A consumer knows the groups it is in *)

(* The worker has joined c to ch and is about to say so.                    *)
AboutToSay(c, ch) ==
    \E w \in Workers : /\ Running(w, "subscribe", "commit")
                       /\ job[w].consumer = c
                       /\ ch \in todo[w]

Known(c, ch) ==
    Listening(c) /\ c \in members[ch] => WillList(c, ch) \/ AboutToSay(c, ch)

(* A job that has joined a group is not interrupted before it has said so.  *)
JoinIsReported ==
    \A w \in Workers :
        Running(w, "subscribe", "commit") => ~JobRaises(w) /\ ~HorseKilled(w)

(* The rest of a membership, when another connection or nobody moves.       *)
LEMMA KnownFrame ==
    ASSUME NEW c \in Consumers, NEW ch \in ContextChannel, Known(c, ch),
           UNCHANGED <<pc, job, todo>>,
           Listening(c)' /\ c \in members'[ch] => Listening(c) /\ c \in members[ch],
           Listening(c) /\ c \in members'[ch] /\ WillList(c, ch) => WillList(c, ch)'
    PROVE  Known(c, ch)'
BY DEF Known, AboutToSay, Running

LEMMA ConsumerKnown ==
    ASSUME TypeInv, MembersInv, JobsInv, NEW c \in Consumers, ConsumerStep(c),
           NEW d \in Consumers, NEW ch \in ContextChannel, Known(d, ch)
    PROVE  Known(d, ch)'
<1> USE DEF appVars, connVars, layerVars, workerVars, clientVars
<1>0. UNCHANGED <<pc, job, todo>>
  BY DEF ConsumerStep, HandleEvent, Authenticate, AcceptAnonymous, Accept,
         ReceiveSubscribe, ReceiveLeave, HandleSubscribed, HandleLeft, HandleBatch,
         HandleError, HandleRecheck, HandleClose, Disconnect, Crash
<1>1. CASE d # c
  <2>1. mailbox'[d] = mailbox[d] /\ subs'[d] = subs[d] /\ state'[d] = state[d]
    BY <1>1 DEF ConsumerStep, HandleEvent, Authenticate, AcceptAnonymous, Accept,
         ReceiveSubscribe, ReceiveLeave, HandleSubscribed, HandleLeft, HandleBatch,
         HandleError, HandleRecheck, HandleClose, Disconnect, Crash, Takes, QueueSubscribe,
         TypeInv, TypeOK
  <2>2. d \in members'[ch] => d \in members[ch]
    BY <1>1, ConsumerGroups
  <2> QED BY <1>0, <2>1, <2>2, ListReread, KnownFrame DEF Listening
<1>2. CASE d = c /\ (Authenticate(c) \/ AcceptAnonymous(c))
  <2>1. UNCHANGED members /\ ~Accepted(c)
    BY <1>2 DEF Authenticate, AcceptAnonymous, Accepted
  <2>2. c \notin members[ch]
    BY <2>1 DEF MembersInv, MembersEntitled
  <2> QED BY <1>2, <2>1, <2>2 DEF Known
<1>3. CASE d = c /\ Accept(c)
  <2>1. ~Accepted(c) /\ UNCHANGED mailbox /\ state[c] = "connecting"
        /\ UserChannel(user[c]) \in subs'[c]
    BY <1>3 DEF Accept, Accepted, QueueSubscribe, TypeInv, TypeOK
  <2>2. c \notin members[ch]
    BY <2>1 DEF MembersInv, MembersEntitled
  <2>3. c \in members'[ch] => ch = UserChannel(user[c])
    BY <2>2, ConsumerGroups
  <2>4. Mentions(c, ch)' = {}
    BY <2>1 DEF JobsInv, ReadsNothing, Mentions
  <2>5. ch = UserChannel(user[c]) => WillList(c, ch)'
    BY <2>1, <2>4 DEF WillList
  <2> QED BY <1>3, <2>3, <2>5 DEF Known
<1>4. CASE d = c /\ ReceiveSubscribe(c)
  <2>1. UNCHANGED <<mailbox, members, state>> /\ subs[c] \subseteq subs'[c]
    BY <1>4 DEF ReceiveSubscribe, QueueSubscribe, TypeInv, TypeOK
  <2> QED BY <1>0, <1>4, <2>1, ListReread, KnownFrame DEF Listening
<1>5. CASE d = c /\ ReceiveLeave(c)
  <2>1. PICK left \in ContextChannel :
            /\ members' = [members EXCEPT ![left] = @ \ {c}]
            /\ subs' = [subs EXCEPT ![c] = @ \ {left}]
    BY <1>5 DEF ReceiveLeave
  <2>2. UNCHANGED <<mailbox, state>>
    BY <1>5 DEF ReceiveLeave
  <2>3. c \in members'[ch] => ch # left /\ c \in members[ch]
    BY <2>1 DEF TypeInv, TypeOK
  <2>4. ch # left => (ch \in subs[c] => ch \in subs'[c])
    BY <2>1 DEF TypeInv, TypeOK
  <2> QED BY <1>0, <1>5, <2>2, <2>3, <2>4, ListReread, KnownFrame DEF Listening
<1>6. CASE d = c /\ HandleEvent(c)
  <2>1. UNCHANGED members /\ Listening(c)
    BY <1>6 DEF HandleEvent, HandleSubscribed, HandleLeft, HandleBatch, HandleError,
                HandleRecheck, HandleClose, Takes
  <2>2. WillList(c, ch)' <=> WillList(c, ch)
    BY <1>6, EventKeepsList
  <2> QED BY <1>0, <1>6, <2>1, <2>2, KnownFrame
<1>7. CASE d = c /\ (Disconnect(c) \/ Crash(c))
  <2>1. ~Listening(c)'
    BY <1>7 DEF Disconnect, Crash, Listening, TypeInv, TypeOK
  <2> QED BY <1>7, <2>1 DEF Known
<1> QED BY <1>1, <1>2, <1>3, <1>4, <1>5, <1>6, <1>7 DEF ConsumerStep

(* Events sent to c change what d will list only if they are about it.      *)
LEMMA ListSent ==
    ASSUME TypeInv, NEW c \in Consumers, NEW events \in Seq(Event), Deliver(c, events),
           NEW d \in Consumers, NEW ch \in ContextChannel, subs'[d] = subs[d],
           \/ d # c
           \/ \A k \in 1 .. Len(events) :
                  ~(events[k].type \in {"subscribed", "left"} /\ events[k].channel = ch)
    PROVE  WillList(d, ch)' <=> WillList(d, ch)
<1>1. \/ mailbox'[d] = mailbox[d]
      \/ d = c /\ mailbox'[d] = mailbox[d] \o events
  BY DEF Deliver, TypeInv, TypeOK
<1>2. CASE mailbox'[d] = mailbox[d]
  BY <1>2, ListReread
<1>3. CASE d = c /\ mailbox'[d] = mailbox[d] \o events
  BY <1>3, ListUnmentioned
<1> QED BY <1>1, <1>2, <1>3

LEMMA WorkerKnown ==
    ASSUME TypeInv, MembersInv, JobsInv, NEW w \in Workers,
           TakeJob(w) \/ RunJob(w) \/ JobRaises(w) \/ HorseKilled(w), JoinIsReported,
           NEW d \in Consumers, NEW ch \in ContextChannel, Known(d, ch)
    PROVE  Known(d, ch)'
<1> USE DEF connVars, layerVars, clientVars
<1>0. /\ UNCHANGED <<state, subs>>
      /\ \A v \in Workers : v # w => pc'[v] = pc[v] /\ job'[v] = job[v] /\ todo'[v] = todo[v]
  BY DEF RunJob, TakeJob, JobRaises, HorseKilled, SubscribeAllowed, SubscribeRefused,
         SubscribeJoin, SubscribeCommit, RecheckAllowed, RecheckRefused, RecheckLeave,
         RecheckCommit, UpdateStatus, Finish, GoTo, TypeInv, TypeOK
<1>1. ASSUME ~Running(w, "subscribe", "commit"),
             d \in members'[ch] => d \in members[ch],
             d \in members'[ch] /\ WillList(d, ch) => WillList(d, ch)'
      PROVE  Known(d, ch)'
  <2>1. AboutToSay(d, ch) => AboutToSay(d, ch)'
    BY <1>0, <1>1 DEF AboutToSay, Running
  <2> QED BY <1>0, <1>1, <2>1 DEF Known, Listening
<1>2. CASE TakeJob(w) \/ SubscribeAllowed(w) \/ RecheckAllowed(w) \/ RecheckRefused(w)
           \/ UpdateStatus(w) \/ HorseKilled(w)
  <2>1. UNCHANGED <<mailbox, members>> /\ ~Running(w, "subscribe", "commit")
    BY <1>2 DEF TakeJob, SubscribeAllowed, RecheckAllowed, RecheckRefused, UpdateStatus,
                HorseKilled, Running, JoinIsReported
  <2> QED BY <1>0, <1>1, <2>1, ListReread
<1>3. CASE SubscribeRefused(w) \/ JobRaises(w)
  <2>1. /\ UNCHANGED members /\ ~Running(w, "subscribe", "commit")
        /\ SendError(w) /\ job[w] \in Job
    BY <1>3 DEF SubscribeRefused, JobRaises, Running, JoinIsReported, TypeInv, WorkerOK
  <2> DEFINE e == [type |-> "error", request |-> job[w].request]
             events == << e >>
  <2>2. e \in Event /\ e.type = "error" /\ job[w].consumer \in Consumers
    BY <2>1 DEF Event, Job
  <2> HIDE DEF e
  <2>3. events \in Seq(Event) /\ Len(events) = 1 /\ events[1] = e
    BY <2>2
  <2>4. Deliver(job[w].consumer, events)
    BY <2>1 DEF SendError, e
  <2> HIDE DEF events
  <2>5. WillList(d, ch)' <=> WillList(d, ch)
    BY <1>0, <2>2, <2>3, <2>4, ListSent
  <2> QED BY <1>1, <2>1, <2>5
<1>4. CASE SubscribeJoin(w)
  <2>1. /\ UNCHANGED <<mailbox, job, todo>> /\ pc[w] = "join" /\ job[w].kind = "subscribe"
        /\ pc'[w] = "commit"
        /\ d \in members'[ch] =>
               d \in members[ch] \/ (d = job[w].consumer /\ ch \in todo[w])
    BY <1>4 DEF SubscribeJoin, Running, GoTo, TypeInv, TypeOK
  <2>2. CASE d = job[w].consumer /\ ch \in todo[w]
    BY <2>1, <2>2 DEF Known, AboutToSay, Running
  <2>3. CASE ~(d = job[w].consumer /\ ch \in todo[w])
    BY <1>0, <1>1, <2>1, <2>3, ListReread DEF Running
  <2> QED BY <2>2, <2>3
<1>5. CASE SubscribeCommit(w)
  <2>1. /\ UNCHANGED <<job, todo, members>> /\ pc[w] = "commit" /\ job[w].kind = "subscribe"
        /\ job[w] \in Job
    BY <1>5 DEF SubscribeCommit, Running, TypeInv, WorkerOK
  <2>2. PICK joined \in ContextChannel : todo[w] = {joined}
    BY <2>1 DEF JobsInv, RunSingle
  <2> DEFINE e == [type |-> "subscribed", channel |-> joined, request |-> job[w].request]
             events == << e >>
  <2>3. /\ e \in Event /\ e.type = "subscribed" /\ e.channel = joined
        /\ job[w].consumer \in Consumers
    BY <2>1 DEF Event, Job
  <2>4. Deliver(job[w].consumer, << e >>)
    BY <1>5, <2>2 DEF SubscribeCommit
  <2> HIDE DEF e
  <2>5. /\ events \in Seq(Event) /\ Len(events) = 1 /\ events[1] = e
        /\ Deliver(job[w].consumer, events)
    BY <2>3, <2>4
  <2>6. CASE d = job[w].consumer /\ ch = joined
    <3>1. ASSUME Listening(d)
          PROVE  WillList(d, ch)'
      <4>1. mailbox'[d] = Append(mailbox[d], e)
        <5>1. mailbox[d] \in Seq(Event) /\ mailbox'[d] = mailbox[d] \o << e >>
          BY <2>4, <2>6, <3>1 DEF Deliver, TypeInv, TypeOK
        <5> QED BY <2>3, <5>1
      <4> QED BY <2>3, <2>6, <4>1, ListJoined
    <3> QED BY <1>0, <3>1 DEF Known, Listening
  <2>7. CASE ~(d = job[w].consumer /\ ch = joined)
    <3> HIDE DEF events
    <3>1. WillList(d, ch)' <=> WillList(d, ch)
      BY <1>0, <2>3, <2>5, <2>7, ListSent
    <3>2. AboutToSay(d, ch) => AboutToSay(d, ch)'
      BY <1>0, <2>2, <2>7 DEF AboutToSay, Running
    <3> QED BY <1>0, <2>1, <3>1, <3>2 DEF Known, Listening
  <2> QED BY <2>6, <2>7
<1>6. CASE RecheckLeave(w)
  <2>1. /\ UNCHANGED mailbox /\ ~Running(w, "subscribe", "commit")
        /\ d \in members'[ch] => d \in members[ch]
    BY <1>6 DEF RecheckLeave, Running, TypeInv, TypeOK
  <2> QED BY <1>0, <1>1, <2>1, ListReread
<1>7. CASE RecheckCommit(w)
  <2>1. /\ UNCHANGED members /\ ~Running(w, "subscribe", "commit") /\ job[w] \in Job
        /\ Deliver(job[w].consumer, LeftEvents(lefts[w]))
    BY <1>7 DEF RecheckCommit, Running, TypeInv, WorkerOK
  <2>2. LeftEvents(lefts[w]) \in Seq(Event) /\ job[w].consumer \in Consumers
    BY <2>1, LeftEventsType DEF Job, TypeInv, TypeOK
  <2>3. CASE d = job[w].consumer /\ \E i \in 1 .. Len(lefts[w]) : lefts[w][i] = ch
    <3>1. d \notin members[ch]
      BY <2>3 DEF JobsInv, LeftsOut
    <3> QED BY <2>1, <3>1 DEF Known
  <2>4. CASE ~(d = job[w].consumer /\ \E i \in 1 .. Len(lefts[w]) : lefts[w][i] = ch)
    <3>1. \/ d # job[w].consumer
          \/ \A k \in 1 .. Len(LeftEvents(lefts[w])) :
                 ~(/\ LeftEvents(lefts[w])[k].type \in {"subscribed", "left"}
                   /\ LeftEvents(lefts[w])[k].channel = ch)
      BY <2>4 DEF LeftEvents, TypeInv, TypeOK
    <3>2. WillList(d, ch)' <=> WillList(d, ch)
      BY <1>0, <2>1, <2>2, <3>1, ListSent
    <3> QED BY <1>1, <2>1, <3>2
  <2> QED BY <2>3, <2>4
<1> QED BY <1>2, <1>3, <1>4, <1>5, <1>6, <1>7 DEF RunJob

(* The application writes no group and no list.                             *)
LEMMA OthersKnown ==
    ASSUME TypeInv,
           \/ ExpireJob
           \/ \E u \in Users : ChangePermission(u) \/ Logout(u)
           \/ \E c \in Consumers : SendRecheck(c)
           \/ UNCHANGED vars,
           NEW d \in Consumers, NEW ch \in ContextChannel
    PROVE  /\ UNCHANGED <<state, subs, members, pc, job, todo, lefts>>
           /\ WillList(d, ch)' <=> WillList(d, ch)
<1> USE DEF vars, appVars, connVars, layerVars, workerVars, clientVars
<1>1. UNCHANGED <<state, subs, members, pc, job, todo, lefts>>
  BY DEF ExpireJob, ChangePermission, Logout, SendRecheck
<1>2. CASE UNCHANGED mailbox
  BY <1>1, <1>2, ListReread
<1>3. ASSUME NEW u \in Users, Logout(u)
      PROVE  WillList(d, ch)' <=> WillList(d, ch)
  <2> DEFINE e == [type |-> "close"]
             events == << e >>
  <2>1. e \in Event /\ e.type = "close"
    BY DEF Event
  <2>2. \/ mailbox'[d] = mailbox[d]
        \/ mailbox'[d] = Append(mailbox[d], e)
    BY <1>3 DEF Logout
  <2>3. events \in Seq(Event) /\ Len(events) = 1 /\ events[1] = e
    BY <2>1
  <2> HIDE DEF e
  <2>4. mailbox'[d] = mailbox[d] \/ mailbox'[d] = mailbox[d] \o events
    <3>1. mailbox[d] \in Seq(Event)
      BY DEF TypeInv, TypeOK
    <3>2. Append(mailbox[d], e) = mailbox[d] \o << e >>
      BY <2>1, <3>1
    <3> QED BY <2>2, <3>2
  <2> HIDE DEF events
  <2> QED BY <1>1, <2>1, <2>3, <2>4, ListReread, ListUnmentioned
<1>4. ASSUME NEW c \in Consumers, SendRecheck(c)
      PROVE  WillList(d, ch)' <=> WillList(d, ch)
  <2> DEFINE e == [type |-> "recheck"]
             events == << e >>
  <2>1. /\ e \in Event /\ e.type = "recheck" /\ events \in Seq(Event)
        /\ Len(events) = 1 /\ events[1] = e /\ Deliver(c, events)
    BY <1>4 DEF Event, SendRecheck
  <2> HIDE DEF e, events
  <2> QED BY <1>1, <2>1, ListSent
<1> QED BY <1>1, <1>2, <1>3, <1>4 DEF ExpireJob, ChangePermission

(* With one worker, a live connection that is in a group lists it, or has   *)
(* the news in its mailbox, or is about to get it, provided that no job     *)
(* breaks off between joining a group and saying so (one that does, after   *)
(* the client has left, joins a consumer to a group it will not know of).   *)
THEOREM MembershipsKnown ==
    ASSUME OneWorker
    PROVE  Spec /\ [][JoinIsReported]_vars => []MembershipKnown
<1> DEFINE Inv == \A c \in Consumers, ch \in ContextChannel : Known(c, ch)
<1>1. Init => Inv
  BY DEF Init, Known, Listening
<1>2. ASSUME TypeInv, MembersInv, JobsInv, Inv, [Next]_vars, [JoinIsReported]_vars
      PROVE  Inv'
  <2> SUFFICES ASSUME NEW d \in Consumers, NEW ch \in ContextChannel
               PROVE  Known(d, ch)'
    OBVIOUS
  <2>0. Known(d, ch)
    BY <1>2
  <2>1. ASSUME NEW c \in Consumers, ConsumerStep(c)
        PROVE  Known(d, ch)'
    BY <1>2, <2>0, <2>1, ConsumerKnown
  <2>2. CASE \/ ExpireJob
             \/ \E u \in Users : ChangePermission(u) \/ Logout(u)
             \/ \E c \in Consumers : SendRecheck(c)
             \/ UNCHANGED vars
    BY <1>2, <2>0, <2>2, OthersKnown, KnownFrame DEF Listening
  <2>3. ASSUME NEW w \in Workers, ~UNCHANGED vars,
               TakeJob(w) \/ RunJob(w) \/ JobRaises(w) \/ HorseKilled(w)
        PROVE  Known(d, ch)'
    BY <1>2, <2>0, <2>3, WorkerKnown
  <2> QED BY <1>2, <2>1, <2>2, <2>3 DEF Next
<1>3. Inv => MembershipKnown
  BY DEF Known, AboutToSay, MembershipKnown
<1> HIDE DEF Inv
<1> QED BY <1>1, <1>2, <1>3, JobsInvariant, MembersInvariant, TypeCorrect, PTL
        DEF Spec, TypeInv

-----------------------------------------------------------------------------
(* What a recheck took the consumer out of goes off its list *)

Subscribing(c, ch) ==
    \E i \in 1 .. Len(queue) : /\ queue[i].kind = "subscribe"
                               /\ queue[i].consumer = c
                               /\ ch \in queue[i].channels

(* LeftIsRun of one worker, connection and channel, unless the Left         *)
(* messages became a batch.                                                 *)
Forgotten(w, c, ch) ==
    /\ Running(w, "recheck", "status") /\ job[w].consumer = c /\ Listening(c)
    /\ Len(lefts[w]) < 3
    /\ \E i \in 1 .. Len(lefts[w]) : lefts[w][i] = ch
    => ~WillList(c, ch) \/ Subscribing(c, ch)

(* No recheck leaves three channels at once.                                *)
FewLefts == \A w \in Workers : Len(lefts[w]) < 3

LEMMA AppendKeepsSubscribing ==
    ASSUME TypeInv, NEW j \in Job, queue' = Append(queue, j), NEW c \in Consumers,
           NEW ch \in ContextChannel
    PROVE  /\ Subscribing(c, ch) => Subscribing(c, ch)'
           /\ j.kind = "subscribe" /\ j.consumer = c /\ ch \in j.channels
              => Subscribing(c, ch)'
<1>1. queue \in Seq(Job)
  BY DEF TypeInv, TypeOK
<1>2. \A i \in 1 .. Len(queue) : i \in 1 .. Len(queue') /\ queue'[i] = queue[i]
  BY <1>1
<1>3. Len(queue) + 1 \in 1 .. Len(queue') /\ queue'[Len(queue) + 1] = j
  BY <1>1
<1> QED BY <1>2, <1>3 DEF Subscribing

(* A list that does not grow, but by a command that is queued.              *)
LEMMA ForgottenFrame ==
    ASSUME NEW w \in Workers, NEW c \in Consumers, NEW ch \in ContextChannel,
           Forgotten(w, c, ch), UNCHANGED <<pc, job, lefts>>,
           Running(w, "recheck", "status") /\ job[w].consumer = c /\ Listening(c)'
           => Listening(c),
           Listening(c) /\ WillList(c, ch)' => WillList(c, ch) \/ Subscribing(c, ch)',
           Subscribing(c, ch) => Subscribing(c, ch)'
    PROVE  Forgotten(w, c, ch)'
BY DEF Forgotten, Running

LEMMA ConsumerForgotten ==
    ASSUME TypeInv, MembersInv, NEW d \in Consumers, ConsumerStep(d),
           NEW w \in Workers, NEW c \in Consumers, NEW ch \in ContextChannel,
           Forgotten(w, c, ch)
    PROVE  Forgotten(w, c, ch)'
<1> USE DEF appVars, connVars, layerVars, workerVars, clientVars
<1>0. UNCHANGED <<pc, job, lefts>>
  BY DEF ConsumerStep, HandleEvent, Authenticate, AcceptAnonymous, Accept,
         ReceiveSubscribe, ReceiveLeave, HandleSubscribed, HandleLeft, HandleBatch,
         HandleError, HandleRecheck, HandleClose, Disconnect, Crash
<1>1. ASSUME NEW e \in Consumers, NEW joined \in ContextChannel,
             NEW r \in Requests \cup {None}, QueueSubscribe(e, joined, r)
      PROVE  /\ Subscribing(c, ch) => Subscribing(c, ch)'
             /\ e = c /\ joined = ch => Subscribing(c, ch)'
  <2>1. /\ SubscribeJob(e, joined, r) \in Job
        /\ SubscribeJob(e, joined, r).kind = "subscribe"
        /\ SubscribeJob(e, joined, r).consumer = e
        /\ SubscribeJob(e, joined, r).channels = {joined}
    BY JobType DEF SubscribeJob
  <2> QED BY <1>1, <2>1, AppendKeepsSubscribing DEF QueueSubscribe
<1>2. Subscribing(c, ch) => Subscribing(c, ch)'
  <2>1. CASE Accept(d)
    <3>1. UserChannel(user[d]) \in ContextChannel
      BY <2>1 DEF Accept, ContextChannel, UserChannels, TypeInv, TypeOK
    <3>2. QueueSubscribe(d, UserChannel(user[d]), None) \/ UNCHANGED queue
      BY <2>1 DEF Accept
    <3> QED BY <1>1, <3>1, <3>2 DEF Subscribing
  <2>2. CASE ReceiveSubscribe(d)
    BY <1>1, <2>2 DEF ReceiveSubscribe
  <2>3. CASE HandleRecheck(d)
    <3>1. RecheckJob(d, subs[d]) \in Job
      BY DEF RecheckJob, Job, TypeInv, TypeOK
    <3> QED BY <2>3, <3>1, AppendKeepsSubscribing DEF HandleRecheck, Subscribing
  <2>4. CASE ~(Accept(d) \/ ReceiveSubscribe(d) \/ HandleRecheck(d))
    <3>1. UNCHANGED queue
      BY <2>4 DEF ConsumerStep, HandleEvent, Authenticate, AcceptAnonymous, ReceiveLeave,
           HandleSubscribed, HandleLeft, HandleBatch, HandleError, HandleClose, Disconnect, Crash
    <3> QED BY <3>1 DEF Subscribing
  <2> QED BY <2>1, <2>2, <2>3, <2>4
<1>3. CASE d # c
  <2>1. mailbox'[c] = mailbox[c] /\ subs'[c] = subs[c] /\ state'[c] = state[c]
    BY <1>3 DEF ConsumerStep, HandleEvent, Authenticate, AcceptAnonymous, Accept,
         ReceiveSubscribe, ReceiveLeave, HandleSubscribed, HandleLeft, HandleBatch,
         HandleError, HandleRecheck, HandleClose, Disconnect, Crash, Takes, QueueSubscribe,
         TypeInv, TypeOK
  <2> QED BY <1>0, <1>2, <2>1, ListReread, ForgottenFrame DEF Listening
<1>4. CASE d = c /\ (Authenticate(c) \/ AcceptAnonymous(c) \/ Accept(c))
  <2>1. ~Accepted(c) /\ ~Listening(c)
    BY <1>4 DEF Authenticate, AcceptAnonymous, Accept, Accepted, Listening
  <2>2. ~(Running(w, "recheck", "status") /\ job[w].consumer = c)
    BY <2>1 DEF MembersInv, WorkersEntitled, Running
  <2> QED BY <1>0, <1>2, <2>1, <2>2, ForgottenFrame
<1>5. CASE d = c /\ ReceiveSubscribe(c)
  <2>1. PICK joined \in ContextChannel, r \in Requests : QueueSubscribe(c, joined, r)
    BY <1>5 DEF ReceiveSubscribe
  <2>2. UNCHANGED <<mailbox, state>> /\ subs'[c] = subs[c] \cup {joined}
    BY <1>5, <2>1 DEF ReceiveSubscribe, QueueSubscribe, TypeInv, TypeOK
  <2>3. CASE ch = joined
    BY <1>0, <1>1, <2>1, <2>2, <2>3, ForgottenFrame DEF Listening
  <2>4. CASE ch # joined
    BY <1>0, <1>2, <2>2, <2>4, ListReread, ForgottenFrame DEF Listening
  <2> QED BY <2>3, <2>4
<1>6. CASE d = c /\ ReceiveLeave(c)
  <2>1. UNCHANGED <<mailbox, state>> /\ subs'[c] \subseteq subs[c]
    BY <1>6 DEF ReceiveLeave, TypeInv, TypeOK
  <2> QED BY <1>0, <1>2, <2>1, ListReread, ForgottenFrame DEF Listening
<1>7. CASE d = c /\ HandleEvent(c)
  <2>1. Listening(c)
    BY <1>7 DEF HandleEvent, HandleSubscribed, HandleLeft, HandleBatch, HandleError,
                HandleRecheck, HandleClose, Takes
  <2>2. WillList(c, ch)' <=> WillList(c, ch)
    BY <1>7, EventKeepsList
  <2> QED BY <1>0, <1>2, <2>1, <2>2, ForgottenFrame
<1>8. CASE d = c /\ (Disconnect(c) \/ Crash(c))
  <2>1. ~Listening(c)'
    BY <1>8 DEF Disconnect, Crash, Listening, TypeInv, TypeOK
  <2> QED BY <2>1 DEF Forgotten
<1> QED BY <1>3, <1>4, <1>5, <1>6, <1>7, <1>8 DEF ConsumerStep

LEMMA WorkerForgotten ==
    ASSUME OneWorker, TypeInv, NEW w \in Workers,
           TakeJob(w) \/ RunJob(w) \/ JobRaises(w) \/ HorseKilled(w),
           NEW c \in Consumers, NEW ch \in ContextChannel
    PROVE  Forgotten(w, c, ch)'
<1> USE DEF connVars, layerVars, clientVars
<1>1. CASE RecheckCommit(w)
  <2>1. /\ UNCHANGED <<state, job, lefts>> /\ lefts[w] \in Seq(ContextChannel)
        /\ Deliver(job[w].consumer, LeftEvents(lefts[w]))
    BY <1>1 DEF RecheckCommit, TypeInv, TypeOK
  <2>2. ASSUME job[w].consumer = c, Listening(c), Len(lefts[w]) < 3,
               NEW i \in 1 .. Len(lefts[w]), lefts[w][i] = ch
        PROVE  ~WillList(c, ch)'
    <3> DEFINE events == LeftEvents(lefts[w])
    <3>1. events \in Seq(Event)
      BY <2>1, LeftEventsType
    <3>2. /\ i \in 1 .. Len(events) /\ events[i].type = "left" /\ events[i].channel = ch
          /\ \A j \in 1 .. Len(events) : events[j].type # "subscribed"
      BY <2>1, <2>2 DEF LeftEvents
    <3>3. mailbox'[c] = mailbox[c] \o events
      BY <2>1, <2>2 DEF Deliver, TypeInv, TypeOK
    <3> HIDE DEF events
    <3> QED BY <3>1, <3>2, <3>3, ListLeft
  <2> QED BY <2>1, <2>2 DEF Forgotten, Listening
<1>2. CASE SubscribeCommit(w)
  <2>1. job'[w].kind = "subscribe"
    BY <1>2 DEF SubscribeCommit, Running
  <2> QED BY <2>1 DEF Forgotten, Running
<1>3. CASE ~(RecheckCommit(w) \/ SubscribeCommit(w))
  <2>1. pc'[w] # "status"
    BY <1>3 DEF RunJob, TakeJob, JobRaises, HorseKilled, SubscribeAllowed, SubscribeRefused,
         SubscribeJoin, RecheckAllowed, RecheckRefused, RecheckLeave, UpdateStatus, Finish,
         GoTo, Running, TypeInv, TypeOK
  <2> QED BY <2>1 DEF Forgotten, Running
<1> QED BY <1>1, <1>2, <1>3

(* With one worker, once the Left messages of a recheck are sent, the       *)
(* consumer that reads its mail ends up not listing what it was taken out   *)
(* of, unless its client's new command for it still waits: provided that    *)
(* the messages do not become a batch, which nobody runs, and that RQ lets  *)
(* no command expire.                                                       *)
THEOREM LeftsAreRun ==
    ASSUME OneWorker
    PROVE  Spec /\ []FewLefts /\ [][~ExpireJob]_vars => []LeftIsRun
<1> DEFINE Inv == \A w \in Workers, c \in Consumers, ch \in ContextChannel :
                      Forgotten(w, c, ch)
<1>1. Init => Inv
  BY DEF Init, Forgotten, Running
<1>2. ASSUME TypeInv, MembersInv, Inv, [Next]_vars, [~ExpireJob]_vars
      PROVE  Inv'
  <2> SUFFICES ASSUME NEW w \in Workers, NEW c \in Consumers, NEW ch \in ContextChannel
               PROVE  Forgotten(w, c, ch)'
    OBVIOUS
  <2>0. Forgotten(w, c, ch)
    BY <1>2
  <2>1. ASSUME NEW d \in Consumers, ConsumerStep(d)
        PROVE  Forgotten(w, c, ch)'
    BY <1>2, <2>0, <2>1, ConsumerForgotten
  <2>2. ASSUME NEW v \in Workers, TakeJob(v) \/ RunJob(v) \/ JobRaises(v) \/ HorseKilled(v)
        PROVE  Forgotten(w, c, ch)'
    <3>1. v = w
      BY DEF OneWorker
    <3> QED BY <1>2, <2>2, <3>1, WorkerForgotten
  <2>3. CASE \/ \E u \in Users : ChangePermission(u) \/ Logout(u)
             \/ \E d \in Consumers : SendRecheck(d)
             \/ UNCHANGED vars
    <3>1. UNCHANGED queue
      BY <2>3 DEF ChangePermission, Logout, SendRecheck, vars
    <3>2. Subscribing(c, ch) => Subscribing(c, ch)'
      BY <3>1 DEF Subscribing
    <3> QED BY <1>2, <2>0, <2>3, <3>2, OthersKnown, ForgottenFrame DEF Listening
  <2>4. ExpireJob => UNCHANGED vars
    BY <1>2
  <2> QED BY <1>2, <2>1, <2>2, <2>3, <2>4 DEF Next
<1>3. Inv /\ FewLefts => LeftIsRun
  BY DEF Forgotten, Subscribing, FewLefts, LeftIsRun
<1> HIDE DEF Inv
<1> QED BY <1>1, <1>2, <1>3, MembersInvariant, TypeCorrect, PTL DEF Spec, TypeInv
=============================================================================
