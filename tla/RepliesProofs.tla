--------------------------- MODULE RepliesProofs ---------------------------
(***************************************************************************)
(* What becomes of a trace id, for any number of connections, workers and  *)
(* commands and every kind of failure: Subscriptions implements            *)
(* RequestReplies, and no answer is forgotten.                             *)
(***************************************************************************)
EXTENDS SubscriptionsProofs

-----------------------------------------------------------------------------
(* A trace id is in one place at a time: in the queue, on a worker or, once *)
(* the worker has spoken, in its consumer's mailbox.                        *)

Has(w, r) == pc[w] # "idle" /\ job[w].request = r

Says(c, i, r) ==
    mailbox[c][i].type \in {"subscribed", "error"} /\ mailbox[c][i].request = r

Unsaid(r) == \A c \in Consumers : \A i \in 1 .. Len(mailbox[c]) : ~Says(c, i, r)

(* While the command waits, the client knows that much and nothing else.    *)
QueueOnce(r) ==
    \A i \in 1 .. Len(queue) : queue[i].request = r =>
        /\ queue[i].kind = "subscribe" /\ queue[i].consumer = asker[r]
        /\ answers[r] = <<"queued">> /\ Unsaid(r)
        /\ \A w \in Workers : ~Has(w, r)
        /\ \A k \in 1 .. Len(queue) : queue[k].request = r => k = i

(* So it is while a worker runs it; after the commit there may be news.     *)
WorkersOnce(r) ==
    \A w \in Workers : Has(w, r) =>
        /\ job[w].kind = "subscribe" /\ job[w].consumer = asker[r]
        /\ \A v \in Workers : Has(v, r) => v = w
        /\ pc[w] # "status" => answers[r] = <<"queued">> /\ Unsaid(r)
        /\ answers[r] \in {<<"queued">>, <<"queued", "success">>}
        /\ \A c \in Consumers : \A i \in 1 .. Len(mailbox[c]) :
               Says(c, i, r) => mailbox[c][i].type = "subscribed"

(* News is for the one who asked: at most a success and, behind it, a       *)
(* failure.                                                                 *)
MailOnce(r) ==
    \A c \in Consumers : \A i \in 1 .. Len(mailbox[c]) : Says(c, i, r) =>
        /\ c = asker[r]
        /\ mailbox[c][i].type = "subscribed" => answers[r] = <<"queued">>
        /\ answers[r] \in {<<"queued">>, <<"queued", "success">>}
        /\ \A k \in 1 .. Len(mailbox[c]) : k > i /\ Says(c, k, r) =>
               mailbox[c][i].type = "subscribed" /\ mailbox[c][k].type = "error"

Unasked(r) == asker[r] = None => answers[r] = << >>

OnceFor(r) == QueueOnce(r) /\ WorkersOnce(r) /\ MailOnce(r) /\ Unasked(r)
Once == \A r \in Requests : OnceFor(r)

-----------------------------------------------------------------------------
(* Steps that do nothing about r, or take something of it away *)

MailLeft(r) ==
    \A c \in Consumers : \E d \in {0, 1} : \A i \in 1 .. Len(mailbox'[c]) :
        Says(c, i, r)' =>
            /\ i + d \in 1 .. Len(mailbox[c]) /\ Says(c, i + d, r)
            /\ mailbox'[c][i].type = mailbox[c][i + d].type

QueueLeft(r) ==
    \E d \in {0, 1} : \A i \in 1 .. Len(queue') :
        queue'[i].request = r => i + d \in 1 .. Len(queue) /\ queue'[i] = queue[i + d]

WorkersLeft(r) ==
    \A w \in Workers : Has(w, r)' =>
        /\ Has(w, r) /\ job'[w] = job[w]
        /\ pc'[w] = "status" <=> pc[w] = "status"

(* News that is left is as it was.                                          *)
LEMMA MailLeftKeeps ==
    ASSUME TypeInv, NEW r \in Requests, MailLeft(r), MailOnce(r),
           answers'[r] = answers[r], asker'[r] = asker[r]
    PROVE  /\ MailOnce(r)'
           /\ Unsaid(r) => Unsaid(r)'
           /\ (\A c \in Consumers : \A i \in 1 .. Len(mailbox[c]) :
                   Says(c, i, r) => mailbox[c][i].type = "subscribed")
              => (\A c \in Consumers : \A i \in 1 .. Len(mailbox'[c]) :
                      Says(c, i, r)' => mailbox'[c][i].type = "subscribed")
<1>1. MailOnce(r)'
  <2> SUFFICES ASSUME NEW c \in Consumers, NEW i \in 1 .. Len(mailbox'[c]), Says(c, i, r)'
               PROVE  /\ c = asker'[r]
                      /\ mailbox'[c][i].type = "subscribed" => answers'[r] = <<"queued">>
                      /\ answers'[r] \in {<<"queued">>, <<"queued", "success">>}
                      /\ \A k \in 1 .. Len(mailbox'[c]) : k > i /\ Says(c, k, r)' =>
                             mailbox'[c][i].type = "subscribed" /\ mailbox'[c][k].type = "error"
    BY DEF MailOnce
  <2>1. PICK d \in {0, 1} : \A j \in 1 .. Len(mailbox'[c]) :
            Says(c, j, r)' =>
                /\ j + d \in 1 .. Len(mailbox[c]) /\ Says(c, j + d, r)
                /\ mailbox'[c][j].type = mailbox[c][j + d].type
    BY DEF MailLeft
  <2>2. /\ i + d \in 1 .. Len(mailbox[c]) /\ Says(c, i + d, r)
        /\ mailbox'[c][i].type = mailbox[c][i + d].type
    BY <2>1
  <2>3. ASSUME NEW k \in 1 .. Len(mailbox'[c]), k > i, Says(c, k, r)'
        PROVE  mailbox'[c][i].type = "subscribed" /\ mailbox'[c][k].type = "error"
    <3>1. /\ k + d \in 1 .. Len(mailbox[c]) /\ Says(c, k + d, r)
          /\ mailbox'[c][k].type = mailbox[c][k + d].type
      BY <2>1, <2>3
    <3>2. k + d > i + d
      BY <2>3
    <3> QED BY <2>2, <3>1, <3>2 DEF MailOnce
  <2> QED BY <2>2, <2>3 DEF MailOnce
<1>2. Unsaid(r) => Unsaid(r)'
  BY DEF Unsaid, MailLeft
<1>3. ASSUME \A c \in Consumers : \A i \in 1 .. Len(mailbox[c]) :
                 Says(c, i, r) => mailbox[c][i].type = "subscribed"
      PROVE  \A c \in Consumers : \A i \in 1 .. Len(mailbox'[c]) :
                 Says(c, i, r)' => mailbox'[c][i].type = "subscribed"
  <2> SUFFICES ASSUME NEW c \in Consumers, NEW i \in 1 .. Len(mailbox'[c]), Says(c, i, r)'
               PROVE  mailbox'[c][i].type = "subscribed"
    OBVIOUS
  <2>1. PICK d \in {0, 1} : /\ i + d \in 1 .. Len(mailbox[c]) /\ Says(c, i + d, r)
                            /\ mailbox'[c][i].type = mailbox[c][i + d].type
    BY DEF MailLeft
  <2> QED BY <1>3, <2>1
<1> QED BY <1>1, <1>2, <1>3

LEMMA Untouched ==
    ASSUME TypeInv, NEW r \in Requests, OnceFor(r),
           MailLeft(r), QueueLeft(r), WorkersLeft(r),
           answers'[r] = answers[r], asker'[r] = asker[r]
    PROVE  OnceFor(r)'
<1>1. MailOnce(r)'
  BY MailLeftKeeps DEF OnceFor
<1>2. QueueOnce(r)'
  <2> SUFFICES ASSUME NEW i \in 1 .. Len(queue'), queue'[i].request = r
               PROVE  /\ queue'[i].kind = "subscribe" /\ queue'[i].consumer = asker'[r]
                      /\ answers'[r] = <<"queued">> /\ Unsaid(r)'
                      /\ \A w \in Workers : ~Has(w, r)'
                      /\ \A k \in 1 .. Len(queue') : queue'[k].request = r => k = i
    BY DEF QueueOnce
  <2>1. PICK d \in {0, 1} : \A j \in 1 .. Len(queue') :
            queue'[j].request = r => j + d \in 1 .. Len(queue) /\ queue'[j] = queue[j + d]
    BY DEF QueueLeft
  <2>2. i + d \in 1 .. Len(queue) /\ queue'[i] = queue[i + d]
    BY <2>1
  <2>3. /\ queue'[i].kind = "subscribe" /\ queue'[i].consumer = asker[r]
        /\ answers[r] = <<"queued">> /\ Unsaid(r)
        /\ \A w \in Workers : ~Has(w, r)
        /\ \A k \in 1 .. Len(queue) : queue[k].request = r => k = i + d
    BY <2>2 DEF OnceFor, QueueOnce
  <2>4. \A k \in 1 .. Len(queue') : queue'[k].request = r => k = i
    BY <2>1, <2>3
  <2>5. \A w \in Workers : ~Has(w, r)'
    BY <2>3 DEF WorkersLeft
  <2> QED BY <2>3, <2>4, <2>5, MailLeftKeeps DEF OnceFor
<1>3. WorkersOnce(r)'
  <2> SUFFICES ASSUME NEW w \in Workers, Has(w, r)'
               PROVE  /\ job'[w].kind = "subscribe" /\ job'[w].consumer = asker'[r]
                      /\ \A v \in Workers : Has(v, r)' => v = w
                      /\ pc'[w] # "status" => answers'[r] = <<"queued">> /\ Unsaid(r)'
                      /\ answers'[r] \in {<<"queued">>, <<"queued", "success">>}
                      /\ \A c \in Consumers : \A i \in 1 .. Len(mailbox'[c]) :
                             Says(c, i, r)' => mailbox'[c][i].type = "subscribed"
    BY DEF WorkersOnce
  <2>1. Has(w, r) /\ job'[w] = job[w] /\ (pc'[w] = "status" <=> pc[w] = "status")
    BY DEF WorkersLeft
  <2>2. \A v \in Workers : Has(v, r)' => v = w
    BY <2>1 DEF WorkersLeft, OnceFor, WorkersOnce
  <2>3. /\ pc[w] # "status" => answers[r] = <<"queued">> /\ Unsaid(r)
        /\ answers[r] \in {<<"queued">>, <<"queued", "success">>}
        /\ job[w].kind = "subscribe" /\ job[w].consumer = asker[r]
        /\ \A c \in Consumers : \A i \in 1 .. Len(mailbox[c]) :
               Says(c, i, r) => mailbox[c][i].type = "subscribed"
    BY <2>1 DEF OnceFor, WorkersOnce
  <2> QED BY <2>1, <2>2, <2>3, MailLeftKeeps DEF OnceFor
<1> QED BY <1>1, <1>2, <1>3 DEF OnceFor, Unasked

(* What was there, and one event more.                                      *)
LEMMA DeliverOne ==
    ASSUME TypeInv, NEW c \in Consumers, NEW e \in Event, Deliver(c, << e >>)
    PROVE  /\ \A d \in Consumers : d # c => mailbox'[d] = mailbox[d]
           /\ Listening(c) => mailbox'[c] = Append(mailbox[c], e)
           /\ ~Listening(c) => mailbox'[c] = mailbox[c]
<1>1. mailbox[c] \o << e >> = Append(mailbox[c], e)
  BY DEF TypeInv, TypeOK
<1> QED BY <1>1 DEF Deliver, TypeInv, TypeOK

(* Events that say nothing about r change nothing about it.                 *)
LEMMA DeliverLeft ==
    ASSUME TypeInv, NEW c \in Consumers, NEW events \in Seq(Event), Deliver(c, events),
           NEW r \in Requests,
           \A i \in 1 .. Len(events) :
               ~(events[i].type \in {"subscribed", "error"} /\ events[i].request = r)
    PROVE  MailLeft(r)
<1> SUFFICES ASSUME NEW d \in Consumers, NEW i \in 1 .. Len(mailbox'[d]), Says(d, i, r)'
             PROVE  /\ i \in 1 .. Len(mailbox[d]) /\ Says(d, i, r)
                    /\ mailbox'[d][i].type = mailbox[d][i].type
  <2>1. \A j \in Nat : j + 0 = j
    OBVIOUS
  <2> QED BY <2>1 DEF MailLeft
<1>1. CASE mailbox'[d] = mailbox[d]
  BY <1>1 DEF Says
<1>2. CASE mailbox'[d] # mailbox[d]
  <2>1. mailbox'[d] = mailbox[d] \o events
    BY <1>2 DEF Deliver, TypeInv, TypeOK
  <2>2. mailbox[d] \in Seq(Event)
    BY DEF TypeInv, TypeOK
  <2>3. CASE i \in 1 .. Len(mailbox[d])
    BY <2>1, <2>2, <2>3 DEF Says
  <2>4. CASE i \notin 1 .. Len(mailbox[d])
    <3>1. /\ i - Len(mailbox[d]) \in 1 .. Len(events)
          /\ mailbox'[d][i] = events[i - Len(mailbox[d])]
      BY <2>1, <2>2, <2>4
    <3> QED BY <3>1 DEF Says
  <2> QED BY <2>3, <2>4
<1> QED BY <1>1, <1>2

LEMMA DeliverOneLeft ==
    ASSUME TypeInv, NEW c \in Consumers, NEW e \in Event, Deliver(c, << e >>),
           NEW r \in Requests, ~(e.type \in {"subscribed", "error"} /\ e.request = r)
    PROVE  MailLeft(r)
<1> DEFINE events == << e >>
<1>1. events \in Seq(Event) /\ Len(events) = 1 /\ events[1] = e /\ Deliver(c, events)
  OBVIOUS
<1> HIDE DEF events
<1>2. \A i \in 1 .. Len(events) :
          ~(events[i].type \in {"subscribed", "error"} /\ events[i].request = r)
  BY <1>1
<1> QED BY <1>1, <1>2, DeliverLeft

LEMMA SameMailLeft ==
    ASSUME UNCHANGED mailbox, NEW r \in Requests
    PROVE  MailLeft(r)
<1>1. \A c \in Consumers : \A i \in 1 .. Len(mailbox'[c]) :
          Says(c, i, r)' =>
              /\ i + 0 \in 1 .. Len(mailbox[c]) /\ Says(c, i + 0, r)
              /\ mailbox'[c][i].type = mailbox[c][i + 0].type
  BY DEF Says
<1> QED BY <1>1 DEF MailLeft

(* A mailbox whose oldest event is taken.                                   *)
LEMMA TakesLeft ==
    ASSUME TypeInv, NEW c \in Consumers, NEW type, Takes(c, type), NEW r \in Requests
    PROVE  MailLeft(r)
<1> SUFFICES ASSUME NEW d \in Consumers
             PROVE  \E k \in {0, 1} : \A i \in 1 .. Len(mailbox'[d]) :
                        Says(d, i, r)' =>
                            /\ i + k \in 1 .. Len(mailbox[d]) /\ Says(d, i + k, r)
                            /\ mailbox'[d][i].type = mailbox[d][i + k].type
  BY DEF MailLeft
<1>1. CASE d # c
  <2>1. mailbox'[d] = mailbox[d]
    BY <1>1 DEF Takes, TypeInv, TypeOK
  <2>2. \A i \in 1 .. Len(mailbox'[d]) :
            Says(d, i, r)' => /\ i + 0 \in 1 .. Len(mailbox[d]) /\ Says(d, i + 0, r)
                              /\ mailbox'[d][i].type = mailbox[d][i + 0].type
    BY <2>1 DEF Says
  <2> QED BY <2>2
<1>2. CASE d = c
  <2>1. mailbox'[d] = Tail(mailbox[d]) /\ mailbox[d] \in Seq(Event) /\ mailbox[d] # << >>
    BY <1>2 DEF Takes, TypeInv, TypeOK
  <2>2. \A i \in 1 .. Len(mailbox'[d]) :
            i + 1 \in 1 .. Len(mailbox[d]) /\ mailbox'[d][i] = mailbox[d][i + 1]
    BY <2>1
  <2>3. \A i \in 1 .. Len(mailbox'[d]) :
            Says(d, i, r)' => /\ i + 1 \in 1 .. Len(mailbox[d]) /\ Says(d, i + 1, r)
                              /\ mailbox'[d][i].type = mailbox[d][i + 1].type
    BY <2>2 DEF Says
  <2> QED BY <2>3
<1> QED BY <1>1, <1>2

(* A mailbox that is never read again.                                      *)
LEMMA EmptiedLeft ==
    ASSUME TypeInv, NEW c \in Consumers, mailbox' = [mailbox EXCEPT ![c] = << >>],
           NEW r \in Requests
    PROVE  MailLeft(r)
<1>1. \A d \in Consumers : \A i \in 1 .. Len(mailbox'[d]) :
          Says(d, i, r)' => /\ i + 0 \in 1 .. Len(mailbox[d]) /\ Says(d, i + 0, r)
                            /\ mailbox'[d][i].type = mailbox[d][i + 0].type
  BY DEF Says, TypeInv, TypeOK
<1> QED BY <1>1 DEF MailLeft

LEMMA SameQueueLeft ==
    ASSUME UNCHANGED queue, NEW r \in Requests
    PROVE  QueueLeft(r)
<1>1. \A i \in 1 .. Len(queue') :
          queue'[i].request = r => i + 0 \in 1 .. Len(queue) /\ queue'[i] = queue[i + 0]
  OBVIOUS
<1> QED BY <1>1 DEF QueueLeft

LEMMA AppendQueueLeft ==
    ASSUME TypeInv, NEW j \in Job, queue' = Append(queue, j), NEW r \in Requests, j.request # r
    PROVE  QueueLeft(r)
<1>1. \A i \in 1 .. Len(queue') :
          queue'[i].request = r => i + 0 \in 1 .. Len(queue) /\ queue'[i] = queue[i + 0]
  BY DEF TypeInv, TypeOK
<1> QED BY <1>1 DEF QueueLeft

LEMMA TailQueueLeft ==
    ASSUME TypeInv, queue # << >>, queue' = Tail(queue), NEW r \in Requests
    PROVE  QueueLeft(r)
<1>1. \A i \in 1 .. Len(queue') :
          queue'[i].request = r => i + 1 \in 1 .. Len(queue) /\ queue'[i] = queue[i + 1]
  BY DEF TypeInv, TypeOK
<1> QED BY <1>1 DEF QueueLeft

LEMMA SameWorkersLeft ==
    ASSUME UNCHANGED <<pc, job>>, NEW r \in Requests
    PROVE  WorkersLeft(r)
BY DEF WorkersLeft, Has

(* A worker that is done has nothing; the others keep what they have.       *)
LEMMA FinishLeft ==
    ASSUME TypeInv, NEW w \in Workers, Finish(w), NEW r \in Requests
    PROVE  WorkersLeft(r) /\ ~Has(w, r)'
BY DEF Finish, WorkersLeft, Has, TypeInv, TypeOK

(* A worker that goes on, but not to the bookkeeping.                       *)
LEMMA GoesOnLeft ==
    ASSUME TypeInv, NEW w \in Workers, pc[w] \notin {"idle", "status"}, UNCHANGED job,
           \/ UNCHANGED pc
           \/ \E where \in {"check", "join", "leave", "commit"} : GoTo(w, where),
           NEW r \in Requests
    PROVE  WorkersLeft(r)
BY DEF GoTo, WorkersLeft, Has, TypeInv, TypeOK

-----------------------------------------------------------------------------
(* Steps that bring r further *)

(* Nobody asked, so r is nowhere.                                           *)
LEMMA NotAskedNowhere ==
    ASSUME TypeInv, NEW r \in Requests, OnceFor(r), asker[r] = None
    PROVE  /\ \A i \in 1 .. Len(queue) : queue[i].request # r
           /\ \A w \in Workers : ~Has(w, r)
           /\ Unsaid(r)
           /\ answers[r] = << >>
<1>1. \A i \in 1 .. Len(queue) : queue[i].consumer \in Consumers
  <2>1. \A i \in 1 .. Len(queue) : queue[i] \in Job
    BY DEF TypeInv, TypeOK
  <2> QED BY <2>1 DEF Job
<1>2. \A w \in Workers : pc[w] # "idle" => job[w].consumer \in Consumers
  BY DEF TypeInv, WorkerOK, Job
<1>3. None \notin Consumers
  BY ConstantsAssumption
<1> QED
  BY <1>1, <1>2, <1>3 DEF OnceFor, QueueOnce, WorkersOnce, MailOnce, Unasked, Has, Unsaid

(* A command is queued.                                                     *)
LEMMA AskedOnce ==
    ASSUME TypeInv, NEW r \in Requests, OnceFor(r), asker[r] = None,
           NEW j \in Job, j.request = r, j.kind = "subscribe", j.consumer = asker'[r],
           queue' = Append(queue, j), answers'[r] = <<"queued">>,
           UNCHANGED <<mailbox, pc, job>>, asker'[r] # None
    PROVE  OnceFor(r)'
<1>1. Unsaid(r)' /\ \A w \in Workers : ~Has(w, r)'
  BY NotAskedNowhere DEF Unsaid, Says, Has
<1>2. \A i \in 1 .. Len(queue') : queue'[i].request = r => i = Len(queue) + 1 /\ queue'[i] = j
  BY NotAskedNowhere DEF TypeInv, TypeOK
<1>3. QueueOnce(r)'
  BY <1>1, <1>2 DEF QueueOnce
<1> QED BY <1>1, <1>3 DEF OnceFor, WorkersOnce, MailOnce, Unasked, Unsaid

(* A worker takes it.                                                       *)
LEMMA TakenOnce ==
    ASSUME TypeInv, NEW r \in Requests, OnceFor(r),
           NEW w \in Workers, TakeJob(w), Head(queue).request = r
    PROVE  OnceFor(r)'
<1>1. /\ 1 \in 1 .. Len(queue) /\ queue[1] = Head(queue) /\ queue[1].request = r
      /\ Head(queue) \in Job
  BY DEF TakeJob, TypeInv, TypeOK
<1>2. /\ queue[1].kind = "subscribe" /\ queue[1].consumer = asker[r]
      /\ answers[r] = <<"queued">> /\ Unsaid(r)
      /\ \A v \in Workers : ~Has(v, r)
      /\ \A k \in 1 .. Len(queue) : queue[k].request = r => k = 1
  BY <1>1 DEF OnceFor, QueueOnce
<1>3. UNCHANGED <<mailbox, answers, asker>>
  BY DEF TakeJob, clientVars
<1>4. Unsaid(r)'
  BY <1>2, <1>3 DEF Unsaid, Says
<1>5. QueueOnce(r)'
  <2>1. \A i \in 1 .. Len(queue') :
            i + 1 \in 1 .. Len(queue) /\ queue'[i] = queue[i + 1]
    BY <1>1 DEF TakeJob, TypeInv, TypeOK
  <2>2. \A i \in 1 .. Len(queue') : queue'[i].request # r
    BY <1>2, <2>1
  <2> QED BY <2>2 DEF QueueOnce
<1>6. /\ pc'[w] = "check" /\ job'[w] = Head(queue)
      /\ \A v \in Workers : v # w => pc'[v] = pc[v] /\ job'[v] = job[v]
  BY DEF TakeJob, GoTo, TypeInv, TypeOK
<1>7. \A v \in Workers : Has(v, r)' => v = w
  BY <1>2, <1>6 DEF Has
<1>8. WorkersOnce(r)'
  BY <1>1, <1>2, <1>3, <1>4, <1>6, <1>7 DEF WorkersOnce, Unsaid
<1> QED BY <1>2, <1>3, <1>4, <1>5, <1>8 DEF OnceFor, MailOnce, Unasked, Unsaid

(* A worker that has r, and nobody else has: r is not queued, and what the  *)
(* mail says of it is that it went well.                                    *)
LEMMA HasOnce ==
    ASSUME TypeInv, NEW r \in Requests, OnceFor(r), NEW w \in Workers, Has(w, r)
    PROVE  /\ \A i \in 1 .. Len(queue) : queue[i].request # r
           /\ job[w].kind = "subscribe" /\ job[w].consumer = asker[r]
           /\ job[w].consumer \in Consumers
           /\ job[w].request = r
           /\ \A v \in Workers : Has(v, r) => v = w
           /\ pc[w] # "status" => answers[r] = <<"queued">> /\ Unsaid(r)
           /\ answers[r] \in {<<"queued">>, <<"queued", "success">>}
           /\ \A c \in Consumers : \A i \in 1 .. Len(mailbox[c]) :
                  Says(c, i, r) => mailbox[c][i].type = "subscribed"
BY DEF OnceFor, QueueOnce, WorkersOnce, Has, TypeInv, WorkerOK, Job

(* It succeeds, and says so.                                                *)
LEMMA CommittedOnce ==
    ASSUME TypeInv, NEW r \in Requests, OnceFor(r),
           NEW w \in Workers, Has(w, r), SubscribeCommit(w)
    PROVE  OnceFor(r)'
<1> DEFINE c == job[w].consumer
<1>1. PICK ch \in todo[w] :
          Deliver(c, << [type |-> "subscribed", channel |-> ch, request |-> job[w].request] >>)
  BY DEF SubscribeCommit
<1> DEFINE e == [type |-> "subscribed", channel |-> ch, request |-> job[w].request]
<1>2. c \in Consumers /\ e \in Event /\ ch \in ContextChannel
  BY HasOnce DEF TypeInv, TypeOK, Event
<1>3. /\ \A d \in Consumers : d # c => mailbox'[d] = mailbox[d]
      /\ Listening(c) => mailbox'[c] = Append(mailbox[c], e)
      /\ ~Listening(c) => mailbox'[c] = mailbox[c]
  BY <1>1, <1>2, DeliverOne
<1>4. /\ UNCHANGED <<queue, job, answers, asker>>
      /\ pc[w] = "commit" /\ pc' = [pc EXCEPT ![w] = "status"]
  BY DEF SubscribeCommit, Running, GoTo, clientVars
<1>5. Unsaid(r) /\ answers[r] = <<"queued">> /\ c = asker[r]
  BY <1>4, HasOnce
<1>6. \A d \in Consumers : \A i \in 1 .. Len(mailbox'[d]) : Says(d, i, r)' =>
          d = c /\ i = Len(mailbox[c]) + 1 /\ mailbox'[d][i] = e
  <2> SUFFICES ASSUME NEW d \in Consumers, NEW i \in 1 .. Len(mailbox'[d]), Says(d, i, r)'
               PROVE  d = c /\ i = Len(mailbox[c]) + 1 /\ mailbox'[d][i] = e
    OBVIOUS
  <2>1. ~(i \in 1 .. Len(mailbox[d]) /\ mailbox'[d][i] = mailbox[d][i])
    BY <1>5 DEF Unsaid, Says
  <2> QED BY <1>2, <1>3, <2>1 DEF TypeInv, TypeOK
<1>7. MailOnce(r)'
  BY <1>4, <1>5, <1>6 DEF MailOnce
<1>8. QueueOnce(r)'
  BY <1>4, HasOnce DEF QueueOnce
<1>9. WorkersOnce(r)'
  <2>1. \A v \in Workers : Has(v, r)' => v = w
    BY <1>4, HasOnce DEF Has, TypeInv, TypeOK
  <2>2. pc'[w] = "status"
    BY <1>4 DEF TypeInv, TypeOK
  <2>3. \A d \in Consumers : \A i \in 1 .. Len(mailbox'[d]) :
            Says(d, i, r)' => mailbox'[d][i].type = "subscribed"
    BY <1>6
  <2> QED BY <1>4, <1>5, <2>1, <2>2, <2>3, HasOnce DEF WorkersOnce
<1> QED BY <1>4, <1>5, <1>7, <1>8, <1>9 DEF OnceFor, Unasked

(* It fails, and says so.                                                   *)
LEMMA FailedOnce ==
    ASSUME TypeInv, NEW r \in Requests, OnceFor(r),
           NEW w \in Workers, Has(w, r), SendError(w), Finish(w),
           UNCHANGED <<queue, answers, asker>>
    PROVE  OnceFor(r)'
<1> DEFINE c == job[w].consumer
<1> DEFINE e == [type |-> "error", request |-> job[w].request]
<1>1. c \in Consumers /\ e \in Event /\ c = asker[r] /\ e.request = r /\ e.type = "error"
  BY HasOnce DEF Event
<1>2. /\ \A d \in Consumers : d # c => mailbox'[d] = mailbox[d]
      /\ Listening(c) => mailbox'[c] = Append(mailbox[c], e)
      /\ ~Listening(c) => mailbox'[c] = mailbox[c]
  BY <1>1, DeliverOne DEF SendError
<1> HIDE DEF e
<1>3. \A d \in Consumers : \A i \in 1 .. Len(mailbox'[d]) : Says(d, i, r)' =>
          \/ i \in 1 .. Len(mailbox[d]) /\ Says(d, i, r) /\ mailbox'[d][i] = mailbox[d][i]
          \/ d = c /\ i = Len(mailbox[c]) + 1 /\ mailbox'[d][i] = e
             /\ Len(mailbox'[d]) = Len(mailbox[d]) + 1
  <2> SUFFICES ASSUME NEW d \in Consumers, NEW i \in 1 .. Len(mailbox'[d]), Says(d, i, r)'
               PROVE  \/ i \in 1 .. Len(mailbox[d]) /\ Says(d, i, r)
                         /\ mailbox'[d][i] = mailbox[d][i]
                      \/ d = c /\ i = Len(mailbox[c]) + 1 /\ mailbox'[d][i] = e
                         /\ Len(mailbox'[d]) = Len(mailbox[d]) + 1
    OBVIOUS
  <2>1. \/ i \in 1 .. Len(mailbox[d]) /\ mailbox'[d][i] = mailbox[d][i]
        \/ d = c /\ i = Len(mailbox[c]) + 1 /\ mailbox'[d][i] = e
           /\ Len(mailbox'[d]) = Len(mailbox[d]) + 1
    <3>1. mailbox[c] \in Seq(Event) /\ mailbox[d] \in Seq(Event)
      BY <1>1 DEF TypeInv, TypeOK
    <3>2. CASE mailbox'[d] = mailbox[d]
      BY <3>2
    <3>3. CASE d = c /\ mailbox'[c] = Append(mailbox[c], e)
      BY <1>1, <3>1, <3>3
    <3> QED BY <1>2, <3>2, <3>3
  <2> QED BY <2>1 DEF Says
<1>4. MailOnce(r)'
  <2> SUFFICES ASSUME NEW d \in Consumers, NEW i \in 1 .. Len(mailbox'[d]), Says(d, i, r)'
               PROVE  /\ d = asker[r]
                      /\ mailbox'[d][i].type = "subscribed" => answers[r] = <<"queued">>
                      /\ answers[r] \in {<<"queued">>, <<"queued", "success">>}
                      /\ \A k \in 1 .. Len(mailbox'[d]) : k > i /\ Says(d, k, r)' =>
                             mailbox'[d][i].type = "subscribed" /\ mailbox'[d][k].type = "error"
    BY DEF MailOnce
  <2>1. CASE i \in 1 .. Len(mailbox[d]) /\ Says(d, i, r) /\ mailbox'[d][i] = mailbox[d][i]
    <3>1. mailbox[d][i].type = "subscribed"
      BY <2>1, HasOnce
    <3>2. ASSUME NEW k \in 1 .. Len(mailbox'[d]), k > i, Says(d, k, r)'
          PROVE  mailbox'[d][k].type = "error"
      <4>1. CASE k \in 1 .. Len(mailbox[d]) /\ Says(d, k, r) /\ mailbox'[d][k] = mailbox[d][k]
        BY <2>1, <3>2, <4>1 DEF OnceFor, MailOnce
      <4>2. CASE mailbox'[d][k] = e
        BY <1>1, <4>2
      <4> QED BY <1>3, <3>2, <4>1, <4>2
    <3> QED BY <2>1, <3>1, <3>2 DEF OnceFor, MailOnce
  <2>2. CASE d = c /\ i = Len(mailbox[c]) + 1 /\ mailbox'[d][i] = e
             /\ Len(mailbox'[d]) = Len(mailbox[d]) + 1
    BY <1>1, <2>2, HasOnce
  <2> QED BY <1>3, <2>1, <2>2
<1>5. QueueOnce(r)'
  BY HasOnce DEF QueueOnce
<1>6. WorkersOnce(r)'
  BY HasOnce, FinishLeft DEF WorkersOnce, WorkersLeft
<1>7. Unasked(r)'
  BY DEF OnceFor, Unasked
<1> QED BY <1>4, <1>5, <1>6, <1>7 DEF OnceFor

(* The event a consumer takes.                                              *)
LEMMA TakenEvent ==
    ASSUME TypeInv, NEW c \in Consumers, NEW type, Takes(c, type)
    PROVE  /\ 1 \in 1 .. Len(mailbox[c]) /\ mailbox[c][1] = Head(mailbox[c])
           /\ Head(mailbox[c]) \in Event /\ Head(mailbox[c]).type = type
           /\ \A d \in Consumers : \A i \in 1 .. Len(mailbox'[d]) :
                  \/ d # c /\ i \in 1 .. Len(mailbox[d]) /\ mailbox'[d][i] = mailbox[d][i]
                  \/ /\ d = c /\ i + 1 \in 1 .. Len(mailbox[d])
                     /\ mailbox'[d][i] = mailbox[d][i + 1]
<1>1. mailbox[c] \in Seq(Event) /\ mailbox[c] # << >>
  BY DEF Takes, TypeInv, TypeOK
<1>2. Head(mailbox[c]).type = type /\ mailbox' = [mailbox EXCEPT ![c] = Tail(@)]
  BY DEF Takes
<1>3. \A i \in 1 .. Len(Tail(mailbox[c])) :
          i + 1 \in 1 .. Len(mailbox[c]) /\ Tail(mailbox[c])[i] = mailbox[c][i + 1]
  BY <1>1
<1> QED BY <1>1, <1>2, <1>3 DEF TypeInv, TypeOK

LEMMA TwoElements ==
    ASSUME NEW S, NEW s \in Seq(S), Len(s) = 2
    PROVE  s = << s[1], s[2] >>
OBVIOUS

LEMMA AppendToOne ==
    ASSUME NEW S, NEW a \in S, NEW b \in S
    PROVE  Append(<< a >>, b) = << a, b >>
<1> DEFINE one == << a >>
           two == Append(one, b)
<1>1. one \in Seq(S) /\ Len(one) = 1 /\ one[1] = a
  OBVIOUS
<1> HIDE DEF one
<1>2. /\ two \in Seq(S) /\ Len(two) = Len(one) + 1 /\ two[Len(one) + 1] = b
      /\ \A i \in 1 .. Len(one) : two[i] = one[i]
  BY <1>1, AppendProperties, Zenon
<1> HIDE DEF two
<1>3. Len(two) = 2 /\ two[1] = a /\ two[2] = b
  BY <1>1, <1>2
<1>4. two = << two[1], two[2] >>
  BY <1>2, <1>3, TwoElements
<1> QED BY <1>3, <1>4 DEF two, one

(* The client is told that it succeeded.                                    *)
LEMMA SucceededOnce ==
    ASSUME TypeInv, NEW r \in Requests, OnceFor(r), NEW c \in Consumers,
           HandleSubscribed(c), Head(mailbox[c]).request = r
    PROVE  OnceFor(r)' /\ answers[r] = <<"queued">> /\ answers'[r] = <<"queued", "success">>
<1>1. Says(c, 1, r) /\ 1 \in 1 .. Len(mailbox[c]) /\ mailbox[c][1].type = "subscribed"
  BY TakenEvent DEF HandleSubscribed, Says
<1>2. c = asker[r] /\ answers[r] = <<"queued">>
  BY <1>1 DEF OnceFor, MailOnce
<1>3. answers'[r] = <<"queued", "success">> /\ UNCHANGED <<queue, pc, job, asker>>
  <2>1. Append(<<"queued">>, "success") = <<"queued", "success">>
    <3> DEFINE S == {"queued", "success"}
    <3>1. "queued" \in S /\ "success" \in S
      OBVIOUS
    <3> HIDE DEF S
    <3> QED BY <3>1, AppendToOne, Zenon
  <2>2. answers' = [answers EXCEPT ![r] = Append(@, "success")]
    BY DEF HandleSubscribed, Answer
  <2>3. answers'[r] = Append(answers[r], "success")
    BY <2>2 DEF TypeInv, TypeOK
  <2> QED BY <1>2, <2>1, <2>3 DEF HandleSubscribed, workerVars
<1>4. \A d \in Consumers : \A i \in 1 .. Len(mailbox'[d]) : Says(d, i, r)' =>
          /\ d = c /\ i + 1 \in 1 .. Len(mailbox[c]) /\ Says(c, i + 1, r)
          /\ mailbox'[d][i] = mailbox[c][i + 1]
  <2> SUFFICES ASSUME NEW d \in Consumers, NEW i \in 1 .. Len(mailbox'[d]), Says(d, i, r)'
               PROVE  /\ d = c /\ i + 1 \in 1 .. Len(mailbox[c]) /\ Says(c, i + 1, r)
                      /\ mailbox'[d][i] = mailbox[c][i + 1]
    OBVIOUS
  <2>1. CASE d # c /\ i \in 1 .. Len(mailbox[d]) /\ mailbox'[d][i] = mailbox[d][i]
    BY <1>2, <2>1 DEF OnceFor, MailOnce, Says
  <2>2. CASE d = c /\ i + 1 \in 1 .. Len(mailbox[d]) /\ mailbox'[d][i] = mailbox[d][i + 1]
    BY <2>2 DEF Says
  <2> QED BY <2>1, <2>2, TakenEvent DEF HandleSubscribed
<1>5. \A i \in 1 .. Len(mailbox[c]) : i > 1 /\ Says(c, i, r) => mailbox[c][i].type = "error"
  BY <1>1 DEF OnceFor, MailOnce
<1>6. MailOnce(r)'
  <2> SUFFICES ASSUME NEW d \in Consumers, NEW i \in 1 .. Len(mailbox'[d]), Says(d, i, r)'
               PROVE  /\ d = asker[r]
                      /\ mailbox'[d][i].type = "error"
                      /\ \A k \in 1 .. Len(mailbox'[d]) : ~(k > i /\ Says(d, k, r)')
    BY <1>3 DEF MailOnce
  <2>1. /\ d = c /\ i + 1 \in 1 .. Len(mailbox[c]) /\ Says(c, i + 1, r)
        /\ mailbox'[d][i] = mailbox[c][i + 1] /\ i + 1 > 1
    BY <1>4
  <2>2. ASSUME NEW k \in 1 .. Len(mailbox'[d]), k > i, Says(d, k, r)'
        PROVE  FALSE
    <3>1. k + 1 \in 1 .. Len(mailbox[c]) /\ Says(c, k + 1, r) /\ k + 1 > i + 1
      BY <1>4, <2>2
    <3> QED BY <1>5, <2>1, <3>1 DEF OnceFor, MailOnce
  <2> QED BY <1>2, <1>5, <2>1, <2>2
<1>7. \A i \in 1 .. Len(queue) : queue[i].request # r
  BY <1>1 DEF OnceFor, QueueOnce, Unsaid
<1>8. QueueOnce(r)'
  BY <1>3, <1>7 DEF QueueOnce
<1>9. WorkersOnce(r)'
  <2> SUFFICES ASSUME NEW w \in Workers, Has(w, r)
               PROVE  /\ job[w].kind = "subscribe" /\ job[w].consumer = asker[r]
                      /\ \A v \in Workers : Has(v, r) => v = w
                      /\ pc[w] = "status"
                      /\ \A d \in Consumers : \A i \in 1 .. Len(mailbox'[d]) :
                             Says(d, i, r)' => mailbox'[d][i].type = "subscribed"
    BY <1>3 DEF WorkersOnce, Has
  <2>1. pc[w] = "status"
    BY <1>1, HasOnce DEF Unsaid
  <2> QED BY <1>4, <2>1, HasOnce
<1> QED BY <1>2, <1>3, <1>6, <1>8, <1>9 DEF OnceFor, Unasked

(* The client is told that it failed, and that is the last of it.           *)
LEMMA RefusedOnce ==
    ASSUME TypeInv, NEW r \in Requests, OnceFor(r), NEW c \in Consumers,
           HandleError(c), Head(mailbox[c]).request = r
    PROVE  /\ OnceFor(r)'
           /\ answers[r] \in {<<"queued">>, <<"queued", "success">>}
           /\ answers'[r] = Append(answers[r], "failed")
<1>1. Says(c, 1, r) /\ 1 \in 1 .. Len(mailbox[c]) /\ mailbox[c][1].type = "error"
  BY TakenEvent DEF HandleError, Says
<1>2. c = asker[r] /\ answers[r] \in {<<"queued">>, <<"queued", "success">>}
  BY <1>1 DEF OnceFor, MailOnce
<1>3. answers'[r] = Append(answers[r], "failed") /\ UNCHANGED <<queue, pc, job, asker>>
  BY DEF HandleError, Answer, TypeInv, TypeOK, workerVars
<1>4. Unsaid(r)'
  <2> SUFFICES ASSUME NEW d \in Consumers, NEW i \in 1 .. Len(mailbox'[d]), Says(d, i, r)'
               PROVE  FALSE
    BY DEF Unsaid
  <2>1. CASE d # c /\ i \in 1 .. Len(mailbox[d]) /\ mailbox'[d][i] = mailbox[d][i]
    BY <1>2, <2>1 DEF OnceFor, MailOnce, Says
  <2>2. CASE d = c /\ i + 1 \in 1 .. Len(mailbox[d]) /\ mailbox'[d][i] = mailbox[d][i + 1]
    <3>1. Says(c, i + 1, r) /\ i + 1 > 1
      BY <2>2 DEF Says
    <3> QED BY <1>1, <2>2, <3>1 DEF OnceFor, MailOnce
  <2> QED BY <2>1, <2>2, TakenEvent DEF HandleError
<1>5. QueueOnce(r)'
  BY <1>1, <1>3 DEF OnceFor, QueueOnce, Unsaid
<1>6. WorkersOnce(r)'
  BY <1>1, <1>3, HasOnce DEF WorkersOnce, Has
<1>7. MailOnce(r)'
  BY <1>4 DEF MailOnce, Unsaid
<1>8. asker'[r] # None
  BY <1>2, <1>3, ConstantsAssumption
<1> QED BY <1>2, <1>3, <1>5, <1>6, <1>7, <1>8 DEF OnceFor, Unasked

-----------------------------------------------------------------------------
(* Every step *)

LEMMA ConsumerOnce ==
    ASSUME TypeInv, Once, NEW c \in Consumers, ConsumerStep(c)
    PROVE  Once'
<1> SUFFICES ASSUME NEW r \in Requests
             PROVE  OnceFor(r)'
  BY DEF Once
<1>0. OnceFor(r)
  BY DEF Once
<1> USE DEF appVars, connVars, layerVars, workerVars, clientVars
<1>1. CASE Authenticate(c) \/ AcceptAnonymous(c) \/ ReceiveLeave(c)
  BY <1>0, <1>1, Untouched, SameMailLeft, SameQueueLeft, SameWorkersLeft
     DEF Authenticate, AcceptAnonymous, ReceiveLeave
<1>2. CASE Accept(c)
  <2>1. UNCHANGED <<mailbox, pc, job, asker>>
    BY <1>2 DEF Accept
  <2>2. QueueLeft(r) /\ answers' = answers
    <3>1. CASE UNCHANGED <<queue, answers>>
      BY <3>1, SameQueueLeft
    <3>2. CASE QueueSubscribe(c, UserChannel(user[c]), None)
      <4> DEFINE j == SubscribeJob(c, UserChannel(user[c]), None)
      <4>1. UserChannel(user[c]) \in ContextChannel
        BY <1>2 DEF Accept, ContextChannel, UserChannels, TypeInv, TypeOK
      <4>2. j \in Job /\ j.request # r
        BY <4>1, JobType, ConstantsAssumption DEF SubscribeJob
      <4>3. queue' = Append(queue, j) /\ answers' = answers
        BY <3>2, ConstantsAssumption DEF QueueSubscribe, Answer
      <4> HIDE DEF j
      <4> QED BY <4>2, <4>3, AppendQueueLeft
    <3> QED BY <1>2, <3>1, <3>2 DEF Accept
  <2> QED BY <1>0, <2>1, <2>2, Untouched, SameMailLeft, SameWorkersLeft
<1>3. CASE ReceiveSubscribe(c)
  <2>1. PICK ch \in ContextChannel, q \in Requests :
            /\ asker[q] = None /\ asker' = [asker EXCEPT ![q] = c]
            /\ QueueSubscribe(c, ch, q)
    BY <1>3 DEF ReceiveSubscribe
  <2> DEFINE j == SubscribeJob(c, ch, q)
  <2>2. /\ j \in Job /\ j.request = q /\ j.kind = "subscribe" /\ j.consumer = c
        /\ queue' = Append(queue, j)
        /\ answers' = [answers EXCEPT ![q] = Append(@, "queued")]
    BY <2>1, JobType DEF SubscribeJob, QueueSubscribe, Answer
  <2> HIDE DEF j
  <2>3. UNCHANGED <<mailbox, pc, job>>
    BY <1>3 DEF ReceiveSubscribe
  <2>4. CASE q = r
    <3>1. answers[r] = << >>
      BY <1>0, <2>1, <2>4, NotAskedNowhere
    <3>2. answers'[r] = <<"queued">> /\ asker'[r] = c /\ c # None
      BY <2>1, <2>2, <2>4, <3>1, ConstantsAssumption DEF TypeInv, TypeOK
    <3> QED BY <1>0, <2>1, <2>2, <2>3, <2>4, <3>2, AskedOnce
  <2>5. CASE q # r
    <3>1. answers'[r] = answers[r] /\ asker'[r] = asker[r]
      BY <2>1, <2>2, <2>5 DEF TypeInv, TypeOK
    <3> QED
      BY <1>0, <2>2, <2>3, <2>5, <3>1, Untouched, SameMailLeft, AppendQueueLeft, SameWorkersLeft
  <2> QED BY <2>4, <2>5
<1>4. CASE HandleSubscribed(c)
  <2>1. CASE Head(mailbox[c]).request = r
    BY <1>0, <1>4, <2>1, SucceededOnce
  <2>2. CASE Head(mailbox[c]).request # r
    <3>1. answers'[r] = answers[r] /\ UNCHANGED <<queue, pc, job, asker>>
      BY <1>4, <2>2 DEF HandleSubscribed, Answer, TypeInv, TypeOK
    <3>2. MailLeft(r)
      BY <1>4, TakesLeft DEF HandleSubscribed
    <3> QED BY <1>0, <3>1, <3>2, Untouched, SameQueueLeft, SameWorkersLeft
  <2> QED BY <2>1, <2>2
<1>5. CASE HandleError(c)
  <2>1. CASE Head(mailbox[c]).request = r
    BY <1>0, <1>5, <2>1, RefusedOnce
  <2>2. CASE Head(mailbox[c]).request # r
    <3>1. answers'[r] = answers[r] /\ UNCHANGED <<queue, pc, job, asker>>
      BY <1>5, <2>2 DEF HandleError, Answer, TypeInv, TypeOK
    <3>2. MailLeft(r)
      BY <1>5, TakesLeft DEF HandleError
    <3> QED BY <1>0, <3>1, <3>2, Untouched, SameQueueLeft, SameWorkersLeft
  <2> QED BY <2>1, <2>2
<1>6. CASE HandleLeft(c) \/ HandleBatch(c) \/ HandleClose(c)
  <2>1. MailLeft(r)
    BY <1>6, TakesLeft DEF HandleLeft, HandleBatch, HandleClose
  <2> QED BY <1>0, <1>6, <2>1, Untouched, SameQueueLeft, SameWorkersLeft
          DEF HandleLeft, HandleBatch, HandleClose
<1>7. CASE HandleRecheck(c)
  <2>1. MailLeft(r) /\ UNCHANGED <<pc, job, answers, asker>>
    BY <1>7, TakesLeft DEF HandleRecheck
  <2>2. RecheckJob(c, subs[c]) \in Job /\ RecheckJob(c, subs[c]).request # r
    BY ConstantsAssumption DEF RecheckJob, Job, TypeInv, TypeOK
  <2>3. QueueLeft(r)
    BY <1>7, <2>2, SameQueueLeft, AppendQueueLeft DEF HandleRecheck
  <2> QED BY <1>0, <2>1, <2>3, Untouched, SameWorkersLeft
<1>8. CASE Disconnect(c) \/ Crash(c)
  <2>1. MailLeft(r)
    BY <1>8, EmptiedLeft DEF Disconnect, Crash
  <2> QED BY <1>0, <1>8, <2>1, Untouched, SameQueueLeft, SameWorkersLeft DEF Disconnect, Crash
<1> QED
  BY <1>1, <1>2, <1>3, <1>4, <1>5, <1>6, <1>7, <1>8 DEF ConsumerStep, HandleEvent

LEMMA WorkerOnce ==
    ASSUME TypeInv, Once, NEW w \in Workers,
           TakeJob(w) \/ RunJob(w) \/ JobRaises(w) \/ HorseKilled(w)
    PROVE  Once'
<1> SUFFICES ASSUME NEW r \in Requests
             PROVE  OnceFor(r)'
  BY DEF Once
<1>0. OnceFor(r)
  BY DEF Once
<1> USE DEF clientVars
<1>1. CASE TakeJob(w)
  <2>1. CASE Head(queue).request = r
    BY <1>0, <1>1, <2>1, TakenOnce
  <2>2. CASE Head(queue).request # r
    <3>1. UNCHANGED <<mailbox, answers, asker>> /\ QueueLeft(r)
      BY <1>1, TailQueueLeft DEF TakeJob
    <3>2. WorkersLeft(r)
      BY <1>1, <2>2 DEF TakeJob, GoTo, WorkersLeft, Has, TypeInv, TypeOK
    <3> QED BY <1>0, <3>1, <3>2, Untouched, SameMailLeft
  <2> QED BY <2>1, <2>2
<1>2. CASE SubscribeAllowed(w) \/ SubscribeJoin(w) \/ RecheckAllowed(w) \/ RecheckRefused(w)
           \/ RecheckLeave(w)
  <2>1. UNCHANGED <<mailbox, queue, job, answers, asker>>
    BY <1>2 DEF SubscribeAllowed, SubscribeJoin, RecheckAllowed, RecheckRefused, RecheckLeave
  <2>2. WorkersLeft(r)
    BY <1>2, <2>1, GoesOnLeft
       DEF SubscribeAllowed, SubscribeJoin, RecheckAllowed, RecheckRefused, RecheckLeave, Running
  <2> QED BY <1>0, <2>1, <2>2, Untouched, SameMailLeft, SameQueueLeft
<1>3. CASE SubscribeCommit(w)
  <2>1. CASE Has(w, r)
    BY <1>0, <1>3, <2>1, CommittedOnce
  <2>2. CASE ~Has(w, r)
    <3>1. /\ UNCHANGED <<queue, job, answers, asker>> /\ pc[w] = "commit"
          /\ pc' = [pc EXCEPT ![w] = "status"] /\ job[w] \in Job /\ job[w].request # r
      BY <1>3, <2>2 DEF SubscribeCommit, Running, GoTo, Has, TypeInv, WorkerOK
    <3>2. PICK ch \in todo[w] :
              Deliver(job[w].consumer,
                 << [type |-> "subscribed", channel |-> ch, request |-> job[w].request] >>)
      BY <1>3 DEF SubscribeCommit
    <3>3. /\ [type |-> "subscribed", channel |-> ch, request |-> job[w].request] \in Event
          /\ job[w].consumer \in Consumers
      BY <3>1 DEF Job, Event, TypeInv, TypeOK
    <3>4. MailLeft(r)
      BY <3>1, <3>2, <3>3, DeliverOneLeft
    <3>5. WorkersLeft(r)
      BY <2>2, <3>1 DEF WorkersLeft, Has, TypeInv, TypeOK
    <3> QED BY <1>0, <3>1, <3>4, <3>5, Untouched, SameQueueLeft
  <2> QED BY <2>1, <2>2
<1>4. CASE RecheckCommit(w)
  <2>1. /\ UNCHANGED <<queue, job, answers, asker>> /\ job[w] \in Job
        /\ job[w].kind = "recheck" /\ pc[w] = "check" /\ pc' = [pc EXCEPT ![w] = "status"]
    BY <1>4 DEF RecheckCommit, Running, GoTo, TypeInv, WorkerOK
  <2>2. ~Has(w, r)
    BY <1>0, <2>1 DEF OnceFor, WorkersOnce
  <2>3. WorkersLeft(r)
    BY <2>1, <2>2 DEF WorkersLeft, Has, TypeInv, TypeOK
  <2>4. LeftEvents(lefts[w]) \in Seq(Event)
    BY LeftEventsType DEF TypeInv, TypeOK
  <2>5. \A i \in 1 .. Len(LeftEvents(lefts[w])) :
            LeftEvents(lefts[w])[i].type \notin {"subscribed", "error"}
    BY DEF LeftEvents, TypeInv, TypeOK
  <2>6. MailLeft(r)
    BY <1>4, <2>1, <2>4, <2>5, DeliverLeft DEF RecheckCommit, Job
  <2> QED BY <1>0, <2>1, <2>3, <2>6, Untouched, SameQueueLeft
<1>5. CASE UpdateStatus(w) \/ HorseKilled(w)
  <2>1. Finish(w) /\ UNCHANGED <<mailbox, queue, answers, asker>>
    BY <1>5 DEF UpdateStatus, HorseKilled
  <2> QED BY <1>0, <2>1, Untouched, SameMailLeft, SameQueueLeft, FinishLeft
<1>6. CASE SubscribeRefused(w) \/ JobRaises(w)
  <2>1. /\ SendError(w) /\ Finish(w) /\ UNCHANGED <<queue, answers, asker>>
        /\ pc[w] # "idle" /\ job[w] \in Job
    BY <1>6 DEF SubscribeRefused, JobRaises, Running, TypeInv, WorkerOK
  <2>2. CASE Has(w, r)
    BY <1>0, <2>1, <2>2, FailedOnce
  <2>3. CASE ~Has(w, r)
    <3>1. job[w].request # r
      BY <2>1, <2>3 DEF Has
    <3>2. /\ [type |-> "error", request |-> job[w].request] \in Event
          /\ job[w].consumer \in Consumers
      BY <2>1 DEF Job, Event
    <3>3. MailLeft(r)
      BY <2>1, <3>1, <3>2, DeliverOneLeft DEF SendError
    <3> QED BY <1>0, <2>1, <3>3, Untouched, SameQueueLeft, FinishLeft
  <2> QED BY <2>2, <2>3
<1> QED BY <1>1, <1>2, <1>3, <1>4, <1>5, <1>6 DEF RunJob

LEMMA OnceStep == TypeInv /\ Once /\ [Next]_vars => Once'
<1> SUFFICES ASSUME TypeInv, Once, [Next]_vars
             PROVE  Once'
  OBVIOUS
<1> USE DEF appVars, connVars, layerVars, workerVars, clientVars
<1>1. ASSUME \A r \in Requests : MailLeft(r) /\ QueueLeft(r),
             UNCHANGED <<pc, job, answers, asker>>
      PROVE  Once'
  BY <1>1, Untouched, SameWorkersLeft DEF Once
<1>2. CASE ExpireJob
  BY <1>1, <1>2, SameMailLeft, TailQueueLeft DEF ExpireJob
<1>3. ASSUME NEW u \in Users, ChangePermission(u)
      PROVE  Once'
  BY <1>1, <1>3, SameMailLeft, SameQueueLeft DEF ChangePermission
<1>4. ASSUME NEW u \in Users, Logout(u)
      PROVE  Once'
  <2>1. ASSUME NEW r \in Requests, NEW c \in Consumers, NEW i \in 1 .. Len(mailbox'[c]),
               Says(c, i, r)'
        PROVE  /\ i + 0 \in 1 .. Len(mailbox[c]) /\ Says(c, i + 0, r)
               /\ mailbox'[c][i].type = mailbox[c][i + 0].type
    <3>1. \/ mailbox'[c] = mailbox[c]
          \/ mailbox'[c] = Append(mailbox[c], [type |-> "close"])
      BY <1>4 DEF Logout
    <3>2. mailbox[c] \in Seq(Event) /\ [type |-> "close"] \in Event
      BY DEF Event, TypeInv, TypeOK
    <3>3. \/ i \in 1 .. Len(mailbox[c]) /\ mailbox'[c][i] = mailbox[c][i]
          \/ mailbox'[c][i] = [type |-> "close"]
      BY <3>1, <3>2
    <3> QED BY <2>1, <3>3 DEF Says
  <2>2. \A r \in Requests : MailLeft(r)
    BY <2>1 DEF MailLeft
  <2> QED BY <1>1, <1>4, <2>2, SameQueueLeft DEF Logout
<1>5. ASSUME NEW c \in Consumers, SendRecheck(c)
      PROVE  Once'
  <2>1. [type |-> "recheck"] \in Event
    BY DEF Event
  <2>2. \A r \in Requests : MailLeft(r)
    BY <1>5, <2>1, DeliverOneLeft DEF SendRecheck
  <2> QED BY <1>1, <1>5, <2>2, SameQueueLeft DEF SendRecheck
<1>6. CASE UNCHANGED vars
  BY <1>1, <1>6, SameMailLeft, SameQueueLeft DEF vars
<1> QED BY <1>2, <1>3, <1>4, <1>5, <1>6, ConsumerOnce, WorkerOnce DEF Next

LEMMA OnceInvariant == Spec => []Once
<1>1. Init => Once
  BY DEF Init, Once, OnceFor, QueueOnce, WorkersOnce, MailOnce, Unasked, Has
<1> QED BY <1>1, OnceStep, TypeCorrect, PTL DEF Spec, TypeInv

-----------------------------------------------------------------------------
(* The conversations *)

(* A step that tells the client something takes the next step of the       *)
(* conversation of that trace id.                                           *)
LEMMA RepliesStep == TypeInv /\ Once /\ [Next]_vars => [Replies!Next]_answers
<1> SUFFICES ASSUME TypeInv, Once, [Next]_vars
             PROVE  [Replies!Next]_answers
  OBVIOUS
<1> USE DEF clientVars
<1>0. None \notin Requests
  BY ConstantsAssumption
<1>1. ASSUME NEW c \in Consumers, ConsumerStep(c)
      PROVE  [Replies!Next]_answers
  <2>1. CASE Accept(c)
    BY <1>0, <2>1 DEF Accept, QueueSubscribe, Answer
  <2>2. CASE ReceiveSubscribe(c)
    <3>1. PICK r \in Requests : asker[r] = None /\ Answer(r, "queued")
      BY <2>2 DEF ReceiveSubscribe, QueueSubscribe
    <3>2. answers[r] = << >>
      BY <3>1 DEF Once, OnceFor, Unasked
    <3>3. answers' = [answers EXCEPT ![r] = <<"queued">>]
      BY <3>1, <3>2 DEF Answer
    <3> QED BY <3>2, <3>3 DEF Replies!Next, Replies!Acknowledge
  <2>3. CASE HandleSubscribed(c)
    <3>1. CASE Head(mailbox[c]).request \in Requests
      <4> DEFINE r == Head(mailbox[c]).request
      <4>1. answers[r] = <<"queued">> /\ answers'[r] = <<"queued", "success">>
        BY <2>3, <3>1, SucceededOnce DEF Once
      <4>2. answers' = [answers EXCEPT ![r] = Append(@, "success")]
        BY <2>3, <3>1 DEF HandleSubscribed, Answer
      <4>3. answers' = [answers EXCEPT ![r] = <<"queued", "success">>]
        BY <3>1, <4>1, <4>2 DEF TypeInv, TypeOK
      <4> QED BY <3>1, <4>1, <4>3 DEF Replies!Next, Replies!Succeed
    <3>2. CASE Head(mailbox[c]).request \notin Requests
      BY <2>3, <3>2 DEF HandleSubscribed, Answer
    <3> QED BY <3>1, <3>2
  <2>4. CASE HandleError(c)
    <3>1. CASE Head(mailbox[c]).request \in Requests
      <4> DEFINE r == Head(mailbox[c]).request
      <4>1. answers[r] \in {<<"queued">>, <<"queued", "success">>}
        BY <2>4, <3>1, RefusedOnce DEF Once
      <4>2. answers' = [answers EXCEPT ![r] = Append(@, "failed")]
        BY <2>4, <3>1 DEF HandleError, Answer
      <4> QED BY <3>1, <4>1, <4>2 DEF Replies!Next, Replies!Fail
    <3>2. CASE Head(mailbox[c]).request \notin Requests
      BY <2>4, <3>2 DEF HandleError, Answer
    <3> QED BY <3>1, <3>2
  <2>5. CASE ~(Accept(c) \/ ReceiveSubscribe(c) \/ HandleSubscribed(c) \/ HandleError(c))
    BY <1>1, <2>5
       DEF ConsumerStep, HandleEvent, Authenticate, AcceptAnonymous, ReceiveLeave,
           HandleLeft, HandleBatch, HandleRecheck, HandleClose, Disconnect, Crash
  <2> QED BY <2>1, <2>2, <2>3, <2>4, <2>5
<1>2. ASSUME NEW w \in Workers, TakeJob(w) \/ RunJob(w) \/ JobRaises(w) \/ HorseKilled(w)
      PROVE  UNCHANGED answers
  BY <1>2 DEF RunJob, TakeJob, JobRaises, HorseKilled, SubscribeAllowed, SubscribeRefused,
              SubscribeJoin, SubscribeCommit, RecheckAllowed, RecheckRefused, RecheckLeave,
              RecheckCommit, UpdateStatus
<1>3. ASSUME \/ ExpireJob
             \/ \E u \in Users : ChangePermission(u) \/ Logout(u)
             \/ \E c \in Consumers : SendRecheck(c)
             \/ UNCHANGED vars
      PROVE  UNCHANGED answers
  BY <1>3 DEF ExpireJob, ChangePermission, Logout, SendRecheck, vars
<1> QED BY <1>1, <1>2, <1>3 DEF Next

(* Every behaviour of the consumers, the queue and the workers is, for the  *)
(* client of each trace id, a conversation RequestReplies allows: "queued"  *)
(* first and once, then at most one "success", and a failure is the last    *)
(* word, however many workers run and whatever fails.                       *)
THEOREM RepliesImplemented == Spec => RepliesSpec
<1>1. Init => Replies!Init
  BY DEF Init, Replies!Init
<1> QED BY <1>1, RepliesStep, OnceInvariant, TypeCorrect, PTL
        DEF Spec, RepliesSpec, Replies!Spec, TypeInv

-----------------------------------------------------------------------------
(* No answer is forgotten.  What says that r is accounted for moves from    *)
(* the queue to a worker and from there to the mailbox of the one who       *)
(* asked, and a step that takes it away has an excuse.                      *)

Accounted(r) ==
    InQueue(r) \/ OnWorker(r) \/ InMail(r) \/ r \in dropped \/ Ended(asker[r])

AccountedFor(r) == answers[r] = <<"queued">> => Accounted(r)

(* A mailbox that grows still holds what it held.                           *)
LEMMA DeliverKeepsMail ==
    ASSUME TypeInv, NEW c \in Consumers, NEW events \in Seq(Event), Deliver(c, events),
           NEW r \in Requests, asker[r] \in Consumers, asker'[r] = asker[r], InMail(r)
    PROVE  InMail(r)'
<1> DEFINE a == asker[r]
<1>1. PICK i \in 1 .. Len(mailbox[a]) : /\ mailbox[a][i].type \in {"subscribed", "error"}
                                        /\ mailbox[a][i].request = r
  BY DEF InMail
<1>2. mailbox[a] \in Seq(Event)
  BY DEF TypeInv, TypeOK
<1>3. mailbox'[a] = mailbox[a] \/ mailbox'[a] = mailbox[a] \o events
  BY DEF Deliver, TypeInv, TypeOK
<1>4. i \in 1 .. Len(mailbox'[a]) /\ mailbox'[a][i] = mailbox[a][i]
  BY <1>2, <1>3
<1> QED BY <1>1, <1>4 DEF InMail

(* An answer that arrives is there, unless nobody listens.                  *)
LEMMA DeliverAnswer ==
    ASSUME TypeInv, NEW c \in Consumers, NEW e \in Event, Deliver(c, << e >>), Listening(c),
           NEW r \in Requests, e.type \in {"subscribed", "error"}, e.request = r,
           asker'[r] = c
    PROVE  InMail(r)'
<1>1. mailbox'[c] = Append(mailbox[c], e) /\ mailbox[c] \in Seq(Event)
  BY DeliverOne DEF TypeInv, TypeOK
<1>2. /\ Len(mailbox[c]) + 1 \in 1 .. Len(mailbox'[c])
      /\ mailbox'[c][Len(mailbox[c]) + 1] = e
  BY <1>1
<1> QED BY <1>2 DEF InMail

(* Taking another event leaves it there.                                    *)
LEMMA TakesKeepsMail ==
    ASSUME TypeInv, NEW c \in Consumers, NEW type, Takes(c, type),
           NEW r \in Requests, asker[r] \in Consumers, asker'[r] = asker[r], InMail(r),
           ~(type \in {"subscribed", "error"} /\ Head(mailbox[c]).request = r)
    PROVE  InMail(r)'
<1> DEFINE a == asker[r]
<1>1. PICK i \in 1 .. Len(mailbox[a]) : /\ mailbox[a][i].type \in {"subscribed", "error"}
                                        /\ mailbox[a][i].request = r
  BY DEF InMail
<1>2. mailbox[a] \in Seq(Event)
  BY DEF TypeInv, TypeOK
<1>3. CASE a # c
  <2>1. mailbox'[a] = mailbox[a]
    BY <1>3 DEF Takes, TypeInv, TypeOK
  <2> QED BY <1>1, <2>1 DEF InMail
<1>4. CASE a = c
  <2>1. mailbox'[a] = Tail(mailbox[a])
    BY <1>4 DEF Takes, TypeInv, TypeOK
  <2>2. mailbox[c][1].type = type /\ mailbox[c][1] = Head(mailbox[c])
    BY TakenEvent
  <2>3. i # 1
    BY <1>1, <1>4, <2>2
  <2>4. i - 1 \in 1 .. Len(mailbox'[a]) /\ mailbox'[a][i - 1] = mailbox[a][i]
    BY <1>2, <2>1, <2>3
  <2> QED BY <1>1, <2>4 DEF InMail
<1> QED BY <1>3, <1>4

LEMMA AppendKeepsQueued ==
    ASSUME TypeInv, NEW j \in Job, queue' = Append(queue, j), NEW r \in Requests
    PROVE  InQueue(r) \/ j.request = r => InQueue(r)'
<1>1. queue \in Seq(Job)
  BY DEF TypeInv, TypeOK
<1>2. ASSUME NEW i \in 1 .. Len(queue), queue[i].request = r
      PROVE  InQueue(r)'
  <2>1. i \in 1 .. Len(queue') /\ queue'[i] = queue[i]
    BY <1>1
  <2> QED BY <1>2, <2>1 DEF InQueue
<1>3. ASSUME j.request = r
      PROVE  InQueue(r)'
  <2>1. Len(queue) + 1 \in 1 .. Len(queue') /\ queue'[Len(queue) + 1] = j
    BY <1>1
  <2> QED BY <1>3, <2>1 DEF InQueue
<1> QED BY <1>2, <1>3 DEF InQueue

LEMMA TailKeepsQueued ==
    ASSUME TypeInv, queue # << >>, queue' = Tail(queue), NEW r \in Requests, InQueue(r)
    PROVE  Head(queue).request = r \/ InQueue(r)'
<1>1. queue \in Seq(Job) /\ Head(queue) = queue[1]
  BY DEF TypeInv, TypeOK
<1>2. PICK i \in 1 .. Len(queue) : queue[i].request = r
  BY DEF InQueue
<1>3. CASE i = 1
  BY <1>1, <1>2, <1>3
<1>4. CASE i # 1
  <2>1. i - 1 \in 1 .. Len(queue') /\ queue'[i - 1] = queue[i]
    BY <1>1, <1>4
  <2> QED BY <1>2, <2>1 DEF InQueue
<1> QED BY <1>3, <1>4

LEMMA AskerKnown ==
    ASSUME TypeInv, NEW r \in Requests, OnceFor(r), answers[r] = <<"queued">>
    PROVE  asker[r] \in Consumers
BY DEF OnceFor, Unasked, TypeInv, TypeOK

LEMMA ConsumerAccounted ==
    ASSUME TypeInv, Once, NEW r \in Requests, AccountedFor(r),
           NEW c \in Consumers, ConsumerStep(c)
    PROVE  AccountedFor(r)'
<1>0. OnceFor(r)
  BY DEF Once
<1> USE DEF clientVars, workerVars, appVars, connVars, layerVars
<1>1. ASSUME UNCHANGED <<queue, pc, job, answers, asker, dropped>>,
             asker[r] \in Consumers /\ Ended(asker[r]) => Ended(asker[r])',
             answers[r] = <<"queued">> /\ InMail(r) => InMail(r)' \/ Ended(asker[r])'
      PROVE  AccountedFor(r)'
  <2> SUFFICES ASSUME answers'[r] = <<"queued">>
               PROVE  Accounted(r)'
    BY DEF AccountedFor
  <2>1. Accounted(r) /\ answers[r] = <<"queued">> /\ asker[r] \in Consumers
    BY <1>0, <1>1, AskerKnown DEF AccountedFor
  <2> QED BY <1>1, <2>1 DEF Accounted, InQueue, OnWorker, Ended
<1>2. CASE Authenticate(c) \/ AcceptAnonymous(c) \/ ReceiveLeave(c)
  <2>1. UNCHANGED <<mailbox, queue, pc, job, answers, asker, dropped>>
    BY <1>2 DEF Authenticate, AcceptAnonymous, ReceiveLeave
  <2>2. asker[r] \in Consumers /\ Ended(asker[r]) => Ended(asker[r])'
    BY <1>2, <2>1 DEF Authenticate, AcceptAnonymous, ReceiveLeave, Ended, TypeInv, TypeOK
  <2> QED BY <1>1, <2>1, <2>2 DEF InMail
<1>3. ASSUME NEW j \in Job, queue' = Append(queue, j) \/ UNCHANGED queue,
             answers'[r] = answers[r], asker'[r] = asker[r], UNCHANGED <<pc, job, dropped>>,
             asker[r] \in Consumers /\ Ended(asker[r]) => Ended(asker[r])',
             answers[r] = <<"queued">> /\ InMail(r) => InMail(r)'
      PROVE  AccountedFor(r)'
  <2> SUFFICES ASSUME answers'[r] = <<"queued">>
               PROVE  Accounted(r)'
    BY DEF AccountedFor
  <2>1. Accounted(r) /\ answers[r] = <<"queued">> /\ asker[r] \in Consumers
    BY <1>0, <1>3, AskerKnown DEF AccountedFor
  <2>2. InQueue(r) => InQueue(r)'
    BY <1>3, AppendKeepsQueued DEF InQueue
  <2>3. OnWorker(r) => OnWorker(r)'
    BY <1>3 DEF OnWorker
  <2> QED BY <1>3, <2>1, <2>2, <2>3 DEF Accounted, Ended
<1>4. CASE Accept(c)
  <2>1. UserChannel(user[c]) \in ContextChannel
    BY <1>4 DEF Accept, ContextChannel, UserChannels, TypeInv, TypeOK
  <2>2. SubscribeJob(c, UserChannel(user[c]), None) \in Job
    BY <2>1, JobType
  <2>3. /\ queue' = Append(queue, SubscribeJob(c, UserChannel(user[c]), None)) \/ UNCHANGED queue
        /\ UNCHANGED <<answers, asker, mailbox, pc, job, dropped>>
    BY <1>4, ConstantsAssumption DEF Accept, QueueSubscribe, Answer
  <2>4. asker[r] \in Consumers /\ Ended(asker[r]) => Ended(asker[r])'
    BY <1>4, <2>3 DEF Accept, Ended, TypeInv, TypeOK
  <2> QED BY <1>3, <2>2, <2>3, <2>4 DEF InMail
<1>5. CASE ReceiveSubscribe(c)
  <2>1. PICK ch \in ContextChannel, q \in Requests :
            /\ asker[q] = None
            /\ asker' = [asker EXCEPT ![q] = c]
            /\ QueueSubscribe(c, ch, q)
    BY <1>5 DEF ReceiveSubscribe
  <2>2. SubscribeJob(c, ch, q) \in Job /\ SubscribeJob(c, ch, q).request = q
    BY JobType DEF SubscribeJob
  <2>3. queue' = Append(queue, SubscribeJob(c, ch, q))
    BY <2>1 DEF QueueSubscribe
  <2>4. CASE q = r
    <3>1. InQueue(r)'
      BY <2>2, <2>3, <2>4, AppendKeepsQueued
    <3> QED BY <3>1 DEF AccountedFor, Accounted
  <2>5. CASE q # r
    <3>1. answers'[r] = answers[r] /\ asker'[r] = asker[r]
      BY <2>1, <2>5 DEF QueueSubscribe, Answer, TypeInv, TypeOK
    <3>2. UNCHANGED <<state, mailbox, pc, job, dropped>>
      BY <1>5 DEF ReceiveSubscribe
    <3> QED BY <1>3, <2>2, <2>3, <3>1, <3>2 DEF InMail, Ended
  <2> QED BY <2>4, <2>5
<1>6. CASE HandleLeft(c) \/ HandleBatch(c)
  <2>1. /\ UNCHANGED <<state, queue, pc, job, answers, asker, dropped>>
        /\ \E type \in {"left", "batch"} : Takes(c, type)
    BY <1>6 DEF HandleLeft, HandleBatch
  <2>2. answers[r] = <<"queued">> /\ InMail(r) => InMail(r)'
    BY <1>0, <2>1, AskerKnown, TakesKeepsMail
  <2> QED BY <1>1, <2>1, <2>2 DEF Ended
<1>7. CASE HandleRecheck(c)
  <2>1. RecheckJob(c, subs[c]) \in Job
    BY DEF RecheckJob, Job, TypeInv, TypeOK
  <2>2. /\ Takes(c, "recheck") /\ UNCHANGED <<state, pc, job, answers, asker, dropped>>
        /\ queue' = Append(queue, RecheckJob(c, subs[c])) \/ UNCHANGED queue
    BY <1>7 DEF HandleRecheck
  <2>3. answers[r] = <<"queued">> /\ InMail(r) => InMail(r)'
    BY <1>0, <2>2, AskerKnown, TakesKeepsMail
  <2> QED BY <1>3, <2>1, <2>2, <2>3 DEF Ended
<1>8. CASE HandleClose(c)
  <2>1. Takes(c, "close") /\ UNCHANGED <<queue, pc, job, answers, asker, dropped>>
    BY <1>8 DEF HandleClose
  <2>2. asker[r] \in Consumers /\ Ended(asker[r]) => Ended(asker[r])'
    BY <1>8, <2>1 DEF HandleClose, Takes, Listening, Ended, TypeInv, TypeOK
  <2>3. answers[r] = <<"queued">> /\ InMail(r) => InMail(r)'
    BY <1>0, <2>1, AskerKnown, TakesKeepsMail
  <2> QED BY <1>1, <2>1, <2>2, <2>3
<1>9. CASE HandleSubscribed(c) \/ HandleError(c)
  <2>1. CASE Head(mailbox[c]).request = r
    <3>1. CASE HandleSubscribed(c)
      <4>1. answers'[r] = <<"queued", "success">>
        BY <1>0, <2>1, <3>1, SucceededOnce
      <4> QED BY <4>1 DEF AccountedFor
    <3>2. CASE HandleError(c)
      <4>1. /\ answers[r] \in Seq({"queued", "success", "failed"})
            /\ answers[r] \in {<<"queued">>, <<"queued", "success">>}
            /\ answers'[r] = Append(answers[r], "failed")
        BY <1>0, <2>1, <3>2, RefusedOnce DEF TypeInv, TypeOK
      <4>2. Len(answers'[r]) = Len(answers[r]) + 1
        BY <4>1
      <4> QED BY <4>1, <4>2 DEF AccountedFor
    <3> QED BY <1>9, <3>1, <3>2
  <2>2. CASE Head(mailbox[c]).request # r
    <3>1. /\ UNCHANGED <<state, queue, pc, job, asker, dropped>> /\ answers'[r] = answers[r]
          /\ \E type \in {"subscribed", "error"} : Takes(c, type)
      BY <1>9, <2>2 DEF HandleSubscribed, HandleError, Answer, TypeInv, TypeOK
    <3>2. answers[r] = <<"queued">> /\ InMail(r) => InMail(r)'
      BY <1>0, <2>2, <3>1, AskerKnown, TakesKeepsMail
    <3>3. InQueue(r) \/ OnWorker(r) => Accounted(r)'
      BY <3>1 DEF Accounted, InQueue, OnWorker
    <3> QED BY <3>1, <3>2, <3>3 DEF AccountedFor, Accounted, Ended
  <2> QED BY <2>1, <2>2
<1>10. CASE Disconnect(c) \/ Crash(c)
  <2>1. /\ UNCHANGED <<queue, pc, job, answers, asker, dropped>>
        /\ Ended(c)' /\ mailbox' = [mailbox EXCEPT ![c] = << >>]
        /\ \A d \in Consumers : d # c => state'[d] = state[d]
        /\ DOMAIN state = Consumers /\ DOMAIN state' = Consumers
    BY <1>10 DEF Disconnect, Crash, Ended, TypeInv, TypeOK
  <2>2. asker[r] \in Consumers /\ Ended(asker[r]) => Ended(asker[r])'
    BY <1>10, <2>1 DEF Disconnect, Crash, Ended, TypeInv, TypeOK
  <2>3. answers[r] = <<"queued">> /\ InMail(r) => InMail(r)' \/ Ended(asker[r])'
    <3>1. CASE asker[r] = c
      BY <2>1, <3>1 DEF Ended
    <3>2. CASE asker[r] # c /\ answers[r] = <<"queued">>
      <4>1. mailbox'[asker[r]] = mailbox[asker[r]]
        BY <1>0, <2>1, <3>2, AskerKnown DEF TypeInv, TypeOK
      <4> QED BY <2>1, <4>1 DEF InMail
    <3> QED BY <3>1, <3>2
  <2> QED BY <1>1, <2>1, <2>2, <2>3
<1> QED BY <1>2, <1>4, <1>5, <1>6, <1>7, <1>8, <1>9, <1>10 DEF ConsumerStep, HandleEvent

(* An answer a worker sends to the one who asked arrives, or the connection *)
(* is over: it was accepted once, or the command had not come.              *)
LEMMA AnswerAccounted ==
    ASSUME TypeInv, MembersInv, NEW r \in Requests, OnceFor(r),
           NEW w \in Workers, Has(w, r), UNCHANGED <<state, asker>>,
           NEW e \in Event, e.type \in {"subscribed", "error"}, e.request = r,
           Deliver(job[w].consumer, << e >>)
    PROVE  Accounted(r)'
<1>1. job[w].consumer = asker[r] /\ asker[r] \in Consumers /\ Accepted(asker[r])
  BY HasOnce DEF MembersInv, WorkersEntitled, Has
<1>2. CASE Listening(asker[r])
  BY <1>1, <1>2, DeliverAnswer DEF Accounted
<1>3. CASE ~Listening(asker[r])
  BY <1>1, <1>3 DEF Accepted, Listening, Accounted, Ended
<1> QED BY <1>2, <1>3

LEMMA WorkerAccounted ==
    ASSUME TypeInv, MembersInv, Once, NEW r \in Requests, AccountedFor(r),
           NEW w \in Workers, TakeJob(w) \/ RunJob(w) \/ JobRaises(w) \/ HorseKilled(w)
    PROVE  AccountedFor(r)'
<1>0. OnceFor(r)
  BY DEF Once
<1> USE DEF clientVars, connVars
<1>1. ASSUME UNCHANGED <<answers, asker, state>>, dropped \subseteq dropped',
             asker[r] \in Consumers /\ (InQueue(r) \/ OnWorker(r) \/ InMail(r))
             => Accounted(r)'
      PROVE  AccountedFor(r)'
  BY <1>0, <1>1, AskerKnown DEF AccountedFor, Accounted, Ended
<1>2. CASE TakeJob(w)
  <2>1. /\ UNCHANGED <<answers, asker, state, dropped, mailbox>>
        /\ pc'[w] = "check" /\ job'[w] = Head(queue) /\ pc[w] = "idle"
        /\ \A v \in Workers : v # w => pc'[v] = pc[v] /\ job'[v] = job[v]
        /\ queue # << >> /\ queue' = Tail(queue)
    BY <1>2 DEF TakeJob, GoTo, TypeInv, TypeOK
  <2>2. InQueue(r) => Accounted(r)'
    <3>1. Head(queue).request = r => OnWorker(r)'
      BY <2>1 DEF OnWorker
    <3> QED BY <2>1, <3>1, TailKeepsQueued DEF Accounted
  <2>3. OnWorker(r) => OnWorker(r)'
    BY <2>1 DEF OnWorker
  <2> QED BY <1>1, <2>1, <2>2, <2>3 DEF InMail, Accounted
<1>3. CASE SubscribeAllowed(w) \/ SubscribeJoin(w) \/ RecheckAllowed(w) \/ RecheckRefused(w)
           \/ RecheckLeave(w)
  <2>1. /\ UNCHANGED <<answers, asker, state, dropped, mailbox, queue, job>>
        /\ UNCHANGED pc \/ \E where \in {"check", "join", "leave", "commit"} : GoTo(w, where)
    BY <1>3 DEF SubscribeAllowed, SubscribeJoin, RecheckAllowed, RecheckRefused, RecheckLeave
  <2>2. OnWorker(r) => OnWorker(r)'
    BY <2>1 DEF OnWorker, GoTo, TypeInv, TypeOK
  <2> QED BY <1>1, <2>1, <2>2 DEF InMail, InQueue, Accounted
<1>4. CASE SubscribeCommit(w)
  <2>1. /\ UNCHANGED <<answers, asker, state, dropped, queue, job>>
        /\ pc[w] = "commit" /\ job[w] \in Job
        /\ \A v \in Workers : v # w => pc'[v] = pc[v]
    BY <1>4 DEF SubscribeCommit, Running, GoTo, TypeInv, TypeOK, WorkerOK
  <2>2. PICK ch \in todo[w] :
            Deliver(job[w].consumer,
               << [type |-> "subscribed", channel |-> ch, request |-> job[w].request] >>)
    BY <1>4 DEF SubscribeCommit
  <2> DEFINE e == [type |-> "subscribed", channel |-> ch, request |-> job[w].request]
  <2>3. e \in Event /\ e.type = "subscribed" /\ e.request = job[w].request
        /\ job[w].consumer \in Consumers
    BY <2>1 DEF Event, Job, TypeInv, TypeOK
  <2> HIDE DEF e
  <2>4. << e >> \in Seq(Event) /\ Deliver(job[w].consumer, << e >>)
    BY <2>2, <2>3 DEF e
  <2>5. asker[r] \in Consumers /\ InMail(r) => InMail(r)'
    BY <2>1, <2>3, <2>4, DeliverKeepsMail
  <2>6. OnWorker(r) => Accounted(r)'
    <3>1. Has(w, r) => Accounted(r)'
      BY <1>0, <2>1, <2>3, <2>4, AnswerAccounted DEF Has
    <3>2. ASSUME NEW v \in Workers, v # w, pc[v] \notin {"idle", "status"},
                 job[v].request = r
          PROVE  OnWorker(r)'
      BY <2>1, <3>2 DEF OnWorker
    <3> QED BY <3>1, <3>2 DEF OnWorker, Has, Accounted
  <2> QED BY <1>1, <2>1, <2>5, <2>6 DEF InQueue, Accounted
<1>5. CASE RecheckCommit(w)
  <2>1. /\ UNCHANGED <<answers, asker, state, dropped, queue, job>>
        /\ pc[w] = "check" /\ job[w].kind = "recheck" /\ job[w] \in Job
        /\ \A v \in Workers : v # w => pc'[v] = pc[v]
    BY <1>5 DEF RecheckCommit, Running, GoTo, TypeInv, TypeOK, WorkerOK
  <2>2. ~Has(w, r)
    BY <1>0, <2>1, HasOnce
  <2>3. asker[r] \in Consumers /\ InMail(r) => InMail(r)'
    <3>1. job[w].consumer \in Consumers /\ LeftEvents(lefts[w]) \in Seq(Event)
      BY <2>1, LeftEventsType DEF Job, TypeInv, TypeOK
    <3> QED BY <1>5, <2>1, <3>1, DeliverKeepsMail DEF RecheckCommit
  <2>4. OnWorker(r) => OnWorker(r)'
    BY <2>1, <2>2 DEF OnWorker, Has
  <2> QED BY <1>1, <2>1, <2>3, <2>4 DEF InQueue, Accounted
<1>6. CASE UpdateStatus(w) \/ HorseKilled(w)
  <2>1. /\ UNCHANGED <<answers, asker, state, mailbox, queue>>
        /\ dropped \subseteq dropped'
        /\ \A v \in Workers : v # w => pc'[v] = pc[v] /\ job'[v] = job[v]
    BY <1>6 DEF UpdateStatus, HorseKilled, Finish, TypeInv, TypeOK
  <2>2. OnWorker(r) => OnWorker(r)' \/ r \in dropped'
    BY <1>6, <2>1 DEF UpdateStatus, HorseKilled, OnWorker
  <2> QED BY <1>1, <2>1, <2>2 DEF InMail, InQueue, Accounted
<1>7. CASE SubscribeRefused(w) \/ JobRaises(w)
  <2>1. /\ UNCHANGED <<answers, asker, state, dropped, queue>>
        /\ pc[w] # "idle" /\ job[w] \in Job /\ SendError(w)
        /\ \A v \in Workers : v # w => pc'[v] = pc[v] /\ job'[v] = job[v]
    BY <1>7 DEF SubscribeRefused, JobRaises, Running, Finish, TypeInv, TypeOK, WorkerOK
  <2> DEFINE e == [type |-> "error", request |-> job[w].request]
  <2>2. e \in Event /\ e.type = "error" /\ e.request = job[w].request
        /\ job[w].consumer \in Consumers
    BY <2>1 DEF Event, Job, TypeInv, TypeOK
  <2> HIDE DEF e
  <2>3. << e >> \in Seq(Event) /\ Deliver(job[w].consumer, << e >>)
    BY <2>1, <2>2 DEF e, SendError
  <2>4. asker[r] \in Consumers /\ InMail(r) => InMail(r)'
    BY <2>1, <2>2, <2>3, DeliverKeepsMail
  <2>5. OnWorker(r) => Accounted(r)'
    <3>1. Has(w, r) => Accounted(r)'
      BY <1>0, <2>1, <2>2, <2>3, AnswerAccounted DEF Has
    <3>2. ASSUME NEW v \in Workers, v # w, pc[v] \notin {"idle", "status"},
                 job[v].request = r
          PROVE  OnWorker(r)'
      BY <2>1, <3>2 DEF OnWorker
    <3> QED BY <3>1, <3>2 DEF OnWorker, Has, Accounted
  <2> QED BY <1>1, <2>1, <2>4, <2>5 DEF InQueue, Accounted
<1> QED BY <1>2, <1>3, <1>4, <1>5, <1>6, <1>7 DEF RunJob

LEMMA AccountedStep ==
    ASSUME TypeInv, MembersInv, Once, NEW r \in Requests, AccountedFor(r), [Next]_vars
    PROVE  AccountedFor(r)'
<1>0. OnceFor(r)
  BY DEF Once
<1> USE DEF appVars, connVars, layerVars, workerVars, clientVars
<1>1. ASSUME UNCHANGED <<state, pc, job, answers, asker>>, dropped \subseteq dropped',
             asker[r] \in Consumers /\ InMail(r) => InMail(r)',
             InQueue(r) => InQueue(r)' \/ r \in dropped'
      PROVE  AccountedFor(r)'
  BY <1>0, <1>1, AskerKnown DEF AccountedFor, Accounted, Ended, OnWorker
<1>2. CASE ExpireJob
  <2>1. /\ UNCHANGED <<state, pc, job, answers, asker, mailbox>> /\ dropped \subseteq dropped'
        /\ queue # << >> /\ queue' = Tail(queue)
        /\ Head(queue).request = r => r \in dropped'
    BY <1>2 DEF ExpireJob
  <2> QED BY <1>1, <2>1, TailKeepsQueued DEF InMail
<1>3. ASSUME NEW u \in Users, ChangePermission(u)
      PROVE  AccountedFor(r)'
  BY <1>1, <1>3 DEF ChangePermission, InMail, InQueue
<1>4. ASSUME NEW u \in Users, Logout(u)
      PROVE  AccountedFor(r)'
  <2>1. ASSUME asker[r] \in Consumers, InMail(r)
        PROVE  InMail(r)'
    <3> DEFINE a == asker[r]
    <3>1. PICK i \in 1 .. Len(mailbox[a]) : /\ mailbox[a][i].type \in {"subscribed", "error"}
                                            /\ mailbox[a][i].request = r
      BY <2>1 DEF InMail
    <3>2. mailbox[a] \in Seq(Event) /\ [type |-> "close"] \in Event
      BY <2>1 DEF Event, TypeInv, TypeOK
    <3>3. \/ mailbox'[a] = mailbox[a]
          \/ mailbox'[a] = Append(mailbox[a], [type |-> "close"])
      BY <1>4, <2>1 DEF Logout
    <3>4. i \in 1 .. Len(mailbox'[a]) /\ mailbox'[a][i] = mailbox[a][i]
      BY <3>2, <3>3
    <3> QED BY <1>4, <3>1, <3>4 DEF InMail, Logout
  <2> QED BY <1>1, <1>4, <2>1 DEF Logout, InQueue
<1>5. ASSUME NEW c \in Consumers, SendRecheck(c)
      PROVE  AccountedFor(r)'
  <2>1. << [type |-> "recheck"] >> \in Seq(Event)
    <3>1. [type |-> "recheck"] \in Event
      BY DEF Event
    <3> QED BY <3>1
  <2>2. UNCHANGED <<state, pc, job, answers, asker, queue, dropped>>
        /\ Deliver(c, << [type |-> "recheck"] >>)
    BY <1>5 DEF SendRecheck
  <2> QED BY <1>1, <2>1, <2>2, DeliverKeepsMail DEF InQueue
<1>6. CASE UNCHANGED vars
  BY <1>1, <1>6 DEF vars, InMail, InQueue
<1> QED BY <1>2, <1>3, <1>4, <1>5, <1>6, ConsumerAccounted, WorkerAccounted DEF Next

(* A client that was told "queued" and nothing since has its command in the *)
(* queue, on a worker or in its consumer's mailbox, or RQ dropped the job   *)
(* or the connection is over, for any number of workers and commands.       *)
THEOREM AnswersAccounted == Spec => []RequestsAccounted
<1> DEFINE Inv == \A r \in Requests : AccountedFor(r)
<1>1. Init => Inv
  BY DEF Init, AccountedFor
<1>2. TypeInv /\ MembersInv /\ Once /\ Inv /\ [Next]_vars => Inv'
  BY AccountedStep
<1>3. Inv => RequestsAccounted
  BY DEF AccountedFor, Accounted, RequestsAccounted
<1> HIDE DEF Inv
<1> QED BY <1>1, <1>2, <1>3, OnceInvariant, MembersInvariant, TypeCorrect, PTL
        DEF Spec, TypeInv
=============================================================================
