----------------------- MODULE ConnectionStatusProofs -----------------------
(***************************************************************************)
(* Theorems about ConnectionStatus, for any connections, messages, clock   *)
(* and interval: types for any queues and workers, and what the rows tell  *)
(* where one worker serves one queue.                                      *)
(***************************************************************************)
EXTENDS ConnectionStatus, TLAPS

-----------------------------------------------------------------------------
(* Types *)

LEMMA QueuedEffect ==
    ASSUME NEW queues \in [Queues -> Seq(Job)], NEW kind \in Kinds, NEW c \in Consumers,
           clock \in 0 .. MaxTime
    PROVE  /\ Queued(queues, kind, c) \in [Queues -> Seq(Job)]
           /\ NewJob(kind, c) \in Job
           /\ \A q \in Queues :
                  \/ Queued(queues, kind, c)[q] = queues[q] /\ q # QueueFor[kind]
                  \/ /\ Queued(queues, kind, c)[q] = Append(queues[q], NewJob(kind, c))
                     /\ q = QueueFor[kind]
<1>1. NewJob(kind, c) \in Job
  BY DEF NewJob, Job
<1> QED BY <1>1 DEF Queued

LEMMA MarkedType ==
    ASSUME TypeOK, NEW c \in Consumers
    PROVE  Marked(c) \in [Queues -> Seq(Job)]
BY QueuedEffect DEF Marked, TypeOK, Kinds

LEMMA StatusTypeInit == Init => TypeOK
BY StatusAssumption DEF Init, TypeOK, Time

LEMMA StatusTypeStep == TypeOK /\ [Next]_vars => TypeOK'
<1> SUFFICES ASSUME TypeOK, [Next]_vars
             PROVE  TypeOK'
  OBVIOUS
<1> USE StatusAssumption
<1>1. ASSUME NEW c \in Consumers, Connect(c)
      PROVE  TypeOK'
  <2>1. queue' \in [Queues -> Seq(Job)]
    BY <1>1, QueuedEffect DEF Connect, TypeOK, Kinds
  <2> QED BY <1>1, <2>1 DEF Connect, TypeOK
<1>2. ASSUME NEW c \in Consumers, Disconnect(c)
      PROVE  TypeOK'
  <2>1. queue' \in [Queues -> Seq(Job)]
    BY <1>2, QueuedEffect DEF Disconnect, TypeOK, Kinds
  <2> QED BY <1>2, <2>1 DEF Disconnect, TypeOK
<1>3. ASSUME NEW c \in Consumers, ReceiveMessage(c) \/ ReceiveDeferred(c) \/ ReceiveInternal(c)
      PROVE  TypeOK'
  <2>1. queue' \in [Queues -> Seq(Job)]
    <3>1. /\ Queued(Marked(c), "deferred", c) \in [Queues -> Seq(Job)]
          /\ Queued(queue, "deferred", c) \in [Queues -> Seq(Job)]
      BY MarkedType, QueuedEffect DEF TypeOK, Kinds
    <3> QED BY <1>3, <3>1, MarkedType DEF ReceiveMessage, ReceiveDeferred, ReceiveInternal
  <2>2. Receive(c)
    BY <1>3 DEF ReceiveMessage, ReceiveDeferred, ReceiveInternal
  <2>3. received' \in 0 .. MaxMessages
    BY <2>2 DEF Receive, TypeOK
  <2>4. lastJob' \in [Consumers -> 0 .. MaxTime] /\ heard' \in [Consumers -> Time]
    BY <1>3 DEF ReceiveMessage, ReceiveDeferred, ReceiveInternal, TypeOK, Time
  <2> QED BY <2>1, <2>2, <2>3, <2>4 DEF Receive, TypeOK
<1>4. ASSUME NEW c \in Consumers, Crash(c)
      PROVE  TypeOK'
  BY <1>4 DEF Crash, TypeOK
<1>5. ASSUME NEW w \in Workers, Take(w)
      PROVE  TypeOK'
  <2>1. PICK q \in Serves[w] : /\ queue[q] # << >>
                               /\ running' = [running EXCEPT ![w] = Head(queue[q])]
                               /\ queue' = [queue EXCEPT ![q] = Tail(@)]
    BY <1>5 DEF Take
  <2>2. q \in Queues /\ queue[q] \in Seq(Job)
    BY <2>1 DEF TypeOK
  <2>3. Head(queue[q]) \in Job /\ Tail(queue[q]) \in Seq(Job)
    BY <2>1, <2>2
  <2>4. queue' \in [Queues -> Seq(Job)] /\ running' \in [Workers -> Job \cup {None}]
    BY <2>1, <2>2, <2>3 DEF TypeOK
  <2> QED BY <1>5, <2>4 DEF Take, TypeOK
<1>6. ASSUME NEW w \in Workers, Write(w)
      PROVE  TypeOK'
  <2>1. running[w] \in Job
    BY <1>6 DEF Write, TypeOK
  <2>2. ASSUME NEW r \in Row \cup {None}
        PROVE  Updated(r, running[w]) \in Row
    BY <2>1 DEF Updated, NewRow, Row, Job, Time
  <2>3. row' \in [Consumers -> Row \cup {None}]
    BY <1>6, <2>1, <2>2 DEF Write, TypeOK, Job
  <2> QED BY <1>6, <2>3 DEF Write, TypeOK
<1>7. ASSUME NEW w \in Workers, Refuse(w) \/ Fail(w)
      PROVE  TypeOK'
  <2>1. running[w] \in Job /\ Forget(w)
    BY <1>7 DEF Refuse, Fail, TypeOK
  <2>2. <<running[w].kind, running[w].consumer>> \in Kinds \X Consumers
    BY <2>1 DEF Job
  <2> QED BY <2>1, <2>2 DEF Forget, TypeOK
<1>8. CASE Tick
  BY <1>8 DEF Tick, TypeOK
<1>9. CASE UNCHANGED vars
  BY <1>9 DEF vars, TypeOK
<1> QED BY <1>1, <1>2, <1>3, <1>4, <1>5, <1>6, <1>7, <1>8, <1>9 DEF Next

(* Every variable stays in its set.                                        *)
THEOREM StatusTypeCorrect == Spec => []TypeOK
<1> QED BY StatusTypeInit, StatusTypeStep, PTL DEF Spec

-----------------------------------------------------------------------------
(* One worker that serves one queue *)

OneLine ==
    /\ \A p, q \in Queues : p = q
    /\ \A v, w \in Workers : v = w
    /\ QueueFor["close"] # None

(* The close job of c is queued or runs.                                   *)
Closing(c) ==
    \/ \E w \in Workers : running[w] # None /\ running[w].consumer = c /\ running[w].kind = "close"
    \/ \E q \in Queues : \E i \in 1 .. Len(queue[q]) :
           queue[q][i].consumer = c /\ queue[q][i].kind = "close"

(* A close job is the last of its connection, in the queue ...             *)
QueuedLast ==
    \A q \in Queues : \A i \in 1 .. Len(queue[q]) :
        queue[q][i].kind = "close" =>
            /\ state[queue[q][i].consumer] = "gone"
            /\ \A k \in i + 1 .. Len(queue[q]) : queue[q][k].consumer # queue[q][i].consumer

(* ... and when it runs.                                                   *)
RunsLast ==
    \A w \in Workers : running[w] # None /\ running[w].kind = "close" =>
        /\ state[running[w].consumer] = "gone"
        /\ \A q \in Queues : \A i \in 1 .. Len(queue[q]) :
               queue[q][i].consumer # running[w].consumer

Recorded(c) == row[c] # None /\ ~row[c].online /\ row[c].offline_at # None

(* Until then the row says online; and afterwards that it is not.          *)
RowInv ==
    \A c \in Consumers :
        /\ row[c] # None /\ (state[c] # "gone" \/ Busy(c)) =>
               row[c].online /\ row[c].offline_at = None
        /\ state[c] = "gone" =>
               \/ Closing(c)
               \/ ~Busy(c) /\ (<<"close", c>> \in lost \/ Recorded(c))

LineInv == QueuedLast /\ RunsLast /\ RowInv

(* After is before with jobs of c behind, none of them a close job.        *)
Grows(before, after, c) ==
    \A q \in Queues :
        /\ after[q] \in Seq(Job) /\ Len(before[q]) <= Len(after[q])
        /\ \A i \in 1 .. Len(before[q]) : after[q][i] = before[q][i]
        /\ \A i \in Len(before[q]) + 1 .. Len(after[q]) :
               after[q][i].consumer = c /\ after[q][i].kind # "close"

LEMMA QueuedGrows ==
    ASSUME NEW queues \in [Queues -> Seq(Job)], NEW kind \in Kinds \ {"close"},
           NEW c \in Consumers, clock \in 0 .. MaxTime
    PROVE  Grows(queues, Queued(queues, kind, c), c)
<1> SUFFICES ASSUME NEW q \in Queues
             PROVE  LET after == Queued(queues, kind, c) IN
                    /\ after[q] \in Seq(Job) /\ Len(queues[q]) <= Len(after[q])
                    /\ \A i \in 1 .. Len(queues[q]) : after[q][i] = queues[q][i]
                    /\ \A i \in Len(queues[q]) + 1 .. Len(after[q]) :
                           after[q][i].consumer = c /\ after[q][i].kind # "close"
  BY DEF Grows
<1> DEFINE job == NewJob(kind, c)
<1>1. job \in Job /\ job.consumer = c /\ job.kind # "close"
  BY QueuedEffect DEF NewJob
<1>2. queues[q] \in Seq(Job)
  OBVIOUS
<1>3. CASE Queued(queues, kind, c)[q] = queues[q]
  <2>1. Len(queues[q]) + 1 .. Len(queues[q]) = {}
    BY <1>2
  <2> QED BY <1>2, <1>3, <2>1
<1> HIDE DEF job
<1>4. CASE Queued(queues, kind, c)[q] = Append(queues[q], job)
  <2>1. /\ Append(queues[q], job) \in Seq(Job)
        /\ Len(Append(queues[q], job)) = Len(queues[q]) + 1
        /\ \A i \in 1 .. Len(queues[q]) : Append(queues[q], job)[i] = queues[q][i]
        /\ Append(queues[q], job)[Len(queues[q]) + 1] = job
    BY <1>1, <1>2
  <2>2. Len(queues[q]) \in Nat
    BY <1>2
  <2>3. \A i \in Len(queues[q]) + 1 .. Len(queues[q]) + 1 : i = Len(queues[q]) + 1
    BY <2>2
  <2> QED BY <1>1, <1>4, <2>1, <2>2, <2>3
<1>5. Queued(queues, kind, c)[q] = queues[q] \/ Queued(queues, kind, c)[q] = Append(queues[q], job)
  BY DEF Queued, job
<1> QED BY <1>3, <1>4, <1>5

LEMMA GrowsAgain ==
    ASSUME NEW a \in [Queues -> Seq(Job)], NEW b \in [Queues -> Seq(Job)],
           NEW d \in [Queues -> Seq(Job)], NEW c, Grows(a, b, c), Grows(b, d, c)
    PROVE  Grows(a, d, c)
<1> SUFFICES ASSUME NEW q \in Queues
             PROVE  /\ d[q] \in Seq(Job) /\ Len(a[q]) <= Len(d[q])
                    /\ \A i \in 1 .. Len(a[q]) : d[q][i] = a[q][i]
                    /\ \A i \in Len(a[q]) + 1 .. Len(d[q]) :
                           d[q][i].consumer = c /\ d[q][i].kind # "close"
  BY DEF Grows
<1>1. /\ Len(a[q]) <= Len(b[q]) /\ Len(b[q]) <= Len(d[q])
      /\ Len(a[q]) \in Nat /\ Len(b[q]) \in Nat /\ Len(d[q]) \in Nat
  BY DEF Grows
<1>2. /\ \A i \in 1 .. Len(a[q]) : b[q][i] = a[q][i]
      /\ \A i \in 1 .. Len(b[q]) : d[q][i] = b[q][i]
      /\ \A i \in Len(a[q]) + 1 .. Len(b[q]) : b[q][i].consumer = c /\ b[q][i].kind # "close"
      /\ \A i \in Len(b[q]) + 1 .. Len(d[q]) : d[q][i].consumer = c /\ d[q][i].kind # "close"
  BY DEF Grows
<1>3. \A i \in 1 .. Len(a[q]) : d[q][i] = a[q][i]
  BY <1>1, <1>2
<1>4. ASSUME NEW i \in Len(a[q]) + 1 .. Len(d[q])
      PROVE  d[q][i].consumer = c /\ d[q][i].kind # "close"
  <2>1. CASE i \in 1 .. Len(b[q])
    <3>1. i \in Len(a[q]) + 1 .. Len(b[q])
      BY <1>1, <2>1
    <3>2. d[q][i] = b[q][i]
      BY <1>2, <2>1
    <3> QED BY <1>2, <3>1, <3>2
  <2>2. CASE i \in Len(b[q]) + 1 .. Len(d[q])
    BY <1>2, <2>2
  <2>3. i \in Int
    BY <1>1
  <2> QED BY <1>1, <2>1, <2>2, <2>3
<1> QED BY <1>1, <1>3, <1>4

(* What connections that are not gone put behind the queue.                *)
LEMMA LineGrows ==
    ASSUME TypeOK, LineInv, NEW c \in Consumers, state[c] # "gone", state'[c] # "gone",
           \A d \in Consumers \ {c} : state'[d] = state[d],
           UNCHANGED <<running, row, lost>>,
           Grows(queue, queue', c)
    PROVE  LineInv'
<1>1. \A q \in Queues :
          /\ queue[q] \in Seq(Job) /\ Len(queue[q]) \in Nat /\ Len(queue'[q]) \in Nat
          /\ queue'[q] \in Seq(Job) /\ Len(queue[q]) <= Len(queue'[q])
          /\ \A i \in 1 .. Len(queue[q]) : queue'[q][i] = queue[q][i]
          /\ \A i \in Len(queue[q]) + 1 .. Len(queue'[q]) :
                 queue'[q][i].consumer = c /\ queue'[q][i].kind # "close"
  BY DEF TypeOK, Grows
<1>2. ASSUME NEW q \in Queues, NEW i \in 1 .. Len(queue[q])
      PROVE  queue[q][i].consumer \in Consumers
  <2>1. queue[q][i] \in Job
    BY <1>1
  <2> QED BY <2>1 DEF Job
<1>3. \A w \in Workers : running[w] # None => running[w].consumer \in Consumers
  BY DEF TypeOK, Job
<1>4. ASSUME NEW d \in Consumers \ {c}
      PROVE  (Busy(d)' => Busy(d)) /\ (Closing(d) => Closing(d)')
  <2>1. ASSUME NEW q \in Queues, NEW i \in 1 .. Len(queue'[q]), queue'[q][i].consumer = d
        PROVE  i \in 1 .. Len(queue[q]) /\ queue[q][i].consumer = d
    <3>1. i \notin Len(queue[q]) + 1 .. Len(queue'[q])
      BY <1>1, <2>1
    <3> QED BY <1>1, <2>1, <3>1
  <2>2. ASSUME NEW q \in Queues, NEW i \in 1 .. Len(queue[q])
        PROVE  i \in 1 .. Len(queue'[q]) /\ queue'[q][i] = queue[q][i]
    BY <1>1
  <2>3. Busy(d)' => Busy(d)
    <3> HIDE DEF TypeOK
    <3> QED BY <2>1 DEF Busy
  <2>4. Closing(d) => Closing(d)'
    BY <2>2 DEF Closing
  <2> QED BY <2>3, <2>4
<1>5. QueuedLast'
  <2> SUFFICES ASSUME NEW q \in Queues, NEW i \in 1 .. Len(queue'[q]),
                      queue'[q][i].kind = "close"
               PROVE  /\ state'[queue'[q][i].consumer] = "gone"
                      /\ \A k \in i + 1 .. Len(queue'[q]) :
                             queue'[q][k].consumer # queue'[q][i].consumer
    BY DEF QueuedLast
  <2>1. i \in 1 .. Len(queue[q]) /\ queue'[q][i] = queue[q][i]
    BY <1>1
  <2>2. state[queue[q][i].consumer] = "gone" /\ queue[q][i].consumer \in Consumers \ {c}
    BY <2>1, <1>2 DEF LineInv, QueuedLast
  <2>3. \A k \in i + 1 .. Len(queue[q]) : queue[q][k].consumer # queue[q][i].consumer
    BY <2>1 DEF LineInv, QueuedLast
  <2> QED BY <1>1, <2>1, <2>2, <2>3
<1>6. RunsLast'
  <2> SUFFICES ASSUME NEW w \in Workers, running[w] # None, running[w].kind = "close"
               PROVE  /\ state'[running[w].consumer] = "gone"
                      /\ \A q \in Queues : \A i \in 1 .. Len(queue'[q]) :
                             queue'[q][i].consumer # running[w].consumer
    BY DEF RunsLast
  <2>1. state[running[w].consumer] = "gone" /\ running[w].consumer \in Consumers \ {c}
    BY <1>3 DEF LineInv, RunsLast
  <2>2. \A q \in Queues : \A i \in 1 .. Len(queue[q]) : queue[q][i].consumer # running[w].consumer
    BY DEF LineInv, RunsLast
  <2> QED BY <1>1, <2>1, <2>2
<1>7. RowInv'
  <2>1. ASSUME NEW d \in Consumers \ {c}
        PROVE  /\ row'[d] # None /\ (state'[d] # "gone" \/ Busy(d)') =>
                      row'[d].online /\ row'[d].offline_at = None
               /\ state'[d] = "gone" =>
                      \/ Closing(d)'
                      \/ ~Busy(d)' /\ (<<"close", d>> \in lost' \/ Recorded(d)')
    BY <1>4, <2>1 DEF LineInv, RowInv, Recorded
  <2> QED BY <2>1 DEF LineInv, RowInv
<1> QED BY <1>5, <1>6, <1>7 DEF LineInv

(* The jobs an open connection queues, the close job apart.                *)
LEMMA ReceiveLine ==
    ASSUME TypeOK, LineInv, NEW c \in Consumers,
           \/ Connect(c) \/ ReceiveMessage(c) \/ ReceiveDeferred(c) \/ ReceiveInternal(c)
    PROVE  LineInv'
<1>1. queue \in [Queues -> Seq(Job)] /\ clock \in 0 .. MaxTime
  BY DEF TypeOK
<1>2. \A kind \in Kinds \ {"close"} :
          Grows(queue, Queued(queue, kind, c), c) /\ Queued(queue, kind, c) \in [Queues -> Seq(Job)]
  BY <1>1, QueuedGrows, QueuedEffect
<1>3. Grows(queue, queue, c)
  <2>1. \A q \in Queues : queue[q] \in Seq(Job) /\ Len(queue[q]) \in Nat
    BY <1>1
  <2> QED BY <2>1 DEF Grows
<1>4. Grows(queue, Marked(c), c)
  BY <1>2, <1>3 DEF Marked, Kinds
<1>5. Grows(queue, Queued(Marked(c), "deferred", c), c)
  <2>1. Marked(c) \in [Queues -> Seq(Job)]
    BY MarkedType
  <2>2. /\ Queued(Marked(c), "deferred", c) \in [Queues -> Seq(Job)]
        /\ Grows(Marked(c), Queued(Marked(c), "deferred", c), c)
    BY <1>1, <2>1, QueuedGrows, QueuedEffect DEF Kinds
  <2> QED BY <1>1, <1>4, <2>1, <2>2, GrowsAgain
<1>6. Grows(queue, queue', c)
  <2>1. Grows(queue, Queued(queue, "connect", c), c) /\ Grows(queue, Queued(queue, "deferred", c), c)
    BY <1>2 DEF Kinds
  <2> QED BY <1>4, <1>5, <2>1 DEF Connect, ReceiveMessage, ReceiveDeferred, ReceiveInternal
<1>7. /\ state[c] # "gone" /\ state'[c] # "gone"
      /\ \A d \in Consumers \ {c} : state'[d] = state[d]
      /\ UNCHANGED <<running, row, lost>>
  BY DEF Connect, ReceiveMessage, ReceiveDeferred, ReceiveInternal, Receive, TypeOK
<1> QED BY <1>6, <1>7, LineGrows

(* The close job goes behind all others.                                   *)
LEMMA DisconnectLine ==
    ASSUME TypeOK, LineInv, OneLine, NEW c \in Consumers, Disconnect(c)
    PROVE  LineInv'
<1> DEFINE job == NewJob("close", c)
<1>1. job \in Job /\ job.consumer = c /\ job.kind = "close"
  BY DEF NewJob, Job, Kinds, TypeOK
<1>2. ASSUME NEW q \in Queues
      PROVE  queue[q] \in Seq(Job) /\ queue'[q] = Append(queue[q], job)
  <2>1. QueueFor["close"] \in Queues
    BY StatusAssumption DEF OneLine, Kinds
  <2>2. q = QueueFor["close"]
    BY <2>1 DEF OneLine
  <2> QED BY <2>2 DEF Disconnect, Queued, TypeOK
<1> HIDE DEF job
<1>3. ASSUME NEW q \in Queues
      PROVE  /\ Len(queue[q]) \in Nat /\ Len(queue'[q]) = Len(queue[q]) + 1
             /\ \A i \in 1 .. Len(queue[q]) : queue'[q][i] = queue[q][i]
             /\ queue'[q][Len(queue[q]) + 1] = job
  BY <1>1, <1>2
<1>4. /\ state[c] = "open" /\ state'[c] = "gone"
      /\ \A d \in Consumers \ {c} : state'[d] = state[d]
      /\ UNCHANGED <<running, row, lost>>
  BY DEF Disconnect, TypeOK
<1>5. ASSUME NEW q \in Queues, NEW i \in 1 .. Len(queue[q])
      PROVE  queue[q][i].consumer \in Consumers
  <2>1. queue[q][i] \in Job
    BY <1>2
  <2> QED BY <2>1 DEF Job
<1>6. \A w \in Workers : running[w] # None => running[w].consumer \in Consumers
  BY DEF TypeOK, Job
<1>7. ASSUME NEW d \in Consumers \ {c}
      PROVE  (Busy(d)' => Busy(d)) /\ (Closing(d) => Closing(d)')
  <2>1. ASSUME NEW q \in Queues, NEW i \in 1 .. Len(queue'[q]), queue'[q][i].consumer = d
        PROVE  i \in 1 .. Len(queue[q]) /\ queue[q][i].consumer = d
    <3>1. i # Len(queue[q]) + 1
      BY <1>1, <1>3, <2>1
    <3> QED BY <1>3, <2>1, <3>1
  <2>2. ASSUME NEW q \in Queues, NEW i \in 1 .. Len(queue[q])
        PROVE  i \in 1 .. Len(queue'[q]) /\ queue'[q][i] = queue[q][i]
    BY <1>3
  <2>3. Busy(d)' => Busy(d)
    BY <1>4, <2>1 DEF Busy
  <2>4. Closing(d) => Closing(d)'
    BY <1>4, <2>2 DEF Closing
  <2> QED BY <2>3, <2>4
<1>8. QueuedLast'
  <2> SUFFICES ASSUME NEW q \in Queues, NEW i \in 1 .. Len(queue'[q]),
                      queue'[q][i].kind = "close"
               PROVE  /\ state'[queue'[q][i].consumer] = "gone"
                      /\ \A k \in i + 1 .. Len(queue'[q]) :
                             queue'[q][k].consumer # queue'[q][i].consumer
    BY DEF QueuedLast
  <2>1. CASE i = Len(queue[q]) + 1
    BY <1>1, <1>3, <1>4, <2>1
  <2>2. CASE i \in 1 .. Len(queue[q])
    <3>1. queue'[q][i] = queue[q][i]
      BY <1>3, <2>2
    <3>2. state[queue[q][i].consumer] = "gone" /\ queue[q][i].consumer \in Consumers \ {c}
      BY <1>4, <1>5, <2>2, <3>1 DEF LineInv, QueuedLast
    <3>3. \A k \in i + 1 .. Len(queue[q]) : queue[q][k].consumer # queue[q][i].consumer
      BY <2>2, <3>1 DEF LineInv, QueuedLast
    <3>4. ASSUME NEW k \in i + 1 .. Len(queue'[q])
          PROVE  queue'[q][k].consumer # queue'[q][i].consumer
      <4>1. CASE k = Len(queue[q]) + 1
        BY <1>1, <1>3, <3>1, <3>2, <4>1
      <4>2. CASE k \in i + 1 .. Len(queue[q])
        BY <1>3, <3>1, <3>3, <4>2
      <4> QED BY <1>3, <4>1, <4>2
    <3> QED BY <1>4, <3>1, <3>2, <3>4
  <2> QED BY <1>3, <2>1, <2>2
<1>9. RunsLast'
  <2> SUFFICES ASSUME NEW w \in Workers, running[w] # None, running[w].kind = "close"
               PROVE  /\ state'[running[w].consumer] = "gone"
                      /\ \A q \in Queues : \A i \in 1 .. Len(queue'[q]) :
                             queue'[q][i].consumer # running[w].consumer
    BY <1>4 DEF RunsLast
  <2>1. state[running[w].consumer] = "gone" /\ running[w].consumer \in Consumers \ {c}
    BY <1>4, <1>6 DEF LineInv, RunsLast
  <2>2. \A q \in Queues : \A i \in 1 .. Len(queue[q]) : queue[q][i].consumer # running[w].consumer
    BY DEF LineInv, RunsLast
  <2> QED BY <1>1, <1>3, <1>4, <2>1, <2>2
<1>10. RowInv'
  <2>1. ASSUME NEW d \in Consumers \ {c}
        PROVE  /\ row'[d] # None /\ (state'[d] # "gone" \/ Busy(d)') =>
                      row'[d].online /\ row'[d].offline_at = None
               /\ state'[d] = "gone" =>
                      \/ Closing(d)'
                      \/ ~Busy(d)' /\ (<<"close", d>> \in lost' \/ Recorded(d)')
    BY <1>4, <1>7, <2>1 DEF LineInv, RowInv, Recorded
  <2>2. row[c] # None => row[c].online /\ row[c].offline_at = None
    BY <1>4 DEF LineInv, RowInv
  <2>3. Closing(c)'
    <3>1. QueueFor["close"] \in Queues
      BY StatusAssumption DEF OneLine, Kinds
    <3>2. PICK q \in Queues : TRUE
      BY <3>1
    <3>3. Len(queue[q]) + 1 \in 1 .. Len(queue'[q])
      BY <1>3
    <3> QED BY <1>1, <1>3, <3>3 DEF Closing
  <2> QED BY <1>4, <2>1, <2>2, <2>3 DEF RowInv
<1> QED BY <1>8, <1>9, <1>10 DEF LineInv

(* The job in front goes to the worker.                                    *)
LEMMA TakeLine ==
    ASSUME TypeOK, LineInv, OneLine, NEW w \in Workers, Take(w)
    PROVE  LineInv'
<1>1. PICK q \in Queues :
          /\ queue[q] # << >>
          /\ running' = [running EXCEPT ![w] = Head(queue[q])]
          /\ queue' = [queue EXCEPT ![q] = Tail(@)]
  BY StatusAssumption DEF Take
<1>2. /\ queue[q] \in Seq(Job) /\ Len(queue[q]) \in Nat \ {0}
      /\ running'[w] = queue[q][1] /\ queue'[q] = Tail(queue[q])
  BY <1>1 DEF TypeOK
<1>3. /\ Len(queue'[q]) = Len(queue[q]) - 1
      /\ \A i \in 1 .. Len(queue'[q]) : queue'[q][i] = queue[q][i + 1] /\ i + 1 \in 1 .. Len(queue[q])
      /\ \A i \in 2 .. Len(queue[q]) : i - 1 \in 1 .. Len(queue'[q]) /\ queue'[q][i - 1] = queue[q][i]
  BY <1>2
<1>4. running[w] = None /\ UNCHANGED <<state, row, lost>>
  BY DEF Take
<1>5. /\ \A p \in Queues : p = q
      /\ \A v \in Workers : v = w
  BY DEF OneLine
<1>6. 1 \in 1 .. Len(queue[q]) /\ queue[q][1] \in Job /\ queue[q][1] # None
  BY <1>2, NoneApart
<1>7. ASSUME NEW d \in Consumers
      PROVE  /\ Busy(d)' => Busy(d)
             /\ Closing(d) => Closing(d)'
  <2>1. Busy(d)' => Busy(d)
    <3>1. ASSUME NEW i \in 1 .. Len(queue'[q]), queue'[q][i].consumer = d
          PROVE  Busy(d)
      BY <1>3, <3>1 DEF Busy
    <3>2. ASSUME running'[w].consumer = d
          PROVE  Busy(d)
      BY <1>2, <1>6, <3>2 DEF Busy
    <3> QED BY <1>5, <3>1, <3>2 DEF Busy
  <2>2. Closing(d) => Closing(d)'
    <3>1. ASSUME NEW i \in 1 .. Len(queue[q]), queue[q][i].consumer = d, queue[q][i].kind = "close"
          PROVE  Closing(d)'
      <4>1. CASE i = 1
        BY <1>2, <1>6, <3>1, <4>1 DEF Closing
      <4>2. CASE i \in 2 .. Len(queue[q])
        BY <1>3, <3>1, <4>2 DEF Closing
      <4> QED BY <1>2, <4>1, <4>2
    <3> QED BY <1>4, <1>5, <3>1 DEF Closing
  <2> QED BY <2>1, <2>2
<1>8. QueuedLast'
  <2> SUFFICES ASSUME NEW i \in 1 .. Len(queue'[q]), queue'[q][i].kind = "close"
               PROVE  /\ state[queue'[q][i].consumer] = "gone"
                      /\ \A k \in i + 1 .. Len(queue'[q]) :
                             queue'[q][k].consumer # queue'[q][i].consumer
    BY <1>4, <1>5 DEF QueuedLast
  <2>1. /\ i + 1 \in 1 .. Len(queue[q]) /\ queue'[q][i] = queue[q][i + 1]
        /\ \A k \in i + 1 .. Len(queue'[q]) :
               queue'[q][k] = queue[q][k + 1] /\ k + 1 \in (i + 1) + 1 .. Len(queue[q])
    BY <1>2, <1>3
  <2> QED BY <2>1 DEF LineInv, QueuedLast
<1>9. RunsLast'
  <2> SUFFICES ASSUME running'[w].kind = "close"
               PROVE  /\ state[running'[w].consumer] = "gone"
                      /\ \A i \in 1 .. Len(queue'[q]) :
                             queue'[q][i].consumer # running'[w].consumer
    BY <1>4, <1>5 DEF RunsLast
  <2>1. /\ state[queue[q][1].consumer] = "gone"
        /\ \A k \in 1 + 1 .. Len(queue[q]) : queue[q][k].consumer # queue[q][1].consumer
    BY <1>2, <1>6 DEF LineInv, QueuedLast
  <2>2. \A i \in 1 .. Len(queue'[q]) :
            queue'[q][i] = queue[q][i + 1] /\ i + 1 \in 1 + 1 .. Len(queue[q])
    BY <1>2, <1>3
  <2> QED BY <1>2, <2>1, <2>2
<1>10. RowInv'
  BY <1>4, <1>7 DEF LineInv, RowInv, Recorded
<1> QED BY <1>8, <1>9, <1>10 DEF LineInv

(* A job ends: its row is as it was, or says what the job says.            *)
LEMMA EndLine ==
    ASSUME TypeOK, LineInv, OneLine, NEW w \in Workers, Write(w) \/ Refuse(w) \/ Fail(w)
    PROVE  LineInv'
<1>0. running[w] \in Job /\ (Write(w) \/ Forget(w))
  BY DEF Write, Refuse, Fail, TypeOK
<1> PICK j \in Job : running[w] = j
  BY <1>0
<1>1. /\ j.consumer \in Consumers /\ j.kind \in Kinds
      /\ running[w] = j /\ j # None /\ (Write(w) \/ Forget(w))
  BY <1>0, NoneApart DEF Job
<1>2. /\ running' = [running EXCEPT ![w] = None]
      /\ UNCHANGED <<state, queue>>
  BY <1>1 DEF Write, Forget
<1>3. running'[w] = None /\ \A v \in Workers : v = w
  BY <1>2 DEF TypeOK, OneLine
<1>4. ASSUME NEW d \in Consumers
      PROVE  Busy(d)' => Busy(d)
  BY <1>2, <1>3 DEF Busy
<1>5. ASSUME NEW d \in Consumers, d # j.consumer \/ j.kind # "close"
      PROVE  Closing(d) => Closing(d)'
  BY <1>1, <1>2, <1>3, <1>5 DEF Closing
<1>6. Busy(j.consumer)
  BY <1>1 DEF Busy
<1>7. ASSUME j.kind = "close"
      PROVE  state[j.consumer] = "gone" /\ ~Busy(j.consumer)'
  <2>1. /\ state[j.consumer] = "gone"
        /\ \A q \in Queues : \A i \in 1 .. Len(queue[q]) : queue[q][i].consumer # j.consumer
    BY <1>1, <1>7 DEF LineInv, RunsLast
  <2> QED BY <1>2, <1>3, <2>1 DEF Busy
<1>8. QueuedLast' /\ RunsLast'
  BY <1>2, <1>3 DEF LineInv, QueuedLast, RunsLast
<1>9. row' \in [Consumers -> Row \cup {None}] /\ row \in [Consumers -> Row \cup {None}]
  BY StatusTypeStep DEF TypeOK, Next
<1>10. CASE Forget(w)
  <2>1. row' = row /\ lost' = lost \cup {<<j.kind, j.consumer>>}
    BY <1>1, <1>10 DEF Forget
  <2>2. ASSUME NEW d \in Consumers
        PROVE  /\ row'[d] # None /\ (state'[d] # "gone" \/ Busy(d)') =>
                      row'[d].online /\ row'[d].offline_at = None
               /\ state'[d] = "gone" =>
                      \/ Closing(d)'
                      \/ ~Busy(d)' /\ (<<"close", d>> \in lost' \/ Recorded(d)')
    <3>1. CASE d = j.consumer /\ j.kind = "close"
      <4>1. state'[d] = "gone" /\ ~Busy(d)' /\ <<"close", d>> \in lost'
        BY <1>2, <1>7, <2>1, <3>1
      <4> QED BY <4>1
    <3>2. CASE d # j.consumer \/ j.kind # "close"
      BY <1>2, <1>4, <1>5, <2>1, <3>2 DEF LineInv, RowInv, Recorded
    <3> QED BY <3>1, <3>2
  <2> QED BY <1>8, <2>2 DEF LineInv, RowInv
<1>11. CASE Write(w)
  <2>1. /\ lost' = lost
        /\ row'[j.consumer] = Updated(row[j.consumer], j)
        /\ \A d \in Consumers \ {j.consumer} : row'[d] = row[d]
    BY <1>1, <1>9, <1>11 DEF Write
  <2>2. ASSUME NEW d \in Consumers \ {j.consumer}
        PROVE  /\ row'[d] # None /\ (state'[d] # "gone" \/ Busy(d)') =>
                      row'[d].online /\ row'[d].offline_at = None
               /\ state'[d] = "gone" =>
                      \/ Closing(d)'
                      \/ ~Busy(d)' /\ (<<"close", d>> \in lost' \/ Recorded(d)')
    BY <1>2, <1>4, <1>5, <2>1, <2>2 DEF LineInv, RowInv, Recorded
  <2>3. row[j.consumer] # None => row[j.consumer].online /\ row[j.consumer].offline_at = None
    BY <1>1, <1>6 DEF LineInv, RowInv
  <2>4. CASE j.kind = "close"
    <3>1. row'[j.consumer].online = FALSE /\ row'[j.consumer].offline_at = j.at
      BY <1>1, <1>9, <2>1, <2>4 DEF Updated, NewRow, Row
    <3>2. j.at # None
      BY <1>1, StatusAssumption DEF Job
    <3>3. row'[j.consumer] # None
      <4>1. Updated(row[j.consumer], j) \in Row
        BY <1>1, <1>9 DEF Updated, NewRow, Row, Job, Time
      <4> QED BY <2>1, <4>1, NoneApart
    <3>4. state'[j.consumer] = "gone" /\ ~Busy(j.consumer)' /\ Recorded(j.consumer)'
      BY <1>2, <1>7, <2>4, <3>1, <3>2, <3>3 DEF Recorded
    <3> QED BY <1>1, <1>8, <2>2, <3>4 DEF LineInv, RowInv
  <2>5. CASE j.kind # "close"
    <3>1. row'[j.consumer].online = TRUE /\ row'[j.consumer].offline_at = None
      BY <1>1, <1>9, <2>1, <2>3, <2>5 DEF Updated, NewRow, Row
    <3>2. state[j.consumer] = "gone" => Closing(j.consumer)
      BY <1>1, <1>6 DEF LineInv, RowInv
    <3>3. Closing(j.consumer) => Closing(j.consumer)'
      BY <1>1, <1>5, <2>5
    <3> QED BY <1>1, <1>2, <1>8, <2>2, <3>1, <3>2, <3>3 DEF LineInv, RowInv
  <2> QED BY <2>4, <2>5
<1> QED BY <1>1, <1>10, <1>11

LEMMA LineInit == Init => LineInv
<1> SUFFICES ASSUME Init
             PROVE  LineInv
  OBVIOUS
<1>1. \A q \in Queues : Len(queue[q]) = 0
  BY DEF Init
<1>2. QueuedLast /\ RunsLast
  BY <1>1 DEF Init, QueuedLast, RunsLast
<1> QED BY <1>2 DEF Init, LineInv, RowInv

LEMMA LineStep == OneLine /\ TypeOK /\ LineInv /\ [Next]_vars => LineInv'
<1> SUFFICES ASSUME OneLine, TypeOK, LineInv, [Next]_vars
             PROVE  LineInv'
  OBVIOUS
<1>1. ASSUME UNCHANGED <<queue, running, row, lost>>,
             \A d \in Consumers : state'[d] = state[d] \/ (state[d] # "gone" /\ state'[d] # "gone")
      PROVE  LineInv'
  <2>1. \A d \in Consumers : state[d] = "gone" <=> state'[d] = "gone"
    BY <1>1
  <2>2. \A d \in Consumers : (Busy(d)' <=> Busy(d)) /\ (Closing(d)' <=> Closing(d))
    BY <1>1 DEF Busy, Closing
  <2>3. ASSUME NEW q \in Queues, NEW i \in 1 .. Len(queue[q])
        PROVE  queue[q][i].consumer \in Consumers
    <3>1. queue[q] \in Seq(Job)
      BY DEF TypeOK
    <3>2. queue[q][i] \in Job
      BY <3>1
    <3> QED BY <3>2 DEF Job
  <2>4. QueuedLast'
    BY <1>1, <2>1, <2>3 DEF LineInv, QueuedLast
  <2>5. \A w \in Workers : running[w] # None => running[w].consumer \in Consumers
    BY DEF TypeOK, Job
  <2>6. RunsLast'
    BY <1>1, <2>1, <2>5 DEF LineInv, RunsLast
  <2>7. RowInv'
    BY <1>1, <2>1, <2>2 DEF LineInv, RowInv, Recorded
  <2> QED BY <2>4, <2>6, <2>7 DEF LineInv
<1>2. ASSUME NEW c \in Consumers, Crash(c)
      PROVE  LineInv'
  <2>1. UNCHANGED <<queue, running, row, lost>>
    BY <1>2 DEF Crash
  <2>2. \A d \in Consumers : state'[d] = state[d] \/ (state[d] # "gone" /\ state'[d] # "gone")
    BY <1>2 DEF Crash, TypeOK
  <2> QED BY <1>1, <2>1, <2>2
<1>3. CASE Tick \/ UNCHANGED vars
  <2>1. UNCHANGED <<state, queue, running, row, lost>>
    BY <1>3 DEF Tick, vars
  <2> QED BY <1>1, <2>1
<1> QED BY <1>2, <1>3, ReceiveLine, DisconnectLine, TakeLine, EndLine DEF Next

LEMMA LineCorrect == OneLine => (Spec => []LineInv)
<1> SUFFICES ASSUME OneLine
             PROVE  Spec => []LineInv
  OBVIOUS
<1>1. TypeOK /\ LineInv /\ [Next]_vars => LineInv'
  BY LineStep
<1> QED BY <1>1, LineInit, StatusTypeCorrect, PTL DEF Spec

(* Where one worker serves one queue, the last job of a connection is the  *)
(* one that says it closed, however many messages it sent before, and its  *)
(* row says offline, and since when, once its jobs have run.               *)
THEOREM ClosedRowsAreOffline == OneLine => (Spec => []ClosedIsOffline)
<1> SUFFICES ASSUME OneLine
             PROVE  Spec => []ClosedIsOffline
  OBVIOUS
<1>1. LineInv => ClosedIsOffline
  <2> SUFFICES ASSUME LineInv, NEW c \in Consumers, state[c] = "gone", ~Busy(c),
                      <<"close", c>> \notin lost
               PROVE  Recorded(c)
    BY DEF ClosedIsOffline, Recorded
  <2>1. Closing(c) => Busy(c)
    BY DEF Closing, Busy
  <2> QED BY <2>1 DEF LineInv, RowInv
<1> QED BY <1>1, LineCorrect, PTL

LEMMA OnlineStep == OneLine /\ TypeOK /\ LineInv /\ OnlineHasNoEnd /\ [Next]_vars => OnlineHasNoEnd'
<1> SUFFICES ASSUME OneLine, TypeOK, LineInv, OnlineHasNoEnd, [Next]_vars
             PROVE  OnlineHasNoEnd'
  OBVIOUS
<1>1. ASSUME NEW w \in Workers, Write(w)
      PROVE  OnlineHasNoEnd'
  <2>1. running[w] \in Job
    BY <1>1 DEF Write, TypeOK
  <2> PICK j \in Job : running[w] = j
    BY <2>1
  <2>2. /\ j.consumer \in Consumers
        /\ row' = [row EXCEPT ![j.consumer] = Updated(@, j)]
        /\ row \in [Consumers -> Row \cup {None}]
    BY <1>1 DEF Write, TypeOK, Job
  <2>3. Busy(j.consumer)
    BY <1>1 DEF Busy, Write
  <2>4. LET r == Updated(row[j.consumer], j) IN r.online <=> r.offline_at = None
    <3>1. row[j.consumer] # None => row[j.consumer].online /\ row[j.consumer].offline_at = None
      BY <2>2, <2>3 DEF LineInv, RowInv
    <3>2. j.at # None
      BY StatusAssumption DEF Job
    <3>3. CASE j.kind = "close"
      BY <2>2, <3>2, <3>3 DEF Updated, NewRow, Row
    <3>4. CASE j.kind # "close"
      BY <2>2, <3>1, <3>4 DEF Updated, NewRow, Row
    <3> QED BY <3>3, <3>4
  <2> QED BY <2>2, <2>4 DEF OnlineHasNoEnd
<1>2. CASE UNCHANGED row
  BY <1>2 DEF OnlineHasNoEnd
<1>3. CASE UNCHANGED vars
  BY <1>2, <1>3 DEF vars
<1>4. ASSUME NEW c \in Consumers,
             \/ Connect(c) \/ Disconnect(c) \/ Crash(c)
             \/ ReceiveMessage(c) \/ ReceiveDeferred(c) \/ ReceiveInternal(c)
      PROVE  UNCHANGED row
  BY <1>4 DEF Connect, Disconnect, Crash, ReceiveMessage, ReceiveDeferred, ReceiveInternal, Receive
<1>5. ASSUME NEW w \in Workers, Take(w) \/ Refuse(w) \/ Fail(w)
      PROVE  UNCHANGED row
  BY <1>5 DEF Take, Refuse, Fail, Forget
<1>6. Tick => UNCHANGED row
  BY DEF Tick
<1> QED BY <1>1, <1>2, <1>3, <1>4, <1>5, <1>6 DEF Next

(* Under the same conditions the row never says online of a connection it  *)
(* has an offline time of.                                                 *)
THEOREM OnlineRowsHaveNoEnd == OneLine => (Spec => []OnlineHasNoEnd)
<1> SUFFICES ASSUME OneLine
             PROVE  Spec => []OnlineHasNoEnd
  OBVIOUS
<1>1. Init => OnlineHasNoEnd
  BY DEF Init, OnlineHasNoEnd
<1>2. TypeOK /\ LineInv /\ OnlineHasNoEnd /\ [Next]_vars => OnlineHasNoEnd'
  BY OnlineStep
<1> QED BY <1>1, <1>2, LineCorrect, StatusTypeCorrect, PTL DEF Spec

-----------------------------------------------------------------------------
(* The times in one line: what is on record, what runs, what is queued     *)

OrderInv ==
    /\ \A q \in Queues : \A i \in 1 .. Len(queue[q]) :
           /\ queue[q][i].at <= clock
           /\ \A k \in i .. Len(queue[q]) : queue[q][i].at <= queue[q][k].at
    /\ \A w \in Workers : running[w] # None =>
           /\ running[w].at <= clock
           /\ \A q \in Queues : \A i \in 1 .. Len(queue[q]) : running[w].at <= queue[q][i].at
    /\ \A c \in Consumers : row[c] # None /\ row[c].last_action # None =>
           /\ row[c].last_action <= clock
           /\ \A q \in Queues : \A i \in 1 .. Len(queue[q]) : row[c].last_action <= queue[q][i].at
           /\ \A w \in Workers : running[w] # None => row[c].last_action <= running[w].at

(* After is before with jobs behind that carry the time.                   *)
Follows(before, after) ==
    \A q \in Queues :
        /\ after[q] \in Seq(Job) /\ Len(before[q]) <= Len(after[q])
        /\ \A i \in 1 .. Len(before[q]) : after[q][i] = before[q][i]
        /\ \A i \in Len(before[q]) + 1 .. Len(after[q]) : after[q][i].at = clock

LEMMA QueuedFollows ==
    ASSUME NEW queues \in [Queues -> Seq(Job)], NEW kind \in Kinds,
           NEW c \in Consumers, clock \in 0 .. MaxTime
    PROVE  Follows(queues, Queued(queues, kind, c))
<1> SUFFICES ASSUME NEW q \in Queues
             PROVE  LET after == Queued(queues, kind, c) IN
                    /\ after[q] \in Seq(Job) /\ Len(queues[q]) <= Len(after[q])
                    /\ \A i \in 1 .. Len(queues[q]) : after[q][i] = queues[q][i]
                    /\ \A i \in Len(queues[q]) + 1 .. Len(after[q]) : after[q][i].at = clock
  BY DEF Follows
<1> DEFINE job == NewJob(kind, c)
<1>1. job \in Job /\ job.at = clock
  BY QueuedEffect DEF NewJob
<1>2. queues[q] \in Seq(Job) /\ Len(queues[q]) \in Nat
  OBVIOUS
<1> HIDE DEF job
<1>3. CASE Queued(queues, kind, c)[q] = queues[q]
  <2>1. Len(queues[q]) + 1 .. Len(queues[q]) = {}
    BY <1>2
  <2> QED BY <1>2, <1>3, <2>1
<1>4. CASE Queued(queues, kind, c)[q] = Append(queues[q], job)
  <2>1. /\ Append(queues[q], job) \in Seq(Job)
        /\ Len(Append(queues[q], job)) = Len(queues[q]) + 1
        /\ \A i \in 1 .. Len(queues[q]) : Append(queues[q], job)[i] = queues[q][i]
        /\ Append(queues[q], job)[Len(queues[q]) + 1] = job
    BY <1>1, <1>2
  <2>2. \A i \in Len(queues[q]) + 1 .. Len(queues[q]) + 1 : i = Len(queues[q]) + 1
    BY <1>2
  <2> QED BY <1>1, <1>2, <1>4, <2>1, <2>2
<1>5. Queued(queues, kind, c)[q] = queues[q] \/ Queued(queues, kind, c)[q] = Append(queues[q], job)
  BY DEF Queued, job
<1> QED BY <1>3, <1>4, <1>5

LEMMA FollowsAgain ==
    ASSUME NEW a \in [Queues -> Seq(Job)], NEW b \in [Queues -> Seq(Job)],
           NEW d \in [Queues -> Seq(Job)], Follows(a, b), Follows(b, d)
    PROVE  Follows(a, d)
<1> SUFFICES ASSUME NEW q \in Queues
             PROVE  /\ d[q] \in Seq(Job) /\ Len(a[q]) <= Len(d[q])
                    /\ \A i \in 1 .. Len(a[q]) : d[q][i] = a[q][i]
                    /\ \A i \in Len(a[q]) + 1 .. Len(d[q]) : d[q][i].at = clock
  BY DEF Follows
<1>1. /\ Len(a[q]) <= Len(b[q]) /\ Len(b[q]) <= Len(d[q])
      /\ Len(a[q]) \in Nat /\ Len(b[q]) \in Nat /\ Len(d[q]) \in Nat
  BY DEF Follows
<1>2. /\ \A i \in 1 .. Len(a[q]) : b[q][i] = a[q][i]
      /\ \A i \in 1 .. Len(b[q]) : d[q][i] = b[q][i]
      /\ \A i \in Len(a[q]) + 1 .. Len(b[q]) : b[q][i].at = clock
      /\ \A i \in Len(b[q]) + 1 .. Len(d[q]) : d[q][i].at = clock
  BY DEF Follows
<1>3. \A i \in 1 .. Len(a[q]) : d[q][i] = a[q][i]
  BY <1>1, <1>2
<1>4. ASSUME NEW i \in Len(a[q]) + 1 .. Len(d[q])
      PROVE  d[q][i].at = clock
  <2>1. CASE i \in 1 .. Len(b[q])
    <3>1. i \in Len(a[q]) + 1 .. Len(b[q])
      BY <1>1, <2>1
    <3>2. d[q][i] = b[q][i]
      BY <1>2, <2>1
    <3> QED BY <1>2, <3>1, <3>2
  <2>2. CASE i \in Len(b[q]) + 1 .. Len(d[q])
    BY <1>2, <2>2
  <2>3. i \in Int
    BY <1>1
  <2> QED BY <1>1, <2>1, <2>2, <2>3
<1> QED BY <1>1, <1>3, <1>4

(* Whatever a consumer does, it queues jobs behind the others.             *)
LEMMA ConsumerFollows ==
    ASSUME TypeOK, NEW c \in Consumers,
           \/ Connect(c) \/ Disconnect(c) \/ Crash(c)
           \/ ReceiveMessage(c) \/ ReceiveDeferred(c) \/ ReceiveInternal(c)
    PROVE  Follows(queue, queue')
<1>1. queue \in [Queues -> Seq(Job)] /\ clock \in 0 .. MaxTime
  BY DEF TypeOK
<1>2. \A kind \in Kinds : Follows(queue, Queued(queue, kind, c))
  BY <1>1, QueuedFollows
<1>3. Follows(queue, queue)
  <2>1. \A q \in Queues : queue[q] \in Seq(Job) /\ Len(queue[q]) \in Nat
    BY <1>1
  <2> QED BY <2>1 DEF Follows
<1>4. Follows(queue, Marked(c))
  BY <1>2, <1>3 DEF Marked, Kinds
<1>5. Follows(queue, Queued(Marked(c), "deferred", c))
  <2>1. Marked(c) \in [Queues -> Seq(Job)]
    BY MarkedType
  <2>2. /\ Queued(Marked(c), "deferred", c) \in [Queues -> Seq(Job)]
        /\ Follows(Marked(c), Queued(Marked(c), "deferred", c))
    BY <1>1, <2>1, QueuedFollows, QueuedEffect DEF Kinds
  <2> QED BY <1>1, <1>4, <2>1, <2>2, FollowsAgain
<1>6. /\ Follows(queue, Queued(queue, "connect", c)) /\ Follows(queue, Queued(queue, "close", c))
      /\ Follows(queue, Queued(queue, "deferred", c))
  BY <1>2 DEF Kinds
<1>7. CASE Connect(c)
  BY <1>6, <1>7 DEF Connect
<1>8. CASE Disconnect(c)
  BY <1>6, <1>8 DEF Disconnect
<1>9. CASE Crash(c)
  BY <1>3, <1>9 DEF Crash
<1>10. CASE ReceiveMessage(c)
  BY <1>4, <1>10 DEF ReceiveMessage
<1>11. CASE ReceiveDeferred(c)
  BY <1>5, <1>11 DEF ReceiveDeferred
<1>12. CASE ReceiveInternal(c)
  BY <1>6, <1>12 DEF ReceiveInternal
<1> QED BY <1>7, <1>8, <1>9, <1>10, <1>11, <1>12
LEMMA Typed ==
    ASSUME TypeOK
    PROVE  /\ clock \in Int
           /\ \A q \in Queues : queue[q] \in Seq(Job) /\ Len(queue[q]) \in Nat
           /\ \A q \in Queues : \A i \in 1 .. Len(queue[q]) :
                  /\ queue[q][i] \in Job /\ queue[q][i] # None
                  /\ queue[q][i].at \in Int /\ queue[q][i].consumer \in Consumers
           /\ \A w \in Workers : running[w] # None =>
                  running[w] \in Job /\ running[w].at \in Int /\ running[w].consumer \in Consumers
           /\ \A c \in Consumers : row[c] # None /\ row[c].last_action # None =>
                  row[c].last_action \in Int
<1>1. \A q \in Queues : queue[q] \in Seq(Job) /\ Len(queue[q]) \in Nat
  BY DEF TypeOK
<1>2. ASSUME NEW j \in Job
      PROVE  j # None /\ j.at \in Int /\ j.consumer \in Consumers
  BY NoneApart, StatusAssumption DEF Job
<1>3. ASSUME NEW q \in Queues, NEW i \in 1 .. Len(queue[q])
      PROVE  queue[q][i] \in Job
  BY <1>1
<1>4. \A w \in Workers : running[w] # None => running[w] \in Job
  BY DEF TypeOK
<1>5. ASSUME NEW c \in Consumers, row[c] # None, row[c].last_action # None
      PROVE  row[c].last_action \in Int
  <2>1. row[c] \in Row
    BY <1>5 DEF TypeOK
  <2> QED BY <1>5, <2>1 DEF Row, Time
<1>6. clock \in Int
  BY DEF TypeOK
<1> QED BY <1>1, <1>2, <1>3, <1>4, <1>5, <1>6

LEMMA OrderConsumer ==
    ASSUME TypeOK, OrderInv, Follows(queue, queue'), UNCHANGED <<clock, running, row>>
    PROVE  OrderInv'
<1>1. ASSUME NEW q \in Queues, NEW i \in 1 .. Len(queue'[q])
      PROVE  \/ i \in 1 .. Len(queue[q]) /\ queue'[q][i] = queue[q][i]
             \/ i \in Len(queue[q]) + 1 .. Len(queue'[q]) /\ queue'[q][i].at = clock
  <2>1. Len(queue[q]) \in Nat
    BY Typed
  <2>2. i \in 1 .. Len(queue[q]) \/ i \in Len(queue[q]) + 1 .. Len(queue'[q])
    BY <2>1
  <2> QED BY <2>2 DEF Follows
<1>2. ASSUME NEW q \in Queues, NEW i \in 1 .. Len(queue'[q])
      PROVE  queue'[q][i].at <= clock /\ queue'[q][i].at \in Int
  BY <1>1, Typed DEF OrderInv
<1>3. ASSUME NEW q \in Queues, NEW i \in 1 .. Len(queue'[q]), NEW k \in i .. Len(queue'[q])
      PROVE  queue'[q][i].at <= queue'[q][k].at
  <2>0. Len(queue[q]) \in Nat /\ Len(queue'[q]) \in Nat /\ i \in Nat /\ k \in Nat
    BY Typed DEF Follows
  <2>1. k \in 1 .. Len(queue'[q])
    BY <2>0
  <2>2. CASE k \in Len(queue[q]) + 1 .. Len(queue'[q])
    <3>1. queue'[q][k].at = clock
      BY <2>2 DEF Follows
    <3> QED BY <1>2, <3>1
  <2>3. CASE k \in 1 .. Len(queue[q])
    <3>1. i \in 1 .. Len(queue[q]) /\ k \in i .. Len(queue[q])
      BY <2>0, <2>3
    <3>2. queue'[q][i] = queue[q][i] /\ queue'[q][k] = queue[q][k]
      BY <2>3, <3>1 DEF Follows
    <3> QED BY <3>1, <3>2 DEF OrderInv
  <2> QED BY <1>1, <2>1, <2>2, <2>3
<1>4. ASSUME NEW w \in Workers, running[w] # None, NEW q \in Queues, NEW i \in 1 .. Len(queue'[q])
      PROVE  running[w].at <= queue'[q][i].at
  BY <1>1, <1>4 DEF OrderInv
<1>5. ASSUME NEW c \in Consumers, row[c] # None, row[c].last_action # None,
             NEW q \in Queues, NEW i \in 1 .. Len(queue'[q])
      PROVE  row[c].last_action <= queue'[q][i].at
  BY <1>1, <1>5 DEF OrderInv
<1> QED BY <1>2, <1>3, <1>4, <1>5 DEF OrderInv

LEMMA OrderTake ==
    ASSUME TypeOK, OrderInv, OneLine, NEW w \in Workers, Take(w)
    PROVE  OrderInv'
<1>1. PICK q \in Queues :
          /\ queue[q] # << >>
          /\ running' = [running EXCEPT ![w] = Head(queue[q])]
          /\ queue' = [queue EXCEPT ![q] = Tail(@)]
  BY StatusAssumption DEF Take
<1>2. /\ queue[q] \in Seq(Job) /\ Len(queue[q]) \in Nat \ {0}
      /\ running'[w] = queue[q][1] /\ queue'[q] = Tail(queue[q])
  BY <1>1 DEF TypeOK
<1>3. /\ Len(queue'[q]) = Len(queue[q]) - 1
      /\ \A i \in 1 .. Len(queue'[q]) : queue'[q][i] = queue[q][i + 1] /\ i + 1 \in 1 .. Len(queue[q])
  BY <1>2
<1>4. UNCHANGED <<clock, row>>
  BY DEF Take
<1>5. (\A p \in Queues : p = q) /\ (\A v \in Workers : v = w)
  BY DEF OneLine
<1>6. 1 \in 1 .. Len(queue[q])
  BY <1>2
<1>7. ASSUME NEW i \in 1 .. Len(queue'[q])
      PROVE  /\ queue'[q][i].at <= clock
             /\ \A k \in i .. Len(queue'[q]) : queue'[q][i].at <= queue'[q][k].at
  <2>1. \A k \in i .. Len(queue'[q]) : queue'[q][k] = queue[q][k + 1] /\ k + 1 \in i + 1 .. Len(queue[q])
    BY <1>2, <1>3
  <2>2. i + 1 \in 1 .. Len(queue[q]) /\ queue'[q][i] = queue[q][i + 1]
    BY <1>3
  <2> QED BY <2>1, <2>2 DEF OrderInv
<1>8. /\ running'[w].at <= clock
      /\ \A i \in 1 .. Len(queue'[q]) : running'[w].at <= queue'[q][i].at
  <2>1. \A i \in 1 .. Len(queue'[q]) : queue'[q][i] = queue[q][i + 1] /\ i + 1 \in 1 .. Len(queue[q])
    BY <1>3
  <2>2. \A k \in 1 .. Len(queue[q]) : queue[q][1].at <= queue[q][k].at
    BY <1>6 DEF OrderInv
  <2> QED BY <1>2, <1>6, <2>1, <2>2 DEF OrderInv
<1>9. ASSUME NEW c \in Consumers, row[c] # None, row[c].last_action # None
      PROVE  /\ row[c].last_action <= clock /\ row[c].last_action <= running'[w].at
             /\ \A i \in 1 .. Len(queue'[q]) : row[c].last_action <= queue'[q][i].at
  BY <1>2, <1>3, <1>6, <1>9 DEF OrderInv
<1> QED BY <1>4, <1>5, <1>7, <1>8, <1>9 DEF OrderInv

(* What a job leaves on record.                                            *)
LEMMA WriteEffect ==
    ASSUME TypeOK, NEW w \in Workers, Write(w)
    PROVE  /\ running[w] \in Job /\ running[w] # None
           /\ \A c \in Consumers : row'[c] = row[c] \/ c = running[w].consumer
           /\ LET c == running[w].consumer IN
              /\ row'[c] # None
              /\ running[w].kind # "close" => row'[c].last_action = running[w].at
              /\ running[w].kind = "close" => row'[c].last_action =
                                                  IF row[c] = None THEN None ELSE row[c].last_action
           /\ running' = [running EXCEPT ![w] = None]
           /\ UNCHANGED <<clock, state, lastJob, received, heard, queue, lost>>
<1>1. running[w] \in Job /\ running[w] # None
  BY DEF Write, TypeOK
<1> PICK j \in Job : running[w] = j
  BY <1>1
<1>2. /\ j.consumer \in Consumers
      /\ row' = [row EXCEPT ![j.consumer] = Updated(@, j)]
      /\ row \in [Consumers -> Row \cup {None}]
  BY DEF Write, TypeOK, Job
<1>3. Updated(row[j.consumer], j) \in Row
  BY <1>2 DEF Updated, NewRow, Row, Job, Time
<1>4. /\ j.kind # "close" => Updated(row[j.consumer], j).last_action = j.at
      /\ j.kind = "close" => Updated(row[j.consumer], j).last_action =
                                 IF row[j.consumer] = None THEN None ELSE row[j.consumer].last_action
  BY <1>2 DEF Updated, NewRow, Row
<1>5. /\ \A c \in Consumers : row'[c] = row[c] \/ c = j.consumer
      /\ row'[j.consumer] = Updated(row[j.consumer], j)
  BY <1>2
<1>6. UNCHANGED <<clock, state, lastJob, received, heard, queue, lost>>
      /\ running' = [running EXCEPT ![w] = None]
  BY DEF Write
<1> QED BY <1>1, <1>3, <1>4, <1>5, <1>6, NoneApart

LEMMA OrderWrite ==
    ASSUME TypeOK, OrderInv, OneLine, NEW w \in Workers, Write(w)
    PROVE  OrderInv'
<1>1. running'[w] = None /\ \A v \in Workers : v = w
  BY WriteEffect DEF TypeOK, OneLine
<1>2. ASSUME NEW c \in Consumers, row'[c] # None, row'[c].last_action # None
      PROVE  /\ row'[c].last_action <= clock
             /\ \A q \in Queues : \A i \in 1 .. Len(queue[q]) : row'[c].last_action <= queue[q][i].at
  <2>1. \/ row[c] # None /\ row[c].last_action = row'[c].last_action
        \/ row'[c].last_action = running[w].at
    BY <1>2, WriteEffect
  <2> QED BY <1>2, <2>1, WriteEffect DEF OrderInv
<1> QED BY <1>1, <1>2, WriteEffect DEF OrderInv

LEMMA OrderStep == OneLine /\ TypeOK /\ OrderInv /\ [Next]_vars => OrderInv'
<1> SUFFICES ASSUME OneLine, TypeOK, OrderInv, [Next]_vars
             PROVE  OrderInv'
  OBVIOUS
<1>1. ASSUME NEW c \in Consumers,
             \/ Connect(c) \/ Disconnect(c) \/ Crash(c)
             \/ ReceiveMessage(c) \/ ReceiveDeferred(c) \/ ReceiveInternal(c)
      PROVE  OrderInv'
  <2>1. UNCHANGED <<clock, running, row>>
    BY <1>1 DEF Connect, Disconnect, Crash, ReceiveMessage, ReceiveDeferred, ReceiveInternal, Receive
  <2> QED BY <1>1, <2>1, ConsumerFollows, OrderConsumer
<1>2. ASSUME NEW w \in Workers, Refuse(w) \/ Fail(w)
      PROVE  OrderInv'
  <2>1. running' = [running EXCEPT ![w] = None] /\ UNCHANGED <<clock, queue, row>>
    BY <1>2 DEF Refuse, Fail, Forget
  <2>2. \A v \in Workers : running'[v] # None => running'[v] = running[v]
    BY <2>1 DEF TypeOK
  <2> QED BY <2>1, <2>2 DEF OrderInv
<1>3. CASE Tick
  <2>1. clock' = clock + 1 /\ UNCHANGED <<queue, running, row>>
    BY <1>3 DEF Tick
  <2>2. \A x \in Int : x <= clock => x <= clock'
    BY <2>1, Typed
  <2> QED BY <2>1, <2>2, Typed DEF OrderInv
<1>4. CASE UNCHANGED vars
  BY <1>4 DEF vars, OrderInv
<1> QED BY <1>1, <1>2, <1>3, <1>4, OrderTake, OrderWrite DEF Next

LEMMA OrderCorrect == OneLine => (Spec => []OrderInv)
<1> SUFFICES ASSUME OneLine
             PROVE  Spec => []OrderInv
  OBVIOUS
<1>1. Init => OrderInv
  <2> SUFFICES ASSUME Init
               PROVE  OrderInv
    OBVIOUS
  <2>1. \A q \in Queues : Len(queue[q]) = 0
    BY DEF Init
  <2> QED BY <2>1 DEF Init, OrderInv
<1>2. TypeOK /\ OrderInv /\ [Next]_vars => OrderInv'
  BY OrderStep
<1> QED BY <1>1, <1>2, StatusTypeCorrect, PTL DEF Spec

(* Where one worker serves one queue, jobs write in the order they were    *)
(* queued in, and last_action never goes back.                             *)
THEOREM LastActionNeverGoesBack == OneLine => (Spec => LastActionAdvances)
<1> SUFFICES ASSUME OneLine
             PROVE  Spec => LastActionAdvances
  OBVIOUS
<1> DEFINE Advance == \A c \in Consumers :
                          row[c] # None /\ row[c].last_action # None =>
                              row'[c].last_action >= row[c].last_action
<1>1. TypeOK /\ OrderInv /\ [Next]_vars => [Advance]_vars
  <2> SUFFICES ASSUME TypeOK, OrderInv, Next, NEW c \in Consumers,
                      row[c] # None, row[c].last_action # None
               PROVE  row'[c].last_action >= row[c].last_action
    OBVIOUS
  <2>1. row[c].last_action \in Int
    BY Typed
  <2>2. ASSUME NEW w \in Workers, Write(w)
        PROVE  row'[c].last_action >= row[c].last_action
    <3>1. \/ row'[c].last_action = row[c].last_action
          \/ row'[c].last_action = running[w].at /\ running[w] # None
      BY <2>2, WriteEffect
    <3> QED BY <2>1, <3>1, Typed DEF OrderInv
  <2>3. ASSUME UNCHANGED row
        PROVE  row'[c].last_action >= row[c].last_action
    BY <2>1, <2>3
  <2>4. ASSUME NEW d \in Consumers,
               \/ Connect(d) \/ Disconnect(d) \/ Crash(d)
               \/ ReceiveMessage(d) \/ ReceiveDeferred(d) \/ ReceiveInternal(d)
        PROVE  UNCHANGED row
    BY <2>4 DEF Connect, Disconnect, Crash, ReceiveMessage, ReceiveDeferred, ReceiveInternal, Receive
  <2>5. ASSUME NEW w \in Workers, Take(w) \/ Refuse(w) \/ Fail(w)
        PROVE  UNCHANGED row
    BY <2>5 DEF Take, Refuse, Fail, Forget
  <2>6. Tick => UNCHANGED row
    BY DEF Tick
  <2> QED BY <2>2, <2>3, <2>4, <2>5, <2>6 DEF Next
<1> QED BY <1>1, OrderCorrect, StatusTypeCorrect, PTL DEF Spec, LastActionAdvances
-----------------------------------------------------------------------------
(* How old last_action is *)

(* A job of c that sets last_action to t is queued, runs or has written.   *)
QueuedFor(queues, c, t) ==
    \E q \in Queues : \E i \in 1 .. Len(queues[q]) :
        queues[q][i].consumer = c /\ queues[q][i].kind # "close" /\ queues[q][i].at = t
RunsFor(c, t) ==
    \E w \in Workers : /\ running[w] # None /\ running[w].consumer = c
                       /\ running[w].kind # "close" /\ running[w].at = t
WrittenFor(c, t) == row[c] # None /\ row[c].last_action # None /\ row[c].last_action = t

OnTheWay(c, t) == QueuedFor(queue, c, t) \/ RunsFor(c, t) \/ WrittenFor(c, t)

Tracked(c) ==
    /\ UpdateInterval # None
    /\ QueueFor["action"] # None /\ QueueFor["connect"] # None
    /\ \A k \in Kinds : <<k, c>> \notin lost

(* It is as new as last_job while the connection is open, and at most the  *)
(* interval older than what the client sent last.                          *)
Covers(c, t) ==
    /\ OnTheWay(c, t)
    /\ t <= clock
    /\ state[c] = "open" => lastJob[c] <= t
    /\ heard[c] # None => heard[c] - t <= UpdateInterval

FreshInv ==
    \A c \in Consumers :
        /\ lastJob[c] <= clock
        /\ state[c] = "new" => heard[c] = None
        /\ state[c] # "new" /\ Tracked(c) => \E t \in 0 .. MaxTime : Covers(c, t)

LEMMA QueuedIsThere ==
    ASSUME NEW queues \in [Queues -> Seq(Job)], NEW kind \in Kinds \ {"close"},
           NEW c \in Consumers, clock \in 0 .. MaxTime, QueueFor[kind] # None
    PROVE  QueuedFor(Queued(queues, kind, c), c, clock)
<1> DEFINE job == NewJob(kind, c)
<1>1. PICK q \in Queues : q = QueueFor[kind]
  BY StatusAssumption
<1>2. job \in Job /\ job.consumer = c /\ job.kind # "close" /\ job.at = clock
  BY QueuedEffect DEF NewJob
<1>3. Queued(queues, kind, c)[q] = Append(queues[q], job) /\ queues[q] \in Seq(Job)
  BY <1>1 DEF Queued
<1> HIDE DEF job
<1>4. /\ Len(Append(queues[q], job)) = Len(queues[q]) + 1 /\ Len(queues[q]) \in Nat
      /\ Append(queues[q], job)[Len(queues[q]) + 1] = job
  BY <1>2, <1>3
<1>5. Len(queues[q]) + 1 \in 1 .. Len(Append(queues[q], job))
  BY <1>4
<1> QED BY <1>1, <1>2, <1>3, <1>4, <1>5 DEF QueuedFor

LEMMA FollowsKeeps ==
    ASSUME NEW a \in [Queues -> Seq(Job)], NEW b \in [Queues -> Seq(Job)], Follows(a, b),
           NEW c, NEW t, QueuedFor(a, c, t)
    PROVE  QueuedFor(b, c, t)
<1> PICK q \in Queues : \E i \in 1 .. Len(a[q]) :
          a[q][i].consumer = c /\ a[q][i].kind # "close" /\ a[q][i].at = t
  BY DEF QueuedFor
<1>1. PICK i \in 1 .. Len(a[q]) :
          a[q][i].consumer = c /\ a[q][i].kind # "close" /\ a[q][i].at = t
  OBVIOUS
<1>2. i \in 1 .. Len(b[q]) /\ b[q][i] = a[q][i]
  <2>1. Len(a[q]) \in Nat /\ Len(b[q]) \in Nat /\ Len(a[q]) <= Len(b[q])
    BY DEF Follows
  <2> QED BY <2>1 DEF Follows
<1> QED BY <1>1, <1>2 DEF QueuedFor

(* The interval is a natural number if there is one.                       *)
LEMMA IntervalIsNat == UpdateInterval # None => UpdateInterval \in Nat
BY StatusAssumption DEF UpdateInterval

(* The steps of a connection d, seen from the connection c.                *)
LEMMA FreshConsumer ==
    ASSUME TypeOK, FreshInv, NEW d \in Consumers,
           \/ Connect(d) \/ Disconnect(d) \/ Crash(d)
           \/ ReceiveMessage(d) \/ ReceiveDeferred(d) \/ ReceiveInternal(d)
    PROVE  FreshInv'
<1>1. Follows(queue, queue')
  BY ConsumerFollows
<1>2. queue \in [Queues -> Seq(Job)] /\ queue' \in [Queues -> Seq(Job)]
  BY StatusTypeStep DEF TypeOK, Next
<1>3. UNCHANGED <<clock, running, row, lost>>
  BY DEF Connect, Disconnect, Crash, ReceiveMessage, ReceiveDeferred, ReceiveInternal, Receive
<1>4. /\ clock \in 0 .. MaxTime /\ MaxTime \in Nat
      /\ \A c \in Consumers : /\ lastJob[c] \in 0 .. MaxTime
                              /\ heard[c] = None \/ heard[c] \in 0 .. MaxTime
  BY StatusAssumption DEF TypeOK, Time
<1>5. ASSUME NEW c \in Consumers, NEW t, OnTheWay(c, t)
      PROVE  OnTheWay(c, t)'
  BY <1>1, <1>2, <1>3, <1>5, FollowsKeeps DEF OnTheWay, RunsFor, WrittenFor
<1>6. \A c \in Consumers : Tracked(c)' <=> Tracked(c)
  BY <1>3 DEF Tracked, UpdateInterval
<1>7. ASSUME NEW c \in Consumers \ {d}
      PROVE  UNCHANGED <<state[c], lastJob[c], heard[c]>>
  BY <1>7 DEF TypeOK, Connect, Disconnect, Crash, ReceiveMessage, ReceiveDeferred,
              ReceiveInternal, Receive
<1>8. ASSUME NEW c \in Consumers \ {d}, NEW t \in 0 .. MaxTime, Covers(c, t)
      PROVE  Covers(c, t)'
  BY <1>3, <1>5, <1>7, <1>8 DEF Covers, UpdateInterval
<1>9. ASSUME Tracked(d)
      PROVE  /\ QueueFor["connect"] \in Queues /\ QueueFor["action"] \in Queues
             /\ QueueFor["deferred"] \in Queues /\ UpdateInterval \in Nat
  BY <1>9, StatusAssumption, IntervalIsNat DEF Tracked, Kinds
<1>10. /\ lastJob'[d] <= clock'
       /\ state'[d] = "new" => heard'[d] = None
       /\ state'[d] # "new" /\ Tracked(d)' => \E t \in 0 .. MaxTime : Covers(d, t)'
  <2>1. CASE Connect(d)
    <3>1. state'[d] = "open" /\ lastJob'[d] = clock /\ heard'[d] = None
      BY <2>1 DEF Connect, TypeOK, FreshInv
    <3>2. ASSUME Tracked(d)
          PROVE  QueuedFor(queue', d, clock)
      <4>1. QueuedFor(Queued(queue, "connect", d), d, clock)
        BY <1>2, <1>4, <1>9, <3>2, QueuedIsThere, StatusAssumption DEF Kinds, Tracked
      <4> QED BY <2>1, <4>1 DEF Connect
    <3>3. Tracked(d) => Covers(d, clock)'
      BY <1>3, <1>4, <3>1, <3>2 DEF Covers, OnTheWay
    <3> QED BY <1>3, <1>4, <1>6, <3>1, <3>3
  <2>2. CASE Disconnect(d) \/ Crash(d)
    <3>1. state[d] = "open" /\ state'[d] \in {"gone", "crashed"} /\ heard' = heard
      BY <2>2 DEF Disconnect, Crash, TypeOK
    <3>2. lastJob'[d] = lastJob[d] \/ lastJob'[d] = clock
      BY <2>2 DEF Disconnect, Crash, TypeOK
    <3>3. ASSUME NEW t \in 0 .. MaxTime, Covers(d, t)
          PROVE  Covers(d, t)'
      BY <1>3, <1>5, <3>1, <3>3 DEF Covers, UpdateInterval
    <3> QED BY <1>3, <1>4, <1>6, <3>1, <3>2, <3>3 DEF FreshInv
  <2>3. CASE ReceiveMessage(d)
    <3>1. /\ state[d] = "open" /\ state' = state /\ heard'[d] = clock /\ lastJob' = lastJob
          /\ queue' = Marked(d)
      BY <2>3 DEF ReceiveMessage, Receive, TypeOK
    <3>2. CASE Stale(d)
      <4>1. ASSUME Tracked(d)
            PROVE  QueuedFor(queue', d, clock)
        <5>1. QueuedFor(Queued(queue, "action", d), d, clock)
          BY <1>2, <1>4, <1>9, <4>1, QueuedIsThere, StatusAssumption DEF Kinds, Tracked
        <5> QED BY <3>1, <3>2, <5>1 DEF Marked
      <4>2. Tracked(d) => Covers(d, clock)'
        BY <1>3, <1>4, <1>9, <3>1, <4>1 DEF Covers, OnTheWay, UpdateInterval, FreshInv
      <4> QED BY <1>3, <1>4, <1>6, <3>1, <4>2 DEF FreshInv
    <3>3. CASE ~Stale(d)
      <4>1. Tracked(d) => clock - lastJob[d] <= UpdateInterval
        BY <1>4, <1>9, <3>3 DEF Stale, Tracked
      <4>2. ASSUME NEW t \in 0 .. MaxTime, Covers(d, t), Tracked(d)
            PROVE  Covers(d, t)'
        <5>1. lastJob[d] <= t /\ clock - t <= UpdateInterval
          BY <1>4, <1>9, <3>1, <4>1, <4>2 DEF Covers
        <5> QED BY <1>3, <1>5, <3>1, <4>2, <5>1 DEF Covers, UpdateInterval
      <4> QED BY <1>3, <1>4, <1>6, <3>1, <4>2 DEF FreshInv
    <3> QED BY <3>2, <3>3
  <2>4. CASE ReceiveDeferred(d)
    <3>1. /\ state[d] = "open" /\ state' = state /\ heard'[d] = clock /\ lastJob'[d] = clock
          /\ queue' = Queued(Marked(d), "deferred", d)
      BY <2>4 DEF ReceiveDeferred, Receive, TypeOK
    <3>2. QueuedFor(queue', d, clock)
      BY <1>4, <3>1, MarkedType, QueuedIsThere, StatusAssumption DEF Kinds
    <3>3. Tracked(d) => Covers(d, clock)'
      BY <1>3, <1>4, <1>9, <3>1, <3>2 DEF Covers, OnTheWay, UpdateInterval
    <3> QED BY <1>3, <1>4, <1>6, <3>1, <3>3
  <2>5. CASE ReceiveInternal(d)
    <3>1. /\ state[d] = "open" /\ state' = state /\ heard' = heard /\ lastJob'[d] = clock
          /\ queue' = Queued(queue, "deferred", d)
      BY <2>5 DEF ReceiveInternal, Receive, TypeOK
    <3>2. QueuedFor(queue', d, clock)
      BY <1>2, <1>4, <3>1, QueuedIsThere, StatusAssumption DEF Kinds
    <3>3. ASSUME Tracked(d)
          PROVE  Covers(d, clock)'
      <4>1. PICK t \in 0 .. MaxTime : Covers(d, t)
        BY <3>1, <3>3 DEF FreshInv
      <4>2. heard[d] # None => heard[d] - clock <= UpdateInterval
        BY <1>4, <1>9, <3>3, <4>1 DEF Covers
      <4> QED BY <1>3, <1>4, <3>1, <3>2, <4>2 DEF Covers, OnTheWay, UpdateInterval
    <3> QED BY <1>3, <1>4, <1>6, <3>1, <3>3
  <2> QED BY <2>1, <2>2, <2>3, <2>4, <2>5
<1>11. ASSUME NEW c \in Consumers \ {d}
       PROVE  /\ lastJob'[c] <= clock'
              /\ state'[c] = "new" => heard'[c] = None
              /\ state'[c] # "new" /\ Tracked(c)' => \E t \in 0 .. MaxTime : Covers(c, t)'
  BY <1>3, <1>6, <1>7, <1>8 DEF FreshInv
<1> QED BY <1>10, <1>11 DEF FreshInv
(* The steps of the workers leave the connections alone.                   *)
LEMMA FreshWorker ==
    ASSUME TypeOK, FreshInv, UNCHANGED <<clock, state, lastJob, heard>>,
           lost \subseteq lost',
           \A c \in Consumers : \A t \in 0 .. MaxTime :
               OnTheWay(c, t) /\ Tracked(c)' =>
                   \E u \in 0 .. MaxTime : t <= u /\ u <= clock /\ OnTheWay(c, u)'
    PROVE  FreshInv'
<1>1. ASSUME NEW c \in Consumers, Tracked(c)', state[c] # "new"
      PROVE  \E u \in 0 .. MaxTime : Covers(c, u)'
  <2>1. Tracked(c)
    BY <1>1 DEF Tracked, UpdateInterval
  <2>2. PICK t \in 0 .. MaxTime : Covers(c, t)
    BY <1>1, <2>1 DEF FreshInv
  <2>3. PICK u \in 0 .. MaxTime : t <= u /\ u <= clock /\ OnTheWay(c, u)'
    BY <1>1, <2>2 DEF Covers
  <2>4. /\ lastJob[c] \in Int /\ t \in Int /\ u \in Int /\ UpdateInterval \in Int
        /\ heard[c] # None => heard[c] \in Int
    BY <1>1, StatusAssumption, IntervalIsNat DEF TypeOK, Time, Tracked, UpdateInterval
  <2>5. Covers(c, u)'
    <3>1. heard[c] # None => heard[c] - u <= UpdateInterval
      BY <2>2, <2>3, <2>4 DEF Covers
    <3>2. state[c] = "open" => lastJob[c] <= u
      BY <2>2, <2>3, <2>4 DEF Covers
    <3> QED BY <2>3, <3>1, <3>2 DEF Covers, UpdateInterval
  <2> QED BY <2>5
<1> QED BY <1>1 DEF FreshInv

LEMMA FreshTake ==
    ASSUME TypeOK, FreshInv, OrderInv, OneLine, NEW w \in Workers, Take(w)
    PROVE  FreshInv'
<1>1. PICK q \in Queues :
          /\ queue[q] # << >>
          /\ running' = [running EXCEPT ![w] = Head(queue[q])]
          /\ queue' = [queue EXCEPT ![q] = Tail(@)]
  BY StatusAssumption DEF Take
<1>2. /\ queue[q] \in Seq(Job) /\ Len(queue[q]) \in Nat \ {0}
      /\ running'[w] = queue[q][1] /\ queue'[q] = Tail(queue[q])
  BY <1>1 DEF TypeOK
<1>3. \A i \in 2 .. Len(queue[q]) : i - 1 \in 1 .. Len(queue'[q]) /\ queue'[q][i - 1] = queue[q][i]
  BY <1>2
<1>4. running[w] = None /\ UNCHANGED <<clock, state, lastJob, heard, row, lost>>
  BY DEF Take
<1>5. (\A p \in Queues : p = q) /\ (\A v \in Workers : v = w)
  BY DEF OneLine
<1>6. queue[q][1] # None
  BY <1>2, Typed
<1>7. ASSUME NEW c \in Consumers, NEW t \in 0 .. MaxTime, OnTheWay(c, t)
      PROVE  OnTheWay(c, t)'
  <2>1. ASSUME NEW i \in 1 .. Len(queue[q]), queue[q][i].consumer = c,
               queue[q][i].kind # "close", queue[q][i].at = t
        PROVE  OnTheWay(c, t)'
    <3>1. CASE i = 1
      BY <1>2, <1>6, <2>1, <3>1 DEF OnTheWay, RunsFor
    <3>2. CASE i \in 2 .. Len(queue[q])
      BY <1>3, <2>1, <3>2 DEF OnTheWay, QueuedFor
    <3> QED BY <1>2, <3>1, <3>2
  <2>2. CASE QueuedFor(queue, c, t)
    BY <1>5, <2>1, <2>2 DEF QueuedFor
  <2>3. CASE WrittenFor(c, t)
    BY <1>4, <2>3 DEF WrittenFor, OnTheWay
  <2>4. ~RunsFor(c, t)
    BY <1>4, <1>5 DEF RunsFor
  <2> QED BY <1>7, <2>2, <2>3, <2>4 DEF OnTheWay
<1>8. ASSUME NEW c \in Consumers, NEW t \in 0 .. MaxTime, OnTheWay(c, t)
      PROVE  t <= clock
  BY <1>8, Typed DEF OnTheWay, QueuedFor, RunsFor, WrittenFor, OrderInv
<1> QED BY <1>4, <1>7, <1>8, FreshWorker

(* A job that writes replaces what an earlier one wrote.                   *)
LEMMA FreshWrite ==
    ASSUME TypeOK, FreshInv, OrderInv, OneLine, NEW w \in Workers, Write(w)
    PROVE  FreshInv'
<1>1. running[w] \in Job
  BY WriteEffect
<1> PICK j \in Job : running[w] = j
  BY <1>1
<1>2. /\ j # None /\ j.at \in 0 .. MaxTime /\ j.at <= clock
      /\ UNCHANGED <<clock, state, lastJob, heard, queue, lost>>
  BY WriteEffect DEF Job, OrderInv
<1>3. \A v \in Workers : v = w
  BY DEF OneLine
<1>4. ASSUME NEW c \in Consumers, NEW t \in 0 .. MaxTime, OnTheWay(c, t)
      PROVE  t <= clock
  BY <1>4, Typed DEF OnTheWay, QueuedFor, RunsFor, WrittenFor, OrderInv
<1>5. ASSUME NEW c \in Consumers, NEW t \in 0 .. MaxTime, OnTheWay(c, t)
      PROVE  \E u \in 0 .. MaxTime : t <= u /\ OnTheWay(c, u)'
  <2>1. CASE QueuedFor(queue, c, t)
    <3>1. OnTheWay(c, t)'
      BY <1>2, <2>1 DEF OnTheWay
    <3> QED BY <3>1
  <2>2. CASE RunsFor(c, t)
    <3>1. j.consumer = c /\ j.kind # "close" /\ j.at = t
      BY <1>3, <2>2 DEF RunsFor
    <3>2. row'[c] # None /\ row'[c].last_action = t
      BY <3>1, WriteEffect
    <3>3. t # None
      BY StatusAssumption
    <3>4. OnTheWay(c, t)'
      BY <3>2, <3>3 DEF OnTheWay, WrittenFor
    <3> QED BY <3>4
  <2>3. CASE WrittenFor(c, t)
    <3>1. CASE j.consumer = c /\ j.kind # "close"
      <4>1. row'[c] # None /\ row'[c].last_action = j.at /\ j.at # None
        BY <1>2, <3>1, WriteEffect, StatusAssumption
      <4>2. OnTheWay(c, j.at)'
        BY <4>1 DEF OnTheWay, WrittenFor
      <4>3. t <= j.at
        BY <1>2, <2>3 DEF WrittenFor, OrderInv
      <4> QED BY <1>2, <4>2, <4>3
    <3>2. CASE j.consumer # c \/ j.kind = "close"
      <4>1. row'[c] # None /\ row'[c].last_action = t /\ t # None
        BY <2>3, <3>2, WriteEffect DEF WrittenFor
      <4>2. OnTheWay(c, t)'
        BY <4>1 DEF OnTheWay, WrittenFor
      <4> QED BY <4>2
    <3> QED BY <3>1, <3>2
  <2> QED BY <1>5, <2>1, <2>2, <2>3 DEF OnTheWay
<1>6. ASSUME NEW c \in Consumers, NEW u \in 0 .. MaxTime, OnTheWay(c, u)'
      PROVE  u <= clock
  <2>1. TypeOK' /\ OrderInv'
    BY StatusTypeStep, OrderWrite DEF Next
  <2>2. u <= clock'
    <3>1. CASE QueuedFor(queue', c, u)
      BY <2>1, <3>1 DEF QueuedFor, OrderInv
    <3>2. CASE RunsFor(c, u)'
      BY <2>1, <3>2 DEF RunsFor, OrderInv
    <3>3. CASE WrittenFor(c, u)'
      BY <2>1, <3>3 DEF WrittenFor, OrderInv
    <3> QED BY <1>6, <3>1, <3>2, <3>3 DEF OnTheWay
  <2> QED BY <1>2, <2>2
<1> QED BY <1>2, <1>5, <1>6, FreshWorker

(* A job that writes nothing is lost.                                      *)
LEMMA FreshForget ==
    ASSUME TypeOK, FreshInv, OrderInv, OneLine, NEW w \in Workers, Refuse(w) \/ Fail(w)
    PROVE  FreshInv'
<1>1. running[w] \in Job /\ Forget(w)
  BY DEF Refuse, Fail, TypeOK
<1> PICK j \in Job : running[w] = j
  BY <1>1
<1>2. /\ lost' = lost \cup {<<j.kind, j.consumer>>}
      /\ UNCHANGED <<clock, state, lastJob, heard, queue, row>>
      /\ j.kind \in Kinds
  BY <1>1 DEF Forget, Job
<1>3. \A v \in Workers : v = w
  BY DEF OneLine
<1>4. ASSUME NEW c \in Consumers, NEW t \in 0 .. MaxTime, OnTheWay(c, t)
      PROVE  t <= clock
  BY <1>4, Typed DEF OnTheWay, QueuedFor, RunsFor, WrittenFor, OrderInv
<1>5. ASSUME NEW c \in Consumers, NEW t \in 0 .. MaxTime, OnTheWay(c, t), Tracked(c)'
      PROVE  OnTheWay(c, t)'
  <2>1. j.consumer # c
    BY <1>2, <1>5 DEF Tracked
  <2>2. ~RunsFor(c, t)
    BY <1>3, <2>1 DEF RunsFor
  <2> QED BY <1>2, <1>5, <2>2 DEF OnTheWay, WrittenFor
<1> QED BY <1>2, <1>4, <1>5, FreshWorker

LEMMA FreshStep == OneLine /\ TypeOK /\ OrderInv /\ FreshInv /\ [Next]_vars => FreshInv'
<1> SUFFICES ASSUME OneLine, TypeOK, OrderInv, FreshInv, [Next]_vars
             PROVE  FreshInv'
  OBVIOUS
<1>1. CASE Tick \/ UNCHANGED vars
  <2>1. /\ UNCHANGED <<state, lastJob, heard, queue, running, row, lost>>
        /\ clock' = clock \/ clock' = clock + 1
    BY <1>1 DEF Tick, vars
  <2>2. /\ clock <= clock' /\ clock' \in Int /\ clock \in Int
        /\ \A c \in Consumers : lastJob[c] \in Int
    BY <2>1 DEF TypeOK
  <2>3. ASSUME NEW c \in Consumers, NEW t \in 0 .. MaxTime, Covers(c, t)
        PROVE  Covers(c, t)'
    <3>1. OnTheWay(c, t)'
      BY <2>1, <2>3 DEF Covers, OnTheWay, RunsFor, WrittenFor
    <3>2. t <= clock'
      BY <2>2, <2>3 DEF Covers
    <3> QED BY <2>1, <2>3, <3>1, <3>2 DEF Covers, UpdateInterval
  <2>4. \A c \in Consumers : Tracked(c)' <=> Tracked(c)
    BY <2>1 DEF Tracked, UpdateInterval
  <2> QED BY <2>1, <2>2, <2>3, <2>4 DEF FreshInv
<1> QED BY <1>1, FreshConsumer, FreshTake, FreshWrite, FreshForget DEF Next

(* Where one worker serves one queue: for every interval, clock and        *)
(* pattern of messages, a connection all of whose jobs have written has a  *)
(* last_action at most the interval older than the client's last message.  *)
THEOREM LastActionIsFresh == OneLine => (Spec => []LastActionFresh)
<1> SUFFICES ASSUME OneLine
             PROVE  Spec => []LastActionFresh
  OBVIOUS
<1>1. Init => FreshInv
  <2> SUFFICES ASSUME Init, NEW c \in Consumers
               PROVE  lastJob[c] <= clock /\ state[c] = "new" /\ heard[c] = None
    BY DEF FreshInv
  <2>1. lastJob[c] = 0 /\ clock = 0 /\ state[c] = "new" /\ heard[c] = None
    BY DEF Init
  <2> QED BY <2>1
<1>2. TypeOK /\ OrderInv /\ FreshInv /\ [Next]_vars => FreshInv'
  BY FreshStep
<1>3. TypeOK /\ FreshInv => LastActionFresh
  <2> SUFFICES ASSUME TypeOK, FreshInv, NEW c \in Consumers, Tracked(c), ~Busy(c), heard[c] # None
               PROVE  /\ row[c] # None /\ row[c].last_action # None
                      /\ heard[c] - row[c].last_action <= UpdateInterval
    BY DEF LastActionFresh, Tracked
  <2>1. state[c] # "new"
    BY DEF FreshInv
  <2>2. PICK t \in 0 .. MaxTime : Covers(c, t)
    BY <2>1 DEF FreshInv
  <2>3. ~QueuedFor(queue, c, t) /\ ~RunsFor(c, t)
    BY DEF Busy, QueuedFor, RunsFor
  <2> QED BY <2>2, <2>3 DEF Covers, OnTheWay, WrittenFor
<1> QED BY <1>1, <1>2, <1>3, OrderCorrect, StatusTypeCorrect, PTL DEF Spec
=============================================================================
