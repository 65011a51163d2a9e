------------------------ MODULE ContextActionsProofs ------------------------
(***************************************************************************)
(* Theorems about ContextActions for any frames, contexts, workers,        *)
(* failures and changes.                                                   *)
(***************************************************************************)
EXTENDS ContextActions, SequenceTheorems, TLAPS

-----------------------------------------------------------------------------
(* Lemmas about the helpers *)

(* Telling a client something adds to what it was told, or nothing.        *)
LEMMA TellEffect ==
    ASSUME TypeOK, NEW f \in Frames, NEW answer \in Answers, Tell(f, answer)
    PROVE  /\ told' \in [Frames -> Seq(Answers)]
           /\ \A g \in Frames \ {f} : told'[g] = told[g]
           /\ told'[f] = IF open THEN Append(told[f], answer) ELSE told[f]
BY DEF Tell, TypeOK

(* A worker that is done has no job.                                       *)
LEMMA FinishEffect ==
    ASSUME TypeOK, NEW w \in Workers, Finish(w)
    PROVE  /\ pc' \in [Workers -> Places]
           /\ job' \in [Workers -> Frames \cup {None}]
           /\ pc'[w] = "idle" /\ job'[w] = None
           /\ \A v \in Workers \ {w} : pc'[v] = pc[v] /\ job'[v] = job[v]
BY DEF Finish, Places, TypeOK

(* A busy worker has a frame.                                              *)
LEMMA BusyHasFrame ==
    ASSUME TypeOK, NEW w \in Workers, pc[w] # "idle"
    PROVE  job[w] \in Frames
BY DEF TypeOK

(* Whatever trace id it was raised with, a caught error finds its frame.   *)
LEMMA CaughtEffect ==
    ASSUME TypeOK, NEW w \in Workers, pc[w] # "idle",
           NEW answer, NEW id \in {None, job[w]}, Caught(w, answer, id)
    PROVE  /\ Tell(job[w], answer)
           /\ Finish(w)
           /\ UNCHANGED <<known, existing, granted, open, used, about, queue, stray,
                          unsent, dropped, crashed>>
BY BusyHasFrame, ActionsAssumption DEF Caught, Addressed, database, client

(* A frame is sent once; nothing about the workers changes.                *)
LEMMA ReceiveEffect ==
    ASSUME TypeOK, NEW f \in Frames, Receive(f)
    PROVE  /\ f \notin used /\ used' = used \cup {f}
           /\ UNCHANGED <<known, existing, granted, open, pc, job, applied, unsent, dropped,
                          crashed>>
BY DEF Receive, database, worker

-----------------------------------------------------------------------------
(* Type correctness *)

LEMMA TypeInit == Init => TypeOK
<1> SUFFICES ASSUME Init PROVE TypeOK
  OBVIOUS
<1>1. known \in BOOLEAN /\ open \in BOOLEAN /\ crashed \in BOOLEAN
  BY DEF Init
<1>2. /\ existing \subseteq Contexts /\ granted \subseteq Contexts
      /\ used = {} /\ applied = {} /\ stray = {} /\ unsent = {} /\ dropped = {}
      /\ about \in [Frames -> Contexts \cup {None}]
      /\ queue \in Seq(Frames)
      /\ told \in [Frames -> Seq(Answers)]
  BY DEF Init
<1>3. pc = [w \in Workers |-> "idle"] /\ job = [w \in Workers |-> None]
  BY DEF Init
<1> QED BY <1>1, <1>2, <1>3, ActionsAssumption DEF Places, TypeOK

LEMMA TypeStep == TypeOK /\ [Next]_vars => TypeOK'
<1> SUFFICES ASSUME TypeOK, [Next]_vars
             PROVE  TypeOK'
  OBVIOUS
<1> USE ActionsAssumption
<1> USE DEF database, client, worker, history
<1>1. ASSUME NEW f \in Frames, ReceiveGarbage(f)
      PROVE  TypeOK'
  BY <1>1, ReceiveEffect DEF ReceiveGarbage, TypeOK
<1>2. ASSUME NEW f \in Frames, ReceiveInvalid(f) \/ ReceivePing(f)
      PROVE  TypeOK'
  <2>1. told' \in [Frames -> Seq(Answers)]
    BY <1>2, TellEffect DEF ReceiveInvalid, ReceivePing, Answers
  <2> QED BY <1>2, <2>1, ReceiveEffect DEF ReceiveInvalid, ReceivePing, TypeOK
<1>3. ASSUME NEW f \in Frames, ReceiveCommand(f)
      PROVE  TypeOK'
  <2>1. queue' \in Seq(Frames)
    BY <1>3 DEF ReceiveCommand, TypeOK
  <2> QED BY <1>3, <2>1, ReceiveEffect DEF ReceiveCommand, TypeOK
<1>4. ASSUME NEW w \in Workers, TakeJob(w)
      PROVE  TypeOK'
  <2>1. Head(queue) \in Frames /\ queue' \in Seq(Frames)
    BY <1>4 DEF TakeJob, TypeOK
  <2> QED BY <1>4, <2>1 DEF TakeJob, GoTo, At, Places, TypeOK
<1>5. ASSUME NEW w \in Workers, NotFound(w) \/ Unauthorized(w) \/ GiveUp(w)
      PROVE  TypeOK'
  <2>1. pc[w] # "idle" /\ UNCHANGED applied
    BY <1>5 DEF NotFound, Unauthorized, Denied, GiveUp, InAction, At
  <2>2. PICK answer \in Answers, id \in {None, job[w]} : Caught(w, answer, id)
    BY <1>5 DEF NotFound, Unauthorized, GiveUp, Answers
  <2>3. Tell(job[w], answer) /\ Finish(w)
    BY <2>1, <2>2, CaughtEffect
  <2>4. told' \in [Frames -> Seq(Answers)]
    BY <2>1, <2>3, BusyHasFrame, TellEffect
  <2>5. UNCHANGED <<known, existing, granted, open, used, about, queue, stray, unsent,
                    dropped, crashed>>
    BY <2>1, <2>2, CaughtEffect
  <2> QED BY <2>1, <2>3, <2>4, <2>5, FinishEffect DEF TypeOK
<1>6. ASSUME NEW w \in Workers, FindUser(w) \/ FindContext(w) \/ Authorized(w) \/ Act(w)
      PROVE  TypeOK'
  <2>1. job[w] \in Frames
    BY <1>6, BusyHasFrame DEF FindUser, FindContext, Authorized, Act, At
  <2> QED BY <1>6, <2>1 DEF FindUser, FindContext, Authorized, Act, At, GoTo, Places, TypeOK
<1>7. ASSUME NEW w \in Workers, Reply(w) \/ Commit(w)
      PROVE  TypeOK'
  <2>1. job[w] \in Frames
    BY <1>7, BusyHasFrame DEF Reply, Commit, At
  <2>2. told' \in [Frames -> Seq(Answers)]
    BY <1>7, <2>1, TellEffect DEF Reply, Commit, Answers
  <2> QED BY <1>7, <2>1, <2>2 DEF Reply, Commit, At, GoTo, Places, TypeOK
<1>8. ASSUME NEW w \in Workers,
             CommitUnsent(w) \/ JobRaises(w) \/ HorseKilled(w) \/ UpdateStatus(w)
      PROVE  TypeOK'
  <2>1. job[w] \in Frames /\ Finish(w)
    BY <1>8, BusyHasFrame DEF CommitUnsent, JobRaises, HorseKilled, UpdateStatus, At
  <2>2. told' \in [Frames -> Seq(Answers)]
    <3>1. Tell(job[w], "job") \/ UNCHANGED told
      BY <1>8 DEF CommitUnsent, JobRaises, HorseKilled, UpdateStatus
    <3> QED BY <2>1, <3>1, TellEffect DEF Answers, TypeOK
  <2>3. /\ applied' \subseteq Frames /\ unsent' \subseteq Frames /\ dropped' \subseteq Frames
        /\ UNCHANGED <<known, existing, granted, open, used, about, queue, stray, crashed>>
    BY <1>8, <2>1 DEF CommitUnsent, JobRaises, HorseKilled, UpdateStatus, TypeOK
  <2> QED BY <2>1, <2>2, <2>3, FinishEffect DEF TypeOK
<1>11. ASSUME NEW w \in Workers, GiveUpUnregistered(w)
       PROVE  TypeOK'
  BY <1>11, FinishEffect DEF GiveUpUnregistered, InAction, At, TypeOK
<1>9. CASE Close \/ DeleteUser \/ DeleteContext \/ ChangePermission
  BY <1>9 DEF Close, DeleteUser, DeleteContext, ChangePermission, TypeOK
<1>10. CASE UNCHANGED vars
  BY <1>10 DEF vars, TypeOK
<1> QED BY <1>1, <1>2, <1>3, <1>4, <1>5, <1>6, <1>7, <1>8, <1>9, <1>10, <1>11
        DEF Next, RunJob

(* Every variable stays in its set; a worker has a job exactly while it is  *)
(* busy, and waits for a commit exactly in jobs that have a transaction.    *)
THEOREM ActionsTypeCorrect == Spec => []TypeOK
<1> QED BY TypeInit, TypeStep, PTL DEF Spec

-----------------------------------------------------------------------------
(* One holder for every unanswered command *)

(* Nothing is known yet about what becomes of f.                           *)
Untouched(f) == told[f] = << >> /\ f \notin applied \cup unsent \cup stray

(* What a client can have been told about f.                               *)
OutcomesOf(f) ==
    {<< >>, <<"success", "job">>} \cup {<<a>> : a \in Answers}
    \cup (IF f \in Atomic THEN {} ELSE {<<"success", "bad_request">>})

(* What can be said about a frame at any time.                             *)
Sound(f) ==
    /\ told[f] \in OutcomesOf(f)
    /\ f \notin used => Untouched(f) /\ about[f] = None
    /\ f \in stray => told[f] = << >> /\ about[f] = None
    /\ f \in applied /\ f \in Atomic => \A a \in Refusals : told[f] # <<a>>
    /\ f \in applied => \A a \in Refusals \ {"bad_request"} : told[f] # <<a>>
    /\ f \in applied /\ f \in Atomic /\ told[f] = <<"job">> => f \in unsent

(* A frame waits once, and nothing has come of it.                         *)
QueueInv ==
    /\ \A i \in 1 .. Len(queue) :
           queue[i] \in used /\ about[queue[i]] # None /\ Untouched(queue[i])
    /\ \A i, j \in 1 .. Len(queue) : queue[i] = queue[j] => i = j
    /\ \A i \in 1 .. Len(queue), w \in Workers : job[w] # queue[i]

(* The places of a job of which nothing is known yet.                      *)
Fresh == {"user", "context", "permission", "act", "commit"}

(* No two workers have the same frame, and what came of it so far depends  *)
(* on how far its worker is.                                               *)
WorkersInv ==
    \A w \in Workers : job[w] # None =>
        /\ \A v \in Workers : job[v] = job[w] => v = w
        /\ job[w] \in used /\ about[job[w]] # None
        /\ pc[w] \in Fresh => Untouched(job[w])
        /\ pc[w] = "reply" => told[job[w]] = << >>
        /\ pc[w] = "status" => \/ told[job[w]] = <<"success">>
                               \/ told[job[w]] = << >> /\ ~open

ActionsInv == QueueInv /\ WorkersInv /\ \A f \in Frames : Sound(f)

(* An action touches one frame: for all others Sound is kept.              *)
LEMMA SoundElsewhere ==
    ASSUME NEW f \in Frames, Sound(f), told'[f] = told[f], about'[f] = about[f],
           f \in used' <=> f \in used, f \in stray' <=> f \in stray,
           f \in applied' <=> f \in applied, f \in unsent' <=> f \in unsent
    PROVE  Sound(f)'
BY DEF Sound, Untouched

(* What a step of a worker has to show: how its own frame stands.          *)
LEMMA WorkerKeeps ==
    ASSUME TypeOK, ActionsInv, NEW w \in Workers, NEW f \in Frames, job[w] = f,
           UNCHANGED <<used, about, queue, stray>>, ~open => ~open',
           \A v \in Workers \ {w} : pc'[v] = pc[v] /\ job'[v] = job[v],
           \A g \in Frames \ {f} : /\ told'[g] = told[g]
                                   /\ g \in applied' <=> g \in applied
                                   /\ g \in unsent' <=> g \in unsent,
           Sound(f)',
           \/ job'[w] = None
           \/ /\ job'[w] = f
              /\ pc'[w] \in Fresh => Untouched(f)'
              /\ pc'[w] = "reply" => told'[f] = << >>
              /\ pc'[w] = "status" => \/ told'[f] = <<"success">>
                                      \/ told'[f] = << >> /\ ~open'
    PROVE  ActionsInv'
<1>1. f # None
  BY ActionsAssumption
<1>2. \A g \in Frames : Sound(g)'
  <2>1. ASSUME NEW g \in Frames \ {f}
        PROVE  Sound(g)'
    <3>1. Sound(g)
      BY <2>1 DEF ActionsInv
    <3> QED BY <2>1, <3>1, SoundElsewhere
  <2> QED BY <2>1
<1>3. QueueInv'
  <2>1. \A i \in 1 .. Len(queue) : queue[i] \in Frames \ {f}
    BY <1>1 DEF ActionsInv, QueueInv, TypeOK
  <2>2. \A i \in 1 .. Len(queue) :
            queue[i] \in used /\ about[queue[i]] # None /\ Untouched(queue[i])
    BY DEF ActionsInv, QueueInv
  <2>3. \A i \in 1 .. Len(queue') :
            queue'[i] \in used' /\ about'[queue'[i]] # None /\ Untouched(queue[i])'
    BY <2>1, <2>2 DEF Untouched
  <2>4. \A i \in 1 .. Len(queue'), v \in Workers : job'[v] # queue'[i]
    BY <1>1, <2>1, ActionsAssumption DEF ActionsInv, QueueInv
  <2> QED BY <2>3, <2>4 DEF ActionsInv, QueueInv
<1>4. WorkersInv'
  <2>1. \A v \in Workers \ {w} : job[v] # None => job[v] \in Frames \ {f}
    BY <1>1 DEF ActionsInv, WorkersInv, TypeOK
  <2>2. \A v, u \in Workers : job'[v] # None /\ job'[u] = job'[v] => u = v
    BY <1>1, <2>1 DEF ActionsInv, WorkersInv
  <2>3. ASSUME NEW v \in Workers \ {w}, NEW g \in Frames, job'[v] = g
        PROVE  /\ g \in used' /\ about'[g] # None
               /\ pc'[v] \in Fresh => Untouched(g)'
               /\ pc'[v] = "reply" => told'[g] = << >>
               /\ pc'[v] = "status" => \/ told'[g] = <<"success">>
                                       \/ told'[g] = << >> /\ ~open'
    <3>1. job[v] = g /\ g # f /\ g # None /\ pc'[v] = pc[v]
      BY <2>1, <2>3, ActionsAssumption
    <3>2. /\ g \in used /\ about[g] # None
          /\ pc[v] \in Fresh => Untouched(g)
          /\ pc[v] = "reply" => told[g] = << >>
          /\ pc[v] = "status" => \/ told[g] = <<"success">>
                                 \/ told[g] = << >> /\ ~open
      BY <3>1 DEF ActionsInv, WorkersInv
    <3> QED BY <3>1, <3>2 DEF Untouched
  <2>4. /\ f \in used' /\ about'[f] # None
    BY <1>1 DEF ActionsInv, WorkersInv
  <2>5. \A v \in Workers \ {w} : job'[v] # None => job'[v] \in Frames
    BY <2>1
  <2> QED BY <2>2, <2>3, <2>4, <2>5 DEF WorkersInv, Untouched
<1> QED BY <1>2, <1>3, <1>4 DEF ActionsInv

(* What a frame from the client has to show: how it stands, since no job   *)
(* is about it.                                                            *)
LEMMA ReceiveKeeps ==
    ASSUME TypeOK, ActionsInv, NEW f \in Frames, Receive(f),
           \A g \in Frames \ {f} : /\ told'[g] = told[g] /\ about'[g] = about[g]
                                   /\ g \in stray' <=> g \in stray,
           Sound(f)',
           \/ queue' = queue
           \/ queue' = Append(queue, f) /\ about'[f] # None /\ Untouched(f)'
    PROVE  ActionsInv'
<1>1. /\ f \notin used /\ used' = used \cup {f}
      /\ UNCHANGED <<open, pc, job, applied, unsent>>
  BY ReceiveEffect
<1>2. \A g \in Frames : Sound(g)'
  <2>1. ASSUME NEW g \in Frames \ {f}
        PROVE  Sound(g)'
    <3>1. Sound(g)
      BY <2>1 DEF ActionsInv
    <3> QED BY <1>1, <2>1, <3>1, SoundElsewhere
  <2> QED BY <2>1
<1>3. /\ \A i \in 1 .. Len(queue) : queue[i] \in Frames \ {f}
      /\ \A w \in Workers : job[w] # None => job[w] \in Frames \ {f}
      /\ f # None
  BY <1>1, ActionsAssumption DEF ActionsInv, QueueInv, WorkersInv, TypeOK
<1>4. WorkersInv'
  BY <1>1, <1>3 DEF ActionsInv, WorkersInv, Untouched
<1>5. QueueInv'
  <2>1. CASE queue' = queue
    BY <1>1, <1>3, <2>1 DEF ActionsInv, QueueInv, Untouched
  <2>2. CASE queue' = Append(queue, f) /\ about'[f] # None /\ Untouched(f)'
    <3>1. /\ Len(queue') = Len(queue) + 1 /\ queue'[Len(queue) + 1] = f
          /\ \A i \in 1 .. Len(queue) : queue'[i] = queue[i]
          /\ Len(queue) \in Nat
      BY <2>2 DEF TypeOK
    <3>2. \A i \in 1 .. Len(queue') : i \in 1 .. Len(queue) \/ i = Len(queue) + 1
      BY <3>1
    <3>3. \A i \in 1 .. Len(queue') :
              queue'[i] \in used' /\ about'[queue'[i]] # None /\ Untouched(queue[i])'
      BY <1>1, <1>3, <2>2, <3>1, <3>2 DEF ActionsInv, QueueInv, Untouched
    <3>4. \A i, j \in 1 .. Len(queue') : queue'[i] = queue'[j] => i = j
      BY <1>3, <3>1, <3>2 DEF ActionsInv, QueueInv
    <3>5. \A i \in 1 .. Len(queue'), w \in Workers : job'[w] # queue'[i]
      BY <1>1, <1>3, <3>1, <3>2 DEF ActionsInv, QueueInv
    <3> QED BY <3>3, <3>4, <3>5 DEF QueueInv, Untouched
  <2> QED BY <2>1, <2>2
<1> QED BY <1>2, <1>4, <1>5 DEF ActionsInv

(* An answer to a frame that had none is its only one.                     *)
LEMMA FirstAnswer ==
    ASSUME TypeOK, NEW f \in Frames, NEW answer \in Answers, told[f] = << >>, Tell(f, answer)
    PROVE  /\ told'[f] = IF open THEN <<answer>> ELSE << >>
           /\ \A g \in Frames \ {f} : told'[g] = told[g]
<1>1. Append(<< >>, answer) = <<answer>>
  OBVIOUS
<1> QED BY <1>1, TellEffect

(* A second answer follows the first.                                      *)
LEMMA SecondAnswer ==
    /\ \A b \in Answers : Append(<< >>, b) = <<b>>
    /\ \A a, b \in Answers : Append(<<a>>, b) = <<a, b>>
<1>1. ASSUME NEW a \in Answers, NEW b \in Answers
      PROVE  Append(<<a>>, b) = <<a, b>>
  <2> DEFINE s == Append(<<a>>, b)
             t == <<a, b>>
  <2>1. s \in Seq(Answers) /\ t \in Seq(Answers)
    OBVIOUS
  <2>2. Len(s) = 2 /\ Len(t) = 2
    OBVIOUS
  <2>3. \A i \in 1 .. Len(s) : s[i] = t[i]
    <3>1. s[1] = a /\ s[2] = b /\ t[1] = a /\ t[2] = b
      OBVIOUS
    <3>2. \A i \in 1 .. Len(s) : i = 1 \/ i = 2
      BY <2>2
    <3> QED BY <3>1, <3>2
  <2> HIDE DEF s, t
  <2>4. s = t
    BY <2>1, <2>2, <2>3, SeqEqual
  <2> QED BY <2>4 DEF s, t
<1> QED BY <1>1

LEMMA ReceiveStep ==
    ASSUME TypeOK, ActionsInv, NEW f \in Frames,
           ReceiveGarbage(f) \/ ReceiveInvalid(f) \/ ReceivePing(f) \/ ReceiveCommand(f)
    PROVE  ActionsInv'
<1>1. Receive(f)
  BY DEF ReceiveGarbage, ReceiveInvalid, ReceivePing, ReceiveCommand
<1>2. /\ f \notin used /\ used' = used \cup {f}
      /\ UNCHANGED <<open, pc, job, applied, unsent>>
  BY <1>1, ReceiveEffect
<1>3. Sound(f) /\ Untouched(f) /\ about[f] = None
  BY <1>2 DEF ActionsInv, Sound
<1>4. CASE ReceiveGarbage(f)
  <2>1. UNCHANGED <<told, about, queue>> /\ stray' = stray \cup {f}
    BY <1>4 DEF ReceiveGarbage
  <2>2. Sound(f)'
    BY <1>2, <1>3, <2>1 DEF Sound, Untouched
  <2> QED BY <1>1, <2>1, <2>2, ReceiveKeeps
<1>5. CASE ReceiveInvalid(f) \/ ReceivePing(f)
  <2>1. PICK answer \in Answers : Tell(f, answer) /\ answer # "job"
    BY <1>5 DEF ReceiveInvalid, ReceivePing, Answers
  <2>2. UNCHANGED <<about, queue, stray>>
    BY <1>5 DEF ReceiveInvalid, ReceivePing
  <2>3. told[f] = << >>
    BY <1>3 DEF Untouched
  <2>4. /\ told'[f] = IF open THEN <<answer>> ELSE << >>
        /\ \A g \in Frames \ {f} : told'[g] = told[g]
    BY <2>1, <2>3, FirstAnswer
  <2>5. Sound(f)'
    BY <1>2, <1>3, <2>1, <2>2, <2>4 DEF Sound, Untouched, OutcomesOf
  <2> QED BY <1>1, <2>2, <2>4, <2>5, ReceiveKeeps
<1>6. CASE ReceiveCommand(f)
  <2>1. PICK x \in Contexts : about' = [about EXCEPT ![f] = x]
    BY <1>6 DEF ReceiveCommand
  <2>2. UNCHANGED <<told, stray>> /\ queue' = Append(queue, f)
    BY <1>6 DEF ReceiveCommand
  <2>3. about'[f] # None /\ \A g \in Frames \ {f} : about'[g] = about[g]
    BY <2>1, ActionsAssumption DEF TypeOK
  <2>4. Sound(f)' /\ Untouched(f)'
    BY <1>2, <1>3, <2>2, <2>3 DEF Sound, Untouched
  <2> QED BY <1>1, <2>2, <2>3, <2>4, ReceiveKeeps
<1> QED BY <1>4, <1>5, <1>6

LEMMA TakeStep ==
    ASSUME TypeOK, ActionsInv, NEW w \in Workers, TakeJob(w)
    PROVE  ActionsInv'
<1> DEFINE f == Head(queue)
<1>1. /\ UNCHANGED <<open, used, about, told, applied, unsent, stray>>
      /\ pc' = [pc EXCEPT ![w] = "user"] /\ job' = [job EXCEPT ![w] = f]
      /\ job[w] = None
  BY DEF TakeJob, GoTo, At, database, client, history, TypeOK
<1>2. /\ Len(queue) \in Nat \ {0} /\ f = queue[1] /\ f \in Frames
      /\ Len(queue') = Len(queue) - 1
      /\ \A i \in 1 .. Len(queue') : queue'[i] = queue[i + 1] /\ i + 1 \in 1 .. Len(queue)
  BY DEF TakeJob, TypeOK
<1>3. f \in used /\ about[f] # None /\ Untouched(f) /\ \A v \in Workers : job[v] # f
  BY <1>2 DEF ActionsInv, QueueInv
<1>4. f # None
  BY <1>2, ActionsAssumption
<1>5. QueueInv'
  <2>1. \A i \in 1 .. Len(queue') :
            /\ queue[i + 1] \in used /\ about[queue[i + 1]] # None
            /\ Untouched(queue[i + 1])
            /\ queue[i + 1] # f
            /\ \A v \in Workers : job[v] # queue[i + 1]
    BY <1>2 DEF ActionsInv, QueueInv
  <2>2. \A i \in 1 .. Len(queue'), v \in Workers : job'[v] # queue'[i]
    BY <1>1, <1>2, <2>1 DEF TypeOK
  <2>3. \A i, j \in 1 .. Len(queue') : queue'[i] = queue'[j] => i = j
    <3> SUFFICES ASSUME NEW i \in 1 .. Len(queue'), NEW j \in 1 .. Len(queue'),
                        queue'[i] = queue'[j]
                 PROVE  i = j
      OBVIOUS
    <3>1. i + 1 = j + 1
      BY <1>2 DEF ActionsInv, QueueInv
    <3> QED BY <1>2, <3>1
  <2> QED BY <1>1, <1>2, <2>1, <2>2, <2>3 DEF QueueInv, Untouched
<1>6. WorkersInv'
  <2>1. \A v \in Workers \ {w} : job'[v] = job[v] /\ pc'[v] = pc[v]
    BY <1>1 DEF TypeOK
  <2>2. job'[w] = f /\ pc'[w] = "user"
    BY <1>1 DEF TypeOK
  <2> QED BY <1>1, <1>3, <1>4, <2>1, <2>2 DEF ActionsInv, WorkersInv, Untouched
<1>7. \A g \in Frames : Sound(g)'
  BY <1>1 DEF ActionsInv, Sound, Untouched
<1> QED BY <1>5, <1>6, <1>7 DEF ActionsInv

(* An error that is caught: nothing was done, or it was by an action       *)
(* without a transaction, which may have been answered.                    *)
LEMMA CaughtStep ==
    ASSUME TypeOK, ActionsInv, NEW w \in Workers, NotFound(w) \/ Unauthorized(w) \/ GiveUp(w)
    PROVE  ActionsInv'
<1>1. /\ pc[w] \in Fresh \cup {"reply", "status"} /\ UNCHANGED applied
      /\ pc[w] = "status" => job[w] \notin Atomic
  BY DEF NotFound, Unauthorized, Denied, GiveUp, InAction, At, Fresh
<1>2. PICK answer \in {"not_found", "unauthorized", "bad_request"}, id \in {None, job[w]} :
          /\ Caught(w, answer, id)
          /\ pc[w] \in {"reply", "status"} => answer = "bad_request"
  BY DEF NotFound, Unauthorized, Denied, GiveUp, At
<1>3. PICK f \in Frames : job[w] = f
  BY <1>1, BusyHasFrame DEF Fresh
<1>4. /\ Tell(f, answer) /\ Finish(w)
      /\ UNCHANGED <<open, used, about, queue, stray, unsent>>
  BY <1>1, <1>2, <1>3, CaughtEffect DEF Fresh
<1>5. /\ f \in used /\ about[f] # None /\ Sound(f)
      /\ told[f] = << >> \/ (told[f] = <<"success">> /\ pc[w] = "status")
      /\ f \in applied => pc[w] \in {"reply", "status"}
      /\ pc[w] \in {"reply", "status"} => f \notin Atomic
  BY <1>1, <1>3, ActionsAssumption DEF ActionsInv, WorkersInv, Untouched, TypeOK
<1>6. /\ told'[f] \in {told[f], <<answer>>, <<"success", "bad_request">>}
      /\ told'[f] = <<"success", "bad_request">> /\ told'[f] # told[f] => f \notin Atomic
      /\ \A g \in Frames \ {f} : told'[g] = told[g]
  <2>1. answer \in Answers /\ "success" \in Answers
    BY <1>2 DEF Answers
  <2>2. /\ told'[f] \in {told[f], Append(told[f], answer)}
        /\ \A g \in Frames \ {f} : told'[g] = told[g]
    BY <1>4, <2>1, TellEffect
  <2>3. Append(<< >>, answer) = <<answer>> /\ Append(<<"success">>, answer) = <<"success", answer>>
    BY <2>1, SecondAnswer
  <2>4. CASE told[f] = << >>
    <3>1. told'[f] \in {told[f], <<answer>>}
      BY <2>2, <2>3, <2>4
    <3>2. << >> # <<"success", "bad_request">> /\ <<answer>> # <<"success", "bad_request">>
      <4>1. Len(<< >>) = 0 /\ Len(<<answer>>) = 1 /\ Len(<<"success", "bad_request">>) = 2
        OBVIOUS
      <4> QED BY <4>1
    <3> QED BY <2>2, <2>4, <3>1, <3>2
  <2>5. CASE told[f] = <<"success">> /\ pc[w] = "status"
    <3>1. answer = "bad_request" /\ f \notin Atomic
      BY <1>2, <1>5, <2>5
    <3> QED BY <2>2, <2>3, <2>5, <3>1
  <2> QED BY <1>5, <2>4, <2>5
<1>7. /\ job'[w] = None
      /\ \A v \in Workers \ {w} : pc'[v] = pc[v] /\ job'[v] = job[v]
  BY <1>4, FinishEffect
<1>8. Sound(f)'
  <2>1. f \notin stray /\ f \in used' /\ f \notin stray'
    BY <1>4, <1>5 DEF Sound
  <2>2. f \in applied' => answer = "bad_request" /\ f \notin Atomic
    BY <1>1, <1>2, <1>5
  <2>3. told'[f] \in OutcomesOf(f)
    BY <1>2, <1>5, <1>6 DEF Answers, OutcomesOf, Sound
  <2>4. \A a \in Answers : told'[f] = <<a>> => told'[f] = told[f] \/ a = answer
    BY <1>6
  <2>5. told'[f] # <<"job">>
    BY <1>2, <1>5, <1>6
  <2>6. \A a \in Refusals : told'[f] = <<a>> => a = answer
    BY <1>5, <2>4 DEF Refusals, Answers
  <2> QED BY <1>1, <1>4, <1>5, <2>1, <2>2, <2>3, <2>5, <2>6 DEF Sound, Refusals
<1> QED BY <1>1, <1>3, <1>4, <1>6, <1>7, <1>8, WorkerKeeps

(* A job that goes on: the lookups, the action, the reply, the commit.     *)
LEMMA GoesOnStep ==
    ASSUME TypeOK, ActionsInv, NEW w \in Workers,
           \/ FindUser(w) \/ FindContext(w) \/ Authorized(w)
           \/ Act(w) \/ Reply(w) \/ Commit(w)
    PROVE  ActionsInv'
<1>1. /\ pc[w] \in Fresh \cup {"reply"}
      /\ UNCHANGED <<open, used, about, queue, stray, unsent, job>>
  BY DEF FindUser, FindContext, Authorized, Act, Reply, Commit, At, client, history, Fresh
<1>2. PICK f \in Frames : job[w] = f
  BY <1>1, BusyHasFrame DEF Fresh
<1>3. /\ told[f] = << >> /\ f \in used /\ about[f] # None
      /\ pc[w] # "reply" => Untouched(f)
      /\ pc[w] = "commit" => f \in Atomic
      /\ pc[w] = "reply" => f \notin Atomic
      /\ Sound(f)
  BY <1>1, <1>2, ActionsAssumption DEF ActionsInv, WorkersInv, Untouched, TypeOK
<1>4. f \notin stray
  BY <1>3 DEF Sound
<1>5. CASE FindUser(w) \/ FindContext(w) \/ Authorized(w)
  <2>1. /\ UNCHANGED <<told, applied>>
        /\ \E where \in {"context", "permission", "act"} : pc' = [pc EXCEPT ![w] = where]
    BY <1>5 DEF FindUser, FindContext, Authorized, GoTo
  <2>2. /\ pc'[w] \in {"context", "permission", "act"}
        /\ \A v \in Workers \ {w} : pc'[v] = pc[v]
    BY <2>1 DEF TypeOK
  <2>3. Sound(f)' /\ Untouched(f)'
    BY <1>1, <1>3, <1>5, <2>1 DEF Sound, Untouched, FindUser, FindContext, Authorized, At
  <2> QED BY <1>1, <1>2, <2>1, <2>2, <2>3, WorkerKeeps
<1>6. CASE Act(w)
  <2>1. /\ UNCHANGED told
        /\ applied' = IF f \in Atomic THEN applied ELSE applied \cup {f}
        /\ pc' = [pc EXCEPT ![w] = IF f \in Atomic THEN "commit" ELSE "reply"]
    BY <1>2, <1>6 DEF Act, GoTo
  <2>2. /\ pc'[w] = IF f \in Atomic THEN "commit" ELSE "reply"
        /\ \A v \in Workers \ {w} : pc'[v] = pc[v]
    BY <2>1 DEF TypeOK
  <2>3. Sound(f)'
    BY <1>1, <1>3, <1>4, <1>6, <2>1 DEF Sound, Untouched, Act, At
  <2>4. f \in Atomic => Untouched(f)'
    BY <1>1, <1>3, <1>6, <2>1 DEF Untouched, Act, At
  <2>5. told'[f] = << >>
    BY <1>3, <2>1
  <2> QED BY <1>1, <1>2, <2>1, <2>2, <2>3, <2>4, <2>5, WorkerKeeps DEF Fresh
<1>7. CASE Reply(w) \/ Commit(w)
  <2>1. /\ Tell(f, "success")
        /\ applied' = applied \/ applied' = applied \cup {f}
        /\ pc' = [pc EXCEPT ![w] = "status"]
    BY <1>2, <1>7 DEF Reply, Commit, GoTo
  <2>2. /\ told'[f] = IF open THEN <<"success">> ELSE << >>
        /\ \A g \in Frames \ {f} : told'[g] = told[g]
    BY <1>3, <2>1, FirstAnswer DEF Answers
  <2>3. pc'[w] = "status" /\ \A v \in Workers \ {w} : pc'[v] = pc[v]
    BY <2>1 DEF TypeOK
  <2>4. Sound(f)'
    BY <1>1, <1>3, <1>4, <2>2 DEF Sound, Answers, Refusals, OutcomesOf
  <2> QED BY <1>1, <1>2, <2>1, <2>2, <2>3, <2>4, WorkerKeeps DEF Fresh
<1> QED BY <1>5, <1>6, <1>7

(* A job that ends otherwise: done, with an exception, killed, or with a   *)
(* commit that could not be told.                                          *)
LEMMA EndsStep ==
    ASSUME TypeOK, ActionsInv, NEW w \in Workers,
           CommitUnsent(w) \/ JobRaises(w) \/ HorseKilled(w) \/ UpdateStatus(w)
    PROVE  ActionsInv'
<1>1. /\ pc[w] # "idle" /\ Finish(w)
      /\ UNCHANGED <<open, used, about, queue, stray>>
  BY DEF CommitUnsent, JobRaises, HorseKilled, UpdateStatus, At, client, history
<1>2. PICK f \in Frames : job[w] = f
  BY <1>1, BusyHasFrame
<1>3. /\ f \in used /\ about[f] # None /\ Sound(f)
      /\ pc[w] \in Fresh => Untouched(f)
      /\ pc[w] = "reply" => told[f] = << >> /\ f \notin Atomic
      /\ pc[w] = "status" => \/ told[f] = <<"success">>
                             \/ told[f] = << >> /\ ~open
      /\ pc[w] \in Fresh \cup {"reply", "status"}
  BY <1>1, <1>2, ActionsAssumption DEF ActionsInv, WorkersInv, Fresh, Places, TypeOK
<1>4. f \notin stray
  BY <1>3 DEF Sound, Untouched
<1>5. /\ job'[w] = None
      /\ \A v \in Workers \ {w} : pc'[v] = pc[v] /\ job'[v] = job[v]
  BY <1>1, FinishEffect
<1>6. /\ applied' \in {applied, applied \cup {f}}
      /\ applied' # applied => pc[w] = "commit"
      /\ unsent' \in {unsent, unsent \cup {f}}
      /\ Tell(f, "job") \/ UNCHANGED told
      /\ applied' # applied /\ ~UNCHANGED told => f \in unsent'
  BY <1>2 DEF CommitUnsent, JobRaises, HorseKilled, UpdateStatus, At, history
<1>7. /\ told'[f] \in {told[f], Append(told[f], "job")}
      /\ ~open => told'[f] = told[f]
      /\ \A g \in Frames \ {f} : told'[g] = told[g]
  BY <1>6, TellEffect DEF Answers
<1>8. Append(<< >>, "job") = <<"job">> /\ Append(<<"success">>, "job") = <<"success", "job">>
  BY SecondAnswer DEF Answers
<1>9. \/ told'[f] = told[f]
      \/ told[f] = << >> /\ told'[f] = <<"job">> /\ pc[w] # "status"
      \/ told[f] = <<"success">> /\ told'[f] = <<"success", "job">>
  BY <1>3, <1>7, <1>8 DEF Untouched
<1>10. Sound(f)'
  <2>1. f \in applied' /\ f \in Atomic /\ told'[f] = <<"job">> => f \in unsent'
    BY <1>3, <1>6, <1>9 DEF Sound, Untouched
  <2>2. told'[f] \in OutcomesOf(f)
    BY <1>3, <1>9 DEF Sound, Answers, OutcomesOf
  <2>3. \A a \in Refusals : told'[f] = <<a>> => told'[f] = told[f]
    BY <1>9 DEF Refusals
  <2>4. f \in applied' /\ f \notin applied => told[f] = << >>
    BY <1>3, <1>6 DEF Untouched
  <2>5. f \in used' /\ f \notin stray'
    BY <1>1, <1>3, <1>4
  <2>6. \A a \in Refusals : f \in applied' /\ told'[f] = <<a>> =>
            f \in applied /\ told[f] = <<a>>
    BY <2>3, <2>4
  <2> QED BY <1>3, <2>1, <2>2, <2>5, <2>6 DEF Sound
<1> QED BY <1>1, <1>2, <1>5, <1>6, <1>7, <1>10, WorkerKeeps

(* An error the consumer cannot read ends the connection, and nothing else. *)
LEMMA UnreadStep ==
    ASSUME TypeOK, ActionsInv, NEW w \in Workers, GiveUpUnregistered(w)
    PROVE  ActionsInv'
<1>1. /\ pc[w] # "idle" /\ Finish(w) /\ ~open'
      /\ UNCHANGED <<used, about, queue, stray, told, applied, unsent>>
  BY DEF GiveUpUnregistered, InAction, At
<1>2. PICK f \in Frames : job[w] = f
  BY <1>1, BusyHasFrame
<1>3. /\ job'[w] = None
      /\ \A v \in Workers \ {w} : pc'[v] = pc[v] /\ job'[v] = job[v]
  BY <1>1, FinishEffect
<1>4. Sound(f)'
  BY <1>1, SoundElsewhere DEF ActionsInv
<1> QED BY <1>1, <1>2, <1>3, <1>4, WorkerKeeps

LEMMA ActionsInvStep == TypeOK /\ ActionsInv /\ [Next]_vars => ActionsInv'
<1> SUFFICES ASSUME TypeOK, ActionsInv, [Next]_vars
             PROVE  ActionsInv'
  OBVIOUS
<1>1. CASE \E f \in Frames : \/ ReceiveGarbage(f) \/ ReceiveInvalid(f)
                           \/ ReceivePing(f) \/ ReceiveCommand(f)
  BY <1>1, ReceiveStep
<1>2. ASSUME NEW w \in Workers, \/ TakeJob(w) \/ RunJob(w)
                                \/ CommitUnsent(w) \/ JobRaises(w) \/ HorseKilled(w)
      PROVE  ActionsInv'
  BY <1>2, TakeStep, CaughtStep, UnreadStep, GoesOnStep, EndsStep DEF RunJob
<1>3. CASE Close \/ DeleteUser \/ DeleteContext \/ ChangePermission \/ UNCHANGED vars
  <2>1. /\ UNCHANGED <<used, about, queue, pc, job, applied, told, stray, unsent>>
        /\ ~open => ~open'
    BY <1>3 DEF Close, DeleteUser, DeleteContext, ChangePermission, vars, database, client,
                worker, history
  <2> QED BY <2>1 DEF ActionsInv, QueueInv, WorkersInv, Sound, Untouched
<1> QED BY <1>1, <1>2, <1>3 DEF Next

THEOREM ActionsInvariant == Spec => [](TypeOK /\ ActionsInv)
<1>1. Init => TypeOK /\ ActionsInv
  <2> SUFFICES ASSUME Init PROVE TypeOK /\ ActionsInv
    OBVIOUS
  <2>1. Len(queue) = 0
    BY DEF Init
  <2>2. ActionsInv
    BY <2>1, ActionsAssumption DEF Init, ActionsInv, QueueInv, WorkersInv, Sound, Untouched,
                                       OutcomesOf
  <2> QED BY <2>2, TypeInit
<1>2. TypeOK /\ ActionsInv /\ [Next]_vars => (TypeOK /\ ActionsInv)'
  BY TypeStep, ActionsInvStep
<1> QED BY <1>1, <1>2, PTL DEF Spec

-----------------------------------------------------------------------------
(* What the client is told *)

(* What was told about a frame, for the few things that can be told.       *)
LEMMA ToldOnce ==
    ASSUME NEW f \in Frames, Sound(f)
    PROVE  \/ told[f] = << >> /\ Told(f) = {}
           \/ told[f] = <<"success", "job">> /\ Told(f) = {"success", "job"}
           \/ /\ told[f] = <<"success", "bad_request">> /\ f \notin Atomic
              /\ Told(f) = {"success", "bad_request"}
           \/ \E a \in Answers : told[f] = <<a>> /\ Told(f) = {a}
<1>1. CASE told[f] = << >>
  BY <1>1 DEF Told
<1>2. CASE told[f] = <<"success", "job">>
  <2>1. DOMAIN told[f] = {1, 2} /\ told[f][1] = "success" /\ told[f][2] = "job"
    BY <1>2
  <2>2. Told(f) = {"success", "job"}
    BY <2>1 DEF Told
  <2> QED BY <1>2, <2>2
<1>3. CASE \E a \in Answers : told[f] = <<a>>
  <2>1. PICK a \in Answers : told[f] = <<a>>
    BY <1>3
  <2>2. DOMAIN told[f] = {1} /\ told[f][1] = a
    BY <2>1
  <2>3. Told(f) = {a}
    BY <2>2 DEF Told
  <2> QED BY <2>1, <2>3
<1>4. CASE told[f] = <<"success", "bad_request">> /\ f \notin Atomic
  <2>1. DOMAIN told[f] = {1, 2} /\ told[f][1] = "success" /\ told[f][2] = "bad_request"
    BY <1>4
  <2>2. Told(f) = {"success", "bad_request"}
    BY <2>1 DEF Told
  <2> QED BY <1>4, <2>2
<1> QED BY <1>1, <1>2, <1>3, <1>4 DEF Sound, OutcomesOf

(* A client that is told its command was refused can rely on it, whatever  *)
(* raised, was killed or raced.                                            *)
THEOREM RefusalsAreTrue == Spec => []RefusedHasNoEffect
<1>1. TypeOK /\ ActionsInv => RefusedHasNoEffect
  <2> SUFFICES ASSUME TypeOK, ActionsInv, NEW f \in applied, Told(f) \cap Refusals # {}
               PROVE  f \notin Atomic /\ Told(f) \cap Refusals = {"bad_request"}
    BY DEF RefusedHasNoEffect
  <2>1. f \in Frames /\ Sound(f)
    BY DEF TypeOK, ActionsInv
  <2>2. \/ f \notin Atomic /\ Told(f) = {"success", "bad_request"}
        \/ \E a \in Answers : told[f] = <<a>> /\ Told(f) = {a}
    BY <2>1, ToldOnce DEF Refusals
  <2>3. ASSUME NEW a \in Answers, told[f] = <<a>>, Told(f) = {a}
        PROVE  f \notin Atomic /\ Told(f) \cap Refusals = {"bad_request"}
    <3>1. a \in Refusals
      BY <2>3
    <3> QED BY <2>1, <2>3, <3>1 DEF Sound, Refusals
  <2> QED BY <2>2, <2>3 DEF Refusals
<1> QED BY <1>1, ActionsInvariant, PTL

(* A job error about an action in a transaction is true, unless the commit *)
(* could not be told.                                                      *)
THEOREM JobErrorsAreTrue == Spec => []JobErrorMeansUndone
<1>1. TypeOK /\ ActionsInv => JobErrorMeansUndone
  BY DEF TypeOK, ActionsInv, JobErrorMeansUndone, Sound
<1> QED BY <1>1, ActionsInvariant, PTL

(* A frame has one outcome.                                                *)
THEOREM OutcomesAreFinal == Spec => []OneOutcome
<1>1. TypeOK /\ ActionsInv => OneOutcome
  <2> SUFFICES ASSUME TypeOK, ActionsInv, NEW f \in Frames
               PROVE  \/ Len(told[f]) <= 1
                      \/ told[f] = <<"success", "job">>
                      \/ told[f] = <<"success", "bad_request">> /\ f \notin Atomic
    BY DEF OneOutcome
  <2>1. \/ told[f] = << >>
        \/ told[f] = <<"success", "job">>
        \/ told[f] = <<"success", "bad_request">> /\ f \notin Atomic
        \/ \E a \in Answers : told[f] = <<a>>
    BY DEF ActionsInv, Sound, OutcomesOf
  <2>2. CASE told[f] = << >>
    BY <2>2
  <2>3. ASSUME NEW a \in Answers, told[f] = <<a>>
        PROVE  Len(told[f]) <= 1
    BY <2>3
  <2> QED BY <2>1, <2>2, <2>3
<1> QED BY <1>1, ActionsInvariant, PTL

(* An error about a frame that could be parsed has its trace id.           *)
THEOREM ErrorsAreNamed == Spec => []ErrorsNamed
<1>1. TypeOK /\ ActionsInv => ErrorsNamed
  BY DEF TypeOK, ActionsInv, ErrorsNamed, Sound
<1> QED BY <1>1, ActionsInvariant, PTL

-----------------------------------------------------------------------------
(* Who may act *)

(* Nothing was done for f, and no worker has looked up what it needs.      *)
KeptUndone(f, need) ==
    f \notin applied /\ \A w \in Workers : job[w] = f => pc[w] \in NotPast(need)

(* A frame whose lookup is ahead has one holder, and nothing came of it.   *)
LEMMA AheadUndone ==
    ASSUME TypeOK, ActionsInv, NEW f \in Frames, NEW need \in Needs(f), Ahead(f, need)
    PROVE  KeptUndone(f, need)
<1>1. CASE \E i \in 1 .. Len(queue) : queue[i] = f
  BY <1>1 DEF ActionsInv, QueueInv, Untouched, KeptUndone
<1>2. ASSUME NEW w \in Workers, job[w] = f, pc[w] \in NotPast(need)
      PROVE  KeptUndone(f, need)
  <2>1. f # None /\ pc[w] \in Fresh
    BY <1>2, ActionsAssumption DEF NotPast, Needs, Fresh
  <2>2. f \notin applied /\ \A v \in Workers : job[v] = f => v = w
    BY <1>2, <2>1 DEF ActionsInv, WorkersInv, Untouched
  <2> QED BY <1>2, <2>2 DEF KeptUndone
<1> QED BY <1>1, <1>2 DEF Ahead

(* As long as it is not given, no lookup gets past it.                     *)
LEMMA KeptUndoneStep ==
    ASSUME NEW f \in Frames, NEW need \in Needs(f)
    PROVE  /\ TypeOK /\ ActionsInv /\ KeptUndone(f, need) /\ ~Given(f, need)
           /\ [Next]_vars
           => KeptUndone(f, need)'
<1> SUFFICES ASSUME TypeOK, ActionsInv, KeptUndone(f, need), ~Given(f, need), [Next]_vars
             PROVE  KeptUndone(f, need)'
  OBVIOUS
<1>0. /\ need \in {"user", "context", "permission"}
      /\ need = "permission" => f \in Protected
      /\ "user" \in NotPast(need)
      /\ \A v \in Workers : job[v] = f => pc[v] \in {"user", "context", "permission"}
  BY DEF Needs, NotPast, KeptUndone
<1>1. ASSUME NEW w \in Workers, FindUser(w) \/ FindContext(w) \/ Authorized(w)
      PROVE  KeptUndone(f, need)'
  <2>1. UNCHANGED <<job, applied>> /\ \A v \in Workers \ {w} : pc'[v] = pc[v]
    BY <1>1 DEF FindUser, FindContext, Authorized, GoTo, TypeOK
  <2>2. CASE job[w] = f /\ FindUser(w)
    <3>1. need # "user" /\ pc'[w] = "context"
      BY <2>2 DEF FindUser, Given, GoTo, TypeOK
    <3> QED BY <1>0, <2>1, <3>1 DEF KeptUndone, NotPast
  <2>3. CASE job[w] = f /\ FindContext(w)
    <3>1. need = "permission"
      BY <1>0, <2>3 DEF FindContext, At, Given, KeptUndone, NotPast
    <3>2. pc'[w] = "permission"
      BY <1>0, <2>3, <3>1 DEF FindContext, GoTo, TypeOK
    <3> QED BY <2>1, <3>1, <3>2 DEF KeptUndone, NotPast
  <2>4. ~(job[w] = f /\ Authorized(w))
    BY <1>0 DEF Authorized, At, Given, KeptUndone, NotPast
  <2>5. CASE job[w] # f
    BY <2>1, <2>5 DEF KeptUndone
  <2> QED BY <1>1, <2>2, <2>3, <2>4, <2>5
<1>2. ASSUME NEW w \in Workers, TakeJob(w)
      PROVE  KeptUndone(f, need)'
  BY <1>0, <1>2 DEF TakeJob, GoTo, KeptUndone, TypeOK
<1>3. ASSUME NEW w \in Workers, \/ Act(w) \/ Reply(w) \/ Commit(w)
      PROVE  KeptUndone(f, need)'
  <2>1. job[w] # f
    BY <1>0, <1>3 DEF Act, Reply, Commit, At
  <2>2. job' = job /\ applied' \in {applied, applied \cup {job[w]}}
    BY <1>3 DEF Act, Reply, Commit
  <2>3. \A v \in Workers \ {w} : pc'[v] = pc[v]
    BY <1>3 DEF Act, Reply, Commit, GoTo, TypeOK
  <2> QED BY <2>1, <2>2, <2>3 DEF KeptUndone
<1>4. ASSUME NEW w \in Workers,
             \/ NotFound(w) \/ Unauthorized(w) \/ GiveUp(w) \/ GiveUpUnregistered(w)
             \/ UpdateStatus(w) \/ CommitUnsent(w) \/ JobRaises(w) \/ HorseKilled(w)
      PROVE  KeptUndone(f, need)'
  <2>1. Finish(w)
    BY <1>4 DEF NotFound, Unauthorized, GiveUp, GiveUpUnregistered, UpdateStatus,
                CommitUnsent, JobRaises, HorseKilled, Caught
  <2>2. /\ job'[w] = None
        /\ \A v \in Workers \ {w} : pc'[v] = pc[v] /\ job'[v] = job[v]
    BY <2>1, FinishEffect
  <2>3. \/ applied' = applied
        \/ pc[w] = "commit" /\ applied' = applied \cup {job[w]}
    BY <1>4 DEF NotFound, Unauthorized, GiveUp, GiveUpUnregistered, UpdateStatus,
                CommitUnsent, JobRaises, HorseKilled, At
  <2> QED BY <1>0, <2>2, <2>3, ActionsAssumption DEF KeptUndone
<1>5. ASSUME \/ \E g \in Frames : \/ ReceiveGarbage(g) \/ ReceiveInvalid(g)
                                 \/ ReceivePing(g) \/ ReceiveCommand(g)
             \/ Close \/ DeleteUser \/ DeleteContext \/ ChangePermission \/ UNCHANGED vars
      PROVE  KeptUndone(f, need)'
  <2>1. UNCHANGED <<applied, pc, job>>
    BY <1>5 DEF ReceiveGarbage, ReceiveInvalid, ReceivePing, ReceiveCommand, Receive, Close,
                DeleteUser, DeleteContext, ChangePermission, vars, worker
  <2> QED BY <2>1 DEF KeptUndone
<1> QED BY <1>1, <1>2, <1>3, <1>4, <1>5 DEF Next, RunJob

(* Each thing an action asks for is looked up in the job and stops it: what *)
(* is taken away before its lookup, for good, keeps the action undone.  The *)
(* lookups are apart, so no more can be said of the three together.         *)
THEOREM EachNeedStops == Spec => WithdrawnNotDone
<1> SUFFICES ASSUME NEW f \in Frames, NEW need \in Needs(f)
             PROVE  Spec => [](Ahead(f, need) /\ []~Given(f, need) => [](f \notin applied))
  BY DEF WithdrawnNotDone
<1>1. TypeOK /\ ActionsInv /\ Ahead(f, need) => KeptUndone(f, need)
  BY AheadUndone
<1>2. /\ TypeOK /\ ActionsInv /\ KeptUndone(f, need) /\ ~Given(f, need)
      /\ [Next]_vars
      => KeptUndone(f, need)'
  BY KeptUndoneStep
<1>3. KeptUndone(f, need) => f \notin applied
  BY DEF KeptUndone
<1> QED BY <1>1, <1>2, <1>3, ActionsInvariant, PTL DEF Spec
=============================================================================
