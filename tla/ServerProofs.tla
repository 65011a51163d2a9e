---------------------------- MODULE ServerProofs ----------------------------
(***************************************************************************)
(* Theorems about Server: it does nothing that ContextActions does not,    *)
(* and what the parts promise each other holds, for all settings,          *)
(* registries, scopes and frames.                                          *)
(***************************************************************************)
EXTENDS Server, ContextActionsProofs, SequenceFacts

-----------------------------------------------------------------------------
(* Server implements ContextActions *)

(* Every step of Server is one of ContextActions, or leaves it alone.      *)
LEMMA ServerStep == [ServerNext]_serverVars => [Next]_vars
<1> SUFFICES ASSUME [ServerNext]_serverVars
             PROVE  [Next]_vars
  OBVIOUS
<1>1. CASE Load \/ (\E scope \in Scopes : Negotiate(scope)) \/ Connect
  BY <1>1 DEF Load, Negotiate, Connect
<1>2. CASE \/ ConnectMisses \/ ServeClose
           \/ \E f \in Frames : \E m \in Names[f] : ReceiveMisses(f, m)
  BY <1>2 DEF ConnectMisses, ServeClose, ReceiveMisses, Miss, Next
<1>3. ASSUME NEW f \in Frames,
             \/ ServeGarbage(f)
             \/ \E m \in Names[f] : ServeInvalid(f, m) \/ ServePing(f, m) \/ ServeCommand(f, m)
      PROVE  Next
  BY <1>3 DEF ServeGarbage, ServeInvalid, ServePing, ServeCommand, Next
<1>4. ASSUME NEW w \in Workers, ServeTake(w) \/ ServeRun(w) \/ ServeFailure(w)
      PROVE  Next
  BY <1>4 DEF ServeTake, ServeRun, ServeFailure, Next, RunJob
<1>5. CASE Elsewhere
  BY <1>5 DEF Elsewhere, Next
<1>6. CASE UNCHANGED serverVars
  BY <1>6 DEF serverVars
<1> QED BY <1>1, <1>2, <1>3, <1>4, <1>5, <1>6 DEF ServerNext

(* Whatever ContextActionsProofs proves of ContextActions holds in Server. *)
THEOREM ServerActs == ServerSpec => Spec
<1>1. ServerInit => Init
  BY DEF ServerInit
<1> QED BY <1>1, ServerStep, PTL DEF ServerSpec, Spec

-----------------------------------------------------------------------------
(* What was checked is found *)

(* The checks still hold of what was there, and only a process that passed *)
(* them gets as far as a connection.                                       *)
LookupInv ==
    /\ ChecksSuffice
    /\ LookupsSucceed
    /\ language # None \/ asked # None => phase = "serving"

(* A step outside the process leaves what was found alone.                 *)
LEMMA LookupKept ==
    ASSUME LookupInv, UNCHANGED process,
           missed' \subseteq unchecked,
           phase = "serving" \/ UNCHANGED <<language, asked>>
    PROVE  LookupInv'
BY DEF LookupInv, process, ChecksSuffice, Checked, QueueFound, LayerFound, Named, LookupsSucceed

(* No queue that the settings name is absent.                              *)
LEMMA NamedPresent ==
    ASSUME ChecksSuffice, phase = "serving"
    PROVE  Absent({settings.connections}) = {} /\ Absent({settings.timestamp}) = {}
BY DEF ChecksSuffice, Named, Absent

LEMMA LookupLoad ==
    ASSUME LookupInv, Load
    PROVE  LookupInv'
<1>1. UNCHANGED <<language, asked, missed, settings>>
  BY DEF Load, StartupNext, Ready, Add
<1>2. ASSUME Ready
      PROVE  /\ ChecksSuffice' /\ unchecked' = unchecked
             /\ phase = "loading"
  BY <1>2 DEF Ready, QueuesProper, LayersProper, ChecksSuffice, Checked, QueueFound,
              LayerFound, Named
<1>3. ASSUME NEW x \in Items, Add(x)
      PROVE  /\ ChecksSuffice' /\ unchecked \subseteq unchecked'
             /\ phase' = phase
  BY <1>3 DEF LookupInv, Add, ChecksSuffice, Checked, QueueFound, LayerFound, Named
<1> QED BY <1>1, <1>2, <1>3 DEF Load, StartupNext, LookupInv, LookupsSucceed

LEMMA LookupStep == LookupInv /\ [ServerNext]_serverVars => LookupInv'
<1> SUFFICES ASSUME LookupInv, [ServerNext]_serverVars
             PROVE  LookupInv'
  OBVIOUS
<1> USE ServerAssumption
<1>1. CASE Load
  BY <1>1, LookupLoad
<1>2. CASE ConnectMisses
  <2>1. phase = "serving" /\ ChecksSuffice
    BY <1>2 DEF ConnectMisses, LookupInv
  <2>2. AtConnect \subseteq unchecked
    BY <2>1, NamedPresent DEF AtConnect, ChecksSuffice, Checked
  <2>3. missed' = missed \cup AtConnect /\ UNCHANGED process
    BY <1>2 DEF ConnectMisses, Miss
  <2> QED BY <2>1, <2>2, <2>3, LookupKept DEF LookupInv, LookupsSucceed
<1>3. ASSUME NEW f \in Frames, NEW m \in Names[f], ReceiveMisses(f, m)
      PROVE  LookupInv'
  <2>1. phase = "serving" /\ ChecksSuffice /\ m \in registered /\ m \in Messages
    BY <1>3 DEF ReceiveMisses, Serving, LookupInv
  <2>2. AtReceive(m) \subseteq unchecked
    BY <2>1, NamedPresent DEF AtReceive, ChecksSuffice, Checked
  <2>3. missed' = missed \cup AtReceive(m) /\ UNCHANGED process
    BY <1>3 DEF ReceiveMisses, Miss
  <2> QED BY <2>1, <2>2, <2>3, LookupKept DEF LookupInv, LookupsSucceed
<1>4. ASSUME \/ \E scope \in Scopes : Negotiate(scope)
             \/ Connect
      PROVE  LookupInv'
  <2>1. phase = "serving" /\ UNCHANGED <<process, missed>>
    BY <1>4 DEF Negotiate, Connect, LookupInv
  <2> QED BY <2>1, LookupKept DEF LookupInv, LookupsSucceed
<1>5. ASSUME \/ \E f \in Frames : \/ ServeGarbage(f)
                                 \/ \E m \in Names[f] : \/ ServeInvalid(f, m) \/ ServePing(f, m)
                                                        \/ ServeCommand(f, m)
             \/ ServeClose
             \/ \E w \in Workers : ServeTake(w) \/ ServeRun(w) \/ ServeFailure(w)
             \/ Elsewhere
             \/ UNCHANGED serverVars
      PROVE  LookupInv'
  <2>1. UNCHANGED <<process, missed, language, asked>>
    BY <1>5 DEF ServeGarbage, ServeInvalid, ServePing, ServeCommand, ServeClose, ServeTake,
                ServeRun, ServeFailure, Elsewhere, Keep, serverVars
  <2> QED BY <2>1, LookupKept DEF LookupInv, LookupsSucceed
<1> QED BY <1>1, <1>2, <1>3, <1>4, <1>5 DEF ServerNext

(* Whenever something is looked up and not found, it was registered after  *)
(* ready() made its checks.                                                *)
THEOREM LookupsCorrect == ServerSpec => []LookupsSucceed
<1>1. ServerInit => LookupInv
  BY DEF ServerInit, StartupInit, LookupInv, ChecksSuffice, LookupsSucceed
<1>2. LookupInv => LookupsSucceed
  BY DEF LookupInv
<1> QED BY <1>1, <1>2, LookupStep, PTL DEF ServerSpec

-----------------------------------------------------------------------------
(* Jobs speak the language of their frame *)

(* The language a message asks for, if it or its connection has one.       *)
Wanted(f) == IF LanguageOf[f] # None THEN LanguageOf[f] ELSE language

(* Nothing is queued before the language of the connection is final.       *)
LanguageInv ==
    /\ language = None \/ asked # None =>
           queue = << >> /\ \A w \in Workers : job[w] = None
    /\ DOMAIN speaks = Workers
    /\ SpeaksLanguage

LEMMA MetaSpeaks ==
    ASSUME NEW f
    PROVE  Meta(f).language = Wanted(f)
BY DEF Meta, Unpacked, ValueOf, consumer, Wanted

(* What a worker's step but the first does to the jobs.                    *)
LEMMA WorkerStep ==
    ASSUME TypeOK, NEW w \in Workers, ServeRun(w) \/ ServeFailure(w)
    PROVE  /\ UNCHANGED <<queue, language, asked, speaks>>
           /\ \A v \in Workers : job'[v] \in {None, job[v]}
<1>1. UNCHANGED <<queue, language, asked, speaks>> /\ (job' = job \/ Finish(w))
  BY DEF ServeRun, ServeFailure, Keep, FindUser, FindContext, NotFound, Unauthorized, Authorized,
         Act, UpdateStatus, GiveUp, GiveUpUnregistered, Reply, Commit, CommitUnsent, JobRaises, HorseKilled, Caught
<1>2. ASSUME Finish(w), NEW v \in Workers
      PROVE  job'[v] \in {None, job[v]}
  BY <1>2, FinishEffect
<1> QED BY <1>1, <1>2

LEMMA LanguageStep == TypeOK /\ LanguageInv /\ [ServerNext]_serverVars => LanguageInv'
<1> SUFFICES ASSUME TypeOK, LanguageInv, [ServerNext]_serverVars
             PROVE  LanguageInv'
  OBVIOUS
<1>1. ASSUME UNCHANGED <<queue, language, speaks>>, asked' = asked \/ asked' = None,
             \A v \in Workers : job'[v] \in {None, job[v]}
      PROVE  LanguageInv'
  BY <1>1 DEF LanguageInv, SpeaksLanguage
<1>2. ASSUME NEW scope \in Scopes, Negotiate(scope)
      PROVE  LanguageInv'
  BY <1>2 DEF Negotiate, vars, worker, LanguageInv, SpeaksLanguage
<1>3. ASSUME NEW f \in Frames, NEW m \in Names[f], ServeCommand(f, m)
      PROVE  LanguageInv'
  <2>1. UNCHANGED <<job, language, asked, speaks>> /\ language # None /\ asked = None
    BY <1>3 DEF ServeCommand, Serving, Keep, ReceiveCommand, Receive, worker
  <2> QED BY <2>1 DEF LanguageInv, SpeaksLanguage
<1>4. ASSUME NEW w \in Workers, ServeTake(w)
      PROVE  LanguageInv'
  <2> DEFINE f == Head(queue)
  <2>1. /\ language # None /\ asked = None
        /\ UNCHANGED <<language, asked>>
    BY <1>4 DEF ServeTake, TakeJob, LanguageInv
  <2>2. Activated(w, Meta(f)) = Wanted(f)
    BY <2>1, MetaSpeaks DEF Activated, Wanted
  <2>3. /\ job' = [job EXCEPT ![w] = f]
        /\ speaks' = [speaks EXCEPT ![w] = Wanted(f)]
    BY <1>4, <2>2 DEF ServeTake, TakeJob
  <2>4. /\ DOMAIN speaks' = Workers
        /\ job'[w] = f /\ speaks'[w] = Wanted(f)
        /\ \A v \in Workers \ {w} : job'[v] = job[v] /\ speaks'[v] = speaks[v]
    BY <2>3 DEF TypeOK, LanguageInv
  <2> QED BY <2>1, <2>4 DEF LanguageInv, SpeaksLanguage, Wanted
<1>5. ASSUME NEW w \in Workers, ServeRun(w) \/ ServeFailure(w)
      PROVE  LanguageInv'
  BY <1>5, <1>1, WorkerStep
<1>6. CASE \/ Load \/ Connect \/ ConnectMisses
           \/ \E f \in Frames : \/ ServeGarbage(f)
                               \/ \E m \in Names[f] : \/ ReceiveMisses(f, m) \/ ServeInvalid(f, m)
                                                      \/ ServePing(f, m)
           \/ ServeClose \/ Elsewhere \/ UNCHANGED serverVars
  <2>1. UNCHANGED <<queue, job, language, speaks>> /\ (asked' = asked \/ asked' = None)
    BY <1>6 DEF Load, Connect, ConnectMisses, ServeGarbage, ReceiveMisses, ServeInvalid, ServePing,
                ServeClose, Elsewhere, Miss, Keep, Close, ReceiveGarbage, ReceiveInvalid,
                ReceivePing, Receive, DeleteUser, DeleteContext, ChangePermission, serverVars,
                vars, worker
  <2> QED BY <2>1, <1>1
<1> QED BY <1>2, <1>3, <1>4, <1>5, <1>6 DEF ServerNext

(* A job runs in the language of its frame or else of its connection,      *)
(* whatever the worker ran before.                                         *)
THEOREM LanguageSpoken == ServerSpec => []SpeaksLanguage
<1>1. ServerInit => LanguageInv
  BY DEF ServerInit, Init, LanguageInv, SpeaksLanguage
<1>2. LanguageInv => SpeaksLanguage
  BY DEF LanguageInv
<1> QED BY <1>1, <1>2, LanguageStep, ServerActs, ActionsTypeCorrect, PTL DEF ServerSpec

-----------------------------------------------------------------------------
(* Type correctness *)

(* A lookup that fails ends the connection, which nothing opens again.     *)
MissedEnds == missed # {} => ~open

LEMMA StartupKept ==
    ASSUME StartupTypeOK, Load
    PROVE  StartupTypeOK'
<1> USE ServerAssumption
<1>1. ASSUME Ready
      PROVE  StartupTypeOK'
  BY <1>1 DEF Ready, StartupTypeOK, StartupParameters
<1>2. ASSUME NEW x \in Items, Add(x)
      PROVE  StartupTypeOK'
  BY <1>2 DEF Add, StartupTypeOK
<1> QED BY <1>1, <1>2 DEF Load, StartupNext

LEMMA OpenStep == MissedEnds /\ [ServerNext]_serverVars => MissedEnds'
<1> SUFFICES ASSUME MissedEnds, [ServerNext]_serverVars
             PROVE  MissedEnds'
  OBVIOUS
<1>1. ASSUME \/ ConnectMisses
             \/ \E f \in Frames : \E m \in Names[f] : ReceiveMisses(f, m)
      PROVE  open' = FALSE
  BY <1>1 DEF ConnectMisses, ReceiveMisses, Miss, Close
<1>2. ASSUME \/ \E w \in Workers : ServeRun(w) \/ ServeFailure(w)
      PROVE  missed' = missed /\ (open' = open \/ open' = FALSE)
  BY <1>2 DEF ServeRun, ServeFailure, Keep, FindUser, FindContext, NotFound, Unauthorized, Authorized,
         Act, UpdateStatus, GiveUp, GiveUpUnregistered, Reply, Commit, CommitUnsent, JobRaises, HorseKilled, Caught,
         client
<1>3. ASSUME \/ Load \/ Connect
             \/ \E scope \in Scopes : Negotiate(scope)
             \/ \E f \in Frames : \/ ServeGarbage(f)
                                  \/ \E m \in Names[f] : \/ ServeInvalid(f, m) \/ ServePing(f, m)
                                                         \/ ServeCommand(f, m)
             \/ ServeClose \/ Elsewhere \/ UNCHANGED serverVars
             \/ \E w \in Workers : ServeTake(w)
      PROVE  missed' = missed /\ (open' = open \/ open' = FALSE)
  BY <1>3 DEF Load, Connect, Negotiate, ServeGarbage, ServeInvalid, ServePing, ServeCommand,
              ServeClose, Elsewhere, Keep, Close, ReceiveGarbage, ReceiveInvalid,
              ReceivePing, ReceiveCommand, Receive, DeleteUser, DeleteContext, ChangePermission,
              ServeTake, TakeJob, serverVars, vars, client
<1> QED BY <1>1, <1>2, <1>3 DEF ServerNext, MissedEnds

(* What is on the wire is in one of the two envelopes a client gets.       *)
WireKnown == \A p \in wire : p.envelope \in {"ws_outgoing", "errors"}

LEMMA WireStep == WireKnown /\ [ServerNext]_serverVars => WireKnown'
<1> SUFFICES ASSUME WireKnown, [ServerNext]_serverVars
             PROVE  WireKnown'
  OBVIOUS
<1>1. ASSUME NEW envelope \in {"ws_outgoing", "errors"}, NEW mm, Put(envelope, mm)
      PROVE  WireKnown'
  BY <1>1 DEF Put, WireKnown
<1>2. ASSUME UNCHANGED wire
      PROVE  WireKnown'
  BY <1>2 DEF WireKnown
<1>3. ASSUME NEW f \in Frames,
             \/ ServeGarbage(f)
             \/ \E m \in Names[f] : ServeInvalid(f, m) \/ ServePing(f, m)
      PROVE  WireKnown'
  BY <1>3, <1>1 DEF ServeGarbage, ServeInvalid, ServePing
<1>4. ASSUME NEW w \in Workers, ServeRun(w) \/ ServeFailure(w)
      PROVE  WireKnown'
  BY <1>4, <1>1, <1>2 DEF ServeRun, ServeFailure
<1>5. ASSUME \/ Load \/ Connect \/ ConnectMisses
             \/ \E scope \in Scopes : Negotiate(scope)
             \/ \E f \in Frames : \E m \in Names[f] : ReceiveMisses(f, m) \/ ServeCommand(f, m)
             \/ ServeClose \/ Elsewhere \/ UNCHANGED serverVars
             \/ \E w \in Workers : ServeTake(w)
      PROVE  WireKnown'
  BY <1>5, <1>2 DEF Load, Connect, ConnectMisses, Negotiate, ReceiveMisses, Miss, ServeCommand,
                    ServeClose, Elsewhere, ServeTake, serverVars
<1> QED BY <1>3, <1>4, <1>5 DEF ServerNext

LEMMA ServerTypeStep ==
    StartupTypeOK /\ asked \in Scopes \cup {None} /\ [ServerNext]_serverVars
        => (StartupTypeOK /\ asked \in Scopes \cup {None})'
<1> SUFFICES ASSUME StartupTypeOK, asked \in Scopes \cup {None}, [ServerNext]_serverVars
             PROVE  (StartupTypeOK /\ asked \in Scopes \cup {None})'
  OBVIOUS
<1>1. CASE Load
  BY <1>1, StartupKept DEF Load
<1>2. CASE \E scope \in Scopes : Negotiate(scope)
  BY <1>2 DEF Negotiate, process, StartupTypeOK
<1>3. CASE \/ Connect \/ ConnectMisses
           \/ \E f \in Frames : \/ ServeGarbage(f)
                                \/ \E m \in Names[f] : \/ ReceiveMisses(f, m) \/ ServeInvalid(f, m)
                                                       \/ ServePing(f, m) \/ ServeCommand(f, m)
           \/ ServeClose \/ Elsewhere \/ UNCHANGED serverVars
           \/ \E w \in Workers : ServeTake(w) \/ ServeRun(w) \/ ServeFailure(w)
  <2>1. UNCHANGED process /\ (asked' = asked \/ asked' = None)
    BY <1>3 DEF Connect, ConnectMisses, Miss, ServeGarbage, ReceiveMisses, ServeInvalid, ServePing,
                ServeCommand, ServeClose, Elsewhere, ServeTake, ServeRun, ServeFailure, Keep,
                serverVars
  <2> QED BY <2>1 DEF process, StartupTypeOK
<1> QED BY <1>1, <1>2, <1>3 DEF ServerNext

(* A client is served by a process that passed its checks, no job is there *)
(* before its connection is accepted, and a lookup that failed ended it.   *)
THEOREM ServerTypeCorrect == ServerSpec => []ServerTypeOK
<1> DEFINE Parts == StartupTypeOK /\ asked \in Scopes \cup {None}
<1>1. ServerInit => Parts /\ LookupInv /\ LanguageInv /\ MissedEnds /\ WireKnown
  BY DEF ServerInit, StartupInit, Init, StartupTypeOK, LookupInv, ChecksSuffice, LookupsSucceed,
         LanguageInv, SpeaksLanguage, MissedEnds, WireKnown
<1>2. Parts /\ LookupInv /\ LanguageInv /\ MissedEnds /\ WireKnown => ServerTypeOK
  BY DEF LookupInv, LanguageInv, MissedEnds, WireKnown, ServerTypeOK
<1>3. Parts /\ [ServerNext]_serverVars => Parts'
  BY ServerTypeStep
<1> QED BY <1>1, <1>2, <1>3, LookupStep, LanguageStep, OpenStep, WireStep, ServerActs,
           ActionsTypeCorrect, PTL DEF ServerSpec

-----------------------------------------------------------------------------
(* What the client gets names its frame *)

(* What a message, or an error, looks like when it is packed.              *)
LEMMA PackedForm ==
    ASSUME NEW mm
    PROVE  /\ Packed("errors", mm) = [i |-> mm.id, s |-> "f"]
           /\ Packed("ws_outgoing", mm) = [i |-> mm.id, s |-> mm.state]
<1>1. Keys("errors") = {"i", "s"} /\ Keys("ws_outgoing") = {"i", "s"}
  BY DEF Keys
<1>2. Packed("errors", mm) = [k \in {"i", "s"} |-> IF k = "i" THEN mm.id ELSE "f"]
  BY <1>1 DEF Packed
<1>3. Packed("ws_outgoing", mm) = [k \in {"i", "s"} |-> IF k = "i" THEN mm.id ELSE mm.state]
  BY <1>1 DEF Packed
<1> QED BY <1>2, <1>3

(* The trace id of whatever is made of a frame's message.                  *)
LEMMA MetaNames ==
    ASSUME NEW f, NEW w, job[w] = f
    PROVE  /\ Meta(f).id = f
           /\ \A s : FromMessage(Meta(f), s).id = f /\ FromMessage(Meta(f), s).state = s
           /\ \A s : f # None => Completed(w, FromMessage(Meta(f), s)).id = f
           /\ Completed(w, NoMeta).id = f
           /\ [Unread EXCEPT !.id = f].id = f
BY DEF Meta, Unpacked, FromMessage, Completed, Addressed, NoMeta, Unread, ValueOf

(* Telling a client something adds it to what it was told of that frame.   *)
LEMMA ToldGrows ==
    ASSUME TypeOK, NEW f \in Frames, NEW answer \in Answers, Tell(f, answer), NEW g \in Frames
    PROVE  Told(g)' = Told(g) \cup (IF g = f /\ open THEN {answer} ELSE {})
<1>1. CASE g # f \/ ~open
  <2>1. told'[g] = told[g]
    BY <1>1, TellEffect
  <2> QED BY <1>1, <2>1 DEF Told
<1>2. CASE g = f /\ open
  <2>1. told'[f] = Append(told[f], answer) /\ told[f] \in Seq(Answers)
    BY <1>2, TellEffect DEF TypeOK
  <2>2. /\ DOMAIN told'[f] = DOMAIN told[f] \cup {Len(told[f]) + 1}
        /\ told'[f][Len(told[f]) + 1] = answer
        /\ \A i \in DOMAIN told[f] : told'[f][i] = told[f][i]
    BY <2>1
  <2> QED BY <1>2, <2>2 DEF Told
<1> QED BY <1>1, <1>2

(* What is told under a frame's trace id keeps the trace.                  *)
LEMMA PutTraced ==
    ASSUME TypeOK, TraceKept, NEW f \in Frames, NEW answer \in Answers, Tell(f, answer),
           NEW envelope, NEW mm, Put(envelope, mm), mm.id = f,
           IF answer = "success" THEN envelope = "ws_outgoing" /\ mm.state = "s"
                                 ELSE envelope = "errors",
           stray \subseteq stray'
    PROVE  TraceKept'
<1> DEFINE packet == [envelope |-> envelope,
                      packed   |-> [i |-> f, s |-> IF answer = "success" THEN "s" ELSE "f"]]
<1>1. wire' = IF open THEN wire \cup {packet} ELSE wire
  BY PackedForm DEF Put
<1>2. ASSUME NEW g \in Frames
      PROVE  /\ "success" \in Told(g)' <=> "success" \in Told(g) \/ (g = f /\ open /\ answer = "success")
             /\ Told(g)' \ {"success"} # {} <=>
                    Told(g) \ {"success"} # {} \/ (g = f /\ open /\ answer # "success")
  <2>1. Told(g)' = Told(g) \cup (IF g = f /\ open THEN {answer} ELSE {})
    BY ToldGrows
  <2> QED BY <2>1
<1>3. ASSUME NEW g \in Frames
      PROVE  /\ OnWire("ws_outgoing", g, "s")' <=>
                    OnWire("ws_outgoing", g, "s") \/ (g = f /\ open /\ answer = "success")
             /\ OnWire("errors", g, "f")' <=>
                    OnWire("errors", g, "f") \/ (g = f /\ open /\ answer # "success")
  <2>1. /\ [envelope |-> "ws_outgoing", packed |-> [i |-> g, s |-> "s"]] = packet
               <=> g = f /\ answer = "success"
        /\ [envelope |-> "errors", packed |-> [i |-> g, s |-> "f"]] = packet
               <=> g = f /\ answer # "success"
    OBVIOUS
  <2> QED BY <1>1, <2>1 DEF OnWire
<1>4. ASSUME NEW p \in wire'
      PROVE  p.packed.i \in Frames \/ (p.packed.i = None /\ stray' # {})
  <2>1. packet.packed.i = f
    OBVIOUS
  <2> QED BY <1>1, <2>1 DEF TraceKept
<1>5. \A g \in Frames : /\ "success" \in Told(g)' <=> OnWire("ws_outgoing", g, "s")'
                        /\ Told(g)' \ {"success"} # {} <=> OnWire("errors", g, "f")'
  BY <1>2, <1>3 DEF TraceKept
<1> QED BY <1>4, <1>5 DEF TraceKept

(* Nothing is told, nothing is put on the wire.                            *)
LEMMA QuietTraced ==
    ASSUME TraceKept, UNCHANGED <<told, wire>>, stray \subseteq stray'
    PROVE  TraceKept'
BY DEF TraceKept, Told, OnWire

LEMMA GarbageTraced ==
    ASSUME TypeOK, TraceKept, NEW f \in Frames, ServeGarbage(f)
    PROVE  TraceKept'
<1> DEFINE packet == [envelope |-> "errors", packed |-> [i |-> None, s |-> "f"]]
<1>1. told' = told /\ stray' = stray \cup {f} /\ open
  BY DEF ServeGarbage, ReceiveGarbage, Receive
<1>2. Unread.id = None
  BY DEF Unread, NoMeta
<1>3. wire' = wire \cup {packet}
  BY <1>1, <1>2, PackedForm DEF ServeGarbage, Put
<1>4. \A g \in Frames : /\ OnWire("ws_outgoing", g, "s")' <=> OnWire("ws_outgoing", g, "s")
                        /\ OnWire("errors", g, "f")' <=> OnWire("errors", g, "f")
  <2>1. ASSUME NEW g \in Frames
        PROVE  /\ [envelope |-> "ws_outgoing", packed |-> [i |-> g, s |-> "s"]] # packet
               /\ [envelope |-> "errors", packed |-> [i |-> g, s |-> "f"]] # packet
    BY ActionsAssumption
  <2> QED BY <1>3, <2>1 DEF OnWire
<1>5. \A p \in wire' : p.packed.i \in Frames \/ (p.packed.i = None /\ stray' # {})
  <2>1. packet.packed.i = None
    OBVIOUS
  <2> QED BY <1>1, <1>3, <2>1 DEF TraceKept
<1> QED BY <1>1, <1>4, <1>5 DEF TraceKept, Told

LEMMA ReceiveTraced ==
    ASSUME TypeOK, TraceKept, NEW f \in Frames, NEW m \in Names[f],
           ServeInvalid(f, m) \/ ServePing(f, m)
    PROVE  TraceKept'
<1>1. /\ [Unread EXCEPT !.id = f].id = f
      /\ FromMessage(Meta(f), "s").id = f /\ FromMessage(Meta(f), "s").state = "s"
  BY DEF Meta, Unpacked, FromMessage, NoMeta, Unread, ValueOf
<1>2. CASE ServeInvalid(f, m)
  <2>1. PICK answer \in {"type", "validation"} : Tell(f, answer)
    BY <1>2 DEF ServeInvalid, ReceiveInvalid
  <2>2. stray' = stray /\ Put("errors", [Unread EXCEPT !.id = f])
    BY <1>2 DEF ServeInvalid, ReceiveInvalid
  <2> QED BY <1>1, <2>1, <2>2, PutTraced DEF Answers
<1>3. CASE ServePing(f, m)
  <2>1. Tell(f, "success") /\ stray' = stray /\ Put("ws_outgoing", FromMessage(Meta(f), "s"))
    BY <1>3 DEF ServePing, ReceivePing
  <2> QED BY <1>1, <2>1, PutTraced DEF Answers
<1> QED BY <1>2, <1>3

LEMMA WorkerTraced ==
    ASSUME TypeOK, TraceKept, NEW w \in Workers, ServeRun(w) \/ ServeFailure(w)
    PROVE  TraceKept'
<1> DEFINE f == job[w]
<1>1. pc[w] # "idle" /\ f \in Frames
  BY BusyHasFrame DEF ServeRun, ServeFailure, FindUser, FindContext, NotFound, Unauthorized, Denied,
     Authorized, Act, UpdateStatus, GiveUp, GiveUpUnregistered, InAction, Reply, Commit, CommitUnsent, JobRaises, HorseKilled, At
<1>2. /\ Meta(f).id = f
      /\ FromMessage(Meta(f), "s").id = f /\ FromMessage(Meta(f), "s").state = "s"
      /\ Completed(w, FromMessage(Meta(f), None)).id = f
      /\ Completed(w, NoMeta).id = f
  BY <1>1, MetaNames, ActionsAssumption
<1>3. ASSUME NotFound(w) \/ Unauthorized(w) \/ GiveUp(w)
      PROVE  \E answer \in Answers \ {"success"} : Tell(f, answer) /\ stray' = stray
  BY <1>1, <1>3, CaughtEffect DEF NotFound, Unauthorized, GiveUp, Answers
<1>4. ASSUME NotFound(w) \/ Unauthorized(w) \/ GiveUp(w), NEW mm, mm.id = f, Put("errors", mm)
      PROVE  TraceKept'
  <2>1. PICK answer \in Answers \ {"success"} : Tell(f, answer) /\ stray' = stray
    BY <1>3, <1>4
  <2> QED BY <1>1, <1>4, <2>1, PutTraced
<1>5. ASSUME Reply(w) \/ Commit(w), Put("ws_outgoing", FromMessage(Meta(f), "s"))
      PROVE  TraceKept'
  <2>1. Tell(f, "success") /\ stray' = stray
    BY <1>5 DEF Reply, Commit, history
  <2> QED BY <1>1, <1>2, <1>5, <2>1, PutTraced DEF Answers
<1>6. ASSUME \/ FindUser(w) \/ FindContext(w) \/ Authorized(w) \/ Act(w) \/ UpdateStatus(w)
             \/ GiveUpUnregistered(w),
             UNCHANGED wire
      PROVE  TraceKept'
  BY <1>6, QuietTraced DEF FindUser, FindContext, Authorized, Act, UpdateStatus, GiveUpUnregistered, history
<1>7. CASE ServeFailure(w)
  <2>1. stray' = stray /\ (told' = told \/ Tell(f, "job"))
    BY <1>7 DEF ServeFailure, CommitUnsent, JobRaises, HorseKilled
  <2>2. CASE told' = told
    BY <1>7, <2>1, <2>2, QuietTraced DEF ServeFailure
  <2>3. CASE told' # told
    <3>1. Tell(f, "job") /\ Put("errors", Meta(f))
      BY <1>7, <2>1, <2>3 DEF ServeFailure
    <3> QED BY <1>1, <1>2, <2>1, <3>1, PutTraced DEF Answers
  <2> QED BY <2>2, <2>3
<1>8. CASE ServeRun(w)
  <2>1. \/ /\ NotFound(w) \/ Unauthorized(w)
           /\ Put("errors", Completed(w, FromMessage(Meta(f), None)))
        \/ GiveUp(w) /\ Put("errors", Completed(w, NoMeta))
        \/ (Reply(w) \/ Commit(w)) /\ Put("ws_outgoing", FromMessage(Meta(f), "s"))
        \/ /\ \/ FindUser(w) \/ FindContext(w) \/ Authorized(w) \/ Act(w) \/ UpdateStatus(w)
              \/ GiveUpUnregistered(w)
           /\ UNCHANGED wire
    BY <1>8 DEF ServeRun
  <2> QED BY <1>2, <1>4, <1>5, <1>6, <2>1
<1> QED BY <1>7, <1>8

LEMMA TraceStep == TypeOK /\ TraceKept /\ [ServerNext]_serverVars => TraceKept'
<1> SUFFICES ASSUME TypeOK, TraceKept, [ServerNext]_serverVars
             PROVE  TraceKept'
  OBVIOUS
<1>1. ASSUME \/ Load \/ (\E scope \in Scopes : Negotiate(scope)) \/ Connect \/ ConnectMisses
             \/ \E f \in Frames : \E m \in Names[f] : ReceiveMisses(f, m) \/ ServeCommand(f, m)
             \/ ServeClose
             \/ \E w \in Workers : ServeTake(w)
             \/ Elsewhere
             \/ UNCHANGED serverVars
      PROVE  TraceKept'
  <2>1. UNCHANGED <<told, wire, stray>>
    BY <1>1 DEF Load, Negotiate, Connect, ConnectMisses, ReceiveMisses, ServeCommand, ServeClose,
                ServeTake, Elsewhere, Miss, Close, ReceiveCommand, TakeJob, DeleteUser,
                DeleteContext, ChangePermission, serverVars, vars, history
  <2> QED BY <2>1, QuietTraced
<1> QED BY <1>1, GarbageTraced, ReceiveTraced, WorkerTraced DEF ServerNext

(* Whatever comes of a frame reaches the client under the frame's trace    *)
(* id, in the envelope and with the state it should have.                  *)
THEOREM TracesKept == ServerSpec => []TraceKept
<1>1. ServerInit => TraceKept
  <2>1. \A f \in Frames : << >> = told[f] => Told(f) = {}
    BY DEF Told
  <2> QED BY <2>1 DEF ServerInit, Init, TraceKept, OnWire
<1> QED BY <1>1, TraceStep, ServerActs, ActionsTypeCorrect, PTL DEF ServerSpec

-----------------------------------------------------------------------------
(* The language of a connection *)

(* What the first n entries of a header come to.                           *)
Finds(found, accept, n) ==
    \/ /\ found = None
       /\ \A i \in 1 .. n : accept[i] # "*" /\ ~Counts(accept, i)
    \/ /\ found = "*"
       /\ \A i \in 1 .. n : ~Counts(accept, i)
       /\ \E i \in 1 .. n : accept[i] = "*"
    \/ /\ found \notin {None, "*"}
       /\ \E i \in 1 .. n : /\ Counts(accept, i) /\ found = Variant[accept[i]]
                            /\ \A j \in 1 .. i - 1 : ~Counts(accept, j)

LEMMA TriedFinds ==
    ASSUME LanguageParameters, NEW accept \in Seq(DOMAIN Variant), NEW n \in 1 .. Len(accept),
           NEW found, Finds(found, accept, n - 1)
    PROVE  Finds(Tried(found, accept[n]), accept, n)
<1> DEFINE code == accept[n]
<1>1. /\ n \in Nat /\ code \in DOMAIN Variant /\ n \in 1 .. n
      /\ \A i \in 1 .. n : i \in 1 .. n - 1 \/ i = n
      /\ \A i \in 1 .. n - 1 : i \in 1 .. n
  OBVIOUS
<1>2. None # "*" /\ Variant[code] # "*"
  BY <1>1 DEF LanguageParameters
<1>3. CASE found = None
  <2>1. \A i \in 1 .. n - 1 : accept[i] # "*" /\ ~Counts(accept, i)
    BY <1>2, <1>3 DEF Finds
  <2>2. CASE code = "*"
    <3>1. ~Counts(accept, n) /\ Tried(found, code) = "*"
      BY <1>1, <1>3, <2>2 DEF Counts, Tried
    <3> HIDE DEF code
    <3> QED BY <1>1, <2>1, <2>2, <3>1 DEF Finds, code
  <2>3. CASE code # "*" /\ code \in WellFormed /\ Variant[code] # None
    <3>1. Counts(accept, n)
      BY <1>1, <2>1, <2>3 DEF Counts
    <3>2. Tried(found, code) = Variant[code]
      BY <1>3, <2>3 DEF Tried
    <3> QED BY <1>1, <1>2, <2>1, <2>3, <3>1, <3>2 DEF Finds
  <2>4. CASE code # "*" /\ ~(code \in WellFormed /\ Variant[code] # None)
    <3>1. ~Counts(accept, n)
      BY <2>4 DEF Counts
    <3>2. Tried(found, code) = None
      BY <1>3, <2>4 DEF Tried
    <3> QED BY <1>1, <2>1, <2>4, <3>1, <3>2 DEF Finds
  <2> QED BY <2>2, <2>3, <2>4
<1>4. CASE found # None
  <2>1. Tried(found, code) = found
    BY <1>4 DEF Tried
  <2>2. CASE found = "*"
    <3>1. (\A i \in 1 .. n - 1 : ~Counts(accept, i)) /\ \E i \in 1 .. n - 1 : accept[i] = "*"
      BY <1>2, <2>2 DEF Finds
    <3>2. ~Counts(accept, n)
      BY <1>1, <3>1 DEF Counts
    <3> QED BY <1>1, <2>1, <2>2, <3>1, <3>2 DEF Finds
  <2>3. CASE found # "*"
    <3>1. PICK i \in 1 .. n - 1 : /\ Counts(accept, i) /\ found = Variant[accept[i]]
                                  /\ \A j \in 1 .. i - 1 : ~Counts(accept, j)
      BY <1>4, <2>3 DEF Finds
    <3>2. i \in 1 .. n
      BY <1>1
    <3> QED BY <1>4, <2>1, <2>3, <3>1, <3>2 DEF Finds
  <2> QED BY <2>2, <2>3
<1> QED BY <1>3, <1>4

(* The loop over the header, as FoldLeft.                                  *)
TriedOver(f, accept) ==
    [s \in SUBSET DOMAIN accept |->
        IF s = {} THEN None ELSE LET x == Max(s) IN Tried(f[s \ {x}], accept[x])]

LEMMA HeaderFinds ==
    ASSUME LanguageParameters, NEW accept \in Seq(DOMAIN Variant)
    PROVE  Finds(FoldLeft(Tried, None, accept), accept, Len(accept))
<1> DEFINE N == Len(accept)
           V == {None, "*"} \cup {Variant[code] : code \in DOMAIN Variant}
           step == [p \in V \X (1 .. N) |-> Tried(p[1], accept[p[2]])]
<1>1. N \in Nat /\ DOMAIN accept = 1 .. N /\ \A n \in 1 .. N : accept[n] \in DOMAIN Variant
  OBVIOUS
<1>2. \A p \in V \X (1 .. N) : Tried(p[1], accept[p[2]]) \in V
  BY <1>1 DEF Tried
<1>3. step \in Steps(N, V) /\ None \in V
  <2> HIDE DEF V, N
  <2> None \in V
    BY DEF V
  <2> QED BY <1>2 DEF Steps
<1>4. PICK g : Folds(g, N, V, None, step)
  <2> HIDE DEF V, N, step
  <2> QED BY <1>1, <1>3, FoldDefined
<1>5. g = TriedOver(g, accept)
  <2>0. \A s \in SUBSET (1 .. N) : s # {} => Max(s) \in 1 .. N /\ s \ {Max(s)} \in SUBSET (1 .. N)
    <3>1. \A s \in SUBSET (1 .. N) : s \in SUBSET (0 .. N)
      BY <1>1
    <3>2. \A s \in SUBSET (1 .. N) : s # {} => Max(s) \in s
      <4> HIDE DEF N
      <4> QED BY <1>1, <3>1, MaxOfNumbers
    <3> HIDE DEF N
    <3> QED BY <3>2
  <2>1. /\ g \in [SUBSET (1 .. N) -> V]
        /\ \A s \in SUBSET (1 .. N) :
               g[s] = IF s = {} THEN None ELSE step[<<g[s \ {Max(s)}], Max(s)>>]
    <3> HIDE DEF step, V, N
    <3> QED BY <1>4 DEF Folds
  <2>2. \A s \in SUBSET (1 .. N) : s # {} =>
            step[<<g[s \ {Max(s)}], Max(s)>>] = Tried(g[s \ {Max(s)}], accept[Max(s)])
    <3>1. \A v \in V : \A n \in 1 .. N : step[<<v, n>>] = Tried(v, accept[n])
      <4> HIDE DEF V, N
      <4> QED OBVIOUS
    <3> HIDE DEF V, N, step
    <3> QED BY <2>0, <2>1, <3>1
  <2> HIDE DEF V, N, step
  <2> QED BY <1>1, <2>1, <2>2 DEF TriedOver
<1> DEFINE h == CHOOSE f : f = TriedOver(f, accept)
<1>6. h = TriedOver(h, accept)
  BY <1>5
<1>7. FoldLeft(Tried, None, accept) = h[1 .. N]
  BY <1>1 DEF FoldLeft, MapThenFoldSet, TriedOver
<1> HIDE DEF h
<1>8. h[1 .. 0] = None /\ \A n \in 1 .. N : h[1 .. n] = Tried(h[1 .. n - 1], accept[n])
  <2>1. \A s \in SUBSET (1 .. N) :
            h[s] = IF s = {} THEN None ELSE Tried(h[s \ {Max(s)}], accept[Max(s)])
    BY <1>1, <1>6 DEF TriedOver
  <2>2. 1 .. 0 = {}
    OBVIOUS
  <2>3. ASSUME NEW n \in 1 .. N
        PROVE  h[1 .. n] = Tried(h[1 .. n - 1], accept[n])
    <3>1. n \in Nat /\ n # 0 /\ 1 .. n \in SUBSET (1 .. N)
      BY <1>1
    <3>2. Max(1 .. n) = n /\ (1 .. n) \ {n} = 1 .. (n - 1) /\ 1 .. n # {}
      BY <3>1, Segment
    <3> QED BY <2>1, <3>1, <3>2
  <2> QED BY <2>1, <2>2, <2>3
<1> DEFINE right == {n \in 0 .. N : Finds(h[1 .. n], accept, n)}
<1>9. 0 \in right
  <2>1. Finds(None, accept, 0)
    <3>1. 1 .. 0 = {}
      OBVIOUS
    <3> QED BY <3>1 DEF Finds
  <2> QED BY <1>1, <1>8, <2>1
<1>10. ASSUME NEW n \in 1 .. N, n - 1 \in right
       PROVE  n \in right
  <2>1. Finds(Tried(h[1 .. n - 1], accept[n]), accept, n)
    BY <1>10, TriedFinds
  <2> QED BY <1>8, <2>1
<1>11. 0 .. N \subseteq right
  <2> HIDE DEF right, N
  <2> QED BY <1>1, <1>9, <1>10, FromOneBefore
<1> QED BY <1>1, <1>7, <1>11

LEMMA LanguagePromised ==
    ASSUME LanguageParameters, NEW scope, scope.accept \in Seq(DOMAIN Variant)
    PROVE  Promised(scope, Language(scope))
<1> DEFINE accept == scope.accept
           found == FoldLeft(Tried, None, accept)
<1>1. Finds(found, accept, Len(accept)) /\ DOMAIN accept = 1 .. Len(accept)
  BY HeaderFinds
<1>2. CASE scope.cookie \in Offered
  BY <1>2 DEF Language, Promised
<1>3. CASE scope.cookie \notin Offered /\ Variant[scope.cookie] # None
  BY <1>3 DEF Language, Promised
<1>4. CASE scope.cookie \notin Offered /\ Variant[scope.cookie] = None
  <2>1. Language(scope) = IF found \notin {None, "*"} THEN found
                          ELSE IF Variant[Default] # None THEN Variant[Default] ELSE Default
    BY <1>4 DEF Language
  <2> HIDE DEF found
  <2>2. CASE found \notin {None, "*"}
    <3>1. \E i \in DOMAIN accept : /\ Counts(accept, i) /\ found = Variant[accept[i]]
                                  /\ \A j \in 1 .. i - 1 : ~Counts(accept, j)
      BY <1>1, <2>2 DEF Finds
    <3> QED BY <1>4, <2>1, <2>2, <3>1 DEF Promised
  <2>3. CASE found \in {None, "*"}
    <3>1. \A i \in DOMAIN accept : ~Counts(accept, i)
      BY <1>1, <2>3 DEF Finds
    <3> QED BY <1>4, <2>1, <2>3, <3>1 DEF Promised
  <2> QED BY <2>2, <2>3
<1> QED BY <1>2, <1>3, <1>4

(* Only Negotiate sets the language, and while the scope it was negotiated *)
(* from is remembered nothing else does.                                   *)
LEMMA NegotiatedStep == LanguageNegotiated /\ [ServerNext]_serverVars => LanguageNegotiated'
<1> SUFFICES ASSUME LanguageNegotiated, [ServerNext]_serverVars
             PROVE  LanguageNegotiated'
  OBVIOUS
<1>1. ASSUME NEW scope \in Scopes, Negotiate(scope)
      PROVE  LanguageNegotiated'
  <2>1. LanguageParameters /\ scope.accept \in Seq(DOMAIN Variant)
    BY ServerAssumption
  <2>2. Promised(scope, Language(scope))
    BY <2>1, LanguagePromised
  <2> QED BY <1>1, <2>2 DEF Negotiate, LanguageNegotiated
<1>2. CASE Connect \/ ConnectMisses
  <2>1. asked' = None
    BY <1>2 DEF Connect, ConnectMisses
  <2> QED BY <2>1 DEF LanguageNegotiated
<1>3. CASE UNCHANGED <<language, asked>>
  BY <1>3 DEF LanguageNegotiated
<1>4. CASE Load \/ ServeClose \/ Elsewhere \/ UNCHANGED serverVars
  BY <1>3, <1>4 DEF Load, ServeClose, Elsewhere, Keep, serverVars
<1>5. ASSUME NEW f \in Frames,
             \/ ServeGarbage(f)
             \/ \E m \in Names[f] : \/ ReceiveMisses(f, m) \/ ServeInvalid(f, m)
                                   \/ ServePing(f, m) \/ ServeCommand(f, m)
      PROVE  LanguageNegotiated'
  BY <1>3, <1>5 DEF ServeGarbage, ReceiveMisses, Miss, ServeInvalid, ServePing, ServeCommand, Keep
<1>6. ASSUME NEW w \in Workers, ServeTake(w) \/ ServeRun(w) \/ ServeFailure(w)
      PROVE  LanguageNegotiated'
  BY <1>3, <1>6 DEF ServeTake, ServeRun, ServeFailure, Keep
<1> QED BY <1>1, <1>2, <1>4, <1>5, <1>6 DEF ServerNext

(* A connection has the language get_language's docstring promises, for    *)
(* every scope, whatever its header lists and however long it is: the      *)
(* cookie, else the first entry before a wildcard that is offered in some  *)
(* variant, else the default.                                              *)
THEOREM LanguageIsNegotiated == ServerSpec => []LanguageNegotiated
<1>1. ServerInit => LanguageNegotiated
  BY DEF ServerInit, LanguageNegotiated
<1> QED BY <1>1, NegotiatedStep, PTL DEF ServerSpec

=============================================================================
