------------------------------- MODULE Server -------------------------------
(***************************************************************************)
(* The parts put together: a process comes up (Startup), a client connects *)
(* and gets a language (Languages), and what it sends is looked up in the  *)
(* registries, unpacked, queued, run by a worker and answered              *)
(* (ContextActions), in envelopes that carry a part of each message's meta *)
(* data (Envelopes).                                                       *)
(***************************************************************************)
EXTENDS ContextActions

CONSTANTS
    Messages, Endpoints, Core, QueueOf, LayerOf, Settings,  \* see Startup
    Offered, Variant, WellFormed, Default,                  \* see Languages
    Joined,      \* the channels whose applications join them when a client connects
    Names,       \* Names[f]: the messages a frame may name; if commands, of
                 \* the kind that Protected and Atomic say
    LanguageOf,  \* LanguageOf[f]: the language it names, or None
    Scopes       \* cookies and headers clients connect with

VARIABLES
    settings, phase, registered, unchecked,  \* see Startup
    language,   \* consumer.language, None before connect
    asked,      \* the scope, while connect has not accepted
    missed,     \* what the consumer looked up and did not find
    speaks,     \* speaks[w]: the language that is active in a worker
    wire        \* the envelopes the client got

INSTANCE Startup
INSTANCE Languages
INSTANCE Envelopes

ASSUME ServerAssumption ==
    /\ StartupParameters
    /\ LanguageParameters
    /\ \A scope \in Scopes : scope.accept \in Seq(DOMAIN Variant)
    /\ Joined \subseteq Endpoints
    /\ Names \in [Frames -> SUBSET Messages]
    /\ DOMAIN LanguageOf = Frames

process    == <<settings, phase, registered, unchecked>>
serverVars == <<vars, process, language, asked, missed, speaks, wire>>

(* The connection is one with a user, until DeleteUser.                    *)
ServerInit ==
    /\ Init /\ known = TRUE
    /\ StartupInit
    /\ language = None /\ asked = None
    /\ missed = {}
    /\ speaks = [w \in Workers |-> None]
    /\ wire = {}

(* A client is served by a process that passed its checks, until a lookup  *)
(* fails.                                                                  *)
ServerTypeOK ==
    /\ StartupTypeOK
    /\ language # None => phase = "serving"
    /\ asked \in Scopes \cup {None}
    /\ \A w \in Workers : job[w] # None => language # None /\ asked = None
    /\ missed # {} => ~open
    /\ DOMAIN speaks = Workers
    /\ \A p \in wire : p.envelope \in {"ws_outgoing", "errors"}

-----------------------------------------------------------------------------
(* The process *)

(* Applications may register as late as they like; once a client is there  *)
(* it makes no difference when.                                            *)
Load ==
    /\ language = None /\ open
    /\ StartupNext
    /\ UNCHANGED <<vars, language, asked, missed, speaks, wire>>

Absent(names) == names \ ({None} \cup settings.queues)

(* A mistake: the exception is lost, as with send_robust.                  *)
MissUnheeded(what) ==
    /\ what # {}
    /\ missed' = missed \cup what
    /\ UNCHANGED <<vars, process, language, speaks, wire>>

(* A lookup fails: the exception ends the consumer.                        *)
Miss(what) ==
    /\ what # {}
    /\ missed' = missed \cup what
    /\ Close
    /\ UNCHANGED <<process, language, speaks, wire>>

(* connect: the channels joined and the queue of the status jobs.          *)
AtConnect ==
    {x \in Joined \cap registered : ~LayerFound(x)} \cup Absent({settings.connections})

(* connect reads the scope first, and accepts when it knows the user.      *)
Negotiate(scope) ==
    /\ phase = "serving" /\ open
    /\ language = None
    /\ language' = Language(scope)
    /\ asked' = scope
    /\ UNCHANGED <<vars, process, missed, speaks, wire>>

Connect ==
    /\ asked # None
    /\ AtConnect = {}
    /\ asked' = None
    /\ UNCHANGED <<vars, process, language, missed, speaks, wire>>

ConnectMisses == asked # None /\ Miss(AtConnect) /\ asked' = None

-----------------------------------------------------------------------------
(* Meta data *)

consumer == [name |-> "consumer", user_pk |-> "user", language |-> language]

(* The meta data of the message in a frame, from unpack to the job.        *)
Meta(f) == Unpacked("ws_incoming", [i |-> f, l |-> LanguageOf[f]], consumer)

(* get_msg_meta() when there is nothing to take from the frame.            *)
Unread == [NoMeta EXCEPT !.consumer_name = consumer.name, !.user_pk = consumer.user_pk,
                         !.language = language]

(* What the client gets, if it is still there.                             *)
Put(envelope, mm) ==
    wire' = IF open
            THEN wire \cup {[envelope |-> envelope, packed |-> Packed(envelope, mm)]}
            ELSE wire

(* init_job completes an error that was made by hand.                      *)
Completed(w, mm) == [mm EXCEPT !.id = Addressed(w, @)]

-----------------------------------------------------------------------------
(* The consumer *)

Serving == language # None /\ asked = None

(* receive: the message class is looked up by unpack, then, if the message *)
(* is one, the queues of the status jobs and of the message.               *)
AtReceive(m) == Absent({settings.timestamp}) \cup (IF QueueFound(m) THEN {} ELSE {m})

ReceiveMisses(f, m) ==
    /\ Serving /\ f \notin used
    /\ m \in registered
    /\ Miss(AtReceive(m))
    /\ UNCHANGED asked

Keep == UNCHANGED <<process, language, asked, missed, speaks>>

ServeGarbage(f) == Serving /\ ReceiveGarbage(f) /\ Put("errors", Unread) /\ Keep

(* A type error exactly for what is not in the registry.                   *)
ServeInvalid(f, m) ==
    /\ Serving
    /\ ReceiveInvalid(f)
    /\ told'[f] = <<"type">> <=> m \notin registered
    /\ Put("errors", [Unread EXCEPT !.id = f])
    /\ Keep

Taken(m) == m \in registered /\ AtReceive(m) = {}

ServePing(f, m) ==
    /\ Serving
    /\ Taken(m) /\ QueueOf[m] = None
    /\ ReceivePing(f)
    /\ Put("ws_outgoing", FromMessage(Meta(f), "s"))
    /\ Keep

ServeCommand(f, m) ==
    /\ Serving
    /\ Taken(m) /\ QueueOf[m] # None
    /\ ReceiveCommand(f)
    /\ UNCHANGED wire
    /\ Keep

ServeClose == Serving /\ Close /\ UNCHANGED wire /\ Keep

-----------------------------------------------------------------------------
(* The workers *)

(* init_job activates the language of the message, if it has one: a worker *)
(* that does not fork keeps what the job before it spoke.                  *)
Activated(w, mm) == IF mm.language = None THEN speaks[w] ELSE mm.language

ServeTake(w) ==
    /\ TakeJob(w)
    /\ speaks' = [speaks EXCEPT ![w] = Activated(w, Meta(Head(queue)))]
    /\ UNCHANGED <<process, language, asked, missed, wire>>

ServeRun(w) ==
    /\ LET mm == Meta(job[w]) IN
       \/ /\ NotFound(w) \/ Unauthorized(w)
          /\ Put("errors", Completed(w, FromMessage(mm, None)))
       \/ /\ FindUser(w) \/ FindContext(w) \/ Authorized(w) \/ Act(w) \/ UpdateStatus(w)
          /\ UNCHANGED wire
       \/ GiveUp(w) /\ Put("errors", Completed(w, NoMeta))
       \/ GiveUpUnregistered(w) /\ UNCHANGED wire
       \/ (Reply(w) \/ Commit(w)) /\ Put("ws_outgoing", FromMessage(mm, "s"))
    /\ Keep

(* handle_failure takes the meta data from the job.                        *)
ServeFailure(w) ==
    /\ CommitUnsent(w) \/ JobRaises(w) \/ HorseKilled(w)
    /\ IF told' = told THEN UNCHANGED wire ELSE Put("errors", Meta(job[w]))
    /\ Keep

Elsewhere ==
    /\ Serving
    /\ DeleteUser \/ DeleteContext \/ ChangePermission
    /\ UNCHANGED wire
    /\ Keep

-----------------------------------------------------------------------------
ServerNext ==
    \/ Load \/ ConnectMisses \/ Connect
    \/ \E scope \in Scopes : Negotiate(scope)
    \/ \E f \in Frames : \/ ServeGarbage(f)
                         \/ \E m \in Names[f] : \/ ReceiveMisses(f, m) \/ ServeInvalid(f, m)
                                                \/ ServePing(f, m) \/ ServeCommand(f, m)
    \/ ServeClose
    \/ \E w \in Workers : ServeTake(w) \/ ServeRun(w) \/ ServeFailure(w)
    \/ Elsewhere

ServerSpec == ServerInit /\ [][ServerNext]_serverVars

(* The workers run.                                                        *)
FairServerSpec ==
    ServerSpec /\ \A w \in Workers : WF_serverVars(ServeTake(w) \/ ServeRun(w))

-----------------------------------------------------------------------------
(* What holds *)

(* What was registered when ready() made its checks is found whenever it   *)
(* is used, however much is registered later: no consumer ends because of  *)
(* a queue or a layer that the settings do not have.                       *)
LookupsSucceed == missed \subseteq unchecked

(* get_language's docstring, for whatever scope a client connects with.    *)
LanguageNegotiated == asked # None => Promised(asked, language)

(* A job runs in the language of its frame, if that names one, else in     *)
(* that of its connection; never in the one of the worker's last job.      *)
SpeaksLanguage ==
    \A w \in Workers : job[w] # None =>
        speaks[w] = IF LanguageOf[job[w]] # None THEN LanguageOf[job[w]] ELSE language

(* What is said of a frame in ContextActions reaches the client under the  *)
(* frame's trace id and with the state the envelope gives it: through      *)
(* unpack, the job, from_message or an error made by hand, and pack.       *)
OnWire(envelope, f, state) == [envelope |-> envelope, packed |-> [i |-> f, s |-> state]] \in wire
TraceKept ==
    /\ \A f \in Frames : /\ "success" \in Told(f) <=> OnWire("ws_outgoing", f, "s")
                         /\ Told(f) \ {"success"} # {} <=> OnWire("errors", f, "f")
    /\ \A p \in wire : p.packed.i \in Frames \/ (p.packed.i = None /\ stray # {})
=============================================================================
