------------------------------ MODULE Startup ------------------------------
(***************************************************************************)
(* How a process that serves connections comes up: the applications add    *)
(* messages and channels to the registries, before the ready() of          *)
(* ChannelsEnvelopeConfig or after it, and ready() adds what comes with    *)
(* the package and checks what is there against the settings.              *)
(***************************************************************************)
CONSTANTS
    Messages,   \* message classes
    Endpoints,  \* channel classes and envelopes: they name a channel layer
    Core,       \* what ready() itself registers
    QueueOf,    \* QueueOf[m]: DeferredJob.queue, None for other messages
    LayerOf,    \* LayerOf[x]: the layer_name of an endpoint
    Settings,   \* the settings a project may have
    None        \* no queue, no setting

Items == Messages \cup Endpoints

(* What it takes for granted: an ASSUME of the module that instances this. *)
StartupParameters ==
    /\ Messages \cap Endpoints = {}
    /\ Core \subseteq Items
    /\ DOMAIN QueueOf = Messages
    /\ DOMAIN LayerOf = Endpoints
    /\ \A s \in Settings : None \notin s.queues

VARIABLES
    settings,    \* RQ_QUEUES, CHANNEL_LAYERS and the names of the two queues
    phase,       \* loading, serving or improper
    registered,  \* what is in the registries
    unchecked    \* what was put there after the checks

StartupTypeOK ==
    /\ settings \in Settings
    /\ phase \in {"loading", "serving", "improper"}
    /\ registered \subseteq Items
    /\ unchecked \subseteq registered
    /\ phase = "serving" => Core \subseteq registered

StartupInit ==
    /\ settings \in Settings
    /\ phase = "loading"
    /\ registered = {}
    /\ unchecked = {}

(* add_message, add_context_channel, add_pubsub_channel or add_envelopes:  *)
(* nothing is checked then.                                                *)
Add(x) ==
    /\ phase # "improper"
    /\ x \notin registered
    /\ registered' = registered \cup {x}
    /\ unchecked' = IF phase = "serving" THEN unchecked \cup {x} ELSE unchecked
    /\ UNCHANGED <<settings, phase>>

(* get_queue and get_channel_layer find what these name.                   *)
QueueFound(m) == QueueOf[m] = None \/ QueueOf[m] \in settings.queues
LayerFound(x) == LayerOf[x] \in settings.layers
Named == {settings.connections, settings.timestamp} \ {None}

(* check_rq_config and check_layer_config.                                 *)
QueuesProper(items) ==
    /\ \A m \in items \cap Messages : QueueFound(m)
    /\ Named \subseteq settings.queues
LayersProper(items) == \A x \in items \cap Endpoints : LayerFound(x)

(* A mistake: what the applications registered is not looked at.           *)
ReadyForCore ==
    /\ phase = "loading"
    /\ registered' = registered \cup Core
    /\ phase' = IF QueuesProper(Core) /\ LayersProper(Core) THEN "serving" ELSE "improper"
    /\ UNCHANGED <<settings, unchecked>>

(* ready(): channels, deferred jobs, envelopes and messages of the package *)
(* first, then the checks; ImproperlyConfigured ends the process.          *)
Ready ==
    /\ phase = "loading"
    /\ registered' = registered \cup Core
    /\ phase' = IF QueuesProper(registered') /\ LayersProper(registered')
                THEN "serving" ELSE "improper"
    /\ UNCHANGED <<settings, unchecked>>

(* What comes with the package is added by ready(), all else before it or  *)
(* after.                                                                  *)
StartupNext == Ready \/ \E x \in Items \ Core : Add(x)

(* What the checks are for: in a process that serves, whatever was there   *)
(* when they were made is found when it is needed, however much is added   *)
(* later.                                                                  *)
Checked == registered \ unchecked
ChecksSuffice ==
    phase = "serving" =>
        /\ \A m \in Checked \cap Messages : QueueFound(m)
        /\ \A x \in Checked \cap Endpoints : LayerFound(x)
        /\ Named \subseteq settings.queues
=============================================================================
