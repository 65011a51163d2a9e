------------------------------ MODULE MCServer ------------------------------
(* A small instance of Server: the package's ping, one command of an        *)
(* application that comes with it and one that may be registered late and   *)
(* has a queue of its own; settings with and without that queue.            *)
EXTENDS Server

CONSTANTS f1, f2, none

MCMessages  == {"s.ping", "command", "late_command"}
MCEndpoints == {"ws_outgoing", "side_channel"}
MCCore      == {"s.ping", "command", "ws_outgoing"}
MCQueueOf   == [m \in MCMessages |->
    CASE m = "s.ping" -> none [] m = "command" -> "default" [] m = "late_command" -> "slow"]
MCLayerOf   == [x \in MCEndpoints |-> IF x = "side_channel" THEN "side" ELSE "default"]
MCNames     == [f \in {f1, f2} |-> {"s.ping", IF f = f1 THEN "command" ELSE "late_command"}]

With(queues, layers, connections, timestamp) ==
    [queues |-> queues, layers |-> layers, connections |-> connections, timestamp |-> timestamp]
MCSettings ==
    {With({"default", "slow"}, {"default", "side"}, "default", "default"),
     With({"default"}, {"default"}, none, none),
     With({"default", "slow"}, {"default"}, "default", "status")}

Codes == {"sv", "sv-se", "en", "xx", "*", "!"}
MCOffered    == {"sv", "en"}
MCWellFormed == Codes \ {"!", "*"}
MCVariant    == [c \in Codes \cup {none} |->
    CASE c \in MCOffered -> c [] c = "sv-se" -> "sv" [] OTHER -> none]
Headers  == UNION {[1 .. n -> Codes] : n \in 0 .. 3}
MCScopes == [cookie : {none, "sv", "sv-se", "xx"}, accept : Headers]
MCLanguageOf == [f \in {f1, f2} |-> IF f = f1 THEN "fr" ELSE none]
=============================================================================
