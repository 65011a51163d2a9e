------------------------- MODULE MCConnectionStatus -------------------------
(* Small instances of ConnectionStatus: which queue a job goes to, and who  *)
(* listens to it.                                                           *)
EXTENDS ConnectionStatus

CONSTANT Default

(* One queue for every job, as in the project's own settings.               *)
OneQueue == [k \in Kinds |-> Default]

EveryQueue == [w \in Workers |-> Queues]
=============================================================================
