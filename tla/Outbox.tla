------------------------------- MODULE Outbox -------------------------------
(***************************************************************************)
(* What becomes of messages sent from a transaction: they wait for its     *)
(* commit and leave with it; a rollback, of the transaction or of a part   *)
(* of it, drops what it covers, and nothing else does.  When the layer     *)
(* raises, what the commit could not send is lost.                         *)
(***************************************************************************)
CONSTANTS Messages, MayFail

VARIABLES open,      \* a transaction is open
          pending,   \* messages waiting for its commit
          out,       \* messages that have left
          gone       \* messages the layer did not take

vars == <<open, pending, out, gone>>

Init == open = FALSE /\ pending = {} /\ out = {} /\ gone = {}

Begin == ~open /\ open' = TRUE /\ UNCHANGED <<pending, out, gone>>

Add(m) ==
    /\ open /\ m \notin pending \cup out
    /\ pending' = pending \cup {m}
    /\ UNCHANGED <<open, out, gone>>

SendNow(m) ==
    /\ m \notin pending \cup out
    /\ out' = out \cup {m}
    /\ UNCHANGED <<open, pending, gone>>

Commit ==
    /\ open /\ open' = FALSE
    /\ pending' = {}
    /\ \E refused \in SUBSET pending :
           /\ refused # {} => MayFail
           /\ out' = out \cup (pending \ refused)
           /\ gone' = gone \cup refused

Rollback ==
    /\ open /\ open' = FALSE
    /\ pending' = {}
    /\ UNCHANGED <<out, gone>>

RollbackPart ==
    /\ open
    /\ \E part \in SUBSET pending : pending' = pending \ part
    /\ UNCHANGED <<open, out, gone>>

Next ==
    \/ Begin \/ Commit \/ Rollback \/ RollbackPart
    \/ \E m \in Messages : Add(m) \/ SendNow(m)

Spec == Init /\ [][Next]_vars
=============================================================================
