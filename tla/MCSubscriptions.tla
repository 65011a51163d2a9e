--------------------------- MODULE MCSubscriptions ---------------------------
(* Small instances of Subscriptions: whose the connections are.             *)
EXTENDS Subscriptions, TLC

(* Every connection belongs to the same user.                               *)
OneOwner == [c \in Consumers |-> CHOOSE u \in Users : TRUE]

(* Channels that need a permission are all alike, so are those that do not, *)
(* and so are trace ids.                                                    *)
Alike == Permutations(Guarded) \cup Permutations(Public) \cup Permutations(Requests)
=============================================================================
