------------------------- MODULE MCTransactionSender -------------------------
(* Small instances of TransactionSender: progress messages that may be      *)
(* batched, some with a field that the others lack; a message of another    *)
(* name for another channel, which written together are the same; and       *)
(* messages with the internal envelope.                                     *)
EXTENDS TransactionSender

CONSTANTS Progress,    \* the progress messages
          Verbose,     \* those of them with one field more
          Lookalikes,  \* the messages whose key collides with theirs
          Asides       \* the messages of a channel with the internal envelope

Utils ==
    [m \in Messages |->
        [name        |-> IF m \in Lookalikes THEN <<"progress">> ELSE <<"progress", "num">>,
         channel     |-> IF m \in Lookalikes THEN <<"num", "user_1">> ELSE <<"user_1">>,
         envelope    |-> IF m \in Asides THEN "internal" ELSE "ws_outgoing",
         state       |-> IF m \in Asides THEN << >> ELSE <<"r">>,
         group       |-> TRUE,
         allow_batch |-> TRUE,
         payload     |-> IF m \in Lookalikes THEN NoPayload
                         ELSE IF m \in Verbose THEN [curr |-> m, total |-> 3, msg |-> m]
                         ELSE [curr |-> m, total |-> 3]]]

Alike == Permutations(Progress \ Verbose) \cup Permutations(Asides)
=============================================================================
