--------------------------- MODULE RequestReplies ---------------------------
(***************************************************************************)
(* What a client may rely on when it sends a deferred command: the life of *)
(* one trace id ("i").  The client is first told that the command is       *)
(* queued, then at most once how it went, and a job error is the last word *)
(* about the command, whatever was said before.  A command whose job is    *)
(* lost (time to live, killed work horse, closed connection) is simply     *)
(* never answered again.                                                   *)
(***************************************************************************)
EXTENDS Sequences

CONSTANT Requests

VARIABLE answers    \* answers[r]: the states the client was told, in order

Conversation ==
    { << >>,
      <<"queued">>,
      <<"queued", "success">>,
      <<"queued", "failed">>,
      <<"queued", "success", "failed">> }

Init == answers = [r \in Requests |-> << >>]

Acknowledge(r) ==
    /\ answers[r] = << >>
    /\ answers' = [answers EXCEPT ![r] = <<"queued">>]

Succeed(r) ==
    /\ answers[r] = <<"queued">>
    /\ answers' = [answers EXCEPT ![r] = <<"queued", "success">>]

(* Before the answer, or after it: what runs once the answer is sent may   *)
(* still raise.                                                            *)
Fail(r) ==
    /\ \/ answers[r] = <<"queued">>
       \/ answers[r] = <<"queued", "success">>
    /\ answers' = [answers EXCEPT ![r] = Append(@, "failed")]

Next == \E r \in Requests : Acknowledge(r) \/ Succeed(r) \/ Fail(r)

Spec == Init /\ [][Next]_answers
=============================================================================
