-------------------------- MODULE TransactionSender --------------------------
(***************************************************************************)
(* Sending from synchronous code: websocket_send, PubSubChannel.           *)
(* sync_publish, internal_send and websocket_send_error, the               *)
(* TransactionSender that holds messages back until the commit and batches *)
(* them, and the on_commit hooks of Django's connection they hang on.      *)
(* One database connection, hence one thread: no step is interleaved.      *)
(*                                                                         *)
(* A message stands for a SenderUtil, i.e. one message to one channel.     *)
(***************************************************************************)
EXTENDS Naturals, Sequences, SequencesExt

CONSTANTS
    Messages,       \* what the application sends, each at most once
    Util,           \* Util[m]: the SenderUtil websocket_send or sync_publish
                    \* makes, with what it says of its message
    NoPayload,      \* the payload of a message without one
    Factory,        \* ENVELOPE_BATCH_MESSAGE: "batch", or "batch2"
    MaxUsed,        \* messages sent in a behaviour (a bound)
    MaxSavepoints,  \* savepoints of a transaction (a bound)
    SendMayFail     \* the channel layer may raise

(* Names, channels and states are sequences of the parts they are written  *)
(* in; no state is the empty one, and a state, a letter of MessageStates,  *)
(* is not the name of an envelope.  Messages of one name are of one class. *)
ASSUME SenderAssumption ==
    /\ DOMAIN Util = Messages
    /\ \A m \in Messages :
           /\ {"name", "channel", "envelope", "state", "group", "allow_batch",
               "payload"} = DOMAIN Util[m]
           /\ Util[m].group \in BOOLEAN /\ Util[m].allow_batch \in BOOLEAN
           /\ {Util[m].name, Util[m].channel, Util[m].state} \subseteq Seq(STRING)
           /\ Util[m].envelope \in STRING
           /\ Len(Util[m].state) <= 1
           /\ \A n \in Messages : Util[n].envelope \notin ToSet(Util[m].state)
    /\ \A m, n \in Messages :
           Util[m].name = Util[n].name => Util[m].allow_batch = Util[n].allow_batch
    /\ Factory \in {"batch", "batch2"}
    /\ {MaxUsed, MaxSavepoints} \subseteq Nat
    /\ SendMayFail \in BOOLEAN

VARIABLES
    inBlock,      \* connection.in_atomic_block
    savepoints,   \* connection.savepoint_ids
    created,      \* savepoints created in this transaction
    hooks,        \* connection.run_on_commit
    sent,         \* what the channel layer was given, in order
    scope,        \* scope[m]: savepoints m was sent under, for the messages
                  \* that were sent and whose transaction is open
    used,         \* messages the application has sent
    undone,       \* messages sent under something that was rolled back since
    lost          \* messages given up when the channel layer raised

vars == <<inBlock, savepoints, created, hooks, sent, scope, used, undone, lost>>

Hook == [sids : SUBSET (1 .. MaxSavepoints), kind : {"sender", "internal"},
         data : Seq(Messages)]

TypeOK ==
    /\ inBlock \in BOOLEAN
    /\ savepoints \in Seq(1 .. MaxSavepoints)
    /\ created \in 0 .. MaxSavepoints
    /\ hooks \in Seq(Hook)
    /\ sent \in Seq(Seq(Messages))
    /\ scope \in [Messages -> SUBSET (1 .. MaxSavepoints)]
    /\ used \subseteq Messages
    /\ undone \subseteq used
    /\ lost \subseteq used

Init ==
    /\ inBlock = FALSE
    /\ savepoints = << >>
    /\ created = 0
    /\ hooks = << >>
    /\ sent = << >>
    /\ scope = [m \in Messages |-> {}]
    /\ used = {}
    /\ undone = {}
    /\ lost = {}

-----------------------------------------------------------------------------
(* The elements of seq that are in some, in their order: SelectSeq, which  *)
(* TLC knows but the prover does not, by what it selects.                  *)
Only(seq, some) ==
    LET upTo[n \in 0 .. Len(seq)] ==
            IF n = 0 THEN << >>
            ELSE IF seq[n] \in some THEN Append(upTo[n - 1], seq[n]) ELSE upTo[n - 1]
    IN  upTo[Len(seq)]

Name(m)    == Util[m].name
Payload(m) == Util[m].payload

(* SenderUtil.group_key writes everything "that makes message groupable"   *)
(* one after the other, with nothing in between.                           *)
GroupKey ==
    [m \in Messages |->
        LET u == Util[m] IN
        u.name \o u.channel \o <<u.envelope>> \o u.state \o <<IF u.group THEN "1" ELSE "0">>]

Batchable(m) == Util[m].envelope = "ws_outgoing" /\ Util[m].allow_batch

(* TransactionSender.batch_messages: messages are regrouped by key in the  *)
(* order the keys first occur; a group of three or more becomes one batch  *)
(* when its messages allow it, any other group stays single messages.      *)
Leads(data, m) ==
    \A i, j \in DOMAIN data : data[j] = m /\ GroupKey[data[i]] = GroupKey[m] => j <= i

WithKeyOf(m) == {n \in Messages : GroupKey[n] = GroupKey[m]}

(* A mistake: the last message comes first.                                *)
SameKeyReversed(data, m) == Reverse(Only(data, WithKeyOf(m)))

SameKey(data, m) == Only(data, WithKeyOf(m))

(* A mistake: what is batched is sent by itself as well.                   *)
UnitsTwice(items) ==
    [i \in 1 .. Len(items) |-> <<items[i]>>]
    \o (IF Len(items) < 3 \/ ~Batchable(items[1]) THEN << >> ELSE <<items>>)

Units(items) ==
    IF Len(items) < 3 \/ ~Batchable(items[1])
    THEN [i \in 1 .. Len(items) |-> <<items[i]>>]
    ELSE <<items>>

(* A mistake: only the first group of messages is returned.                *)
BatchMessagesOfFirstKey(data) == Units(SameKey(data, data[1]))

BatchMessages(data) ==
    LET leaders == Only(data, {m \in ToSet(data) : Leads(data, m)})
    IN  FlattenSeq([i \in 1 .. Len(leaders) |-> Units(SameKey(data, leaders[i]))])

(* A mistake: the callables of internal messages do nothing.               *)
TransmissionsOfSenders(hook) ==
    IF hook.kind = "sender" THEN BatchMessages(hook.data) ELSE << >>

(* The contents of a batch, by message.  Batch is a list of payloads; Batch2 *)
(* names the fields of the first message once and lists values.            *)
BatchStart(m) == <<Payload(m)>>
BatchAppend(batch, m) == Append(batch, Payload(m))

Keys(m) == IF Payload(m) = NoPayload THEN << >> ELSE SetToSeq(DOMAIN Payload(m))
Row(keys, m) == IF Payload(m) = NoPayload THEN NoPayload
                ELSE [i \in DOMAIN keys |-> Payload(m)[keys[i]]]

(* A payload has finitely many fields, and a list of values is not None.   *)
ASSUME PayloadAssumption ==
    \A m \in Messages : Payload(m) # NoPayload =>
        /\ IsFiniteSet(DOMAIN Payload(m))
        /\ Payload(m) = [f \in DOMAIN Payload(m) |-> Payload(m)[f]]
        /\ Row(Keys(m), m) # NoPayload

Batch2Start(m) == [keys |-> Keys(m), values |-> <<Row(Keys(m), m)>>]

(* A mistake: a field too many is left out, without a word.                *)
Batch2TakesMore(batch, m) ==
    Payload(m) # NoPayload => ToSet(batch.keys) \subseteq DOMAIN Payload(m)

(* Batch2 takes no message with a field too many, or too few.              *)
Batch2Takes(batch, m) ==
    Payload(m) # NoPayload => DOMAIN Payload(m) = ToSet(batch.keys)

Batch2Append(batch, m) == [batch EXCEPT !.values = Append(@, Row(batch.keys, m))]

BatchOf(items)  == FoldLeft(BatchAppend, BatchStart(Head(items)), Tail(items))
Batch2Of(items) == FoldLeft(Batch2Append, Batch2Start(Head(items)), Tail(items))

(* A mistake: append does not look at what it is given.                    *)
RefusedNever(items) == FALSE

(* append raises for a message of another name that has the key, and       *)
(* Batch2's for one with other fields.                                     *)
Appendable(first, m) ==
    /\ Name(m) = Name(first)
    /\ Factory = "batch2" => Batch2Takes(Batch2Start(first), m)

Refused(items) ==
    /\ Len(items) >= 3 /\ Batchable(items[1])
    /\ \E i \in DOMAIN items : ~Appendable(items[1], items[i])

(* batch_messages then raises, before anything of the sender is sent.      *)
Breaks(hook) ==
    hook.kind = "sender" /\ \E m \in ToSet(hook.data) : Refused(SameKey(hook.data, m))

(* What one on_commit callable gives to the channel layer.                 *)
Transmissions(hook) ==
    IF hook.kind = "sender" THEN BatchMessages(hook.data)
    ELSE [i \in 1 .. Len(hook.data) |-> <<hook.data[i]>>]

-----------------------------------------------------------------------------
(* Django's transactions *)

Begin ==
    /\ ~inBlock
    /\ inBlock' = TRUE
    /\ created' = 0
    /\ UNCHANGED <<savepoints, hooks, sent, scope, used, undone, lost>>

(* A mistake: savepoints are numbered from zero.                           *)
SavepointFromZero ==
    /\ inBlock
    /\ created < MaxSavepoints
    /\ created' = created + 1
    /\ savepoints' = Append(savepoints, created)
    /\ UNCHANGED <<inBlock, hooks, sent, scope, used, undone, lost>>

Savepoint ==
    /\ inBlock
    /\ created < MaxSavepoints
    /\ created' = created + 1
    /\ savepoints' = Append(savepoints, created')
    /\ UNCHANGED <<inBlock, hooks, sent, scope, used, undone, lost>>

Release ==
    /\ savepoints # << >>
    /\ savepoints' = Front(savepoints)
    /\ UNCHANGED <<inBlock, created, hooks, sent, scope, used, undone, lost>>

(* savepoint_rollback forgets the callables registered under the savepoint. *)
RollbackSavepoint ==
    /\ savepoints # << >>
    /\ LET sid == Last(savepoints) IN
           /\ hooks' = Only(hooks, {h \in ToSet(hooks) : sid \notin h.sids})
           /\ undone' = undone \cup {m \in used : sid \in scope[m]}
    /\ savepoints' = Front(savepoints)
    /\ UNCHANGED <<inBlock, created, sent, scope, used, lost>>

Held(some) == UNION {ToSet(some[i].data) : i \in DOMAIN some}
Waiting == Held(hooks)

(* The outermost block ends well: the callables run in order; when one, or *)
(* the channel layer, raises, the rest is lost.                            *)
Commit ==
    /\ inBlock
    /\ savepoints = << >>
    /\ LET good == Max({n \in 0 .. Len(hooks) : \A i \in 1 .. n : ~Breaks(hooks[i])})
           all  == FlattenSeq([i \in 1 .. good |-> Transmissions(hooks[i])])
       IN  \E n \in 0 .. Len(all) :
               /\ n < Len(all) => SendMayFail
               /\ sent' = sent \o SubSeq(all, 1, n)
               /\ lost' = lost \cup Held(SubSeq(hooks, good + 1, Len(hooks)))
                               \cup UNION {ToSet(all[i]) : i \in n + 1 .. Len(all)}
    /\ inBlock' = FALSE
    /\ hooks' = << >>
    /\ scope' = [m \in Messages |-> {}]
    /\ created' = 0
    /\ UNCHANGED <<savepoints, used, undone>>

(* It ends with an exception: nothing is run.                              *)
Rollback ==
    /\ inBlock
    /\ savepoints = << >>
    /\ inBlock' = FALSE
    /\ hooks' = << >>
    /\ undone' = undone \cup Waiting
    /\ scope' = [m \in Messages |-> {}]
    /\ created' = 0
    /\ UNCHANGED <<savepoints, sent, used, lost>>

-----------------------------------------------------------------------------
(* The application sends *)

Use(m) ==
    /\ Cardinality(used) < MaxUsed
    /\ m \notin used
    /\ used' = used \cup {m}
    /\ scope' = [scope EXCEPT ![m] = ToSet(savepoints)]
    /\ UNCHANGED <<inBlock, savepoints, created, undone, lost>>

(* on_commit=False, no transaction, or an error: straight to the layer.    *)
SendAtOnce(m) ==
    /\ Cardinality(used) < MaxUsed
    /\ m \notin used
    /\ used' = used \cup {m}
    /\ sent' = Append(sent, <<m>>)
    /\ UNCHANGED <<inBlock, savepoints, created, hooks, scope, undone, lost>>

(* websocket_send, or sync_publish with whatever envelope the channel has. *)
(* get_or_create_txn_sender: the TransactionSender that is registered, by  *)
(* whichever block registered it, or else a new one for this block.        *)
WebsocketSend(m) ==
    /\ inBlock
    /\ Use(m)
    /\ IF \E i \in DOMAIN hooks : hooks[i].kind = "sender"
       THEN hooks' = [i \in DOMAIN hooks |->
                         IF hooks[i].kind = "sender"
                         THEN [hooks[i] EXCEPT !.data = Append(@, m)] ELSE hooks[i]]
       ELSE hooks' = Append(hooks, [sids |-> ToSet(savepoints), kind |-> "sender",
                                    data |-> <<m>>])
    /\ UNCHANGED sent

(* A mistake: one callable is shared, as the sender of websocket messages. *)
InternalSendShared(m) ==
    /\ inBlock
    /\ Util[m].envelope = "internal"
    /\ Use(m)
    /\ IF \E i \in DOMAIN hooks : hooks[i].kind = "internal"
       THEN hooks' = [i \in DOMAIN hooks |->
                         IF hooks[i].kind = "internal"
                         THEN [hooks[i] EXCEPT !.data = Append(@, m)] ELSE hooks[i]]
       ELSE hooks' = Append(hooks, [sids |-> ToSet(savepoints), kind |-> "internal",
                                    data |-> <<m>>])
    /\ UNCHANGED sent

(* internal_send makes the internal SenderUtil, and registers every message *)
(* with the connection itself.                                             *)
InternalSend(m) ==
    /\ inBlock
    /\ Util[m].envelope = "internal"
    /\ Use(m)
    /\ hooks' = Append(hooks, [sids |-> ToSet(savepoints), kind |-> "internal",
                               data |-> <<m>>])
    /\ UNCHANGED sent

Next ==
    \/ Begin \/ Savepoint \/ Release \/ RollbackSavepoint \/ Commit \/ Rollback
    \/ \E m \in Messages : SendAtOnce(m) \/ WebsocketSend(m) \/ InternalSend(m)

Spec == Init /\ [][Next]_vars

-----------------------------------------------------------------------------
(* What holds *)

Out == UNION {ToSet(sent[i]) : i \in DOMAIN sent}

(* A message leaves at most once, and not while it still waits.            *)
SentOnce ==
    /\ \A i, j \in DOMAIN sent : i # j => ToSet(sent[i]) \cap ToSet(sent[j]) = {}
    /\ Out \cap Waiting = {}

(* No message is forgotten, however savepoints nest, are released and are  *)
(* rolled back around it: what the application sent and did not undo waits *)
(* or has left, and when no transaction is open nothing waits.             *)
NothingForgotten ==
    /\ used \ (undone \cup lost) \subseteq Out \cup Waiting
    /\ ~inBlock => Waiting = {}

(* Messages with the same key, i.e. of one kind to one channel, leave in   *)
(* the order they were added, batched or not.                              *)
FlatSent == FlattenSeq(sent)
KeyOrderKept ==
    [][ \A m, n \in Messages :
            /\ GroupKey[m] = GroupKey[n]
            /\ \E h \in ToSet(hooks) : /\ h.kind = "sender"
                                       /\ \E i, j \in DOMAIN h.data :
                                             i < j /\ h.data[i] = m /\ h.data[j] = n
            => \A i, j \in DOMAIN FlatSent' :
                   FlatSent'[i] = m /\ FlatSent'[j] = n => i < j ]_vars

(* A client can take a batch apart: one name, state, envelope and receiver *)
(* stand for all of its messages, even if keys that are written without    *)
(* separators collide; each of them allows it, and there are three or more. *)
Addressed(m) == [f \in {"name", "channel", "group", "envelope", "state"} |-> Util[m][f]]
BatchesSound ==
    \A i \in DOMAIN sent : Len(sent[i]) > 1 =>
        /\ Len(sent[i]) >= 3
        /\ \A m \in ToSet(sent[i]) : Addressed(m) = Addressed(sent[i][1]) /\ Batchable(m)

(* A batch tells the client, row by row, the payloads of the messages it   *)
(* stands for, those of a class whose messages have different fields       *)
(* included: Batch lists them, Batch2 their values by the first one's keys. *)
Read2(batch) ==
    [i \in DOMAIN batch.values |->
        IF batch.values[i] = NoPayload THEN NoPayload
        ELSE [f \in ToSet(batch.keys) |->
                 batch.values[i][CHOOSE k \in DOMAIN batch.keys : batch.keys[k] = f]]]
BatchesReadable ==
    \A i \in DOMAIN sent : Len(sent[i]) > 1 =>
        LET payloads == [j \in DOMAIN sent[i] |-> Payload(sent[i][j])] IN
        /\ Factory = "batch"  => BatchOf(sent[i]) = payloads
        /\ Factory = "batch2" => Read2(Batch2Of(sent[i])) = payloads

(* An internal message leaves only if nothing it was sent under was rolled *)
(* back.                                                                   *)
InternalKept ==
    \A i \in DOMAIN hooks : hooks[i].kind = "internal" =>
        ToSet(hooks[i].data) \cap undone = {}

(* Whatever is nested, rolled back and batched, each message goes the way  *)
(* Outbox states: it waits, then leaves, is dropped by a rollback or is    *)
(* lost when the layer, or a batch of messages unlike each other, raises.  *)
Unlike == \E m, n \in Messages : GroupKey[m] = GroupKey[n] /\ ~Appendable(m, n)
AsOutbox == INSTANCE Outbox WITH open <- inBlock, pending <- Waiting, out <- Out,
                                 gone <- lost, MayFail <- SendMayFail \/ Unlike
OutboxSpec == AsOutbox!Spec

-----------------------------------------------------------------------------
(* What the documentation says, and the code does not do *)

(* README.md: messages wait for the commit "to avoid sending messages for  *)
(* things that may not happen".                                            *)
UndoneNotSent == undone \cap Out = {}
=============================================================================
