----------------------------- MODULE Envelopes -----------------------------
(***************************************************************************)
(* What becomes of the meta data of a message: the part of it that each    *)
(* envelope carries, what unpack makes of that at the consumer it reaches, *)
(* and what from_message hands on.                                         *)
(***************************************************************************)
CONSTANT None

Envelopes == {"ws_incoming", "ws_outgoing", "internal", "errors"}

(* The keys of the schemas besides t and p: trace id, language and state.  *)
Keys(envelope) ==
    CASE envelope = "ws_incoming"             -> {"i", "l"}
      [] envelope \in {"ws_outgoing", "errors"} -> {"i", "s"}
      [] envelope = "internal"                -> {"i"}

(* MessageMeta of a message made without one.                              *)
NoMeta == [id |-> None, user_pk |-> None, consumer_name |-> None, language |-> None,
           state |-> None, env |-> None]

(* Envelope.pack: the schema keeps the keys it knows.  The state of an     *)
(* error is a constant.                                                    *)
Packed(envelope, mm) ==
    [k \in Keys(envelope) |->
        CASE k = "i" -> mm.id
          [] k = "l" -> mm.language
          [] k = "s" -> IF envelope = "errors" THEN "f" ELSE mm.state]

(* The value of a key, None when the envelope does not carry it.           *)
ValueOf(packed, k) == IF k \in DOMAIN packed THEN packed[k] ELSE None

(* A mistake: get_msg_meta sets the language as it sets the user.          *)
UnpackedForConsumer(envelope, packed, consumer) ==
    [id |-> packed.i, user_pk |-> consumer.user_pk, consumer_name |-> consumer.name,
     language |-> consumer.language, state |-> ValueOf(packed, "s"), env |-> envelope]

(* Envelope.unpack with get_msg_meta: who a message is from is what the    *)
(* consumer says, not what it was packed with; its language is the         *)
(* consumer's unless it names one.                                         *)
Unpacked(envelope, packed, consumer) ==
    [id            |-> packed.i,
     user_pk       |-> consumer.user_pk,
     consumer_name |-> consumer.name,
     language      |-> IF ValueOf(packed, "l") # None THEN packed.l ELSE consumer.language,
     state         |-> ValueOf(packed, "s"),
     env           |-> envelope]

(* A mistake: a message made from another one starts afresh.               *)
FromMessageAfresh(mm, state) ==
    [NoMeta EXCEPT !.consumer_name = mm.consumer_name, !.state = state]

(* Message.from_message: everything but the state.                         *)
FromMessage(mm, state) == [mm EXCEPT !.state = state]
=============================================================================
