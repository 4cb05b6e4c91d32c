------------------------------- MODULE Publisher -------------------------------
(***************************************************************************)
(* Publisher.cpp: messages of the Integration Service are converted into   *)
(* the publisher's one dynamic_data_ and written on a DDS topic, by        *)
(* whatever threads call publish.                                          *)
(***************************************************************************)
EXTENDS DynamicTypes

CONSTANTS Calls,       \* invocations of publish, a thread each
          Types,       \* the types a topic may have
          Messages,    \* Messages[type]: the data that may be published
          None         \* no message, no data

ASSUME NoneDistinct ==
  /\ None \notin UNION {Messages[type] : type \in Types}
  /\ {"free", "destructor"} \cap Calls = {}

To == INSTANCE ToFastdds
From == INSTANCE ToXtypes

VARIABLES
  type,            \* the type of the topic
  dynamic_data,    \* the data that every message is converted into
  data_mtx,        \* owner of data_mtx_, or "free"
  caller,          \* where each publish is
  message,         \* its argument
  sent,            \* <<call, DDS data>> written
  destroyed        \* the destructor is done

vars == <<type, dynamic_data, data_mtx, caller, message, sent, destroyed>>

(* The data is created from the type that was built for the topic. *)
Init ==
  /\ type \in Types
  /\ dynamic_data = create_data(get_builder(type))
  /\ data_mtx = "free"
  /\ caller = [c \in Calls |-> "idle"]
  /\ message = [c \in Calls |-> None]
  /\ sent = {}
  /\ destroyed = FALSE

Publish(c, m) ==
  /\ caller[c] = "idle"
  /\ ~destroyed
  /\ message' = [message EXCEPT ![c] = m]
  /\ caller' = [caller EXCEPT ![c] = "converting"]
  /\ UNCHANGED <<type, dynamic_data, data_mtx, sent, destroyed>>

(* Mutant: the lock ends with the conversion. *)
PublishConvertUnlocks(c) ==
  /\ caller[c] = "converting"
  /\ data_mtx = "free"
  /\ To!CanConvert(type)
  /\ dynamic_data' = To!xtypes_to_fastdds(type, message[c], dynamic_data)
  /\ caller' = [caller EXCEPT ![c] = "writing"]
  /\ UNCHANGED <<type, data_mtx, message, sent, destroyed>>

(* Lock data_mtx_ and convert the message over the last one. *)
PublishConvert(c) ==
  /\ caller[c] = "converting"
  /\ data_mtx = "free"
  /\ To!CanConvert(type)
  /\ data_mtx' = c
  /\ dynamic_data' = To!xtypes_to_fastdds(type, message[c], dynamic_data)
  /\ caller' = [caller EXCEPT ![c] = "writing"]
  /\ UNCHANGED <<type, message, sent, destroyed>>

(* A message that is neither a structure nor a union is refused. *)
PublishRefused(c) ==
  /\ caller[c] = "converting"
  /\ data_mtx = "free"
  /\ ~To!CanConvert(type)
  /\ caller' = [caller EXCEPT ![c] = "failed"]
  /\ UNCHANGED <<type, dynamic_data, data_mtx, message, sent, destroyed>>

(* write takes a copy of the data or fails; the lock ends with the function. *)
PublishWrite(c) ==
  /\ caller[c] = "writing"
  /\ \/ /\ sent' = sent \cup {<<c, dynamic_data>>}
        /\ caller' = [caller EXCEPT ![c] = "published"]
     \/ /\ caller' = [caller EXCEPT ![c] = "failed"]
        /\ UNCHANGED sent
  /\ data_mtx' = "free"
  /\ UNCHANGED <<type, dynamic_data, message, destroyed>>

(* The destructor; nobody publishes any more. *)
Destroy ==
  /\ ~destroyed
  /\ \A c \in Calls : caller[c] \in {"idle", "published", "failed"}
  /\ data_mtx = "free"
  /\ dynamic_data' = None
  /\ destroyed' = TRUE
  /\ UNCHANGED <<type, data_mtx, caller, message, sent>>

Caller(c) == PublishConvert(c) \/ PublishRefused(c) \/ PublishWrite(c)

Next ==
  \/ \E c \in Calls : Caller(c) \/ \E m \in Messages[type] : Publish(c, m)
  \/ Destroy

Spec == Init /\ [][Next]_vars

-----------------------------------------------------------------------------
(* Properties. *)

(* What of its data a message is recognised by.  A union is told by its active
   member and not by its discriminator, and a signed byte in a union stands for
   any other (Conversion.cpp:2228). *)
RECURSIVE Compared(_, _)
Compared(any, data) ==
  LET of == resolve_type(any) IN
  CASE of.kind \in {"sequence", "array"} ->
         [i \in DOMAIN data |-> Compared(of.of, data[i])]
    [] of.kind = "map" -> [key \in DOMAIN data |-> Compared(of.value, data[key])]
    [] of.kind = "structure" ->
         [name \in DOMAIN data |->
            Compared(of.members[get_member_id_by_name(of, name)].type, data[name])]
    [] of.kind = "union" ->
         [name \in DOMAIN data.member |->
            LET case == resolve_type(of.members[get_member_id_by_name(of, name)].type)
            IN IF case.kind = "int8" THEN "some byte" ELSE Compared(case, data.member[name])]
    [] OTHER -> data

(* What a reader of the topic makes of each sample is the message that its
   call was given, whatever the buffer held before and whoever publishes at
   the same time (Publisher.cpp:157, :160).  Of a union this is the active
   member with its value, or without it if it is a signed byte. *)
MessagesArriveIntact ==
  \A pair \in sent :
    Compared(type, From!fastdds_to_xtypes(type, pair[2])) =
      Compared(type, message[pair[1]])

=============================================================================
