---------------------------- MODULE InventoryCodec ----------------------------
(***************************************************************************)
(* The conversions between the four forms of a record: the domain structs  *)
(* of src/models.rs, the rows of src/entity, the messages of               *)
(* proto/inventory.proto and the payloads of package events.               *)
(*                                                                         *)
(* A text is either the JSON encoding of a value or a bare word. serde is  *)
(* external: it encodes distinct values as distinct texts, and decodes as  *)
(* a type exactly the encodings of the type's values. Strings that every   *)
(* conversion copies stand together: version for version, config_path and  *)
(* data_path, runtime for the roles and the network.                       *)
(***************************************************************************)
EXTENDS Naturals

CONSTANTS
    ResourceTypes, Channels, ResourceStatuses, Validations,
    Versions, Times, Captions,
    VariableLists, S3Paths, ServiceStatuses, Runtimes,
    Nothing         \* Rust's None

MaxU16 == 65535

ASSUME DefaultsAssumption ==
    /\ "app" \in ResourceTypes
    /\ "stable" \in Channels
    /\ "active" \in ResourceStatuses
    /\ {"ok", "incomplete"} \subseteq Validations
    /\ "stopped" \in ServiceStatuses
    /\ "[]" \in VariableLists
    /\ "" \in Captions
    /\ Nothing \notin Captions
    /\ Nothing \notin 0..MaxU16

Json(value) == <<"json", value>>
Bare(word)  == <<"bare", word>>

Decodes(text, Values) == \E v \in Values : text = Json(v)

Decode(text, Values) == CHOOSE v \in Values : text = Json(v)

\* serde_json::from_str(text).unwrap_or(default)
DecodeOr(text, Values, default) ==
    IF Decodes(text, Values) THEN Decode(text, Values) ELSE default

-----------------------------------------------------------------------------
(* Resources *)

InstalledResource ==
    [resource_type : ResourceTypes, version : Versions, channel : Channels,
     installed_at : Times, status : ResourceStatuses,
     validation : Validations, caption : Captions \cup {Nothing}]

\* Mutant of ResourceToRow: the channel is stored as it is displayed.
ResourceToRowDisplayed(r) ==
    [r EXCEPT !.resource_type = Json(@), !.channel = Bare(@),
              !.status = Json(@), !.validation = Json(@)]

\* The columns that install writes.
ResourceToRow(r) ==
    [r EXCEPT !.resource_type = Json(@), !.channel = Json(@),
              !.status = Json(@), !.validation = Json(@)]

\* Mutant of OverwriteRow: the UPDATE writes every column.
OverwriteWholeRow(row, r) == ResourceToRow(r)

\* The columns that upsert_resource writes when the id is there.
OverwriteRow(row, r) ==
    [ResourceToRow(r) EXCEPT !.resource_type = row.resource_type,
                             !.installed_at = row.installed_at]

ResourceDecodes(row) ==
    /\ Decodes(row.resource_type, ResourceTypes)
    /\ Decodes(row.channel, Channels)
    /\ Decodes(row.status, ResourceStatuses)
    /\ Decodes(row.validation, Validations)

\* TryFrom: one column that does not decode fails the whole row.
ResourceFromRow(row) ==
    [row EXCEPT !.resource_type = Decode(@, ResourceTypes),
                !.channel = Decode(@, Channels),
                !.status = Decode(@, ResourceStatuses),
                !.validation = Decode(@, Validations)]

\* Mutant of ResourceToProto: the channel as it is displayed.
ResourceToProtoDisplayed(r) ==
    [r EXCEPT !.resource_type = Json(@), !.channel = Bare(@),
              !.status = Json(@), !.validation = Json(@),
              !.caption = IF @ = Nothing THEN "" ELSE @]

ResourceToProto(r) ==
    [r EXCEPT !.resource_type = Json(@), !.channel = Json(@),
              !.status = Json(@), !.validation = Json(@),
              !.caption = IF @ = Nothing THEN "" ELSE @]

\* What does not decode gets a default; the client is not told.
ProtoToResource(p) ==
    [p EXCEPT !.resource_type = DecodeOr(@, ResourceTypes, "app"),
              !.channel = DecodeOr(@, Channels, "stable"),
              !.status = DecodeOr(@, ResourceStatuses, "active"),
              !.validation = DecodeOr(@, Validations, "incomplete"),
              !.caption = IF @ = "" THEN Nothing ELSE @]

\* The resource of an installed or updated event; Nothing is a payload
\* without resource_type.
EventResource(version, type, now) ==
    [resource_type |-> IF type = Nothing THEN "app" ELSE type,
     version |-> version, channel |-> "stable", installed_at |-> now,
     status |-> "active", validation |-> "ok", caption |-> Nothing]

-----------------------------------------------------------------------------
(* Service instances, without their ids and their name *)

ServiceInstance ==
    [variables : VariableLists, s3_paths : S3Paths, runtime : Runtimes,
     status : ServiceStatuses, port : (0..MaxU16) \cup {Nothing}]

\* Mutant of ServiceToRow: the status is stored as it is displayed.
ServiceToRowDisplayed(s) == [s EXCEPT !.variables = Json(@), !.status = Bare(@)]

\* A u16 widened to i32, or NULL.
ServiceToRow(s) == [s EXCEPT !.variables = Json(@), !.status = Json(@)]

\* Mutant of OverwriteServiceRow: the UPDATE writes every column.
OverwriteWholeServiceRow(row, s) == ServiceToRow(s)

\* The columns that upsert_service writes when the name is there.
OverwriteServiceRow(row, s) ==
    [ServiceToRow(s) EXCEPT !.variables = row.variables, !.s3_paths = row.s3_paths]

ServiceDecodes(row) ==
    /\ Decodes(row.variables, VariableLists)
    /\ Decodes(row.status, ServiceStatuses)

\* A port outside of u16 reads as 0.
ServiceFromRow(row) ==
    [row EXCEPT !.variables = Decode(@, VariableLists),
                !.status = Decode(@, ServiceStatuses),
                !.port = IF @ \in (0..MaxU16) \cup {Nothing} THEN @ ELSE 0]

ServiceToProto(s) ==
    [s EXCEPT !.variables = Json(@), !.status = Json(@),
              !.port = IF @ = Nothing THEN 0 ELSE @]

\* Mutants of ProtoToService: `as u16` instead of try_from; < for <=.
ProtoToServiceWrapped(p) ==
    [p EXCEPT !.variables = DecodeOr(@, VariableLists, "[]"),
              !.status = DecodeOr(@, ServiceStatuses, "stopped"),
              !.port = IF @ = 0 THEN Nothing ELSE @ % (MaxU16 + 1)]

ProtoToServiceBelowMax(p) ==
    [p EXCEPT !.variables = DecodeOr(@, VariableLists, "[]"),
              !.status = DecodeOr(@, ServiceStatuses, "stopped"),
              !.port = IF @ \in 1..MaxU16 - 1 THEN @ ELSE Nothing]

\* A port of 0, or one that does not fit, is no port.
ProtoToService(p) ==
    [p EXCEPT !.variables = DecodeOr(@, VariableLists, "[]"),
              !.status = DecodeOr(@, ServiceStatuses, "stopped"),
              !.port = IF @ \in 1..MaxU16 THEN @ ELSE Nothing]
==============================================================================
