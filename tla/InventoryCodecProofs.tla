-------------------------- MODULE InventoryCodecProofs --------------------------
(***************************************************************************)
(* Lemmas about the conversions of InventoryCodec: what each returns, and  *)
(* what is left of a record that has gone through two of them. They hold   *)
(* for every set of enumeration values, texts and ports.                   *)
(***************************************************************************)
EXTENDS InventoryCodec, TLAPS

(***************************************************************************)
(* Texts.                                                                  *)
(***************************************************************************)

\* The encoding of a value decodes, and as that value only.
LEMMA DecodeJson ==
  ASSUME NEW Values, NEW v \in Values
  PROVE  Decodes(Json(v), Values) /\ Decode(Json(v), Values) = v
<1>1. \A w : Json(v) = Json(w) => v = w
  BY DEF Json
<1>2. Decodes(Json(v), Values)
  BY DEF Decodes
<1>. QED
  BY <1>1, <1>2 DEF Decode, Decodes

\* Whatever the text, what unwrap_or yields is of the type.
LEMMA DecodeOrType ==
  ASSUME NEW Values, NEW default \in Values, NEW text
  PROVE  DecodeOr(text, Values, default) \in Values
BY DEF DecodeOr, Decodes, Decode

\* The default is never taken for an encoding.
LEMMA DecodeOrJson ==
  ASSUME NEW Values, NEW default, NEW v \in Values
  PROVE  DecodeOr(Json(v), Values, default) = v
BY DecodeJson DEF DecodeOr

(***************************************************************************)
(* Resources.                                                              *)
(***************************************************************************)

\* What becomes of a caption in a message.
CaptionShown(caption) == IF caption = "" THEN Nothing ELSE caption

\* The record that upsert_resource leaves of an old one and a new one.
Upserted(old, new) ==
    [new EXCEPT !.resource_type = old.resource_type,
                !.installed_at = old.installed_at]

\* The rows that the program writes, and the messages that it sends.
ResourceRows == {ResourceToRow(r) : r \in InstalledResource}
ResourceMessages == {ResourceToProto(r) : r \in InstalledResource}

\* Every row the program writes can be read, and reads as what was written.
THEOREM ResourceRowIsLossless ==
  ASSUME NEW r \in InstalledResource
  PROVE  /\ ResourceDecodes(ResourceToRow(r))
         /\ ResourceFromRow(ResourceToRow(r)) = r
<1> DEFINE row == ResourceToRow(r)
<1>1. /\ row.resource_type = Json(r.resource_type) /\ row.channel = Json(r.channel)
      /\ row.status = Json(r.status) /\ row.validation = Json(r.validation)
  BY DEF ResourceToRow, InstalledResource
<1>2. /\ r.resource_type \in ResourceTypes /\ r.channel \in Channels
      /\ r.status \in ResourceStatuses /\ r.validation \in Validations
  BY DEF InstalledResource
<1>3. ResourceDecodes(row)
  BY <1>1, <1>2, DecodeJson DEF ResourceDecodes
<1>4. /\ Decode(row.resource_type, ResourceTypes) = r.resource_type
      /\ Decode(row.channel, Channels) = r.channel
      /\ Decode(row.status, ResourceStatuses) = r.status
      /\ Decode(row.validation, Validations) = r.validation
  BY <1>1, <1>2, DecodeJson
<1>5. ResourceFromRow(row) =
         [row EXCEPT !.resource_type = r.resource_type, !.channel = r.channel,
                     !.status = r.status, !.validation = r.validation]
  BY <1>4 DEF ResourceFromRow
<1>6. ResourceFromRow(row) = r
  BY <1>5 DEF ResourceToRow, InstalledResource
<1>. QED
  BY <1>3, <1>6

\* An UPDATE of a row is the row of the record with its type and its time of
\* installation kept.
LEMMA OverwrittenRow ==
  ASSUME NEW old \in InstalledResource, NEW new \in InstalledResource
  PROVE  /\ Upserted(old, new) \in InstalledResource
         /\ OverwriteRow(ResourceToRow(old), new) = ResourceToRow(Upserted(old, new))
BY DEF Upserted, OverwriteRow, ResourceToRow, InstalledResource

\* So is an UPDATE of the status.
LEMMA RowWithStatus ==
  ASSUME NEW r \in InstalledResource, NEW s \in ResourceStatuses
  PROVE  /\ [r EXCEPT !.status = s] \in InstalledResource
         /\ [ResourceToRow(r) EXCEPT !.status = Json(s)] =
               ResourceToRow([r EXCEPT !.status = s])
BY DEF ResourceToRow, InstalledResource

\* A client that sends a message back with another status sends the record
\* with that status and, for the caption, what a message can say of it.
LEMMA MessageWithStatus ==
  ASSUME NEW r \in InstalledResource, NEW s \in ResourceStatuses
  PROVE  ProtoToResource([ResourceToProto(r) EXCEPT !.status = Json(s)]) =
            [r EXCEPT !.status = s, !.caption = CaptionShown(@)]
<1> DEFINE p == [ResourceToProto(r) EXCEPT !.status = Json(s)]
<1>1. p = [r EXCEPT !.resource_type = Json(@), !.channel = Json(@),
                    !.status = Json(s), !.validation = Json(@),
                    !.caption = IF @ = Nothing THEN "" ELSE @]
  BY DEF ResourceToProto, InstalledResource
<1>2. /\ r.resource_type \in ResourceTypes /\ r.channel \in Channels
      /\ r.validation \in Validations
  BY DEF InstalledResource
<1>3. /\ p.resource_type = Json(r.resource_type) /\ p.channel = Json(r.channel)
      /\ p.status = Json(s) /\ p.validation = Json(r.validation)
      /\ p.caption = IF r.caption = Nothing THEN "" ELSE r.caption
  BY <1>1 DEF InstalledResource
<1>4. /\ DecodeOr(p.resource_type, ResourceTypes, "app") = r.resource_type
      /\ DecodeOr(p.channel, Channels, "stable") = r.channel
      /\ DecodeOr(p.status, ResourceStatuses, "active") = s
      /\ DecodeOr(p.validation, Validations, "incomplete") = r.validation
  <2>1. DecodeOr(Json(r.resource_type), ResourceTypes, "app") = r.resource_type
    BY <1>2, DecodeOrJson
  <2>2. DecodeOr(Json(r.channel), Channels, "stable") = r.channel
    BY <1>2, DecodeOrJson
  <2>3. DecodeOr(Json(s), ResourceStatuses, "active") = s
    BY DecodeOrJson
  <2>4. DecodeOr(Json(r.validation), Validations, "incomplete") = r.validation
    BY <1>2, DecodeOrJson
  <2>. QED
    BY <1>3, <2>1, <2>2, <2>3, <2>4
<1>5. (IF p.caption = "" THEN Nothing ELSE p.caption) = CaptionShown(r.caption)
  BY <1>3 DEF CaptionShown
<1>6. ProtoToResource(p) =
         [p EXCEPT !.resource_type = r.resource_type, !.channel = r.channel,
                   !.status = s, !.validation = r.validation,
                   !.caption = CaptionShown(r.caption)]
  BY <1>4, <1>5 DEF ProtoToResource
<1>. QED
  BY <1>1, <1>6 DEF InstalledResource

\* Whatever stands in the enumerations of a message, it is taken for a record.
LEMMA MessageType ==
  ASSUME NEW A, NEW B, NEW C, NEW D,
         NEW p \in [resource_type : A, version : Versions, channel : B,
                    installed_at : Times, status : C, validation : D,
                    caption : Captions]
  PROVE  ProtoToResource(p) \in InstalledResource
<1>1. /\ DecodeOr(p.resource_type, ResourceTypes, "app") \in ResourceTypes
      /\ DecodeOr(p.channel, Channels, "stable") \in Channels
      /\ DecodeOr(p.status, ResourceStatuses, "active") \in ResourceStatuses
      /\ DecodeOr(p.validation, Validations, "incomplete") \in Validations
  BY DefaultsAssumption, DecodeOrType
<1>. QED
  BY <1>1 DEF ProtoToResource, InstalledResource

\* So is an event.
LEMMA EventType ==
  ASSUME NEW v \in Versions, NEW t \in ResourceTypes \cup {Nothing},
         NEW now \in Times
  PROVE  EventResource(v, t, now) \in InstalledResource
BY DefaultsAssumption DEF EventResource, InstalledResource

(***************************************************************************)
(* Service instances.                                                      *)
(***************************************************************************)

\* What becomes of a port in a message.
PortShown(port) == IF port = 0 THEN Nothing ELSE port

\* A port that fits is one of a u16 but 0.
LEMMA PortRange ==
  /\ \A n \in 1..MaxU16 : n \in 0..MaxU16 /\ n # 0
  /\ \A n \in 0..MaxU16 : n # 0 => n \in 1..MaxU16
<1>1. \A m \in Nat : \A n \in 1..m : n \in 0..m /\ n # 0
  OBVIOUS
<1>2. \A m \in Nat : \A n \in 0..m : n # 0 => n \in 1..m
  OBVIOUS
<1>3. MaxU16 \in Nat
  BY DEF MaxU16
<1>. QED
  BY <1>1, <1>2, <1>3

\* The instance that upsert_service leaves of an old one and a new one.
UpsertedService(old, new) ==
    [new EXCEPT !.variables = old.variables, !.s3_paths = old.s3_paths]

\* Every row the program writes can be read, and reads as what was written;
\* no port is out of range.
THEOREM ServiceRowIsLossless ==
  ASSUME NEW s \in ServiceInstance
  PROVE  /\ ServiceDecodes(ServiceToRow(s))
         /\ ServiceFromRow(ServiceToRow(s)) = s
<1> DEFINE row == ServiceToRow(s)
<1>1. row = [s EXCEPT !.variables = Json(@), !.status = Json(@)]
  BY DEF ServiceToRow
<1>2. row.variables = Json(s.variables) /\ row.status = Json(s.status)
  BY <1>1 DEF ServiceInstance
<1>3. s.variables \in VariableLists /\ s.status \in ServiceStatuses
  BY DEF ServiceInstance
<1>4. ServiceDecodes(row)
  BY <1>2, <1>3, DecodeJson DEF ServiceDecodes
<1>5. /\ Decode(row.variables, VariableLists) = s.variables
      /\ Decode(row.status, ServiceStatuses) = s.status
  BY <1>2, <1>3, DecodeJson
<1>6. (IF row.port \in (0..MaxU16) \cup {Nothing} THEN row.port ELSE 0) = s.port
  BY <1>1 DEF ServiceInstance
<1>7. ServiceFromRow(row) =
         [row EXCEPT !.variables = s.variables, !.status = s.status,
                     !.port = s.port]
  BY <1>5, <1>6 DEF ServiceFromRow
<1>8. ServiceFromRow(row) = s
  BY <1>1, <1>7 DEF ServiceInstance
<1>. QED
  BY <1>4, <1>8

\* An UPDATE of a row is the row of the instance with its variables and S3
\* paths kept.
LEMMA OverwrittenServiceRow ==
  ASSUME NEW old \in ServiceInstance, NEW new \in ServiceInstance
  PROVE  /\ UpsertedService(old, new) \in ServiceInstance
         /\ OverwriteServiceRow(ServiceToRow(old), new) =
               ServiceToRow(UpsertedService(old, new))
BY DEF UpsertedService, OverwriteServiceRow, ServiceToRow, ServiceInstance

\* So is an UPDATE of the status.
LEMMA ServiceRowWithStatus ==
  ASSUME NEW s \in ServiceInstance, NEW status \in ServiceStatuses
  PROVE  /\ [s EXCEPT !.status = status] \in ServiceInstance
         /\ [ServiceToRow(s) EXCEPT !.status = Json(status)] =
               ServiceToRow([s EXCEPT !.status = status])
BY DEF ServiceToRow, ServiceInstance

\* A client that sends a message back with another status sends the instance
\* with that status and, for the port, what a message can say of it.
LEMMA ServiceMessageWithStatus ==
  ASSUME NEW s \in ServiceInstance, NEW status \in ServiceStatuses
  PROVE  ProtoToService([ServiceToProto(s) EXCEPT !.status = Json(status)]) =
            [s EXCEPT !.status = status, !.port = PortShown(@)]
<1> DEFINE p == [ServiceToProto(s) EXCEPT !.status = Json(status)]
<1>1. p = [s EXCEPT !.variables = Json(@), !.status = Json(status),
                    !.port = IF @ = Nothing THEN 0 ELSE @]
  BY DEF ServiceToProto, ServiceInstance
<1>2. s.variables \in VariableLists /\ s.port \in (0..MaxU16) \cup {Nothing}
  BY DEF ServiceInstance
<1>3. /\ p.variables = Json(s.variables) /\ p.status = Json(status)
      /\ p.port = IF s.port = Nothing THEN 0 ELSE s.port
  BY <1>1 DEF ServiceInstance
<1>4. /\ DecodeOr(p.variables, VariableLists, "[]") = s.variables
      /\ DecodeOr(p.status, ServiceStatuses, "stopped") = status
  <2>1. DecodeOr(Json(s.variables), VariableLists, "[]") = s.variables
    BY <1>2, DecodeOrJson
  <2>2. DecodeOr(Json(status), ServiceStatuses, "stopped") = status
    BY DecodeOrJson
  <2>. QED
    BY <1>3, <2>1, <2>2
<1>5. (IF p.port \in 1..MaxU16 THEN p.port ELSE Nothing) = PortShown(s.port)
  <2>1. Nothing \notin 1..MaxU16
    BY PortRange, DefaultsAssumption
  <2>. QED
    BY <1>2, <1>3, <2>1, PortRange DEF PortShown
<1>6. ProtoToService(p) =
         [p EXCEPT !.variables = s.variables, !.status = status,
                   !.port = PortShown(s.port)]
  BY <1>4, <1>5 DEF ProtoToService
<1>. QED
  BY <1>1, <1>6 DEF ServiceInstance

\* Whatever texts and numbers stand in a message, it is taken for an
\* instance, and its port is that of the message or none.
LEMMA ServiceMessageType ==
  ASSUME NEW A, NEW B, NEW Ports,
         NEW p \in [variables : A, s3_paths : S3Paths, runtime : Runtimes,
                    status : B, port : Ports]
  PROVE  /\ ProtoToService(p) \in ServiceInstance
         /\ ProtoToService(p).port \in Ports \cup {Nothing}
<1>1. /\ DecodeOr(p.variables, VariableLists, "[]") \in VariableLists
      /\ DecodeOr(p.status, ServiceStatuses, "stopped") \in ServiceStatuses
  BY DefaultsAssumption, DecodeOrType
<1>. QED
  BY <1>1, PortRange DEF ProtoToService, ServiceInstance
==============================================================================
