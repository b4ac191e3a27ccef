# A verification project for fs-inventory

TLA+ models of fs-inventory, the local record of what is installed on a
FreeSynergy node: TLC checks them on small instances, and TLAPS proves every
safety property of the passing runs for every size. Paths below are those of the repository
(`src/repo.rs` and so on).

## 1. The system

| Part | State | Operations | Interacts with |
|---|---|---|---|
| Repository, `src/repo.rs` | tables `installed_resources` and `service_instances` in one SQLite file | `open`, `install`, `upsert_resource`, `uninstall`, `set_resource_status`, `add_service`, `upsert_service`, `set_service_status_by_name`, four reads | SQLite, through SeaORM |
| Store trait, `src/store.rs` | none | the contract that the APIs use | implemented by the repository |
| Models and errors, `src/models.rs`, `src/error.rs` | row types, statuses, the outcomes of a call | JSON encoding of columns | all |
| Bus handler, `src/bus_handler.rs` | none of its own | one method, `handle(event)` | called by the in-process bus, calls the repository |
| REST, `src/api/rest.rs` | none | eight routes, of which the two by id are never reached (section 5) | calls the store, maps results to HTTP statuses |
| gRPC, `src/api/grpc.rs` | none | seven RPCs | calls the store, converts messages, maps results to status codes |
| Daemon, `src/main.rs` | the bus, the two servers, their ports | start, `select!` over the servers, stop | owns all of the above |
| Command line, `src/main.rs`, `src/cli.rs` | none | four commands | another process on the same database file |

What is hard here is not any one of these parts but their meeting:

* No method uses a transaction. Each is a SELECT followed, at a later `.await`,
  by an INSERT, UPDATE or DELETE; the tasks of both servers, the bus handler and
  other processes run in between.
* A call can stop half way: a statement fails, a client closes its connection and
  the server drops the task, the process ends because the other server did.
* The bus handler discards every failure (lines 103 to 105 and 115 to 117), and
  the events still in the bus when the daemon stops are gone. With several
  publishers its invocations overlap.
* `open` is four statements that commit one by one, and ignores every error of
  the last; daemons and commands open the same file at the same time.
* A record passes through four forms (struct, row, message, event payload), with
  defaults where a text does not decode and integers of 16 and 32 bits.
* The foreign key makes resources and instances depend on each other, although
  no line of Rust looks at both. No operation removes an instance.

What makes each part correct:

* repository: a call is atomic and its answer is true of the tables; no orphaned
  instance, no write to the wrong row, instances are permanent, duplicates of a
  name are bounded, every call ends; who has opened the database finds its
  schema; the role filter finds who provides a role;
* bus handler: the record of a package follows its events and recovers from lost
  ones, and a bad event does not block the others;
* APIs: what a client has been told stays true for its later reads, no removal is
  reported that the database refused, every request is answered, and a record
  survives being read and written back;
* daemons and commands: each gets to serve or exits.

`PROJECT.json` lists the hazards at their lines, with the properties that watch
them.

## 2. The modules

| Module | What it is |
|---|---|
| `InventoryTables` | rows, requests, answers, and what a statement does to a table |
| `InventoryStore` | abstract: each call of the trait is one atomic step |
| `Inventory` | `src/repo.rs`, one action per SQL statement |
| `InventoryBus` | the bus handler, the package manager, restarts, over `Inventory` |
| `InventoryApi` | the REST and gRPC handlers over `Inventory` |
| `InventoryNode` | daemons and commands that open, migrate and use one database, over `Inventory` |
| `InventoryCodec` | the conversions between structs, rows, messages and payloads, as operators |
| `ResourceRecords`, `ServiceRecords` | one resource, one instance, column by column, over `InventoryCodec` |
| `RoleFilter` | the LIKE filter of service lists, character by character |
| `InventoryProofs`, `InventoryBusProofs`, `InventoryApiProofs`, `InventoryNodeProofs` | theorems about the concurrent modules |
| `InventoryCodecProofs`, `ResourceRecordsProofs`, `ServiceRecordsProofs` | what is left of a record after each conversion; theorems about the column-level modules |
| `RoleFilterProofs` | theorems about the role filter, with the induction they need |
| `MCInventory` | the symmetry of `inventory_services`, which has no liveness |
| `MCInventoryNode`, `MCRoleFilter` | values that a configuration file cannot spell |

`Inventory` is the core; `InventoryBus`, `InventoryApi` and `InventoryNode` each
extend it with the actors of one source of trouble. `InventoryStore` is the
contract that all of them, and the two column-level modules, are shown to
implement.

### Rows

A column matters to the concurrent modules by who writes it, so columns are
grouped that way. A resource row has an `origin` (type and time of installation,
written by INSERT only), a `version` (with the two paths: what events carry),
`labels` (channel, validation, caption: what the bus handler resets) and a
`status`. A service row has its resource, its name, `settings` (variables and S3
paths, INSERT only), `runtime` (roles, network, port) and a `status`. Ids and
names are model values. That the columns really are written in these groups is
not assumed: `ResourceRecords` and `ServiceRecords` have the columns of the code
and are shown to implement the grouped store.

### Inventory

Per client: `at` (the statement it is about to execute), `req` (the arguments),
`held` (the service row that its SELECT by name returned) and `answer`. The
actions of a method are its statements, in the order of the code:

| Method | Actions |
|---|---|
| `install` | `InstallFind`, `InstallInsert` |
| `upsert_resource` | those, then `UpsertReread`, `UpsertWrite` |
| `uninstall` | `UninstallFind`, `UninstallDelete` |
| `set_resource_status` | `SetResourceStatusFind`, `SetResourceStatusWrite` |
| `add_service` | `AddServiceInsert` |
| `upsert_service` | `UpsertServiceFind`, then `UpsertServiceWrite` or `AddServiceInsert` |
| `set_service_status_by_name` | `SetServiceStatusFind`, `SetServiceStatusWrite` |

`StatementError` lets any statement fail, `DropCall` lets a task vanish before
any statement; the constant `Disruptions` switches them on. A task dropped while
SQLite already executes its statement is the statement followed by `Return`.

What is assumed of the libraries (SeaORM 2.0.0-rc with sqlx, SQLite):

* a statement is atomic and commits by itself, INSERT and UPDATE with their
  RETURNING clause being one statement. This needs SeaORM's feature
  `sqlite-use-returning-for-3_35`, which `Cargo.toml:23` does not list: it is on
  only if another package of the build, such as fs-db, which is not in this
  repository, turns it on. Without it SeaORM reads each row back in a second
  statement, and a call may answer `Database` although its write is in the table,
  which `ImplementsStore` excludes here;
* `foreign_keys` is on, the default of sqlx, so REFERENCES is enforced, and a
  violation is `InventoryError::Database`;
* an UPDATE that matches no row is an error (`RecordNotUpdated`), a DELETE that
  matches none is not, and an UPDATE writes only the columns that were `Set`;
* `one()` with several matches returns any of them;
* axum 0.7 (`Cargo.toml:44`) writes a parameter of a path as `:id` and takes
  braces literally. The one path that then matches line 91 of `src/api/rest.rs`
  is `/resources/{id}` itself; it is no id, has no parameter to extract, and is
  left out.

### InventoryStore

The contract, with the two weak points that the code forces on it: `uninstall`
may answer Ok for a row that someone else has just removed, and
`upsert_service` may insert a second row of a name. It starts on any consistent
tables, and `Forget` lets the calls of any set of clients go away at once, which
is what the end of a process looks like to the store. `Inventory` and the modules
over it implement it with the identity mapping; `at` and `held` are hidden.

### InventoryBus

`packages` is the truth of the package manager and `queue` the events that are
not delivered yet. `Handle` takes the next event and begins the call that
`handle` makes, or consumes a message that is about no package; several handlers
may be at work. What the package manager does may also reach the handler in a
payload it cannot read (`Announce`): it is logged and nothing is called (`Ignore`).
`Handled` returns Ok whatever the call answered. `Restart` is the stop and start
of the daemon: calls and queue vanish, the database stays. For
`EveryEventDelivered` an event that vanishes with its queue has left it too: the
property is about what blocks the queue, the losses are in `RecordedUnlessLost`.
Two history variables say when the record may be wrong: `lost` holds the packages
whose last event was lost, unreadable or refused, `raced` the invocations that
overlap another one of the same package, so that either may write last. An event handled alone takes its package
out of `lost`: the next event repairs the record. The package manager and the bus
are not in this repository: they are modelled from their use. As wired in
`src/main.rs` nothing publishes to the bus yet (`_bus`, line 135); the module
says what holds once something does.

### InventoryApi

A connection serves one request at a time. A write that decodes becomes a call
of `Inventory`, and `RestStatus` and `GrpcStatus` map its result. A read is one
statement, the summary two (`CountResources`, `CountServices`). GET and DELETE of
a resource by its id have no route in REST (line 91): `RestGetResource` and
`RestUninstall` answer 404 without a call, and only gRPC clients uninstall. The
history variables `acked` and `seen` hold what clients have been told; `known` is
what they held, and which instances there were, when a request came.

### InventoryNode

`phase` is how far each process is: the three CREATE statements of SCHEMA, the
ALTER TABLE (`Migrate`, or `MigrateRefused`, the failure that `open` ignores),
the binding of the ports, serving or making its one call, exited. `schema` is what
of the database exists and whether its resource table is of the release before
the caption. `NodeInit` is any database that some earlier run can have left:
new, old, half made, with rows. `End` ends a process in one step, with its ports
and calls; `Killed` is a signal, `ServerEnds` the end of one server, which takes
the other with it (line 151). The REST port is bound before the `select!`, the
gRPC port inside it, so a daemon may serve REST before its gRPC port turns out to
be taken. A statement on `installed_resources` fails while the table has no
caption column. A task of a daemon makes any call as soon as the daemon serves,
which is more than the two servers allow and does no harm to what is claimed. The history variable `refused` holds the processes whose own
ALTER TABLE failed.

### InventoryCodec, ResourceRecords, ServiceRecords

A text is the JSON encoding of a value or a bare word, and serde decodes exactly
the encodings; strings that are only copied stand together. The operators of
`InventoryCodec` are the conversions of the code, one each, with their defaults,
and with ports at their widths: `u16` in the struct, `i32` in the row, `u32` on
the wire. `ResourceRecords` lets REST, gRPC and the bus handler write one resource
and a gRPC client keep a copy that it writes back later with another status;
`ServiceRecords` does it for an instance. Calls take one step each there, which
`Inventory` justifies. `Row` and `Calls` are the types of the stored row and of
the calls. Both INSTANCE `InventoryStore` WITH a refinement mapping
that decodes the row and groups its columns (`ColumnsImplementStore`).

### RoleFilter

A text is a sequence of characters, since wildcards, escapes and quotes are the
matter: `ListText` is the JSON that `add_service` stores, `Pattern` what
`services_with_role` pastes, `Like` SQLite's matching, as a recursive function
over the pattern: `After` is how far into the text each further character of it
can reach.
The three callers differ in what they take for no filter (`RestListServices`,
`CliServices`, `GrpcListServices`). The history variable `roles` is the list that
was stored. Neither invariant says anything of filters with a quote or a backslash,
among them those that span two roles of a list.

## 3. What TLC checks

| Run | Instance | Shows |
|---|---|---|
| `inventory_store` | 2 clients, all 7 writes, all disruptions; 1 resource, 1 service id, 2 names, 2 values where an UPDATE must choose columns | types; `RegistrationIsForever`; `ImplementsStore`; `EveryCallAnswered` |
| `inventory_services` | 3 clients, 4 services, 2 names, dropped calls | `ReferentialIntegrity`, `HeldRowIsTheNamedRow`, `DuplicatesBounded` |
| `bus_record` | 2 packages, 2 versions, 3 events, 2 handlers, 1 user, all disruptions | `RecordedUnlessLost`, `ImplementsStore`, `EveryEventDelivered` |
| `api_clients` | 1 REST and 1 gRPC connection, 2 resources, 2 service ids, 1 name, all disruptions | `AcknowledgedIsListed`, `ListedResourceStays`, `NoFalseRemoval`, `SummaryCoversRegistered`, `ImplementsStore`, `EveryRequestAnswered` |
| `node_database` | 2 daemons with the same gRPC port, 1 command, one task each, any database, all disruptions | `WorkingSchema`, `ImplementsStore`, `EveryProcessSettles` |
| `resource_records` | 1 resource, two values of each column that conversions treat, undecodable and empty texts | `EveryRowDecodes`, `WriteBackChangesOnlyStatus`, `ColumnsImplementStore` |
| `service_records` | 1 instance, ports 0, 8443, 65535, 65536 and 73616 | `PortNeverInvented`, `WriteBackChangesOnlyStatus`, `ColumnsImplementStore` |
| `role_filter` | every list of up to 2 roles with 3 characters in all, every filter of up to 2, over seven characters | `ProvidersAreFound`, `OnlyProvidersAreFound` |
| `finding_*` | the smallest instance that shows it | section 5 |

Why these bounds. Every race of the repository is between the two statements of
one call and one statement of another, so two clients meet all of them; a third
is there for the bound on duplicates, where the number of callers is the claim.
Four service ids let three callers insert and still leave one id free. Two rows
of one name arise in `api_clients`, which checks the refinement for that case;
`inventory_store` has one service id and spends its states on values. Three
events cover installing, updating and removing a package, and an event that is
lost followed by one that repairs the record; restarts and failures are not
bounded. Rows of one package never touch those of another, so two are enough to
catch a mix-up. Two processes suffice to open the database at once and to want
one port; a third, the command, has a call of its own. `node_database` has only
`uninstall` and `upsert_service`, one call for each table: the missing column
refuses every operation on resources alike. Ports 65536 and 73616 are the first that does not
fit 16 bits and one that would wrap to a valid port (8080). `PortNeverInvented`
compares with the ports that clients can send, not with those that were sent: it
is about numbers that wrap or are cut off on their way. In `role_filter` one
character of each kind is enough: a letter in both cases, the two wildcards, and
the three characters of JSON; two roles are needed for a pattern to match across
their boundary.

What the runs do not bound is proved for every size where section 4 says so.

Symmetry is used only in `inventory_services`, which has no liveness. No run
switches deadlock checking off: an idle client can always call again, and an
exited process can be started again.

Fairness: each client is weakly fair for its next statement, because tokio polls
a ready task and SQLite completes or fails a statement; that is all that
`EveryCallAnswered` needs. Nothing is assumed of callers. For the bus, each
handler is also weakly fair for taking an event and for returning, since the bus
awaits `handle`; for the API, a connection is also weakly fair for the SELECTs of
a read; for the node, a process that has started goes on with its next step, and
the statements of its tasks are fair as before. Publishing, requesting, starting,
restarting, killing, dropping and the end of a server have no fairness.

## 4. What TLAPS proves

For any sets of clients (finite), keys and values, any selection of operations
and any disruptions. `InventoryProofs`:

| Theorem | States |
|---|---|
| `Invariance` | the inductive invariant `IInv` always holds |
| `TypeCorrectness` | `[]TypeOK` |
| `NoOrphanedService` | `[]ReferentialIntegrity` |
| `UpdatesHitTheNamedRow` | `[]HeldRowIsTheNamedRow` |
| `Permanence` | `RegistrationIsForever` |
| `StatementsImplementStore` | `ImplementsStore`: every statement is a step of the store or a stutter |
| `DuplicatesAreBounded` | `[]DuplicatesBounded` |

The argument. `IInv` adds to the type invariant what a state must say for the
next statement to be safe: `ControlOK` (a call is answered exactly at `done`),
`ReferentialIntegrity`, and `HeldRowIsTheNamedRow`, without which the UPDATE by
a row found earlier would be undefined. A step is analysed twice: by what it
does to its own call (`ControlForm`, five shapes) and by what it does to the
tables (`TablesForm`, six shapes), so that each invariant is preserved by
shape and not by action. `ServicesKept`, that no statement removes or renames an
instance, is what makes a stale row harmless. The refinement uses that an
unanswered call has `answer = "none"` and that the held row exists. The bound on
duplicates is not inductive; `RegistrationsBounded` is: the rows of a name and
the callers that are about to insert one never outnumber the callers, since a
caller decides to insert only while there is no row at all.

The compositions reuse this through four lemmas: `InvariantStep` and `StepRefines`
for steps that are steps of `Inventory`, `GoneStep` for clients that go away
together, `RefusedStep` for a statement that the schema refuses, and `QuietStart`
for a start on any consistent tables.

| Theorem | States |
|---|---|
| `InventoryBusProofs!BusInvariance`, `BusTypeCorrectness`, `BusImplementsStore` | `IInv`, `BusTypeOK` and `ImplementsStore` with the bus, its handlers and restarts |
| `InventoryBusProofs!RecordFollowsEvents` | `[]RecordedUnlessLost`, for any number of packages, events, handlers and restarts |
| `InventoryApiProofs!ApiInvariance`, `ApiTypeCorrectness`, `ApiImplementsStore` | `IInv`, `ApiTypeOK` and `ImplementsStore` behind both servers |
| `InventoryApiProofs!AcknowledgedStays` | `[]AcknowledgedIsListed` |
| `InventoryApiProofs!ListedResourceIsPinned` | `[]ListedResourceStays` |
| `InventoryApiProofs!RefusedRemovalIsTold` | `[]NoFalseRemoval` |
| `InventoryApiProofs!SummarySkewIsNew` | `[]SummaryCoversRegistered` |
| `InventoryNodeProofs!SchemaIsComplete` | `[]WorkingSchema`, for any number of processes |
| `InventoryNodeProofs!NodeInvariance`, `NodeTypeCorrectness`, `NodeImplementsStore` | `IInv`, `NodeTypeOK` and `ImplementsStore` with processes that start, migrate and die |
| `ResourceRecordsProofs!RecordTypes`, `ServiceRecordsProofs!RecordTypes` | `[]TypeOK`, whatever texts and numbers clients send |
| `ResourceRecordsProofs!RowsDecode` | `[]EveryRowDecodes` |
| `ServiceRecordsProofs!NoPortIsInvented` | `[]PortNeverInvented`, for any ports of 16 bits from REST and any numbers on the wire |
| `ResourceRecordsProofs!WriteBackIsSafe`, `ServiceRecordsProofs!WriteBackIsSafe` | `WriteBackChangesOnlyStatus` |
| `ResourceRecordsProofs!ResourceColumnsImplementStore`, `ServiceRecordsProofs!ServiceColumnsImplementStore` | `ColumnsImplementStore` |
| `InventoryCodecProofs!ResourceRowIsLossless`, `ServiceRowIsLossless` | what is written to a row is read back unchanged |
| `RoleFilterProofs!ProvidersFound`, `OnlyProvidersFound` | `[]ProvidersAreFound` and `[]OnlyProvidersAreFound`, for lists and filters of any length |

`RecordFollowsEvents` assumes `UsersOnlyUse`: users do not install, upsert or
uninstall resources themselves, as in the run; without it the claim is false, for
a user may simply overwrite a version. Its invariant `RecordInv` follows an event
from the queue to the table: the last waiting event of a package says what the
package manager has (`LastEventIsCurrent`), so does the call of the last event
once none is waiting (`LastCallIsCurrent`), what a call that runs alone has found
and done still holds (`ProgressOK`), and so the record is right when the call has
gone. `AloneUnlessRaced` is why it runs alone.

`ApiInv` says in a state what the API properties say of two: the acknowledged
names and the resources shown are in the tables (`HistoryOK`), an upsert that is
about to be answered with success has left its name (`WrittenOK`), each SELECT of
a read returned at least what its client knew (`ReadOK`), and the removal of a
resource that was shown with an instance has not ended with Ok (`RemovalOK`). It is
kept because no statement takes a name or a referenced resource away
(`ServicesKept`). For a summary `ReadOK` is split at its two statements: once the
resources are counted they hold what each instance registered before needs, and
the services that are counted next hold those instances.

`SchemaInv` attaches to each phase of `open` the part of the schema that its
statements so far have made, which no process ever takes back.

`NodeTypeOK` says that only a process that serves has ports, that no two have the
same, and that no call outlives its process. The first two are inductive with the
phases (`PortsInv`); for the third, the clients of a process are idle unless it
serves or makes its call (`CallersInv`).

For the columns, `RecordsInv` says where everything comes from: a row is the image
of a record (`ResourceToRow`, `ServiceToRow`), what a client has read is the image
of such a row, and a call that writes back carries what the client has read last
with another status. The rest is algebra of the conversions, stated once in
`InventoryCodecProofs` for any sets of values, texts and ports: a row is lossless,
a message keeps all but the defaults that the code puts in place of an empty text
or of a port that is 0 or too wide, and an UPDATE of some columns of an image is
the image of the updated record. `EveryRowDecodes` and `PortNeverInvented` are
true of images; `WriteBackChangesOnlyStatus` needs the tie between call and copy,
and `ColumnsImplementStore` maps each call to its step by the lemmas on updated
rows.

For the role filter the invariant (`RoleInv`) is short, since the column spells the
roles and an answer is what matched; the work is to say what LIKE matches. Two
recursive functions are involved, `Like` and the concatenation that spells a list.
Their properties are found by induction (`Upwards`, `Downwards`) on a set of
numbers instead of a predicate, which makes induction a first-order fact that
follows from the well-foundedness of the naturals; that the recursions have a
solution at all is proved the same way (`ReachedIsAfter`, `JoinedIsAppended`).
`LikeFindsQuoted`: a text that contains the role between quotes is matched,
whatever wildcards the role contains. `LikeIsQuoted`: without wildcards, what is
matched contains it, up to case. `ListHasRoles`: the text of every role is in that
of its list. `EnclosedInList`: if no role has a quote, what two quotes of the
column enclose without a comma or a backslash is one of the roles. The theorems put
these together. The characters a model checker needs are not bounded there: nothing
in the proofs depends on which letters there are, nor on how many roles or
characters.

The assumptions are those on the constants. The proofs use that sets of clients
are finite and hold the handlers (`ClientsAssumption`, `HandlersAssumption`), that
the operations are those of the trait (`OperationsAssumption`), that a client
belongs to one process (`ProcessesAssumption`), that the defaults are values of
their enumerations (`DefaultsAssumption`), that ports from REST have 16 bits and
those on the wire are numbers (`PortsAssumption`), that None is no row and no call
(`NothingAssumption`) and that bounds are numbers (`BoundsAssumption`).
`NoneAssumption`, `DisruptionsAssumption`, `RestAssumption` and `LettersAssumption`
say how constants are meant.

Only model-checked: liveness (`EveryCallAnswered`, `EveryEventDelivered`,
`EveryRequestAnswered`, `EveryProcessSettles`), which is out of the prover's
reach. Every other property of the passing runs is a theorem.

## 5. Where the code and its documentation differ

Each of these has a run that finds the counterexample.

| Run | Says | Does |
|---|---|---|
| `finding_duplicate_names` | `src/store.rs:72` register an instance "or update an existing one with the same name" | two concurrent calls leave two rows of one name |
| `finding_bus_in_sync` | `src/bus_handler.rs:61` "keeps `fs-inventory.db` in sync" | a removed package with an instance stays recorded, the error is only logged |
| `finding_caption_upsert` | `src/repo.rs:158` an upsert on conflict updates six columns, not the caption | line 186 writes the caption too, so an update event erases what a user has assigned |
| `finding_rest_by_id` | `src/api/rest.rs:9`, `:10` GET and DELETE `/resources/{id}` get and uninstall a resource | the route on line 91 has the parameter syntax of a later axum than 0.7: no id matches, the router answers 404, the handlers never run |

Lesser ones that reading the models side by side with the comments shows, without
a run of their own:

* `src/store.rs:22` calls upserts "always idempotent": of two concurrent upserts of
  a new id, one returns a database error (`InstallInsert`).
* `src/repo.rs:117` promises NotFound "if the id does not exist": of two concurrent
  uninstalls both return Ok (`UninstallDelete`).
* `src/repo.rs:220` "All service instances providing a specific role": an underscore
  or per cent sign in the role matches anything, since line 230 pastes it into a
  LIKE pattern; `OnlyProvidersAreFound` leaves such filters out.
* `proto/inventory.proto:29` spells a channel `"stable" | "testing" | "nightly"`: a
  bare word does not decode and is recorded as stable (`ProtoToResource`).
* `src/store.rs:29` "or update its status": an upsert writes seven columns
  (`OverwriteRow`); and line 72: an upsert of an instance drops new variables and S3
  paths (`OverwriteServiceRow`).
* `src/repo.rs:65` `open` fails if "the schema cannot be applied": a failing ALTER
  TABLE is ignored, and later statements fail instead (`MigrateRefused`).
  `WorkingSchema` leaves out the processes this has happened to.

## 6. Not modelled

* What commands print, Display texts, `needs_attention`, `is_running` and
  `ProgramGroup` (`src/models.rs`), and the exit status: no code of the
  repository that changes state reads them.
* Health probe and OpenAPI document: no state. The handlers `get_resource` and
  `uninstall_resource` of REST: no request reaches them.
* The code that SeaORM, tonic and prost generate from the entities and the
  protobuf schema; the columns and fields themselves are in `InventoryCodec`.
* Who publishes on the bus: nothing in this repository does. `InventoryBus` says
  what holds when a publisher exists.

## 7. Plan

Done: all modules of section 2, with every component but the generated code, and
a proof of every safety property. What would be next, should the code grow:

1. `InventoryBus` inside the processes of `InventoryNode`, once `src/main.rs` hands
   the bus to a publisher.
2. The lists of `InventoryApi` filtered by role, from `InventoryApi` and
   `RoleFilter` together.
