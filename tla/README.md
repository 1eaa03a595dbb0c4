# Verification of the Pico IIoT bridge firmware

TLA+ models of the firmware in `src/src`, checked with TLC on small instances and,
for part of them, proved with TLAPS for every value of the constants. The firmware
runs under FreeRTOS SMP on both cores of an RP2040 or RP2350: any two tasks may interleave.

## 1. Inventory

| Part | State | Operations | Talks to |
|---|---|---|---|
| Tag database, `tag-database/tag_database.c` | `s_tags`, high-water mark, mutex, write queue | create, delete, get handle, write (queued), read, metadata; the task that applies writes; load and create of persistent tags | every protocol task; configuration |
| Flash driver, `pico-flash-storage/` | queue of one command, `g_guard_state`, a result semaphore per call | `flash_storage_write`; coordinator task (core 0), guard task (core 1) | called by the configuration only |
| System configuration, `config/system_config/` | `g_sys_cfg`, `g_config_changed`, the static save buffer, the flash sector | load, save, a setter and a getter per section, tag definitions | web server, CLI, network task, tag database |
| Network task, `network/` | `link_was_up`, DHCP mode and retries, registered tasks | poll the link, run DHCP, notify | WIZnet chip; task notifications to its listeners |
| HTTP server, `http-server/http_server_task.c` | `network_ready` | follow the notifications, serve | `http_utils.c`, which calls configuration and tag database |
| Modbus TCP client | socket, `connected`, `network_ready`, requests | connect, poll requests, mark tags BAD | request processor, tag mapping |
| Modbus TCP server | socket, `network_ready`, memory blocks | listen, serve requests | tag mapping |
| Modbus RTU master and slave | UART, requests or memory blocks | poll, or serve | tag mapping |
| Request processor, tag mapping, `modbus/` | none of their own | registers and coils to tags and back | tag database |
| Serial to TCP bridge | socket, UART, `was_connected` | forward both ways, reconnect | network notifications |
| HTTP handlers, `http-server/http_utils.c` | none of their own | a form per section: take the fields in range, set, save | configuration, tag database |
| Logger | log queue, stdio mutex, the terminal | log, drain, print over the input line | everyone |
| CLI | the input line | edit the line, commands | logger's terminal; configuration, tag database |

Tasks meet in four places: the tag database (a mutex and a queue), the configuration (no
lock at all), the flash driver (a handshake of two cores) and the notification values
(bits that add up until they are read); logger and command line also share the terminal.
That is where the behaviour is hard, and each is modelled. `PROJECT.json` lists the
hazards, line by line.

What makes each part correct:

- tag database: names are unique whatever races; no write reaches a slot that was deleted;
  a read never mixes two writes; measurements keep their order; no path keeps the mutex;
- flash driver: while the flash is busy no interrupt and no task runs on either core; every call
  is answered truthfully; the handshake ends;
- configuration: unsaved changes are marked; what is loaded is whole; a save that
  succeeds has left a whole image; tags keep their handles over a reboot, since Modbus
  requests in flash refer to them by handle; all of it for saves that overlap no other task's;
- its clients: no form or command leaves a field out of what its users rely on; an update is lost only
  when two clients overlap; what is saved accumulates;
- network listeners: they resume when the network does; tags are good only within a
  session; sockets do not outlive an address that was leased;
- tag mapping: client and server agree on every register; half a 32-bit value is never
  written; a request stays in its block; a read shows what was written, in every encoding;
- serial bridge: bytes keep their order, none disappears but with a broken connection or
  before a full UART, and it comes back to serving after every fault;
- logger: what is typed survives the log; nobody waits for ever on its queue, once its task has come to its loop.

## 2. Modules

| Module | What it is | Corresponds to |
|---|---|---|
| `TagStore` | what the tag database promises: atomic create, delete, accept, apply | the API of `tag_database.h` |
| `TagDatabase` | the database as it runs, split at every use of mutex and queue and between the accesses of a slot | `tag_database.c`, runtime part |
| `FlashService` | what the driver promises: one write at a time, that succeeds, or changes nothing and fails | `flash_storage_write` |
| `FlashStorage` | callers, coordinator and guard, statement by statement | `pico_flash_storage.c` |
| `FlashStorageProofs` | theorems on `FlashStorage` | |
| `ConfigStore` | configuration in RAM, the shared buffer and the sector; setters, save, load, restart | `system_config.c` |
| `TagDatabaseProofs` | theorems on `TagDatabase`, and that it implements `TagStore` | |
| `ConfigForms` | which fields of which section every form and every `config write` command sets to what, as operators | the handlers of `http_utils.c`, `prvConfigCommand`, the section types and `config_set_default` |
| `ConfigClients` | web server, command line and DHCP callback at work on `ConfigStore`: get, change, set, save | the same, with `network_dhcp_assign` |
| `ConfigClientsProofs` | theorems on `ConfigClients` and the forms | |
| `TagPersistence` | `ConfigStore` with the tag slots of the configuration and the runtime table | flash part of `tag_database.c`, tag functions of `system_config.c` |
| `TagPersistenceProofs` | theorems on `TagPersistence` and the store under it | |
| `Network` | network task, its DHCP and link, and listeners of five kinds | `network_task.c` and the loops of the listeners |
| `NetworkProofs` | theorems on `Network` | |
| `ModbusMapping` | encodings, the conversion of one tag, the client's two passes over its mapping, as operators | the encodings and the client's half of `modbus_tag_mapping.c` |
| `ModbusServer` | block lookup, and the loops of a request register by register, against the queue of the tag database | callbacks of `modbus_tcp_server.c` and `modbus_rtu_slave.c`, server helpers of `modbus_tag_mapping.c` |
| `ModbusLink` | a client bridge with one request, the server, and other masters | `modbus_request_processor.c` over the wire to `ModbusServer` |
| `ModbusProofs` | theorems on `ModbusMapping` and `ModbusLink` | |
| `SerialBridge` | the bytes of the bridge, its socket, UART and buffer | `serial_to_tcp.c` |
| `BridgeProofs` | theorems on `SerialBridge` | |
| `Logger` | producers, queue, logger task and command line on one terminal | `logger.c`, `vCLITask` |
| `LoggerProofs` | theorems on `Logger` | |
| `MCTagDatabase`, `MCFlashStorage`, `MCTagPersistence`, `MCConfigClients`, `MCNetwork`, `MCModbusLink`, `MCLogger` | model values, symmetries and instances | |

`TagDatabase` implements `TagStore` and `FlashStorage` implements `FlashService`
(`StoreSpec`, `ServiceSpec`: an `INSTANCE ... WITH` refinement mapping each, at the end of
the detailed module; both refinements are proved). `TagPersistence` extends `ConfigStore` and uses what the other two
showed: creating and deleting a tag is one step, and no task runs while the flash is busy. Any
number of its tasks set and save configuration; one of them, the web server, creates and deletes tags.
`ConfigClients` extends `ConfigForms` and `ConfigStore`: the forms say what is set, the store
how it is kept. `Network` follows the bridge's task as one of five listeners, without its
bytes; `SerialBridge` follows the bytes, with notifications from anywhere.
`ModbusServer` uses that a read of a tag is of one write and that writes land in order;
`ModbusLink` extends `ModbusServer`, which extends `ModbusMapping`.

How the models read:

- A task is a program counter; its points are the places between two accesses of shared
  state at which another task can come in. `Used`, `Named` and `Vacant` in `TagDatabase`
  scan the table in one step: the scans of create and delete run under the mutex, and
  `tag_db_get_handle`, which does not take it, compares one slot after the other and stops
  at the first match.
- A mutex wait with a timeout may give up whenever another task holds the mutex.
- A measurement is a number, in the order of acceptance, with quality GOOD; a failed poll
  writes 0 with BAD. That is all the properties tell apart.
- In `ConfigStore` an image has two parts, the first flash page (with the version) and the
  rest, since memory is copied and flash programmed from the first byte on. Setters of whole
  sections are one action, `SetSection`: they compare, copy and mark. `Erased` is a section
  of 0xFF bytes. The write of an aligned buffer inside the sector does not fail.
- In `ConfigForms` a section is the set of fields that differ from their default, each with a
  value; a form is a section, an element of it and the parameters sent. A field has a range:
  what the code admits is taken, what it refuses leaves the field alone, and what it casts to
  a narrower type is cast. The limits are those the users of the configuration rely on
  (array lengths, divisors, the four serial settings), so that `ClientsTypeOK` compares two
  different sources. A field on which no user relies beyond its width has no limit there; of the
  tag handles a comment gives a range, which `HandlesAreValid` states and TLC refutes.
- In `Logger` a message is its task and its number, a wait with a timeout may end whenever what
  it waits for is not there, and of the terminal the bottom line is kept: prompt or not, and how
  many characters of the input it shows. `broken` remembers the overrun warning, which
  is printed past the mutex.
- A log call is a step of `TagDatabase` where it matters: `vTagDatabaseTask` logs with the mutex
  taken (c:91), and there (`ApplyLogged`) it may stay as long as it likes.
- In `SerialBridge` the bytes of a direction are numbered as they are made, and `gone` records
  those lost, with their reason in the action that adds to it. Each `recv`, `send` and
  UART loop is one step: the peer, the UART and the network come in between.
- In `Network` the notification value of a listener is a set of bits, `pending`; reading it
  takes all. The bits LINK_UP and LINK_DOWN are left out, as no listener acts on them.
  Link, remote server, sockets and DHCP client are the environment and may do anything the
  WIZnet library allows. The chip's address (`chip`), that of the configuration in RAM (`cfg`) and
  that under which a socket was opened (`opened`) are three things: forms and commands set `cfg` at
  any time, a lease sets `cfg` and `chip`, and a static link-up copies `cfg` to `chip`. `entered` and
  `wasReset` are history: the addresses that were entered, and whether a session ended by a reset.
- In `ModbusMapping` a register is its two bytes and a tag value the four bytes of its union;
  integers and floats of one width are moved alike. The client's passes are operators over
  the whole mapping, as nobody else runs over its local buffers; the server's loops are steps, one per
  register, because each pass reads or writes the shared tag database.
- `last`, `before` and `calm` in `ModbusServer`, and `answer` in `ModbusLink`, are history: they
  remember the request served last and whether anything else has written tags or a full queue
  has dropped a write since. The properties speak of tags only while nothing has.
- `saves` and `damaged` in `TagPersistence` are history too. `saves` is `overlapped` from the moment
  a task changes or saves configuration while another saves, `resaving` once a save has begun on its
  own after that, and `settled` again when that save has written. `damaged` says that a restart met
  a save that was not settled, or a power failure between two pages of a program. The
  properties named `...Alone` and `...Undamaged` are the documented ones (`UnsavedIsMarked`,
  `LoadsWholeConfig`, `SavedIsWhole`, `DoneIsDurable`) outside of those cases; inside, TLC refutes them (section 3).
- An operator introduced by "Were it like this" is a plausible mistake in the action next to
  it. It is no part of any specification; it shows which mistake the named property catches.

## 3. Runs

| Run | Question and result |
|---|---|
| `tagdb` | Two tasks create tags, one of them deletes, the other resolves, writes and reads. Names stay unique, deleted slots stay reset, reads are of one write, and `TagStore` is implemented. 2 tags, 2 names, queue of 1, 1 measurement: enough for a slot to be reused under another name while an old write is queued and another is in hand. |
| `tagdb_live` | Under fair scheduling, and as long as log calls return (`LogCallsReturn`), the mutex comes back, accepted measurements leave the queue, and none lands after a later one. 1 tag, 2 names, 2 measurements and a queue of 2: the table fills, and both measurements can wait, or one be in hand while the other waits. Nobody reads here; that a read gives the mutex back is part of `MutexComesBack`. |
| `tagdb_reuse` | Violated: a cached handle or a queued write reaches another tag in a reused slot. |
| `flash` | Two callers, two images, aligned and unaligned calls, power failure anywhere. While the flash is busy both cores have their interrupts disabled and nothing but the guard can run on core 1; the handshake holds, `FlashService` is implemented, calls are answered, interrupts return. Two callers are all there are: web server and CLI. |
| `tags_persist` | Web server and command line set and save sections, the web server creates and deletes persistent tags; watchdog reboot or power failure between any two steps. The slots in RAM mirror the table between calls, whatever overlaps. For saves that nothing overlaps, and again after the next lone save: what is reported as persisted is in flash, unsaved changes are marked, a save that returns true has left a whole image. No restart loads erased bytes or moves a tag unless it meets overlapped saves or the gap between two pages. Two tasks (web server and command line are the two that save; the network task sets without saving, and the theorems are for any tasks), table of 3, 2 persistent slots, 3 names, one other section: both tables fill, slots are reused, and saves overlap at every point. |
| `persist_done` | Violated by two tasks: a tag created during another task's save is reported as persisted, and is not. |
| `clients` | Every form and every command, each parameter alone, in and out of range, and all at once, against the DHCP callback, saves and watchdog restarts. Fields stay in range, an update is lost only in an overlap, the last save to return leaves a whole image, and what the forms alone save accumulates. Three acts, two of them forms: two clients overlap in any way while the third sets or saves. Each behaviour works on one section, as sections share nothing but the save, which copies them all. |
| `network` | One listener of any kind under static address or DHCP with one retry, two addresses; link, peer and the configured address change at will. Tags are good only in a session or after a reset, Modbus sockets follow every address that was leased, the web server resumes, a Modbus client that operates reads good values again. Listeners share nothing, so one at a time meets every order of its own steps and the network task's; one retry passes through fail, give up and start over. |
| `network_resume` | Violated: READY and IP_CHANGED, or NOT_READY and READY, read in one value send a listener to wait for a READY that was already taken. |
| `modbus` | A client polls a server while other masters read and write any range and other tasks write the tags. Requests stay in their block, responses show the block's layout wherever they begin, acknowledged writes set whole tags and nothing else, and client and server agree after a poll. Two tags, three registers, a queue of 2: a 32-bit tag fits in the middle, at the end and over the edge of a request, an unmapped register fits between, and a write of two tags fills the queue. |
| `logger` | Two producers, command line and logger, a queue of 3, two messages each and an input of 2 characters. The prompt shows what was typed; and if the others leave the logger room before its loop, or it comes there in spite of them, nobody waits for ever: the queue overflows, commands log while they hold the terminal, and the logger's wait for the terminal times out. |
| `bridge` | Server or client, buffer and FIFO of 2, three bytes each way, three faults (notifications, outages, resets, closings). Three bytes do not fit into one buffer or FIFO, so that reads are cut, sends continue and the UART overflows; three faults break a connection, its successor, and the network in between. Order, completeness, and service once faults cease. |

Each violated property is what a comment or page of the repository says, quoted in
`PROJECT.json` under `findings`. TLC's symmetry is used only in safety runs.

More of what comments and pages say does not hold. A configuration beside the runs shows each; TLC
finds its one property violated:

| Configuration | Of module | Property | What happens |
|---|---|---|---|
| `FlashWindow.cfg` | `MCFlashStorage` | `CoresInRam` | The guard publishes WAITING (`pico_flash_storage.c:90`) before it calls its loop in RAM (`:93`), so that the flash may be erased while core 1 still fetches that call from it; the comments say that both cores are in RAM (`:6-7`, `:139`). |
| `TagPersistenceMark.cfg` | `MCTagPersistence` | `UnsavedIsMarked` | A section set during another task's save loses its mark (`system_config.c:264`), contrary to `:25`. |
| `TagPersistenceSave.cfg` | `MCTagPersistence` | `SavedIsWhole` | One task refills the static buffer that another is about to have programmed (`system_config.c:258`); that save returns true over erased bytes, contrary to `:237`. |
| `TagPersistencePower.cfg` | `MCTagPersistence` | `LoadsWholeConfig` | One task suffices: the power fails after the first page, whose version is all that the next start checks (`system_config.c:207`), contrary to `:197`. |
| `NetworkReset.cfg` | `MCNetwork` | `BadBeforeReconnecting` | A reset session shows as SOCK_CLOSED, which opens the next socket with the tags still GOOD (`modbus_tcp_client.c:387-401`), contrary to `:209-210`. |
| `NetworkAddress.cfg` | `MCNetwork` | `AddressChangesAreTold` | An address that a form or command entered reaches the chip at the next static link-up (`network_task.c:199-222`), or with a lease of that same address (`:120-139`), without IP_CHANGED (`network_task.h:33`). |
| `LoggerStart.cfg` | `MCLogger` | `LoggingReturns` | The others fill the queue before the logger has logged its own two messages (`logger.c:111`, `:118`), and everybody waits, contrary to `logger.h:9`. |
| `ModbusLinkGaps.cfg` | `MCModbusLink` | `EntriesAreRegisters` | A request whose first entry is "Not Mapped" gives the second entry's tag the first register (`modbus_tag_mapping.c:123`), contrary to `Web-Interface:-Modbus-RTU.md:71-72`. |
| `ConfigClientsLease.cfg` | `MCConfigClients` | `SavedAccumulate` | The DHCP callback sets mode and address again after a form has saved a static one, and the next save of anything keeps that, contrary to `Web-Interface:-Applying-Changes.md:41`. When the library calls back on a renewal is not in the repository. |
| `ConfigClientsHandles.cfg` | `MCConfigClients` | `HandlesAreValid` | The form of a request stores handles from 128 to 254 (`http_utils.c:607`), contrary to the comment before it; the tag database refuses them whenever they are used. |

Two more configurations differ from these in a constant only:

- `TagPersistence.cfg` with `Persist = {TRUE, FALSE}`: `Mirrored` and `RebootKeepsHandles` fail. With tags
  that are not persistent in the table, a persistent tag comes back under another handle. Every
  caller in the code passes TRUE (`http_utils.c:1454`, `:1505`).
- `ModbusLinkGaps.cfg` with a poll that maps a third tag at the second register of a 32-bit tag:
  `modbus_map_from_tags` passes over it, `modbus_map_to_tags` writes no tag there but moves `reg_idx`
  on, so that every later tag of a read gets the register after its own. The attempt to prove
  that client and server agree found it. `Packed` in `ClientMirrorsServer` excludes both kinds of
  layout, and nothing in the code does: "Not Mapped" is offered to the user for any register
  (`Web-Interface:-Modbus-RTU.md:71-72`), so that the agreement is one of packed requests only.

Bounds of the models: `MaxSamples` in `TagDatabase` bounds the measurements; in `ModbusServer`,
`Samples` are the values other tasks write, `Addresses` and `Data` what other masters ask for
and send (`Data` maps a request to the buffers it may carry; TLC tries one value per
address, so that a register that lands in the wrong place shows), and
`BlockLists`, `Typings` and `Polls` the configurations TLC tries: three block lists over
a 32-bit and an 8-bit tag, or a 16-bit tag and a deleted one, and four polls, in encoding DCBA,
the one that exchanges both words and bytes. The other encodings are covered by the theorems
below. `MaxPosts` and `MaxActs` in `ConfigClients` bound forms and acts of a behaviour; in `Logger`,
`MaxMessages` the messages of each task;
in `SerialBridge`, `MaxBytes` the bytes of each direction and `MaxFaults` the faults.
All other constants are sizes the code has too.

### Logger

`vLoggerTask` logs up to two messages through its own queue before it receives the first. It has
the lowest priority, so other tasks come first; if they fill the queue, the only consumer
waits for ever for room that only it can make, and so does every task that logs after that
(`LoggingReturns`). It takes at least one message less of the others than the queue holds
(`RoomForTheLogger`), 31 with the code's `LOGGER_QUEUE_LENGTH`; whether they log as many while they
start is not decided by anything in the code. If they log fewer, or the logger comes to its
loop in spite of them, it stays there and a full queue is harmless (`EveryoneGoesOn`), also for a command that logs while it holds the
terminal: the logger gives up on the terminal after a second and drops the message.

A task that waits in a log call keeps what it holds. The one mutex besides the terminal's that is
held during one is the tag database's (`tag_database.c:91`), so everything said about the progress of
the tag database is said as long as log calls return. `tag_db_load_from_flash` logs with that
mutex taken as well (c:417), but runs in `main` (`main.c:85`), before the scheduler starts (`:160`),
where a log call prints directly and waits for nobody.

## 4. Fairness

- `TagDatabase`: weak fairness of the database task, which blocks only on its queue and on a
  mutex with a timeout, and of every task inside a critical section. The one wait inside a critical
  section is the log call of the database task, which the logger may never end (section 3): it is not
  assumed to end. `LogCallsReturn` is the premise of both liveness properties and says that it
  does, and that the task does not hang in the other log calls of its loop either.
  Clients need not call, and need not get the mutex.
- `FlashStorage`: weak fairness of coordinator and guard, which busy-wait for each other on
  two cores; strong fairness of a writer's return, which needs a core to run on. Writers need
  not call, and power need not stay on: a restart answers every call.
- `Logger`: weak fairness of the logger task, which has the lowest priority but runs when the
  others sleep; of the end of a command; and of each send that finds room. Producers need not log,
  nobody need type. That the logger comes to its loop is no assumption:
  `EveryoneGoesOn` says when it does, and what follows if it does.
- `SerialBridge`: weak fairness of the task, whose loop never blocks for good as long as a
  connected peer keeps reading (the loop at `serial_to_tcp.c:156-165` spins while `send` takes nothing:
  `Send` takes at least a byte, so a peer that stops reading but stays connected is assumed away),
  and of a peer that can reach the listening server. That faults cease is the premise of `KeepsServing`.
- `Network`: weak fairness of the network task and of each listener; each runs a loop with
  delays. Nothing is owed by the environment: the liveness properties assume in their premise
  what they need of link, lease and peer.

## 5. Proofs

`FlashStorageProofs`, for any writers and images:

- `TypeCorrect`: the type invariant. It needs that the coordinator has a command in hand
  from the moment it receives one (`CmdInHand`).
- `HandshakeHolds`: the handshake is inductive as it stands. It says what each task may
  conclude from its own position and `g_guard_state`; above all, once the coordinator has
  seen WAITING_FOR_CMD the guard stays in its loop until DONE, and nothing left over from one
  write looks like readiness for the next.
- `NobodyElseRuns`: while the flash is busy both cores have interrupts disabled, core 1 can run
  nothing but the guard, between the publication of WAITING and its loop or in the loop, and
  once in the loop it stays there as long as the flash is busy. It follows from the
  handshake alone. That it is in the loop from the start does not hold (`CoresInRam`).
- `ServiceImplemented`: the refinement of `FlashService`. Every call is in one place, with its
  writer, in the queue, with the coordinator or answered, and is answered once (`AnsweredOnce`,
  `OneQueued`); the sector follows the coordinator's position (`SectorFollows`). So a
  step of the coordinator is a step of the call it has in hand and of no other.
- `HandshakeGoesOn` and `HandshakeComesToAnEnd`, the safety half of the two liveness properties:
  one of the two tasks can always go on, because the coordinator spins only while the guard is
  called, on its way or there (`GuardIsCalled`); and each step but the receipt of the next command
  leaves fewer (`StepsLeft`, which counts a pending notification as the steps it will cause).

`NetworkProofs`, for any listeners of any kinds and any number of retries:

- `TypeCorrect`: the type invariant; it needs that the retries are used up only in the long
  delay (`RetriesLeft`), or the counter would leave its range.
- `GoodOnlyWhileConnected` and `SocketsFollow`: neither property is inductive alone. The wait
  for the network takes IP_CHANGED away without looking at it, which is harmless only because
  a Modbus task waits with its socket closed (`WaitsClosed`), and with it closed until the chip has
  an address (`NotYet`). The configuration differs from the chip only by an address that was entered
  (`CfgIsKnown`), so a change that is not told leads to one of those (`AddressAnnounced`). `ListenerInv` is stated for one listener, and a step of one listener leaves
  the others' alone. After a reset the tags may be GOOD without a session, and `GoodOnlyWhileConnected`
  says so; what the code promises there is refuted (`BadBeforeReconnecting`).
- `WebServerIsTold`, the safety half of `WebServerResumes`: while the address is configured,
  whoever has been told NOT_READY has been told READY as well (`ToldReady`), so the web server
  goes idle only with a READY still to read (`FollowInv`). The other listeners, which let
  NOT_READY win, lack this (`network_resume`).

`ModbusProofs`, for any blocks, mappings, polls, bytes and number of registers:

- `DecodeInvertsEncode` and `EncodeInvertsDecode`: the two functions invert each other in all
  four encodings, in both orders, so neither direction loses a value or a register.
- `MappingRoundTrip`: what the client's first pass makes of tags, its second makes the same
  tags of, for a packed mapping that has each tag once.
- `TypeCorrect` and `ServerStaysInBlock`: neither says where a request came from, so the proof
  carries it from the lookup: `Bounds` says that a request in hand lies in its block and has a
  buffer of one register for each of its addresses, and that the buffer stays the client's until
  it has taken it. It holds when a request is accepted because
  the block found covers the whole range (`ServedIsInBlock`) and the client sends one register
  for each address (`SentType`), and a pass of a loop changes neither.
- `ResponsesFollowTheMap`: `ReadInv` says what the buffer holds in the middle of the loop: the
  registers passed, and the second half of a tag if `skip_next` is set, are what the block's
  layout expects (`ReadsInOrder`), and `skip_next` is set at the second register of a 32-bit tag
  and only there (`InStep`), given that the request begins at a tag. `Layout` ties the tag
  that the loop meets to the register it belongs to.
- `AcknowledgedWritesLand`: `WriteInv` says it of the tags: a register of the request passed is
  in its tag, once the queue is applied (`Latest`: the last write queued for a tag, or what
  the tag shows if there is none), and every other tag is as it was before. The lemmas on
  `Latest` say what a write queued and a write applied change of it: only the tag named.
- `BridgesAgree`: `LinkInv` says that the request served, while the client asks, is the
  client's poll, and that after a response to a read the client's tags are what its pass
  made of the buffer. Agreement is then a fact about two layouts of one buffer, the client's entry
  by entry, the server's register by register.

What `Taken` and `RegIdx` of the client's passes compute is proved by induction over the position;
its induction theorem is derived here from the well-foundedness of the naturals (`Induction`:
a set of naturals that has no least element is empty), as the library's takes an operator.

`TagDatabaseProofs`, for any numbers of tags, names, tasks, queue places and measurements, each on
top of those before:

- `TypeCorrect`: the type invariant; it needs that a handle in use was checked
  (`HandleChecked`), as `tag_db_write` and `tag_db_read` check it before the mutex.
- `NamesAreUnique` and `DeletedStaysReset` rest on `NameInv`: whoever is inside a critical
  section holds the mutex (`Exclusion`), the slot that a creation or deletion works on is
  vacant and, for a creation, its name is nobody's (`Filling`), every other vacant slot is
  reset (`VacantIsReset`), and the slot a write is being applied to stays live (`Applying`).
  Steps outside the critical sections leave the table alone (`OutsideNames`); inside, the
  others stand still (`InsideExclusion`).
- `ReadsArePairs`: `PairInv` says that every queued write is a pair, so is every live slot
  but the one being written, and a read half done has copied the value its slot still has.
- `LandsInOrder`, an action property: measurements in the table come before the one in
  hand, which comes before those queued (`OrderInv`).
- `StoreImplemented`: the refinement of `TagStore`. A tag shows from the commit of its creation
  to the mark of its deletion, and a write shows with its value, its quality ahead of it:
  nobody sees the difference, because whoever could is outside the critical section
  (`NothingHalfApplied`). The write in hand and the queue make up the buffer: receiving moves a
  write within it (`IntoHand`), and what is applied or dropped is its first (`TakenOut`).
  It needs that whoever creates or deletes has a name, and so has every live tag (`NamedInv`).
- `MutexComesBack`, the safety half of `MutexIsGivenBack`: who has the mutex is inside
  (`HolderIsInside`, the converse of `Exclusion`), and its next step has no wait, since a scan finds a
  lowest slot or none (`LowestOf`), or it is the database task in its log call, the only one
  that logs inside (`OnlyItLogs`); each of its steps leaves fewer (`HolderLeft`).

`TagPersistenceProofs`, for any tags, names, slots and sections:

- `TypeCorrect`: the type invariant, for any tasks and restarts.
- `UnsavedAreMarked`, `LoadsAreWhole` and `SavesAreWhole`, for any number of tasks that save, with
  watchdog restarts and power failures, under no further hypothesis. They rest on `StoreInv`.
  Without damage the configuration is sound. While in addition no save was overlapped, or one runs
  alone again, there is one saver, which works for the configuration as it is: `BufInv` says what
  buffer and flash hold at each point of its save. While all is settled, `ImageInv`: the flash is
  erased or an image to work with, except between the two pages, and the configuration's
  when nothing is marked. A lone save takes BufInv back to ImageInv, whatever was there before.
- `SlotsMirrorTable`, `DoneSurvives` and `HandlesSurvive` for the tags on top of it, under `AllPersist`:
  tags are persistent, as all callers make them. `CallInv` says how the slots differ from
  the table in the middle of it: a new tag is missing, at the lowest free slot or at no slot
  (`Adding`), or a deleted one is left over (`Removing`). Table and configuration choose their slot
  independently, and it is the same one because both search for the lowest. `FlashInv` says that what a restart
  would load is at its handle (`Agrees`) and, between saves, that it is the slots (`InFlash`).

`ConfigClientsProofs`, for any requests, forms per behaviour, registers per request, and clients that
overlap in any way:

- `FieldsStayWithinLimits`: the limits of the configuration's users and the ranges of each form are
  written down apart; one lemma per form says that what it takes `Fits`, and the edit of a section
  within its limits stays within them (`EditsAreGood`), also for the flags of a form and the
  elements of a list (`UpdatedIsGood`, `ValueOfUpdated`).
- `UpdatesAreLostInOverlapsOnly`, an action property, over every form and command: what a form
  does not edit it writes back as it was read.
- `OverlappingSavesSettle`, also where saves overlap, unless a restart cuts one off: `SettleInv` says
  that a buffer that is not filled has somebody who will fill it, and a flash that is not whole
  somebody who will write it again, so that the last to return leaves it whole.
- `FormsAccumulate`, under `WatchdogOnly` (a restart is the watchdog's; power failure is
  in section 3): `AloneInv` says of a behaviour without overlap that a form works on what
  was taken so far (`FormInv`), that what is saved is what is set (`CopyInv`), and that flash and
  configuration keep it (`KeptInv`).

`LoggerProofs`, for any tasks, messages and line length:

- `InputIsKept`: the mutex belongs to the one that is printing (`HolderPrints`), so that
  nobody types between the erasing and the repainting of the line.
- `OthersMustFillTheQueue`: until the logger's own messages are in the queue nobody takes any, and each
  that is in it is one of those handed in, at most one of them the logger's; so a queue that is full then
  holds the others' messages but for one place. And the logger never leaves its loop. It is the safety
  half of `EveryoneGoesOn`, at any length of the queue.

`BridgeProofs`, for any buffers, bytes and faults:

- `BytesInOrder` and `BytesComplete`: per direction, what was handed on is rising and
  below what waits, which is rising and below what is not yet made, and the parts and the lost
  bytes make up all that was made. It needs that the UART buffer is filled only when it is
  empty and that the socket is closed in order only once it is read to the end. Lemmas on
  cutting and joining sequences carry it through the pieces of reads and sends.
- `BridgeComesRound`, the safety half of `KeepsServing`: in a pass of its loop the task always has
  a guard that is true (`CanGoOn`, from `RoundInv`: what the socket may have become since its
  status was read, and that a send has bytes left), each step leaves fewer to the end of the pass
  (`PassLeft`), and nothing outside adds any; a closed connection that is drained gets no new bytes.

Assumptions are those on the constants (`SectorValues`, `ConfigAssumption`, `TagAssumption`,
`FormsAssumption`, `ClientsAssumption`, `NetworkAssumption`, `MappingAssumption`, `ServerAssumption`,
`LinkAssumption`, `WritesAreAllowed`, `SizesAreNat`, `TasksAreDistinct`, `LoggerAssumption`,
`BridgeAssumption`); TLC evaluates each. `AllPersist` and `WatchdogOnly` are hypotheses of the theorems
that need them.

So every type invariant, safety invariant and action property that a passing run checks is proved.
Only model-checked is liveness itself (`MutexIsGivenBack`, `AcceptedIsHandled`,
`QueuedIsAnswered`, `InterruptsComeBack`, `WebServerResumes`, `ClientReconnects`, `EveryoneGoesOn`, `KeepsServing`), as
TLAPS has no rule for ENABLED. The properties of the violated runs do not hold.

## 6. Not modelled

- Vendored code (WIZnet, nanoMODBUS, FreeRTOS, FreeRTOS-Plus-CLI) is environment; nothing in
  it is checked, and it is a large part of the lines under `src/`. Board pins, the web page
  and its script, splitting and formatting of text (JSON answers, CGI parameters, command
  words, log colours) are not modelled: they keep no state that a property could speak of.
- UART and TCP framing of Modbus requests, which nanoMODBUS does: a request arrives whole or
  not at all, with a quantity of at least 1. A tag keeps its type during a request. A
  response that comes late on a serial line is matched by address and function code only;
  that is nanoMODBUS's. Its read callbacks with a byte timeout of 0 read nothing.
- A queue that fills in the middle of a write request: `ModbusServer` models the drop, and
  the properties speak of requests in which none was dropped.
- The scan of `tag_db_get_handle` slot by slot: it takes no mutex, and is one step of the model, so that
  what it may answer while tags are created and deleted around it is not covered.
- When the WIZnet DHCP client calls back on a renewal: `Lease` may come at any time.
- The registration with the network task (it precedes the first notification by design) and
  the loss of a notification when the mutex is busy for 10 ms (it never is for so long).
- The number of the bridge client's local port, which is incremented on every attempt and wrapped only
  where a socket fails to open (`serial_to_tcp.c:347`): which ports the chip refuses is not in
  the repository. Two tasks that share one UART, which the wiki allows
  on one bus and advises against otherwise (`Web-Interface:-Modbus-RTU.md:117`).
- Colours, time stamps and levels of the logger.

Observed while modelling, and not the subject of a property: `CLI-Reference.md:391` says that logger settings take effect
immediately, while `config write device` sets the configuration and the logger reads it
once, when it starts. The retry delay of the bridge's client is skipped in the states
INITIALIZING and CONNECTED (`serial_to_tcp.c:537-546`). The script of the web page reports
success whatever a form answers. The list of tags holds what fits into its 1800 bytes.
The comment at `system_config.c:34` speaks of four example data points; there are none.

## 7. Open ends

1. The type of a tag read apart from its value: `ModbusServer` over a table in which a tag may
   be deleted and its slot reused during a loop.
2. The step from `TagDatabase` to the values and queue of `ModbusServer`, which uses what was
   proved of the database without being composed with it.
