# TLA+ specifications of rovs

rovs is a Rust library for Open vSwitch: an OpenFlow client (`rovs-openflow`),
an OVSDB client with an in-memory replica (`rovs-jsonrpc`, `rovs-ovsdb`,
`rovs-types`), a one-shot client over both (`rovs-client`), helpers such as a
shared database handle, topology builders, flow pipelines and a packet-in
controller (`rovs-ext`), and transports (`rovs-transport`). This directory
models its stateful parts and the octets they exchange in TLA+, checks them with
TLC on small instances, and proves with TLAPS what matters most about the
OpenFlow connection, the OVSDB client and its transactions, the flow pipelines,
the shared database handle, the port mapper and the reconnect state machine.

`PROJECT.json` lists components, runs, mutants, the source lines of every
definition, findings, hazards and theorems.

## 1. Inventory

| Component | State | Operations | Talks to |
|---|---|---|---|
| `VConn` (rovs-openflow/vconn.rs) | stream, `next_xid`, connected | connect, send_flow, send_flow_sync, barrier, echo, dump_flows, monitor_flows, recv_flow_updates, recv_packet_in, try_recv_packet_in, send_packet_out | the switch, over one TCP/Unix stream |
| framing, multipart, flow monitor (message.rs, multipart.rs, flow_monitor.rs) | none (the position in the stream) | header codec, entry loops | VConn |
| matches, OXM, actions, instructions, flow mods, packet-in/out, NDP | none | encode, decode | VConn |
| `Connection` (rovs-jsonrpc/connection.rs) | stream, read buffer, `next_id`, `pending_notifications` | transact, recv, recv_notification, reply, the object scanner | the OVSDB server |
| `Client`, `Idl` (rovs-ovsdb) | the connection, replica, Idl state, seqno | connect, transact, commit, list_dbs, cancel_monitor, run, wait | Connection |
| `Transaction` (rovs-ovsdb/transaction.rs) | operations, uuid counter, status, uuid_map | insert/mutate/update/delete/wait/..., create_bridge, add_port, add_patch_ports, set_controller, delete_*; process_result | built by callers, committed by Client |
| `OvsClient` (rovs-client) | the Client | create_bridge, delete_bridge, add_port, delete_port, add_flow, ... | Client, VConn |
| `BridgePair`, `VlanTrunk` (rovs-ext/topology) | their description | create, delete | Transaction, Client |
| `OvsdbHandle` (rovs-ext/ovsdb.rs) | `Mutex<Option<Client>>` | client, disconnect | Client, many tasks |
| `Controller`, `Dispatcher` (rovs-ext/controller) | handlers, the VConn | run, dispatch | VConn, user handlers |
| flow pipelines (rovs-ext/flows): learning switch, VLAN, MAC NAT, ARP and NDP proxy, SNAT, DNAT | their configuration; the flows they leave on the switch | all_flows, install, delete | VConn (send_flow_sync, flow by flow); they share tables with each other |
| `PortMapper` (rovs-ext/util) | two maps | insert, remove, look-ups | - |
| `Reconnect` (rovs-transport) | state, backoff, attempts | the transitions of a reconnecting connection | nothing uses it |
| appctl, address parsing, atoms, datums, schema | none | parse, format | - |

**What is hard.** Nothing here shares memory between threads except the handle;
the difficulty is in *asynchronous* code on one stream. Every `.await` is a
point where the peer may speak, the stream may close, and the caller may drop
the future (`tokio::time::timeout`, `select!`), which leaves what was requested
but not read to whoever reads next. Replies are matched loosely (a barrier
reply by its type alone; a multipart reply by its subtype; a JSON-RPC response
by an id that is compared after it has been consumed). Notifications arrive
between request and response and are set aside. A commit is answered before or
after the update it causes, and the replica is only brought up to date by
certain calls. A transaction is refused by one of its operations or as a whole,
and its caller may not look.

**What makes each part correct.**
- VConn: a confirmation means the flows sent are in the switch; replies go to
  the call that asked; a dump is the table at one moment; flow updates add up to
  the table; echo requests are answered; requests end.
- Connection and Client: a call gets its own answer; no notification is lost or
  overtaken; the replica goes through the database's contents in order and
  reaches the last one; calls end when the connection does.
- Transaction: the status is honest; uuid-names resolve; what is added arrives
  as a whole; a deletion by uuid is accepted.
- OvsClient and builders: no half of a topology; `Ok` means done.
- Bytes: both ends stay in step on the stream; what a reply says of a flow is
  what was installed; the switch refuses nothing the builders have completed.
- Controller: whoever asks for a known address is answered, once, correctly.
- Handle: a guard always has a client; every task is served.
- Scanner: whole messages come out, in order, however they arrive.
- Reconnect: attempts are spaced and go on. Port mapper: its two maps agree.
- Flow pipelines: what traffic meets is right, also while a pipeline is half
  installed; a delete takes all of its own flows and no others.

## 2. Modules

| Module | Models | Kind |
|---|---|---|
| `VConn` | the OpenFlow connection, its caller, its stream, the switch | component |
| `VConnProofs` | theorems of VConn: confirmed flows; answers, dumps and monitors | TLAPS |
| `OvsdbClientProofs` | theorems of OvsdbClient: answers, echoes, the refinement of Replica | TLAPS |
| `TransactionOpsProofs` | what the server makes of the operations that rovs builds: lemmas of the two below | TLAPS |
| `TransactionProofs` | theorems of Transaction: its status, its uuid map, what it adds and deletes | TLAPS |
| `TopologyProofs` | theorem of Topology: nothing is left half done | TLAPS |
| `PipelinesProofs` | theorems of Pipelines: deletes, VLANs, the MAC NAT and the proxies, NAT | TLAPS |
| `SmallPartsProofs` | theorems of OvsdbHandle, PortMapper, Reconnect and JsonScanner | TLAPS |
| `FoldFacts` | what `FoldLeft` computes, for the modules that fold | TLAPS |
| `Octets` | big-endian numbers, padding, layouts of fixed fields, items in a byte string | pure operators (external) |
| `MatchFields` | match_fields.rs and oxm.rs: builders, encoder, decoder | pure operators |
| `Actions` | action/*.rs: builders, encoder, decoder, with learn and NAT | pure operators |
| `FlowMods` | instruction.rs, flow.rs, multipart.rs, flow_monitor.rs | pure operators |
| `Packets` | packet_in.rs, packet_out.rs, ndp.rs and the controller's handlers | pure operators |
| `OfSwitch` | what a switch makes of these octets | external |
| `Wire` | a VConn, a Controller and a switch on a stream of octets | component, composes the five |
| `Proxy` | what an ARP and NDP proxy promises the hosts | abstract specification |
| `Connection` | the JSON-RPC connection: ids, matching, the buffer of notifications | operators on the state of its user |
| `OvsdbClient` | Client and Idl on a Connection, the server, other clients | component, composes `Connection` |
| `Replica` | what an OVSDB replica promises | abstract specification |
| `TransactionOps` | primitive operations; the helpers as sequences of them; the server executing them | pure operators |
| `Transaction` | a Transaction, built, committed, committed again, among others | component |
| `Topology` | one-shot calls and builders on a server, with a stale replica | component, composes `TransactionOps` |
| `OvsdbHandle` | tasks sharing one lazily connected client | component |
| `JsonScanner` | `recv_message`: JSON objects cut out of a stream | component |
| `MessageFifo` | what a stream of messages promises its reader | abstract specification |
| `Reconnect` | the reconnect state machine and its driver | component |
| `PortMapper` | the two maps of ports and names | component |
| `SmallParts` | one of the last four, each with its properties | composition |
| `FlowTemplates` | the builders of rovs-ext/flows as sequences of flow mods | pure operators |
| `Datapath` | the switch: flow mods, matching, actions, connection tracking | external |
| `Pipelines` | templates installed and deleted flow by flow, with traffic | component, composes the two |
| `MC*` | model values and symmetry for TLC | instances |

### VConn
One action per await: `SendX` writes a request (`write_all` of a small message
to a socket, taken to finish when first polled), `RecvX` is one turn of a
receive loop with the message it found at the head of the stream, `SendEchoReply`
the write inside a loop, `Drop` the caller dropping the pending future. Methods
take `&mut self`, so one future (`op`) is pending at a time. `op.pc` is the await
it stands at; `op.acc` the multipart content collected so far. `StreamFails` is
an `Err` from a read or write on a closed stream. The fragment a method returns is
kept in `last`; the sets `sent`, `snaps`, `accepted`, `asked` are history.

The switch is external: a FIFO, it handles requests in order, may refuse any of
them with an Error (after which a refused FlowMod has no effect), answers stats
requests in one or two parts, reports changes to a registered flow monitor, and
sends echo requests, packet-ins and port-status messages when it likes. Other
controllers change the table. Version negotiation is left out, as are payloads;
messages are atomic (`Wire` has their octets).
An abbreviated flow update (for the client's own change) carries no flow: it
counts as an update (`any`) with no change.

### Connection, OvsdbClient, Replica
`toClient` is what the server has written and the client not read, `pending` the
`pending_notifications`, `nextId` the id counter. `TakeResponse`,
`BufferNotification` and `AtEnd` are the branches of `transact`'s receive loop;
`OvsdbClient` runs that loop for connect (get_schema, then the monitor request),
commit, list_dbs and cancel_monitor. `Run` drains `pending`; `Wait` starts with
`WaitPop` (what was set aside) and then reads (`WaitRead`). `Merge` is
`Idl::process_update` over the rows of one table. `transact` with raw operations
takes the steps of `commit` and is not a second operation. Drops happen while a
message is awaited; the read buffer survives them. Monitor versions V2 and V3
differ in the rows they deliver, which the Idl does not understand.

`Replica` says what the replica promises: a copy that takes over, in order, the
contents the database had. `OvsdbClient` is shown to implement it for V1 with
`behind` = the contents the updates set aside and in transit lead to.

### TransactionOps, Transaction, Topology
A primitive operation is a record; `CreateBridge`, `AddPort`, `AddPatchPorts`,
`SetController`, `DeleteBridge`, `DeleteBridgeUuid`, ... are the sequences the
helpers append, with `named` uuids numbered by `uuid_counter`. The server
(external) executes operations in order, stops at the first error, and at the end
checks references and unique names and collects rows no root refers to. Column
values other than names, references and peers are left out. Default patch-port
names are pairs of bridge names. `Transaction` also has an answer that does not
arrive (the transaction may have been applied), a second commit of the same
transaction, and a rival client. `Topology` has whole calls: each builds,
commits, and returns whatever the code returns.

### OvsdbHandle
tokio's mutex is a FIFO queue and a holder. `client()` queues, then (`Check`)
returns a guard or connects with the mutex held; `disconnect()` queues and takes
the client away. A dropped future leaves the queue or gives up connecting.

### MatchFields, Actions, FlowMods, Packets, Wire
Octets are numbers below 256. A match is a function from the names of the fields
of `Match` to values; an action, an instruction, a flow a record. A table of rows
`<<field, number, kind, mask>>` stands for the chain of `if let`s of
`Match::encode`, in its order, and others for the three decoders; a *layout* (a
sequence of `<<field, width>>`) for the code that writes or reads a fixed
structure. `DecodeX` returns what the Rust decoder returns; a failure is `Bad` for
`Err` and `Panic` for a slice that ends before it starts, as where an instruction
with actions or a flow-stats entry says it is shorter than it has to be
(instruction.rs:162, multipart.rs:355). A loop of decoders (`UntilFailure`) ends with
the first. After a panic the task and its VConn are gone: `last.panic` allows no
further call. That no reply of the switch gets there is part of `NothingMisread`.

`Wire` runs *programs*: each initial state has a short sequence of calls, the
changes of other controllers, the frames and echo requests the switch sends, and
how often reads are split and futures dropped. `ReadPart` is a read that returns
part of what `read_exact` wants, `ReadEnd` the rest of a message, which `RecvX`
handles in the same step; `Drop` may come in between, and `lost` says that it came
inside a message. After that the stream has lost its place, as in the code, and the
model goes no further. `Controller::run` is the call `run`, with
`RecvPacketIn`, `Dispatch` over the registered proxies and the packet-out; it
returns on an error only. Writes are whole.

`OfSwitch` reads messages by the OpenFlow 1.3 specification and the extensions
of Open vSwitch: it splits TLVs, wants prerequisites ahead of a field and no bits
outside a mask, keeps table entries as sets of TLVs and instructions as octets,
answers dumps in one part or several and reports changes with the field numbers
of NXM. It shares no definition with the crate's encoders but `Octets`. Assumed:
version 4 was negotiated; instructions come back as they were installed, a
set_tunnel as the set_field the crate writes it from, an own change abbreviated.

`Proxy` says what an answer is in the octets of RFC 826 and RFC 4861, with the
Internet checksum as a sum that must verify; `Wire` implements it with `asked` =
the questions in the stream and `told` = the packets the switch has sent on and
those under way to it.

### JsonScanner, Reconnect, PortMapper, SmallParts
`ScanByte` is one turn of the loop over the buffer, with the four local variables
in `scan`; `ReadMore` a read of any length, after which the code scans from the
start again; `ReadNothing` the end of the stream. A dropped future leaves the
buffer. Characters are the four that matter and one that does not. How a peer's
texts are read as JSON (`Lexed`, `Mode`, `IsObject`) is external.

`Reconnect` has every method; its driver, which no crate has, is external: it
asks `should_connect`, reports each outcome, doubles the backoff after a failed
attempt, reports activity while connected, and sets `max_backoff` before the first
attempt, if at all. Nothing in reconnect.rs enters Idle or Reconnecting.

`PortMapper` has both maps and its insertions, removals and clear; `moved`
records that a name or port got a second partner, after which the maps may
disagree. `SmallParts` lets one of the four parts run in each behaviour: they
share nothing.

### FlowTemplates, Datapath, Pipelines
A flow mod is a record with a set of matched `<<field, value>>` pairs and a
sequence of actions; each builder is an operator that returns what the Rust
method returns, in the same order. `Encoded` is the one effect of the encoding
that matters: `drop` and `goto_table` have no bytes. Tables are `% 256` and
priorities `% 65536`, as in a release build (a debug build panics); the SNAT
instance uses priority 65530, so that its `priority + 10` wraps.

A `deployment` is a set of templates used together on table 0. `Install` and
`Delete` start a call, `Send` is one `send_flow_sync` that returned `Ok`,
`SendFails` one that returned `Err` (the flow mod may have been applied), which
ends the call; `status` is what the caller can know, and each flow in `table`
remembers its template. `Forward` takes one of the frames through the switch at
any moment, with every outcome the switch may choose (an address of a range, a
packet found invalid, one of several flows of equal priority).

## 3. Runs

| Run | Shows | Bounds, and why they are enough |
|---|---|---|
| vconn_core | `ConfirmedFlowsApplied`, `DumpIsSnapshot`, `NothingOwed`, `EchoesAccounted`, types, over all methods | 2 flows (an unconfirmed one and one to confirm; a dump in two parts), connect and 3 calls: one to be disturbed, one to be left a reply, one to meet it; 1 asynchronous message, 1 foreign change; modulus 6, so xids wrap within the run |
| vconn_monitor | `MonitorFollowsTable` | monitor_flows and recv_flow_updates only; 3 foreign changes: before, during and after the initial flows; updates may be dropped |
| vconn_live | `RequestsReturn` under fairness | connect and 2 calls, dropped dumps and barriers, 1 asynchronous message |
| ovsdb_replica | `ReplicaFollows` (refinement), `AnswerIsOwn`, `EchoesAccounted`, types | one row of two values: insert, modify and delete occur; connect's two requests and 2 more, 1 foreign change, 1 echo; every method may be dropped |
| ovsdb_live | `Converges`, `CallsReturn` under fairness | connect's two requests and 2 more, 1 foreign change, 1 echo, dropped commits and waits, then wait for ever |
| transaction_core | `StatusIsHonest`, `LeadingRefsResolve`, `AddsLand`, `UuidDeletesSucceed` | 2 helpers per transaction (up to 8 operations), 2 commits (create, then delete from a replica that may be stale; or the same again), 1 rival transaction at any point |
| topology_whole | `NoHalfTopology` | 3 bridges (a pair and one that shares a bridge with it), 4 calls |
| wire_all | `DumpTellsFlows`, `UpdatesTellChanges`, `OnlyIncompleteRefused`, `StreamInStep`, `NothingMisread`, `AnswersQuestions` (refinement), `AskersAreTold` under fairness | programs of up to 4 calls: each field builder, action and instruction in a flow of its own, sent, dumped and monitored; flows of another controller with every typed field of oxm.rs and TLVs the crate does not know; modify and delete in all forms; dumps filtered; all pairs of 11 frames; 2 splits, 1 drop, 2 echo requests |
| small_parts | `GuardHoldsClient`, `EveryTaskServed`; `MessagesInOrder` (refinement), `MessagesReturned`; `AttemptsSpaced`, `KeepsTrying`; `MapsAgree`; types | 3 tasks (one that holds, one next in line, one behind it), 2 drops; 2 of 6 texts (nested, braces, quotes and escapes in strings), with and without newline, read in pieces of any length, 1 drop; 9 seconds, greatest backoffs 1, 3 and 8: the doubling reaches each; 3 names and 3 ports |
| pipelines_all | `VlanIsolation`, `MacHidden`, `RequestIsAnswered`, `OnlyInvitedEnter`, `NewIsMasqueraded`, `DeleteLeavesNothing`, `DeleteSparesOthers` | each template, and those that are used together; 3 installs or deletes, 2 frames (a connection's first packet and its answer; two frames to learn from) |

Bounds are guards on calls, changes and asynchronous messages (`MaxCalls`,
`MaxChanges`, `MaxAsync`, `MaxEchoes`, `MaxCommits`, `MaxOthers`, `MaxDrops`,
`MaxSteps`); the state between them is not cut. Deadlock is not checked where a
caller may simply stop calling. The symmetric sets are used in no liveness run.

**Fairness.** VConn: a future whose stream is ready is polled (`ClientSteps`) and
the switch reads its stream (`SwitchHandles`); nobody has to call, nor to speak.
OvsdbClient: pending futures are polled, the server handles what it receives, and
the caller is the event loop of the docs: it connects, and comes back to `wait`
for ever. `Wait` and `WaitRead` are strongly fair: other calls in between, and
drops by a timeout, disable them again and again, but a timeout polls its future
before it gives up on it. Wire: a future
is polled while octets are there, the switch reads its messages; `run` is never
given up but by `drops`. Scanner: bytes that were sent arrive, and the caller
comes back. Reconnect: time passes, and the driver connects when it is told to. Handle:
tasks are polled, connecting ends, and a task gives its guard back (the docs ask
not to hold it across awaits); nothing is assumed about who calls.

### Findings
Runs that TLC finds violated: what the repository says and the code does not do.
- `vconn_sync` (`SyncEnsuresInstalled`) - send_flow_sync does not compare the
  barrier's xid, so a late reply to an earlier call confirms the next flow.
- `topology_delete` (`DeletesDelete`) - deleting a bridge by name is refused by
  the server (it is still referred to), and reported as `Ok`.

Seen while modelling, with no run of their own:
- A `goto_table` in an ActionList is encoded as nothing (action/mod.rs:970), so
  the switch of `LearningSwitchFlows` drops every frame (learning.rs:125); the two
  fields of its `match_field` are swapped as well.
- `tcp_src`, `tcp_dst`, `udp_src`, `udp_dst` and `ip_proto` do not set the
  Ethernet type, which match_fields.rs:1139 says of the builders: alone they are
  refused. So is an IPv4 or IPv6 address with bits outside its prefix.
- NAT arguments, moves and register loads do not come back from a dump; a learn
  action ends before a `match_field` of one bit (its header is 0).
- The constants of action/nxm.rs for IP_PROTO, IP_SRC, IP_DST, TCP_SRC and
  TCP_DST are one less than the numbers match_fields.rs decodes (and Open vSwitch
  uses).
- The actions of a flow update are taken from right behind the match
  (flow_monitor.rs:368), though the match is padded; the match of a monitor
  request is not padded either.
- A dump that starts on the rest of an older, dropped one returns its parts: xids
  are not compared (vconn.rs:260).
- A future dropped between two reads of one message leaves the stream out of
  step for good (vconn.rs:85).
- `Client::run` never reads the stream (client.rs:283): a loop of run sees no
  change. It also drops echo requests, hence the history variable `lost`.
- With monitor versions V2 and V3 the replica stays empty (idl.rs:120).
- A call dropped once leaves a response that fails the next call with
  UnexpectedId, whose own response fails the one after it (connection.rs:99).
- Updates set aside are applied after cancel_monitor (client.rs:455).
- `is_connected` never turns false (client.rs:142), so the shared handle never
  reconnects (ovsdb.rs:65).
- uuid-names are numbered by insert and looked up by operation, so that
  `get_uuid` may return another row's uuid (transaction.rs:365); a refused
  transaction fills `uuid_map` too. `LeadingRefsResolve` states what does hold.
- `create_bridge` reports a bridge it created as not found (client.rs:91).
- The SNAT and DNAT pipelines output established packets without `nat` in their
  `ct` action: the replies to a masqueraded connection are not translated back.
- `push_vlan_flow` says it matches untagged packets, but matches the port only
  (vlan.rs:9); two access ports in one VLAN replace each other's egress flow.
- `SnatGateway::delete` and `LearningSwitchFlows::delete` empty whole tables.

Two more behaviours shape the properties. `monitor_flows` a second time on one
connection takes an update of the first monitor for its snapshot and leaves the
refusal of its own request in the stream (the exception in `NothingOwed`); a
caller that uses other methods besides `recv_flow_updates` misses updates, so
`MonitorFollowsTable` is checked, and proved, for one that does not.

## 4. Proofs

Every theorem is of the form `Spec => []P`, `Spec => A` for an action property or
a refinement, or the like for the specification of a small part, and holds for
every value of the constants: any flows, rows, names, methods in use, any of them
dropped, and any bounds. Those of the flow pipelines and `MonitorFollows` have a
hypothesis on what is used together, named below.

| Theorem | States | Module |
|---|---|---|
| `TypeCorrect`, `FlowsConfirmed` | `TypeOK`, `ConfirmedFlowsApplied` | VConnProofs |
| `EchoesAnswered`, `DumpsAreSnapshots`, `NothingIsOwed`, `MonitorFollows` | `EchoesAccounted`, `DumpIsSnapshot`, `NothingOwed`, `MonitorFollowsTable` | VConnProofs |
| `OvsdbTypes`, `AnswersAreOwn`, `EchoesAnswered`, `ReplicaImplemented` | `TypeOK`, `AnswerIsOwn`, `EchoesAccounted`, `ReplicaFollows` | OvsdbClientProofs |
| `StatusHonest`, `LeadingRefs` | `StatusIsHonest`, `LeadingRefsResolve` | TransactionProofs |
| `UuidDeletesDone`, `AddsDone` | `UuidDeletesSucceed`, `AddsLand` | TransactionProofs |
| `TopologyWhole` | `NoHalfTopology` | TopologyProofs |
| `Emptied`, `OthersSpared` | `DeleteLeavesNothing`, `DeleteSparesOthers` | PipelinesProofs |
| `VlanIsolated`, `MacStaysHidden`, `RequestsAnswered` | `VlanIsolation`, `MacHidden`, `RequestIsAnswered` | PipelinesProofs |
| `OnlyInvited`, `NewMasqueraded` | `OnlyInvitedEnter`, `NewIsMasqueraded` | PipelinesProofs |
| `GuardsHoldClients`, `Agreement`, `Spacing`, `InOrder` | `GuardHoldsClient`, `MapsAgree`, `AttemptsSpaced`, `MessagesInOrder` | SmallPartsProofs |

**VConn, confirmations.** `ConfirmedFlowsApplied` is not inductive: the code takes
any BarrierReply for its own, so the proof has to show that no other can be
there. The invariant is

    IInv == TypeOK /\ SecondWrite /\ ConfirmedFlowsApplied /\ (~broken => BarrierInv)
    BarrierInv == RequestAwaited /\ ReplyAwaited /\ FlowsAccounted

`SecondWrite` says what is between the two writes of send_flow_sync;
`RequestAwaited` and `ReplyAwaited` that a barrier request or reply in flight
belongs to the pending call, and that there is at most one of both together;
`FlowsAccounted` that a flow that was sent is applied, or still on its way ahead
of the barrier, or was refused by an Error that is on its way ahead of the reply
(and will break the connection's history before the confirmation is read). The
proof goes action by action; lemmas about `Append`, `Tail`, `Head` and the
placement of messages in a queue come first.

**VConn, answers.** Echo and stats replies are recognised by their type too. The
invariant adds to `IInv` what is owed while no method has failed:

    ReplyInv == IInv /\ DumpIsSnapshot /\ EchoesAccounted /\ (~broken => OwedInv)
    OwedInv == Owned("echo") /\ Owned("dump_flows") /\ DumpInv /\ MonitorInv

`Owned(k)`: a request or an answer of kind k in flight belongs to the pending
method, is the only one, and nothing of the answer is behind its last part.
`DumpInv`: a stats request in flight finds a dump that has collected nothing, and
the last part in flight, with what was collected or the part ahead of it, is a table
the switch reported for this xid. `MonitorInv`: the parts of a monitor are in
flight only once it is registered, and a request for one, left behind, is one for
a second. The steps of `Next` are first sorted by what they do to the two streams
and to the pending method (`GoesOn`, `AsksNothing`, `WritesRequest`, `ReadsPart`,
`Serves`, `Volunteers`, ...), so that each part is shown for these, not for each of
the actions.

`MonitorFollows` has a hypothesis, `Ops \subseteq MonitorOps`: the connection is
used for monitor_flows, recv_flow_updates, send_packet_out and echo. Of these
only the first two meet updates, and neither skips one; the others of VConn
do skip them (see Findings), and own flows would be abbreviated. Its invariant
`FollowInv` says that before the monitor is registered nothing was collected, that
only monitor_flows collects, and that the view with what is collected and in
flight folds to the table.

**The OVSDB client.** The invariant is `IInv == TypeOK /\ CallInv /\ LinkInv`.
`CallInv` is where a call can be and which ids it can have; `LinkInv` what is in
flight: ids are below `nextId`; the monitor is asked for once, with id 2, and its
reply is ahead of every update and met by connect alone; and a response with the
pending commit's id is what the server did with that transaction (`Recorded`). From the
last `AnswersAreOwn` follows: a response with another id, left by a dropped call,
ends the call with an error.

`ReplicaImplemented` maps `copy`, `behind` and `watching` as `OvsdbClient` does.
The mapped `behind` is a fold over the updates set aside and those in transit.
The steps, with `ViewInv == IInv /\ Latest` (the contents at the end of `behind`
are the database's):

| Step of OvsdbClient | Step of Replica |
|---|---|
| ServerTransact, OtherClient | Commit, or a stutter if nothing changes |
| ServerMonitor | Watch |
| ServerCancel, Close | Unwatch (Close loses what was in transit from some message on) |
| RecvMonitorReply, WaitPop, WaitRead | CatchUp(1), or a stutter for other messages |
| Run | CatchUp of all that was set aside, in one step |
| RecvNotification, sends, drops, errors | stutter: from transit to `pending` nothing is reordered |

**Transactions.** The server executes a transaction as a fold of `Do` over the
operations. `Sound(s, n)` and `Leading(ops, s, n)` are kept from n operations done
to n + 1: there is one result for each and none is an error, there are finitely
many rows, and the n-th of the leading inserts was given the uuid that its result
tells. `OutcomeFacts` then says that an outcome is reported with an error exactly
if nothing was applied, and `ProcessFacts` that result n is entered under n - 1. That
this is the right name needs the numbering: `CallsOps` shows for every helper that
it makes at least one operation that is no insert and numbers the inserts ahead of
it from the counter; so in what any number of calls built, the leading inserts are
those of the first call, numbered from 0 (`BuiltOk`). The invariant is

    IInv == /\ BuiltOk /\ ServerOk /\ DeletesOk
            /\ StatusIsHonest /\ LeadingRefsResolve /\ UuidDeletesSucceed

`ServerOk` says what the database is between transactions, a tree (`Tree`): the row of
Open_vSwitch has bridges, these have ports and controllers, ports have interfaces,
a row has one parent, is reached, and there are finitely many. That every commit
keeps it (`Settled`) needs `Linked(Operations)`, kept in `BuiltOk`: what an operation adds to
a row's references is the row that the insert before it made. In the middle
of a transaction a tree it is not: a mutation that matches several bridges of one
name gives a port several parents, which the server refuses at the end; the
invariant from operation to operation is `Mid`.

`UuidDeletesDone`: `ServerOk` also says that the replica is stale in one respect only
(`Stale`): a row it knows as u's child has, in the database, no other parent than
u. For a row that is there never gets a new parent (`Older`), and a deleted one's uuid
is not given again. `DeletesOk` then says that a row that is deleted by uuid is deleted with
its parent, or with the reference to it (`Covers`), which commits of others
keep (`CoversStays`); a transaction of such deletions leaves no dangling reference and only
shrinks the database (`CoveredSucceed`).

`AddsDone`: `CallsLaid`, in `BuiltOk`, says where in the operations those of each call stand
(`BridgeAt`, `PortAt`), behind those of the bridges created before. Operations that only add
keep every row and reference, and put in what they say (`Grown`); in the end nothing
of it is collected, as it is reached from row 0 (`BridgeLands`, `PortLands`).

**Topology.** `NoHalfTopology` with `Tree` is inductive. A call either only adds or only
deletes by name. What the former add is whole (`Addition`): each inserted bridge
has its local port and each inserted patch port its peer, in two bridges that the
same transaction creates; the rows that were there stay. The latter delete
rows and no references, so one that commits has deleted nothing that is
registered (`DeletionKeeps`): the same fact that the run `topology_delete` shows from the
caller's side.

**Flow pipelines.** They hold for any deployments and any number of calls, failures
and frames, with the configurations of the module. `Rows(t)` is the table of the flows that
template t installs, shown to be what its builders return and the encoding leaves
of it. The invariant is

    PipelineInv == Shape /\ Cleaning

`Shape`: every flow on the switch is one of the rows of its template, or a learned
one, which matches a source address alone, is in table 1 and arises only where
flows of the learning switch are. `Cleaning`: a delete in progress still has to
send what covers the flows that are left of its template; that includes what is
learned in between, so `Emptied` needs no hypothesis.

The rest is about a frame, which visits up to three tables and in each has the
actions of one flow done, one of several outcomes at each action. `ThroughChain` (by
`FoldFacts`) turns a sequence of actions into a chain of traversals, each a
possible result of `Act`, and `Visit` is shown to keep what a proof follows along
the way. VLANs, the MAC NAT and the proxies need one table and no state beyond the
flows, but for one invariant: `Standing`, that the flow of a wholly installed ARP
proxy is in the table (another delete could take it, and a frame could be caught
by a row of higher priority: neither occurs). The NAT proofs follow a frame through the stages
`NatEntered`, `NatTracked`, `NatTranslated` and `NatDone`, with the invariant
`NatConns /\ NatFrame`: a tracked connection is from inside and masqueraded, or from
outside and forwarded by a rule, and what was sent for the last frame was allowed
by those tracked then.

The hypotheses are on `Deployments`. `LearnsAlone` (for `OthersSpared`): no learning
switch with the MAC NAT or the proxies, as a flow it learns replaces another for the
same address. `UsedApart(ts)` (for the properties of frames): a deployment with one of
ts has no template outside of ts, where ts is VLAN alone, the MAC NAT with the proxies, or
SNAT with DNAT. Others share the tables and rule each other out: the code puts
any of them at the table it is told to, and it is the caller who keeps them apart.
`MCPipelines` assumes the hypotheses, so that TLC evaluates them for the run.

**Handle.** `GuardsHoldClients` holds for any number of tasks. A guard's client is
safe only because disconnect() takes the mutex: the invariant `HandleInv` adds
`MutexInv`, that the tasks that connect or have a guard are exactly the mutex's
holder; the order of the queue plays no part.

**Port mapper.** `MapsAgree` is inductive: an insertion that moves nothing touches
in both maps the same pair or a new one, a removal takes the pair out of both.

**Reconnect.** Time enters in two clocks: the code looks at the time since the last
activity, the property at the time since the last failure. The invariant `Grown`
says that they agree in Backoff and that the backoff is at least the `failures`-th
power of two or the greatest backoff; the recursion of `Doubled` is shown to have a
solution up to the horizon.

**JSON scanner.** `InOrder` says that `recv_message` implements `MessageFifo`: for
any JSON objects, any number of them, any pieces they are read in and any futures
dropped in between, it returns the messages whole and in order, and the end after
the last. `TextsAssumption` says what a JSON object is to a reader of characters
(`IsObject`): it begins with a brace, and the depth (`Mode`, with quotes and escapes
as JSON has them) is zero at its last character and not before. The invariant is

    ScanInv == types /\ \E e, lead : InStep(e, lead)

where `InStep` says that the buffer and what has not been read are the messages that
are `Left`, after at most the newline that ended the last one, and that a scan
under way is before the next message (`BeforeNext`) or n characters into it, at the
depth, and in or out of a string, as the text is there (`WithinNext`). `TurnedIs` shows that a
turn of the code's loop does to its three variables what a character does to
the text's, and `ClosesIs` that it ends a message exactly where the depth of the text is
zero. A read starts the scan anew on the same characters, so that dropping a future
loses nothing.

**Folds.** `FoldFacts` has one constant operator, `Step`, and derives from the
definition of `FoldLeft` (a recursive function on the subsets of the domain) that
the recursion has a solution, that two solutions agree on a common prefix, and
hence `Fold` of `<<>>`, of `Append`, of `\o`, of a head and a tail, of prefixes, and
what a fold keeps. Induction is over sets of numbers (`NatSetInduction`, from
the well-foundedness of `<`), as the library's induction theorems take an operator.

**Assumptions.** `TasksAssumption` (the value for "nobody" is no task) and the
`BoundsAssumption`s, `ConstantsAssumption`, `DeploymentsAssumption`, `HorizonAssumption` and `TextsAssumption` (the modulus is a number above 1, bounds are numbers, methods
and helpers and templates are those of the code, no bridge is a port, no value is "no row", backoffs and the horizon are
numbers, texts are JSON objects); TLC
evaluates them in every run of their modules. Nothing is assumed of the sets
themselves, finiteness included.

**Only model-checked:** everything about liveness; `PartsTypeOK`; and
everything about octets and fields (recursion over data, for bounded inputs), with
the refinement of `Proxy`.

## 5. Not modelled

Of OvsdbClient only monitor version V1, the default, is modelled. Of the flow
pipelines: the builders that concatenate proxies, the learning switch on one
table, timeouts, cookies, NAT port ranges, and link-layer addresses inside
neighbour discovery (MAC NAT rewrites only the Ethernet header there).

Of the bytes: message headers shorter than themselves and message types the crate
does not know (the decoders of matches, actions, instructions and entries say what
they do with lengths of any kind, but the switch sends none that is wrong), messages
of 64 KiB and more (`MessageBytes` wraps their length, no run has one), the actions
of a flow update, the Display forms, and the multipart types other than flow
statistics and the flow monitor. Of JSON-RPC: texts that are not messages, which
`recv_message` fails on without removing them from the buffer.

error.rs: names for numbers, for display only. Schema, atoms and datums, address
parsing and conversions, appctl text: plain data with no state or control of
their own.

## 6. Plan

Order: the two connections first, what is built on them, the bytes below them, the
small parts (all done); then the rest.

1. Pipelines: the builders that concatenate proxies, and the learning switch on
   one table.
2. Monitor versions V2 and V3 in `OvsdbClient`.
