# A verification project for the nRF5 Mesh stack of this repository

The repository is a Bluetooth Mesh stack in C (nRF5 SDK for Mesh) with a
temperature monitoring application built on its light switch example.  This
directory holds TLA+ models of the parts that keep state and have to keep it
right: against each other, against the radio, and against a power failure at any
instruction.  `PROJECT.json` maps every definition to the lines it models.

How to run: `tlc -config MCNetState_powered.cfg MCNetState` (any `.cfg` with the
module named before the underscore), and `tlapm` on each module whose name ends in
`Proofs`; each takes a few minutes at most.

## 1. The system

```
 examples (light switch client/server, pb_remote, dfu, serial, beaconing)
 models      config server/client, health, simple on/off, pb_remote
 access      access.c, access_publish, access_reliable, device_state_manager
 provisioning  PB-ADV link, provisioner, provisionee
 transport   segmentation and reassembly, replay cache
 network     encryption, relay, message cache, net_state, net_beacon, heartbeat
 core_tx / bearer   advertiser, scanner, bearer_handler, instaburst, timeslot
 services    flash_manager + defrag -> mesh_flash -> flash,
             packet_buffer, packet_mgr, fifo, msqueue, bearer_event,
             timer_scheduler
 dfu, serial, bootloader   firmware transfer, host interface
```

| component | state | operations | interacts with | what makes it correct |
|---|---|---|---|---|
| net_state | IV index, update state, timers, lock count, sequence number and its limit, allocation flag, two flash entries | allocate a number, start/end an update, lock, beacon, minute timer, recover, reset | network (allocation), transport (lock), net_beacon, flash manager | no pair of IV index and number is used twice, not even after a power failure; the lock holds; an update ends |
| flash_manager | action queue, current action, seal, invalid bytes, listeners | add area, alloc/commit/invalidate entry, walk entries, process queue | packet_buffer, mesh_flash, defrag, all users of flash | a replaced entry is either the old or the new one at every boot; the area is always walkable; a waiting user is told of room |
| flash_manager_defrag | recovery page, step | compact an area | flash_manager, mesh_flash | no live entry is lost, at whatever step the power fails |
| mesh_flash | per user queue of operations, tokens | push, execute in a timeslot, notify | flash_manager, timeslot | operations in order, one end callback each |
| packet_buffer | ring of packets of any length: head, tail, a state per packet | reserve, commit, pop, free, flush | flash_manager, advertiser, scanner | first in first out, no overlap, room that exists is found |
| packet_mgr | pool of reference counted buffers | alloc, incref, free | transport, access, serial | no buffer freed while referenced, none lost |
| fifo, msqueue, queue, list, cache | heads, tails | push, pop, move, iterate | everyone | order, bounds, no lost element |
| bearer_event | flags, deferred queue, critical section depth | flag set, post, handle | everyone | an event set is handled; nothing runs in a critical section |
| timer_scheduler | sorted list of timers | schedule, abort, reschedule, fire | everyone | fires in order, never after an abort |
| network | key set per packet, relay state | alloc packet, send, receive, relay | transport, core_tx, net_state, msg_cache | a number per packet, no message relayed twice |
| transport | SAR sessions, ack state, session cache, timers | send, receive segment, ack, cancel, timeouts | network, access, net_state (lock) | a message is delivered once and whole, a session ends and frees the lock |
| replay_cache, msg_cache | ring of recent sources | has, add | transport, network | nothing accepted twice, no legitimate message refused |
| heartbeat, net_beacon | publication and subscription counters, beacon intervals | timers, receive | network, net_state | counters stay in range, beacon interval adapts |
| access, publish, reliable | models, subscriptions, publications, pending transfers | add, subscribe, publish, send reliable, timeouts | transport, device_state_manager, flash_manager | a reliable transfer ends exactly once; what is stored is what is used |
| device_state_manager | addresses, subnets, app keys, device keys with reference counts | add, remove, key refresh phases | access, network, flash_manager | counts match the references; both keys valid during a refresh |
| provisioning, PB-ADV | link, transaction, protocol state | link open/close, packets, timeouts | bearer, crypto | both sides agree or both fail; a retransmission is not a new packet |
| config, health, on/off, pb_remote models | client request state, fault arrays, on/off state | opcode handlers, timeouts | access | one request at a time, a reply matches its request |
| bearer (advertiser, scanner, ...) | queues of packets, radio actions | send, receive, timeslot | timeslot, packet_buffer | packets repeated as asked, in order |
| dfu, bootloader, serial | transfer state, banks, parser | data packets, requests | flash, bearer | a firmware is flashed whole or not at all |

Hard behaviours: power failure between any two flash operations; queues that are
full, with users registered to be told of room; handlers that call back into the
module that called them; interrupts of two priorities; messages lost, repeated and
reordered; timers that race the answers they wait for; counters near their end.
Each is listed at its line under "hazards" in `PROJECT.json`.

## 2. Modules

| module | models | of |
|---|---|---|
| `NetState` | `mesh/core/src/net_state.c`, with the queue of `flash_manager.c` as its users see it | core |
| `NonceSource` | the abstract promise to the encryption: ever later pairs | abstract specification of `NetState` |
| `MCNetState` | bounds, fairness and scenarios for TLC | runs `netstate_*`, two units of `MCComponents` |
| `NetStateProofs` | TLAPS proofs about `NetState` within a power cycle, its types and its IV index lock | theorems |
| `NetStateRecoveryProofs` | TLAPS proof about `NetState` over power cycles | theorem |
| `PacketBuffer` | `mesh/core/src/packet_buffer.c`, word by word | services; unit of `MCComponents` |
| `PacketBufferProofs` | TLAPS proofs about `PacketBuffer`, and that it implements `PacketQueue` | theorems |
| `PacketQueue` | the abstract promise to the users: one consumer, first in first out | abstract specification of `PacketBuffer` |
| `Subsequences` | a sequence without some of its elements, or with one more | used by `PacketBuffer`, `PacketQueue`, `TimerScheduler` and `AccessPublish` |
| `FlashManager` | `mesh/core/src/flash_manager.c` and `flash_manager_defrag.c` on an area of one page, flash word by flash word | services |
| `FlashStore` | the abstract promise to the users: a value per handle, each request as a whole or not at all | abstract specification of `FlashManager` |
| `FlashManagerProofs` | TLAPS proofs about `FlashManager`, and that it implements `FlashStore` | theorems |
| `MCFlashManager` | a page of eight words, users and scenarios | runs `flash_*` |
| `ReplayCache` | `mesh/core/src/replay_cache.c` | used by the next two |
| `ReplayProtection` | `transport_packet_in` with the cache over IV updates | unit of `MCComponents` |
| `ReplayProtectionProofs` | TLAPS proof about `ReplayProtection` | theorem |
| `TransportSar` | segmentation and reassembly of `mesh/core/src/transport.c`, every node a sender and a receiver | transport |
| `MCTransportSar` | two nodes, a group, three messages | run `sar_reassembly` |
| `TimerScheduler` | `mesh/core/src/timer_scheduler.c` | unit of `MCComponents` |
| `Advertiser` | `mesh/bearer/src/advertiser.c` with `broadcast.c` | unit of `MCComponents` |
| `AccessReliable` | `mesh/access/src/access_reliable.c` | unit of `MCComponents`, run `reliable_callback` |
| `AccessPublish` | `mesh/access/src/access_publish.c` | unit of `MCComponents` |
| `Dsm` | `mesh/access/src/device_state_manager.c` with its flash area | two units of `MCComponents`, run `dsm_retry` |
| `PbAdv` | `mesh/prov/src/prov_bearer_adv.c`, both ends of a link | unit of `MCComponents` |
| `BearerProofs` | TLAPS proofs about `Advertiser` and `PbAdv` | theorems |
| `Provisioning` | `prov_provisioner.c` and `prov_provisionee.c` over a link that `PbAdv` promises | unit of `MCComponents` |
| `ProvisioningProofs` | TLAPS proof about `Provisioning` | theorem |
| `Heartbeat` | `mesh/core/src/heartbeat.c` with the heartbeat messages of `config_server.c` | unit of `MCComponents`, run `heartbeat_count` |
| `TimerProofs` | TLAPS proofs about `Heartbeat`, `AccessReliable`, `TimerScheduler` and `AccessPublish` | theorems |
| `ConfigServer` | publications, subscriptions and bindings: `models/config/src/config_server.c`, `mesh/access/src/access.c`, and the addresses of `device_state_manager.c` | two units of `MCComponents`, run `config_crash` |
| `MCComponents` | small instances of the modules that are checked alone | runs `components_*` |

### NetState and the code

The state is split the way a power failure splits it.

| variable | the code |
|---|---|
| `ram` | `m_net_state` (`seqnum`, `seqnum_max`, `iv`, `state`, `pending`, `locked`, `timeout`, `ivr_timeout`), `m_test_mode`, the static lock count of `net_state_iv_index_lock`, `m_seqnum_allocation_in_progress`, the registered memory listeners, and the flash manager's action queue with its processing state |
| `flash` | the entries `FLASH_HANDLE_SEQNUM` and `FLASH_HANDLE_IV_INDEX`, and which of them lies at the lower address, which recovery compares |
| `spent` | a history: the pairs of IV index and sequence number that packets were encrypted with |

Every function of `net_state.c` is an operator from a `ram` value to a `ram`
value with the function's name, so that a handler that calls several functions is
their composition, in the order of the code; an action is a handler.
`AllocatePacket` is `allocate_packet` of `network.c`, `LockIvIndex` and
`UnlockIvIndex` are the start and the end of a transport session, `BeaconReceived`
is the callback of the net beacon, `Minute` the timer, `Reset` the node reset of
the configuration server, `FlashWrite` / `FlashDone` / `FlashFail` are the flash
manager's steps on the action at the head of the queue, `PowerCycle` is a power
failure followed by `net_state_init` and `net_state_recover_from_flash`.
`FreePacketBuffer` tells the listeners of the room in the order they registered,
as `free_packet_buffer` does.

Abstracted: the content of the entries beyond the numbers, the event handlers that
are told of a change, the time in minutes rather than ticks.  Handlers are atomic.

### PacketBuffer and the code

`buf` is `packet_buffer_t` and its pool, a header per word in which one starts;
`live` is what the users know: the packets they hold, oldest first.  There is an operator per local function and an
action per public one.  Lengths are in words: the code aligns them and a header is
one word.  A word that a user wrote to is `data`, so that a stale header that the
code reads shows up as no state at all.

### FlashManager and the code

| variable | the code |
|---|---|
| `page` | the area in flash: whether its metadata is written, and the words behind it |
| `recovery` | the recovery page: the pointer to the page under defragmentation, and the backup |
| `ram` | the module's and the manager's state, `p_seal`, `invalid_bytes`, the action queue with the state of its first action, the flash operations that were pushed and not done, and the defragmentation's step with `found_all_entries` and whether `p_manager` is known |

A function of the code that pushes flash operations (`execute_action_replace`,
`backup_entries`, `write_back`, ...) is an operator that appends them to `ram.ops`,
and `FlashOperation` carries out one: a word, a page erase, a page's metadata or the
pointer.  A power failure may come between any two of them.  `ProcessAction` is a
round of `process_action_queue`, `ActionDone` the flash callback for the last
operation of an action, `DefragStep` that of a step of the defragmentation which
waits for the flash; steps that do not wait for each other are one `ram.ops`.
`PowerCycle` is `flash_manager_init` and `flash_manager_add` of the next boot, before
any flash operation, as at every start-up of the repository.  `mode = "halted"` is an
assertion that failed.

Words only lose bits: `Written` says what remains of a header under
`INVALID_HEADER`, and `WritesLegal` that nothing else is written over what is there.
`Stored` is the refinement mapping: an entry counts when the word behind it is
written, and while the recovery page's pointer is set it is the backup that counts.

Abstracted: an area is one page, as in every configuration of the repository; the
action queue is counted in actions and not in bytes (PacketBuffer has those);
allocation and commit of an entry are one step; a flash that malfunctions and the
removal of an area are left out.

`KeptSpec(kept)` is the specification of the run that passes and of the theorems: users
store the handle `kept` before any other and never invalidate it, and the power fails
neither before that nor while the recovery page's pointer is set.

### ReplayCache, ReplayProtection and the code

The code fills the entries of a bit from the first one and only gives all of them
back together, so that they are a sequence.  `PacketIn` of `ReplayProtection` is the
part of `transport_packet_in` that decides on a packet: the window of the network
layer (`net_state_rx_iv_index_get` and the authentication that fails for any other
IV index), `replay_cache_has_elem`, `replay_cache_add`.  `accepted` is a history.

### TransportSar and the code

`node[n]` is a node's `m_trs_sar_sessions`, its cache of completed sessions, its
replay cache, its lock count and what it told its access layer; `Air(n)` are the
packets sent so far, any of which may arrive, again and again, or never.  An action
is a callback: a packet, a timer of a session, the flag that processes the sessions,
or `transport_tx`.  Wherever the code allocates a network packet, the allocation may
fail (`Room`).  `seq_zero` of a session that has not sent is what was on the stack
(`STACK_SEQZERO`).  Abstracted: the payload is whole or not, a misformed message is
one whose authentication fails when it is complete; TTL and the intervals of timers
are left out, a timer fires at any time.

### TimerScheduler, Advertiser and the code

`scheduler` is `m_scheduler` (`fire`, `add`, `dirty`, the flag) with the state and the
time of each event and the hardware timer; times are relative, so that
`SchedulerTick` takes one from each.  `fire_timers` is a step per callback, so that users act inside of one
(`calling`).  `advertiser` is `advertiser_t` with its broadcast, the event that tells
of the last transmission, and its timer with the states the advertiser tells apart.
`BroadcastComplete` is the radio interrupt; `TimeoutEvent` and `SetupNextTimeout` are
the two halves of `timeout_event`, `PacketCommit` and `PacketSent` those of
`advertiser_packet_send`, for the interrupt comes between them.  `Fetched` is the loop of
`next_packet_fetch`: a packet that was popped is asked again whether it should make way,
so that one that repeats for ever is freed unsent when another is ready behind it.

### AccessReliable, AccessPublish and the code

`reliable` is `m_reliable` with its one timer, `publish` the list of `access_publish.c`
with its counter (which only appears in differences, so that targets are relative to
it).  The passes over the pool and over the list are one step each; callbacks to the
models come in the middle of them and may publish again (`StatusCallback`).

The timer's callback forgets the next index before it goes through the pool.  A transfer
that a callback starts then, with others active, is compared with `pool[0xFFFF]`, far
behind the pool (`ReadsBehind`): `IsEarliest` gives both outcomes, and `blind` says that
it happened.  On the target this address may also be one that faults, which stops the
device at once.  `reliable_callback` shows the assertion that fails; what the other
properties say of transfers says so of every behaviour, and the only way for the device
to stop is behind such a read (`TimerWatches`).

### Dsm and the code

`dsm.ram`, `allocated` and `marked` are the arrays of values and the bitfields of
`m_flash_groups`; `queue` and `listeners` are those of the flash manager, with room
for `ROOM` packets that other users take, too; `flash` is what the area holds per
handle.  `FlashDone` is the end of an action, with what the callbacks and
the listeners do; `FlashConfigLoad` is `dsm_flash_config_load` of the next boot.  What
`FlashManager` shows of an entry (the old one or the new one) is taken for granted.

### PbAdv, Provisioning and the code

`bearer[n]` is `nrf_mesh_prov_bearer_adv_t` of an end with the queue of its
advertiser.  A packet at the head of the queue is received by the other end or lost,
once per repeat.  `TxRetry` is the retry timer before, `TransactionTimeout` after the
time of a transaction; the link timer is the `Close` that the upper layer may also ask
for.  `prov` is the state of both ends of the protocol with the message on the way from
each; `PktIn` and `Ack` are the callbacks that `PbAdv` makes of one, in that order; a
link may be closed, or time out, at any moment.  `pubkeyType` says whether the
capabilities that the provisioner's application gave to `nrf_mesh_prov_init` have a public
key type, for its START copies it (`prov_provisioner.c:500`).  Cryptography is `matches`: whether the
authentication data given by the two applications agree.

### Heartbeat and the code

`heartbeat.pub`, `sub` and the two timers are `m_heartbeat_publication` and
`m_heartbeat_subscription` of `heartbeat.c` with the state that `config_server.c`
keeps of a publication; `remaining` is what is left of a period that the timer takes in
parts; `listening` says that the handler of core events is in the list of
`event.c`, where it may be once.  `CoreEvt` is a transmission of the node that is
complete.  `asked`, `sent` and `cut` are histories.  Times are in seconds, and the
logarithms of counts and periods end at `MAX_LOG` in place of 0x11; the largest count
stays one more than the largest number of its width, which stands for no end.

### ConfigServer and the code

A message of a configuration client goes through three layers: the handler of
`config_server.c` (`SubscriptionAdd`, `PublicationSet`, ...), the state of the model in
`access.c` (`ram.model`, `ram.list`) and the addresses of the device state manager
(`ram.address` with `published` and `subscribed`, the two counts of each).  Each action
is a handler as a whole, with the calls in the code's order, for that order and the
early returns between them decide what is left when one of them fails.  `unsaved` are
the outdated flags of `access.c` and the marked entries of the device state manager,
`FlashConfigStore` and `FlashUpdateAll` write what they can, in the order of types and
handles, and `listeners` keeps the order in which the two asked to be told of room.
`PowerFailure` is the next boot: each model that is loaded adds its addresses again.

## 3. What the runs check

| run | question | result |
|---|---|---|
| `netstate_powered` | within a power cycle: is no pair sent twice, is the source of pairs ever later, does the lock hold the IV index still, does the IV index never go back? | holds |
| `netstate_ordered` | with power failures at any point, provided the numbers restart with no older block on its way: does the boot resume at a pair never sent? | holds |
| `netstate_crash` | without the proviso: does the boot, when the numbers restart from what the order of the two entries says, resume at a pair that was not sent? | violated |
| `flash_store` | with power failures between any two words of an action: is the area valid at every boot, does a request take effect as a whole or not at all and in its turn, does a reader find what is stored when all is done, is the seal known, is flash only written where that is legal, does the queue drain? | holds |
| `flash_defrag` | is the area valid at every boot when the power fails in the middle of a defragmentation, too? | violated |
| `sar_reassembly` | over an air that loses, repeats and reorders, and with packet buffers that run out: is each message delivered once, is its sender told once and told the truth, does no assertion fail, does the IV index lock return? | holds |
| `components_safe` | do all actions of the network state together, with malfunctions of the flash, resets and power cycles, keep the types (the timers and `seqnum_max - threshold` are unsigned); is no packet accepted twice over two IV updates; does the scheduler never lose an event; do keys have their subnets after every boot; do the ends of a link agree on the next message; does a provisionee only complete with its provisioner; are as many heartbeats sent as were asked for, up to counts of 0x8000; has every address that a model uses its handle and its users counted, also after a boot; do packets of a buffer never overlap, is the oldest one popped, does no room leak, is the ring a queue? | holds |
| `components_live` | does an advertiser with packets send on, and take packets behind one that repeats for ever; does the timer watch a transfer and every transfer end; do publications keep their order and go on; are keys, addresses and models stored in the end; do all messages of a link arrive; does provisioning end without a timeout, when the provisioner has no public key type; does a publication of heartbeats with a count of at most 0x8000 end; does an overdue IV update end, and does a block of sequence numbers that was asked for arrive, also when the queue was full? | holds |
| `dsm_retry` | do keys have their subnets when the queue is full and the power fails? | violated |
| `reliable_callback` | may a status callback start a transfer in the timer? | violated |
| `heartbeat_count` | are no more heartbeats sent than a client asked for, also with the largest count? | violated |
| `config_crash` | do models have their addresses after every boot when subscriptions are deleted, too? | violated |

`MCComponents` extends `ReplayProtection`, `Advertiser`, `PbAdv`, `Provisioning`,
`AccessReliable`, `AccessPublish`, `TimerScheduler`, `Heartbeat` and `PacketBuffer`, so that TLC evaluates the
assumptions their theorems rest on, and instantiates the other modules that are checked alone.  A behaviour is one
of the `unit` it begins with and leaves the variables of the others alone, so that a run
of it checks each unit's instance as a run of its own would.

What the violations say, in short (`PROJECT.json` quotes the lines they contradict):

- **crash**: the boot's block is still in the flash queue when a beacon makes the node
  recover to a later IV index.  The new index is queued behind that block, which becomes
  the limit of the new index's numbers, and a packet is sent with number 0 on it.  From
  the order of the two entries the next boot takes the numbers as restarted, and resumes
  at number 0 of the new index, the pair that was sent.
- **defrag**: a defragmentation that is resumed at boot does not know whether its
  backup has all entries and pads the page where it should seal it.  The next boot,
  and every one after it, fails the assertion that a walk meets a seal.
- **retry**: the deletion of a subnet deletes its keys first, but what finds no room
  in the queue is written later in the order of the types, subnets first.  When the
  power fails in between, the next boot loads a key without its subnet.
- **callback**: the timer of the reliable transfers forgets which one is next before it
  goes through the pool.  A status callback that starts a transfer in a place already
  passed, while another one is still active, is compared with what lies behind the pool.
  If that says that it is not the earliest, and the other one ends in the same pass, no
  next one is known and the timer asserts.
- **count**: the largest count of heartbeats, logarithm 0x11, is 0x10000; the first one
  sent leaves 0xFFFF, which stands for no end, and they are sent for ever.
- **config**: the deletion of a subscription deletes the entry of the address before
  that of the model's list is queued.  A power failure between the two leaves a list
  with an address that is not there, and every boot asserts that it is.

Further disagreements came up while modelling.  The passing runs leave them out or state
their properties around them, as said here, under bounds and in the hazards' notes:

- a node that is reset and joins a network without a reboot stores no IV index until
  it changes, and starts from number 0 at the next boot; the reset clears the lock's
  flag but not its count, and its retry can starve in a full queue;
- sessions that overlap in turn defer the forced end of an IV update for ever;
- the free of a popped packet moves the tail before it marks the header, and in between
  a producer's interrupt can reserve the place; the flush of a full buffer drops nothing;
- the defragmentation of a page without live entries writes no seal, and its end
  asserts that there is one; a resumed one leaves the manager with the seal of before;
- a packet that repeats for ever, with another one ready behind it when the advertiser
  pops it, is freed unsent (`advertiser.c:168-188`), in the model as in the code;
- an action that was popped is not in the queue any more, so that the flash manager
  counts as stable while the action's words are still to be written;
- `transport_tx` leaves the SeqZero of its metadata uninitialised, and an old
  acknowledgment that happens to name it starts the session in the middle;
- nothing calls `replay_cache_on_iv_update`, and a node stays deaf to a source two IV
  updates later, until its numbers pass those of then;
- a second abort of a timer event before it has been added miscounts the changed
  events; an advertiser's radio interrupt can stop its timer just before
  `setup_next_timeout` asserts that it is in its callback;
- the timer of the reliable transfers runs for the last one published, not for the
  first one due, and timeouts come late;
- a publication callback that sets the period of its own model has it in the list twice;
- when a link is closed with an earlier message's flag pending, it is closed before the
  packets that say so are sent;
- with ECDH left to the provisionee's application a confirmation that comes before the
  shared secret is acknowledged and ignored, and both ends wait for a timeout;
- a provisioner whose own capabilities have a public key type tells the provisionee that
  its key comes out of band (`prov_provisioner.c:500`), which then sends none
  (`prov_provisionee.c:322-333`); but nothing sets the provisioner's own `pubkey_oob`
  (`prov_provisioner.c:253`), so that it waits in `WAIT_PUB_KEY` until it times out, and
  `WAIT_OOB_PUB_KEY` is never entered;
- heartbeats: the comment on the received count quotes 0xFFFF as the last one and the code
  compares with 0x10000 (`heartbeat.c:157-158`), which the encoding of a status message
  asserts it is not; a second transmission is waited for with a handler that is in the list
  already, which asserts; a feature heartbeat of a publication without features and with
  no count left asserts (`heartbeat.c:219`); when the key of a publication is away at
  the end of a period the timer stops for good; logarithms between 0x11 and 0xFF are
  accepted where the count is decoded (`config_server.c:1784`);
- subscriptions: the deletion of an address that the model has not, and another one has,
  takes one from the address's count, and the next boot asserts; an address that is added
  to a model twice counts twice and is never given up; an overwrite deletes before it
  knows that the new address fits, and then returns without storing; the list that a
  deletion of all is copied to is as long as there are lists, not as a list is; a
  status list sends handles in place of addresses; an address that is marked and deleted
  is invalidated twice, and the second invalidation asserts (`device_state_manager.c:1315`);
- publications: a new one never gives up the old address; a period that the model does not
  support is refused after the address has been set, and nothing is stored; a period of
  zero steps leaves the old one; the period is restored at boot and never started; when
  the application key is deleted the binding stays, and the next read of the
  publication or transmission asserts (`config_server.c:193`, `access.c:391`);
- what a node stores first: provisioning does not call `access_flash_config_store`, so
  that a power failure before the first message of a client leaves the device state
  manager loaded and the access layer not; the same between the two erasures of a node
  reset.

### Bounds

NetState: sequence numbers up to 1 or 3, blocks of 2, thresholds of 1 or 2 and updates
of 1 or 2 minutes keep the order of the real constants, and every comparison in the
code comes out both ways. IV indexes go to 1 or 2 (`MaxIv`): enough for an update to
start, end and start again and for a recovery over one and two steps. `MaxLocks` is 1,
and 2 where the lock itself is the question. `POOL_SIZE` is 13 or 18 words: two or
three actions, so that the queue is full, nearly full and empty. `MaxSpent` bounds the
history where a power cycle may otherwise repeat it without end. The unit `net` of
`MCComponents` has IV indexes up to 1 and numbers up to 1, for what it asks is whether
things end. PacketBuffer: a pool of 11 words and lengths of 1, 2, 3, 6 and 10 words
has up to five packets, wraps with every remainder, and leaves gaps of zero, one and
more words; the counterexample needs 6 words.  The unit `node` has every action of
NetState, a queue of 13 words (`FLASH_WORDS`), IV indexes and numbers up to 1, no session
that holds the lock, and two pairs in the history.

FlashManager: eight words take two live entries of two and three words, a replacement
and the seal, so that areas are full, nearly full, in need of a defragmentation, and
compacted to exactly the threshold (`MIN_SPACE` of 1). Handle `a` has two values and
`b` one: an old entry must be told from a new one, once. A queue of two actions is
full, and has an action behind the one being carried out. The run `flash_store` keeps
to what these disagreements leave sound: the users store `a` first and never
invalidate it, as the device state manager does with its metainfo, and the power does
not fail while the recovery page's pointer is set. It does fail anywhere else, the
backup before the pointer included.

TransportSar: a message of two segments, one in a single packet and a misformed one to
the group; one session per node, so that a second one finds no slot; a replay cache of
one source, a cache of two completed sessions, two retries.  The sender has four
numbers: a message and all its repeats.  `STACK_SEQZERO` has one value that no
acknowledgment of the run names.

MCComponents: three sources for two entries of the replay cache and IV indexes up to
2, so that a bit comes back; three events, one of them periodic, and delays before and
behind its period; an advertiser with room for three packets that repeat once, twice
and for ever; two transfers for two contexts, with a timeout shorter than the second
interval and one longer (4 and 8 units, 5 and 10 in `reliable_callback`), a timer that is
called up to one unit late; two publishers
with steps of two resolutions and three changes; in `keys` one subnet with an
application and a device key, four calls and a power failure, in a queue with room for
all, in `store` a queue of two; links that are opened twice, with three messages of two
segments for a buffer of two packets (`link` of `components_safe`), and one link with
two messages of three segments, so that they do not fit (of `components_live`). Heartbeats have counts of none, two, the
largest one (`MAX_LOG` of 3 in place of 0x11) and without end, periods of two parts of
the timer and one that is refused (not in `components_live`), and two or three messages
and changes. Of the
configuration server, `clients` has every message, two models with two lists, a group
and a virtual address, and a queue of one, so that nearly all that is written is
retried; `settings` adds only, with room for all and a power failure at any point (the
run `config_crash` is the same with deletions). Neither sends the stray deletion
above. Provisioning has every method, and provisioners with and without a public key type; in `components_safe` any of the two ends may leave
ECDH to its application, in `components_live` neither does (see the disagreements). The bounds on calls end most behaviours of `Dsm`,
`ConfigServer`, `PbAdv` and `Provisioning`, and a provisioned node is provisioned, so
that deadlock is not checked in the runs that have them.

### Fairness

`components_live`: timers that are due are called, and time passes; the flash manager
works on its queue; the radio ends each broadcast, and its event is called (`SF`: a
later broadcast may take its place in between).  Messages of a link: timers and flags are
called, the radio sends, and of the packets the other end would do something about one
arrives when they are sent time and again (`SF` on `Heeded`); the retries of the two
ends do not stay in phase (`RetriesApart`, a restriction and not a fairness: each end
waits two seconds more than its segments take).  Provisioning: the link delivers or is
closed, users and applications answer, and an end whose peer is gone times out; no
other timeout is assumed, for it is the property that none is needed.  Heartbeats: the
transport has memory time and again when the timer asks for it (`SF` on `Publishes`).

The unit `net` of that run, `flash_store` and `sar_reassembly` need fairness, too;
that of the last is that the timers of the sessions are called. The minute timer is a
scheduled timer that reschedules itself; flash operations complete since the flash
driver serves them in every free timeslot (`flash_store` has `WF` on the flash
manager's own steps together, one of which is enabled at a time, and nothing on users
or power); and a transport session ends, by its last acknowledgment, by its timeout or
by a cancel, so that a holder of the lock lets go (`WF` on `UnlockIvIndex`, with one
session at a time, for the reason above). Nothing is assumed of beacons, packets or
other flash users. The runs exclude `FlashFail`, since a flash that malfunctions
leaves the allocation flag set, which no code clears.

## 4. What is proved

`NetStateProofs.tla`, for every value of the constants that satisfies
`NetStateAssumption` (natural numbers; a block is not empty):

- `TypeCorrect`: `Spec => []TypeOK`, with resets, malfunctions and power cycles.  The same
  formula is checked of the unit `node` of `components_safe`.
- `PoweredFresh`: `PoweredSpec => []NextNonceFresh`: within a power cycle the next
  pair was never sent.
- `PoweredIsNonceSource`: `PoweredSpec => NoncesLater`: the detailed allocator
  implements `NonceSource`.

The same module, for any number of holders of the IV index lock:

- `LockAlwaysHolds`: `PoweredSpec => LockHolds`: under the lock the IV index and the
  update state stay as they are.
- `IvIndexNeverBack`: `PoweredSpec => IvIndexMonotonic`.

`NetStateRecoveryProofs.tla`, for every value of the constants that also satisfies
`POOL_SIZE >= 14` and `BLOCK_SIZE <= SEQNUM_MAX + 1`:

- `ResumesFreshAlways`: `OrderedSpec => []ResumesFresh`: wherever the power fails, the
  node resumes at a pair it never sent, as long as the IV index and the first block are
  the last actions of the queue whenever the numbers start over.  Without that condition
  the property is false: `netstate_crash` violates `ResumesUnsent`, which asks less.

The two assumptions hold of the firmware (`FLASH_MANAGER_POOL_SIZE` is 256 words, a
block 8192 of 2^24 numbers).  They are about the boot, which queues the IV index and the
first block one behind the other: 14 words are room for any entry of this module behind
any other (`RoomEnough`), and the second assumption says that there is a first block.

`ReplayProtectionProofs.tla`, for every set of sources, size of the cache, and bounds
that are natural numbers:

- `NeverAcceptedAgain`: `ReplaySpec => []AcceptedOnce`.

`BearerProofs.tla`.  The advertiser's theorem assumes that packets are repeated once up
to 255 times; that of PB-ADV, that a link carries fewer than 128 messages, the first of
them the provisioner's (as in the provisioning protocol: the numbers of its transactions
are a byte, of which each end has half, and start again only behind that).  The sizes of
messages and buffers, the number of links and the repeats are any natural numbers:

- `AdvertiserSendsOn`: `AdvertiserSpec => []SendsOn`, also when the loop that fetches a
  packet skips some that repeat for ever.
- `MessagesDeliveredOnce`: `BearerSpec => []DeliveredOnce`, over an air that loses and
  repeats packets.

`ProvisioningProofs.tla`, for all methods, every set of ends that leave ECDH to the
application, and provisioners with and without a public key type; nothing is assumed but
that having one is a Boolean:

- `NodesCompleteTogether`: `ProvSpec => []CompletesTogether`.

`TimerProofs.tla`.  Of heartbeats the logarithms are assumed to be bytes, as they
are in the messages; of the pool of transfers, that it has a place and that there is a
model, and that the times are natural numbers; of the scheduler, that its period is
positive, its delays are integers (a time may have passed), and `NoEvent` is no event; of
publications, that resolutions, the steps that are asked for, and 100 ms are positive:

- `HeartbeatsCountedOut`: `HeartbeatSpec => []CountedOut`: of a count of at most 0x8000
  what was sent and what is left make up the count; of the largest one, 0x10000, the first
  heartbeat leaves the count that has no end.
- `TransfersWatched`: `ReliableSpec => []TimerWatches`: the timer is on for a transfer in
  use exactly when there is one, and no assertion fails unless a callback started a
  transfer while the timer knew no next one (`blind`), which `reliable_callback` shows to
  fail.
- `EventsNotMissed`: `SchedulerSpec => []NothingIsMissed`.
- `PublicationsInOrder`: `PublishSpec => []FirstIsNext`.

`PacketBufferProofs.tla`, for pools of more than one word and all packets that may fit:

- `PacketsDisjoint`, `OldestAlwaysPopped`, `RoomNeverLeaks`: `BufferSpec => []P` for
  `Disjoint`, `OldestIsPopped` and `NothingLeaks`.
- `RingImplementsQueue`: `BufferSpec => ImplementsQueue`: the ring is a `PacketQueue`.

`FlashManagerProofs.tla`, for every size of the page, set of handles with their lengths,
values, threshold and length of the queue that satisfy `FlashManagerAssumption` (a page
of at least three words; an entry has a word behind its header and fits the page with a
seal; no handle that users take is one of the reserved ones), and every
`kept \in Handles`:

- `AreaNeverInvalid`, `SealAlwaysKnown`, `StoredIsRead`: `KeptSpec(kept) => []P` for
  `NeverHalts`, `SealKnown` and `ReadsStored`.
- `WritesAlwaysLegal`: `KeptSpec(kept) => WritesLegal`.
- `FlashImplementsStore`: `KeptSpec(kept) => ImplementsStore`: each step of the manager,
  of a defragmentation and of the boot is a step of `FlashStore` or none.

`TypeOK` is not inductive: `TxIv` subtracts one from the IV index while an update is
in progress, so an IV index of 0 in progress would leave the naturals.  The
invariant `IInv` adds that an update in progress has a positive IV index, in RAM, in
every queued entry (`Sound(ram)`) and in flash (`IvPositive(flash)`): a power cycle
turns what is in flash into RAM, and a flash write what is queued into flash.  For
freshness, `NextNonceFresh` is kept by any step that only `Advances` the next pair,
which each operator of `net_state.c` does, by one lemma per operator; the exception
is `net_state_reset`, whose retry may still be registered as a listener, so that the
powered theorems also carry `NoReset(ram)`.  The allocation is the one step that
sends, and `AllocateStep` shows that the pair it sends is the one that was next.

For the lock, the code counts holders but tests a flag, so the invariant `LInv` says
that the two agree (`LockAgrees`).  A reset clears the flag and not the count, which is
why these theorems, too, carry `NoReset`.  Each function but the unlock is shown to
`Obey` the lock: it leaves flag and count alone, never lowers the IV index, and under
the flag changes neither index nor state; a packet's own lock is then a lock, an
allocation that obeys it, and an unlock.

For recovery, `ResumesFresh` compares what was sent with the flash, which changes two
writes at a time while the queue drains.  The invariant `RInv` follows one restart of
the numbers through the queue.  In phase `Running` the block in flash is never below
the one in RAM.  `Restarting`, the new IV index and its block are queued behind one
another and the flash still says what it said before.  `Begun`, the IV index is written
and its block is not: the address order of the two entries tells the boot to start over,
and nothing was sent on the new index, since RAM has no block either.  `Own(ram)` adds
what keeps the phases apart: one block on its way at a time (`OneBlock`), no queued IV
index ahead of RAM (`NotAhead`), and only the start of an update ever put off until there
is room (`PutOff`).  Each operator of `net_state.c` is shown to `Move`: it leaves the
queue alone, extends it with entries of the present index, or restarts in order.

`AcceptedOnce` says that what the cache would let through now was not accepted before.
The invariant adds that the cache is well formed and that the IV index of whatever was
accepted has been `Reached`.  An IV update brings an index into the window whose bit is
that of the one which leaves it: the cache answers for the new one with the entries of
the old one, which may refuse too much (the deaf node above) but never too little, and
nothing was accepted with the new one yet, since it had not been reached.

The advertiser's invariant, `Attended`, says more than `SendsOn` of one moment: its event
is in its callback only between the two halves of the timeout handler, so that whoever
else finds the event active finds it scheduled.

For PB-ADV the invariant has a part for each end (`Own`) and one for both (`Pair`).  The
queue of an end's advertiser has packets of its link only: no data of a transaction that
is still to come, and those of the present one only while the end waits for it;
acknowledgments of messages it has received; and a `LINK_OPEN` in front of all others
(`Carried`).  `Placed` says what the state of an end tells of its buffer and numbers.
`Agree` relates the ends of one link: the receiver expects the message that the sender
sends next, or has it already while the sender still waits to be told.

For provisioning, `Joint` relates the state of one end to the message on its way to it.
The handlers are shown to turn one end at a time (`Turned`), most of them without
concern to the invariant; what remains are the exchange of the last message and the ways
in which a link closes with success.

`Good` is the count of heartbeats together with the types of the fields: `Counted`, what
was sent and what is left, is kept by the timer and by the transmissions that end, each of
which may send a heartbeat that counts, and by the feature heartbeats, which do not count.  What
a client asked for is a power of two below the largest count, or the largest, or no end,
and the decrement leads from the largest to no end, which no further one changes.

For the pool of transfers, `Watched` holds between calls: the timer is on exactly when a
transfer is in use, and its next index is that of one in use.  Within the timer's callback
it does not hold, for the callback begins by forgetting the next index.  `Visiting` is what
each round of the loop over the pool keeps instead: the next index is known as soon as a
transfer in use has been passed, and is that of one in use; without memory for a packet
the loop stops behind such a transfer.  A status callback may start a transfer in any
free place in the middle of the loop, also one that the loop has passed.  When it does so
before the next index is known, what lies behind the pool decides whether the next index
is that of the new transfer; if not, it may still be unknown behind the loop, and then the
assertion fails (`FailedBlind`).

The timer scheduler has its events in two lists that the users may change in any callback
and outside of all.  `Lists` holds at every step: an event is in the list its state says,
once, the dirty events are counted, and among the events that are still `QUEUED` the fire
list is in order, for a user that reschedules an event changes its time where it stands.
Both loops of the handler are shown to keep it, the one over the fire list also when it
stops early since no dirty event is counted any more.  Behind them the scheduler is
`Clean`, and the search for the place of an event may rely on the order of the whole list.
`SchedulerInv` adds that without a flag, and outside of callbacks, it is clean and `Timed`:
the hardware timer is on for the first event.

The list of publications is `Ordered` in the middle of each operation, too: by targets, no
model twice, and only models with a period.  Counting on takes the same from each target;
a model that is in the list leaves it before its period changes and before it is put in
again.  `PublishInv` adds what holds behind each operation: the timer is on exactly when a
publication waits, and then it counts as running.  The other direction of the latter is
false in the code, which leaves `m_publish_timer_running` set when the list becomes empty;
it is not needed, for only an empty list is left with a timer that does not run.

The ring of packets holds nothing that says where packets begin but the headers
themselves.  `RingInv` says that there is a set D of distances from the tail at which they
do: each packet reaches exactly to the next one (`Packed`), the slot behind the last is
marked free unless there is none (`Marked`), and the users hold the packets that are not
padding, in the order of D (`Viewed`).  The loops of the code that go from header to
header are shown to follow D.  For the refinement each operation is shown to be a
`QueueStep` of what the users hold: at most one packet comes, changes its state or goes.

What the flash manager knows of an area it learns by a walk along the words, from header
to header.  `Entries`, `WalkEnd` and `LastOf` are functions defined by what is further
along such a walk; that there are such functions is shown first (`AlongExists`), and what
they are only where the words are a `Chain(w, D, e)`: entries begin at the places D, each
where the one before ends, and the last one ends at e, where a seal is or nothing yet.  On
a chain three things can be the case.  It is `Tidy`, with one entry per handle; `Doubled`,
where the last entry has replaced one that is still there; or `Torn`, where the last
entry lacks its end.  Each write of a word, in the order in which `execute_action_replace`
pushes them, is shown to lead from one to another of these, as is the invalidation of a
header.  A `Backup` has the live entries of a chain one behind the other, in their order,
so that it is a chain with the same values.

The inductive invariant is that the page, the recovery page and the manager are in one of
twelve stages.  `Building` has a page without metadata, `Fresh` one without entries,
`Idle` a sealed area between actions; `Broken` and `Recovering` are an area that the last
power failure left torn, before and while the seal is recovered, `Replacing` and
`Invalidating` the words of an action.  A defragmentation is `BackingUp`, has `Erased` the
page, is `WritingBack`, `Sealing` and `Ending`.  In each stage the operations that are
still in `ram.ops` are the last ones of those that began it, so that the words of the page
are determined by how many there are.  Each flash operation, step and boot is shown to go
(`Goes`) from a stage to a stage, with a step of the store and no bit set.

The theorems are about `KeptSpec` since without its conditions they are false.  Where no
entry is alive, `flash_manager_on_defrag_end` finds no seal and asserts that it does; and a
defragmentation that is resumed after a power failure may pad an area instead of sealing it
(`flash_defrag`).  With one handle that is kept there always is an entry: the invariant
carries where (`HasKept`).

Induction over a count, as in those loops, is done with the least number for which
something would fail (`LeastNumber`, from the library's theorem that `<` is well founded
on the naturals): a theorem with a set in the place of a predicate, which the provers can
instantiate.

## 5. What is only model-checked, and what is not modelled

Only checked: `TransportSar`, `Dsm`, `ConfigServer`, and all that is said to happen in the
end, `RequestsEnd` of the flash manager included.  Liveness under fairness, `ENABLED` and
`RECURSIVE` operators are out of TLAPS's reach and stay with TLC, and so does induction
over data other than numbers.

Not modelled: cryptography, byte formats, radio timing, vendored code (SoftDevice,
SDK, `external/`), host tools, logging.  Preemption inside a handler of `net_state.c`
is a hazard without a model.  `PROJECT.json` gives the status of each component.
More than half of the lines of the repository's own implementation are configuration
headers, register definitions, elliptic curves, the parsing of opcodes and serial
commands, and examples: they keep no state that a step could leave wrong.

## 6. Plan

| module | of | abstract specification | runs and bounds | theorems |
|---|---|---|---|---|
| `FlashArea` | areas of several pages: padding, duplicates on the next page, removal of an area | `FlashStore` | two pages, failure at every step | - |
| `NetStatePreempt` | interrupts inside `net_state.c` handlers | `NonceSource` | one preemption | mutual exclusion of number and lock count |
| `BearerEvent`, `PacketMgr`, `Fifo` | scheduling services | queue, counted pool | three elements each | order, no lost element |

Proofs next: the keys and subnets of `Dsm` (with room for what it stores, as the recovery of `NetState`
needs), and the assertions of `TransportSar`.
