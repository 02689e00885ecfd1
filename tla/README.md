# Verification of the AttentioLight-1 wireless module firmware

The firmware runs on an ESP32-C3 and joins BLE clients to the STM32 of the
main board: clients write Attentio Protocol (AP) frames to a GATT
characteristic, the module carries them over a UART link to the STM32's MICB
(its controller of input interfaces), and carries the answers and events back.
This directory models the firmware in TLA+, checks the models with TLC and
proves theorems about them with TLAPS.

Paths below are relative to `src/fw_al1_wmod/`.

## The system

| Component | Code | State | Operations | Interacts with |
|---|---|---|---|---|
| AP bridge | `components/al1_ble/al1_ble_ap_bridge.c` | slots (handle, reassembler), `s_controlling_conn`, `s_pending_claim_conn` | `on_conn_evt`, `on_ble_write` / `on_ap_frame` (NimBLE host task); `al1_ble_ap_bridge_on_link_ap` (link's receive task) | called back by al1_ble and the link; calls `al1_link_send`, `al1_ble_notify_*` |
| Connection registry | `components/al1_ble/al1_ble.c` 40-68 | `s_conns` | `conn_add`, `conn_remove` in GAP events | calls the bridge's `on_conn_evt` |
| Notifications | `al1_ble.c` 278-315, `al1_ble_gatt.c` 109-120 | none of its own; the MTU, NimBLE's buffers | `al1_ble_notify_conn`, `al1_ble_notify_all` | called from both tasks |
| Advertising | `al1_ble.c` 84-128, 239-252 | whether NimBLE advertises | `al1_ble_advertise` after every GAP event that stops it | NimBLE |
| Bond store | `al1_ble.c` 224-237 | NimBLE's store | `al1_ble_store_status` | NimBLE |
| AP reassembler | `components/al1_ble/ap_reasm.c` | state, need, index, frame | `ap_reasm_init`, `ap_reasm_feed` | fed by the bridge, calls `on_ap_frame` |
| AP core | `components/attentio_protocol/` | parser: state, len, index, data | `ap_parse_byte`, `ap_build_packet`, `ap_cmd_requires_claim`, `ap_crc8` | shared with the STM32, whose authority on frames it is |
| Link frames | `components/al1_link/al1_frame.c`, `crc16_ccitt.c` | parser: state, channel, seq, len, payload, CRC | `al1_frame_build`, `al1_parser_feed` | fed by `rx_task`; used by `al1_link_send` |
| Link | `components/al1_link/al1_link.c` | `s_link`: running, parser, queue, tasks | `al1_link_start`, `_stop`, `_send`; `rx_task`, `tx_task` | UART driver, bridge |
| Start-up | `main/main.c` | none | `app_main`, `on_frame` | starts the link, then BLE, then the bridge |

Hard in this code: two tasks share the bridge's statics without a lock; what
the bridge believes about the session at the STM32 is inferred from frames that
carry no reference to the request they answer; frames are dropped when the
queue is full and lost on a UART without retransmission; links drop at any
time and NimBLE reuses their handles; `al1_link_stop` synchronises with the
link's tasks by a delay alone; NimBLE repeats a pairing request or a store
overflow for as long as the handler lets it. `PROJECT.json` lists the hazards line by line.

What makes each component correct:

* bridge: it and the MICB agree on who has control; nobody has it without
  asking; only the holder's commands are obeyed; a session does not outlive its
  holder; no handle inherits anything from its former owner;
* registry and slots: both hold exactly the open links;
* reassembler and AP parser: the same frame boundaries for every stream,
  undisturbed frames delivered verbatim, no overflow, resynchronisation;
* link frames: the same over a wire that disturbs, loses and inserts bytes;
* link: nothing is used after it is freed, no buffer leaks, stopping ends;
* notifications: the chunks of a frame reach a client whole and in order;
* sequence numbers: a gap the STM32 sees is what the queue had no room for;
* CRCs: no burst of errors as long as the register goes unnoticed;
* advertising: a device without links can be found;
* bond store: whatever it counts after a crash, pairing ends and its bond is
  saved; good bonds are lost only to make room, all of them where the evictor
  fails (`al1_ble_store_status` clears the store on any error of it) or where NVS
  has to be erased at start-up;
* start-up: no claim is forgotten while the bridge is initialised beside a host
  task that already runs.

## Modules

| Module | Models | Checked with | Proved in |
|---|---|---|---|
| `ApBridge` | the bridge, the registry, the queue of the link; MICB and clients as environment | `MCApBridge` | `ApBridgeProofs` |
| `ControlSession` | abstract: what the bridge promises its clients | as `ApBridge!SessionSpec` | refinement in `ApBridgeProofs` |
| `ApFraming` | `ap_reasm.c` and the AP parser and builder on one stream | `MCApFraming` | `ApFramingProofs` |
| `Al1Frame` | the link's builder and parser on a disturbed wire | `MCAl1Frame` | `Al1FrameProofs` |
| `Crc` | CRC-16 and CRC-8 bit by bit, at both ends of a disturbed wire | `MCCrc` | `CrcProofs` |
| `ApCrc8` | `ap_crc8`'s table beside the loop of `Crc` | `MCCrc` | `CrcProofs` |
| `Al1Link` | the link's life cycle, timed, with its sequence numbers | its own configurations | `Al1LinkProofs` |
| `ApDelivery` | the bridge's routing and the notifications it ends in | its own configurations | `ApDeliveryProofs` |
| `BleHost` | start-up, callbacks, advertising, controller resets | through `BleBonds` | `BleHostProofs` |
| `BleBonds` | `BleHost` with pairing, the bond store and power failures | its own configuration | `BleBondsProofs` |

`ApFraming` takes its CRC as a parameter, `Al1Frame` the step its CRC is a loop
of; what a CRC detects is left to `Crc`. `ApBridge` takes frames whole, as `ApFraming` delivers them,
and the link as a bounded queue, as `Al1Link` keeps it; it does not notify,
which `ApDelivery` does. `BleBonds` EXTENDS `BleHost`: its steps are `BleHost`'s
with pairing added, or a reboot.

### ApBridge

A step of a task runs to its next access to a variable the other task writes.
`host.pc` is where the NimBLE host task stands inside a handler: about to call
`forward_to_stm32` (`forward`, or `release` when `clear_binding` follows) or
about to clear the binding (`clear`), or at the test of line 158 (`check`), after
a disconnection has gone through the tables and the pending claim. `rx.pc` is where the receive task stands
inside `al1_ble_ap_bridge_on_link_ap`: between its two reads of
`s_pending_claim_conn` (`bind_read`), between the read and the two stores
(`bind`), between the stores, which two plain statics may see in either order
(`bind_set`, `bind_clear`), or before `clear_binding` (`end`). The tables
are the host task's own, so `Connect` is one step. So are lines 155 and 156 of
`Disconnect`, a test and a store, since the receive task only ever stores
`CONN_NONE` in what they test.

The host task is idle when an event arrives, for events are handled one by one.
A frame is its kind: `SET` stands for every command of `ap_cmd_requires_claim`,
`PING` for the commands that need no claim; downwards `OK`, `ERROR` and
`SESSION_END` are told apart, as the code tells them apart. Answers and errors
sent to clients change no state and are left out, as is `s_session_id`, which
only a log line reads. `tx_queue` with `TxTask` is the link as the bridge sees
it: bounded, in order, dropping when full.

The environment is a parameter, `Env`, a set of freedoms: clients that do not
wait for one another (`pipeline`), a claimant that drops before its answer
(`impatient`), CLAIM or RELEASE while somebody else is in control (`contend`),
a MICB that rejects a CLAIM (`reject`), lost frames and failed allocations
(`loss`). The MICB is external: one BLE session, granted by CLAIM, ended by
RELEASE or by itself; whether a SESSION_END accompanies the OK to a RELEASE,
and in which order, the repository does not say, so every case is allowed.
It ends the session whoever the RELEASE is from: every client looks like the same
interface to it (lines 14-15), and the bridge forwards the RELEASE of a client that
is not the controller (lines 127-129). The holder then loses its session and the
bridge goes on believing in it.

Three history variables help to state properties: `claimed`, the connections
that sent a CLAIM; `ctlStale`, set when the binding was made for a claimant that
dropped while the receive task held its handle; `ousted`, set when a session was
ended by a RELEASE that was not its holder's.

`ControlSession` is what the bridge promises its clients. The mapping takes the
links open or still being closed for `open`, those that sent a CLAIM for
`asked` and `s_controlling_conn` for `controller`, with one exception: a
binding that `ctlStale` marks counts as none. That race is in the code, and its
handle is controlled by nobody, or by whoever gets it next without asking. It
needs a claimant that drops within two statements of the receive task;
`NeverStale`, proved for claimants that wait, says that nothing else leads to
it.

### ApFraming

One byte at a time goes into both machines (`Feed`). Buffers are sequences; a
byte and the largest LEN are parameters. The CRC-8 is a parameter of which only
its range matters. The environment offers packets to `ap_build_packet`, which
turns down those that do not fit a buffer or a LEN, sends what was built, gives
it up, sends stray bytes and reconnects; how bytes are split into writes makes
no difference to either machine. A write that `al1_gatt_access` rejects for its
length is missing from the stream, as given-up bytes are.

### Al1Frame

The same for the link: `al1_frame_build` with its tests, nine states, a 16-bit
LEN in two bytes, a CRC computed along the way by the parser and by
`al1_crc16_ccitt`'s loop (`Registers`) by the builder. The environment disturbs,
inserts and loses bytes.

### Crc, ApCrc8

A register is the set of its bits that are 1. The sender's register and the
receiver's take the same bytes, the receiver's with what the wire did to them;
`pending` and `since` follow the disturbance, so that it stays a burst: no two
disturbed bits further apart than the register is wide, the check included.
The model is about a frame whose length arrives undisturbed, as `Al1Frame` and
`ApFraming` are about one whose does not. `ApCrc8` adds `ap_crc8` as the code
has it, a table, in numbers.

### Al1Link

The driver, the queue and the parser live and die together (`res`, the start
they belong to). A task that blocks on them remembers whose they were, and
`misused` records a use of what is no longer there. Time passes in ticks:
`Timeout` bounds the wait of a task, `Busy` a callback or a write to the UART,
`StopDelay` is the wait of `al1_link_stop`. `LinkAssumption` asks for
`Timeout + Busy < StopDelay`: 100 ms + at most 50 ms < 200 ms; the header asks
of callbacks to be short, and the longest frame takes 45 ms at 921600 baud.
`Fails` names what may fail: the calls of `xTaskCreate`, `rx_task`'s `malloc`.

`al1_link_send` is one step, guarded by `running` alone as in the code, and may come
between any two steps of the tasks that start, stop and run the link. That nothing
comes in the middle of it is an assumption on scheduling, not on the code, which has
no lock: its only caller is `forward_to_stm32` in the NimBLE host task, which by
NimBLE's default outranks `rx_task`, `tx_task` and whoever starts or stops the link,
on a chip with one core, and blocks nowhere in `al1_link_send`. A second sender, or a
stop from a task of higher priority, could number frames out of order or queue one
behind `tx_task`'s drain. Nothing in the firmware stops the link at present.

`running` is set before the tasks exist. What is sent then and still queued when
one of them cannot be created is deleted with the queue, and its buffers leak:
`spilt` counts them, and `NoLeak` says that there is no other leak.

A frame is its sequence number; `lost` counts sends refused since the last
queued one, both modulo `SeqMod`.

### ApDelivery

`rx.pc` walks through `al1_ble_ap_bridge_on_link_ap`: its tests (`RxTake`), the
three accesses that make a binding (`BindRead`, `BindClear`, `BindSet`), the second
read of the handle it tested (`Address`), `al1_ble_notify_all`'s
loop (`NotifyAll`), `al1_ble_notify_conn`'s reading of the MTU and its loop
(`ReadMtu`, `SendChunk`, `Notified`), `clear_binding` (`Unbind`). Handlers of
the host task are one step each: by NimBLE's default its task outranks the
receive task on the chip's one core, and it blocks nowhere between the accesses
modelled here. `got` keeps the chunks each client got since the frame arrived,
`erred` how many it had when the host task last sent it an error; `meant` and
`holed` say whom the frame is for and who missed a chunk.

A binding may be of a claimant that dropped in between (`ApBridge!ctlStale`); a frame
that is then routed to its handle is for whoever has it by now, if anybody. The comment
at `components/al1_ble/include/al1_ble.h` 131-133, "currently broadcast to all
connected; per-session routing comes later", is out of date: lines 207-222 of the
bridge route by session and broadcast only when nobody is in control, and so does the
model.

### BleHost, BleBonds

`app` is where `app_main` stands between creating the host task and the last
callback. NimBLE's part is external: it stops advertising at a connection, a
failed one, the end of advertising and a reset; breaks all links at a reset;
takes one advertising attempt at a time and may turn it down. Registry and
slots are sets: that the tables behave as sets is `ApBridge!TablesAgree`.

`BleBonds` adds who is at the other end of a link, how far its pairing has come
(`stage`) and NimBLE's store. The store counts `phantoms`, bonds it lost and
still counts, as the changelog and the comment on `al1_ble_store_status`
describe it; a power failure (`Reboot`) may turn bonds into phantoms.
`al1_ble_start` may find that NVS has to be erased, and every bond with it (`Starts`).
`RepeatPairing` is the event handler that deletes a peer's bond and answers RETRY,
whether that worked or not; `al1_ble_store_status` the handler of an overflow: evict,
and whatever kept the evictor from making room, clear the store, good bonds included,
and if that fails give up. NimBLE calls both again until it has what it wants, and the
host task does nothing else meanwhile (`HostFree`). `broken` is what fails at present,
any part of `Fails`, and changes at any time: deleting a peer's bond, evicting the
oldest, clearing the store; all three in the run.

NimBLE's store of subscriptions overflows into the same handler, which would then
clear the bonds, too. It is left out: a bonded peer has at most two subscriptions, to
the one characteristic that notifies and to Service Changed, and NimBLE's defaults,
which are not part of this repository, keep more than twice as many subscriptions as
bonds.

## Runs

The runs of `ApBridge` use two handles on a table of two, the least with
contention and reuse; the entries the code has beyond that (three in all by
default) add no behaviour, for entries are interchangeable and found by handle.
Handles are symmetric, and symmetry is used where no liveness is checked.

| Run | Question | Bounds |
|---|---|---|
| `bridge_races` | what holds whatever clients, MICB and wire do; does the bridge implement `ControlSession` | every freedom; queue of 1 (full at once), 2 frames downwards |
| `bridge_turns` | do bridge and MICB agree when clients wait until nothing is under way; does a session outlive its holder; is a dropped holder released | clients CLAIM and RELEASE while another one is in control; queue of 2 (a RELEASE can follow a command); fairness |
| `framing` | do the two AP machines agree on every stream; is every packet that fits built | 4 byte values: 0, two LENs one of which is SYNC, one LEN too long; packets past the largest LEN and past the range of LEN; two sizes of buffer |
| `link_frame` | is every frame delivered that begins while the link's parser hunts | 3 byte values, both markers among them; LEN up to two bytes; one payload too long |
| `crc` | does a burst ever go unnoticed; is the table the loop | the two CRCs as they are; every message of one byte, 27 of three; of all disturbances of the check always the one that would hide the rest |
| `link_life` | is anything used after it was freed; do two starts meet; does anything leak; do sequence numbers show what was dropped; does stopping end | frames sent at any time; 2 starts, queue of 2, numbers modulo 3 (they wrap), 50 ms ticks; `rx_task` may fail to be created or find no memory; fairness |
| `delivery` | does every client get its frames whole, once and in order; does the receive task come back | 2 links, frames of 1 to 3 units, MTUs of 1 and 2 units; fairness |
| `ble_host` | is the device reachable, every link served, no claim forgotten by the start-up; do pairings save their bonds, good bonds endure, retries end | everything may fail; 3 handles for 2 links, 3 peers for 2 bonds: one more of each than there is room for; fairness |

`bridge_claimant_drops`, `bridge_claim_rejected`, `link_fail_frees` and
`delivery_interleaves` check statements of the source's comments that the code does
not keep up; each expects a counterexample and uses the fewest freedoms that
give one. `PROJECT.json` quotes the comments under `findings`.

`CHECK_DEADLOCK FALSE` in `crc`, where a frame has been compared and nothing
follows, and in `ble_host`, where the device stops when `al1_ble_start` fails.

Fairness. `ApBridge!Fairness`: both tasks and `tx_task` block only on their
queues and timeouts, and FreeRTOS runs every ready task; the MICB answers every
frame. Clients, SESSION_END and losses are not obliged to happen.
`ApDelivery!Spec`: the receive task, once it has a frame, waits for nothing.
`Al1Link!Fairness`: time passes, every task runs, `al1_link_start` and
`al1_link_stop` go on once called. `BleBonds!DeviceSpec`: NimBLE goes on with a
pairing that waits for a handler's answer; nobody is obliged to pair.
`RetriesEnd` excuses the time in which deleting a bond fails: REPEAT_PAIRING and
RETRY follow each other for as long as it does, in the code as in the model.

What the properties excuse. `ctlStale`, `ousted`, `spilt`, `denied`, `early` and
`broken` each stand for something the code does not prevent: the race at a
disconnection, another client's RELEASE, the leak of a failed start, an advertising
attempt turned down and not repeated, a link of the start-up window, a flash that
fails. The properties that name them say that nothing else goes wrong; the hazards in
`PROJECT.json` say of each what is left uncovered. A RELEASE that the link refuses or
the UART loses is not sent again, and a session is then held by nobody: no property
claims otherwise.

Names ending in a description of a bug (`clear_binding_missed`, ...) are faulty
variants of a definition: every property is violated by one of them.

## Proofs

`ApBridgeProofs`, for every set of handles, table size, queue length and `Env`:

* `TypeCorrect`: the type invariant is inductive as it stands.
* `TablesAlwaysAgree`: inductive with `up` finite; a free entry for a new link
  follows from the pigeonhole principle, since fewer links are open than there
  are entries.
* `PendingIsLiveAlways`, `ControlWasClaimedAlways`: `ControlWasClaimed` is not
  inductive, since the handle passes through a register of the receive task and
  a disconnection through three steps of the host task. `ClaimInv` adds what is
  known at those points.
* `BridgeImplementsSession`: every step is a step of `ControlSession` or changes
  none of its variables, from `ClaimInv` and `DropInv`. `PatientNeverStale`:
  with `"impatient" \notin Env` the exception in the mapping never applies.
* `AlwaysAgree`, `SetsAlwaysFromHolder`, for `Env` within `{"contend"}` and a queue
  of two places or more (`TurnsAssumed`). Neither is inductive: while something is
  under way the two sides differ. `TurnsInv` says by how much, in four phases:
  nothing of a CLAIM is under way (`Settled`), it goes up (`ClaimSent`), its OK comes
  back (`ClaimGranted`), the binding is made (`ClaimBinds`); and in each where a SESSION_END or a RELEASE must be, or must not be, relative to it, and
  whether the binding may have been left over by another client's RELEASE (`ousted`).
* `SessionsNeverLeak`, under the same assumptions: a session whose holder is gone
  has its RELEASE queued or about to be. `ClaimantHolds` says that the claimant
  stays until it is bound, `OrphanReleased` that nothing takes the RELEASE away.

`ApFramingProofs`, for every alphabet, SYNC, largest LEN and CRC: all five
properties follow from one invariant. `Lockstep` relates the states of the two
machines: the reassembler's buffer is SYNC, LEN and the parser's data.
`Halves` says that an undisturbed frame is the buffer followed by the rest of
the stream. `QuietBound` counts the bytes since the last SYNC byte.

`Al1FrameProofs`, for every radix, pair of marker bytes and largest payload:
`Taken` is the covered bytes received so far, read back from the parser's
fields, `Buffer` the whole frame so far. `Shape` and `QuietBound` give
`TypeCorrect` and `AlwaysRecovers`. `CrcInv` says the running checksum is that of
`Taken`, which gives `AlwaysConsistentCrc`, and `Halves` that an undisturbed frame
is `Buffer` followed by the rest of the wire, which gives `AlwaysDelivered`. Both
rest on `CrcFolds`: the CRC of a sequence and one more byte is one `CrcUpdate` on.
That is a fact about a recursive function, proved by induction over the bytes
(`AllNaturals`, from the well-foundedness of the natural numbers); of `CrcUpdate`
nothing is assumed but its range.

`CrcProofs`, for every width from 8 up, every polynomial with bit 0 and every
message: a step of the register is linear, so the exclusive or of the two
registers (`Diff`) evolves like one register fed with the disturbance alone;
`CrcInv` says that it is the disturbance itself until the first disturbed bit
leaves the register, and not zero from then on. `TableAlwaysLoop` is about the table:
`LoopBits` gives the bits of a register eight steps on, `Entries` compares all 256
entries with them, and `TableInv` says that between two bytes the table is where
the loop will be when it has caught up.

`Al1LinkProofs`, for any number of starts, queue length, and timing with
`Timeout + Busy < StopDelay`, in two layers. `BaseInv` holds whatever fails: `Owned`
counts the buffers, `TxStaffed` bounds what `tx_task` may still do by the age of the
call of `al1_link_stop`, `Drained` says that what is queued has a `tx_task` to free
it, but while the tasks are being created. It gives `LinkTypeCorrect` and
`NeverLeaks`, and with `InStep` on top `GapsAlwaysDrops` for any `SeqMod`: the number
due next is what the last frame in the queue, or else the last one gone, and the sends
refused since add up to. `LinkInv` adds what holds as long as `tx_task` can be
created: `RxStaffed` says that an `rx_task` of an earlier start is gone and nothing
was misused. It gives `NeverUsedAfterFree`, `AlwaysOneReader`, `DownAlwaysClean` (a
link that is down has no task left and nothing allocated but what failed starts
leaked) and `StopAlwaysAdvances`. Where `tx_task` cannot be created an `rx_task` stays behind on
a freed parser, as `link_fail_frees` shows.

`ApDeliveryProofs`, for any number of handles and slots, any MTU and length of
frame: `ProgressInv` says of every client the frame is for that the call for it
is still to come and it has nothing, or is under way and it has what has been
sent, or is over and it has the whole. `RegistryInv` is what the broadcast's
walk rests on: a link keeps its slot for as long as it is open, and has only one.
`ReceiverAlwaysAdvances` bounds the steps a frame takes.

`BleHostProofs`, for any number of handles and links: its three invariants and
the action property. `RadioInv` bounds the links where the device advertises and
says that none outlives a reset; `CallbackInv` ties the callbacks to the place
of `app_main`, and early links and claims to the callbacks.

`BleBondsProofs`, for any number of handles, peers and bonds, whatever fails:
every step of the device is a step of `BleHost` or a reboot, which re-establishes
`BleHost`'s invariant, so what `BleHostProofs` shows holds of the device.
`PairInv` adds the store's own: nobody has two bonds, since a peer whose bond
exists gets no further than `repeat`. The two action properties follow from it.
`WaitInv` adds that one pairing at a time keeps the host task and that a repeated
request finds the bond it is to delete (`RepeatsAlwaysFind`), from which
`RetriesAlwaysShrink` follows for the steps at which deleting a bond works.

Assumptions: the named ASSUMEs of the modules, which TLC evaluates in every run,
and those each theorem states.

Every invariant and action property a run checks is also a theorem. Only
model-checked, because liveness under fairness is out of the prover's reach, are
`DroppedHolderIsReleased`, `ShutsDown`, `ReceiverReturns` and `RetriesEnd`. What
their arguments need beside fairness is proved: the safety half of the first
(`SessionsNeverLeak`), and for the others a number that every step concerned brings
down and no other step raises (`StopAlwaysAdvances`, `ReceiverAlwaysAdvances`,
`RetriesAlwaysShrink`). That fairness then takes the step is what TLC checks.

## Not modelled

The GATT table and the security settings are static data handed to NimBLE. WiFi
is never started. Logging, banners and statistics change nothing;
`al1_link_set_internal_loopback`, which nothing calls, changes none of the state
modelled. `ap_build_ok`, `ap_build_error` and `ap_build_event` hand their
arguments to `ap_build_packet` behind a fixed first byte. The test script, the
host tests, the container and the udev scripts are not part of the firmware.

## What is left

1. Bridge and life cycle of the link in one model, should the firmware ever stop
   the link: the session when it does, and a sender that is preempted.
2. A MICB with the USB interface beside BLE, once this repository says how a
   takeover answers a CLAIM under way and what it makes of a RELEASE of a client
   that holds nothing.
3. The bridge theorems under `TurnsAssumed` assume that clients wait. TLC finds
   `SetsComeFromHolder` true also with `{"reject"}` or `{"impatient"}` alone; a proof
   needs an invariant weaker than `Agreement`, which is false there. With
   `"pipeline"`, `"loss"`, or contending clients beside either of the two, both are
   false.
