# A verification project for the carl9170 firmware, its host driver and its tools

This repository is the packaging tree of the Debian kernel team: packaging of the
kernel, of its tools, of free and non-free firmware, and a few programs of their own.
Most of it is data (kernel configurations, patches, lists of installer modules, binary
firmware) and sequential scripts.  The one large program whose source is here is the
**carl9170 firmware**, the firmware of a USB wireless adapter
(`firmware-free/linux-free/carl9170fw/carlfw`), with **carlu**, a user-space driver that
tests it (`carl9170fw/tools/carlu`), the tools that make its firmware file
(`carl9170fw/tools`) and the **configuration tool** that decides what is compiled into it
(`carl9170fw/config`).  The project verifies these.  Paths below are relative to
`src/firmware-free/linux-free/carl9170fw/` unless they start with `src/`.

The firmware is single-threaded and never blocks.  All the same it is a concurrent
program: two DMA units (USB and wireless) walk over the same descriptors in the same
memory at any time, the MAC completes or fails frames between any two instructions, and
the host sends frames and commands and reads answers at its own pace.  carlu has a thread
for events beside the caller's.  The tools are sequential, but rewrite trees and files in
place, keep caches, and may be interrupted.

## Inventory

### How a round of the firmware goes

`main_loop` (`carlfw/src/main.c:188-208`) runs forever: `handle_fw` (watchdog, reboot),
`handle_wlan` (interrupts of the MAC, then `wlan_janitor`), `handle_host_interface`
(frames from the host in `pta.down_queue`, finished buffers in `pta.up_queue`),
`handle_usb` (commands, responses, control requests), `handle_timer` (when timer 0 fires:
hang check, receive overruns, GPIO) and `tally_update`.

| Component | State | Operations | Interacts with | What is hard | What makes it correct |
|---|---|---|---|---|---|
| DMA queues (`dma.c`, `dma.h`) | descriptors (OWN bits, `nextAddr`, `lastAddr`, `dataAddr`), queues as (head, terminator) | `dma_put`, `dma_reclaim`, `dma_unlink_head`, `dma_rearm`, iterators | every other component; two DMA units | shared memory without locks; a descriptor becomes another one in every exchange with the terminator | no block of memory is lost or in two hands; the hardware sees only finished descriptors |
| TX status ring (`wlan.c:112-181`) | `tx_status_cache`, head, tail, pending | `wlan_tx_complete`, `wlan_send_buffered_tx_status` | transmit path, response ring | wrap-around, a flush in the middle of taking a slot | every completion is reported once, in order |
| Interrupt response ring (`usb/main.c:64-212`) | `int_buf`, head, tail, pending; `int_desc`, `int_desc_available` | `send_cmd_to_host`, `usb_reg_out`, `usb_status_in`, `handle_upload` | all producers of events; up queue; host | overflow, several messages of different lengths in one buffer, one descriptor | order; nobody writes to the buffer while the hardware reads it; nothing is left behind |
| Transmit path (`wlan.c:183-539`) | five queues, retry queue, `ampdu_prev`, rate and try counters, `fw_desc`, BAR counters | `wlan_tx`, `handle_tx_completion`, `wlan_tx_status`, `wlan_send_buffered_ba` | host interface, DMA queues, status ring, MAC | two ways of retrying, a MAC that halts on a failure, pointers into frames that are being freed | no frame lost or twice, attempts bounded, the queue goes on |
| Hang check (`wlan.c:983-1211`) | `last_super`, `last_super_num`, `mac_reset`, `soft_int` | `wlan_timer`, `wlan_check_hang`, `wlan_mac_reset`, SWRST | transmit path | a comparison of addresses over time; a reset for another reason | only a stuck frame is given up; every frame is reported |
| Content after beacon (`wlan.c:755-874`) | `cab_queue`, its length, `cab_flush_trigger`, `cab_flush_time`, the TIM bit | `wlan_tx` of a CAB frame, BCN_CTRL, pretbtt, janitor | transmit path, beacons of the host | three asynchronous inputs, a clock that wraps | batches are announced; MOREDATA is kept; nothing waits forever |
| Receive path and BlockAck requests (`wlan.c:541-752`, `hostif.c`) | `rx_queue`, filter, overrun counters; `ba_cache`, head, tail, `queued_ba`, `queued_bar` | `handle_rx`, `wlan_rx_filter`, `handle_bar`, `wlan_send_buffered_ba`, `handle_upload` | DMA queues, transmit path, hang check | broken and fragmented frames, a queue that runs dry, an overflowing cache, a filter that looks at what the transmit path is doing | a block goes either to the host or back; an answer belongs to a request, in order |
| Download exception (`hostif.c:109-140`) | down queue | repair of the queue | DMA queues | runs on a queue in an undocumented state | the queue is well-formed again |
| Power save, RF (`rf.c`) | `phy.psm`, `phy.state`, the radio's switches | `rf_psm`, `rf_cmd`, `rf_notify_set_channel` | pretbtt, commands, transmit path | sleeping across beacons and channel changes | the radio wakes up again, transmissions resume |
| USB control (`usb/usb.c`, `usb/main.c`, `usb/fifo.c`, `main.c`) | `usb.config`, features, `suspend_mode`, `reboot`, the watchdog, the word for `start()` | standard requests, FIFO configuration, suspend, resume, reset, reboot | host, every handler | a CPU that stops in the middle of a handler, a bite between any two steps | what the host was told holds; a resumed device reboots |
| Key cache (`cam.c`) | rows of the CAM, the roll call table | `set_key`, `disable_key` | security engine | rows are shared by users and written word by word | no user disturbs another; no lookup sees half a key |
| Wake on LAN (`wol.c`) | the copied command, registers, `last_beacon`, `wake_up` | command, preparation, three scanners, janitor | suspend, receive path | only a clock notices that nothing comes | the host is woken when it must be, and for a cause |
| GPIO, UART, printf, clock, tally | registers | | | little | |
| carlu commands (`tools/carlu/src/usb.c:611-687`, `rx.c`) | `cmd`, `resp_buf`, `resp_len`, `resp_lock`, `resp_pend` | `carlusb_cmd`, `carlu_handle_command` | firmware; two threads | late and spurious answers, failed submissions | an answer is the answer to this command |
| carlu transmit (`tools/carlu/src/tx.c`, `usb.c:200-419`) | `tx_queue`, `tx_queue_len`, `tx_sent_queue`, `used_dma_chunks`, `tx_pending`, `cookie`, references | `carlu_tx`, bulk callback, `carlu_tx_feedback`, `carlusb_zap_queues` | firmware; two threads | callbacks in either order, failed submissions, two lists and one reference | device memory is accounted for; each frame is freed once |
| carlu contexts (`main.c`, `usb.c:60-346,420-793`) | contexts, devices, transfers, threads | `carlusb_probe`, upload, boot, `carlusb_close`, `carlu_probe_all` | libusb, event threads | devices that reset, transfers that are submitted again while they are cancelled, early ends | every device got is served and released |
| struct frame (`tools/include/frame.h`) | `head`, `data`, `tail`, `total_len`, `alloced` | put, push, pull, reserve, trim | carlu, tests | two counts of what is free | what was put in comes out |
| Firmware file (`tools/lib/carlfw.c`, `tools/src`, `include/shared/fwdesc.h`) | image, list of descriptors, checksums | load, store; `checksum`, `miniboot`, `eeprom_fix` | build, driver | lengths that disagree, stores that do not end | what was stored is loaded, what was not stored is refused |
| Configuration tool (`config/`) | trees of conditions and menus, symbols with caches and flags, files | parsing, rewriting, evaluating, asking, reading, writing, search for recursion | Kconfig files, build | rewriting in place, values cached in the order of use, five files written one after another | conditions keep their meaning, selects are honoured, files are read back, nothing stale is built |
| Rest of the repository | | | | | see "Not modelled" |

### Options

The models of the firmware follow the defaults of `carlfw/Kconfig`: CAB queue, radio
functions, security engine, GPIO interrupt and MAC reset on; debugging and DMA queue bump
off.  Wake on LAN, off by default, has modules of its own and is on where suspend is
modelled; standard requests and mode switching are constants of `UsbCtrl` (mode
switching is off in the runs, as it is by default).

## The modules

Each module is parameterised by the constants of the source; `MC*.tla` and the `.cfg`
files give them small values.

### Firmware

| Module | Models | State and actions against the code |
|---|---|---|
| `RingIndex` | index arithmetic | `Wrapped` is `%=` |
| `TxStatusRing` | TX status ring | `GetTxStatusBuffer` (index, then the flush when full), `FillStatus`, `Janitor`, `Splice` (one message of the flush) and `SpliceDone`; a status is the number of its completion, `host` is what was sent |
| `IntRing` | response ring and response buffer | `Post` is `get_int_buf` and the copy; `StatusIn`, `Dequeue`, `StatusInDone` are `usb_status_in` before, in and after its loop; `HandleUsb` enables the interrupt again; `HostRead`, `HandleUpload` return the descriptor |
| `PacketCircuit` | abstract: blocks that circulate | what the queues promise, without descriptors |
| `DmaQueue` | `dma.c` against two DMA engines | one queue filled by hardware and one drained by it, as host → wireless (down queue, TX queue) and wireless → host (RX queue, up queue) have them; `dma_put` and `dma_reclaim` in steps: `Prepare`, `CopyStatus` (the OWN bits of the old terminator), `CopyRest`, `Publish`, `Trigger`; engines: `HWFill`, `HWDrain`, `HWStop` |
| `TxPath` | transmit path, BlockAck responder, main loop | `stage` is where `main_loop` and `handle_tx_completion` are; one action per round of a loop; `MacSend`, `MacIdle` are the MAC |
| `TxHang` | EXTENDS `TxPath` with `wlan_timer` | `Tick` is the end of a round in which the timer fires: `wlan_check_hang` of all queues and then `MacReset` or `NoReset`; `MacHang` stops the MAC |
| `Cab` | content after beacon | `ModifyBeacon`, `Pretbtt`, `Clock`, `SendBufferedCab` / `FlushCommand`, `FlushFrame` (one round), `FlushEnd`, `TxStatus` |
| `RxPath` | receive path, BlockAck cache, overrun check | a frame is in a descriptor the MAC has filled (`rxq`), on its way to the host (`upq`) or in none; `stage` is where `main_loop` is; `Air`, `Upload`, `BarSent`, `BaSent` are the MAC and the USB DMA; the classes and the filter are `wlan_rx_filter` and what it calls |
| `Radio` | `rf.c`, power save in `handle_pretbtt`, the test in `__wlan_tx` | `CmdPsm`, `Pretbtt`, `rf_notify_set_channel`, `RfCmd`; frames that wait, are sent or sent again |
| `UsbFifo` | `fifo.c`, `usb_fifo.h` | which registers a change of the configuration writes, with what |
| `UsbCtrl` | control endpoint, suspend, resume, reset, reboot, watchdog, warm start | `HandleFw`, `Host`, `HandleUsb` are the round; `HandleResume` goes on behind GO_TO_SUSPEND with the interrupt byte read before; `Request`, `BusEvent`, `Data` are the host, `Hang` and `Bite` the failing firmware and the watchdog |
| `CamKeys` | `cam.c` | `SetType`, `SetMac`, `SetKey` are the rows of `set_key`, `Return` puts the user into the roll call table; the engine looks users up between them |
| `WolMagic` | the scanner for magic packets | one step per byte |
| `Wol` | `wol.c` | `wol_cmd`, `wol_prepare`, `Rx` (the three scanners), `wol_janitor`, `Tick` |

### Host driver and tools

| Module | Models | State and actions against the code |
|---|---|---|
| `HostCmd` | carlu's commands: two threads, libusb and the firmware | `Call` is `carlusb_cmd` up to the synchronous transfer (`resp_lock` is held while `pc = "submit"`), `SubmitFailed`, `Submitted`, `TimedOut`, `Succeed`, `TimeOut` the rest of it; `Poll` is a round of the event thread, `HandleCommand` the critical section of `carlu_handle_command`, `CondSignal` what follows it; `Deliver`, `Fail`, `CallerPolls` are libusb, `Answer`, `SendTrap` the firmware |
| `HostTx` | carlu's transmit interface | `pc` and `evpc` are the places of the sender and of the event thread; every critical section is a step; `Receive` and `Report` are the device; `MayFail` lets transfers and allocations fail |
| `HostLife` | contexts: probe, upload, boot, receive transfers, close | `pc` walks through `carlusb_probe`, `carlusb_close` and `main`; `Thread(c)` is the event thread of a context, `Back(d)` a device that comes back from its reset |
| `ByteDeque` | abstract: a deque of bytes | what `struct frame` promises |
| `FrameBuf` | `struct frame` | pointers and counters as the code has them, `total_len` unsigned; a failing `BUG_ON` ends the program (`bug`), a reserve after a pull is remembered (`late`) |
| `FwFile` | firmware file, `checksum`, `miniboot`, `eeprom_fix` | `Checksum`, `Miniboot`, `EepromSet`, `EepromDel` load and change; `Written`, `Torn` end the store.  A checksum is what it was computed from: equal checksums mean equal contents, which the CRC does not guarantee |

### Configuration tool

| Module | Models | State and actions against the code |
|---|---|---|
| `KExpr` | `config/expr.c` | the value of a condition and its rewritings as operators; a slot (`struct expr **`) is a path from the root, so that two pointers into one tree keep their meaning while it changes |
| `KRewrite` | any sequence of rewritings | `Transform`, `EliminateDups`, `EliminateYn`, and the conditions of menus around |
| `KSymbol` | `sym_calc_value`, choices, visibility, `sym_set_tristate_value` | values with their caches and flags, calculated in the order of use |
| `KConf` | `conf.c` with `confdata.c` over `KSymbol` | `Load`, `Ask`, `Check`, `Checked`, `Write`; the modes of the front end are initial states |
| `KAuto` | the files for the build | each rename and each write a step after which the tool may stop; `Truncate` and `Fill` write `.config` in place instead; `Build` is make |
| `KText` | numbers with ranges, quoted strings | `Set`, `SetRange`, `Read`, `Reload`; texts are sequences of characters |
| `KDeps` | `sym_check_deps` | the C stack with the entries of `dep_stack` is one stack of frames |
| `KMenu` | actions of `zconf.y`, `menu_finalize` | `Config`, `OpenIf`, `OpenMenu`, `OpenChoice`, `End` are statements; `Enter`, `FinalizeKids`, `Steal`, `Move`, `Done` the walk of `menu_finalize` |

Proofs are in `RingsProofs` (both rings), `TxPathProofs` (with `TxHang`), `DmaQueueProofs`,
`CabProofs`, `HostCmdProofs` (commands, life of contexts), `DeviceProofs` (key cache,
receive path, USB control, magic packets) and `ToolsProofs` (frame buffers, sender, and of the
configuration tool the files for the build and the search for recursion); `QueueLemmas` holds
the lemmas about sequences, ring indices and finite sets that several of them use.

How they fit together: `TxStatusRing` posts into `IntRing` (a spliced message is one
message); `IntRing`'s descriptor is the "spare" of `DmaQueue`, and so is `fw_desc` of
`TxPath`; `TxPath` and `RxPath` treat a queue as a sequence with OWN bits, which is what
`PacketCircuit`, implemented by `DmaQueue`, promises; `Cab` hands its frames to a queue of
`TxPath`, which keeps the order of frames that are not aggregated; the answers of `RxPath`
are frame 0 of `TxPath`, and its overrun check asks for a reset of `TxHang`; `Wol` runs
while `UsbCtrl` is suspended and causes its wake-up; the firmware `HostCmd` talks to may
lose an answer because `IntRing` may; `HostTx` gets what `TxStatusRing` reports;
`HostLife` uploads what `FwFile` has stored and runs the commands of `HostCmd`; `KConf`
evaluates `KSymbol`, whose conditions are `KExpr`'s and whose menus `KMenu` has built,
after `KDeps` has found no recursion.

### Choices in the models

- **Steps.** The firmware is one thread, so a handler is one action unless hardware can
  interfere in a way the handler can notice.  In `dma_put` and `dma_reclaim` that is every
  write the engines can see; in `handle_tx_completion` and `handle_rx` it is between the
  rounds of their loops; in the flush of the status ring and in `usb_status_in` the rounds
  are steps because each one is a message; in `set_key` every row is one.
- **Data.** A frame is a number or a kind, its rates are a tuple of tries, its header is a
  value that can be equal to another one's or not.  Payloads are blocks.  Lengths occur
  where arithmetic on them decides something (`IntRing`, `RxPath`, `FrameBuf`, `FwFile`).
- **The MAC** (external) completes the first frame it owns, successfully, with TXFAIL (and
  then halts until `wlan_txunstuck`), or, for aggregated frames, with BAFAIL.  The
  handling in `wlan_tx_status` implies exactly that.
- **Histories** (marked as such) record what was sent and read.  No action reads one,
  except to number what it makes and to stop at a bound.
- **`DmaQueue`** lets an engine run at any time: it fills any number of blocks up to
  `MaxLen` in one packet when that many are left, and stops at a descriptor it does not own.
- **`Cab`**: the clock is the truth value of `is_after_msecs`, and `Clock` may flip it at any
  time, which covers the wrap of the counter.
- **libusb** is taken as it documents itself: completed transfers are handled in order, by
  one thread at a time, with its event lock held during the callbacks; a synchronous
  transfer returns when its own completion was handled, and its caller handles events
  itself whenever the event thread does not.  Answers are numbers of calls with a length,
  since the only thing `carlu_handle_command` compares is the length.  `dirty` (a history)
  says that an answer, or its signal, was outstanding when the call began.
- **`HostLife`**: undefined behaviour ends a run, and `bad` names it.  One of its names,
  "live transfer", is reached without any failure: `carlusb_destroy` frees transfers that
  libusb still has (`tools/carlu/src/usb.c:329-343`).
- **`KAuto`**: make (external) builds what depends on a touched header once `auto.conf` is
  newer than `.config`.

## What the runs check

Several runs hold more than one component.  Their MC module instantiates each of them, a
variable `part` (chosen in the initial state, never changed) says which of them moves, and
the others stay at an initial state (or, for the parts of the configuration tool in
`tools`, have no values at all).  The components of such a run share no variable, so
every behaviour of them together is, looked at through one component's variables, a
behaviour of that component with stuttering: nothing is lost by not interleaving them.
Fairness is that of the components, for the one that moves.  A property of such a run is
the conjunction of the properties of one component, which its module states one by one.

| Run | Module | Bounds | Shows |
|---|---|---|---|
| `rings` | `MCRings` | `TxStatusRing`: ring of 4, messages of 3, 11 completions; `IntRing`: ring of 3, 6 messages, lengths 0 and 8, space of 24; `RxPath`: one descriptor, 3 frames of 3 kinds (a request, a frame so short that its length wraps, a broken one), one tick | indices wrap twice, a message is cut by its own limit and by the edge of the ring, a full ring is flushed at every position of its head; a response takes one to three messages, so all cases of "does not fit" and of overflow occur; the receive queue runs dry and is reset |
| `beacon` | `MCBeacon` | `Cab`: 4 frames; `Radio`: counts up to 3, 4 commands; `Wol`: two access points and addresses besides the zero address and broadcast, lost after 2 ticks, every set of wake-up causes; `UsbCtrl`: requests about remote wake-up, both bus speeds | broadcast batches, power save across channel changes, wake on LAN, suspend and resume |
| `dmaqueue` | `MCDmaQueue` | 3 blocks, 3 terminators, packets of up to 2 | both queues empty, all blocks in one queue, packets of one and two descriptors, every interleaving with the engines; refinement of `PacketCircuit` |
| `txpath` | `MCTxPath` | 2 queues, 3 frames of two kinds (one aggregated with a fall-back rate, BlockAckReqs with two tries), 2 BARs, cache of 1 | the safety of the transmit path |
| `txhang` | `MCTxHang` | `TxHang`: 2 frames, reset after 2 ticks instead of 7, one forced reset; `DmaQueue`: one block of up to 2 descriptors | who is killed and what becomes of it; every frame and the firmware's own descriptor come back |
| `host` | `MCHost` | `HostCmd`: 3 calls of four kinds (long, short and empty answers, and one shorter than its buffer), 1 unasked message; `HostTx`: 3 frames, 4 chunks, 1 transfer in flight, 3 cookies; `HostLife`: 2 devices, 3 contexts, one bulk receive transfer besides the interrupt one, 2 failing calls | three calls let a late answer reach the next call and that call's answer the one after; both limits of the sender are met; a second device is there to be mistaken for the first |
| `tools` | `MCTools` | `FrameBuf`: 5 bytes, blocks of up to 2, counters of 4 bits; `HostTx`: failures, 2 transfers, 2 leaked slots; `FwFile`: two files, 4 runs of the tools, three overrides fill their descriptor to the maximal length (682 in the code); `KAuto`: 2 symbols and 3 runs, each writing in place or not and cut short anywhere; `KDeps`: 4 symbols with up to 2 dependencies each, a choice of two among them | a buffer that is full, empty and shifted; every failure of the sender; every sequence of four actions of the tools, ended or not, among them a fourth after the descriptor has become too long to be read; every run of `conf` after two others, ended or not; recursions through the choice |
| `device` | `MCDevice` | `CamKeys`: users at the edges of every row, 2 calls; `WolMagic`: an address of 2 bytes, 2 copies, frames of 9 bytes; `UsbCtrl`: every standard request, one bite; `RxPath`: 2 descriptors, a cache of 2, 3 frames (requests, intact or not, a frame so short that its length wraps, and BlockAcks) and one BAR of the host; `unsigned int` wraps at 65536, which every length is far below | the firmware's other interfaces |
| `config` | `MCConfig` | conditions of up to three operands over a boolean and a tristate, with one menu around; 5 symbols with a select, or a choice of two, and every file with lines for four symbols, in every mode; `int` of 4 and `long` of 6 bits, with numbers that fit the one, the other or neither; files of 3 statements | the configuration tool: single rewritings, values and what is asked, files written and read, numbers and strings, menus |
| `intring_overflow` | `IntRing` | as in `rings` | a counterexample: order after an overflow |
| `txpath_order` | `MCTxPath` | 2 aggregated frames, 1 BAR | a counterexample: order under retries |
| `wol_lost` | `MCBeacon` | `Wol` as in `beacon` | a counterexample: a live connection is taken for lost |

Why the bounds are enough: the rings are symmetric under rotation, and three slots
distinguish head, tail and another slot (the status ring has one more, for the limit of a
message); the queues need two packets in flight and one in the firmware's hands for every
overlap of an exchange with an engine, which three blocks and three terminators give; the
transmit path needs two frames in a queue to go wrong (order, aggregate, retry, halted
queue) and a second queue for the loop over the queues; the hang check needs a count that
is reached by counting (two) and one frame that comes and goes meanwhile; the host needs
one more frame, call or device than there are slots, buffers or handles; a rewriting of
the configuration tool looks at two operands and at what is around them; a recursion has
one, two or three symbols, or goes through a choice.  Deadlock is not checked: the
bounds on inputs let every system come to rest when all inputs are used up.

### The properties

- `rings`: `HostInOrder` (every status once, in order), `StatusReported`;
  `InOrderUntilOverflow`, `DescriptorExclusive`, `MessagesRead`; `AllReturn` (when the air
  is quiet, the MAC has every descriptor back and receives, and every cached request is
  answered, although the queue ran dry).
- `beacon`: `AnnouncedFirst`, `BitUndone`, `PromiseKept`, `CabSent`; `RadioGoesOn` (a radio
  put to sleep for some beacons wakes up, transmissions resume after a channel change
  though power save began or ended inside it, no radio is off without a reason);
  `HostWoken` (a host whose access point is gone is woken; what wakes it is a frame to
  everybody or to the zero address, a probe request or a lost connection; a
  deauthentication of everybody always does); `ResumeReboots` (after a resume and after a
  reset).
- `dmaqueue`: `CircuitKept`, which is the refinement of `PacketCircuit` and three
  invariants on paths through descriptors: `OwnedIsComplete` (a descriptor the hardware
  owns leads to a complete packet), `NoBlockLost` (each block is carried by exactly one
  descriptor, or is in the locals of an exchange), `ReservedNotFilled` (the firmware's
  buffer never becomes receive memory).
- `txpath`: `FramesAccounted` (a frame is at one place, the retry queue is drained before
  a round ends, BARs are counted, no frame is sent more often than its rates allow),
  `KeptIsLive` (`ampdu_prev` and `fw_desc` never point at what is freed or in a queue).
- `txhang`: `KilledOnlyWhenHung`, `KilledFails`, `AllReported`, `SpareComesBack`.
- `host`: `OwnAnswer`, `StuckBehindLateAnswer`, `FramesComeBack`, `ContextsServed`,
  `CallsEnd`.  The exceptions in the properties of `HostCmd` (`dirty`, a failed transfer,
  `early`) all occur: without them TLC finds each of the properties violated.  A late
  answer, or only its signal, ends the next call with success; a call whose answer it is
  then leaves its own answer behind for the call after it; a failed transfer leaves
  `resp_buf` in a frame that is gone; and a late answer that arrives while the next
  command is being transferred stops both threads for good, because `carlusb_cmd` holds
  `resp_lock` while it waits for the event thread (`usb.c:653-669`, `rx.c:64`).  No
  document promises otherwise, so these are not listed as findings.
- `tools`: `AccountsHold` (device memory in use is that of the frames carlu waits for, the
  slots in use are those of transfers in flight and of failures, what a list, a transfer
  or a thread holds is alive until close), `FileKeeps` (what was stored is loaded, the
  overrides are those asked for, until their descriptor has the maximal length, with which
  it is no longer read), `ActsAsDeque` (refinement of
  `ByteDeque`), `NothingStale` (what depends on a symbol that has changed since it was built
  is built again, and a fresh `auto.conf` agrees with `.config`), `BreakingIsEnough` (what
  `sym_check_deps` prints are recursions, without them there is none, and no flag stays).
- `device`: `EngineSeesWhole`, `AnsweredInOrder` (until the cache overflows; after that
  the newest request is answered first, and a slot may be answered again; a frame too short
  to be one may be answered with the request an earlier frame left in its buffer), `LifeFollowsHost`,
  `NoticedBaReachesHost`, `MagicFound`.
- `config`: `RewritesKeepMeaning`, `SelectHonoured`, `RoundTrip`, `TextSurvives`,
  `MenusAsSaid`.  `expr_eliminate_dups2` turns
  `(a || b) && !a && !b` into n, which is m when `a` is m; so the value of a condition is
  kept by all rewritings only where no symbol is m (`ValueKept`), with modules by the
  rewriting of negations and constants alone (`NegationKept`).  `RoundTrip` is about
  Kconfigs without a default above the visibility of its symbol (a default `y` below a
  prompt that is `m` at most): what is written of it is read back as a user's value.
  `TextSurvives`: the code compares with a range what the cut to `int` leaves of a number,
  so a number is in its range if it fits an `int`, and 20 may stand for a range up to 5
  with an `int` of 4 bits.  `MenusAsSaid` is about files in which no prompt's condition
  repeats, or is otherwise joined with, what is around it while a `visible if` is in it:
  the menu and the prompts in it share that one tree (`menu.c:152`), and what
  `menu_finalize` drops from it for one prompt is freed for all (`Spoils`).

Each component also states a type invariant.  Where the component has proofs, it
is proved; the others bound the variables for the reader.

Every property has a mutation of the code, defined next to the definition it mutates and
marked "Slip", under which it fails.  The mutants are not part of any specification.

### Fairness

- The firmware never waits: `main_loop` calls every handler in every round, so weak
  fairness holds for the firmware's next step (`TxPath`, `TxHang`, `RxPath`), and for each
  handler in the models that treat handlers as independent (`TxStatusRing`, `IntRing`,
  `DmaQueue`, `UsbCtrl`, and `wol_janitor` of `Wol`).
- A hardware engine that was triggered and has work does it: weak fairness of `MacSend`,
  `HWDrain`, `Upload`, `BaSent` and so on.  `TxHang` weakens that: the MAC sends *or hangs*.
- Strong fairness of `TakeSent` (`DmaQueue`): a firmware that comes round again and again
  finds the sent packet between two exchanges.
- A host that is present reads its interrupt endpoint (`HostRead`).
- The timer ticks infinitely often, at the end of a round (`Tick` of `TxHang`): strong
  fairness, since a round ends only now and then.  `Tick` of `Wol` is the clock.
- `Cab`: an access point makes DTIM beacons for ever, and more than `CARL9170_TBTT_DELTA`
  passes between its pretbtt interrupts.  Strong fairness of `SendBufferedCab` stands for
  the janitor, which runs in every round, many times between two events of the clock.
- `Radio`: the TBTT timer of the MAC runs although the radio sleeps; a driver that has
  begun a channel change ends it.
- `UsbCtrl`: the clock is back once the bus resumes; a watchdog that is on and not fed bites.
- `HostCmd`: both threads run (a thread that waits for a lock excepted), and a transfer
  succeeds or fails within its 32 ms.  Nobody is assumed to answer.
- `HostTx`: both threads run, and the device reports every frame it got.  Strong fairness
  of `BulkCb` and `FindFrame`, since the event thread has two kinds of events and no
  order between them.
- `HostLife`: every thread runs, a device that resets comes back, and
  `libusb_handle_events` returns.

No liveness property is claimed for the host sending anything, nor for frames in the air.

### What the runs found

1. **The response ring loses its order when it overflows** (`intring_overflow`).
   `get_int_buf` lets the tail run over the head without moving the head
   (`carlfw/usb/main.c:75-79`).  After one overflow the slot at the head holds the youngest
   message, so the host reads it first, then the older ones.  The comment at line 69 says
   that the *oldest* buffer is given up.  The same pattern is in
   `wlan_get_bar_cache_buffer` (`wlan.c:598-609`).
2. **Retries of aggregates change the order of frames** (`txpath_order`).
   `wlan.c:374-375` says "We must not mess up the original frame order", and `main.c:195`
   orders its calls for it; it holds for frames retried in place, but a frame that the
   BlockAck does not cover goes to the end of the queue, behind frames the host sent later.
3. **Wake on LAN takes a live connection for lost** (`wol_lost`).  `wol_cmd` copies
   `sizeof(cmd)` bytes, the size of a pointer (`wol.c:36`): the flags arrive, the addresses
   stay zero, no beacon is recognised, and the host is woken 10 seconds after it suspends.

### Further disagreements

Properties that are stated in the modules, that a comment or document claims, and that
the code does not have.  No run lists them; to see a counterexample, name the property in
the run's configuration.

| Property | Code | What happens, against what is said |
|---|---|---|
| `HostTx!FreedByLastUser` | `tools/carlu/src/usb.c:246` | at close a frame on both lists is freed twice; `frame.h:226`: "free it up, if all users are gone" |
| `HostTx!RightFrame`, fewer cookies than lost frames | `tools/carlu/src/tx.c:78` | a cookie is given out again while a frame whose transfer failed still has it; `wlan.c:166`: "The *unique* cookie" |
| `HostLife!HasDevice`, `ProbesAll` | `tools/carlu/src/usb.c:605` | the result of the second `carlusb_get_dev` is dropped: no device, or another one; `usb.c:597`, `main.c:263`: "probe all possible devices." |
| `UsbCtrl!SuccessIsAnswered` | `carlfw/usb/usb.c:648` | a feature is set and the request stalled |
| `UsbCtrl!StatusTellsWakeup` | `carlfw/usb/usb.c:332` | the number of a feature is used as a mask; `ch9.h:113` |
| `UsbCtrl!ConfigZeroDisables` | `carlfw/usb/usb.c:495` | configuration 0 falls through to 1; line 494: "Disable Device" |
| `UsbCtrl!DmaStaysEnabled` | `carlfw/usb/fifo.c:93` | sizes in bytes where blocks are meant: the loop writes over the DMA control register |
| `UsbCtrl!PacketSizeAgrees` | `carlfw/usb/fifo.c:49` | sizes of OUT endpoints are written into the FIFO map |
| `Radio!SoftwareMeansPowered` | `carlfw/src/rf.c:228` | SLEEP with count 0 leaves the radio down in the state "not enabled by the driver" |
| `Radio!NoTxWhileAsleep` | `carlfw/src/wlan.c:296` | a retry reaches `__wlan_tx` while the radio sleeps, which it asserts against |
| `WolMagic!Complete` | `carlfw/src/wol.c:101` | a magic packet preceded by one more 0xff is missed |
| `Wol!OwnFrameWakes` | `carlfw/src/wol.c:42` | the address of the host is not copied (finding 3), so the hardware marks a frame for the host as one for somebody else; line 175: "should catch both broadcast and unicast MLMEs".  A frame for the zero address wakes the host instead |
| `Wol!WakeOnlyForSsid` | `carlfw/src/wol.c:227` | the last letter of the SSID is not compared |
| `RxPath!SneakyRefused` | `carlfw/include/wl.h:182` | the length of a frame shorter than what the MAC adds wraps, passes `wlan.c:626` and `679`, and what its buffer holds from an earlier frame is answered; `wlan.c:628`: "Sneaky, corrupted BARs... but not with us!" |
| `RxPath!QueuedBaReachesHost` | `carlfw/src/wlan.c:710` | a BlockAck whose BAR is reported before it is handled is filtered; line 712: "Don't filter block acks when the application has queued BARs." |
| `FrameBuf!InBuffer` | `tools/include/frame.h:169` | `frame_reserve` checks `total_len` only, which is too small after a pull, and moves `tail` out of the buffer; `frame.h:102` asserts that it is inside |
| `FrameBuf!PullUndoesPush` | `tools/include/frame.h:152` | a push and a pull leave `total_len` smaller; line 141: "Does the opposite of frame_push()" |
| `FwFile!MiniRemoved` | `tools/lib/carlfw.c:604` | removing a miniboot image cuts the end of the firmware off |
| `FwFile!AddsOrSets` | `include/shared/fwdesc.h:245` | a descriptor of the maximal length may be made (`carlfw.c:291`) and is stored, but not read: the 682nd override loses them all, and the checksum behind them; `eeprom_fix.c:152`: "add/set value for address" |
| `KRewrite!TransBoolSame` | `config/expr.c:330` | `FOO!=n` is y where `FOO` is m; harmless where it is used |
| `KConf!NewAreNo` | `config/conf.c:427` | `--noconfig` gives new symbols their defaults; line 464: "set new symbols to no" |
| `KConf!CacheFresh` with a choice | `config/symbol.c:276` | a choice whose chosen value is hidden is y when first calculated and m afterwards |
| `KText!ReadInRange` | `config/symbol.c:597` | the high bits of a number are dropped before the range is checked: 4294967298 is kept for a range up to 5 where `long` has 64 bits; `confdata.c:394`: "Reset a string value if it's out of range" |
| `KMenu!VisibilitiesKept` | `config/menu.c:152` | a `visible if` is not copied, and freed when a prompt below repeats it (`expr.c:534`); `menu.c:143`: "Apply all upper menus' visibilities to actual prompts." |
| `KDeps!ErrorEndsTool` | `config/symbol.c:1220` | "error: recursive dependency detected!" is printed and the tool goes on |
| `KMenu!ListsAll` | `config/menu.c:337` | an entry below a symbol without prompt is neither asked for nor listed when its menu is hidden |

## What is proved

TLAPS proves the following for every value of the constants that satisfies the assumption
of the module.

- `RingsProofs`, TX status ring: `TypeCorrect`, `RingCorrect` and `ReportedInOrder`.
  The inductive invariant is `TypeOK /\ RingInv`.  `HostInOrder` alone is not inductive:
  that the next message of a flush continues the sequence follows only from what is in the
  slots from the head on; and that in turn needs the relation of head, tail and pending,
  with the exception of the slot that was handed out but not yet counted while a
  full ring is flushed.  The arithmetic of the ring is in lemmas of `QueueLemmas`
  (range, injectivity and successor of `Wrapped`), which are proved from the definition of
  `%`.  The only assumption is that the ring has a slot.
- `RingsProofs`, response ring: `IntTypeCorrect`, `MessagesInOrder` (which is
  `InOrderUntilOverflow`) and `ResponseInOneHand` (`DescriptorExclusive`).  The invariant
  `IntInv` adds to the types: the one descriptor is in one hand (`OneHand`) and, until the
  first overflow, what the host has read, what is in the response (`OnTheWay`) and what is
  in the slots from head to tail (`InRing`) are the messages in the order of their numbers.
  `IntAssumption` (`Sizes` of `IntRing`): the ring has a slot; messages may have any lengths
  and the response any space.
- `TxPathProofs`, transmit path: `TypeCorrect`, `FramesCounted` (`FramesAccounted`) and
  `KeptLive` (`KeptIsLive`).  A frame's place is not local to any handler: that a retry does
  not duplicate a frame needs that the queues, the retry queue and the descriptor in the
  firmware's hands are pairwise apart (`QueuesApart`, `RetryApart`), that a frame is on its
  way exactly while it is in one of them (`OnItsWay`), and that what was reported is not
  (`ReportedOnce`).  `BarsCounted` relates `queued_bar` to all of them; `PrevLive` says that
  `ampdu_prev` is still in its queue between two rounds; `AttemptInv` follows a frame
  through its rates, and gives the bound on tries.
- `TxPathProofs`, hang check: `HangTypeCorrect`, `KilledWhenHung` (`KilledOnlyWhenHung`) and
  `KilledOnesFail` (`KilledFails`).  `HangInv` says that the frame a queue's count of silent ticks
  is about is still in the queue, and with the MAC for at least as many ticks unless the MAC
  is done with it (`Watched`), and that a killed frame has no tries left and has failed
  where it is in a queue (`Dead`).  The assumption is that no frame has a rate
  with more tries than the field of the hardware can hold (`MaxRateTries`): the kill writes
  that number into the count of tries.
- `DmaQueueProofs`: `DmaTypeCorrect`, the types of the queues, and `CircuitCorrect`
  (`CircuitKept`): the refinement of `PacketCircuit` and the three invariants on paths,
  for any number of blocks and packets of any length.  A path through descriptors is
  a function that is applied again and again, and nothing can be proved about one
  without knowing where it goes.  The inductive invariant `DmaInv` therefore says that
  there are three lists of descriptors without repetition and without a common element:
  `x` for the queue that the hardware fills, `z` for the one that it drains, `y` for what the
  firmware has taken out and not yet put back; and for the queues the places `b` and
  `c` on them at which the packets begin, with the packet the engine stands at
  (`Rep`).  `nextAddr` leads along a list, `lastAddr` of the first descriptor of a packet to
  its last, `own` says on which side of the engine a descriptor is, and the last one on a
  list is the terminator.  `Ends`, `SpareRep` and `Carriers` add which descriptors end the
  queues, where the firmware's own descriptor is, and that two descriptors carry
  different blocks.  For each action a lemma says how it changes the lists: an engine appends
  a packet or advances by one, taking cuts the first packet off, the exchange of
  terminators in `dma_put` makes the old terminator the first element of what is joined
  to the queue.  `Values` reads the variables of `PacketCircuit` off the lists, so a step of
  the circuit is a fact about sequences (`TakeFilledImplements` and the like).  The
  assumption (`DmaQueueAssumption`) is that terminators, blocks and data areas are different
  from each other, as `dma_mem` (`dma.h`) lays them out.
- `CabProofs`: `CabTypeCorrect`, `LenCorrect`, `AnnouncedCorrect`, `BitCorrect` and
  `PromiseCorrect`, all the safety properties of `Cab`, for any number of frames.  They are
  inductive only together with `TriggerInv` (an armed trigger stands for a DTIM beacon, any
  trigger for a set bit, and a flush of the janitor for an armed trigger), from which
  `AnnouncedFirst` follows, and `QueueInv` (the waiting frames are the youngest, in the order
  of their arrival, and the last frame with the MAC is the last of the batch), from which it
  follows that the frame a MOREDATA bit promises is the next one.
- `HostCmdProofs`: `HostCmdTypeCorrect`, `OwnAnswerCorrect`, `StuckCorrect`, `BufferCorrect`
  and `SignalCorrect`, all the safety properties of `HostCmd`, for any commands and any
  number of calls and messages.  The assumption is that a caller has room for the answer to
  its own command, which every caller in `cmd.c` has.  The inductive invariant follows the
  one answer of a clean call (`OneAnswer`: it is in the device, in one completed transfer, or
  in the callback), says that it comes behind the completion of the command's transfer
  (`Behind`, which excludes the deadlock), that the buffer waits for it (`Room`) and what
  a signal means (`Answered`).
- `HostCmdProofs`, life of contexts: `ContextsCorrect` (`ContextsServed`), for any numbers of
  contexts, devices and receive transfers, whichever steps of a probe, of `carlusb_close`
  and of the callbacks fail.  A callback whose
  `libusb_submit_transfer` fails loses its transfer for good (`usb.c:439`, `467`), so what
  is promised is every transfer but those; and the search for the device after the boot may
  fail, which nobody looks at (`usb.c:605`).  `LifeInv`
  says which contexts are in use while `main` goes up and down through them (`Counted`) and
  which are still as they were made (`Unopened`); that `active_dev_list` holds a context at
  most once and every one that has a device, freed ones only after a failure before the
  thread was started (`Listed`); that a reported context has a device and no other has the
  same, also while a device is away for its reset (`Owned`); how far the transfers of the
  context being opened or closed are filled (`Filled`); and that what was reported
  runs its firmware and all its transfers, served by the thread of the first context (`Served`).
  What is touched after it is freed needs one of the failures that `CrashNeedsFailure`
  names, which is part of the invariant.  The assumption (`Sizes`) is that there is at least
  one context and one receive transfer.
- `DeviceProofs`, key cache: `NoUserTouchesAnother` and `LookupsAreWhole`, for any finite set
  of users, numbers beyond the table included.  The inductive invariant `CamInv` says what
  is in the rows between two of `set_key`'s steps: the user being written is not called up
  (`NotCalled`), everybody else's cells hold what their own call wrote (`OthersHold`), and
  the rows behind are written (`WrittenSoFar`).  It rests on lemmas that the cells of two
  users, and the ciphers, addresses and keys of one, are disjoint: the layout's arithmetic.
- `DeviceProofs`, receive path: `RxTypeCorrect`, `RequestsAnswered` (`AnsweredInOrder`) and
  `NoticedBaPassed` (`NoticedBaReachesHost`), for every size of cache and queue.  `RxInv`:
  each descriptor at one place (`RxDesc`), the indices of the cache and its slots (`RxCache`),
  which requests are asked, cached and answered, in one sequence until the first overflow
  (`RxOrder`), the host's BARs against `queued_bar` (`RxBars`), and what the round has taken
  from the interrupt register (`RxFlags`, `RxNoted`).  `AcceptedAre` says what the
  checks of `wlan_rx_filter` and `handle_bar` let through as a request: every intact one for
  us, and every frame without error bits that is shorter than what the MAC adds to it, in a
  buffer that still holds a request, because its unsigned length wraps (`wl.h:182-203`).
- `DeviceProofs`, USB control: `LifeCorrect` (`LifeFollowsHost`).  `UsbInv`: no
  request is outstanding during a suspend or while one is pending (`UsbPlaces`), the wake-up
  bit of the core is the one of the feature word (`WakeupBits`), why the firmware runs
  during a suspend (`Reason`), and what the watchdog's state is in each phase (`Watched`).
- `DeviceProofs`, magic packets: `MagicIsFound` (`MagicFound`).  `MagicInv`: the last
  `found` bytes begin a magic packet, and if bytes that begin a clean one were read, they
  are those that `found` counts.  That a clean packet is found needs that the address has
  no byte 0xff, which the property states.
- `ToolsProofs`, frame buffers: `StaysInBuffer` and `FrameIsDeque`, the refinement of
  `ByteDeque`, for any buffer and block size and for counters wide enough for them.
  `frame_put` and `frame_push` compare the pointers as well and keep `data` and `tail` in the
  buffer whatever `total_len` has become; `frame_reserve` relies on that count alone, which
  is `tail` as long as nothing was pulled since the frame was allocated or trimmed.  A
  reserve after a pull (`late`) may move `tail` out (`KeptInBuffer` allows just that); no
  caller does it.  What such a caller then destroys is not modelled, so `FrameIsDeque` is
  about the calls up to there.
  The steps of the refinement are the `Content` lemmas: what the bytes from `data` to
  `tail` are after each operation.
- `ToolsProofs`, sender: `AccountsCorrect` (`AccountsHold`), for every set of frames, chunks
  and cookies and with every failure.  `TxInv` counts the slots on both sides
  (`SlotsCounted`), and until close says that the list of sent frames is without repetition,
  in the order of sending, up to the frame being sent, and holds every frame whose cookie
  the firmware may still report (`TxOrder`: what `carlu_tx_feedback` finds under a cookie is
  never behind the reported frame); that a frame is counted by exactly those that hold it
  (`TxRefs`), is at most in one hand as a transfer (`TxApart`), and that the memory in use
  is that of the frames on the list (`TxMem`).  Memory is stated as the cardinality of the
  set of its chunks in use (`Taken`), which is what makes sums provable.
- `ToolsProofs`, sender without failures: `FramesFound`, the safety half of `FramesComeBack`
  (`RightFrame` and `NoStall`), for every number of cookies and limit of transfers.  The list of
  sent frames then holds the frames on their way and no other (`Complete`), so the first one
  is the one the next status is about, and no frame with the same cookie is before it.  And
  at least as many threads are on their way to `carlusb_tx_pending` as frames wait, or as
  slots are free (`Enough`).  With failures neither holds: a frame that nobody will report stays in
  the list, and a later one with its cookie finds it.
- `ToolsProofs`, files for the build: `BuildNotStale` (`NothingStale`, `FreshMeansAgree`) and
  `AConfigIsKept` (`ConfigKept`), for any set of symbols and wherever the tool is stopped.
  With `KCONFIG_OVERWRITECONFIG` set `conf_write` truncates `.config` in place
  (`confdata.c:752-758`): a run stopped there loses it when there is no `.config.old`, and
  the next one renames the torso over the `.config.old` there is.  `ConfigKept` says that a
  configuration is lost in no other way; `BuildNotStale` holds of such runs as well.
  `AutoInv`: what differs between the build and `auto.conf` is touched (`BuiltOrTouched`), which is enough
  because `conf_split_config` compares with `auto.conf` and `auto.conf` is renamed last; how far
  the comparison has come and that the build does not run meanwhile (`Compared`); which
  files are already in place (`RenamedAgree`); and that behind a fresh `auto.conf` all of them
  say the same (`FreshAgree`).
- `ToolsProofs`, search for recursion: `NoRecursionIsLeft` (`BreakingIsEnough`,
  `PrintedIsCycle`, `FlagsOnStack`) and `RecursionIsNeverCounted` (`NeverCounted`, which is how
  `ErrorEndsTool` comes to be violated), for any symbols, dependencies and values of a choice.
  `DepsInv` describes the stack of calls (`Framed`), the flags of the symbols on it and of the
  values of a choice, which go together (`Flagged`), where a value is that began the search of
  its choice (`Valued`), and that a symbol on its way back was printed with all it is
  returned through (`Returning`).  What a call has gone through is settled: printed,
  or searched to the end (`Progress`); what a finished symbol depends on is
  settled (`Closed`); and there is no cycle among the finished symbols that were not printed.
  When a symbol is finished, all it depends on was finished before it or is printed, so it
  closes no cycle: that is the argument of a depth-first search, made for one whose flags
  several symbols share.  The assumption (`Sizes`) is that a choice and its values are
  symbols, that a choice is not one of its values, and that NULL is no symbol.

The theorems whose property is checked by a run over several components are about the
specification of that run (`AllSpec`), for every value of its constants: a part that does
not move keeps its variables, and the invariant with them.

`BufferTakenBack` and `NoLostSignal` of `HostCmd`, `LenCounts` of `Cab`, and the theorems
about types are proved and in no run.  Induction over data is not available, but a least
counterexample is (`LeastNatural` of `QueueLemmas`), which is enough where a fact is
needed about one index at a time.

Only model-checked: everything under fairness; `FileKeeps` of `FwFile`, because a file is
parsed and flattened by folds and recursive functions over its descriptors; of the
configuration tool the conditions, symbols and menus (`RewritesKeepMeaning`,
`SelectHonoured`, `RoundTrip`, `MenusAsSaid`), which are trees with recursive operators that the
prover's arithmetic backend does not accept, and `TextSurvives`, whose texts are read by
folds over characters.

## Not modelled

- **Download exception** (`hostif.c:109-140`).  It is called "just guesswork and MAGIC"
  (`hostif.c:160`): which descriptors the DMA unit has used, and how it leaves them,
  is in no document here, so a model would be a model of guesses.
- **`same_aggr`** (`wlan.c:235`) joins its tests with `||`, so frames for different receivers
  may be one aggregate.  `TxPath` has the test as it is; what the MAC does with such an
  aggregate is not known here.
- In the firmware: register programming (RF, PHY, calibration, EEPROM), sequence numbers,
  the TSF, the AMPDU registers, register access and echo commands, tally, GPIO, UART,
  printf and the debugging code.
- carlu's stream mode (it cannot be built: the option in Kconfig has another name), tests
  and user interface; `tools/src/wol.c` and `fwinfo`, which build or print one structure.
- In the configuration tool: the scanner, help texts, the wording of dialogues, searching,
  environment symbols, drawing at random, and the other front ends.
- In `HostTx` the rates reported back, in `HostLife` unplugged devices; in `FrameBuf`
  trimming is to 0, as all callers do, and what is done with a frame after a reserve has
  moved its tail out of the buffer.
- `linux-base`: the postinst script is a sequential dialogue that rewrites files; the
  version comparison is a pure function over Perl patterns.
- `linux/debian`, `firmware-*/debian`, `linux-tools/debian`: generators of control files,
  sequential and pure.  Kernel configuration, patches, installer lists and binary firmware
  are data.
- usbdux, keyspan_pda, av7110 and dsp56k are assembly for other processors, isci and cis
  generate tables.

## Plan

Done: all components of the firmware but the download exception, the host driver, the
tools that rewrite firmware files, the configuration tool without its scanner, and the
theorems above.  Next, in this order:

1. `FileKeeps` of `FwFile`: lemmas on the bytes of one descriptor, and from them that what is
   written is read back.
2. A composition of `HostTx` with `TxStatusRing` and `IntRing`: what the loss of a
   response does to device memory.
3. `VersionCmp`: `version_split` and `version_cmp` against a reference order.
