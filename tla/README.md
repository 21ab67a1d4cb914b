# Verification of the QEMU-HDL co-simulation bridge

TLA+ models of the bridge between QEMU's `accelerator-pcie` device and an HDL
simulator, the TLC runs that check them and TLAPS proofs about them. Line
numbers refer to the files under `src/`; `PROJECT.json` maps every definition
to the lines it models.

## 1. The system

| Component | State | Operations | Talks to |
|---|---|---|---|
| BAR handlers (`accelerator_pcie.c` 332-471) | the access a vCPU is blocked in | `mmio_read_barN`, `mmio_write_barN`, `acc_zframe_recv_logged` | `qemu_req`, `qemu_resp` |
| Poll and AXI masters (`dpi-pcie.c`, `axi4_ip_mod.sv`, `axi4_m_r.sv`, `axi4_m_w.sv`) | `addr`, `data`, `req_*valid`, two state machines | `C_poll`, one clock edge, `C_resp_read`, `C_resp_write` | an AXI slave, the user's design |
| AXI slaves (`axi4_s_r.sv`, `axi4_s_w.sv`, `axi4_s_i.sv`) | two state machines and burst buffers | `C_req_read`, `C_req_write`, `C_req_interrupt`, `S_RD` of `C_poll` | an AXI master, `hdl_req`, `hdl_resp` |
| Host side of DMA (`handle_hdl_request`) | host memory, MSI-X | one turn of its loop per frame | `hdl_req`, `hdl_resp` |
| Session (`acc_pcie_class_init`, `_realize`, `_exit`, `C_setup_pcie_connection`) | open sockets, INIT and configuration frames | handshake, realize, unplug, end and restart of either program | port-1, port+10 |
| NIC bridge (`nic_sim_bridge`, `net_rx_packet`, `net_tx_packet`) | one packet on each stream | poll, one clock edge, send | `nic_req`, `nic_resp` |
| UART (`uart_sim_1.0`, `serial_rx`, `serial_tx`) | two AXI-Lite state machines, STAT_REG, one character | register reads and writes, `C_uart_poll`, `C_uart_rx`, `C_uart_tx` | `serial_rx`, `serial_tx` |
| MSI-X setup (`acc_init_msix`, `acc_cleanup_msix`) | vectors in use | at realize and exit | QEMU's MSI-X |
| Logging, platform, scripts, QEMU patches | | | |

Three kinds of thread meet: vCPUs, which hold QEMU's big lock during an access;
QEMU's main loop, which runs the socket handlers and needs the same lock; and
the simulator's single thread, which runs the clock and every DPI call. They
share ZeroMQ PUSH/PULL pairs only. PUSH sockets bind, PULL sockets connect, and
a send blocks when there is no peer or the queue is full.

What is hard: a response is matched to a request by position only (`ACCData.id`
is unused); a clock edge runs several `always` blocks in an order the simulator
chooses, and `C_poll` writes shared variables with blocking assignments at the
edge at which others latch them; the AXI state machines rely on habits of the
other side's ready signals; writes are acknowledged before they happen; blocked
sends stop the clock; either program may end and come back. `PROJECT.json`
lists these hazards line by line. Two of them need the whole bridge: MMIO and DMA
share the poller and the array `data`, and a vCPU in an access keeps the main loop
from serving DMA.

What makes each component correct:

* MMIO: an access happens once, on the register it names, between its call and
  its return; every access returns; a response is never taken for another.
* DMA: bursts arrive whole and in order; an interrupt or a read never overtakes
  an acknowledged write; nothing accepted is lost; everything ends.
* Session: whoever starts first, QEMU gets its configuration; no send is left
  without a receiver; nothing is left over from one session to the next.
* NIC: whole packets, once, in order, and all of them.
* Bridge: the above with MMIO, DMA and interrupts at the same time.
* Bytes: an access or burst reaches exactly its bytes; no copy leaves its buffer.
* UART: each character once, in order, and all of them.

## 2. The modules

`MmioMemory` is the memory a guest expects behind the BARs: `Invoke`, `Perform`,
`Return`, and `DeviceStep` for registers the design changes by itself.

`MmioPath` is the way there. The vCPU's `mmio_read_bar` and `mmio_write_bar`
are the code up to the blocking receive, `mmio_return` the rest, and
`mmio_interrupted` the receive that returns NULL. `posedge` is one clock edge:
`Poll` (C_poll and the always block around it), the masters `MasterRead` and
`MasterWrite`, the calls `Respond`, and `Slave`, which is external. Because
C_poll's outputs are assigned at the edge at which the masters latch them, a
master may see the old or the new value (`Latched`). `MemorySpec` says that
`MmioPath` implements `MmioMemory`.

* One record, `guest`, stands for all vCPUs: each holds the big lock.
* Accesses are at most 8 bytes and the bus is at least as wide: one beat each,
  as axi4_m_w.sv line 3 asks ("up to one full bus of data at a time"). The buses
  of the platforms have 64 and 32 bytes. Wider accesses are in `ByteLanes`.
* A register holds one value; byte lanes are in `ByteLanes`.
* `Others` says whether responses to DMA reads share the poller (`PollOther`).
* The slave's ready signals are `eager` (always 1), `lazy` (wready only for a
  W beat that is there and whose address it has) or `legal` (whatever AXI allows).
* ZeroMQ queues between live peers are reliable FIFOs.

`PostedMemory` is what a device expects of DMA: writes and reads are posted in
a queue, which the host works off in order, and interrupts go through it too.
`DmaPath` is the implementation: `SlaveWrite`, `SlaveRead` (`ReadIdle`,
`ReadData`, `ReadResponse`), `C_req` and the frames it sends, `interrupt`,
`handle_hdl_request` (one turn of its loop: the others may run in between, as
the HDL does not wait for it), `PollResp` and `PollOther`. The variables `acked`
and `landed` and the field `after` are auxiliary: they record which writes a
request came after. Words stand for bus beats. `Others` says what else C_poll
may find. A send that finds `hdl_req` full stops the clock: the frames beyond
`Hwm` are those being sent, and nothing of the HDL runs (`Running`) until
`handle_hdl_request` has made room. The master is `steady`, `pausing` (at will, but ready for the last
beat) or `legal` in its `rready`. Bursts have several beats in both directions:
axi4_s_r.sv has the same line 3, but its READ_RESPONSE (lines 117-131) counts beats
and puts a word on the bus for each. The comment is older than that code, and the
models follow the code.

`PcieBridge` composes the two: `EXTENDS DmaPath` and `M == INSTANCE MmioPath`,
where the MMIO value is the first word of `data`. An edge is an edge of both, with
one `C_poll` (`PollMmio`, `PollDma`, `PollNothing`) that takes one frame; each
path sees the other's frames as its `Others`. `MainLoop` is `handle_hdl_request`
when no vCPU is in an access, since that needs the big lock. `Needs` is a design
that answers register reads only when it does not wait for host memory itself.

`ByteLanes` follows the bytes of one transfer (an access, a burst or an
interrupt) through the arithmetic of `dpi-pcie.c`: `log2c`, `axi_len`,
`align_offset`, `burst_size`, the packing by strobes and the four beat loops. Bytes are
symbols that name their origin, so one transfer of a shape stands for all
contents; the reference is the set of bytes AXI says a burst has. The shapes are
`full` (beats as wide as the bus), `single` (one narrow beat), `narrow`,
`unaligned` and `sparse` (a strobe missing). The W channel of axi4_m_w is modelled
edge by edge (`MasterWriteData`, `MasterWriteResponse`): it offers a word one edge
after `r_len_cnt` has named it and counts on wready alone, so what arrives depends
on the slave (`SlaveEdge`). One that is `eager` takes every word once. A `lazy` one,
ready only with wvalid, does so for one beat; of a longer access it takes word 0
twice, and never the last one, unless it pauses after each beat. Such an access also has an AxSIZE beyond the
bus, as `dpi-pcie.c` 179 does not cap it: a `stepping` slave puts its beats that
far apart, the others count it as the bus. `WideKinds` are the slaves that see
accesses wider than the bus; the limit is the one axi4_m_w.sv states in line 3.
The other channels move a beat per step: axi4_m_r is ready all the time, and the
handshakes of the slaves are in `DmaPath`.

`Session` has the programs as processes: `class_init_send`, `class_init_recv`,
`acc_pcie_realize` (which aborts when a port is still bound), `acc_pcie_exit`,
`StopQemu`, `C_setup_pcie_connection`, `C_teardown_pcie_connection`,
`C_poll_init`, `C_poll_req`, `C_resp`, `C_req` and `Sent`, the end of a
blocking send. `acc_init_msix` takes both results of `msix_init` (`MsixInit`):
failure ends QEMU, success puts `VecNum` vectors in use, which `acc_pcie_exit`
frees. Inside the HDL an access is one step here. What QEMU sent before
it ended is taken to have arrived.

`PacketChannel` is a FIFO of whole packets; `NicPath` implements it twice
(`RxSpec`, `TxSpec`). A packet is its bytes, carried in words of `BUSW` lanes:
`vlen` and `vkeep` are computed from the size as `C_nic_poll` does, and `axis_s`
gathers the lanes `tkeep` names. QEMU's main loop and the simulator are threads that a
full socket, or one nobody has connected to yet, blocks (`blocked_rx`,
`blocked_tx`). `axis_m` does not look at tready; the receiver takes a word
whenever it is valid, as a MAC's receive side is used.

`UartPath` implements `PacketChannel` with single characters. The combinational
blocks are modelled with their event semantics: `COMBO_READ`, which pops the
socket through `C_uart_rx`, and `COMBO_WRITE`, which polls it, run when one of
their inputs changes and keep their outputs otherwise. `Evals` says how often
`COMBO_READ` may run for one change, `Polls` whether the driver believes STAT_REG.

`MCMmioPath`, `MCPcieBridge`, `MCNicPath` and `MCUartPath` only give constants
their values.

Definitions marked "mutant" are not part of any specification; each is a
plausible error in the definition below it, used to see that a property fails
when the code is wrong.

## 3. The runs

| Run | Result | Shows |
|---|---|---|
| `mmio` | holds | `MmioPath` implements `MmioMemory`, with eager and lazy slaves; `OnePlace`; every access returns |
| `mmio_interrupted` | holds | with up to three interrupted receives: no vCPU waits for nothing, never more answers than waits and interruptions, every access returns |
| `mmio_stale_answer` | violated | after an interrupted receive, the next access returns with the earlier access's response before HDL has polled its own |
| `dma` | holds | `DmaPath` implements `PostedMemory`, two-beat bursts, MMIO reads in between; `FlushedFirst`, `ReadSomewhere`, and `DmaEnds` with a queue of one |
| `bridge` | holds | with MMIO, DMA and interrupts at once: answers match accesses, writes are flushed first, no read is lost, everything ends |
| `bridge_race` | violated | an MMIO write polled at the edge after a DMA response replaces its data |
| `session` | holds | any order of starts, restarts of either program when idle, an unplug, a failing `msix_init` |
| `session_restart` | violated | QEMU ended during an access: the next one never gets its configuration |
| `session_replug` | violated | the assertion at line 773 fails when the device is plugged in again |
| `nic` | holds | both directions are FIFOs of whole packets, byte by byte, and deliver everything |
| `uart` | holds | both directions are FIFOs of characters and deliver everything, to a driver that does not ask STAT_REG |
| `lanes` | holds | accesses no wider than the bus with every slave, wider ones with an eager one, and the bursts of the shapes that work reach exactly their bytes; buffers hold |

The holding runs stay inside what the code supports. Where it ends is seen by
changing one constant of a cfg; TLC then reports the violation named:

| Change | Violates | Because |
|---|---|---|
| `mmio_interrupted`: `MmioInReset = TRUE` | `AnswerComing` | a request polled in the 100 edges of reset is dropped |
| `mmio_interrupted`: `SlaveKinds = {"legal"}` | `OneAnswerEach` | axi4_m_w holds wvalid a cycle too long (line 138): a beat is taken twice and answered twice |
| `dma`: `MasterKinds = {"legal"}` | `ReadSomewhere` | axi4_s_r takes the last beat back after one cycle (line 101) |
| `bridge`: `Needs = TRUE` | `MmioReturns` | the access waits for DMA, DMA for the big lock |
| `bridge`: `Hwm = 1` | `MmioReturns` | `hdl_req` is full, the clock stands, the main loop waits for the lock |
| `session`: `Talks = "free"` | `SendsArrive`, `Starts` | a device that sends before QEMU is realized blocks the simulator |
| `nic`, `uart`: `Light = 2` | `NicDelivers`, `UartDelivers` | both threads wait for each other |
| `nic`: `NullBeats = "last"` | `TxSpec` | axis_s passes over a word without bytes and its tlast |
| `nic`: a packet of one word | `RxSpec` | the first word never has tlast |
| `uart`: `Polls = TRUE` | `UartDelivers` | `C_uart_poll` sets `data_available` when there is nothing (`dpi-uart.c` 59) |
| `uart`: `Evals = {1, 2}` or `MaxReads = 2` | `RxSpec` | a character is popped and replaced before it is latched |
| `lanes`: `WideKinds = {"lazy"}` | `MmioExact` | axi4_m_w offers word 0 again after it is taken (lines 130-142) |
| `lanes`: `WideKinds = {"stepping"}` | `MmioExact` | AxSIZE is wider than the bus (`dpi-pcie.c` 179) |
| `lanes`: `Reads` with `narrow` | `DmaExact` | the response is copied as one block, while axi4_s_r takes a whole word per beat |
| `lanes`: `Writes` with `unaligned` or `sparse` | `DmaExact` | bytes are packed to one address and the length does not count strobes |
| `lanes`: `Reads` with `unaligned` | `InBuffer` | `align_offset` plus the size of a whole page |
| `lanes`: `MaxLen = 15` | `InBuffer` | a beat, however narrow, takes a whole word of the buffer |
| `lanes`: `Lines = {{0, 1}}`, `Settled = FALSE` | `DmaExact` | vector 0xFFFFFFFF; the vector of the line before |

In `bridge`, a read of a register can also return before writes that the device
was told are done are in host memory: only interrupts and reads queue behind them;
no property says otherwise.

Bounds. `mmio`: two BARs, two offsets, two values, so that a wrong BAR, a wrong
register and a stale value all differ; the number of accesses is unbounded.
`mmio_interrupted`: one register, three interruptions, enough for a late answer
to be taken by an access whose own answer is then late, and for both masters to
be busy at once. `dma`: two words, bursts of one or two beats (first, last and
only beat), one write against any number of reads and guest stores, one
interrupt in the queue; a queue of one, so that the clock stops. `bridge`: one
register, one word, one interrupted receive, one write, and any number of reads and
accesses; a queue of three, which a write, a read and an interrupt fill (two
writes and a queue of four hold as well). `bridge_race` has a second value, to
tell the data apart. `session`: two ends of each program and one unplug. `nic`:
words of two bytes, packets of three and of six bytes (a last word half and
full, a word in the middle), three each way, queues of one, so that both threads
block. `uart`: three characters one way and two the other, queues of one.
`lanes`: words of four bytes and a page of eight words, so that accesses
of 8 bytes need two beats and bursts fill the page; it holds for words of 1 and 2
bytes too, and of 8 and 16 with any `WideKinds` (and a `MaxLen` that fits). Deadlock checking is off in `session` (an unplugged device and
no ends left), `nic` and `uart` (everything sent) and `lanes` (the transfer is done).

Fairness. The clock runs and a reset ends; QEMU's threads are scheduled; a
blocked send goes through when it can. The environment's part is one action,
an edge at which it is ready for all it can take and offers what it has begun
(`Served`, `AllServed`): a design that is never ready makes no progress on
hardware either. Fairness is strong where
a step can be disabled again by another step of the same simulator thread: an
edge at which `C_poll` takes a response, next to edges at which it takes
something else (`DmaPath`), a poll or response next to the device's own requests
(`Session`), the sender's next word next to a blocked send (`NicPath`), a read next
to the driver's other reads (`UartPath`); all these run in one thread at every
edge, and none can shut out another for ever. In `PcieBridge` the main loop gets
the big lock between two accesses of the vCPUs, again and again: QEMU's lock is
fair enough for that, or no device would work.

## 4. The proofs

The theorems hold for all constants that the modules' ASSUMEs admit: all BARs,
offsets, values, packets, texts, memories, burst lengths, widths and queue sizes,
and any number of accesses, bursts, interruptions and restarts. Where a result
needs more, the condition is a named definition in front of `Spec`. Each such
condition is one of the limits in section 3: dropped there, TLC shows the
violation, so none can be left out.

| Module | Theorem | Condition |
|---|---|---|
| `MmioPathProofs` | `TypeCorrect`: `[]TypeOK` | none |
| | `AlwaysOnePlace`: `[]OnePlace` | `Undisturbed`: no interrupted receive, no access in the reset, slaves eager or lazy, `Others = {}` |
| | `ImplementsMemory`: `MemorySpec` | `Undisturbed` |
| | `AlwaysAnswerComing`: `[]AnswerComing` | `AfterReset`: no access in the reset |
| | `AlwaysOneAnswerEach`: `[]OneAnswerEach` | `Orderly`: slaves eager or lazy |
| | `AnswersAreOwn`: `ReturnsAfterPoll` | `Undisturbed` |
| `DmaPathProofs` | `TypeCorrect`, `AlwaysFlushedFirst`: `[]FlushedFirst` | none |
| | `AlwaysReadSomewhere`: `[]ReadSomewhere` | `Patient`: masters steady or pausing |
| `DmaPostedProofs` | `ImplementsPosted`: `PostedSpec` | `Undisturbed`: `Patient`, and no MMIO write among `Others` |
| `PcieBridgeProofs` | `BridgeIsDmaPath`, `BridgeIsMmioPath`: the bridge implements both paths | none |
| | `BridgeTypeCorrect`, `BridgeDma`: the DMA theorems of the bridge | as for `DmaPath` |
| | `BridgeAnswers`: `[]AnswersMatch` | `Orderly` |
| `SessionProofs` | `TypeCorrect` | none |
| | `NothingIsLeftOver`, `SendsAlwaysArrive` | `Orderly`: programs end when idle, the device sends only when a driver has it at work |
| | `SocketsAlwaysOpen`: `[]SocketsOpen` | `~Replugs` |
| `NicPathProofs` | `TypeCorrect` | none |
| | `ImplementsTx`: `TxSpec` | `LastByteLast`: no word without bytes carries tlast |
| | `ImplementsRx`: `RxSpec` | `LongPackets`: packets longer than a word |
| `UartPathProofs` | `TypeCorrect`, `ImplementsTx`: `TxSpec` | none |
| | `ImplementsRx`: `RxSpec` | `OneRead`: one read at a time, one run of `COMBO_READ` for it |
| `ByteLanesProofs` | `TypeCorrect` | `Fits`: a burst has no more words than a buffer |
| | `AlwaysInBuffer`: `[]InBuffer` | `Fits`, and `AlignedReads`: no unaligned reads |
| | `AlwaysMmioExact`: `[]MmioExact` | `EagerIfWide`: accesses wider than the bus meet eager slaves only, or there are none (a bus of 8 bytes or more) |
| | `AlwaysDmaExact`: `[]DmaExact` | `Supported`: `Fits`, reads full or single, writes aligned and without holes, one stable line of an existing vector |

The arguments:

* MMIO. `OnePlace` says where the one access is: in `qemu_req`, polled, in a
  master (with what the slave has of it), or answered; all else is idle. With
  `TypeOK` it is inductive, one lemma per place for the clock edge
  (`EdgeAtQueue`, `EdgeAtPoll`, `EdgeAtRead`, `EdgeAtWrite`). The refinement needs
  it: that a response appears only as the slave performs the access, and that
  the slave then has the guest's address and value, are facts about the whole
  path. `Others` matters too: with `{"S_RD"}` a write may be performed with the
  data of a DMA response.
* Answers. With interruptions there may be several accesses on their way, and
  what is left is a count. The lemmas about one edge say that what leaves
  a queue, the poller or a master enters the next place. `AnswerInv` adds that
  no vCPU is in an access during reset; it needs nothing of the slave.
  `CountInv` adds `OneWrite`, what a write in axi4_m_w has still to do with the
  slave: it forbids the second W beat that a merely legal slave takes.
  `AnswersAreOwn` is the contrast to `mmio_stale_answer`: that run's property
  can only fail after an interrupted receive, a dropped request or a second
  answer.
* DMA. `TypeInv` adds to `TypeOK` how far the write and the read in progress
  are, which bounds the indices into the burst buffers. `FlushedFirst` looks at
  the head of `hdl_req` only; `Ordered` says it of the whole queue, counting the
  writes ahead of each request. `ReadSomewhere` needs `OnlyLast`: a beat that is
  still offered in IDLE is the last one. For the refinement, `ReadPlace` says where
  the read is (asked, in `hdl_req`, in `hdl_resp`, in `data`, in the slave's buffer,
  on the bus) and that what is there is what the abstract memory returned.
  `bridge_race` shows why an MMIO write must not come in between.
* Bridge. Each step of the bridge is a step of `DmaPath` and one of `MmioPath`,
  or leaves that path alone. The theorems about the paths then hold of the
  bridge as they stand: `MP` is the instance of `MmioPathProofs` with the
  bridge's variables. What the two paths promise under `Others`, which lets
  anything of the kind named be polled at any time, is therefore enough for
  the real poller.
* Session. `SessionInv` adds `Attached`: accesses and requests are made only while
  the device is realized, and then all its sockets are open. `PortsFree`: a QEMU
  that has not realized the device yet has no socket of it open.
* NIC. `SendPlace`: what axis_s has gathered is what the device has sent of its
  packet, `SubSeq(src, 1, sent)`, whichever lanes the words used. `StreamPlace`:
  the words before `r_count` are with the receiver and the others still in
  `r_data`. The lemmas before them are about lanes: the bytes `tkeep` names are
  put in order, and `vlen` and `vkeep` describe the size of the packet.
* UART. `WritePlace` and `ReadPlace` say at which step the AXI-Lite write and read are
  and that the character latched is the one popped.

* Byte lanes. The theorems are about every width of the bus from 1 to 64 bytes,
  every address, and every size, width and length of a transfer. `log2c` is a
  recursive function; `Halving` shows that it satisfies its equation by giving its
  seven values, and `Logs`, `Powers` and `AccessShape` say what `log2c` and
  `axi_len` make of them. `Aligned` and `BurstBeats` say that an aligned beat does
  not leave its word, `SameLane` that a lane of a beat names one byte. `Stage` ties
  the sizes computed to the place of the transfer, and with `TypeOK` bounds every
  index. `WriteBytes` and `ReadBytes` (accesses), `FetchBytes` and `StoreBytes` (bursts)
  say which bytes are in the frame, at which places of the buffer, and in memory
  after each beat. For accesses `Handshake` adds that the word axi4_m_w offers is
  the one the slave takes next, until it has all: the count is one ahead of
  the offer when wready is always 1, and at 0 with a lazy slave and one beat;
  with a lazy slave and two it fails at the first beat taken. The packing by strobes in `C_req_write` is the hard part:
  `RankOfOne` and `RankByOrder` show that the k-th strobed place is well defined and
  is the k-th value of an increasing function, and `SpotGrows` that the places of
  a burst's bytes in the buffer increase with their addresses, also when the
  beats are narrower than the bus; so byte k of the frame is byte k of the burst.

Model-checked only: the liveness properties (`MmioReturns`, `DmaEnds`,
`Starts`, `Served`, `NicDelivers`, `UartDelivers`), as fairness and
ENABLED are beyond the prover. What the violated runs show is a counterexample
each. Facts that need induction over data, and RECURSIVE operators, are out of the
prover's reach too; no module needs them.

## 5. Not modelled

What ACCConf contains beyond BAR offsets and the number of vectors; QEMU's own
`msix_init`. The sockets of the NIC and the UART when the simulator ends
(`C_teardown_nic_connection`, `C_teardown_uart_connection`): `Session` has the
end of the simulator for the PCIe bridge, the others lose what they hold in the
same way. Packets longer than 4096 bytes, and what a character backend refuses.
CTRL_REG of the UART, which only sets a status bit nobody uses. Logging.
`platform/` (wiring of vendor IP), the table generator, scripts, generated Tcl
and the patches: they keep no state while the system runs.

## 6. Plan

1. Done: the models of sections 2 and 3, and the theorems of section 4, which
   cover every safety property of the runs.
2. Left: the argument for `MmioReturns` short of fairness, that some step is
   enabled whenever an access waits, as an invariant; weaker conditions where
   a theorem excludes more than the violating case, `Undisturbed` of `MmioPath` first.
