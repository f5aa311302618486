# Verification of the GPS logger firmware

TLA+ models of the firmware under `src/gps_logger`, the TLC runs that check
them and the TLAPS proofs about them.

## 1. Inventory: the system

The device is an ATxmega32A4U with a GPS receiver on USARTC0, an AT45-type
Dataflash and an FRAM on one SPI, a terminal UART and USB. There is no
operating system: `main` starts the watchdog (8 s), sets up clocks and
interrupts and enters `GPS_run`, which never returns. Concurrency is between
that loop, the interrupts, the chips that go on working after a command has
been sent, and the power supply.

| component | state | operations | talks to |
|---|---|---|---|
| GPS reception, `gps.c` 25-145 | `buffer`, `write_head_AT`, `read_head`, `sentence`, `sentence_length` | `ISR(USARTC0_RXC_vect)`, `gps_get_sentence` | shared memory between interrupt and main loop; `cli`/`sei` around the poll |
| NMEA decoding, `gps.c` 150-182, 234-323 | `param`, `param_count`, `rec` | `gps_decode_parameters`, `gps_decode_dd`, loop of `GPS_run` | reads `sentence`, prints to the terminal |
| record log, `gps.c` 53-103, 187-221 | `flash_buffer`, `flash_buffer_index`, `df_page`, `df_page_counter` | `gps_init` (boot scan), `gps_add_to_flash_buffer` | Dataflash driver |
| Dataflash driver, `dataflash.c` | none of its own; the chip's buffers, array and busy flag | buffer write, page program, array read, erases, `DF_init` | SPI (`HW_spi`), the chip |
| FRAM atomic buffer, `fram.c` | the FRAM | `FRAM_atomic_write/check/clear`, `FRAM_read/write` | SPI |
| encryption, `crypto.c` | AES peripheral, key in EEPROM, `aes_intermediate_key` | `CRYPT_process_buffer`, `CRYPT_generate_intermediate_key`, `CRYPT_load_key` | EEPROM driver |
| EEPROM driver, `eeprom.c` | NVM page buffer, EEPROM | load page buffer, write page, erase all | NVM controller |
| USB terminal, `usb.c` | a 4-byte shift register | commands info, key=, save, dump | CDC driver (blocking `udi_cdc_getc`), crypto |
| CDC reception, ASF `udi_cdc.c` | `udi_cdc_rx_buf[2]`, their counts, the selected one, the position in it, whether a transfer is on-going | `udi_cdc_getc`, `udi_cdc_rx_start`, `udi_cdc_data_received`, enable, disable | OUT endpoint; both main program and interrupt swap the buffers |
| CDC transmission, ASF `udi_cdc.c` | `udi_cdc_tx_buf[2]`, their counts, the selected one, frame number and counter of the last transfer | `udi_cdc_putc`, `udi_cdc_tx_send`, `udi_cdc_data_sent`, start of frame | IN endpoint; main program fills, interrupt sends |
| data endpoints, ASF `usb_device.c` | a job and the endpoint's registers | `udd_ep_alloc/free/run/abort`, `udd_ep_trans_complet` | the CDC driver's callbacks |
| control endpoint and requests, ASF `usb_device.c`, `udc.c`, `udi_cdc.c` | `udd_ep_control_state`, `udd_g_ctrlreq`, transfer counters; address, configuration, line coding | one interrupt per event of endpoint 0, `udc_process_setup` and the callbacks | the host |
| main, watchdog, clocks, `gps_logger.c`, `hw.c` | watchdog, power reduction, reset cause | straight-line start-up | everything |
| terminal, random numbers, `terminal.c`, `rng.c` | UART, ADC | blocking output; ADC noise | - |

What is connected in the present build: `main` calls `GPS_run`, `GPS_run` calls
`gps_init` and `gps_get_sentence` and decodes; `gps_add_to_flash_buffer`,
`FRAM_init`, `DF_init`, `udc_start`, `USB_terminal` and `CRYPT_*` exist but have
no caller (calls are commented out; the README of the repository says "work in
progress"). The models take every such function as its callers will have to:
any legal sequence of calls, with the hardware it needs switched on.

Hard behaviours: the receive interrupt against the poll loop (and laps of a
ring that cannot tell full from empty); a page program that outlives a reset
but not a power loss; the boot scan that must make sense of any flash; byte
addresses that wrap inside the chip; indices that are never reset; waiting
loops without a watchdog reset. `PROJECT.json` lists them all, under
`hazards`, at their lines.

What makes each component correct:

* reception - no received character is read twice, out of order, torn or
  (short of a lap) lost; a sentence is a line of the stream; what was received
  is eventually looked at.
* log - the scan ends and finds an erased page where there is one; written pages are not
  replaced while there are erased ones; a power loss costs at most the page
  being programmed; every record reaches a page.
* Dataflash driver - no command reaches a busy chip; the page is the buffer.
* FRAM - the check accepts exactly the completely written buffers.
* decoding - no access outside `param`; `rec` holds one fix.
* encryption - decrypting undoes encrypting; the stored key is the sent one.
* CDC - bytes in order, each once, in both directions; neither side waits for
  the other for ever.
* control transfers - host and device agree on the outcome and the address.

## 2. Plan

| module | models | theorems | left |
|---|---|---|---|
| `GpsReceive` | interrupt, ring, sentence assembly | type, ring invariant, order of reads, sentences | - |
| `PageLog` | boot scan, record buffer, flush, resets, power loss | type, the erased page the scan finds, what the scan computes, first flush, use of the page store | - |
| `PageImage` | bytes of a page at the sizes of the code | type, tail of one image, word of the scan | - |
| `PageStore` | abstract: pages that change one operation at a time | - | - |
| `Dataflash` | driver and chip at the level of SPI bytes; implements `PageStore` | type, array reads, refinement | - |
| `NmeaDecode` | the loop of `GPS_run` over sentences | type, complete lines, time of a location | composition with `GpsReceive` |
| `FramAtomic` | byte-wise writes with power loss | type, a cleared buffer is rejected | - |
| `ByteChannel` | abstract: bytes come out as they went in | - | - |
| `CdcRx` | reception of the CDC driver; implements `ByteChannel` | type, buffers apart, refinement | - |
| `CdcTx` | transmission of the CDC driver; implements `ByteChannel` | type, room, refinement | - |
| `UsbControl` | control transfers, address, configuration, line coding | type, answers, agreement, address, line coding | - |
| `UsbTerminal` | commands over the channel, key storage, AES chaining | type, saved key, first block | - |

Order: what the logger is for came first (receive, log), then the hardware
below it, then the parts that the build does not call yet: the channel to the
host, from the control endpoint to the terminal. Of the plan the composition of
`GpsReceive` and `NmeaDecode` is left (laps that join two lines into one of more than
20 commas).

## 3. Modules

### GpsReceive

One action per piece of code that the interrupt cannot split: `RxInterrupt` is
the handler (it runs with lower and equal levels off, and nothing else writes
its data), `Poll` the section between `cli()` and `sei()`, `Handle` the rest of
the loop body, `BeginSentence` the entry of `gps_get_sentence`. `RxInterrupt`
is enabled from boot on, since `gps_init` switches the receiver on before it
scans the flash. Variables are the C variables (`sentence` without its
terminator, `c` with the character just polled) and `pc`. History variables
(`rx`, `settled`, `start`, `tainted`, and the id in each cell) record the
stream and what became of it; no guard depends on them except the bound.

The characters are LF, NUL (which the code takes for "nothing there") and
`Text`. One past the array the linker puts some other variable: reading it
yields any character (id 0).

`SentenceIsLine` speaks of the ids of the characters: those of `sentence` ascend,
none of them is NUL, and together they are every character since `start` that
is neither NUL nor the LF that ends the line.

`UnreadSlots` is the ring invariant: with `unread` characters between what the
program has settled and what has been received, the heads are `unread` apart
(modulo the buffer, the slot past its end counting as slot 0) and these slots
hold the last characters of the stream. It covers laps: the 256th unread
character makes the buffer look empty, the next one leaves exactly itself.

### PageLog

`flash` is the array as the scan sees it, one word per page. `ScanPage`
is one round of the loop of `gps_init` (`DF_start_array_read` waits for the chip,
so it needs `programming = Idle`), `FinishScan` what follows the loop. `AddRecord`
is the copy and the count, `Flush` the part under `if`. Nothing the program
does between two of these steps survives a reset, so they may be that large.
`Programmed` is the chip ending a program by itself. `WatchdogReset` is taken
where the code waits for a sentence (the only place without `WDR()` and
without a bound on the waiting); it clears RAM but not the chip. `PowerLoss`
happens anywhere and leaves the page being programmed as it was, complete, or
with any word.

`flash_buffer_index` is never reset, so the record after a flush is copied past
the array: `AddPastEnd`. That is undefined behaviour; which statics lie behind
`flash_buffer` depends on the linker (`-fdata-sections`), so the index, `df_page`
and `df_page_counter` may each take any value of their type or stay as they
are. Damage beyond these variables (the stack, for records far behind) is
outside the model; properties about later pages are not claimed for that
reason. `df_page` may then be out of range: the driver sends fifteen bits of it
to the chip.

`ScanFindsErased` says that the scan finds the first erased page if there is one,
a page of the flash in any case, and that this is still right when the first
flush comes. Of a flash without an erased page no run claims where the scan
resumes: gps.c:71 looks for the oldest record, but compares words that are not
counters (`PageImage`; a finding). `Resumes` and `ScanResult` say what the loop
computes then, the page after the first highest word; they describe the code
and are proved, but do not say that this is the page it should find.

### PageImage

The transfer of a page image, byte by byte: driver steps `StartBufferWrite`,
`SendImageByte`, `WriteBuffer`, `StartArrayRead`, `ReadByte`, `EndArrayRead`; the chip is
its buffer, address counter and one page. The image is longer than the buffer,
and the header, its CRC and the first records are sent first: `PageIsTail` holds,
and `CounterIsRead`, that the scan reads the counter of the header, is violated
(two findings). What it reads instead is `WordIsLongitude`: with the sizes of the
code bytes 14..17 of record 13. That is no promise of the program and no run
asks for it, but `PageLog` abstracts a record to that word, so it is proved
(`WordIsOfOneRecord`, `WordIsThatOfTheCode`).

### PageStore and Dataflash

`PageStore` says what the program expects of the flash: an operation begins on
some pages, when none is under way, and ends with all of them replaced, or is
cut short by a loss of power that leaves these pages, and no others, undefined.
`losses` makes a loss of power visible, so that an implementation cannot pass
off a damaged page as one.

`Dataflash` is the driver and the chip. A call (`CallDriver`) polls the chip
(`WaitForReady`) if its function does, sends its command, and may leave a
transaction open in which bytes are sent or received; `CopyByte` and `Complete`
are the chip working on its own. A busy chip ignores commands other than
buffer writes and status reads (`Accept`), as the AT45 does; an operation
carries as history what its buffer held when it was commanded (`want`), which
is what the store sees. The callers are any that end their transactions and
use the variant without busy check for what its comment says: the buffer that
is not being programmed.

`PageLog` and `Dataflash` meet in the store: the log uses it (`UsesStore`), the
driver provides it (`ImplementsStore`).

### NmeaDecode

One round of the loop is `GetSentence`, then `Ignore` or `DecodeParameters`, then one
action for each way the round may end. The sentence is kept as the array of
characters it is, since `param` points into it and `strchr`, `strtoul` and
`gps_decode_dd` run on over commas and terminator. Only the header is
abstracted, to `kind`. The reference in `CompleteLineDecoded` speaks of the
fields of the line (history variable `line`) instead: a complete line is never
ignored, rejected or misread. More than 20 commas overrun `param`:
`OverrunParams` ends the model there.

When the date is empty and ends a sentence that fills the array, the third call
of `gps_decode_dd` for it, at `param[8] + 4`, looks up to three characters behind
the array. `sentence` has these slots too (`BehindSlots`); what lies there belongs to
other variables, so each sentence finds any member of `Behind` there.

### FramAtomic

`todo` is what the running function has yet to send, as pairs of address and
bytes; each `SendByte` takes effect at once, and `PowerLoss` may come between any
two. The check runs without interference and is one action. `cleared` follows
what the code promises by clearing the metadata, and ends with the first byte
of the metadata of a later write. The CRC is any function of the content into
four bytes. Where it happens to be zero the check takes cleared metadata for
those of that content, so `ClearedIsRejected` claims the rejection of all others.
A write torn after the first byte of its metadata is beyond the property: only
the CRC tells old metadata from new data. `MCFramAtomic` gives a stand-in for the
CRC, with one content of CRC zero.

### ByteChannel, CdcRx and CdcTx

`ByteChannel` is what a reader and a writer on the two ends of the CDC data
interface may rely on. Bytes are numbers in the stream, `put` of them have gone
in, `got` have come out or were given up when the host set up the interface anew.

Both directions are modelled as the main program, split at each place where an
interrupt may come (the C function's critical sections are single steps), and
the interrupts, each one step, since interrupts do not nest here. The endpoint
below is part of both modules: whether it is enabled, has a job and may move
packets, as `usb_device.c` sets it.

`CdcRx` has `udi_cdc_getc` (`pc` "snapshot", "compare", "test", "read", "advance") and
`udi_cdc_rx_start` ("start", "run", "lock") against `TransferComplete` (the interrupt,
`udi_cdc_data_received`), and the host, which sends packets and configures. Facts
of the code that shape the module and its properties:

* Enabling the interface clears the count of buffer 0 only (udi_cdc.c:342), so
  after a reconnection the reader may get bytes of the earlier connection
  first: the channel has `TakeOld`, up to the first byte of the new one.
* A job taken for an endpoint that was freed meanwhile is not aborted before the
  next reset of the bus, configured or not (`Disable`); a SET_CONFIGURATION before
  that fails (`FailEnable`).
* A transfer ends with a short packet or a full buffer. Full packets without a
  short one stay undelivered until then; `Delivered` is about completed ones.
* Any number of interrupts may come between two steps of `udi_cdc_getc`; the
  interrupt arms the endpoint again itself, so two transfers may complete within
  one pass. When they do so between the critical section and the test
  (udi_cdc.c:882-885), a buffer that was empty has become the one being filled, and
  a byte of it is returned before the earlier ones: `InOrder`, the refinement of the
  channel, is violated (run `cdc_rx_order`, a finding). The same happens when the
  interface is set up anew within a pass and a packet of the new connection
  comes. The history variable `outrun` is set in exactly these two cases, and never
  reset, since the position stays wrong; `settling` says that a pass holds what it
  noted before a set-up. `InOrderUnlessOutrun` is the refinement until then;
  `ReceivesAside` and `Delivered` have the same proviso, `TypeOK` and `Listens` none.
* Two-byte counters are read outside critical sections; a torn value cannot
  occur between the values they take there.

`CdcTx` has `udi_cdc_putc` and, in interrupts, `StartOfFrame` (`udi_cdc_tx_send` on a
frame without a transfer), `TransferComplete` (`udi_cdc_data_sent`) and the host's
IN tokens. `ZlpPeriod` is the number of frames after which an empty transfer
follows; `tx_both_buf_to_send` is the case in which the selected buffer is full
and the other one still waits.

### UsbControl

Endpoint 0: the state machine of `usb_device.c` with its interrupts `SetupReceived`,
`InSent`, `OutReceived`, `Underflow` and `Overflow` on one side, a host that follows the
protocol on the other. The host may end a data stage early, give a transfer up
and begin a new one at any point but in the middle of a SET_ADDRESS, reset the
bus, and repeats a refused token: what is refused raises an event that is handled before the packets behind it
(`NoBusEvent`), possibly again (`AskedMeanwhile`). `udc_process_setup` is `Supported`,
`PayloadSize`, `Callback` and `Apply`: one request for each path (data to the host of
one or several packets, data to the device, none, a callback at the end,
refused). Requests that take the same path as one of these are left out.

The SETUP packet of a new transfer may come while the packet before it is
unhandled, and may hide it. Where that was the status packet the device ends
the old request late but rightly. Where it was a packet of the data, that packet
is handled first (usb_device.c:865-903), for a request the host has given up: the
endpoint is filled with the rest of the old payload, or the line coding with the
contents of the buffer, and the new request gets it. `FollowsSetup` is violated so
(run `usb_setup`, a finding). The history variable `overtaken` marks such a request;
`Answered`, `Agreement`, `AddressKnown` and `LineCodingStored` are claimed for all others,
and each fails without that condition. `TypeOK` and `TransferEnds` hold for all.

Assumed of the host: it follows SET_ADDRESS through and waits until the address
is valid, or resets the device; it skips data it was to send only when no event
is pending. Bounds: a request that overtook data is the last one before a reset
of the bus, so what it leaves behind for further requests is not explored; and
a reset of the bus comes when no packet is unhandled. Two things no property covers: the refused SET_INTERFACE with an alternate setting
decrements `udi_cdc_nb_data_enabled` without an increment (the assertion at
udi_cdc.c:367 is compiled out), and the model takes the bus event and the
endpoint's own flag, which usb_device.c:1264 tests after it, for one.

### UsbTerminal

`USB_terminal` takes characters from a channel as `ByteChannel` allows (also old ones
after `Connect`), into the 4-byte register `rx` (`ReadCommand`) and into a key (`ReadKey`);
a closed channel gives zeros without waiting. `key=` goes on with
`GenerateIntermediateKey`, `save` with `LoadPageBuffer`, `AtomicWritePage`, `WaitForNVM`, while the
NVM controller works (`NvmDone`); a `Reset` may come anywhere and leaves each byte of
a page being written old, erased or new. The EEPROM is mapped only inside
`CRYPT_process_buffer`, so the mapping is not a variable. `aes_on` stands for
`PR_AES_bm`, which `main` sets: with the AES off `key=` waits for ever.

The chaining of `CRYPT_process_buffer` is the code's: every block is combined with
what the AES still holds. A block leaves the last subkey in the peripheral and the
key is loaded once, so the cipher takes the number of the block since then
(`Aes`). What the AES holds when it decrypts is plain text, so only the first
block of a buffer comes back, and a short last block does not: `FirstBlockBack`
claims no more. `SavedAsTyped` compares the stored key with the last
characters read (`tail`), wherever they came from.

## 4. Runs

| run | shows | bounds |
|---|---|---|
| `receive` | `TypeOK`, `UnreadSlots`, `InOrder`, `SentenceIsLine`, `Drain` | ring of 3, sentence of 3, 7 characters of 3 kinds: two laps, two revolutions of both heads, split lines |
| `log` | `TypeOK`, `ScanFindsErased`, `FirstFlushSparesPages`, `BootCompletes`, `UsesStore` | 3 pages of 2 records, 3 programs, 3 losses of power, any number of watchdog resets: a full flash, the wrap at its end, a torn page, overruns of the buffer |
| `log_index` | violated: the next record has a place in the buffer | 2 pages of 2 records |
| `image_counter` | violated: the scan reads the counter of the header | the sizes of the code, 1 flush |
| `dataflash` | `TypeOK`, `ReadsArray`, `ImplementsStore`, `CallReturns` | 2 pages of 2 bytes, 3 calls, 1 loss of power: a second and a third call meet an operation of the first; reads run over the end of a page and of the memory |
| `data` | `DecodeTypeOK`, `CompleteLineDecoded`, `LocationHasTime`, `ClearedIsRejected`, `PageIsTail` | `MCData`, see below. 16 lines in any order: a good RMC line with decimals of the seconds, each of its fields bad or empty, all of them empty, an empty date at the end of the array, lines cut short, of other kinds, with too many fields; digits behind the array. 3 buffers of 2 bytes, one of CRC zero, 2 losses of power at any byte. Pages of the sizes of the code, 2 flushes: an image of 512 bytes into a buffer of 264 |
| `fram_check` | violated: what was written is accepted | as above |
| `cdc_rx` | `TypeOK`, `ReceivesAside`, `InOrderUnlessOutrun`, `Delivered`, `Listens` | packets of 2 bytes, buffers of 2 packets, 5 bytes, 2 configurations: both buffers filled, each swap by either side, a reconnection with bytes left over, several interrupts in a pass |
| `cdc_rx_order` | violated: bytes come in order, each once, whatever interrupts the reader | packets and buffers of 2 bytes, 1 configuration |
| `cdc_tx` | `TypeOK`, `RoomStays`, `InOrder`, `Flushed`, `TransferEnds`, `PutcReturns` | the same sizes, 2 frame numbers, an empty transfer every 2 frames: a full buffer with the other still waiting |
| `usb` | `TypeOK`, `Answered`, `Agreement`, `AddressKnown`, `LineCodingStored`, `TransferEnds`; `TerminalTypeOK`, `FirstBlockBack`, `SavedAsTyped` | `MCUsb`, see below. Packets of 2, descriptor of 4 units asked for with lengths 1 to 5, 4 requests: short, exact and longer data; a transfer after an abandoned one. Words and keys of 2 characters, 8 characters, 2 connections, 1 reset, 1 buffer of 2 blocks: two keys, one of them cut by a disconnection, reset or not |
| `usb_setup` | violated: data after a SETUP packet starts with the first unit of a payload | packets of 2, descriptor of 4, 3 requests |

`MCData` and `MCUsb` put parts that do not interact into one run: a behaviour is one
of one of the parts, chosen at its start, while the variables of the others
stay as they are.

The violations are disagreements between the code and its own comments; the
`findings` in `PROJECT.json` quote the lines.

`CHECK_DEADLOCK FALSE` is set throughout since the environment is bounded: when
the stream, the programs or the calls are used up a model may stop.

Bounds: `MaxReceived`, `MaxFlushes`, `MaxCalls`, `MaxLosses`, `MaxBytes`, `MaxSetups`, `MaxRequests`,
`MaxTyped`, `MaxConnections`, `MaxResets` and `MaxBuffers` limit the environment and appear
in the guards of its actions only (of `Flush` and `StartBufferWrite`, where the program
brings a new page). `NmeaDecode` needs
no bound. The small sizes are enough for wraps of every index to happen more
than once; what they show about most invariants is proved for all sizes
(section 6). The largest runs are `usb` (659 761
states), `cdc_tx` (464 000) and `cdc_rx` (440 526).

Known deviations that no run asks for, since the models take them as they are:

* gps.c:123 compares `read_head` with `>`: once per revolution the poll reads the slot
  behind the array, whatever variable that is (`Poll`).
* gps.c:311 looks for an empty coordinate one character too far, and `strchr` runs
  on into later fields: an empty latitude is read as 0 (`Coordinate`).
* gps.c:318, 320 convert the decimals of a coordinate to an integer first, so they
  are lost.
* dataflash.c:277 sends the chip erase without waiting: a busy chip ignores it.
* dataflash.c:145 does not bound the sector: sector 128 is sent as page 0
  (`DF_erase_sector` has no callers and is not modelled).

## 5. Fairness

* `GpsReceive`: weak fairness of the main program. It is a loop that never blocks
  (`gps_get_sentence` waits by polling). None of the interrupt: the GPS may be
  silent.
* `PageLog`: weak fairness of `Programmed` (the chip finishes within its maximal
  page time) and of the scan, which waits only for the chip. None of records,
  resets or power losses. A watchdog reset comes only after the scan (the
  scan resets the watchdog), so only the losses of power, finitely many, can
  cut a scan short.
* `Dataflash`: weak fairness of the chip's own steps (it ends every operation within
  its maximal time) and of the driver's steps that poll or send a command. None
  of the callers.
* `CdcRx`: weak fairness of `udi_cdc_getc` (the terminal calls it in a loop, and it does
  not block inside) and of the interrupt of a completed transfer. None of the
  host.
* `CdcTx`: weak fairness of frames (one each millisecond while the bus is up), of
  the interrupt, of the program inside `udi_cdc_putc`, and of the host's IN tokens,
  which a host that has opened the port sends all the time.
* `UsbControl`: the interrupts `Underflow` (weak), `Overflow` and `TransferComplete` (strong:
  repeated tokens of the host raise events that are handled first and so
  disable these again and again, but each of them is handled once the
  processor gets to it), and weak fairness of the host's tokens.
* `UsbTerminal` has none, also inside `MCUsb`, where the fairness is that of
  `UsbControl`: its waiting is for the host, or for an AES that may be off.

## 6. Proofs

`GpsReceiveProofs` (for every `BufferSize`, `SentenceSize` > 0, alphabet and length
of the stream):

* `TypeCorrect`: `TypeOK` is inductive as it stands. It needs `sentence_length =
  SentenceSize => pc = "returned"` and `pc # "handle" => read_head <= BufferSize`.
* `RingCorrect`: `UnreadSlots` is inductive relative to `TypeOK`. The argument runs
  over `Ahead`, the distance of a slot from the reader: `RingArithmetic` and
  `WriterAdvances` are its integer facts, then one lemma per action that moves a
  head (`InterruptSlots` with the cases lap / no lap, `PollSlots` with the cases
  empty / past the end / inside).
* `ReadsInOrder`: from the invariant, by `PollTakesOldest`.
* `SentencesAreLines`: `Assembly` extends `SentenceIsLine` to the states before the
  return: as long as no character was lost, `sentence` holds the characters from
  `start` to the last one handled, and the one just polled, if any, is the next
  of the stream. It is inductive relative to `TypeOK` and `UnreadSlots`, which says
  what the next slot holds (`PollAssembly`); the interrupt disturbs it only by a
  lap, and then the sentence counts as tainted.

`PageLogProofs` (for every number of pages, records, words, flushes, resets):

* `TypeCorrect`.
* `ScanFindsResumePage`, what the loop computes, and from it `ScanFindsErasedPage`,
  what it is for: `ScanResult` alone is not inductive. `Resuming` adds the loop
  invariant `Scanned(page)` (none of the pages read so far is erased, and `df_page`
  follows the first of the highest), that the flash cannot change between the
  first page read and the first flush (`fresh => programming = Idle`, except
  before the first page: a program may outlive a watchdog reset), and that a
  fresh log has room for the next record, so that nothing is overrun before
  the first flush.
* `FirstFlushIsSafe`: from `Resuming`.

* `LogUsesStore`: the safety part of `UsesStore`; each step of the log is a step of
  the store or leaves it alone (`FlushBegins`, `ProgrammedEnds`, `PowerLossLoses`).

`DataflashProofs` (for every number and size of pages, every set of bytes, calls and
resets):

* `TypeCorrect`, with the arithmetic of addresses it needs (`AddressInMemory`,
  `MemoryAtAddress`).
* `DriverImplementsStore`: the safety part of `ImplementsStore`. The inductive
  invariant is `Exclusion`: a command that waits finds the chip idle still, a
  buffer being filled is not the one being copied (`Excluded`), so the copied
  buffer and the bytes copied so far are what the command was given for
  (`Undisturbed`). The refinement alone is not inductive: without these a step of
  `Complete` may store a mix of two images.
* `ReadsAreOfArray`: from `ReadsOn`, which ties the chip's counter to the number of
  bytes received, and `Exclusion`, by which nothing runs during a read.
  `CounterRunsOn` and `RemainderUnique` are the modular arithmetic.

`PageImageProofs` (for all sizes of pages, headers and records):

* `TypeCorrect` and `PageHoldsTail`: the invariant `Sent` says that the chip's address is
  that of the next byte and the last `PageSize` bytes sent are in their places. A
  byte replaces the one sent a page before (`PlacesApart`), and every address has
  one of the last bytes (`SurvivorFalls`).
* `WordIsOfOneRecord`: when the word at the end of record `r` comes to lie at the start
  of the page after `w` times around the chip's buffer (`Aligned(r, w)`), the scan
  reads exactly that word, whatever the sizes and however many pages were
  flushed. `Read` and `CounterIsTail` tie what was read to the page that
  `PageIsTail` describes; `AlignedSurvives` is that these bytes are not replaced by
  later ones of the image. `WordIsThatOfTheCode` shows that the sizes of
  the code satisfy `Aligned` for record 13, so the hypothesis is not empty.

`DataProofs`, buffer in the FRAM (for all lengths of buffers, any CRC, any calls and losses of
power):

* `TypeCorrect`: a call writes within metadata and data. `Jobs` says how far the
  running call is: `Writing(b, n)` or `Clearing(n)`.
* `ClearedStaysRejected`: `Zeroed`, that the metadata are zero as long as `cleared` holds, is
  the strengthening; it needs `Jobs` (a clear that returns has zeroed all of them,
  and a write stays off them until its data are sent). Metadata of zero are
  accepted only for a content whose CRC is zero, which is the property.

`DataProofs`, sentences (for every set of lines that fit the array, every size of it, and
everything that may lie behind it):

* `DecodeTypes`, `CompleteLines`: the invariant `DecodeInv` is `DecodeTypeOK` and
  `CompleteLineDecoded` with, while a sentence is looked at, `Received` (the array starts
  with the line's text and a NUL) and, once it is split, `Split` (`param[k]` is where
  field `k` of the line begins in the array). `DecodeTypeOK` needs the first of them
  too: the digits of a coordinate end within the array only because a NUL does.
* How they follow. `Flattened` gives the places of a concatenation's parts, and `Layout`
  from it those of a line's commas and fields. `Ranked` numbers the
  commas by a bijection, so that `CommaAt(k)`, defined by counting, is the `k`-th of them
  (`SplitAtCommas`), and `PositionsSplit` is `Split`. `SixDigitsRead` and `DecimalRead` are then what
  `gps_decode_dd` and `strtoul` return for a field in its format, wherever it lies
  and whatever follows its digits (decimals of the seconds, `112326.000`), and
  `CompleteRead` puts the fields of a complete line together. `Whole`
  at most 18000 makes the cut to `int16_t` harmless (`Cut`).
* `LocationsHaveTime`: only `Location` changes the location, and by `Split` the `A` it found
  is the first character of the line's own field. The hour, minute and second in
  `rec` are then those at places 2 to 7 of the line itself (`DigitsOfLine`, by
  `TimeRead`), in any format of the field; date and whole degrees are the line's when
  their fields are in their formats. An empty date or coordinate is read from later
  fields (section 4), so of these no more can be claimed.
* The induction over the length of a sequence (`JoinExists`, `ValuesExist`) is over a set of
  numbers (`UpTo`), as in `BlockComesBack` below.

`CdcRxProofs` (for all sizes of packets and buffers with whole packets in a buffer):

* `TypeCorrect`, unconditionally; `ReceivesApart` and `ReceivesInOrder`, the refinement of
  `ByteChannel`, until interrupts outrun a pass (`InOrderUnlessOutrun`). The invariant is
  `TypeOK /\ (outrun \/ Sound)`, and `Sound` has four parts: `Endpoint` (a job fills the
  buffer that is not current, also between the swap and its start), `Stored` (buffers
  hold received bytes), `Pass` (what `udi_cdc_getc` noted is still true, or leads
  nowhere, or, when the host has set up the interface meanwhile, to an old byte),
  and `InLine` (current buffer, other buffer and transfer hold consecutive bytes of
  the stream). Any number of interrupts may come within a pass; they swap no buffer
  that has unread bytes, so they disturb only a pass that noted an empty one and
  finds it filled, or one that a set-up has overtaken: the two cases of `outrun`.

`CdcTxProofs` (likewise):

* `TypeCorrect`, `RoomIsThere`, and `TransmitsInOrder`, the refinement. The invariant: a job is
  of the unselected buffer, that buffer is empty unless it is being sent or
  waits, and source, unselected and selected buffer hold the bytes from `got` to `put`
  in line.

`UsbProofs`, control transfers (for every packet size, descriptor, address, line coding and
number of requests):

* `Invariant`: `IInv` is `Base /\ (overtaken \/ InStep)`. `Base` is the types and what
  they rest on, and holds whatever overtakes what; `InStep` holds as long as no SETUP
  packet has overtaken a packet of the data. It says for each state of `udd_ep_control_state` in which stage the
  host can be, and the other way round. `Waiting` is a request whose SETUP packet
  is not handled yet, `Quiet` the time after a reset of the bus, `Stalls` a refused
  request, `Reads` and `Writes` an accepted one in either direction; `Packet` ties
  the packet in the endpoint to what the host has got and what remains. One
  lemma per action (`SetupKeeps`, `InSentKeeps`, ...) shows that a step leads from one
  of these to one of these.
* `TypesHold`, `ReadsAreAnswered`, `HostAndDeviceAgree`, `AddressIsKnown`,
  `LineCodingIsStored`: from the invariant, all but the first for requests that are not
  `overtaken`. None of them is inductive: `Agreement`
  needs that the handlers of underflow and overflow do not stall a request in
  progress, which holds because both events are clear wherever they would
  (`Reads`: no underflow while the status packet is awaited; `Writes`: no overflow
  while it is sent); `AddressKnown` needs `Address`, that the address waits in the
  callback exactly from the request to the interrupt of its status packet.

`UsbProofs`, terminal (for all commands, lengths of keys and buffers, any cipher):

* `TerminalInvariant`: `Register` says that what is not zero in the 4-byte register is
  the last characters read, so a recognised command is all of `tail`
  (`CommandIsTail`); `Reading`, that `tail` is then the command and the key so far;
  `Storing`, that the page the NVM controller writes is such a key.
* `KeyIsSavedAsTyped` and `TerminalTypes`: from it.
* `BlockComesBack`: `Encrypted` keeps what became of the first block. `ProcessFacts` is what
  `CRYPT_process_buffer` computes; that its recursion has a value for every number
  of blocks (`StateExists`) needs an induction. The library's induction theorems
  take an operator, which the provers cannot instantiate; `Induction` is over a set
  of numbers instead, from the theorem that the natural numbers are
  well-founded.

Assumptions are those of the modules (`SizesAssumption`, `CharsAssumption`,
`LogAssumption`, `FlashAssumption`, `ImageAssumption`, `FramAssumption`,
`LinesAssumption`, `BehindAssumption`, `RxAssumption`, `TxAssumption`,
`ControlAssumption`, `TerminalAssumption`): positive sizes, distinct characters, types wide
enough for their arrays, the word of an erased page above those of records,
whole packets in a buffer, lines that fit the
sentence array (`gps_get_sentence` cuts what does not, gps.c:135; the rest is a line
of its own that does not begin with `$GP`), some characters behind it, a cipher on
blocks that the intermediate key undoes.

Only model-checked: liveness (`Drain`, `BootCompletes`, `CallReturns`, `Delivered`, `Listens`,
`Flushed`, both `TransferEnds`, `PutcReturns` and the liveness parts of `UsesStore` and
`ImplementsStore`), which is out of the prover's reach (as is ENABLED). Every other property of the
passing runs is a theorem.

## 7. Not modelled

* Of the Dataflash driver `DF_erase_sector`, programs without erase and `DF_print_page` (no
  callers), and `DF_init`, which runs once.
* Of the CDC driver the functions without callers (`udi_cdc_read_buf`,
  `udi_cdc_write_buf`, serial state notifications), and SET_FEATURE HALT on a data
  endpoint. Of the terminal `info` and `dump`, which only print, and characters of
  nine bits, whose second byte is combined with the character before.
* Of the requests string descriptors, features, GET_CONFIGURATION, GET_INTERFACE and the
  status of endpoints: they take the paths of those that are modelled.
* Of the EEPROM driver `EEP_EraseAll` (no callers).
* Terminal output, the random number generator, register set-up at start-up and
  the drivers of clocks, sleep modes and NVM instructions: they keep no state a
  property could relate. The headers of the vendor's library (register names,
  inline set-up functions) are most of the lines of the repository.
* `flash.c` is not part of the build.
