# esp_bridge in TLA+

Specifications of the ESP8266 firmware in this repository: a bridge that takes
commands from a host MCU over UART0, executes them (WiFi, MQTT, REST) and
answers over the same UART.  The modules are translated from the C sources; the
host, the SDK and the submodule `modules/mqtt` (ring buffer, frame parser, MQTT
library), which is not in the repository, are modelled by how the sources use
them.

## 1. The system

| Component | State | Operations | Talks to |
|---|---|---|---|
| UART0 receive path: `driver/uart.c`, `modules/cmd.c`, `user/main.c` | RX FIFO, raised interrupts, `rxRb` (256 bytes), `cmdRecvQueue` (1 event), the byte `CMD_Task` holds | `uart0_rx_intr_handler`, `CMD_Input`, `CMD_Task`, `CMD_Init`, reset | host (bytes, RTS), parser (one byte at a time) |
| Command protocol: `modules/cmd.c` | `rxProto` (in a frame, length), `protoRxBuf` (2048 bytes), a `REQUEST` per handler | `PROTO_ParseByte`, `protoCompletedCb`, `CMD_Exec`, `CMD_Reset`, `CMD_IsReady`; `CMD_Request`, `CMD_PopArgs`, `CMD_ArgLen` | the handlers in the table `commands`, response writer |
| Response writer: `modules/cmd.c`, `driver/uart.c` | TX FIFO | `CMD_ResponseStart/Body/End`, `CMD_ProtoWrite`, `uart0_write`, log output | host; called by `CMD_Exec`, `wifi_check_ip`, the MQTT and REST callbacks |
| Checksum: `modules/crc16.c` | accumulator | `crc16_add`, `crc16_data` | protocol, writer |
| Station monitor: `modules/wifi.c` | `WiFiLinker`, `wifiCb`, `wifiStatus`, `lastWifiStatus` | `WIFI_Connect`, `wifi_check_ip` | SDK station, writer |
| REST client: `modules/rest.c` | one `REST_CLIENT` per setup: strings, request buffer, connection | `REST_Setup`, `REST_SetHeader`, `REST_Request`, DNS and TCP callbacks | espconn, writer |
| MQTT application: `modules/mqtt_app.c` | `MQTT_Client` handles, their strings and callbacks | `MQTTAPP_Setup/Lwt/Connect/Disconnect/Publish/Subscribe`, four callbacks | MQTT library, writer |

One core runs everything.  Command handlers, timer callbacks and network
callbacks are tasks that run to completion; only the interrupt handler, the
hardware and the SDK's own tasks act in between.  What is hard, and what makes
each component correct:

- **Receive path**: the handler interrupts the task between any two steps,
  both `RINGBUF_Put` and `system_os_post` may fail and neither result is
  looked at, interrupts are acknowledged after the FIFO was drained.  No byte
  may be reordered, duplicated or stranded; bytes are lost only when the ring
  is full or around a reset.
- **Protocol**: bytes go missing, the chip resets in the middle of a frame,
  the buffer keeps the previous frame.  A whole frame must be executed
  whatever came before it, a damaged one must not.
- **Writer**: arguments hold any byte, lengths are padded and 16 bits wide,
  the log shares the line and prints what the host has sent.  The host must
  read back exactly what was written.
- **Checksum**: must detect damage, although argc and the lengths say where it
  is and are used before it is compared.
- **Station monitor**: the status is re-read while the SDK changes it, attempts
  fail and are repeated, a command without its two arguments overruns the
  stack.  The monitor must not die while the chip runs and the host must learn
  every lasting status.
- **REST client**: overlapping requests share a buffer and a connection, a
  response comes in any number of segments, half of the failures produce no
  event.  A server must receive requests as the host meant them, an event must
  say what the server answered, and no request may keep the connection.
- **MQTT application**: the strings of a client are freed and replaced while
  the library may be dialling with them, and memory runs out.  A block must
  have one owner, and what the library reads must be what the host last set.

`PROJECT.json` lists every hazard with the line where it bites and the
properties that guard it.

## 2. Modules

| Module | What it is |
|---|---|
| `SerialLine` | Abstract: an ordered line that loses bytes only beyond its capacity or around a reset |
| `CmdInput` | The receive path step by step; implements `SerialLine` |
| `CmdLink` | The command protocol, built on `SerialLine` (EXTENDS) |
| `CmdReceiver` | `CmdLink`'s host and parser on top of `CmdInput`; implements `CmdLink` |
| `CmdArgs` | How a handler reads its arguments |
| `CmdResponse` | The response writer and the host's reader |
| `Crc16` | The checksum |
| `WifiLink` | The station monitor and the SDK's station |
| `RestScan` | The loop of `tcpclient_recv` over a segment, as operators |
| `RestParse` | That loop, byte by byte over every text |
| `RestClient` | The REST client, its lookups and connections; uses `RestScan` |
| `MqttSession` | Abstract: what a handle of the MQTT application stands for |
| `MqttApp` | The MQTT application on an explicit heap; implements `MqttSession` |
| `CmdInputProofs`, `CmdLinkProofs`, `FrameProofs`, `CmdResponseProofs`, `WifiLinkProofs`, `RestProofs`, `MqttAppProofs` | Theorems |
| `SequenceLemmas` | What those proofs need of sequences: induction, `FlattenSeq`, `FoldLeft`, iteration |
| `MC*` | Model values for TLC |

An operator whose comment begins with "Fault" is what a plausible bug would
make of the definition after it.  No specification uses one; each shows that
some property notices that bug when it takes the definition's place.

### SerialLine and CmdInput

A byte is its position in the host's output, so order, loss and duplication
are visible.  `CmdInput` has a program counter for the handler (`isr`) and one
for the task (`task`); every action of the task requires `isr = "idle"`, which
is the preemption of the single core.  `IsrEnter`, `IsrDrain`, `IsrDrained`
and `IsrAck` are the four phases of `uart0_rx_intr_handler`, `CMD_Input` is
called in the second.  `TaskStart` is the scheduler, which frees the queue's
slot before it calls `CMD_Task`.  `Restart` may happen at any step.  The
refinement maps `pending` to the byte the task holds, `rxRb` and the FIFO, in
this order.

Assumptions about hardware and SDK: FULL is raised again as long as the FIFO is
at its threshold; the receive timeout fires whenever the FIFO is not empty and
the line idle; the host obeys RTS, which `uart_config` enables (without it the
hardware FIFO can overrun before `rxRb` does); before `CMD_Init` neither
`RINGBUF_Put` nor `system_os_post` succeeds.

### CmdLink

The wire carries cells: a field of the frame is one cell, and so are the
markers and the checksum.  The checksum is ideal: it matches only the content
it was made from; `Crc16` says what the real one detects of flipped bits.  `protoCompletedCb` walks
`protoRxBuf` exactly as the code does, by the `argc` and the lengths it finds
there, whatever part of the buffer the last frame has written.  Handlers other
than `CMD_Reset` are one entry in `executed`.  Whether the parser calls
`protoCompletedCb` for an END outside a frame is left open.  `run` is a history
variable: how many consecutive bytes have reached the parser.

### CmdReceiver

`CmdLink` has its parser read from the abstract line; here it reads from the
interrupt handler, the ring buffer and `CMD_Task`.  Each action is one of
`CmdInput` joined with what it does to the parser or the host: a byte that
`CMD_Task` hands over is `Link!TakeByte`, a restart is `Link!ParserReset`, the
host puts a byte of its frames on the line (`SendByte`).  Nothing else
constrains what is delivered, lost or reset.  An interrupt in the middle of
`PROTO_ParseByte` is counted as one before it, since the two share no variable
that the parser reads.  `CmdReceiver` implements `CmdLink`, so the properties
of the protocol are stated once, in `CmdLink`, and hold of both.

### CmdResponse

`Response` is the byte sequence of a frame; the actions pass it through
`uart0_write` and the TX FIFO to the host.  The checksum's two bytes are
arbitrary.  Log lines are printed between two frames (no writer logs inside
one).  They hold any bytes, because `INFO` prints a network's name, a topic or a
path with `%s` as the host has sent it (wifi.c:84, mqtt_app.c:104, rest.c:237).
So a line may look like the beginning of a frame, the end of one or a whole
frame, and the host then reads a frame nobody wrote.  Nothing in the code
prevents that; only the checksum tells the host.  Each byte in `todo` and in the
FIFO carries a note whether the log printed it, and `frames` has the frames that
a writer's END has closed: `HostReadsResponses` says that these are exactly the
responses written, so that no log line hides, damages or displaces one.

### Crc16

A word is the function from its 16 bits to whether they are set, as shifts,
masks and exclusive ors are statements about bits.  Three registers take the
frame's bytes: the sender's, the receiver's and a shift register for the
polynomial of the comment in `crc16.c`.  Sender and receiver each walk the frame
(`protoCompletedCb`): cmd, callback and _return, then argc, then for each
argument a length and as many bytes, then the two bytes of the checksum.  The
sender's walk decides what it sums and where it writes `acc`, the receiver's,
by the bytes it gets, what it sums and where it reads `resp_crc`; a receiver that
is not done when the frame is (`ReadBehind`) reads on in older bytes of
`protoRxBuf`.  The line may damage any bytes, each by any mask in `Errors`;
`errors` records it, `Flipped` are the bits that have changed, and `intact` says
that argc and the lengths have come as they were sent.

Damage to argc or to a length is not promised to be detected, and need not be.
With `intact` dropped from `BurstDetected` and from `OddDetected` TLC finds a
frame in which one flipped bit of argc makes the receiver compare with bytes of
another place, and they match.  Nothing in the code excludes that, and no
document claims more than that the checksum "is used to detect errors"
(crc16.h:47-48), so it is described here and is not a finding.

### WifiLink

Each read of the address or of the status in `wifi_check_ip` is a step, since
the SDK's tasks may change both between two reads.  `air` is what an attempt
leads to; an accepted command sets another configuration, so it may change.
Timer periods and credentials are left out, and so is auto connect, which is
about power on, where `user_init` switches it off.

`WIFI_Connect` copies two fields by their lengths into 32 and 64 bytes of its
stack before it looks at argc (wifi.c:81-88).  With fewer than two arguments a
length is the checksum or what an older frame has left.  Whether the fields fit
is a choice (`fits`); if they do not, the chip restarts (`Boot`), at once or at any
later step (`system_restart`, which also stands for CMD_RESET and the watchdog),
or the command goes on as if they had fitted.  That an overrun does nothing else
is an assumption.  A restart loses `wifiCb`, `lastWifiStatus` and the timer:
`told` and `toldCb` are what the host has heard in the present boot, the
properties hold within a boot, and the two liveness properties are about a chip
that has accepted a command since its last restart.

### CmdArgs

The frame from `args` on is a sequence of cells: a length, a byte, or the
checksum behind the last argument.  `arg_ptr` and `arg_num` are the fields of
`REQUEST`.  A handler pops as often as it likes, since not all stop at `argc`
(`REST_Request` with four arguments pops a fifth).  That the frame is the one
the host has sent is the subject of `CmdLink` (theorem `HandlersReadSent`).

### RestScan, RestParse and RestClient

`ScanByte` is one turn of the loop of `tcpclient_recv`; its record has the
loop's locals.  The fields are ASCII codes because the properties tell spaces,
digits, CR and LF apart.  The rest of `RestScan` is what a reader of HTTP finds
in the same text: a status line, a blank line.  The definitions of `RestParse`
have names of their own, so that `RestProofs` can extend it together with
`RestClient`.

In `RestClient` a handler or a callback is an action.  `data.id` and
`data.headers` are the request composed in the 1024-byte buffer `data`;
`conn` is `pCon`; `lookups` counts calls of `espconn_gethostbyname` that have
yet to call back.  `requests`, `wants`, `sent` and `events` are what the host
and the servers know, and `dropped` collects the requests that no event can
follow, each where the code gives it up: replaced or made on a busy connection,
a lookup that failed or was answered on the spot, a connection lost, an answer
whose first segment has no byte of a body, a reset.  So `Answered` says that
these are all the ways in which a request ends without an event.  (A lookup
that finds no address is one of them, although rest.c:131 logs "try to
reconnect".)

Assumptions about SDK and network: `espconn_connect` does nothing for a
connection in use; the resolver either calls back later or, when it remembers
the name, fills `client->ip` and does not call back; a segment may still arrive
between `espconn_disconnect` and the end of the connection; the host uses
handles of the present boot.  A server answers with a status line and a
head that ends at the first blank line (`HttpHead`), and its answer is cut in at
most two segments.  A client's strings are not counted as memory; that there is
none for another client is possible when all addresses are taken.  `Scanned`
tabulates `Scan` for the segments of the run.

### MqttSession and MqttApp

`MqttApp` has the heap: `live` are the blocks handed out, `client` the fields
that point to other blocks, `text` and `calls` what the blocks hold, also after
they were freed.  `Pick`, the allocator, is any choice of a free block.  A
handler allocates and frees in the order of the code; where the code writes to
what `os_zalloc` returned without a test, a lack of memory restarts the chip.
The topics and messages that `MQTTAPP_Publish` and `MQTTAPP_Subscribe` allocate
and free again only clear the blocks they had.  The library dials with
`client->host`, hands over the will, queues messages, redials a lost connection
and calls back; `MQTT_InitClient` copies the texts it is given and allocates
one block (`state`).

The refinement reads a session through the pointers (`Sessions`).  It shows
that nothing a command does for one client, or has done long ago, changes what
another client's pointers lead to.

## 3. Runs

| Run | Shows | Bounds |
|---|---|---|
| `cmd_receiver` | `NoLostWakeup`; `LineSpec` and `LineFairness`: the receive path implements the fair line; `ImplementsLink`: with the parser behind it, `CmdLink` | ring 2, queue 1, thresholds 2; 8 bytes of two frames of six cells, more than one frame, so that a second begins while the first is on its way; 5 in flight, which is all that task, ring and FIFO can hold, so ring and FIFO fill up at once and overflow; one reset besides `CMD_Reset` |
| `cmd_link_window` | `DamagedFrameIgnored`, `Answered`, with a host that keeps no more in flight than the ring holds | 3 frames of 6 to 10 cells, of which one is too long for the buffer and one unknown, one unsolicited reset |
| `cmd_link_overflow` | `OnlySentExecuted`, `WholeFrameExecuted`, with overflow at any byte | capacity 2, window 4, 2 frames: one that leaves its trace in the buffer and one after it; one command is too long for the buffer |
| `cmd_link_stale` | **violated** `ExecutedOnce` | 2 frames, no reset |
| `cmd_response` | `HostReadsResponses`, `ResponseArrives` | 2 frames of 0 to 2 arguments made of markers and escape images, lengths in every class modulo 4 up to the largest that a (shrunk) length allows, two log lines out of a START, an escape, an END and a whole frame, FIFO 2 |
| `crc16` | `IsCCITT`, `BurstDetected`, `OddDetected` | a head of 1 byte and up to 8 bytes in all, of two values: frames without arguments and with one of a byte are walked to the end, others begun; six masks, 2 damaged bytes anywhere, argc and the lengths included: bursts inside a byte, across bytes and across the checksum, and a receiver that ends before the sender or after it |
| `wifi_link` | `MonitorAlive`, `HostKnowsLastPoll`, `EventIsNews`, `EventuallyJoined`, `LastingStatusTold` | 3 commands, accepted, rejected or overrunning the stack, 2 callbacks, 2 changes on the air, one restart |
| `cmd_args` | `ReadsArguments` | 0 to 3 arguments of 0 to 2 bytes, 4 pops; bytes, lengths and checksums share values |
| `rest_parse` | `BodyAfterBlankLine`, `CodeIsStatus` | all texts of up to 8 characters over a letter, a digit, space, CR and LF: a status line needs 6, a blank line 2 |
| `rest_overlap` | `SentAsMeant`, `EventToRequester`, `EventsFaithful`, `NewestSent` | one client, 3 requests, 3 setups or headers, 2 callbacks, one fault; answers with and without a body, whole or cut in the head, after it or in the body |
| `rest_serial` | `SentOnce`, `Answered`, `Released`, with a host that waits | 2 clients, 2 requests, 2 faults, the same answers |
| `mqtt_app` | `Ownership`, `ImplementsSession` | 9 blocks: two clients with all their texts fill them, a third setup finds too few; 5 commands, one reset, a queue of one message, and an allocator that reuses what was freed last |

Deadlock is not checked where the host simply has nothing more to send.

**Fairness.** `CmdInput`: the processor serves interrupts, runs the task it was
posted, the SDK calls the init callback, an idle line times out; the host owes
nothing and resets are never required.  The run `cmd_receiver` assumes this and
nothing else; that it gives the abstract line the fairness it asks for is
`LineFairness`.  `CmdLink` asks for no more than that, since its parser takes
every byte the line delivers.  `CmdResponse`: a writer that
has begun goes on, the line carries what is in the FIFO.  `WifiLink`: timers
fire, callbacks run, an attempt comes to an end; `EventuallyJoined` assumes
that attempts can succeed from some point on, and both it and
`LastingStatusTold` that a command was accepted after the last restart.

`RestClient` (run `rest_serial`): as long as a client has a lookup or a
connection, the resolver, the network or the server comes back with something;
each client by itself, and it may always be a failure while faults are left.
`MqttApp` has safety properties only.

**Finding.** `protoCompletedCb` (cmd.c:160-197) never looks at how many bytes
the frame had.  In `cmd_link_stale` the fields of a frame are lost to an
overflow between its START and its END; the END makes `protoCompletedCb` check
and execute what the previous frame left in `protoRxBuf`, whose checksum is of
course right.  The checksum "is used to detect errors in transmissions"
(crc16.h:47-48) and this one goes undetected.  `cmd_link_window` shows that it
cannot happen while the host keeps at most `sizeof(rxBuf)` bytes in flight.

## 4. Proofs

TLAPS proves, for every value of the constants that satisfies the named
assumptions in the modules (the bounds of the runs are constants like the
others, so numbers of frames, requests and bytes are arbitrary):

**`CmdInputProofs`.**  `TypeCorrect`; `WakeupSafe` (`NoLostWakeup`, inductive
relative to `TypeOK`).  The point of the second is `IsrDrain`: a post fails only
when the queue is full, hence holds an event (`QueueSize > 0`), and `TaskEmpty`
leaves the loop only with an empty ring.  `ImplementsLine` (`LineSpec`): every
step is a step of `SerialLine` or a stutter.  The byte the task holds, `rxRb`
and the FIFO, in this order, are the line's `pending`; a byte moves between them
without changing their concatenation, except where the ring is full
(`IsrDrain`) or the chip restarts.  It needs that nothing is held before
`CMD_Init` (`DownIsEmpty`).  `HandsOverInOrder`: the parser is given each byte
at most once, and in the host's order, which follows from the line
(`LineKeepsOrder`) once a step is known to be one of its steps.

**`CmdInputProofs`, the receiver.**  `ReceiverImplements` (`ImplementsLink`): what
`CmdInput` adds or takes from the bytes in flight is a step of `SerialLine`
(`BelowParserIsLine`), and the rest of the step is `CmdLink`'s own.  Therefore
`ReceiverExecutesOnlySent`, `ReceiverExecutesWhole` and `ReceiverIgnoresDamaged`
(under `Window <= RingSize`): the three properties of `CmdLink` proved below hold
of the interrupt-driven firmware.  They are cited from an instance of
`CmdLinkProofs`; the lemmas `Same...` say that its definitions are those of
`CmdReceiver`'s instance of `CmdLink`.

**`CmdLinkProofs`.**  Nothing limits the packets, the capacity or the number of
resets.

- `TypeCorrect` and `ExecutesOnlySent` (`OnlySentExecuted`).  The buffer holds
  cells of sent frames and zeros, in any mixture; but a checksum in it comes
  from a packet that was sent, it matches only that packet's body, and a body
  determines its packet (`BodyInjective`, with `EncodedInjective` for the
  arguments).  So `protoCompletedCb`, which walks whatever it finds
  (`DataPtrIterates`), can only find what the host has sent.
- `HandlersReadSent`.  Moreover the buffer itself begins with all the fields of
  that packet and its checksum (`MatchHolds`, by induction over the arguments
  walked), which is what `CmdArgs` starts from: so the chain from the host's
  frames to the arguments a handler gets has no gap.
- `WholeExecuted` (`WholeFrameExecuted`).  `Layout` says where each frame is on
  the wire, `BufferInv` that inside a frame which has come without a gap the
  buffer holds exactly its cells so far; `FrameDecoded` that a buffer with the
  fields and the checksum of a packet is read as that packet, whatever follows.
- `DamagedIgnored` (`DamagedFrameIgnored`), under `Window <= Capacity`: then
  nothing is lost once the chip is up (`NoGap`), an open frame is one of which
  every byte has come, and before the first START since a reset the buffer has
  no checksum (`OpenInv`, `ZeroNeverMatches`).  Without the assumption the
  property is false: that is the finding.

**`FrameProofs`, the arguments.**  `ArgsTypeCorrect` and `PopsArguments`
(`ReadsArguments`): the `REQUEST` is always at the length of the argument after
the last one popped (`Walk`), which lies where the arguments before it end
(`LayoutExists`).

**`FrameProofs`, the checksum.**  For frames of every length with any number of
arguments, all bytes and all masks.  `IsPolynomial` (`IsCCITT`): one call of
`crc16_add` is eight steps of the shift register, bit by bit (`AddIsShift`).
`BurstsFound` (`BurstDetected`) and `OddErrorsFound` (`OddDetected`), for a frame
whose argc and lengths have come as they were sent: then sender and receiver are
always at the same place (`SameWalk`, which looks at no byte but those of argc
and the lengths), so the receiver reads the sender's checksum, with what has
damaged it (`ReadsDamage`).  `crc16_add` is linear (`AddLinear`), so the two
checksums differ by the checksum of the damage alone; a byte leaves a zero
register only if it is what the register held (`AddIsZero`), so damage that ends
within 16 bits of its beginning never cancels (`Window`); and the register's
parity is that of the bits that went in (`ParityAdd`).  `DamageInv` says this of
the damage up to now; the checksum's own two bytes are the last two steps
(`ChecksumCarried`, `EqualIsZero`).

**`CmdResponseProofs`.**  `PadLenCorrect` and `PadLenWraps`, the arithmetic of
the padding with its 16-bit range.  `TypeCorrect` and `ReadsResponses`
(`HostReadsResponses`) for all arguments, log lines and FIFO sizes.  The
invariant (`Coming`): if the host read what is in the FIFO and what the writer
still has to give it, it would have received exactly `Raw(r)` for each response
`r` written.  That escaping is undone is `BodyReads` and `ResponseReads`, that a
log line completes none of the frames counted is `TextReads`, and that `Raw(r)`
conveys `r`, by the `argc` and the lengths found in it, is `RawConveys`.

**`WifiLinkProofs`.**  `TypeCorrect`, `MonitorNeverDies`, `HostIsCurrent`,
`EventsAreNews`.  Neither property is inductive alone: `PollInv` adds that the
timer runs and a poll happens only after a command was accepted (otherwise a
change would be noted in `lastWifiStatus` without an event), and that during a
poll the host knows the previous one.  They hold for any number of restarts; a
restart is the initial state again as far as they are concerned.

**`RestProofs`, the loop of `tcpclient_recv`.**  For segments of every length and
every set of characters: `LocalsCorrect`, `BodyFound` (`BodyAfterBlankLine`) and
`CodeRight` (`CodeIsStatus`).  The invariant `LoopInv` has two halves.
`HeadRead` adds to the property what `currentLineIsBlank` means while no body
has been found; `AppendBlank` says how reading one more character changes which
positions end a blank line.  `StatusRead` says that `statusCode` has the digits
after the first space as far as they have come, three at most; `AtoiOfDigits`
that `atoi` makes their number of them.  `ScanReads` carries `LoopInv` over to
`Scan`, the whole loop as an operator, which leaves at the first event.

**`RestProofs`, the client.**  `IInv` says of each client: the request in its
buffer is the newest one the host has made of it, as the host meant it
(`BufferInv`), and its lookups, its connection and its segments belong to
requests made under its present callback (`UnderWayInv`).  From it
`TypeCorrect`, `RequestsAsMeant` (`SentAsMeant`), `EventsReturn`
(`EventToRequester`) and `SendsNewest` (`NewestSent`), also with overlapping
requests.  `NoRequestTwice` (`SentOnce`), under a host that waits, needs
`SerialInv`: a request under way is under way in one place and has not been
sent.  `AnswersFaithful` (`EventsFaithful`) joins the two parts: segments in the
inbox are pieces of an answer (`Genuine`), and a piece from the beginning of one
makes an event only when it has the whole head and a byte of the body
(`AnswerRead`), whatever the lengths and wherever TCP cuts.  The assumption on
the server is `HttpHead`: a status line first, and the first blank line at the
end of the head.

**`MqttAppProofs`.**  `TypeCorrect` and `BlocksAreOwned` (`Ownership`), for every
heap and every allocator (`Pick` is any choice of a free block, also the one
just freed).  `IInv` is the two together.  `ReplaceField`, a field given a block
that is free once the field's own is, is the step `MQTTAPP_Connect` makes once
and `MQTTAPP_Lwt` twice.  `Implements` (`ImplementsSession`): every step of
`MqttApp` is a step of `MqttSession` or a stutter.  It needs `Ownership`: a step
writes only free blocks and the block of the field it replaces, so the texts of
every other client stay what they were (`SessionKept`).

**`SequenceLemmas`.**  The library's induction theorems take an operator, which
the provers cannot instantiate; its theorem about well-founded sets does not
(`WFMin`).  From it follows induction as a fact about sets (`NumberInduction`,
`SequenceInduction`), and with it what `FlattenSeq` and functions defined by
recursion do for arguments of any length (`FlattenAppend`, `OffsetsExist`,
`FoldExists`, `IterationExists`).

Model-checked only: the liveness properties (liveness and ENABLED are out of the
provers' reach): `LineFairness`, `ResponseArrives`,
`EventuallyJoined`, `LastingStatusTold`, `Released` and `Answered` of `CmdLink` and of
`RestClient`.  `ExecutedOnce` is false.  Every other property of a run is a
theorem.

## 5. What could follow

`Bridge`: the dispatch table of `CMD_Exec` with `WifiLink`, `RestClient` and
`MqttApp` behind it and the response writer they share.  The handlers run to
completion and share no state but UART0, where each writes a whole frame at a
time, so the parts are checked separately here; a composition would add that a
callback's event and a command's answer never mix inside a frame.

## 6. Not modelled

- Handles of an earlier boot (`mqtt_app.c:188`, `rest.c:275`): what they point
  to is whatever that memory holds.
- The sizes of the REST client's blocks (`rest.c:186-197`) and the length of a
  request: a request is one value.
- Ports, `security`, keep-alive, QoS and retain flags: copied and handed to the
  library, nothing in `src/` depends on them.
- `tools/esptool.py` (third-party, runs on a PC), register definitions and
  Makefiles (no behaviour), UART1 and the output helpers nobody calls.
