# A verification of the noduino SDK

TLA+ models of the parts of this SDK whose behaviour is decided by the order of
callbacks, by failures half way and by limits of small buffers: the MQTT client
(`lib/mqtt`) and the HTTP client (`lib/httpclient`), the espconn calls both rest
on (`lib/lwip/app`), rBoot (`bootloader/rboot`), the boot loader and the flash
writer of updates over the air, the job scheduler (`lib/noduino/cron`), the key
driver (`lib/driver/key.c`) and a product built on it, the plug of
`sketch/open-plug`.  TLC checks every module on small instances; TLAPS proves the theorems at
the end for every value of the constants.

    tlc -workers 2 -config MqttIpHost.cfg MCMqttClient.tla     a run
    tlc -workers 2 -config OpenPlug.cfg MCOpenPlug.tla         the longest one
    tlapm RbootWrite_proofs.tla                                a proof

Paths are relative to the repository.

## The system

The SDK builds firmware for the ESP8266 (and a few AVR and NB-IoT boards).  On
the ESP8266 all code runs in callbacks of a non-preemptive kernel: software
timers, espconn network callbacks, and tasks that take events off a queue of
fixed length (`system_os_task`, `system_os_post`).  A callback runs to its end
before the next one starts.  Only interrupt handlers preempt, and the power
may go at any time.

### Inventory

| Component | State | Operations | What is hard | What makes it correct |
|---|---|---|---|---|
| Ring buffer, `lib/mqtt/ringbuf.c` | array, read and write pointer, count | `RINGBUF_Put`, `RINGBUF_Get` | three fields updated apart, wrap at the end, the full and the empty ring | it is a bounded FIFO with these return codes |
| Queue and framing, `queue.c`, `proto.c` | the ring's bytes | `QUEUE_Puts`, `QUEUE_Gets`, `PROTO_AddRb`, `PROTO_ParseByte` | a frame that fails half way stays in the ring; the parser has an uninitialised flag; callers evict in a loop | messages leave whole, in order, at most once; the loop ends |
| MQTT session, `mqtt.c` | connection state, timer, tick counters, pending message, outgoing queue, current espconn | the API, `mqtt_timer`, five espconn callbacks, the DNS callback, `MQTT_Task` | one event slot shared by all clients, posts to a full slot ignored; callbacks of old connections act on the new session; the timer races answers | no wake-up is lost, timers match the state, the CONNACK meets its CONNECT, a lost link leads to a new attempt |
| espconn, client side, `lib/lwip/app` | link state, one-packet send buffer | connect, send, disconnect, posted close and error callbacks | a refused packet stays in the buffer; a close without memory is never retried | (as the client above relies on it) |
| Boot loader, `rboot.c`, `rboot-api.c` | one config sector, the image slots | `find_image`, `rboot_set_config`, `rboot_set_current_rom` | power failures between and inside erase and write; the sector is rewritten by two programs | some rom boots; the running rom is not overwritten; user data is kept |
| Flash writer, `rboot-api.c` | write address, last erased sector, up to three held-back bytes | `rboot_write_init`, `rboot_write_flash` | chunks of any length, alignment, one erase per chunk ahead of the write | the flash holds the image, byte for byte |
| MQTT codec, `mqtt_msg.c` | the output buffer | builders of packets, getters on received ones | length fields of one or two bytes, buffers of fixed size | what is built is parsed back |
| Cron, `lib/noduino/cron` | sorted job list with `first` and `last`, timeout list, tick counter | add, remove, clear, the tick | callbacks that change the list being scanned; `last` after a removal; the counter restarts at the longest period | the lists stay well formed, no listed job is skipped, each is called within a bound |
| Software UART, `lib/softuart` | receive ring | an interrupt handler stores, the application reads | a store and a read in any order, overflow | bytes arrive in order; overflow is reported |
| Key driver, `lib/driver/key.c` | the time of the last press, two timers per key | GPIO interrupt, the short and the long timer | bounce, edges lost between level and clear | a press is taken for what it was |
| HTTP client, `lib/httpclient` | a request with its growing buffer, a timeout timer | DNS, connect, sent, receive, error, disconnect, timeout | the timer and the callbacks race for the same request, which one of them frees | the request is freed once, its callback called once |
| UDP sockets, `lib/libespudpd` | chains of packet buffers for both directions | append, reserve, send, receive, next, read | growth in units, offsets across a chain that receives while it is read | what is read and sent is what arrived and was appended |
| Clock, `lib/sntpclock` | seconds | calendar conversions | leap years, daylight saving boundaries | it agrees with the calendar |
| Curtain, `sketch/open-curtain` | encoder count and limits, status, target | encoder interrupt, 1.1 s and position timers, cloud commands | status lags the motor; a new target while moving | the motor stops at the target |
| Plug, `sketch/open-plug` | relay, settings in RAM and in a flash sector, a mark in RTC memory | key, cloud message, voice control, start-up | power failures and restarts in the middle of any handler; cold and warm starts differ | relay, RAM, flash and platform agree again; a torn sector invents nothing |
| Light, switch, `sketch/open-light`, `open-onoff` | as the plug | as the plug | as the plug | as the plug |
| LoRa nodes and gateway, `sketch/quark-gw`, `aeco-*` | frame counters, radio mode | send, receive, push to a server | lost packets, the watchdog | each reading is pushed at most once |

The other parts are drivers without state of their own (`lib/driver`, `lib/spi`),
code derived from the Arduino core, request handlers around text (`lib/libecho`),
radio sniffing on top of a binary library (`lib/airkiss`, `lib/smartlink`),
demonstrations, and vendored code (`lib/lwip/core`, `lib/mbedtls`, `lib/cjson`,
`arch`, `sdk`).  They are listed in `PROJECT.json` with the reason why they are
not modelled.

### How the components meet

    application --MQTT_Publish--> [message queue: framing over ring buffer]
         |                                  |
         | MQTT_Connect, ...                | QUEUE_Gets
         v                                  v
    [session: connState, timer] <--events-- MQTT_Task --espconn_send--> espconn --> TCP
         ^                                                                 |
         +------------- connect, recv, sent, discon, recon, DNS ----------+

    application --http_raw_request--> [request] <--DNS, timer, espconn callbacks
    setup, callbacks --cron_add_job, ...--> [job and timeout lists] <--timer--> job functions
    key --edges--> [key_intr_handler] --timers--> xkey_*_press --+
    platform --mjyun_receive-------------------------------------+--> relay, param, flash sector
    voice control --relay_on_saved_and_pub-----------------------+        |
    param_init <-----------------------------------------------------------+  (every reset)

    application --rboot_write_flash--> image slot      (the update)
    application --rboot_set_config--+
    boot loader --find_image--------+-> config sector  (shared)

Each level of the MQTT stack is checked against what the level above assumes of
it: the ring implements a byte FIFO, the framed queue over a byte FIFO
implements a lossy FIFO of messages, and the session is modelled over that.
The plug is composed with the key driver it uses: `OpenPlug` extends `KeyDriver`,
its handlers take the driver's timers, and a reset resets both.

## Modules

| Module | Models | Used by |
|---|---|---|
| `ByteFifo` | what the ring promises: a bounded FIFO with return codes | `RingBuf` (refinement) |
| `RingBuf`, `RingBuf_proofs` | `ringbuf.c` | |
| `LossyFifo` | what the message queue promises | `MsgQueue` (refinement) |
| `MsgQueue`, `MCMsgQueue`, `MsgQueue_proofs` | `proto.c`, `queue.c` and the loops of `mqtt.c` over them | |
| `MqttClient`, `MCMqttClient`, `MqttClient_proofs` | `mqtt.c`, with espconn as far as it is used | |
| `RbootConfig`, `RbootConfig_proofs` | `find_image` and the config calls of `rboot-api.c` | |
| `RbootWrite`, `RbootWrite_proofs` | `rboot_write_init`, `rboot_write_flash` | |
| `Cron`, `MCCron`, `Cron_proofs` | `cron.c` | |
| `HttpClient`, `HttpClient_proofs` | `httpclient.c`, with espconn as far as it is used | |
| `KeyDriver` | `key_init` and `key_intr_handler` of `key.c` | `OpenPlug` |
| `OpenPlug`, `MCOpenPlug`, `OpenPlug_proofs` | `open-plug`: `main.c`, `param.c`, `relay.c`, `xkey.c` | |

An operator with a suffix after the name of another (`Wrap_LateRollback`) is a
faulty variant of it; no action uses it.  It shows that a property notices the
mistake: put in the place of the operator, TLC finds that property violated.

### RingBuf

`buf`, `p_r`, `p_w` and `fill_cnt` are the fields of `RINGBUF`, pointers as
offsets from `p_o`; `last` is the latest call with its result, which is what a
caller sees.  The array starts with any content, as `RINGBUF_Init` leaves it.

### MsgQueue

`ring` is the byte FIFO that `RingBuf` is proved to implement.  `PROTO_AddRb`
adds a whole frame or the part that fits.  The parser is a record that every
byte steps; its flag `isBegin`, which `PROTO_Init` forgets, starts with any value.
`pc` is where the retry loop of `MQTT_Publish` (the same in `MQTT_Subscribe` and
`MQTT_Ping`) stands: the loop is split into its calls because its termination is
in question, and nothing else runs in between, as in the code.

What the ring holds as messages is not read with the model's parser: `Messages` is
an independent reader (`ReadFrom`), which knows BEG, END and the escaping and
nothing of buffers and flags, and which the abstraction to `LossyFifo` uses.  That
the parser finds what the reader sees is part of the proof.

### MqttClient

One action per handler, each from its entry to its return.  `connState`,
`mqttTimer` (armed or not), `keepAliveTick`, `reconnectTick`, `sendTimeout`,
`pending` (`mqtt_state.pending_msg_type`) and `pCon` are the fields of
`MQTT_Client`; `msgQueue` holds message types, oldest first; `taskQueue` is the
event queue of the task, shared by all clients.  A *link* is an espconn: `MQTT_Connect`
allocates a new one and overwrites `pCon`, so callbacks of older links still
arrive, and each of them acts on the client whichever link it is about, as the
code does by taking the client from `pCon->reverse`.  `link`, `cbs` (links whose
receive, sent and disconnect callbacks are registered), `sendBuf` and `dns`
(queries under way) are the state of espconn and of the resolver.

The zero-length message that `MQTT_Subscribe` queues after `mqtt_msg_subscribe`
failed is a message of its own, `"EMPTY"`: the task reads its type from memory
it did not write, so any type may become the pending one.

### RbootConfig

The config sector is a buffer and the number of words of it that were written
before the power went; what was not written reads as `0xff`.  `pc` walks through
`find_image` and, while the application runs, through `rboot_set_config`, with an
erase and a write as separate steps, so that a power failure can come before,
between and inside them.  An image slot is good or bad.  The application updates
the slot it is not running from, going by `rboot_get_current_rom`, as the
repository's documentation tells it to.  `chksum` is the build option
`BOOT_CONFIG_CHKSUM`: chosen at the start, never changed, so that one run checks
both builds.  What the application sets with `rboot_set_config` is a mode, the gpio's
rom and a count of 0, 1 or 2; `rboot_set_current_rom` refuses a rom the count does not
have.  A count that was never written is `0xff`, and the index of the search,
which starts below it, is then no index of the roms: a slot outside them is one whose
image is refused.

### RbootWrite

The flash is an array of cells; a byte of the image is its position in it, so
that a misplaced byte is seen.  A write onto a cell that is not erased yields
`STALE`.  A write may fail after any number of words.  `SlotSize` is what there is for
an image: the distance of the two addresses in `roms`.  `NeighboursUntouched` speaks of
the slot and not of the sectors the code computes.

### Cron

The lists are what they are in C: nodes on a heap, each with a `next`, and a
`first` and a `last` pointer per list.  `free()` leaves a node's content in place
until `malloc()` hands it out again, so a pointer that was not updated reads what
the code would read.  The timer function is cut at the calls of job and timeout
functions: `walk` is the list it walks and `current` its pointer into it; while
`inFn` holds, the application may make any of the calls, as it may between ticks.
`due` collects the nodes a tick has to serve, `since` counts the ticks since a job
was called.

* `ms_left` is unsigned; a timeout that has fired counts down from 2^32 - 1.  The
  value `Wrapped` stands for all of those: it does not come down again.
* The counter is kept up to one above the longest period: beyond that the code
  restarts it as soon as a job is listed.
* Identifiers of jobs are their nodes; that the `char` they are counted in wraps
  after 255 jobs is left out, as is a period of zero, which divides by zero.
* `TailRemovals` and `OwnRemovals` are rules for the application: with the first
  `FALSE` it never removes the last node of a list, with the second `FALSE` a
  function never removes the node it was called for.  The code does not check them.
* A tick is one firing of the timer, every second, although the periods are
  written in milliseconds: a job set to `cron_add_job(0, 1, 0, 0, fn)` runs every 1000
  ticks.

### HttpClient

A request is in `phase` `"new"`, `"dns"`, `"link"` or `"freed"`; `link` is the state
of its espconn and the node that espconn keeps for it, `"closing"` and `"failed"`
being posted events that `espconn_Task` delivers as `http_disconnect_callback` and
`http_error_callback`.  A response is a sequence of numbered segments, so that
one that is missing or misplaced is seen; `buffer` is what the request has
collected and `discarded` that its first byte was cleared.  `answers` lists the
statuses the callback was called with, `cut` says that something other than
the end of the response ended it.  `espconn_connect` may fail (no route, or
`MaxCon` connections), a close may find no memory for its FIN, and `os_malloc`
may fail for the growing buffer.

### KeyDriver and OpenPlug

`age` is the time since `last_time` in ticks, or `None` when `last_time` is 0;
`steady` is a history variable: for how many ticks the key has really been seen
pressed.  The handler reads the level and clears the status bit in two steps; an
edge that falls between them is cleared unseen.  `missed` is history too: the
handler took the key for pressed, and its clear took the edge of the release.

In `OpenPlug` a handler is a list of steps, `todo`: set the status or a setting in
RAM, erase, write, switch and publish.  A handler starts when the one before
has returned, so that the steps of two are never mixed, but for the factory reset:
`system_restart` may return, and other handlers run until the restart comes (`Ready`).
A reset may come between and inside the steps, erasing or writing part of the sector.  A reset is cold (the power
failed and the RTC memory with it) or warm.  `cloud`, `known` and `since` are history:
the status this connection was told last, the settings since the plug was last settled, and
what the boots since power-up did.

## Runs

| Run | Question | Result |
|---|---|---|
| `ring_buf` | Do three separate fields behave as one FIFO? | holds |
| `msg_queue` | Do messages survive frames that fail half way, and do publishers return? | holds |
| `mqtt_ip_host` | Numeric host: timer, CONNACK and wake-ups in every order of callbacks of two links | holds |
| `mqtt_dns_host` | Host name, failing closes: is a reconnect attempted, is a waiting queue woken, whatever the network does? | holds |
| `mqtt_two_clients` | The same for two clients | **violated** |
| `rboot_config` | Both builds, both modes, counts down to none, three power failures anywhere: does some rom boot, is the running one safe, is user data kept, does the search stay within the roms and end? | holds |
| `rboot_write` | Chunks of every length below a sector, an image that fills its slot: is it written whole, and nothing else touched? | holds, but for the sector behind a full slot |
| `rboot_write_sector` | Chunks up to a whole sector, which a comment allows | **violated** |
| `cron` | Job functions that change the lists being walked: is a job lost, skipped or late? | holds |
| `cron_tail` | The same when the last job may be removed | **violated** |
| `http_client` | Two requests under failures, timeouts and refused segments: is each answered, once, with what the server sent? | holds |
| `open_plug` | Key, messages, voice control, resets after any step, edges at any time: does the plug come to rest as it should, and what does a lost edge cost? | holds; no more than the interrupt that follows |

### Bounds, and why they are enough

* `ring_buf`: four slots and three byte values.  The pointers wrap at different
  times, the ring gets full and empty at every offset.  The theorem lifts the bound.
* `msg_queue`: a ring of nine bytes and messages of two to eleven framed bytes,
  with all three bytes that are escaped, and one that fills the parser's buffer and
  never fits the ring.  Up to four frames fit; a partial frame may be followed by
  whole ones.  The theorems lift the bounds.
* `mqtt_ip_host`, `mqtt_dns_host`: one client with two links, so that the callbacks
  of one old link meet the current one; when no address is left a client cannot
  connect (`Fresh(c) = {}`), which is the exhaustion of the heap.  Timeouts of one or
  two ticks distinguish "due" from "not yet"; one queue frame makes every publish
  meet a full queue, two (`mqtt_ip_host`) make it evict one of several.  A segment
  from the broker holds one CONNACK, a PUBLISH followed by another packet,
  or a packet that is only acknowledged.
* `mqtt_two_clients`: two clients that only connect and fail are enough to
  displace an event.
* `rboot_config`: two roms, three power failures (the second and third hit the
  recovery from the first; the theorems lift the bound).  The sector has six words: four of the config, the
  checksum and the rest.  `ErasedByte` is 4 instead of 255: it only needs to be
  above every rom number and count, and the search must not stop at it by chance.
* `rboot_write`: sectors of four words, an image of five sectors in a slot of five and
  chunks of 1 to 15 bytes: every alignment of a chunk's two ends to words and
  sectors occurs, the end of the slot among them.  The theorems lift the bound.
* `cron`: three nodes for both lists, periods 1, 2 and 3 (3 does not divide 2, and
  2 not 3, which is what the restart of the counter gets wrong), timeouts of zero,
  one and two ticks under two names (the theorems lift all of these).  Three nodes make a list with a first, a
  middle and a last; free nodes are handed on at once, and the run is symmetric
  in them, since the code never compares addresses.
* `http_client`: two requests, two connections, responses of one and of three
  segments against a buffer of two, so that one fits and one does not.  The
  safety theorems lift all of it.
* `open_plug`: a short press of one tick, a long one of more than two, eight messages
  (each kind, with a flag that is set to the value of erased flash and a name that
  starts like a command) and as many resets as there may be.  The sector has four words, which a reset in the middle of a write tells
  apart: status, two of the name, flags.

A client that was deleted, and a boot loader that found no rom, stop: the runs
that contain them do not check for deadlock.  The other runs do.

### Fairness

* The loop of `MQTT_Publish` runs to its end: handlers are not preempted
  (`WF(Loop)`).
* The kernel delivers posted events and runs armed timers: `WF(MQTT_Task)` and
  `WF(mqtt_timer(c))`.
* Nothing is assumed of TCP, the resolver, the broker or the application: a
  callback may never come.  That is why `ReconnectAttempted` promises a new
  *attempt* and not a connection, and why nothing is promised from
  `TCP_CONNECTING`: the results of `espconn_connect` and of the DNS query are
  ignored by the code, and a client whose attempt failed at once stays there.
* A request is answered (`EveryRequestAnswered`) because the resolver gives up by
  itself, armed timers fire and posted events are taken: `WF(ResolverAnswers(r))`,
  `WF(http_timeout_callback(r))`, `WF(espconn_Task(r))`.  Nothing is assumed of the server.
  The two ways in which the code itself loses the answer are in the property: a
  close that fails when the only timeout comes, and a failed `espconn_connect`.
* The boot loader runs while the power is on (`WF(FindImage)`), and `MaxCuts`
  bounds the power failures.

## What the runs found

1. **Two clients lose events** (`mqtt_two_clients`).  `lib/mqtt/README.md:11` promises
   connections to several hosts; `mqtt.c:44` gives all clients together one event
   slot.  The `TCP_RECONNECT` event of one client is dropped while the slot holds
   one of the other, nothing posts it again, and that client never reconnects.
   For one client no wake-up is lost (`NoLostWakeup`, proved).
2. **A first chunk of one sector** (`rboot_write_sector`).  The comment above
   `rboot_write_flash` allows 4k per call.  A first chunk of exactly that length ends on
   the boundary: the code erases the following sector only and writes over
   flash that was never erased.
3. **A job behind a freed one** (`cron_tail`).  `cron_remove_job` frees the last job
   and leaves `last` pointing at it; the next `cron_add_job` compares with the freed
   node and links the new job behind it or nowhere.  It is in no list and never
   runs.  `cron_remove_timeout` has the same gap.

Disagreements that the models contain and no run is spent on:

* `lib/mqtt/README.md:10` promises keep alive pings.  `MQTT_Disconnect` disarms the timer;
  if the connect callback comes before the task takes the event, it overwrites
  `TCP_DISCONNECTING` (`mqtt.c:462`), and the session comes up with no timer.
* `readme-api.txt:24` says `rboot_get_current_rom` returns the running rom.  After a gpio
  boot (`rboot.c:280`) it returns the configured one: `CurrentIsRunning` and
  `RunningIsIntact` exempt such boots, for an update after one may overwrite the
  rom it runs from.
* `httpclient.h` says that in case of a TCP error the callback is called with
  `HTTP_STATUS_GENERIC_ERROR`.  When `espconn_connect` fails, whose result
  `httpclient.c:465` ignores, it is never called; when a connection is reset after
  part of the response, it is called with the status of that part
  (`http_error_callback` does not look at the error).
* `param.c:78` of the plug says "Warm boot up, use the status saved in flash!".  The boot
  that finds the sector erased does not leave the mark (`param.c:75` is on the other
  path), so that with `cold_on` set the next restart switches the plug on.
* Naming the plug "office", or anything that starts with "on", "off" or "ota", is
  taken as a command too (`main.c:180`, `187`, `287`).
* A release between `key.c:319` and `key.c:326` is lost: `last_time` stays, and at the
  next edge the key counts as held since then.  A press that has only begun may so be
  a long one, which restores the factory settings.  `PressesAreReal` says that this is
  all: the interrupt after the lost release is the only one to take a press for more
  than it was.
* An image that ends on a sector boundary has the next sector erased as well
  (`rboot-api.c:132`).  When it fills its slot that is the first sector of what lies
  behind: the other rom, or the data of the application.  `NeighboursUntouched` allows
  that one sector in that one case.
* `rboot_set_config` accepts a count of 0.  If the first rom is bad then, `rboot.c:309`
  counts down from -1 and never meets `current_rom`; a count of 1 leaves nothing to
  fall back to.  `FindImageEnds` and `NeverBricked` name the two.  Without the checksum
  option a torn sector reads as a count of `0xff`, and `rboot.c:297` looks for roms
  beyond the array: `TypeOK` keeps the index within it for the other builds.
* A job function that removes its own job and adds another makes the tick skip the
  jobs behind it; `cron_clear` in a job function leaves the walk on freed jobs; and
  a job may be called as late as after twice its period less one tick.

What holds, and was not obvious: partial frames never reach the parser out of
step, so its uninitialised flag never matters; one event slot is enough for one
client; three power failures never keep a build with the checksum option from
a rom, as long as it counts two; the running rom is not overwritten even in the default build,
which accepts a config torn by a power failure; a response the application gets
has no hole even when a segment was refused and the close behind it failed,
because the cleared first byte stays cleared; cron's walks stay sound under
everything job functions may add and remove but their own node and the last;
and the plug's four copies of its status agree again after any handler, although
voice control sets them in another order than everything else.

## Proofs

Every invariant and every action property the runs check is a theorem, and so are both
refinements; what is left to TLC is liveness.

| Theorem | Says | Invariant it rests on |
|---|---|---|
| `RingBuf_proofs!PointersInRange`, `PointersCorrect` | `[]TypeOK`, `[]PointersAgree` | the two together are inductive |
| `RingBuf_proofs!RingImplementsFifo` | `Spec => ImplementsFifo` | the same; a put appends to `Content`, a get takes its head |
| `MsgQueue_proofs!RingNeverOverfills`, `ParsesStartAtFrames`, `FramesStayApart` | `[]TypeOK`, `[]HeadIsFrameStart`, `[]EndsAreFollowedByStarts` | `TypeOK` and a boundary predicate on the ring: every frame END is followed by a BEG or by nothing |
| `MsgQueue_proofs!QueueImplementsLossyFifo` | `Spec => ImplementsLossyFifo` | `RInv`: the same, and what the reader finds in the ring are messages (`QueuedOnly`) |
| `MqttClient_proofs!QueuesStayInTheRing` | `[]TypeOK` | the types, with those of the answers to a segment of any length |
| `MqttClient_proofs!SessionsAreDisciplined`, `ConnacksFindTheirConnect` | `[]TimerDiscipline`, `[]ConnackFindsConnect` | with the control types and `DeletedIsQuiet` |
| `MqttClient_proofs!DeletedStaysDeleted` | `NoReconnectAfterDelete`, if the host is numeric | a deleted client has no timer and no query under way |
| `MqttClient_proofs!OneClientWakes` | `[]NoLostWakeup`, if there is one client | every action that makes work for the task posts, and a full queue already holds an event of the only client |
| `RbootWrite_proofs!ImageIsWritten` | `[]ImageInFlash`, if `MaxLen < SECTOR_SIZE` | `WInv`: the held-back bytes are the next ones of the image, and the rest of the current sector is blank |
| `RbootWrite_proofs!NoByteIsLost`, `NeighboursAreSpared`, `WritesStartOnWords` | `[]NothingLost`, `[]NeighboursUntouched`, `[]TypeOK`, for chunks of any length | `Progress`, the part of `WInv` about the held-back bytes, with the types and `Inside`: nothing is touched behind the sector in which what was received ends, which lies in the slot (`InsideTheSlot`) |
| `RbootConfig_proofs!BootLoaderRecovers` | `[]TypeOK`, `[]NeverBricked`, for any number of power failures | `IInv`: a config with a checksum is whole, and `Recoverable` says which slot still holds a good image in each phase |
| `RbootConfig_proofs!UpdatesSpareTheRunningRom`, `CurrentRomRuns` | `[]RunningIsIntact`, `[]CurrentIsRunning`, without the checksum too | `Run`: what runs is what the sector names, and the image being written is the other one |
| `RbootConfig_proofs!RewritesSpareTheUserData`, `RomsAreInTheConfig` | `UserDataKept`, `[]TypeOK`, in every build | `UInv`: user data that is in the sector is in the buffer too, from when the sector was read until it is written again |
| `HttpClient_proofs!RequestsAreFreedOnce`, `BuffersAreBounded` | `[]FreedOnce`, `[]TypeOK` | `Once`: what of timer, link and answers goes with each phase |
| `HttpClient_proofs!ResponsesAreGenuine`, `ResponsesAreWhole` | `[]NoHoles`, `[]WholeUnlessCut` | `Gapless`: the buffer is the latest run of segments; only an undiscarded one that starts with the first is answered as a response |
| `Cron_proofs!CountersAndPointersAreInRange`, `ListsStayChains`, `AddedNodesAreListed`, `TicksServeAllThatIsDue`, `JobsAreCalledInTime` | `[]TypeOK`, `[]ListsAreChains`, `[]NothingLost`, `[]DueAreServed`, `[]CalledInTime`, if the application removes neither the last node of a list nor its own | `CInv`: two sequences that are the lists (`Shape`), what is due lies ahead of the walk (`Walking`), and how long each job can have waited, given the counter (`InTime`) |
| `OpenPlug_proofs!TypesHold` | `[]TypeOK` | `SInv` and the types of the driver |
| `OpenPlug_proofs!SettledStatesAreSaved`, `ResetsInventNothing`, `WarmBootsKeepTheStatus` | `[]SettledIsSaved`, `NothingInvented`, `WarmBootKeepsStatus`, for any number of resets | `SInv`: what the rest of the running handler will do (`PlanInv`), and that what is or will be in the sector is in `known` (`KnownInv`) |
| `OpenPlug_proofs!PressesWereHeld` | `PressesAreReal`, wherever edges fall | `Counting`: while `last_time` is set, no edge is pending and none was missed the key is down, for at least as long as it counts; nothing counts before `key_init` |

The assumptions are the `ASSUME`s of the modules: a ring of at least two bytes
(`RINGBUF_Init` checks it), messages of bytes that fit the client's buffer
(`out_buffer`, `mqtt.c:703`, is as long as the parser's, and every message is built
in it), sizes that are natural numbers, sectors made of whole words, an image that
starts on a sector and fits its slot and the flash, and for cron a finite heap and finitely many
periods and delays, none of the periods 0.

The hypotheses written in a theorem are needed.  The runs `mqtt_two_clients`,
`rboot_write_sector` and `cron_tail` show what happens without them; a DNS answer
after `MQTT_DeleteClient` connects a deleted client; and a function that removes its own
node hands the walk a freed one.  (Cron's `TypeOK` has its hypotheses only because it shares the invariant of
the others.)

### The arguments

**Message queue.**  Only whole frames and prefixes of frames are ever put into the
ring.  The reader of
`Messages` and the parser of the code are two recursions along the same bytes.  After
a BEG both have forgotten what was before (`ReadAhead`, `ParsedAsRead`), so it does not matter
that the flag of the parser was never initialised; between BEG and END both collect
the same bytes, because escaping leaves no delimiter in them (`EscapedIsClean`), and undo
the same escapes (`ReadEscaped`); a frame cut short gives neither of them a message.  So
appending a whole frame appends one message to `Messages` and a part of one none
(`AddMessages`), taking bytes up to the first END takes one off its head
(`TakeMessages`), and each step of the queue is one of `LossyFifo` or none
(`StepRefines`).

**Flash writer.**  The code erases one sector per
chunk, the one in which the words it writes end.  Whole words of a chunk
shorter than a sector, with the bytes held back, are at most a sector long
(`WordsFit`), so a write touches the current sector and at most the next
one (`SameOrNextSector`); the current one is already blank from the write position on
(`BlankAhead`), the next one is erased now (`EraseMakesRoom`).  At the very first
chunk nothing has been erased yet, and it must not end beyond the first sector:
that is where a chunk of exactly one sector fails.  Which bytes are held back
and which cells are touched at all does not depend on what was erased: that part
needs no bound on the chunks (`ChunkGoesOn`, `ChunkStaysInside`).

**Boot loader.**  It is safe without the bound on power failures:
an update marks its slot bad before it writes it and the sector still names the
other, so wherever the power fails one slot that the config can reach is good.

**Cron.**  `CInv` asserts that a pair of sequences exists of which the heap is the
pointer form; each call of the application is shown to replace it by another pair
(`LinkedInserted`, `LinkedRemoved`), and the walk's pointer to be at a place in the
new one that has all that is due behind it (`Walking`).  `PathIsTheList` connects the
sequences with `Chain`, which follows the pointers.  For `CalledInTime`, a job is called
when its period divides the counter, and the counter restarts when it has reached the
longest period.  A job whose period the counter has reached was called at the last
multiple; one whose period it has not reached since the restart was called less than a
period before the restart (`Bound`).  Either way it has waited less than twice its
period (`BoundIsTwicePeriod`), and adding, removing and restarting keep that
(`BoundKept`).

**Plug.**  A handler in progress is a sequence of steps, and `PlanInv` lists what such
a rest can be: of a boot, of a factory reset, or of any other handler, with the restart
that is still to come behind it.  Of the last
kind it says that its writes come after its settings (`WillBeSaved`), or that all is
saved and only publishing is left, and that one value is what it leaves in the status, on the
relay and on the platform (`EndsWith`): when nothing is left, all copies agree.  A torn
sector is a prefix of one write, and whatever is about to be written is already in
`known` (`KnownInv`), so a boot that reads the sector finds only known values and
erased ones.
For the key, a press is measured from the interrupt
that saw it go down, and `key_init`, which clears a pending edge, would break
the count if it could run in the middle of one.  It cannot, because no handler
but `setup` contains it (`Quiet`) and a reset clears the count before
(`NotYetInit`).

### Within the prover's reach, and beyond

Induction over natural numbers and sequences is done with sets: a set of numbers that
holds 0 and every successor is all of `Nat`, because a non-empty set has a least
element (`WFMin`, `NatLessThanWellFounded`; lemmas `Least`, `Induction`,
`SequenceInduction`).  A recursive function is reasoned about once it is known to
exist (`RunExists`, `RunsAgree`).  `RECURSIVE` operators are out of reach, and the
modules with theorems do without them.

Only model-checked is what must eventually happen: `PublishReturns`,
`ReconnectAttempted`, `StalledQueueWakes`, `FindImageEnds` and `EveryRequestAnswered`.
Liveness under fairness needs `ENABLED`, which the prover does not have.

## What is left out

* SSL: `MQTT_SSL_ENABLE` is not defined in this repository.
* Undefined behaviour after an espconn is freed while lwIP or the resolver
  still points to it: such a link is `dangling` in the model and takes no further
  step.  Likewise a DNS answer for a client whose `pCon` is `NULL`.
* `client->ip` stays zero, so a host name is resolved anew each time: the cache
  lookup of `lib/lwip/core/dns.c` is commented out.  The synchronous answer of
  `espconn_gethostbyname` is therefore not modelled.
* A close after a send on a link whose close is already posted: `espconn_sent` overwrites
  the state that keeps `espconn_disconnect` from closing twice (`espconn.c:382`, `957`),
  and the second event would find the node freed by the first.
* The outgoing queue of the session counts messages and not bytes.  How many it drops
  to make room is any number, and it may drop all and refuse the new one; what the
  bytes decide is in `MsgQueue`.
* The application's callbacks are not nested in the handlers that call them: what
  they do to a client is modelled as a call that follows.
* A retry of `rboot_write_flash` after it failed: the attempt ends there.
* The contents of MQTT packets: types only.
* Real time: a tick is one firing of the timer.
* Cron's uptime clock, which nothing else reads; the text handling of the HTTP
  client (URLs, chunked decoding); HTTP over SSL, whose espconn is a binary library.
* The plug's LEDs, its replies to `get_` messages, and the start of an update.
  `key_short_cb` and `key_long_cb` run as handlers; the pull-up and pull-down variants
  of the key driver have no user.
* Vendored code, which is most of the repository: it is modelled by how the
  code above uses it.

The project is kept to a dozen runs and forty checked properties, so that all of it
can be checked again after every change: what the plan adds takes the place of
something whose question a theorem has settled.

## Plan

What was planned for the components above is done.  What would come next:

1. `SoftUart`: the receive ring with the interrupt handler's steps interleaved
   with those of `Softuart_Read`, shown to implement a bounded FIFO that
   loses only the newest byte; to prove: for every ring size.
2. `Curtain`: motor, position timer and the encoder interrupt, whose count moves
   between a comparison and an assignment.
3. An update from end to end: `RbootWrite` into the slot that `RbootConfig` then
   boots, with a power failure anywhere; its proof can rest on `ImageInFlash` and
   `NeverBricked`.
4. The session over `LossyFifo` instead of its own queue of message types, so that the
   refinement of the queue carries over to it.
5. `MqttMsg`: builders and getters of `mqtt_msg.c` as functions, checked against
   a reference reading of the packet format over bounded lengths; `UdpSrv`: the
   two buffer chains against a byte sequence.
