# A TLA+ model of the serial core of the LPC54S018 SDK

The SDK is a tree of about 11 000 files. Most of it is vendored (FreeRTOS, lwIP,
mbedTLS, FatFs, CMSIS-DSP), generated (pin and clock files, project files) or
demo code. Its own logic is in two directories:

- `src/devices/LPC54S018M/drivers`: one `fsl_*.c` per peripheral. The interesting
  part of each is its *transactional* layer: a handle shared between the
  application and an interrupt handler.
- `src/components`: lists, serial manager, timer manager, OS abstraction, memory
  manager, common task. Layers on top of the drivers, shared between several tasks.

Modelled are the USART driver `fsl_usart.c` with its FreeRTOS wrapper
`fsl_usart_freertos.c` (the SDK's hardest concurrency: two threads, one handler
and the hardware, with read-modify-write of a shared register; the SPI and I2C
drivers repeat its shape), and three components that several tasks and handlers
share: the generic list, the serial manager and the timer manager.

## 1. Inventory

| Component | State it keeps | Operations | Interacts through | What makes it correct |
|---|---|---|---|---|
| USART driver, `drivers/fsl_usart.c` (modelled but for its blocking and configuration functions) | `usart_handle_t`: request (`rxData`, `rxDataSize`, `rxState`), transfer (`txData`, `txDataSize`, `txState`), ring buffer (head, tail, size). Registers: both FIFOs, enabled interrupts, RX trigger level | Send/ReceiveNonBlocking, AbortSend/AbortReceive, Start/StopRingBuffer, TransferHandleIRQ | the handle and `FIFOINTENSET`, shared by thread and handler; a callback made from both | bytes in order, once; every lost byte announced; idle callbacks mean what they say; busy states end |
| FreeRTOS wrapper, `drivers/fsl_usart_freertos.c` (modelled but for creation and deletion) | two mutexes, two event groups, two transfers | Init, Deinit, Send, Receive, the driver's callback | the driver; the timer daemon, which sets the bits the handler asks for | a call returns; success means data; a call leaves no request behind |
| FLEXCOMM dispatch, `drivers/fsl_flexcomm.c` | table of handler and handle per instance | SetIRQHandler, one ISR per instance | calls the driver's handler | written once, before use |
| Generic list, `components/lists` (modelled) | doubly linked intrusive list with size and capacity; back pointer from element to list | add at both ends and in front of an element, remove head or element, next, previous, sizes | critical sections; elements embedded in the user's objects | abstract value is a sequence without repetition; size is its length; links agree with it |
| Serial manager, `components/serial_manager/serial_manager.c` (modelled with its part of the common task) | open handles, list of running writes, completed-write list, current reader, its own ring | open/close of read and write handles, blocking and non-blocking write/read, cancel, the task and the port's callbacks | port callbacks from interrupts; messages to the common task, which runs `SerialManager_Task` | each accepted write is sent once, in order, and called back once; a blocking write returns when its bytes are out; a reader gets each byte once, in order; a lost byte is announced |
| UART port and adapter, `serial_port_uart.c`, `components/uart/usart_adapter.c` (port modelled, adapter by its contract) | `tx.busy`, one byte of receive buffer; the adapter a copy of the driver's handle logic | send, receive, abort, ISR | registers; callbacks into the serial manager | one transfer at a time; an idle port has nothing to send |
| Timer manager, `components/timer_manager` (modelled but for low-power calls) | list of timers with remaining time and status, two counts, the hardware counter's programme | open, close, start, stop, the task that expires, the counter's interrupt | hardware counter, the common task's queue, callbacks that call back | the counts are exact; the counter is set for the next expiration; a timer that is on fires, and not early |
| Common task, `components/common_task` (as its users see it) | a bounded queue of messages | post, task loop | the OS queue; callbacks of serial and timer manager | a message that finds room is handled; one that finds none is refused, and its sender does not look |
| OS abstraction, `components/osa` | bare-metal: task list, semaphore and event counters, timeouts on a millisecond tick; FreeRTOS: thin wrappers | create/wait/post/destroy of each object | everything above it | wait returns on a post or a timeout, never both |
| Memory manager, `components/mem_manager` | pools of equal blocks, free lists | add pool, alloc, free | lists, critical sections | a block is free or owned; alloc returns a block that is large enough |
| USART DMA driver, `drivers/fsl_usart_dma.c`, `fsl_dma.c` | busy states, channel table | send, receive, abort, callbacks | DMA descriptors and interrupts | busy states end exactly once |
| SPI and I2C drivers | handle and bus state machine | transfers in master and slave role | interrupts, DMA, FreeRTOS wrappers | as for the USART, with a bus protocol |
| Other peripherals, clocks, security blocks, boards, middleware | registers or vendored state | configuration | - | not modelled (section 7) |

### What is hard in this code

- **A handle shared with an interrupt.** The driver has one critical section
  (`fsl_usart.c:720`). Every other store of a thread can be separated from the
  next by a whole run of the handler: `txDataSize` and `txState` (`:587`, `:589`),
  `rxDataSize` and `rxState` (`:768`), the two halves of `FIFOINTENSET |= ...`.
- **One interrupt, four sources.** The handler serves both directions whichever
  source raised it, so a send interrupt can finish a receive request and the
  other way round.
- **Two places where received bytes are.** A request is served from the ring, by
  the handler, or by both, and the order of the bytes must survive.
- **A notification that is itself queued.** The wrapper's callback only posts a
  command to the timer daemon, which sets the bit later, or never if its queue is
  full; the interrupts of the timer and serial manager post to the common task in
  the same way, and ignore a refusal.
- **A test before the critical section.** `LIST_RemoveElement`
  (`generic_list.c:301`), `SerialManager_CancelWriting` (`serial_manager.c:1156`)
  and the writer that found the running list empty (`:657`) act on what they saw
  before they disabled, or after they enabled, interrupts.
- **Objects that return to their owner before the callback.** The serial manager's
  task frees a handle and then calls back; the owner may use it again in between.
- **Tests with interrupts enabled.** The serial manager's task looks at the open
  handle, its buffer and its counts one after the other (`serial_manager.c:432` to
  `:441`), at every message, whatever it was sent for.
- **A loop that never yields.** A blocking read or write spins (`:668`); under fixed
  priorities whatever it waits for must not run below it.
- **A walk that leaves its critical section.** The timer task calls back in the
  middle of its list, and any timer may be started, stopped or closed meanwhile.
- **Limits.** The driver's ring keeps one slot free and its indices are `uint16_t`
  (`fsl_usart.h:179`); a full ring gives up its oldest byte; the FIFO overflows.

`PROJECT.json` lists the single hazards with their lines and the properties that
cover them.

## 2. Modules

| Module | Stands for |
|---|---|
| `RxRingBuffer` | index arithmetic of the driver's ring: length, full test, wrap of `uint16_t` |
| `UsartHardware` | the block as the driver sees it: FIFOs, shifter, interrupt enables (external: derived from the register accesses) |
| `UsartDriver` | the transactional interface: receiving thread, sending thread, handler |
| `ByteStream` | abstract specification of one direction |
| `UsartProperties` | type, safety and liveness of the driver; refinement mappings to `ByteStream` |
| `UsartRtos`, `UsartRtosProperties` | the FreeRTOS wrapper, composed with the driver, and what it promises to its tasks; event groups and daemon are external |
| `GenericList` | the linked list, its callers and handlers |
| `SerialManager` | the writing half of the serial manager, the UART port, the task |
| `SerialManagerRead` | the reading half, its ring, the task |
| `TimerManager` | timers, the hardware counter and its interrupt, the task and its queue |
| `MCGenericList`, `MCSerialManager`, `MCSerialManagerRead`, `MCTimerManager` | instances for TLC |
| `UsartTypeProofs`, `UsartSafetyProofs`, `UsartStreamProofs`, `UsartRtosProofs`, `GenericListProofs`, `SerialManagerProofs`, `SerialManagerReadProofs`, `TimerManagerProofs` | theorems |

Each component module ends with its properties, except the USART's, which are
modules of their own because two specifications use them. The operators under
"Wrong variants" are slips the code might have had. No definition uses them: put
in the place of the original, each makes the properties fail that it is listed
with in `PROJECT.json`, which shows that they depend on the code.

### USART driver

Variables carry the names of the handle's fields. `rxData` is not kept: received
bytes are appended to `received`, and `request` remembers where the stream stood.
A received byte is its arrival number, a sent byte its position in the stream of
bytes asked for, so comparing numbers compares order. Registers are
`UsartHardware`'s variables. History variables (`nIn`, `hwLost`, `flushed`,
`overrun`, `sent`, `asked`, `calls`) only record.

- *Threads* run one shared access per step, and only while no interrupt is pending
  or in service (`Runs`): on this single-core part an enabled source preempts the
  thread at the next instruction. `FIFOINTENSET |= mask` is a read step and a write
  step. Neighbouring stores that the handler cannot tell apart are one step, said
  so where it is done. The four stores of `StartRingBuffer` are four steps: with a
  direct request open, a send, or a ring that already runs, the handler runs between
  any two of them.
- *The critical section* of `ReceiveNonBlocking` is one step. The hardware may
  still move before or after it.
- *The handler* runs to its end, one pass of its loop in two steps (receive,
  send), callbacks in steps of their own, with the hardware moving in between.
- *Callbacks* do not call back into the driver. The wrapper's does not; an
  application callback that starts the next transfer is not modelled.

Receive and send functions are called by one thread each: the driver has no lock
of its own, and its wrapper serialises each direction with a mutex.
`RingMode` says how the ring is used: `"none"`, `"always"` (started before use, as
the wrapper does) or `"dynamic"` (started, also over a running one, and stopped
between other calls).

### FreeRTOS wrapper

`USART_RTOS_Receive` takes `rxSemaphore`, starts the request, waits for COMPLETE
or RING_BUFFER_OVERRUN, on an overrun aborts and clears COMPLETE, and gives the
mutex back. `USART_RTOS_Send` does the same with one bit, except that it takes
`txSemaphore` with a timeout of 0 (`fsl_usart_freertos.c:218`): a taken mutex is an
error return and no step. `Callback` appends a command to `pended` unless it holds
`QueueLen` of them; `Daemon` takes the first and sets its bit, waking the waiter
and clearing the bits for it. `DaemonPreempts` says whether tasks run while commands are
pending: most `FreeRTOSConfig.h` of the boards give the daemon the highest
priority, ten do not.

### Generic list

Pointers are functions: `head`, `tail` and size of each list, `next`, `prev` and
`list` of each element. An operation is one critical section and one step, but
for `LIST_RemoveElement` and `LIST_AddPrevElement`, which test before they disable
interrupts: they are two steps of a caller, and anybody else, a handler included,
may act in between, remove the same element or move it to the other list. Of a call
that finds its element in no list any more, the rest is not modelled (it follows a
null pointer, section 4): it stays pending while the others go on.

### Serial manager

*Writing.* The lists are sequences (`GenericList` is the reason they may be). A
critical section is one step, and so is the whole interrupt handler, from the
adapter's TxIdle to the start of the next write; the code of callers and of the
task is cut wherever another context may come in. `StartGet` to `StartSend` are
`SerialManager_StartWriting` and `Serial_UartWrite`; `Cancel`, `CancelQueued`,
`CancelComplete` and `CancelFirst` are `SerialManager_CancelWriting`, with `Close`
after them `SerialManager_CloseWriteHandle`. The adapter is
external: it holds one transfer, refuses a second, and ends each with one
interrupt. The task is the common task: `serial_manager.h:133` compiles the serial
manager so, without an event or a task of its own. `posted` counts its messages in
the queue, of which `QueueSize` fit; `Post` is refused by a full queue, and nobody
looks. `usage`, chosen once, says who owns which handle, which ones block, which may
be cancelled, which callers run before the others (`high`: fixed priorities, so that
a lower one stands still while a higher one is in a call, spinning included),
whether the task runs before every caller, whether messages of reads come as well,
and whether other components fill the queue (`crowded`).

*Reading.* The ring is the sequence of arrival numbers in it. `RxCallback` is the
whole interrupt: the byte, the overwritten one, what the request takes, the
announcement of the rest. `Read`, `TryRead` and the rest are the application;
`InstallRxCallback` is a call of its own, after `OpenReadHandle`. The task has a step
for each of its three tests, one that takes the request and one that calls back;
the interrupt, and the application unless its priority forbids, come between any two
of them. A message of a write makes it look as well. A handle has at most one
request. `usage` says which of task and application goes first, if any, the modes of
the requests, whether the application cancels, whether writes post messages, and
`crowded`.

### Timer manager

Time is in ticks of the counter. The walk of `TimerManagerTask` is one critical
section, left around each callback: one step per timer, during which `Tick` may
happen and nothing else. `HalTimerCallback` is the interrupt, `irq` that it is
pending. `left` keeps the `next` pointer of elements taken out during a callback,
which the walk still follows. `TM_Start` is two steps, since it enables the timer in
a critical section after it has set its fields outside one. `posted` counts messages
in the common task's queue, of which `QueueSize` fit. History: `age` is how far a
timer is from its last due expiration, `alone` that it has had the counter to
itself. A timeout may be longer than the HAL's maximum, `MaxTimeout`, at which the
walk caps the interval (`:295`). `IrqOutlivesReset` is whether an interrupt that is
pending when the task resets the counter is still served, which the source does not
settle; `ReopensInCallback` whether a timer that the walk still has to go through
(the one whose callback runs, or the next) may be closed and opened in one callback.

## 3. Runs

Constants are small where only comparisons matter, and large enough that the case
in question happens. Runs that pass:

| Run | Distinct states | Question |
|---|---|---|
| `usart_ring_duplex` | 2.4 million | both directions and aborted sends at once, with a ring: account of losses, meaning of the callbacks, refinement of both streams |
| `usart_direct_rx` | 6 400 | no ring, trigger level 2: states agree with the request, a request longer than the level is served to its last byte, the handler does not starve the thread |
| `usart_dynamic_ring` | 3.0 million | ring started, started again and stopped under requests and a send: order and losses |
| `rtos_receive` | 16 000 | two receiving tasks, overruns, daemon above them: success means data, nothing left behind, every call returns |
| `rtos_duplex` | 107 000 | two senders and a receiver, daemon at task priority: Send returns, after its bytes are out; a sleeping receiver has its wake-up coming |
| `generic_list` | 62 700 | two lists, one with room for two, three elements, two callers and handlers that race for them: the lists stay lists, each operation acts where its name says |
| `serial_manager` | 55 900 | two writers of one priority, blocking or not, in every mix; of two, of which the upper never blocks; a crowded queue; one handle cancelled, closed and opened |
| `serial_manager_read` | 71 700 | bytes against reads, tries, cancels, closes, messages of writes and the task |
| `timer_manager` | 126 500 | two timers, fast, slow and slower than the counter can count, repeating and single shot, operated at any moment, also from callbacks |

Runs that end with a counterexample (section 4): `usart_send_storm`,
`serial_cancel`, `timer_early`.

**Bounds.** *USART:* a FIFO of 2 overflows, and one handler run drains more than one
byte; a ring of 3 slots holds 2 bytes, so it is empty, full, wrapped and overrun
(the wrapper's runs, which are about requests, have a ring of 2 slots); requests of
1 to 2 or 3 bytes are shorter than, equal to and longer than what the ring or the
trigger level holds, and a send of 3 does not fit the FIFO; where calls of one
direction can interfere with each other there are two of them (the dynamic ring has
one request, beside any number of starts and stops). `IndexMod` is 4, just above the ring sizes used; in the dynamic ring, whose head may run past the end
while the size is 0, it is 8. `MaxIn`, `MaxLen`, `MaxRecv`, `MaxSend`, `MaxAbortRx`,
`MaxAbortTx` and `MaxCalls` bound the counters; the program may stop when they are
used up, hence no deadlock check. *List:* three elements have a middle one; the
bounded list is full with two of them. Two callers suffice for one to be in the
middle of a call while the other acts. No counter, no bound; no deadlock check,
since a list need not be used. *Serial manager, writing:* three handles, of which
two belong to one caller, so that one is sent, one queued and one completed at the
same time; a queue of two messages is full of the manager's own. The state space is
finite without a bound, and deadlock is checked. *Reading:* a ring of 3 holds 2
bytes, requests of 1 to 3 are below, at and above that; 5 bytes overwrite after a
request has been served. *Timers:* periods of 1, 2 and 3 ticks and a counter of 2,
so that one timer expires several times in the period of the other, and the longest
takes two intervals of the counter. `timer_early` has two timers of the same period,
below the maximum, so that its trace needs no such interval. Two starts give a timer
started in the middle of another's interval, or a restart. A queue of one message
drops one whenever a start and an interrupt meet. Deadlock is checked. `age`
saturates at three periods, beyond which no property tells it apart. Larger
instances of the timers (three starts, a queue of two; three timers, 3.2 million
states), with timeouts below the maximum, and of the dynamic ring (two requests, 9.6
million states) were checked once without a difference.

`usart_direct_rx` has no sends: with them the window of `usart_send_storm` is open
on the receive side too (`fsl_usart.c:768`). The liveness of a receiver is therefore
not checked while something is sent.

What the properties say, beyond their comments:

- `StreamOrder`, `NothingVanishes`, `LossIsNotified` together are the receive
  contract: bytes in order, each once, each loss in exactly one counter, each kind
  of loss reported in time. `RxImplementsStream` and `TxImplementsStream` say it
  of every step, as a refinement of `ByteStream`. `RxStream` maps `transit` to the
  ring followed by the FIFO, so a step that moves a byte from one to the other is
  a stutter.
- `TxIdleMeansSent` is stronger than the note at `fsl_usart.c:554` promises ("it
  does not ensure that all data are sent out"): since the handler waits for the idle
  line before it reports, all data *are* out, and the wrapper's `SendReturnsSent`
  rests on it.
- `NoInterruptStorm`: the handler never keeps the threads from running for ever.
- `StreamOrder` counts as readable what the thread could read: nothing from a ring
  between the first and the last store of its start, when the handler may already
  put bytes at places that are then given up (they count as `flushed`).
- `OperationsInPlace` states each list operation on the abstract sequence: the step
  appends, prepends, inserts before, or removes, and leaves the other list alone.
- `PortServesFirst`: a write that is waiting is being sent, or exactly one context
  is on its way to start it. Two would send it twice, none would leave it for ever.
- `WritesEnd` asks a callback for every accepted write and an end for every call, in
  the usages in which blocking writes do not hang (section 4), and, for the
  callback, with a queue that only the manager's own messages fill.
- `AnsweredOnce` counts callbacks still owed for accepted reads against the places
  they can come from. `SuccessMeansStored` says of the step at which the task takes a
  request that it is still there, and full.
- `Covered`: when the task waits and nothing is posted, the counter runs and
  interrupts no later than any active timer is due.
- `NeverEarlyAlone` is the part of "not early" that holds (section 4): for a timer that
  has had the counter to itself and whose timeout the counter can hold.

### Fairness

The USART's `FairSpec` has weak fairness of the handler (the NVIC enters it whenever
a source is active), of the shifter, and of the continuation of a call that has
begun; the wrapper's `RtosFairSpec` adds the daemon and each task inside its call.
Nothing obliges a byte to arrive or a call to be made. Liveness that ends in the
hardware (`LongRequestServed`, `ReceiveReturns`) assumes that the bytes are already
in the FIFO. In `SerialManager` the adapter ends its transfer and the common task,
which is not below a caller, runs (weak). A caller goes on inside its call when
those above it are in none; since they enter and leave calls again and again, its
fairness is strong. It asks nothing of a caller below one that spins for good, and
callers of one level share the processor, as FreeRTOS does with time slicing, its
default. In `SerialManagerRead` the task and the application inside a call run
(weak), each only while the one that goes first leaves it the processor. In
`TimerManager` time passes and the interrupt is served (weak); the task and a caller
inside `TM_Start` run only between interrupts, which come again and again, so that
theirs is strong.

## 4. Where the code and its words differ

Each of these is a run that TLC ends with a counterexample.

| Run | What happens |
|---|---|
| `usart_send_storm` | `SendNonBlocking` stores the size, then the state. The idle interrupt of the send before it can fall in between: the handler sends the whole short transfer and marks it idle, the thread marks it busy. When the line is idle, TXIDLE is active and enabled, the handler ignores it because the state is busy (`fsl_usart.c:953`), and is entered for ever: no thread runs again. |
| `serial_cancel` | `SerialManager_CancelWriting` of a queued write starts the head of the list again (`serial_manager.c:1225`). If the interrupt that ends the head's transfer falls between the cancel's look at the list and its test of `tx.busy`, the finished bytes are sent a second time, and the interrupt that ends *them* reports the next write as sent. |
| `timer_early` | A timer that the task activates in the middle of an interval gets its full timeout as remaining time; if that does not change the programmed interval, the next interrupt takes the whole interval off it (`timer_manager.c:252`), and it is called back early. |

The first needs an interrupt of the *other* kind inside a window of two
instructions, the second a cancel while another write of the same port ends; the
third needs two timers and no unusual timing. It is found with
`IrqOutlivesReset = FALSE`, so it does not depend on that assumption. `timer_early` has
a second way to fail, not the one of its trace: an interrupt that falls into another
timer's callback takes off `mUsInTimerInterval`, which the walk has meanwhile set to
the HAL's maximum or to the least remaining time it has met so far
(`timer_manager.c:295`, `:337`), not to what the counter counted.

Met while modelling and kept out of the passing runs by their constants:

- `AbortSend` empties the FIFO before it clears the size (`fsl_usart.c:612`); a
  receive interrupt in between fills the FIFO again, so the abort may return with
  bytes in it.
- A second send accepted while the first drains gets the only TxIdle for both (`:953`).
- Without a ring the trigger level is only adapted by the handler, which is not
  entered below that level: a request shorter than the level stays open with its
  bytes in the FIFO (`:771`).
- While the size of a ring that is being started is still 0 (`:140`, `:141`), the full
  test of the handler never fires: bytes are forgotten without a callback and the
  head may pass the end of the ring. Between the stores of head and tail (`:142`,
  `:143`) it sees the new head and the old tail, and may report an overrun of bytes
  that were given up anyway. `LossIsNotified` and `TypeOK` are therefore not claimed
  of the dynamic ring; order and account of the bytes are.
- A ring stopped while a request ends leaves RXLVL enabled with no receiver (`:162`).
- With tasks at the daemon's priority, the clear of COMPLETE after an overrun may
  come before the daemon sets it; the next Receive succeeds without data
  (`fsl_usart_freertos.c:308`).
- One handler run posts an overrun command per byte and TxIdle last. With a FIFO of
  16 and a daemon's queue of 10 (the examples') and a ring that nobody reads, TxIdle
  is dropped and the sender sleeps for good (`:49`).
- A blocking write never yields (`serial_manager.c:668`). If its task preempts another
  writer between that one's critical section (`:655`) and its start of the port
  (`:657` to `:659`), it spins for bytes that nobody sends and the starter never runs
  again. The same without priorities if there is no time slicing, and a common task
  below such a loop makes no callbacks meanwhile.
- A message of a completed write or a full read that the common task's queue refuses
  is not sent again (`:495`, `:586`). As long as only the serial manager's own messages
  fill the queue, one of them does its work. If other components do, the callback
  waits for the next message, and closing the write handle before that clears a
  handle that is still in the completed list (`HandlesInOneList` fails).
- The task looks at the open read handle at every message, in separate steps
  (`:432` to `:443`). A blocking read that the interrupt ends between the test of its
  buffer (`:437`) and that of its counts (`:439`) gets a callback that nobody owes,
  with success and no buffer. It needs a message that wakes the task during a
  blocking read: of a write, if the task goes first; of a write or of an earlier
  non-blocking read, if neither does.
- Cancelling a read while the task is between its look at the request and its
  callback answers the request twice; it is safe when the task goes first.
- Until `SerialManager_InstallRxCallback` is called, the ring of an open handle
  overwrites without a word (`:602`).
- A serial manager's ring of one byte overwrites every byte without a word (`:533`).
- A timer that a callback closes and opens again, its own or the next of the walk, is
  now the last of the list, and the walk ends with it: the timers between are not
  looked at (`timer_manager.c:328`; `ReopensInCallback`).
- A timeout above the HAL's maximum is counted off in several intervals. Even alone, a
  repeating timer with such a timeout may be early: while its callback runs, the
  walk has set the interval to the maximum (`timer_manager.c:295`), and a match of the
  old, shorter rest of its period (`:357`) in that time takes the maximum off
  (`:250`). `NeverEarlyAlone` leaves these timeouts out.
- `LIST_RemoveElement` returns kLIST_OrphanElement for an element in no list
  (`generic_list.h:151`), but tests that before its critical section
  (`generic_list.c:301`): if another context removes the element in between, the code
  follows a null list pointer (`:308`). The users in this repository do not race so:
  the serial manager calls it within its own critical section, the timer manager for
  a timer that its caller owns.

## 5. What is proved

TLAPS proves, for every value of the constants that the assumptions allow:

| Theorem | Statement | Assumes |
|---|---|---|
| `UsartTypeProofs!TypeCorrect` | `TypeOK`: among others, head and tail are indices of the ring | `StaticRing` |
| `UsartSafetyProofs!Conservation` | `NothingVanishes` | `StaticRing` |
| `UsartSafetyProofs!Notification` | `LossIsNotified` | `StaticRing` |
| `UsartSafetyProofs!Completion` | `RxIdleMeansComplete` | `StaticRing` |
| `UsartSafetyProofs!RingFirst` | `DirectOnlyWhenRingEmpty`: while a request takes bytes from the handler, the ring is empty | `StaticRing` |
| `UsartSafetyProofs!BusyWithRing` | `RxBusyMeansUnfinished` | `StaticRing`, with a ring |
| `UsartSafetyProofs!SendsInOrder` | `TxConserved`: line, FIFO and unwritten rest are consecutive | `StaticRing` |
| `UsartSafetyProofs!IdleAfterSend` | `TxIdleMeansSent` | `StaticRing` |
| `UsartStreamProofs!BytesStayInOrder` | `StreamOrder` | `StaticRing`, `MaxLen # 0` |
| `UsartStreamProofs!RxIsStream` | `RxImplementsStream`: receiving implements `ByteStream` | `StaticRing`, `MaxLen # 0` |
| `UsartStreamProofs!TxIsStream` | `TxImplementsStream`: sending does, aborts included | `StaticRing`, `MaxLen # 0` |
| `UsartRtosProofs!WrapperImplementsDriver` | `RtosSpec => Spec` | - |
| `UsartRtosProofs!WrapperKeepsSafety` | five of the above, below the wrapper | ring fits the indices |
| `UsartRtosProofs!RtosTypeCorrect` | `RtosTypeOK`: each mutex is held by the task inside its function | - |
| `UsartRtosProofs!SuccessIsTrue` | `SuccessMeansData` | daemon above the tasks, ring fits |
| `UsartRtosProofs!NothingLeftBehind` | `NoRequestLeftBehind` | daemon above the tasks, ring fits |
| `UsartRtosProofs!SendReturnIsTrue` | `SendReturnsSent` | ring fits |
| `UsartRtosProofs!SleepersAreWoken` | `BlockedReceiverIsWoken` | ring fits, `QueueLen >= 2` |
| `GenericListProofs!ListsWellFormed` | `WellFormed` | - |
| `GenericListProofs!ListsWithinCapacity` | `WithinCapacity` | - |
| `GenericListProofs!OrderKept` | `OperationsInPlace` | - |
| `SerialManagerProofs!SerialTypeCorrect` | `TypeOK` | - |
| `SerialManagerProofs!HandlesStayApart` | `HandlesInOneList` | nobody cancels |
| `SerialManagerProofs!PortKeepsServing` | `PortServesFirst` | nobody cancels |
| `SerialManagerProofs!SuccessIsSent` | `SuccessMeansSent` | nobody cancels |
| `SerialManagerProofs!CallbacksInOrder` | `OnceInOrder` | nobody cancels |
| `SerialManagerProofs!OneCallerMayCancel` | `HandlesInOneList`, with cancels | one caller, below the task, whose queue others do not fill |
| `SerialManagerReadProofs!ReadTypeCorrect` | `TypeOK` | - |
| `SerialManagerReadProofs!ReadersInOrder` | `BytesInOrder` | - |
| `SerialManagerReadProofs!RequestsAnswered` | `AnsweredOnce` | `Rightly` |
| `SerialManagerReadProofs!SuccessIsStored` | `SuccessMeansStored` | `Rightly` |
| `SerialManagerReadProofs!RequestsTakeAll` | `NoByteWithheld` | - |
| `SerialManagerReadProofs!EveryLossAnnounced` | `LossAnnounced`: of an open handle with a callback | - |
| `TimerManagerProofs!TimerTypeCorrect` | `TypeOK` | - |
| `TimerManagerProofs!CountersFollowTimers` | `CountsExact` | - |
| `TimerManagerProofs!CounterCoversTimers` | `Covered` | not `ReopensInCallback` |
| `TimerManagerProofs!NeverEarlyWhenAlone` | `NeverEarlyAlone`, for timeouts up to `MaxTimeout` | - |

**Assumptions.** Constants obey the named `ASSUME`s of the modules. `StaticRing`:
the ring is started before use or never, and `RingSize <= IndexMod`. Both halves are
needed: with a larger ring the head wraps as `uint16_t` before it reaches the size,
the full test never fires, and `NothingVanishes` fails; with a ring started while
sends run, `TypeOK` fails (section 4). The others keep out what section 4 shows to
fail, and a daemon's queue of one command, in which a sender's command keeps out the
completion of a receive request. `Rightly`, on the usages of the reading half: the
application cancels only below the task; it reads blocking only if it goes first, or
if the task does and no writes post messages. "Nobody cancels" and "one caller,
below the task" are conditions on `usage` inside the formula, so that the theorem is
about the runs' own specification.

**USART driver.** `TypeOK` is not inductive. `TypeInv` adds `RingShape` (which calls
and fields exist with and without a ring), `HandlerFlags` (`receiveEnabled` and
`sendEnabled`, computed once at `fsl_usart.c:848`, still agree with the sizes when
used, because threads stand still while the handler runs) and `PutReady` (between
the full test and the store, across the overrun callback, the byte is still in the
FIFO and no request has appeared). The safety theorems add one invariant each:
`Announced` ties each overwritten byte to the callback before it, `Requests` says
that what was delivered since a request plus what it still lacks is what it asked
for, in every program counter between the stores of a call, `Sends` that the line,
the FIFO and the unwritten rest are consecutive.

**Streams.** The ring's contents are a sequence read through wrapped indices. Lemmas
say what a take and a store do to that sequence (`TakeContents`, `PutContents`, on
`RingSlots`); with them each step of the driver is a step of `ByteStream` or a
stutter. `StreamOrder` is then proved once, of the steps of `ByteStream`, instead of
per action of the driver. For sending, `NothingOpen` says that an idle sender has
nothing left to write, so that a new send is appended after the last one.

**Wrapper.** `WrapperImplementsDriver` shows that each step of the wrapper is a step
of the driver or leaves it alone, so that the invariants carry over. Its own safety
rests on counting tokens: `Receiving` says that COMPLETE is, at most once, due from
the request, in the daemon's queue, or set, and where the task is then; `Sending`
says the same of TxIdle. `Waking` is about the callback that finds the queue full: it
loses its command, but a queue of two or more that is full holds at most one
command of a sender (`OneForSenders`, from `Sending`), hence one for the receiver.

**List.** `WellFormed` is inductive with `TypeOK`: for each list there is a sequence
that `next` from the head and `prev` from the tail both spell, whose length is the
size and whose elements are those that name the list. Each operation gives the new
sequence. `OperationsInPlace` speaks of the walks along `next`: `OneWalk` shows that
there is one only, by looking at the least place where two would differ, and
`ShapeStep` gives each operation's `Put` or `Took` at the place that its name says.

**Serial manager.** `WriteInv` joins where each handle is (in one list, in the task's
hands, or free), what its buffer and status are there, and `Port`: the HAL sends the
head of the running list, or exactly one caller is the `Starter`. `Orders` relates
the order of acceptance to completed list followed by running list. With cancels, `Mine`
carries `HandlesInOneList` for a caller that runs below the task: `Claims` says what
its call may still do to the lists at each program counter, `PortAt` when the port is
busy, and the other callers are idle, since all handles are its own. With two callers
of which one cancels, or with one above the task, TLC finds `HandlesInOneList`
violated; with one alone, the other three properties (`serial_cancel`).

In the reading half `Answers` ties the callbacks owed to the program counters of the
application and the task, and says that the task tests, compares and takes one and
the same non-blocking request: a blocking one is there only while the task has no
message, or stands still. `InOrder` says that delivered bytes followed by the ring
rise. `NoByteWithheld` is inductive with the types: every step that makes a request
or stores a byte also takes what the ring can give.

**Timers.** `TimerInv` adds to `TypeOK` and `CountsExact` that every opened timer is
in the list and that a timer inside `TM_Start` is off; the step that removes a timer
from the counts is then exact whoever makes it. `Covered` is about the end of a walk
that callers interrupt at every callback. `CoverInv` says that every timer is either
still ahead of the walk, or passed and accounted for in `interval`, or a message is
posted and the walk will be repeated. `Ahead(t)`, "the walk will come to `t`", is
stated without recursion: `t` is in every set that holds the current element and is
closed under the `left` pointers and the rest of the list. `AloneInv` says of a timer
alone since its start that it is at least as old as what the counter, a pending
interrupt and its status add up to (`Served`, `Credit`).

## 6. What is only model-checked

- Liveness (`NoInterruptStorm`, `LongRequestServed`, `ReceiveReturns`, `SendReturns`,
  `WritesEnd`, `FullIsAnswered`, `Fires`): out of the prover's reach.
- The serial manager's writes with a handle that is cancelled, but for the types and
  `HandlesInOneList` under `OneCallerMayCancel`: that such a write is sent once, in
  order and answered truly is checked for a handle that is used alone.
- The dynamic ring (`usart_dynamic_ring`), for order and account of the bytes.
- `RxBusyMeansUnfinished` without a ring, in which nothing is sent (`usart_direct_rx`).

Neither proved nor checked, because they do not hold (sections 3 and 4): `Covered`
with `ReopensInCallback`, `AnsweredOnce` and `SuccessMeansStored` in usages outside
`Rightly`, `WritesEnd` with blocking writers above others, `NeverEarlyAlone` above
`MaxTimeout`, and `RxBusyMeansUnfinished` without a ring as soon as something is
sent.

## 7. What is not modelled

*USART driver:* the blocking functions, baud-rate arithmetic, 9-bit and address
match modes, `GetSendCount`/`GetReceiveCount` and the read-only status calls,
`USART_Deinit`, argument checks that end in an assertion. Reentrant application
callbacks. *Wrapper:* the creation and deletion of its objects. *List:* the
functions that only look, and what follows a null list pointer. *Serial manager:*
the blocking-only build, the build with a task of its own instead of the common
task, the build without an operating system, the low-power calls,
`SerialManager_Deinit`, a blocking write from an interrupt handler, ports other than
the UART; the adapter's own handler. *Timer manager:* `TM_Init` called again,
`TM_Deinit`, low-power entry and exit (nothing in the repository calls them), a
timeout of zero, the functions that only report.

`PROJECT.json` gives the reason per component for the rest. Vendored code is
modelled only where these modules depend on it (event groups and timer daemon).
Register-only drivers have no state of their own. Descriptor-ring drivers
(Ethernet, SD, USB) share their state with bus masters whose behaviour is not in
the source. DMA, and a processor with several cores (the part has one), are left out.

## 8. Plan

What is still to be written, in this order.

1. *Proofs*: `StreamOrder` and `NothingVanishes` for a dynamic ring (the
   shape of the ring by program counter instead of by `RingMode`); the serial
   manager's remaining properties for a cancelled handle that is used alone.
2. *`UsartAdapter`*, the port below the serial manager, with `UsartHardware` reused,
   and its composition with `SerialManager` and `SerialManagerRead`.
3. *`MemManager`* (blocks as a partition) and *`OsaBareMetal`* (waits against ticks
   and posts).
4. *`Button`*, whose task clears an event after its callback (`button.c:215`).
5. *`UsartDma`*, the second transactional driver of the block.
6. *Construction and teardown* of the wrapper: each of the objects of
   `USART_RTOS_Init` failing in turn (`fsl_usart_freertos.c:108`).
