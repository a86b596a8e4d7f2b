# A TLA+ verification of LFramework

LFramework is a C++ library for desktop and STM32 targets: threading
primitives, containers, a USB host layer for Linux (usbfs) and Windows
(WinUSB), a USB device stack on top of ST's HAL library, COM-style objects, raw
input and a number of small utilities. This directory holds TLA+ modules that
model its parts, TLC configurations that check them on small instances, and
theorems about them with proofs for TLAPS. Paths below are relative to
`src/Src/LFramework/`.

`PROJECT.json` lists the components, the runs, the lines each definition is
translated from, a plausible bug for each property that the property detects,
the hazards of the code and the theorems.

## 1. Inventory

| Component | State it keeps | Operations | Interacts with | What is hard | What makes it correct |
|---|---|---|---|---|---|
| Counting semaphore, `Threading/SemaphoreStd.h` | `_count`, `_maxCount`, mutex, condition variable | `take`, `take(ms)`, `tryTake`, `give`, `give(n)` | any threads | test and change under one mutex, wake-ups, time-outs, `size_t` arithmetic | no token lost or invented, no lost wake-up, atomic calls |
| Linux bulk transfer, `USB/Host/Linux/UsbBulkTransfer.h` | the URBs, finished blocks and bytes, an error flag | constructor (splits and submits), `notify`, `wait`, `discard` | its client's thread, the reaper thread, usbfs | the constructor runs unlocked beside `notify`; errors discard what is left | `wait` returns what has moved, throws only on a failure, ends |
| Linux USB device, `USB/Host/Linux/UsbDevice.cpp` | device and epoll descriptors, interfaces, the reaper thread | constructor, `enumerateInterfaces`, `epollThreadHandler`, destructor | sysfs, usbfs, transfers | stale `errno` and block pointer, descriptors closed under the thread, an exception in the middle of the constructor, a device that goes away meanwhile | the thread ends only for a reason, the destructor ends, no dangling transfer, no descriptor left, one device described whole |
| Linux interfaces and sysfs, `UsbInterface.h`, `SysfsUtils.h` | endpoints by direction, copy of the descriptor | construct, `enumerateEndpoints`, release | sysfs, usbfs | attributes vanish between two reads | exactly the endpoints of the device, released before the descriptor closes |
| Linux hot-plug, `NetlinkReader.h`, `NetlinkClient.cpp`, `UsbService.h` | `_isRunning`, thread, epoll, callback | start, stop, read events | netlink, client callback | callback replaced under a running thread, two readers during a restart | called only between start and stop, each event once and in order, calls end |
| Windows hot-plug, `Windows/UsbService.cpp`, `UsbNotifyWindow.h` | message thread, promise, callback | start, stop, window procedure | Win32 | promise hand-shake, quit message retry | called only between start and stop, by the window of its own start; start and stop end |
| Windows transfers, `Windows/UsbHostEndpoint.h` and others | overlapped record, event handle | `readAsync`, `writeAsync`, `wait` | WinUSB | ownership of the event handle | each `wait` uses its own event and closes it once |
| USB device endpoint, `USB/Device/UsbDEndpoint.*`, `USB/UsbPollingTransfer.h` | `_activeTransfer`, `_isOpen`, state of a polling transfer | `transferAsync`, `finalizeTransfer`, `open`, `close` | tasks, the data-stage interrupt, the HAL | the lock is commented out, callbacks submit again | each accepted transfer is called back, and by its own data |
| USB device core, `USB/Device/USBDDevice.cpp`, `UsbDInterface.h`, `UsbDBulkInterface.h` | interfaces, one descriptor buffer, whether the class is open | `start`, init, deinit, setup hooks, descriptors, data in/out | ST's library, endpoints | resets in any state, two parties that may answer a setup packet, one buffer for all replies, routing by address | endpoints open only while configured, one answer each, whole replies, data to its own endpoint |
| Device HAL glue, `UsbDDeviceCallbacks.cpp`, `UsbDLowLevel.cpp` | none | forwards; offers setup packets to the hooks first | ST's library | callbacks that spin | as for the core |
| Deprecated device and soft PHY, `USBDevice_Deprecated.h`, `MCU/USBDevice/PHY/` | control transfer state | setup, data and status stages | PHY | - | cannot be compiled at this commit |
| USB types, `USBTypes.h`, `UsbMicrosoftTypes.h`, `BitField.h` | words and descriptors | fields, addresses, descriptors | everything of USB | neighbours in one word, values wider than a field | fields do not disturb each other, an address has one direction |
| Byte FIFO, `Containers/ByteFifo.h` | `_begin`, `_size`, ring buffer | `write`, `read`, `peek`, `discard`, `clear` | one context | wrapping | a bounded queue |
| Linked list, `Containers/LinkedList.h` | links and owner of each item, `_size`, a head | `pushFront`, `pushBack`, `remove`, `foreach` | callbacks | callbacks that push and remove | a sequence; each item that stays is called once |
| Threads, `Threading/Thread.cpp`, `ThreadFreeRTOS.h` | the `Impl` of each `Thread`, its task and join semaphore | create, move, swap, suspend, resume, join | FreeRTOS | the `Impl` is deleted while its task ends; the semaphore is given inside an assert | join ends after the body, one owner per task |
| FreeRTOS semaphore and critical sections | kernel objects | take, give, enter, leave | kernel, interrupts | interrupt variants | exclusion |
| COM objects, `COM/ComObject.h` | reference counts, smart pointers, the implementer of a delegate, a ring of interface remaps | create, copy, assign, move, reset, `queryInterface`, `registerRemap`, `findInterface` | any threads | concurrent release of the last references, cascades, self-assignment, orders of construction | an object dies with its last holder; the override is found |
| Raw input, `Input/` | states of keys and buttons, those of the last strobe, motion | reports of a window, `strobe`, getters | window messages | states, edges and deltas kept apart; flag words | edges and deltas tell what is down and where the mouse is |
| Stream writers, `IO/StreamWriter.h` | fill width and alignment of a stream | write integers, hexadecimals, texts | streams | a format that is used up by the item that fills | numbers read back, fields are filled |
| Terminals; MCU support; compile-time utilities; diagnostics | - | output, registers, templates | - | - | not protocol code |

The hazards this code is exposed to are in `PROJECT.json` under `hazards`, each
at its line, with the properties that cover it or the reason why none does.

## 2. Modules

### 2.1 `CountingSemaphore` implements `AbstractSemaphore`

`CountingSemaphore` models `CountingSemaphore` and `BinarySemaphore` of
`SemaphoreStd.h`. Each thread has a position in its call (`pc`): it invokes a
call, acquires the mutex, tests the counter (`TestTake`, `TestGive`), and either
commits (`CommitTake`, `CommitGive`), fails, or blocks on the condition
variable. The test and the effect are separate steps; only the mutex keeps them
together, and the property `TestStillHolds` says that it does. `notify_one` wakes
any one sleeper and `notify_all` all; `wait_for` may time out whenever it
sleeps (`Expire`), and any sleeper may wake for no reason. The arithmetic of
`give(count)` is modulo the number of values of `size_t` (`Modulus`).

`AbstractSemaphore` says what a caller may rely on: between its invocation and its
return each call has one atomic effect and its result tells which. The
refinement `ImplementsAbstract` maps `tokens` to `_count` and each thread's position
to idle, pending or done.

### 2.2 `UsbUrbPlan`, `Usbfs`, `UsbBulkTransfer`, `UsbHostDevice`

`UsbUrbPlan` is pure: how a buffer is split into blocks, their lengths (modulo `LengthModulus`, the
values of the `uint32_t` they are cast to), offsets and flags. `Usbfs` is the kernel, which is not in the repository: a FIFO of submitted
blocks per endpoint (`pending`), a FIFO of finished blocks (`completed`), discard,
cancellation, and the `BULK_CONTINUATION` rule by which the continuations of a block that comes back short or
has failed are cancelled, one by one (`KernelCancels`). What is pending at an unplug, or when its interface is released, is cancelled in any order. `UsbBulkTransfer` is the transfer: the
constructor appends a block, then submits it, as two steps that the reaper may run
between (`EmplaceUrb`, `SubmitUrb`), then `wait` and, on the reaper's side,
`notify` in its success and error branches with `discard` one block at a time.
`UsbHostDevice` composes them with the reaper thread (`Poll`, `Reap`, `ReapFails`,
`Dispatch`, `Notify`, `Discard`), the destructor of the device in the code's own
order (`ClearInterfaces`, `ResetEpoll`, `CloseDevice`, `StopThread`, `JoinThread`)
and the environment (`DeviceAnswers`, `DeviceFails`, `KernelCancels`, `Unplug`). `errno` and the block
pointer `context` survive from turn to turn of the loop as in the code.
`wild` is a history variable: it records that the reaper used a transfer that its
client had destroyed. A client that destroys a transfer does so after `wait`
has returned or thrown, as `readAsync(...)->wait()` does.

### 2.3 `ByteFifo` implements `AbstractFifo`

One action per operation, with the two partial copies at the end and the start
of the ring. `read` takes its size as an `uint8_t`, so that a longer request is cut (`ReadModulus`), and `write` hangs once
`HangLimit` bytes are in use (`Hung`). `AbstractFifo` is a bounded queue whose operations answer what the
code returns.

### 2.4 `UsbDEndpoint` and `UsbDDevice`

Tasks run `transferAsync` in the steps a preemption can separate (`Check`, `Activate`,
`Start`), the interrupt runs `finalizeTransfer` with its callback as one step
(`DataStage`): nothing preempts it. A callback is that of a
`UsbPollingTransfer`, which notes the outcome, or that of a streaming client, which may submit
its transfer again from inside the callback. `Configure` and `Deconfigure` open
and close the endpoint as the core does. `owed` is a history variable: the transfers that
were accepted and not called back yet.

`Serialised` states the one thing this component leaves to its clients: the lock in
`transferAsync` is commented out, so tasks must not call it at the same time.

`UsbDDevice` is the device core with its bulk interface: two instances of `UsbDEndpoint` (`In` and `Out`, both
number 1) below the control requests of the host. `Start`, `Reset`, `Suspend`, `Resume`, `SetupStage` (the hooks of
`UsbDDeviceCallbacks.cpp`, then the library), `Ep0Done`, `DataIn` and `DataOut` are the interrupts, which run to their
end; `TaskStep` is a task inside `transferAsync` of either endpoint. The device library is not in the repository: its
`devState`, and what it makes of a request, are taken from the callbacks of `_usbClassBinding` and `_descriptorsTable` and the calls made
to it. Whether the class is closed at a reset depends on `pClassData`, as `start()` says in a comment. `buffer` is the one
`_descriptorsBuffer`, by the offsets of the descriptors in it: what is written replaces whatever it overlaps. The vendor hooks send as
many bytes as the host asks for (`wLength`), whatever the size of their descriptor. Each
endpoint of the composition still satisfies `UsbDEndpoint!Spec` (`EndpointsBehave`), so that what is proved of the endpoint holds in the device.

### 2.5 `NetlinkService` implements `AbstractUsbService`

`control` is the client's thread inside `startEventsListening` (`StartListening`, `OpenSocket`,
`StartReader`, `AssignReader`, or `FailStart` when the socket or epoll throws) or
`stopEventsListening` (`StopListening`, the destructor of the reader in `ClearRunning`,
`CloseEpoll`, `JoinReader`, then `ForgetCallback`). Each reader thread loops through `Check` (of
`_isRunning`), `Wait`, `Read` and `Call` .. `Return`. A socket holds `SocketLimit` messages and
loses the next (`overrun`): the next `recvmsg` then fails with `ENOBUFS` (`ReadError`), which the reader takes for no message. Each message
either is a USB event or is skipped. `broken`
records what ends the program or is undefined: an empty `std::function` was called, or one was assigned
while a reader was in it.

`AbstractUsbService` is what a client relies on, on both systems: it is called back only
between a start that goes on and a stop that has returned.

### 2.6 `WinUsbService` implements `AbstractUsbService`

`control` is again the client's thread: `CreateThread`, `AwaitPromise`, and `PostQuit`,
`JoinThread` in stop. `worker` is the thread with its window (`MakeWindow`, `KeepPromise`,
`CallBack`, `Return`, `Quit`). `PostThreadMessageA` is tried until it succeeds, so `PostQuit`
waits for `HasQueue`.

### 2.7 `WinUsbTransfer`

Each transfer is created with an event, submitted, completed by the driver in any order, and waited for:
`wait()` waits on the event, reads the outcome and closes the handle on both of its paths. Handle
values are reused by Windows (`table` tells whose event a value denotes), which is why a wait on a closed handle may
concern somebody else. `CreateEvent` may fail: `readAsync` throws then, and `writeAsync`, which does not test it, submits without an event and
its `wait()` fails at once, with the write in flight. The wait is alertable: whatever else Windows calls on the thread ends it too (`Alert`),
and it closes the event and throws with the transfer in flight. Windows looks a handle value up once, when the wait begins (`found`). The
clients of the transfers in `Again` call `wait()` more than once.

### 2.8 `ComPtr`

Threads run little programs of the steps that other threads can come between: each public operation of the
smart pointer (`AssignProgram`, `DestroyProgram` and so on) is the sequence of
`addRef`, `release`, `TestLast`, deletion and pointer writes that the code makes; a deletion of a delegate
adds the release of its implementer to the program, as `~ComDelegate` does. Each thread has its own
pointers; the objects are shared.

### 2.9 `UsbDeviceOpen`

How a device is found at a port and opened, one step per access to sysfs: the ids (`ReadVendor`, `ReadProduct`), the node
(`ReadNode`, `OpenNode`), epoll, the directories of interfaces and endpoints (`ListInterfaces` .. `EndInterfaces`), and the destruction,
member by member (`TakeDown`), by the destructor or because something threw. `Plug` and `Unplug` may happen between any
two steps. `table` is the descriptor table: the lowest free number is given, as POSIX has it, so that a number that was closed
comes back for something else. Devices are numbered in the order in which they are plugged in and none comes back. The program crashes when the device is gone before `opendir`, whose result is not tested. `toEndpointType` throws
for an attribute that cannot be read and for an isochronous endpoint, which the kernel calls `Isoc` and the code `Isochronous` (`KnowsType`).

### 2.10 `ComLookup`

The ring of interface remaps of a COM object: `Register` puts each remap behind the head in the order in which constructors
run, `FindInterface` walks the ring one remap at a time. Classes have up to `MaxLayers` layers (`ComImplement`) that list up to
`MaxListed` interfaces each, which may derive from one another; queries may come from constructors as well.

### 2.11 `LinkedLists` implements `AbstractLists`

The links, owners and sizes as the code keeps them, with one action per operation. `foreach` is in progress between `Begin` and
`Finish`, and its callbacks are the other actions between two `Advance`s. `stayed` and `calls` are history
variables. `AbstractLists` is a sequence for each list, an item in one of them at most.

### 2.12 `UsbTypes` and `UsbWords`

`UsbTypes` holds the pure operators that `UsbDDevice` and `UsbDeviceOpen` use: bit fields, addresses, requests, descriptors. `UsbWords` assigns
the fields of words in any order and remembers what each field was given last.

### 2.13 `RawInput`

`Report` is Windows queueing a report, `BeginStrobe`, `Dispatch` and `StrobeDevices` are `strobe()` with its message loop. Reports may
come while the queue is pumped. `down` and `position` are the devices themselves; `known` and `travelled` are what a client makes of
edges and deltas alone.

### 2.14 `StreamWriter`

The writers as operators on sequences of characters, with the format they read and change as state: the fill width is used up
by the item that fills, except that a negative number which fills its field leaves it for the next item (`WriteNegative`). A type is its
limits and its size in bytes (`FormatAssumption`: it has as many numbers as its bytes can tell apart, which leaves out `bool`); the
buffer on the stack is as long as the limits of the type ask for (`BufferSize`). `NumberIn` is a reader of the digits, for the property only.

### 2.15 `JoinableThread`

One client creates, moves, swaps, suspends, resumes and joins `Thread` objects; each `Impl` has a task that runs
its body, gives the join semaphore and ends. `join` takes the semaphore and deletes the `Impl`. `wild` records that a
deleted `Impl` was touched.

### 2.16 Compositions

`MCHostServices` holds the two hot-plug services and the Windows transfers, `MCLifetimes` the smart pointers,
the opened devices and the interface lookup, `MCSequential` the FIFO, lists, words, input and writers. These parts do not interact in the
code; a behaviour of such a module is one of one part (`part`), so that one run checks several parts at the cost of their sum.
`UsbHostDevice` (section 2.2) and `UsbDDevice` (2.4) are real compositions.

## 3. Runs

| Run | Instance | What it shows |
|---|---|---|
| `semaphore` | 3 threads, maximum 2, `give(0)`, `give(2)`, a time-out; 8 values of `size_t`; fair | `TypeOK`, `TestStillHolds`, `NoLostWakeup`, `ImplementsAbstract`, `TokensReachWaiters` |
| `semaphore_infinite` | 2 threads | violation: `take(InfiniteTimeout)` returns without a token |
| `usb_sizes` | one IN transfer of 0 to 8 bytes, blocks of 3; errors, unplug, a device destroyed in use; fair | `DataIsContiguous` (with the tiling of the buffer), `TeardownEnds` |
| `usb_errors` | two transfers of 2 blocks on one endpoint; errors, a refused first block, unplug, destroyed transfers; fair | `ReturnsWhatMoved`, `FinishedIsAPrefix`, `NoWildUse`, `WaitEnds` |
| `sequential` | a ring of 3 slots and requests of up to 4, which `read` takes modulo 4; 2 lists and 3 items; all words with values up to 255; a key, a button, queues of 2; `int8_t` and `uint8_t`, numbers at their ends and where a digit more begins, `MinWidth` 0, 2, 9, fill widths 0, 2, 6 | `ImplementsQueue`, `ImplementsSequences`, `CallsWhatStays`, `FieldsAreIndependent`, `EdgesTellStates`, `NumbersReadBack` |
| `endpoint` | 2 serialised tasks, 2 polling and 2 streaming transfers, HAL refusals, resets; fair | `HardwareServesActive`, `PollsTheirOwn`, `TakenByOneUnderWay`, `AcceptedIsCalledBack` |
| `device` | one task, 2 IN transfers and one OUT, every control request, three `wLength`s, HAL refusals | `AnswersOnce`, `OpenWhileConfigured`, `ReplyTiles`, `EndpointsBehave` |
| `host_services` | Linux: 2 readers, 3 messages, sockets of 2, opens that fail; Windows: 2 clients, 4 changes, threads and windows that cannot be made; 2 reads and a write over 2 handle values, one read and the write with failures, the read waited for twice; fair | `NothingBreaks`, `HeardInOrder`, `CallsItsClient`, `WaitsForItself`, `ServicesImplementAbstract`, `EveryCallEnds`, `EventsArrive` |
| `wintransfer_again` | 3 transfers, 3 handle values, two `wait`s | violation: a second `wait()` is not refused |
| `input_extended` | one key with the prefix E0 | violation: it is held to be pressed after its release |
| `lifetimes` | 2 threads with 2 and 1 pointers, 3 objects; 2 devices at one port, one with an isochronous endpoint, and 2 objects that open them; classes of up to 2 layers of up to 2 of 3 interfaces | `NothingDangles`, `CountsHolders`, `DescribesOneDevice`, `NothingIsLeft`, `FindsTheOverride` |
| `thread` | 2 `Thread` objects, 3 tasks, some never created; fair | `JoinedAfterBody`, `NothingDangles` (with one owner each), `JoinEnds` |

**Why the bounds are enough.** The semaphore needs two sleepers and one giver for a
lost wake-up and for overtaking, and a maximum of two for `give(n)` to mean more than
`give()`; `Modulus` only has to exceed the maximum plus an argument (section 4). A
transfer needs two blocks for discard and counting to matter and three for a middle
one (`usb_sizes`); sizes around a multiple of the block are the boundary cases of
the split. Two transfers on one endpoint are what the reaper can confuse. Both runs read; a transfer
in the other direction takes the same path without the flags of a short packet. The FIFO
reaches every pair of start and fill of its ring, with requests that end before, at and past the end of
the buffer and past its start. Three items over two lists put an item at either end and in the middle of a list
that is iterated while another changes. The words are 8 and 16 bits wide as in the code, and the values assigned exceed every narrow
field. One key and one button go through every order of reports and strobes with two reports waiting; the button is the last,
whose bits lie next to the wheel's. The numbers written are the ends of the two types, zero, and both sides of a change in the count of digits.
On the device endpoint each task has one transfer and one is left
to be submitted in between; in `device` both directions have transfers and one has a second, while the host asks
for everything. One string has the greatest length that fits `bLength` and one is null.
Two readers are all the hot-plug service ever has, the old one and the new one; three
messages overflow a socket of two and leave one to be out of order. Three transfers over two handle
values make Windows give a value again while another transfer is under way. Two threads can race for the last reference
of an object, and three objects make a delegate, its implementer and another one. A device that replaces another, at one port
that two objects open, is what sysfs can confuse; the numbers suffice for two objects with all they ever have open
(`NumbersAssumption`). Two layers of two interfaces with one derived from another are the least in which base and derived class
offer the same interface. Two
`Thread` objects are what move and swap are about, and three tasks let one be replaced while another is ending.

`lifetimes` is reduced by symmetry: the objects, the pointers of one thread and the objects that open a device are interchangeable; it
checks invariants only.

**Deadlock** is checked but for the runs whose behaviours end: in `usb_*` and `wintransfer_again` every transfer has
been answered and nothing is left to do; in `device` an interrupt handler may spin (`hung`); in `lifetimes` a device is destroyed or the program
has crashed; in `host_services` and `thread` the code hangs when
a thread could not be made (`EveryCallEnds` and `JoinEnds` leave out exactly that).

**Fairness.** In `semaphore` a thread inside a call keeps running (weak fairness of
its step) and gets a mutex that is free again and again (strong fairness of
`Acquire`): `std::mutex` gives no such guarantee on paper, every scheduler of the targets gives it in
practice, and without it no property of progress under contention can be stated.
Nobody has to call, time out or wake spuriously. In the `usb_*` runs the client's
and the reaper's threads run, the destructor goes on, and the device answers the blocks it holds:
a device that never answers is not the library's doing. In `endpoint` a task inside
`transferAsync` goes on and the host moves the data of a transfer the hardware works
on. In `host_services` and `thread` the threads run and a client's callback or body returns, the driver completes what it
accepted and a client inside `wait` goes on; nobody has to
start, stop, plug, suspend or resume anything. `device`, `sequential` and `lifetimes` have no progress properties.

## 4. Proofs

| Module | Theorem | States | Assumes |
|---|---|---|---|
| `CountingSemaphore_proofs` | `Typing`, `TestsHold`, `WakeupsKept` | `[]TypeOK`, `[]TestStillHolds`, `[]NoLostWakeup` | |
| | `Refinement` | `ImplementsAbstract` | `NoOverflow` |
| `Sequential_proofs` | `Typing` | `[]TypeOK` | |
| | `Refinement` | `ImplementsQueue` | `Capacity < HangLimit` |
| | `ListsAreSequences`, `ForeachCallsOnce` | `ImplementsSequences`, `[]CallsWhatStays` | |
| | `FieldsStayApart`, `EdgesAreTrue` | `[]FieldsAreIndependent`, `[]EdgesTellStates` | |
| | `NumbersAreRead` | `[]NumbersReadBack` | |
| `UsbDEndpoint_proofs` | `Typing`, `ServesActive`, `PollingIsSound`, `Taken` | `[]TypeOK`, `[]HardwareServesActive`, `[]PollsTheirOwn`, `[]TakenByOneUnderWay` | `Serialised` |
| `UsbDDevice_proofs` | `OneAnswer`, `OpenOnlyConfigured` | `[]AnswersOnce`, `[]OpenWhileConfigured` | |
| | `RepliesTile` | `[]ReplyTiles` | `StringsFit` |
| | `EndpointsRefine` | `EndpointsBehave` | |
| `UsbHostDevice_proofs` | `ReaperIsSafe`, `FinishedInOrder`, `WaitTellsTheTruth`, `DataLiesTogether` | `[]NoWildUse`, `[]FinishedIsAPrefix`, `[]ReturnsWhatMoved`, `[]DataIsContiguous` | `ClientsWait`, `[]~LaterBlockRefused` |
| `HostServices_proofs` | `CallbackIsSafe`, `OrderIsKept` | `[]NothingBreaks`, `[]HeardInOrder` | `~Restarts` |
| | `ClientIsItsOwn` | `[]CallsItsClient` | |
| | `WaitIsItsOwn` | `[]WaitsForItself` | |
| | `ServicesRefine` | `ServicesImplementAbstract` | `~Restarts` |
| `JoinableThread_proofs` | `JoinWaitsForBody`, `Ownership` | `[]JoinedAfterBody`, `[]NothingDangles` | |
| `Lifetimes_proofs` | `NothingIsTouchedAfterDeletion`, `CountsAreTrue` | `[]NothingDangles`, `[]CountsHolders` | `~SelfAssigns` |
| | `NothingStaysOpen`, `DescribedWhole` | `[]NothingIsLeft`, `[]DescribesOneDevice` | |
| | `OverrideIsFound` | `[]FindsTheOverride` | |

They hold for every value of the constants the modules' named assumptions allow: any
number of threads, tasks, transfers, endpoints, readers, clients, handles, objects, devices; any capacity, any length of a request, any size of a buffer, any width
of `size_t` and of the integers that are written. What is fixed is what the code fixes: the one bulk interface of `UsbDDevice` and its two endpoints. What the last column adds is a
precondition that the code leaves to its callers, or to the kernel (`LaterBlockRefused`). The passing
runs make the same assumptions, since without each of them TLC finds a counterexample to some property of that component (section 5). One run goes further: `usb_sizes` checks
`DataIsContiguous` also with a device that is destroyed in use.

*Semaphore.* `TypeOK` alone is not inductive: that the counter stays in range needs
that what was tested still holds at the commit (`TestStillHolds`), which in turn
needs that only the mutex's owner is between the two; this is part of the
inductive invariant of the proof module, with the facts about sleepers that `NoLostWakeup` needs: a
token added without a wake-up would break it, a wake-up makes one more awake
taker per token. `Refinement` needs one assumption, `NoOverflow`: the maximum plus any
argument of `give(n)` fits `size_t`. Without it `_count + count` wraps and a `give` that
asks for too much is accepted.

*FIFO.* The invariant is `TypeOK` (indices inside the ring), for any capacity. In the refinement no call may hang, so the capacity is below the size at which `write` does (`Capacity < HangLimit`). The refinement maps the ring to the sequence of its
used slots, and each operation's two partial copies to the head and tail of one
sequence; the lemmas are about that sequence when the ring advances by n.

*Linked lists.* The invariant (`ListsInv`) says that for each list there is a way round (`Path`): a function from `0 .. _size + 1` that starts
and ends at the head, passes each item the list owns once, and that `next` and `previous` spell in both directions. A push inserts
one place into it (`Inserted`), a removal drops one (`Dropped`), and the ways round the other lists have no node in common with it
(`OthersKeep`). The model computes the contents by a recursion along `next`; it has one solution, the way round (`OnlyOneFollows`), so that no
step of the refinement has to compute it: `PushRefines` and `RemoveRefines` only compare sequences. For `foreach` the invariant adds
where on the way the iteration is, and that it has called with what lies before that place and with nothing behind it, as far as
it has stayed (`Visits`).

*Words.* A word is the sum of what was put into its fields times powers of two (`Made`); assigning a field changes one summand (`SetKeeps`), and
the quotients and remainders that read a field find that summand. One case per kind of word.

*Raw input.* The invariant (`InputInv`) says that the reports still in the queue lead from what has been applied to what the devices are in
now: the motions in the queue add up to the difference of the positions, and the states of each key and button follow one from the other by
the reports (`Arrives`). Dispatching applies the first of them (`LeadsFrom`), a new one comes at the end (`LeadsOn`). At the end of
`strobe` the queue is empty, so nothing is between the two; what the client knows is then what has been applied.

*Written numbers.* The invariant (`WriterInv`) is the property and the type of the format: what is read back depends on the last item
only, but that its field is as wide as asked depends on the width that earlier items have left. The digits, the
reader and the powers of 16 are recursive functions of a number; each has one solution (`SomeDigits`, `SomeReads`, `SomeShown`), so
that it satisfies its own rule (`DigitsAgain`, `NumberInReads`, `ShownAgain`). One digit more reads as `base` times the number and the
digit (`OneMoreDigit`), hence the digits of a number read as the number (`DigitsRead`), and zeros before them, fill around them and a
sign change nothing (`ReadsThrough`). The buffer is sized from the limits of the type: a greater number has no fewer digits
(`DigitsGrow`), the sign is in when the type has one (`DecimalFits`), and a number below 16 to the n has at most n hexadecimal digits
(`HexFits`). A text is written as fill, characters, fill (`FieldWritten`), or with the fill after the sign (`SignedReads`).

*Device endpoint.* The theorems assume `Serialised`. The inductive invariant adds to the properties that at most
one task is inside `transferAsync` (`OneInside`) and what its argument is
relative to `_activeTransfer` (`InsideHolds`); from these a task that fails to start clears its own
transfer and nobody else's.

*Device.* The invariant is what may have been answered so far, that the endpoints are open only in the configured
state, and that a reply out of the one buffer is tiled by its descriptors (`Tiles`). The last is proved by writing the
reply: each descriptor is put where the one before it ends, and takes its place from whatever overlapped it (`PutPlaces`), so that
leftovers of earlier replies never lie among the new ones. This is the reply of the one bulk interface, or a single descriptor; a string needs to fit its
`bLength` (`StringsFit`: 126 characters), which nothing in the code checks. `EndpointsRefine` goes through the interrupts and task steps one by one: each is a step
of `UsbDEndpoint` for the endpoint it is routed to and a stutter for the other, so that the theorems of the endpoint hold in the device.

*Host transfers.* `ClientsWait` says that clients give a transfer up after its `wait` only and destroy the device after its
transfers. The theorems are about the behaviours in which no block is refused after an earlier one of its transfer was accepted
(`LaterBlockRefused`): there the code breaks `NoWildUse` (section 5). That the blocks tile the buffer is said of transfers whose
block size is below `LengthModulus` (`LengthFits`); the cast cuts off the one block of a buffer of 4 GiB, on a device without a size limit. The invariant (`IInv`) says, for each transfer, how
much of its plan has been submitted (`Planned`), that the counters are the sums over the finished blocks, which are a prefix (`Counted`), that
only a last block is short (`FullUnlessLast`), and what its client was told (`Told`); for the kernel, that each block is on its way exactly once, in the order of
its transfer (`PendingOK`, `CompletedOK`, `InOrder`, `NothingLost`); and for the reaper what it has in its hands
(`HandOK`) and that an error ends the transfer (`ErrorsEnd`). The sums are recursive functions of a sequence; what
is needed of them (a sum changes by the element that changes, a prefix grows by the next element) follows by induction over
sets of numbers.

*Host services.* In Linux the invariant is ownership (`OwnershipInv`): at most one reader runs (`OneReader`), it is the one that the
client's thread is starting or stopping (`ReaderOfControl`), and while it runs the callback is set (`FunctionForReader`). The order
of events (`OrderInv`) follows from what has been sent, is in the socket of the reader, has been read and was heard, in this
order. In Windows it is that the thread and its window belong to the start under way (`InStep`, `WindowIsTheClients`). Both then refine
`AbstractUsbService` step by step. For the transfers (`TransfersInv`) it is that an event is denoted by the value of its own transfer or by none,
and that only a repeated wait closes a value that does not denote the event of the transfer which waits: this harms the transfers that share the value (`Disturbed`) and no other. A composition's behaviour is one of each part, and a stutter of the others (`PartsBehave`).

*Threads.* The invariant says which `Impl` an object has and which task it belongs to in each phase of the task's life (`TaskInLife`),
that no two objects have the same (`NotShared`), and where the client is in a `join` (`ClientInJoin`).

*Smart pointers.* No property about counts is inductive without saying who else holds a reference. The invariant (`ComInv`) says that
there is an assignment of *hands* to threads: what a thread carries (the reference its raw pointer counts for), what it is about to drop, and what
it claims (an object without any reference that it has made or is to delete). `Place` ties the hands of a thread to what is left of its
program and to its goal; a count is the number of pointers, living delegates and hands that hold the object (`CountsFit`); what
lives without being counted is claimed by exactly one thread, and what is claimed is not counted (`ClaimsFit`); and a pointer that one thread reads
is left alone by its owner meanwhile (`Exclusive`). The step that a test would hardly reach is the last `release`: the count drops
and the thread that saw it at one claims the object, so that nobody else may reach it before it is deleted; its delegate's
reference is then dropped by the same thread. Each step passes references on between one pointer, one delegate and one thread
(`CountsPass`), and leaves the places of the others as they are (`OthersStay`).

*Opened devices.* The invariant (`OpenInv`) says for each object which of its members are open at each point of the constructor, of the
unwinding and of the destructor (`FitsOpening`, `FitsClosing`), that each number it keeps denotes what it thinks and is its own (`OwnsNumbers`), and that each number open by it is
known to it (`KnownTo`). With it, no `Close` reaches somebody else's number. `DescribedWhole` adds that what was read so far
from the device that is plugged in now is of that device and complete (`OneDevice`): none comes back, so the one whose vendor id was read
has stayed.

*Interfaces of an object.* The invariant (`LookupInv`) says that the remaps registered so far are the first of the order of registration, that
`next` leads from the head to the last of them and back one by one, and that nothing between the head and the place of a walk
supports what is asked for. The rest is about the order (`Enumerates`): every interface of every list is in it once, a base's before a
derived class's, and each list from its end, by induction over the lists. That every interface supports `IUnknown` needs that none derives from
itself (`BaseAssumption`); then the recursion along the bases has a solution, the smallest closed sets (`BoundingSupports`).

**Only model-checked.**

- Liveness (`TokensReachWaiters`, `WaitEnds`, `TeardownEnds`, `AcceptedIsCalledBack`, `EveryCallEnds`, `EventsArrive`, `JoinEnds`), which
  needs fairness and `ENABLED`.

## 5. What the models show about the code

Three disagreements of the code with its own statements are recorded as
violation runs: `InfiniteTimeout` (`SemaphoreStd.h:11`) is not infinite; a second `wait()` of a Windows transfer is not
refused although the exception at `Windows/UsbHostEndpoint.h:27` says so: `wait` closes the handle and keeps `_overlapped`; and
`Keyboard::ApplyInput` (`Keyboard.cpp:48`) compares the flags of a report with `RI_KEY_BREAK` instead of testing that bit, so that an arrow
key stays pressed for ever.

Other facts met while modelling, outside what the passing runs assume:

- `CountingSemaphore::take(n)` waits n milliseconds for one token; the test at `SemaphoreStdTest.cpp:26` takes n for a number of
  tokens.
- `UsbBulkTransfer`: when a later block is refused after an earlier one has completed but is not
  yet reaped, the constructor throws and the reaper uses the destroyed object
  (`SubmitFailures = {2}` violates `NoWildUse`). `usb_errors` refuses the first block only, and the theorems leave this case out.
- `UsbBulkTransfer` has no destructor: a client that drops a transfer in flight leaves the reaper a
  dangling pointer. Clients of the model wait first.
- `UsbDevice`: an `EPOLLERR` (unplug), or a stale `EINVAL` left by `discard`, ends the reaper and
  nobody wakes the clients that wait. `WaitEnds` says: an answer, or the reaper has ended. When the device is destroyed under a
  client the reaper may dispatch the block pointer of the last round (`UsbDevice.cpp:145`): with `ClosesInUse` the model
  violates `ReturnsWhatMoved`.
- `UsbDevice::enumerateInterfaces` does not test what `opendir` returns (`UsbDevice.cpp:83`): a device that is unplugged while it is opened
  crashes the program. When the type of an endpoint cannot be read, two directories stay open. A device that is replaced while it is
  opened may be described with the parts of two. The result of claiming an interface is ignored.
- `UsbDEndpoint`: two tasks in `transferAsync` at once break `HardwareServesActive`
  (`Serialised = FALSE`); a reset during a transfer leaves the endpoint taken for ever, since
  `close` no longer finalizes it (the exception in `AcceptedIsCalledBack`).
- `UsbPollingTransfer::State::Fail` is never reported (`TypeOK` of `UsbDEndpoint`).
- `UsbDevice` (device side): the end of a suspend, a class request and a request to an endpoint end in handlers that spin
  (`hung` in `UsbDDevice`). `interfaceRequest` looks the interface up by `wValue`, as its comment regrets.
- `NetlinkService`: a start without a stop replaces the callback under the running reader, has two readers for a
  moment, and when it fails empties the callback of the first (`Restarts = TRUE` violates `NothingBreaks`).
- `WinUsbService`: the result of `CreateThread` is ignored, and `start` then waits for ever. The class has no destructor that
  stops the thread.
- `WinUsbTransfer`: the event of a refused submission is never closed. `writeAsync` does not test `CreateEvent` (line 88), and `wait` is alertable (line 30): in
  both cases `wait` throws while the transfer is in flight with the client's buffer and, once the future is dropped, a freed `OVERLAPPED`.
  `WaitsForItself` names these two outcomes.
- `UsbInterface`: `toEndpointType` does not know `Isoc`, which is what the kernel writes: a device with an isochronous endpoint cannot be opened.
- `UsbBulkTransfer`: lengths are cast to `uint32_t`; on a device without a size limit the one block of a buffer of 4 GiB is cut.
- `UsbDDevice`: the vendor hooks send `wLength` bytes of a descriptor that may be shorter, and a string of more than 126 characters does not
  fit its `bLength`.
- `ComPtr`: assignment releases before it reads, so that assigning a variable to itself may lose the object
  (`SelfAssigns = TRUE` violates `CountsHolders`).
- `ByteFifo`: `read` takes its size as an `uint8_t`, while `write` takes a `size_t`; `write` never returns once 100000 bytes are in use.
- `LinkedList::foreach`: a callback that removes the item it is called with makes the loop go on from a null pointer; the
  model's callbacks do not.
- `StreamWriter`: a negative number that fills its field leaves the fill width set, and the next item is filled instead.
- `ThreadFreeRTOS.h`: the join semaphore is given inside an `assert`, and the result of `xTaskCreate` is ignored; either way
  `join` may wait for ever.

## 6. What is not modelled

Data are abstract: bytes are model values, blocks carry lengths and flags and no
contents, a hot-plug message is a number and whether it is about USB, a descriptor is its type, length, counts and total. Plain booleans that
another thread reads (`_epollThreadRunning`, `_isRunning`) are taken as
visible at once. A client calls start and stop from a thread of its own: from the callback both services would wait for
themselves. A client lets the interfaces of a device go before the device.

Not modelled, with the reason:

- *Deprecated USB device and soft PHY.* The code cannot be compiled at this commit (overrides without a base, calls to members that do not
  exist, `_usbThread.join;`): there is no behaviour to translate.
- *`StaticVector`.* It cannot be instantiated: it calls `~value_type()`, which it does not declare.
- *Windows devices and their enumeration* (`UsbHDevice`, `UsbHInterface`, `UsbHostManager`): single calls to WinUSB and SetupAPI that
  share nothing.
- *Claims of interfaces.* Their result is ignored and the kernel decides what they mean.
- *Device callbacks for SOF, isochronous transfers, connect and disconnect*: they spin and are not enabled by the initialisation.
- *FreeRTOS semaphore and critical sections, MCU support, terminals*: one kernel call or register access each.
- *Pure interfaces, templates and macros, diagnostics*: no state at run time.

## 7. Plan

Done: every component with state of its own has a module, and every safety property, every action property and every refinement that
the passing runs check is proved. What is left is liveness, which stays with TLC. A change of the code starts at `map` of
`PROJECT.json`: the definitions that name the changed lines, the runs of their module, then its proofs.
