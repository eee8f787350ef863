# Verification of np21w

np21w (Neko Project 21/W) emulates the NEC PC-98 machines: CPU, interrupt,
timer, DMA, disk, sound and network chips in C, with front ends for Windows,
SDL and X11. This directory holds TLA+ models of the parts of it that are state
machines with concurrency or with a long memory, the TLC configurations that
check them on small instances, and TLAPS proofs for every instance.

Source lines are those of the files as they are in the repository (Shift_JIS).

## 1. Inventory

How the machine runs: the *emulation thread* calls `pccore_exec` once a frame.
That loops: `pic_irq` enters an interrupt handler if one is due; the CPU executes
`CPU_REMCLOCK` clocks, with I/O handlers running inside instructions;
`nevent_progress` then calls the callbacks of the events that fell due.
Everything inside that loop is sequential, but it is a loop of arbitrary
callbacks and handlers that call each other through the scheduler and the
interrupt controllers. Beside it run the *window thread* (Windows build: messages,
keys, menus), a *sound thread*, and the *network threads*.

| Component | State | Operations | Interacts with | Hard behaviour | What makes it correct |
|---|---|---|---|---|---|
| Event scheduler, `nevent.c` | `level` (armed ids, sorted), `item[].clock`, `waitevent`, the period `CPU_BASECLOCK`/`CPU_REMCLOCK` | set, reset, forceexit, changeclock, progress, execute | every device; the CPU loop | callbacks re-enter it; clocks are relative to a moving period; overshoot; rounding | order, no duplicates, never past an event, no time lost, called exactly when due, no starvation |
| Main loop, `pccore.c` | phase of the loop, vsync state, multiplier | exec, asynccpu, reset | scheduler, PIC, CPU | automatic clock change at a period with overshoot | as above |
| Interrupt controllers, `io/pic.c` | `irr isr imr pry ocw3 writeicw` of two chips, PICMASK event | pic_irq, setirq, resetirq, ports 00/02/08/0A | all devices, network thread, scheduler | cascade, rotation, special mask, writers of `irr` outside the lock, postponed vsync | no request lost, nesting by priority, the CPU leaves its loop when something is let through, every request served |
| BIOS end of interrupt, `bios/bios12.c`, `bios13.c` | – | EOI on the slave, then on the master if the slave is idle | PIC | EOIs name no line | the line in service is that of the running handler |
| Keyboard, `keystat.c`, `io/serial.c`, `bios/bios09.c` | `keystat.ref`, ring `buf`, replies `ctr`, event, status, the guest's table | key down/up, release, send, callback, port read, reset, commands | window thread, scheduler, PIC, guest | full ring, overtaking replies, reset in flight, two threads | held keys known to the guest, queue, no reply lost, all served |
| Window and emulation threads, `win9x/np2.cpp` | pause flags, critical section, thread handle | Suspend, Resume, Enter/Leave, switch of the thread | all of the machine | nested dispatch, lock against wait, stale flags | nothing runs while suspended, nobody waits for ever |
| Interval timer, `io/pit.c` | counters, flags | systimer, port writes | scheduler, PIC | re-arming, PICMASK | request per period, no drift |
| DMA controller, `io/dmac.c`, `mem/dmax86.c` | mask, request, work, length of a channel | port writes, a byte after an instruction, terminal count | the device of the channel, CPU loop | the CPU looks at the channels only when it enters its loop | a channel at work is served, exactly the programmed length |
| Floppy disk controller, `io/fdc.c`, `fdd/diskdrv.c` | phase and registers of a command, status of each drive, delays | commands, seek interrupts, resets, disk exchange | DMA, scheduler, PIC, BIOS | terminal count against ends of sectors and tracks; overlapped seeks; resets that leave the channel | exact transfers, commands end, seeks are heard of |
| FM/PCM timers, `sound/opntimer.c`, `pcm86c.c`, `cs4231c.c`, `ct1741c.c` | timer flags, FIFO counts | timer events, FIFO writes | scheduler, one shared PIC line | stale callbacks, shared line | line up iff a cause is pending |
| Sound streams, `sound/sound.c` | stream buffer, lock count | sync, pcmlock, pcmunlock | sound thread | count tested outside the lock | never two holders |
| Host network threads, `network/net.c` | ring of packets, event, exit flag, device | send, write thread, read thread, open, close | host device, card | a ring without a lock, wake-ups, a device that does not answer | FIFO, no packet stuck, closing ends |
| Network card, `network/lgy98.c` | receive ring, ISR and mask, interrupt flag | receive, remote DMA, acknowledge, reset | read thread, PIC | two threads at ring and ISR, reset under a running thread | no frame overwritten or torn, no interrupt lost |
| RS-232C, `io/serial.c`, `win9x/commng` | FIFO, interrupt masks | receive, transmit | host port | overrun | FIFO |
| Mouse, `io/mouseif.c` | counters, event | port C, timer event | scheduler, PIC | event said to vanish | event armed while enabled |
| Clock chip, system ports, GDC, EGC, memory, VRAM | registers | port I/O, drawing | – | sequential | data processing |
| IDE/ATAPI, SASI, SCSI, MIDI | command state | commands | host files | asynchronous CD read | later |
| CPUs (`i386c`, `i286c`, HAXM, WHPX), BIOS services, accelerators (`wab`), disk images, host drive, saved states, front ends, utilities | – | – | – | instruction sets, file formats, host libraries | not modelled, see 7 |

`PROJECT.json` lists the same components with their files, and the hazards of
the code line by line with the properties that cover them.

## 2. Modules

| Module | Models | Composition |
|---|---|---|
| `TimerSet` | what the scheduler promises: independent one-shot timers | abstract |
| `NEvent` | `nevent.c` and the CPU loop that drives it | implements `TimerSet` (`Timers!Spec`) |
| `NEventProofs` | invariants of `NEvent`, and that it implements `TimerSet`, proved | extends `NEvent`, `TLAPS` |
| `Pic` | both 8259s, `pic_irq`, the ports, all writers of the registers, the guest arbitrary | – |
| `PicProofs` | types and action properties of `Pic`, proved | extends `Pic`, `TLAPS` |
| `Interrupts` | `Pic` with a guest that serves interrupts the way the BIOS does | extends `Pic` |
| `InterruptsProofs` | how handlers nest, proved | extends `Interrupts`, `PicProofs` |
| `KeyQueue` | what the keyboard interface promises: a queue, replies between | abstract |
| `Keyboard` | `keystat.c`, the keyboard half of `serial.c`, the guest's driver | implements `KeyQueue` (`Queue!Spec`) |
| `KeyboardProofs` | its invariants, and the refinement on one thread, proved | extends `Keyboard`, `TLAPS` |
| `MultiThread` | the window and the emulation thread of `np2.cpp` | – |
| `MCMultiThread` | all handlers of `MultiThread`, with a history of their suspensions | extends `MultiThread` |
| `MultiThreadProofs` | that nothing runs while suspended, proved | extends `MCMultiThread`, `TLAPS` |
| `Dmac` | a DMA channel and the CPU loop that moves its bytes: operators | – |
| `Fdc` | the floppy controller, its drives, a guest and the BIOS's handler | extends `Dmac` |
| `FdcProofs` | invariants of `Fdc` and its channel, proved | extends `Fdc`, `TLAPS` |
| `PacketQueue` | what the way out of the network promises: a queue | abstract |
| `Net` | `net.c`: the emulation, the write and the read thread, the device | implements `PacketQueue` (`Promised!Spec`) |
| `NetProofs` | that it does, proved | extends `Net`, `TLAPS` |
| `Lgy98` | the receiving half of `lgy98.c`, its driver | extends `Net`, whose read thread and resets it refines |
| `Lgy98Proofs` | unread frames and announced interrupts, proved | extends `Lgy98`, `TLAPS` |
| `MCNEvent`, `MCPic`, `MCInterrupts`, `MCKeyboard`, `MCFdc`, `MCNet`, `MCLgy98` | instances for TLC | extend the above |

### NEvent
State: the C variables by their names (`level`, `readyevents`, `waitevent`,
`waitevents`, `clock` and the flag bit `setevent` of each item, `baseclock`,
`remclock`, `cpuclock`, `multiple`), the place in the main loop `phase`, the
index `pos` of `nevent_execute`, and `calls`, a bound on what one handler does.
Each function of `nevent.c` is one action; `nevent_progress` and
`nevent_execute` are split where a callback is entered and left, because
callbacks may make any calls, on any event, their own included. I/O handlers
run after the clocks of their instruction are taken. The multiplier changes by a
guest's port write (inside a period) or by `pccore_asynccpu` (after
`nevent_progress`). Of the flag bits only `NEVENT_SETEVENT` is modelled, the only
one the program ever sets.

The refinement mapping: an id is armed if it is in `level`; its remaining time is
its clock less what has elapsed of the period; the batch is the part of `waitevent`
not yet called; a call is void if the flag was cleared by a later `nevent_set`.

### Pic and Interrupts
Registers are sets of lines. `pic_irq` is one action with three outcomes (slave,
master, none). The guest may write anything to the ports (OCW2, OCW3, ICWs, masks)
and set or clear its interrupt flag; a write that calls `nevent_forceexit` sets
`exit`. The clears of `irr` outside the critical section (`pit_o71`, `pit_o77`,
`screendisp`) are two steps, a read and a write, between which the network thread can
raise its request. Vectors and read-back are left out, ICW3 is what the machine is
wired for.

`Interrupts` restricts the guest to handlers that end their interrupt as
`bios0x12` and `bios0x13` do, with other interrupts enabled at any time in between.
Requests are bounded in number so that liveness is not about overload.

### Keyboard
A byte is a key with up or down. `keyboard_send`'s store, `buffers++` (read and
write) and arming are separate steps, as are those of `keyboard_callback`. With
`THREADED = FALSE` the host's part runs between frames (SDL, X11, single-threaded
Windows); with `TRUE` it is the window thread. The scheduler's critical section is
held while callbacks run, so arming waits for them; the ring itself has no lock.
The guest's driver reads a byte for each interrupt and keeps the table of keys that
are down. What is on its way to the guest (the byte in the data register, the ring, what the
host is still to send) tells it for each key what the last byte for that key says:
`HeldKeysAreKnown` compares the table after that with the keys held.
`lost` is the set of keys for which that may be wrong: a byte of the key was refused by a
full ring, or dropped by a reset although it will be read once more (`stale`: the interrupt pending at
the reset was for it). The next byte of the key that is put in takes it out. A full ring also sets a bit of
the status, by a read and a write of the byte that holds the bit "full" (`SendRefused`).
The guest may give commands one upon the other: the first reply to a command drops what is left of
earlier answers, and `awaited` is what it can still expect, the reply in the register and
the answer to its last command.

### MultiThread
The window thread is a stack of message handlers, each a list of steps; Suspend and
Resume are a flag and a wait, and the waits dispatch further messages. The emulation
thread is the loop of `np2_multithread_EmulatorThreadMain` line by line: the test
of the flags, the branch, the assignment of `pausing`, a frame, `autoSendKey`.
The critical section is recursive and owned by one thread.

### Dmac and Fdc
`Dmac` has the registers of one channel and the two loops of `ia32()`: `EnterLoop`
decides once between the loop that calls `dmax86` after each instruction (`stepping`)
and the one that does not; `DmacCheck` forces the CPU out when a channel starts or
stops. `Fdc` builds its actions from these operators: an instruction of the guest is
one port access (or none) followed by `AfterInstruction`, a DMA cycle is one byte.
The phases are the code's (`FDCEVENT_NEUTRAL`, `CMDRECV`, `BUFRECV`, `BUFSEND`,
`BUFSEND2`; `NEXTDATA` begins and ends inside one call). The parameters of a command
come with its last byte. A byte of data is the place of the disk it belongs to:
`moved` collects the places in the order in which DMA moves them, `asked` is what the
command asked for; `clean` says that nobody has interfered with it, `cut` that a reset by bit 80h has
cut a transfer off. The handler `bios0x12` takes the result, or senses all drives, with
interrupts disabled; that is one instruction of the emulator. The guest programs the channel before a command, does not
seek a drive twice without hearing of it, and otherwise does what it likes, also while
bytes move. `Control` is one write to port 94h, which may reset by bit 10h, by bit 80h, and call
for attention, all at once. A write moves its data when a sector is written: at a terminal count
inside a sector that is the whole sector (`Moves`). After a reset by bit 80h in a write the channel
goes on and the controller takes what it brings for commands (`TakeCommand`).

### Net and Lgy98
Every access of a thread to what another thread writes is a step of its own:
`sendDataToBuffer` is test, copy, move of `writepos`, signal; the write thread is
the loop of `np2net_ThreadFuncW` with `doWriteTap`'s wait, where the device may
take the packet out of the buffer at any time until it completes, or never. A
reset of the machine closes and opens the device, the end of the program closes
it. `ne2000_receive` is one step that may never be taken (`Received`): the card may keep the read thread
for ever (see `Lgy98`), and then `np2net_closeTAP` kills it after ten seconds (`TerminateR`).
The refinement mapping: what waits is the ring from `readpos` to `writepos`,
without the packet that the device already has.

`Lgy98` replaces `Net`'s steps of the read thread inside `ne2000_receive`, and of the
reset of the card, by the code's: header, data page by page, `curpag`, then the bit
of the ISR (a read and a write), then `ne2000_update_irq` (bits read, request made or
withdrawn, flag written), with the driver's accesses on the emulation thread in between. The driver's
start of the card clears a bit of the ISR, again a read and a write (`SetUpEnd`, `Started`). Frames have up to
as many pages as the ring, while the test for room asks for `FRAME` of them.
Pages hold which part of which frame was written to them; `unread` lists the frames
that are complete and not taken, each with the page where it begins. `sound` says that nothing named
under `UnreadIsKept` has spoiled the ring since the driver set it up; `raced`
that both threads were at the interrupt at a time.

### MCMultiThread
Findings 2 and 3 below, and the flag left over that is described after them, would end every check of
`MultiThread` with all handlers. `MCMultiThread` leaves no step out; it adds a history: `inside`, that a
handler has suspended inside the wait of another, and `stale`, that a thread began with
`pausing` left over from the last. Both are forgotten when no handler runs, the flags are clear and the thread goes its
round (`Agreed`). `CountedIsStill` says what it says while neither is so; `ApartHandlersEnd` and
`ApartGoesOn` end also with `inside` or where a command, which suspends with the critical section
held, meets a text being typed (`TextMeetsCommand`).

## 3. Runs

| Run | Asks | Bounds |
|---|---|---|
| `nevent` | types, no duplicates, order, never past an event, no clock lost, called when due, refines `TimerSet`; an armed event is called | 3 events, delays 0, 1, 3, clocks up to 5, overshoot 1, one call per handler, multipliers 2 and 3 |
| `pic` | nesting by priority; what an instruction lets through is taken at once; no request is lost; vsync is postponed, not lost | 3 lines a chip, a slave device on another thread, vsync and timer, ICWs, both modes, ends of interrupt and rotation |
| `interrupts` | service registers agree with handlers; bounded nesting; every request served | 3 lines a chip, timer and two slave devices, 3 requests each |
| `keyboard_safety` | held keys known, the replies those to the last command, queue served, byte announced, refines `KeyQueue` | a repeating key and a shift, two owners, a ring of 2, all commands, resets |
| `keyboard_live` | a key arrives; a command is answered | one owner, the LED command with all its parameters |
| `keyboard_threads` | *violation*: two threads at the ring, a released key stays down | ring of 2, no commands or resets |
| `multithread` | nothing runs while suspended; handlers end; emulation goes on; each but for the named cases | all six handlers, nested in any way up to 3, text of 2 |
| `multithread_nested` | *violation*: Suspend inside the wait of Suspend | two commands |
| `multithread_paste` | *violation*: Suspend inside the critical section while a text is typed | text of 1 |
| `fdc` | exact transfers; request against phase; the CPU steps; commands end; seeks are heard of | 2 drives, 2 sectors of 2 bytes a side, one bad; 2 commands, 1 change, reset or pause; lengths 3 and 8 |
| `net` | refines `PacketQueue`; the head is written; closing ends | ring of 3, two packets, any number of resets |
| `lgy98` | unread frames are kept; what is pending is announced | ring of 5 pages, room asked for 2, frames of 1 to 5 pages, any number of resets, set-ups and acknowledgements |

Why the bounds are enough: the scheduler's decisions compare two clocks at a time,
so that three events give every order, with one before, one after and one equal;
an overshoot of one clock with delays of one makes an event already overdue when the
next period starts. Three lines a chip are the cascade and a line on either side
of it. The instance of `Pic` has one slave device, so that all commands, both modes and
the other thread fit in one run; two devices that nest on the slave are in `Interrupts`. A ring of two is empty, half full, full and wrapped, with resets and both
replies and bytes waiting. Two handlers inside one another are what two threads can
disagree about, and a third finds the flags as one of them left them. A transfer of three bytes ends inside the
second sector, one of eight with the track of two sides; two commands and one mishap overlap in
every order. A ring of three buffers holds two packets: it wraps, fills, and is full
while the device has the first. A ring of five pages with frames of one to five wraps in the middle of a frame and between frames, can be
filled to the brim, and lets a frame in that runs over another.

Deadlock is checked in every run but `multithread`, where the program may really
stop (finding 3). Every property of a passing run is shown to
depend on the code by a mutant of a definition (`PROJECT.json`, "mutants"): the
faulty variants stand before the definitions in the modules.

### Fairness
- `NEvent`: weak fairness of the whole next step. The emulation thread is a loop that
  runs while the program does; it says nothing of what devices or the guest do.
- `Interrupts`: weak fairness of the loop; strong fairness of the steps of a handler,
  since each runs only in turns of the CPU that other events interleave with, and
  handlers are finite code; strong fairness of enabling interrupts (code does not
  keep them disabled for ever).
- `Keyboard`: weak fairness of the sending of a byte and of the callback; strong
  fairness of the event running out and of the guest's service of its interrupt,
  which are disabled while the host's part is at work.
- `Fdc`: weak fairness of the loop (entering it, instructions, DMA cycles); strong
  fairness of the end of a period with its events and frames, which the loop brings
  about at any instruction, and of the guest completing a command, unmasking
  the channel and taking its interrupt. There are finitely many commands and mishaps.
- `Net`: weak fairness of each thread, and of the end of the wait of ten seconds (`TerminateR`). The
  device need not complete a write (`WriteCompletes`), the card need not let go of the
  read thread (`Received`), nor need packets come; `HeadIsWritten` assumes that writes
  complete again and again, `CloseEnds` assumes nothing more: a write thread gives a device that does not answer up
  by itself, a read thread that the card keeps is killed.
- `MultiThread`: weak fairness of each thread's own steps; strong fairness of
  entering the critical section, which Windows does not promise to be first come
  first served, but which either thread leaves for milliseconds of sleep.

## 4. What the checks show of the code

The scheduler, the floppy transfers and the network ring hold all that is asked of them, with the
exceptions below. Three disagreements are
listed as findings and shown by violation runs:

1. **The key ring has two threads and no lock** (`io/serial.c:30`, `:141`). The
   window thread holds the critical section around a key; the emulation thread
   does not take it around a frame. The run: the callback reads the count, the window thread counts the break of a
   key, the callback writes its count back; the break is not counted and the key stays down
   for the guest. A byte can be overwritten the same way.
2. **Suspend does not count** (`win9x/np2.cpp:336`). A handler dispatched by the
   wait of another Suspend returns from its own at once and resets or saves the
   machine while a frame still runs. Its Resume takes back the flag that the outer Suspend waits for,
   which may then wait for ever (`ApartHandlersEnd` excepts it by `inside`).
3. **Suspend with the critical section held** (`np2.cpp:2678`, `:1009`, `:3564`).
   While a pasted text is typed, a menu command waits for the emulation thread and that
   thread for the menu command's lock.

More were met, and their traces found with TLC, without a run of their own here:

- `np2.cpp:383`: a thread that ends leaves `np2_multithread_pausing` set, and a
  Suspend right after the next one starts may not wait (it needs the new thread to be
  held up for 10 ms between lines 4297 and 4303). `CountedIsStill` excepts it by `stale`, until the new
  thread has cleared the flag.
- `io/serial.c:147`: a full ring refuses a byte. If it is the break of a key, the key stays down for the guest
  until its next byte; `HeldKeysAreKnown` excepts that key (`lost`).
- `io/serial.c:148`: with two threads the status bit is set by a read and a write of the
  byte that holds "full", which can bring "full" back after the guest has read the byte, with no
  interrupt, or take it away. `BytesAreAnnounced` and the theorems like it are about one thread.
- `io/pit.c:389`, `pccore.c:1242`: the clear of a bit of `irr` outside the critical section loses a request
  that the network thread makes between its read and its write. `KeepsRequests` excepts it.
- `io/pic.c:366`: unmasking the slave's line on the master with a slave's request
  pending does not force the CPU out, though the comment asks "リセットされたビットは
  割り込みある？" (`UnmaskedIsTaken`). Nor do a write that masks a line whose request held another back
  and, `pic.c:325-349`, an OCW3 that changes special mask mode and ICW1. `LetThroughIsTaken` names
  these four and its proof goes through all the other writes. The request is served at the end of the period.
- `io/pic.c:328`: an OCW3 that sets special mask mode without a read command has
  no effect (`SpecialMaskIsSet`), though `update.txt:334` lists the mode as supported.
- `pccore.c:1603`: the comment at `nevent.c:225` says that the automatic clock change
  meets a fresh period; clocks run past the end of the last one make it take the other
  branch (`AdjustedAtPeriodStart`). It scales both counters and keeps every invariant.
- `io/fdc.c:1092`: a reset of the controller by bit 80h in the middle of a transfer
  does not take the DMA request down. The channel runs on to its terminal count with
  no one listening; the next read finds `tc` set and ends after one byte, or finds the
  channel used up and never ends. In a write the controller takes the memory for
  commands. `ChannelServesPhase` says that nothing else leaves the request up or `tc` set (`cut`) and that
  the next result puts an end to both; `CommandEnds` excepts what follows until then.
  The reset by bit 10h, which does call `dmac_check`, needs no exception.
- `io/fdc.c:398`: at a terminal count inside a sector the whole sector is written, its rest from what the
  buffer held before. `TransferIsExact` counts it.
- `bios/bios12.c:44`: an interrupt of a seek that is handled in the data phase of a read
  takes the data for a result. The guest's transfer is lost, the command still ends.
- `fdd/diskdrv.c:234`, `:258`: exchanging a disk sets `fdc.us`; a command in progress
  goes on with that drive. `TransferIsExact` excepts it; commands still end.
- `io/dmac.c:204`: the master clear masks the channels without `dmac_check`, one
  that is at work stays so.
- `network/lgy98.c:301`: the test for room counts the page at `boundary` as free. A frame
  that ends there makes a full ring look empty, and the frames in it are not seen
  again (`UnreadIsKept` excepts it by `sound`).
- `network/lgy98.c:301`, `:350`: the test asks for room for the largest Ethernet frame, but frames up to the size of the
  ring are let in; a larger one (the host may have jumbo frames) runs over frames not yet taken. Excepted too.
- `network/lgy98.c:1026`: a reset opens the device first (`np2net_reset`), so that the
  new read thread may be inside `ne2000_receive` when the card is cleared: the copy
  loop never ends if `stop` has become 0, so that `np2net_closeTAP` kills the thread at the
  next reset (`TerminateR`, `KillReader`), or `curpag` moves after the driver
  has set up the ring.
- `network/lgy98.c:428`, `:449`, `:521`: the two threads change the ISR without a lock. A bit
  that is set can be written away, or one acknowledged come back, and `irqflag` can
  say that a request was made that was withdrawn. The time limit of 2 ms in
  `ne2000_update_irq` makes up for the last; a bit that is lost stays lost until
  the next frame.
- `network/net.c:143`: packets sent while there is no device (it could not be opened)
  stay in the ring and are written to the next device that opens. `PacketQueue`
  states what the code does.
- `network/net.c:114`: a write thread told to end leaves the device with its buffer and
  its `OVERLAPPED`, which is on the thread's stack. The model ends with the thread.

## 5. What is proved

Every invariant and every action property of the passing runs is also a theorem, and so are the
three refinements. Some of those of `KeyboardProofs` have the hypothesis of their passing run, one thread, and
finding 1 shows that it is needed. What a property excepts, by a history variable or by name, its
theorem excepts too; section 4 says why. TLC checks them on the instances of section 3; the theorems hold
for all values of the constants that the assumptions named below allow. Each module
proves `Init => Inv`, `Inv /\ [Next]_vars => Inv'` with one lemma for each action, and what
follows from `Inv`.

### NEventProofs
For every set of events, delays, costs and multipliers (`ClockAssumption`: delays are
naturals, costs and multipliers positive, the longest period within the range of a clock):

- `TypeCorrect`: `[]TypeOK`; `NeverDuplicated`: `[]NoDuplicates`;
  `AlwaysSorted`: `[]LevelSorted`; `NeverOversleeps`: `[]NoOversleep`,
- `CpuMovesTime`: `OnlyCpuMovesTime`, where a change of the multiplier may round what has elapsed by
  less than two clocks, and nothing is said of one with nothing armed; `CalledOnlyWhenDue`: `CalledWhenDue`,
- `TimersImplemented`: `ImplementsTimerSet`, the refinement of `TimerSet`.

None of the invariants is inductive alone, and each needs the others: removing an id from
`level` needs it to be there once; the place for an insertion exists because
the array is sorted; the period ends with the first entry because the array is sorted.
The inductive invariant `IInv` adds `QueueInv`: outside of `nevent_execute` the
batch is empty and its index at the start, a callback runs for an entry of it, and
`nevent_progress` starts with the period used up. The last is what keeps the next period from
reaching past its own end. Expiry rests on `SelectionSorted` (a selection of a sorted array without
repetition is one too), the change of the clock on `ScaledClockMonotone`: the
rounding of `nevent_changeclock`, C division included, keeps the order.
The other three need `DispatchInv`, which adds to `IInv` what the flag means between
`nevent_progress` and the callback (`BatchInv`: an id with `NEVENT_SETEVENT` set has been collected and
not called, is due, and has not been armed again; what is under way is in the order it fell due) and
that the period and what is left of it are bounded (`BoundInv`): then a step of the
scheduler is one of `TimerSet`, or a stutter.

### PicProofs and InterruptsProofs
For chips of any number of lines, any devices on either thread, any masks, commands and
modes the guest may write (`PicAssumption`):

- `TypeCorrect`: `[]TypeOK`,
- `AlwaysNests`: `NestsByPriority`; `RequestsAreKept`: `KeepsRequests`;
  `VsyncIsKept`: `KeepsVsync`; `AlwaysLetThrough`: `LetThroughIsTaken`.

`KeepsRequests` and `KeepsVsync` are about the clears of `irr` in two steps: `CopyInv` says that
what a pending write-back takes away is the timer's, is postponed to the next vsync, or came from
another thread since the read, and that `pic_irq` does not run in between. What came from another thread
is what `KeepsRequests` excepts. `LetThroughIsTaken`, but for the four writes it names, needs
the line of highest priority among those let through to exist and to be the one `pic_irq`
takes; `Rank` is a rotation of the lines, its least element is found by `WellFoundedInduction`.

For the guest of `Interrupts`, whose handlers end as the BIOS's do:

- `EoiFindsItsInterrupt`: `[]InServiceIsAtWork`; `NestingIsBounded`: `[]BoundedNesting`.

`GuestInv` adds to the first that handlers lie on the stack in the order of their
priorities (`HandlersInv`) and that only the top one is past its work, with interrupts disabled.
So the line in service with the highest priority, which an end of interrupt without a number
takes, is that of the top handler.

### KeyboardProofs
For any keys and owners and rings of any size that hold one byte for each key
(`KeyboardAssumption`; the queue of replies has room for the three bytes of the longest
answer, and "no byte" is not one of the bytes):

- on one thread or two: `QueueAlwaysServed`: `[]QueueIsServed`,
- with `~ THREADED` as hypothesis: `TypeCorrect`: `[]TypeOK`; `BytesAreAnnounced`: `[]ByteIsAnnounced`;
  `RepliesAlwaysWhole`: `[]RepliesAreWhole`; `QueueImplemented`: `ImplementsQueue`, the refinement of
  `KeyQueue`; `GuestKnowsKeys`: `[]HeldKeysAreKnown`.

The hypothesis is not a convenience: with two threads at the ring and its status a count or a bit is written back
over a newer one (finding 1, `serial.c:148`). `CommonInv` is the invariant of either build: types but for the ring's count, that the sender
and the callback are where their flags say, and that whatever is queued has the event armed or
someone about to arm it. `RingInv` says that on one thread the parts of a byte put in or taken out
do not overlap, so that the values read before are those at the write. `KnownInv` follows what the bytes
on their way tell: `ToldConcat` (bytes are told in order, the later win), `HostTells` (the host
sends what makes the difference) and `ResetTells` (after a reset all held keys are sent
again to an empty table). It does so key by key, for those that are not in `lost`. `ReadInv` is about the register:
what it announces, and that it and the queue of replies hold what the guest waits for.

### MultiThreadProofs
For any set of handlers, any of them inside the waits of others, any nesting and any text:

- `TypeCorrect`: `Spec => []TypeOK`,
- `SuspensionHolds`: `TracedSpec => []CountedIsStill`.

The property is far from inductive: that no frame runs while a handler works on the
machine follows from the way there. `PhaseInv` divides the outermost handler into phases
(nothing suspended, waiting for the pause, holding it, waiting for the end of the thread, waiting for the
end of the pause) and says for each what the flags are and at which lines the emulation thread
may be; `QuietInv` that no other handler has suspended. Both hold while `inside` and `stale` do not (`MeantInv`), and
when these are forgotten `AgreedMeans` shows them anew from the flags. `ExitsInv` holds whatever happens: only the
outermost handler exchanges threads, and there is one to wait for.

### NetProofs and Lgy98Proofs
`NetProofs` proves, for a ring of every size (two buffers or more, `NetAssumption`) and
any set of packets, that

- `TypeCorrect`: `Spec => []TypeOK`,
- `RingIsQueue`: `Spec => ImplementsPacketQueue`, that is, the ring implements `PacketQueue`.

The refinement holds in states where the threads keep apart, which is what the inductive
invariant `IInv` says: `SendingInv`, that between its test for room and the move of
`writepos` the emulation has a free buffer, which the write thread cannot reach since it only
makes more room; `DrainingInv`, that from its test to the move of `readpos` the write thread
has the oldest packet, which stays in its buffer; `DeviceInv`, that the device is open
while a thread uses it. `Invariance` proves `Spec => []IInv`. What waits is a sequence made from
positions modulo the size: `RingTail`, `RingEmpty` and their neighbours say how it changes when
one of the positions moves. Then every step is one of `PacketQueue`, or a stutter.

For the card, with a ring of any size and frames of any number of pages up to that of the
ring (`CardAssumption`):

- `AlwaysAnnounced`: `[]PendingIsAnnounced`, but for what both threads do at a time (`raced`);
  `UnreadAlwaysKept`: `[]UnreadIsKept`, until something spoils the ring (`sound`): a frame larger than the room
  asked for that runs over others, one that comes up to `boundary`, a reset.

`AnnounceInv` says where the two threads are in `ne2000_update_irq` and what they have seen, as long as
they have not been there together. `RingInv` is about the ring: `Placed` says by distances from the
page that the driver reads next that the unread frames follow one another up to `curpag` and
leave at least a page free; `Whole` that each is in the memory with its header; `CopyInv` that the frame
the read thread is copying begins at `curpag`, fits before that page, and is there up to the page
it is at. The test for room of `ne2000_receive`, or the size of the frame, gives the room; the driver only makes more of it.

### FdcProofs
`FdcProofs` proves, for any number of sectors, bytes and drives, any bad sectors, lengths and
bounds on commands and mishaps (`FdcAssumption`, `DmacAssumption`), that

- `TypeCorrect`: `Spec => []TypeOK`,
- `ServesPhase`: `Spec => []ChannelServesPhase`: with a result the channel is at rest, whatever came before; a request
  outside a data phase, or a terminal count that is kept, has the reset by bit 80h as its one cause (`cut`),
- `StepsWhenWorking`: `Spec => []WorkingIsStepped`,
- `TransfersExact`: `Spec => []TransferIsExact`, for transfers nobody interferes with (`clean`).

`WorkingIsStepped` is inductive only with `WorkInv` (`dmac.work` is what mask and request make of
it, and `dmac.working` part of it) and `LoopInv` (a DMA cycle comes only in the loop that steps,
and no instruction begins with a forced exit pending): `ChannelStep` says what every part of a
step does to the channel, that it starts only by forcing the CPU out. `ChannelServesPhase`
needs `RegisterPart`: a result is never held back by the request, and the buffer is not empty while
the data phase lasts; `CutPart`: the request is up in a data phase, and elsewhere, as a terminal count, only after a
reset by bit 80h; and `WayPart`: the direction of the channel is that of the command, but for such a reset, so
that a DMA cycle reaches the controller. The parts of the commands (`Answer`, `Data`, the ends of
sectors, sides and tracks) have one lemma each, which says that they begin the result phase with the
request down or go on with the data phase; `Invariance` has one lemma per action.

`TransferIsExact` compares what has been moved with the bytes of the track, which `Track` lists by
quotient and remainder. `TransferInv` says for a transfer in its data phase that the registers are on the
asked part of the track (`OnTrack`), that what has been moved is all that precedes the sector at
hand (`Base`), and in a read the bytes that have left the buffer, and that the rest of the programmed
length is what the channel has left to count; in the result phase, that all has been moved or
the next sector fails. `SectorFollows`, `SideFollows` and `TrackEnds` say what `FDC_ReadData` and
`FDC_WriteData` do to that position at the end of a sector, of a side and of the track;
`Prolongs` that the bytes of a sector prolong what has been moved.

### What is only model-checked
Liveness: `NoStarvation`, `RequestsAreServed`, `KeyReachesGuest`, `CommandIsAnswered`, `ApartHandlersEnd`,
`ApartGoesOn`, `CommandEnds`, `SeekIsSensed`, `HeadIsWritten`, `CloseEnds`. Fairness and ENABLED are out of the
prover's reach. The properties of the violation runs are false. Induction over data is
not available to the installed provers, so that what a recursive definition computes cannot be
proved; no module uses a RECURSIVE operator. Where a definition could be given by a fold or in
closed form, the closed form stands in the module (`Told` of `Keyboard`, `Track` of `Fdc`); that it
equals the fold was checked with TLC on the instances.

## 6. Plan

Modules, in order of importance:

1. `NEvent`, `TimerSet` with proofs – done.
2. `Pic`, `Interrupts` – done.
3. `Keyboard`, `KeyQueue` – done.
4. `MultiThread` – done.
5. `Net`, `PacketQueue` with proofs, `Lgy98` – done.
6. `Dmac`, `Fdc` with proofs – done.
7. `Pit`: the interval timer's modes with PICMASK, over `TimerSet` as its scheduler.
8. `SoundIrq`: OPN timers and PCM FIFO on a shared line, callbacks that ignore `NEVENT_SETEVENT`.
9. `Rs232c` FIFO, `SoundStream` lock, `Mouse`.
10. IDE/ATAPI and its asynchronous read; MIDI.

Abstract specifications: a FIFO for RS-232C, a mutual exclusion
for the sound lock, a level-triggered line for the shared interrupts.

Proofs: all that the runs check but liveness is proved. Left are the invariants that liveness
arguments would rest on (a bound on the rounds of `nevent_execute`, the measure that
falls while a command of `Fdc` goes on), and the theorems of the modules planned above.

## 7. Not modelled, and why

- Instruction sets, FM synthesis, drawing, accelerators, code conversion, fonts: data
  processing, out of a model checker's reach and without a protocol. Much of it
  (`mame`, `cirrus_vga`, `zlib`) is third-party.
- HAXM and WHPX, host graphics, sound and file access: system calls.
- Saved states and disk images: file formats.
- `nevent_forceexecute` (a CD-ROM wait cut short by a reset) and
  `nevent_setbyms` (a conversion before `nevent_set`).
- The kill of an emulation thread that does not end in 20 seconds: what
  it leaves behind has no defined state.
- Formatting, the non-DMA mode and the other channels of the DMA controller; the
  bytes of remote DMA and the address filter of the network card.
- IDE, SASI, SCSI and MIDI: large command interpreters whose concurrency is one
  thread for CD-ROM reads.
- The keys that lock, key tables and joypad-as-keys of the keyboard; the guest's
  buffer of key codes.
- What section 6 plans.
