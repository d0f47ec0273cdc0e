# A specification of jayphenOS

TLA+ modules for jayphenOS, a small x86-64 kernel with its own UEFI boot
loader, ELF loader, page allocator, keyboard input, frame-buffer terminal and
OHCI USB driver. Each module is written from the C source; `PROJECT.json` maps
every definition to the lines it stands for.

## 1. The system

### Inventory

| Component | Source | State | Operations |
|---|---|---|---|
| Boot loader | `bootloader/` | region tables, map buffer and key, the program loaded | `UpdateMemoryMap`, `GetFile`, `ReadFile`, `LoadElf`, `SystemDispatcher`, `ReadLine` |
| ELF loader | `elf_loader/elfloader.c` | program header table | `elfloader_read`: check, measure, copy |
| Boot order | `system/StartKernel.c`, GDT, IDT, TSS, PIT | descriptor tables, interrupt flag, PIC masks | `main` up to the prompt |
| Page allocator | `system/kernel/Allocator.c` | `FreeList`, run headers in memory | `InitializeAllocator`, `AllocatePages`, `FreePages` |
| Interrupts and time | `system/elf_libc.c`, `Interrupts.c` | `gInterruptStack`, IF, PIC in-service bits, `TickCount` | `DisableInterrupts`, `EnableInterrupts`, `IRQHandler`, `SleepMS`, `Panic` |
| Keyboard input | `Input.c` | ring of 16 events, keys held, poll position | `InputPushKeyboardEvent`, `InputPollCharacterEvent`, `InputNextCharacterEvent`, `InputReadLine` |
| Key map | `Input.c` | none (`gInputCapsLock` is written with the queue) | `InputScancodeToASCII`, `InputScancodeIsASCII` |
| Terminal | `Terminal.c` | `Position`, the frame buffer | `TerminalPutChar`, `TerminalPutString`, `TerminalClear` |
| OHCI transfers | `Drivers/USB/OHCI.c` | host controller lists, one control request in flight, HID transfer descriptors | `OHCISendControlRequest`, `OHCIInterruptHandler` |
| USB device set-up, hubs | `Drivers/USB/OHCI.c` | `gOHCI.Devices`, addresses on the bus, tree of periodic endpoints | `OHCIInitializeDevice`, `OHCIDetect...Device` |
| PCI scan | `PCI.c` | the function under examination | `ScanPCIBus`, `ScanPCIDevice` |
| Shell | `StartKernel.c` | line buffer | the prompt loop |

### How they interact

The boot loader collects the firmware's memory map and loads the kernel, which
calls back through `SystemDispatcher` for the memory layout. The allocator
numbers the conventional pages of that layout and serves the set-up code and
the OHCI driver from the foreground only; interrupt handlers never allocate.
Interrupt handlers share three things with the foreground: `TickCount`
(written by the timer handler, read by `SleepMS` and by the input code), the
ring of keyboard events (written by the OHCI handler, read by
`InputPollCharacterEvent`) and the transfer state of the OHCI driver
(`gOHCITransferComplete` and the done queue). `DisableInterrupts` and
`EnableInterrupts` nest through `gInterruptStack`, which handlers use too.

### Why each part is hard, and what makes it correct

- **Page allocator.** Two orders in one list (by address at line 110, by index
  at line 133), a conversion that can panic half way through a split, and
  merging on both sides. Correct means: no page is lost or has two owners, free
  runs are merged, and the kernel stops for lack of memory only when there is no
  stretch of memory left that is long enough.
- **Interrupts and time.** Every two instructions of the foreground may have
  handlers between them, and the USB handler may be interrupted from its `sti`
  to its return. Correct means: the count of open sections is what is open on
  every stack frame, a section is never interrupted, every end-of-interrupt
  command, which names no input, ends the sender's own interrupt, and a sleeper
  wakes although a tick between its comparison and its `hlt` goes unnoticed.
- **Key queue.** A writer in an interrupt handler and a reader with no lock that
  knows how far it got by a tick only. Correct means: events arrive in the order
  of their ticks, once, and the reader is never stuck.
- **Prompt and terminal.** The line buffer, its count, the cursor and the
  characters on the screen are changed by separate statements for every key.
  Correct means: the line is what was typed, and so is what the screen shows.
- **OHCI driver.** Foreground, handler and host controller work on the same
  descriptors in memory; the foreground polls one flag with a timeout. Correct
  means: a request succeeds by its own completion, the handler comes to the end
  of every done queue, and a device's only descriptor is never lost.
- **Boot loader and ELF loader.** The firmware's memory map is asked for twice
  per update and can change in between; four tables with a limit lie one behind
  the other; the kernel keeps a pointer to tables that are rewritten after it got
  it; a program's size is measured in one pass and its pages taken before the
  next. Correct means: the layout the kernel allocates from is the memory when the
  firmware is gone, no page of the kernel is in it, and an image is its file.
- **Boot order.** Interrupts are on from the first line that is printed, while
  the tables, the vectors and the masks under them are exchanged. Correct means:
  outside of known windows no interrupt meets a missing gate or a handler without
  its controller, each controller is started once, and the prompt is reached.
- **Device set-up.** All ports are enabled before the first device has an
  address, hubs are set up in the middle of it, requests may fail at each of its
  steps, and reports come in all the while. Correct means: an address has one
  owner, a report finds the device it came from, every device is polled as often
  as it asks, and none is missed.

## 2. The modules

| Module | Models | Uses |
|---|---|---|
| `Allocator` | `AllocatePages`, `FreePages`, their panics, the free list | instantiates `PagePool` for the refinement |
| `PagePool` | the abstract specification: a set of free pages and the stretches callers hold | |
| `MemoryLayout` | `PageIndexToMemoryAddress`, `MemoryAddressToPageIndex`, the page count | |
| `Allocator_proofs`, `AllocatorOrder_proofs` | proofs about `Allocator` | |
| `Interrupts_proofs`, `Input_proofs`, `Prompt_proofs`, `OHCITransfers_proofs` | proofs about the module each is named after | |
| `Startup_proofs` | proofs about `Startup` and `DeviceSetup` | |
| `BootLoader_proofs` | proofs about `BootLoader`, `MemoryLayout` and `ElfLoader` | |
| `ElfLoader` | `elfloader_read` and the contents `ReadFile` gives it, as functions of a file | |
| `BootLoader` | the loader from `EFIMain` to `ExitBootServices`: memory map, programs, the kernel's calls back | extends `ElfLoader`, `MemoryLayout` |
| `Startup` | `main` from its first line to its prompt: GDT, TSS, IDT, PICs, PCI scan, start of each controller | extends `DeviceSetup` |
| `DeviceSetup` | `OHCIInitializeDevice`, HID devices, hubs, mass storage, the tree of periodic endpoints | instantiates `ControlRequests` for the outcomes of a request |
| `ControlRequests` | the abstract specification of `OHCISendControlRequest`: four outcomes and an endpoint that halts for good | |
| `OHCITransfers` | `OHCISendControlRequest`, `OHCIInterruptHandler`, the host controller | instantiates `ControlRequests` for the refinement |
| `Interrupts` | `DisableInterrupts`, `EnableInterrupts`, `SleepMS`, the timer handler, the frame of the USB handler, the two PICs | |
| `Input` | `InputPushKeyboardEvent` with caps lock, `InputPollCharacterEvent`, `InputNextCharacterEvent` | instantiates `Keymap` |
| `Keymap` | `InputScancodeToASCII`, `InputScancodeIsASCII` as operators on scan code, shift and caps lock | |
| `Terminal` | `TerminalPutChar`, `TerminalPutString`, `TerminalClear` as operators on a screen | |
| `Prompt` | `InputReadLine` and the command loop of `main` | extends `Terminal` |
| `MC...` | the instances that the runs check | `MCAllocator` takes its addresses from `MemoryLayout` |

`ControlRequests` joins the two halves of the driver: `OHCITransfers` shows that
descriptors, queues and interrupts implement it, and `DeviceSetup` takes one of
its outcomes for each request instead of the descriptors. In the same way
`PagePool` and the assumptions of `Allocator` stand between the allocator, its
callers and the layout that `BootLoader` produces.

### How state and actions correspond to the code

**Allocator.** A page is named by its index. `NumberOfPages` is the size word of
the run that begins at a page (0 where none does), `FreeList` the linked list as
a sequence, `live` the runs callers hold, `panic` the message the kernel stopped
with. `AllocatePages` is one action with three outcomes for the best run
(`TakeWhole`, `Split`, `SplitPanics`) and one for none (`OutOfMemory`).
`FreePages` is one action: it links the run in at a place (`ReleasePoint`),
merges it before (`JoinedHead`, `JoinedSize`) and then after (`TouchesAfter`).
No interrupt handler allocates or frees, so each call is one step.

**BootLoader.** `mem` is the memory as the firmware (external) keeps it, a type
for each page; its map has one descriptor per stretch, listed from any page on
(`listing`), and it may ask for more room than it returns (`spare`).
`UpdateMemoryMap` is three steps, since the firmware may take or give back memory
between its two `GetMemoryMap` (`FirmwareEvent`), and every allocation makes the
key stale. The four tables are one row of cells, as in `struct MemoryLayout`, so
a table that is full runs over into the next. `LoadElf` is a step each for the
entry of the directory, the contents, the measuring pass, the pages and the
loading pass. The kernel is the program that goes on with `GetMemoryLayout`.

**ElfLoader.** A file has cells instead of bytes; the cell at offset *i* holds
the value *i*, so an image says where each of its cells came from.

**Startup.** `pc` is where `main` is. A selector is looked up in the table of the
moment (`Selected`), a PIC is its open inputs, its vectors and whether it is in
the middle of its initialisation; each write to it is a step. An interrupt that
is served changes nothing here and is no step; `Stray` is one that finds no gate,
`Unserved` one whose handler looks at another controller's registers or at none,
`Fault` one whose handler reads through a null pointer: `gOHCIRegisters`,
`HCCABase` or the `Interface` of device 0 (`NullPointers`). Each may also read
what is mapped at address 0 and return, which is no step.
PCI functions are examined in the order of the code, which reads function 0 for
each of them.

**DeviceSetup.** `listens` is the bus: the address each device answers at. A
control request is one step with an outcome of `ControlRequests`, the devices
that took it and the one whose data arrived; it goes to an address, and whoever
listens there may take it. The packet size is what the descriptor in the buffer
says (`PacketSizeIn`): that of the device whose data arrived, else 0. `step`, `current` and the stack `loops` are where
`OHCIInitializeDevice` and the loops over ports around it are. `NextED` are the
links of the 31 endpoints of the tree and of one per device.

**OHCITransfers.** `NextTD` is the link in every descriptor; the same word links
an endpoint's list and the done queue, as in the hardware. The foreground's
steps are the groups of stores of `OHCISendControlRequest`, in their order. The
controller (external) samples the enable bit and writes the done queue back at
the beginning of a frame, executes one descriptor per step and puts it in front
of its queue; it goes on while the handler runs. Data stages are one or none. Between
the enabling of the list and the clearing of the flag (`OHCI.c:1117-1119`) the
foreground executes a few instructions, in which at most one frame begins, and one
more each time the handler has come in between (`framed`). A request that begins while an
earlier one's descriptors are with the controller or in a done queue
(`LeftBehind`) sets `overlapped`: from then on lists may run into each other, and
only the contract is claimed.
The refinement of `ControlRequests` maps a request in progress to `busy`, the
halted bit at its beginning to `halted`, and what it returned, with what the
devices had answered by then, to `outcome`. `Alone`, the constant of the contract
that rules out `Early` returns and late errors, is "no HID device, and every
device answers in time". `answered` names the descriptors of the request in
progress and is emptied when its list is linked (`LinkTDs`), so that one left
over from an earlier request does not count for it. `ListAlong` is the list from
a descriptor on, as the least set closed under the links: the done queue and the
endpoints' lists are sets of descriptors wherever the links lead.

**Interrupts.** One step is one instruction where an interrupt on either side
would differ: the increment of `gInterruptStack` and the `cli` are two steps.
`frames` is the stack of handlers. The handler's own `DisableInterrupts` is one
step because the flag is already clear there.

**Input.** `ScanSlot` is one turn of the search loop, `CopyEvent` the copy of
the slot that was found. A handler is one step, since the reader cannot run
before it returns. Three variables are history: `pushed`, every event ever put
into the ring; `overwritten`, those that were still ahead of the reader when
their slot was reused; `delivered`, the sequence of those the reader copied out.

**Prompt.** A step of the program puts text into `output`, and `PutChar` prints
one character of it; the program goes on when `output` is empty. `OutBuffer` has
one byte more than the code's buffer, the one behind it. The cells of a screen
hold the set of glyphs drawn since they were last blanked.

**Keymap.** Characters are symbols. Caps lock is switched in `Input`, by the
report in which its key goes down.

## 3. What the runs check

| Run | States | Shows |
|---|---|---|
| `allocator` | 11,036 | `TypeOK`, `NoPageLostOrShared`, `FreeListSorted`, `FreeRunsCoalesced`, `OutOfMemoryIsReal`, `PageIndexPanicIsTheLastPage`, and that the allocator implements `PagePool` (`ImplementsPool`) |
| `boot` | 1,470,434 | `KernelSeesTheFinalMap`, `KernelIsNotFreeMemory`, `ImageIsTheFile`, and that every layout the loader hands over is numbered as `Allocator` assumes (`AddressesAreAsAssumed`: the two walks of `Allocator.c` end in the table and are inverse, the first page is withheld) |
| `startup` | 147,127 | order and interrupts: `StopsHaveACause`, `HandlerFindsItsState`, `ControllersAreStartedOnce`; devices: `AddressIsOwn`, `ReportsFindTheirDevice`, `PolledOnTime`, `EveryDeviceIsFound`; `KernelComesUp` |
| `startup_functions` (violation) | | a controller at another function than 0 of a flagged device is never started |
| `ohci_control` | 374 | every step of three requests with errors is a step of `ControlRequests` or a stutter (`KeepsToRequests`) |
| `ohci_reports` | 206,798 | two requests beside a device that reports implement `ControlRequests` (`ImplementsRequests`); until they overlap, also with its fairness, `ReportIsInOnePlace`, `GivenUpOnlyIfMissed`, `DevicesKeepReporting`, `HandlerReturns` |
| `ohci_error` (violation) | | a request that met an error is reported as successful |
| `interrupts` | 1,511 | `NestingBalanced`, `SectionsAreExclusive`, `EOIEndsOwnInterrupt`, `OnlyFinishedHandlersAreInterrupted`; `SleepersWake`, `USBIsServed` |
| `input` | 308,795 | `SkippedOnlyWithinATick`, `DeliveredOnceInOrder`; `EveryEventIsPassed`; in every state of caps lock every printable character has one key, `InputScancodeIsASCII` agrees with the table, and caps lock swaps cases only (`EveryCharacterHasOneKey`) |
| `input_same_tick` (violation) | | of two keys that go down in one report the reader gets one |
| `prompt` | 236,572 | `LineIsWhatWasTyped`, `ScreenShowsTheLine`, `OffScreenOnlyAfterScrolling`; `OverrunOnlyWhenFilled`, `ControlCReturns` |
| `prompt_echo` (violation) | | a line entered right after a backspace still has the erased character |

For every property of a passing run, `PROJECT.json` names a mutant of a mapped
definition, such as a dropped guard or an off-by-one, under which the property
fails; the mutants stand beside the definitions they change.

### What the violation runs say of the code

- `InputPollCharacterEvent` takes only events with a later tick than the last
  one (`Input.c:450`), and all events of one report have the same tick.
- A backspace clears `OutBuffer[Index--]` (`Input.c:504`): the byte behind the
  line, not the one erased.
- The handler completes a request on any of its descriptors and whatever the
  condition code (`OHCI.c:1212-1213`), so a failed request succeeds.
- The scan of a PCI device's other functions reads function 0 for each of them,
  and takes bit 6 of the header type for the flag in bit 7 (`PCI.c:126`, 132). The
  comment at line 120 says that they are checked if flagged.

### What else was met while modelling

These contradict no comment or test, so no run is made for them. Most are
hazards in `PROJECT.json`, and the properties state exactly what remains true.

*Allocator*
- The free list begins as one run over all regions (`Allocator.c:77`), so a run
  can span the hole between two regions; its page indexes follow one another,
  its addresses do not.
- `PageIndexToMemoryAddress` increments before it compares (`Allocator.c:21`),
  against a `TotalPages` from which the withheld page was already taken off: an
  allocation whose best run is one page longer and ends memory panics although
  the page exists. `PageIndexPanicIsTheLastPage` says that this is the only case.

*Loaders*
- With a firmware that asks for no more room than it returns, or memory that
  shrank since the last call, the second update leaves all tables empty
  (`uefiboot_libc.c:116`), and the kernel has no memory.
- Program headers are stored at their index in the file but counted without
  gaps (`elfloader.c:228`, 240): a program whose headers to load are not the first
  of its table is loaded in part. `ReadFile` takes a line end off programs too
  (`uefiboot_libc.c:504`), and without memory for an image the program is called
  all the same (line 711).
- The buffers of the memory map, of directory entries and of files that were not
  valid are never given back; `BootLoader` keeps them in `mem`. The loader's line
  editor has the backspace of `Input.c:504` (`uefiboot_libc.c:601`) and no bound on
  the 256 bytes of its line.

*Boot order and PCI*
- Interrupts are on under tables that do not belong together: from
  `GlobalDescriptorTable.c:60` to the masks in
  `ProgrammableIntervalTimer.c:17-18` an interrupt can meet the firmware's
  selector in the kernel's table, a vector without a gate, or the vectors of the
  firmware. `StopsHaveACause` names these windows.
- An interrupt of another controller on the same line, before `gOHCIRegisters` is
  set (`OHCI.c:562-564`), is handled through a null pointer. So is one of a
  controller that its firmware has left at work, before `HCCABase` is set (line
  614), and every report: device 0 is active and has no `Interface` (lines
  715, 1218-1220). `StopsHaveACause` names each of them. With two controllers
  one `gOHCIRegisters` serves both, and an interrupt of the first is never
  acknowledged and returns for ever.
- `IRQLine` is trusted: 0 takes the gate of the timer, after which no sleep
  returns; 255 (none assigned) is beyond the table and panics.

*USB*
- All ports are enabled before the first address is given (`OHCI.c:649`), so two
  devices can take the same address from one request, and one that was not
  verified leaves its address to the next (line 768). `AddressIsOwn` says that
  there is no other way.
- A request that succeeds without its data, or a descriptor that says so, leaves a
  packet size of zero, by which the next one divides (`OHCI.c:1058`).
- The handler can complete a request before line 1119 clears the flag; the request
  is then given up after its 100 ms although it was answered.
  `GivenUpOnlyIfMissed` says that nothing else makes a patient device's request
  fail.
- A request that is in progress when a HID report causes a write-back is
  completed by its own setup descriptor (outcome `Early` of `ControlRequests`).
- `DoneHead = 0` in the foreground (`OHCI.c:1115`) can discard a report that has
  just been written back, and its device then never has a descriptor again
  (`lost`). The handler also clears the word, so the foreground need not.
- A request that returned early, or timed out, leaves descriptors with the
  controller, and the next one rebuilds them in place; reports can be cut off from
  their queue, and the done queue can become a circle, which the handler walks for
  ever with interrupts off. The properties of `ohci_reports` other than the
  contract are therefore claimed until `overlapped`; the run goes on beyond it.
- Nothing clears the Halted bit of the control endpoint: after one error every
  request times out.
- A string descriptor of length 0 makes `OHCIDeviceGetString` write before its
  buffer, and `RequestStorage` has 64 descriptors whatever a request asks for;
  the model has no strings and one data stage.
- The reset of a hub's port is given 1 ms, less than it takes; a port that is not
  enabled by then is passed by (`PortNotEnabledYet`).

## 4. Bounds

- *Allocator*: ten pages in two regions with a hole, requests of 0, 1, 2 and 4
  pages plus the header page. Runs of up to ten pages, all four cases of
  merging, both panics and a full list occur. The proofs need no bound.
- *Interrupts*: three nested sections (the code nests two), sleeps of up to
  three ticks, and up to four handlers on the stack; a fourth can only stand on
  three that are all past their work, so more repeat the same situation.
- *Input*: a ring of four slots for three keys, four reports, three ticks. A
  ring larger than the number of keys is what the code has (16 slots, six keys
  in a report), and four reports overflow the ring of four. The clock saturates,
  which lets more reports share a tick than in the code. `ReportsPerPoll = 1`:
  a scan of 16 slots takes microseconds, and USB reports are a millisecond or
  more apart. With two reports in one scan `SkippedOnlyWithinATick` fails: the
  older event can be in a slot the scan has already passed, the newer in one it
  has not.
- *Prompt*: a buffer of four bytes on three rows of four cells; the prompt, the
  line, the error text and the echo together scroll the screen at every point of
  a line, and a line can fill the buffer exactly.
- *Keymap*: none; all 227 scan codes. The keys of `Input` are caps lock, delete and
  control.
- *BootLoader*: seven pages whose map has four to six descriptors in every
  rotation, tables of three regions, one or no spare descriptor, and one change
  by the firmware at any point. A table is exactly full or overflows into
  the next; the map grows beyond its buffer between the two calls; pools and
  images find no memory. Six programs: one in order, one with a header before its segments, two
  with line ends, one invalid and one with too many headers, run in any sequence
  before the kernel.
- *Startup* and *DeviceSetup*: five machines: a controller among other functions
  whose bus has a hub, a keyboard, a mouse and a disk; two controllers; and one
  each with an `IRQLine` of 255 and 0 and with a base address that is not memory.
  Slot 0 of the device table is taken, so five slots are four addresses for four
  devices. `MaxTroubles = 1` request is not answered although it could be, at any
  step (two pass as well, with 453,412 states). The disk's descriptor says 8 or 0
  for the packet size, the others' 8. Two other inputs may be raised, one of each
  PIC. `FirmwareCS` is a selector the kernel's table does not have.
  `startup_functions` has one machine with a flagged device, and no devices on its
  bus.
- *OHCITransfers*: without HID devices, three requests let the first fail, halt the
  endpoint and be followed by others. `Errors` is the set of requests that may be
  answered with an error: all three there, the first of two beside a device that
  reports. Two requests are what overlapping takes, and a report and a request
  give done queues of every mixture; one request beside two devices passes too
  (125,220 states). `KeepsToRequests` also holds for two requests beside a device
  whose answers may be late (1,958,360 states). One data descriptor stands for
  all: they are alike, in a row, and ask for no interrupt.

## 5. Fairness

- *Interrupts*: the timer runs by itself (weak fairness). A pending interrupt is
  looked for at the end of every instruction, and neither a handler nor the
  foreground is interrupted without end, since interrupts are at most a few in a
  millisecond and handlers take microseconds; both are interrupted again and
  again, hence strong fairness. The foreground leaves the sections it enters
  because each is a loop over some bytes. Nothing is assumed of `SleepMS` being
  called, of sections being entered or of USB events.
- *Input*, *Prompt*: the program goes on by itself (weak fairness on its steps)
  and the timer ticks. Nothing is assumed of keys.
- *OHCITransfers*: frames begin and enabled endpoints are served (the
  controller), interrupts are taken and the handler runs on (weak fairness), and
  the foreground, which every handler interrupts, runs on in between (strong
  fairness on its steps, which include the timeout). No fairness is assumed of
  reports. The timeout is a step of the foreground whatever became of the
  completion; `Patient` says that devices, controller and handler have done what
  there was to do by then (`NothingPending`: the list is executed or cannot be,
  and no descriptor of a request is on its way to the handler). With errors allowed
  a device may still refuse, and a completion that was cleared with the flag ends
  in the timeout.
- *Startup*: `main` goes on (weak fairness on its steps): every interrupt that is
  served returns, and `SleepMS` returns while the timer has its gate and is not
  masked (`ClockRuns`). An interrupt that its handler does not acknowledge is
  raised again at once, so `KernelComesUp` claims nothing after one. The boot
  loader has no liveness property: it waits for its user.
- *ControlRequests*: a request returns (weak fairness on `Return`), which
  `OHCITransfers` implements.

## 6. What is proved

Thirty-one of the runs' properties, of eight modules, are theorems for every
value of the constants that meets the `ASSUME`s; the refinement of `PagePool`
and the step part of the refinement of `ControlRequests` are among them. Bounds
that only keep TLC's state space finite (`MaxDepth`, `MaxReports`, `MaxTick`,
`MaxRequests`, `MaxTroubles`, ...) are any numbers there.

Each module of proofs begins with an inductive invariant, made of named parts.
The parts, too, were checked by TLC on the instances of the runs first. Then come
the lemmas, one for each action or part, and the theorems at the end.

### Allocator

- **`Invariant`, `TypeCorrect`, `PagesAreSafe`** (`Allocator_proofs`).
  `NoPageLostOrShared` is not inductive alone, because a merge writes the sum of
  two sizes, and `TypeOK` needs to know that the sum is a size. The inductive
  invariant is `IInv`, their conjunction. Its core is stated of the size words
  alone: cutting a run (`SplitKeepsTiling`) and joining two adjacent runs
  (`JoinKeepsTiling`) keep the words a tiling of memory and change the set of
  heads by one. Each action is then one cut, one or two joins, or neither, and
  the lemmas at the beginning say what inserting in and removing from a sequence
  do to its members. A panic ends the behaviour and the claim. That the layouts of
  the boot loader, numbered by `MemoryLayout`, meet the assumptions is the theorem
  `AddressesAre` below.
- **`ListStaysSorted`, `FreeRunsStayMerged`** (`AllocatorOrder_proofs`), under
  `AddressesAscend`, the condition that the firmware lists its regions in
  ascending order, which both properties carry as a hypothesis. The invariant
  adds to `IInv` that the list is sorted and that no free run touches another.
- **`OutOfMemoryIsNeverFalse`**: a stretch of free pages lies in one run of the
  list, because runs tile memory and none touches another, so the search would
  have found it. Without ascending regions TLC finds a false panic;
  `PagesAreSafe` needs no order.
- **`PageIndexPanicExplained`**: the panic of line 22 strikes only when the best
  run ends memory and is one page longer than the request.
- **`AllocatorIsAPool`**: with ascending regions, the allocator implements
  `PagePool`; each step maps to a `Take`, a `Return`, a `GiveUp` or a stutter.

### Boot loader, page numbering, programs

Four theorems (`BootLoader_proofs`) for memories of any size and contents, any
firmware (where its map begins, how much room it asks for, what it changes and
when), any size of the tables and any files. The invariant is about control:
`MapInv` says at which steps the tables are empty, or those of the map as it is
(`FinalTables`), and what `Size` is then; `ProgramInv`, that the pages of an image
are the program's own from their allocation on and that what is in them is what
the second `elfloader_read` made of the file. The rest is about what the loops
compute, for every input:

- Loops are `FoldLeft` over sequences. Instead of an induction, `FoldsExist` and
  `FoldsAreTraces` give the sequence of all intermediate values, and a claim about
  each of them holds because there is no least index at which it fails
  (`LeastNumber`, from the well-foundedness of the natural numbers).
- **`KernelSeesTheMapItLeaves`**: `TablesAreTheMap` says that the loop of
  `UpdateMemoryMap` puts the descriptors of each type, in their order, in the
  table of that type unless one runs over, and once it has, it stays so
  (`FullTablesStayFull`), which the check after the loop sees.
- **`KernelIsKept`**: the regions of a table are apart and have pages of their type
  only (`TablesHoldTheirPages`), and the kernel's pages have another.
- **`AddressesAre`**: on such a table `PageIndexToMemoryAddress` ends, gives a page
  of the table other than the withheld one, another for each index, and
  `MemoryAddressToPageIndex` leads back (`TablesAreNumbered`); with regions in
  ascending order the addresses ascend too. Each walk is compared with the sums of
  the sizes of the regions before (`NumbersAndAddresses`).
- **`ImagesAre`**: a program with a file a linker could have made (`IsTidy`:
  segments apart and not empty, with their content in the file and the entry in
  one of them) runs from its image *if and only if* its headers to load are the
  first and no line end is lost. One direction is `ImageOtherwise`; the others find
  a cell that differs (`NoImageWithAGap`, `NoImageWithALineEnd`).
- Assumed: there is at least one page, a table has at least one region, files are
  records of the form of `FileRecords`. Nothing is assumed of what files say.

### Interrupts

**`NestingIsBalanced`, `SectionsExclude`, `EOIEndsOwn`,
`OnlyFinishedAreInterrupted`**, for any depth of sections, any sleeps and any
number of handlers on the stack. `NestingBalanced` sums over all frames; the
invariant avoids the sum by saying that only the top one has sections open
(`StackIsFinished`, `CountIsOfTop`), and `FlagIsKnown` says what the interrupt
flag is for each place of the top. `ForegroundIsOpen` has the case that is easy
to miss: between the raising of the count and the `cli` the foreground is
interrupted at most once, since the `EnableInterrupts` at the handler's end then
finds the count raised and sets no flag. `ServiceIsOfStack` relates the inputs in
service to what the handlers on the stack have still to send.

### Key queue

**`DeliveryIsInOrder`** for every ring, every keyboard and any number of reports,
at any point of a scan. The invariant (`RingHoldsEvents`, `FoundIsKnown`) is that
an event ahead of the reader is in a slot or was overwritten, and that the slot
the reader is about to copy holds an event of the tick it compared, or one of that
tick was overwritten. **`OnlyATickIsSkipped`** has the hypothesis
`ReportsPerPoll = 1`, which the run has too (section 4): with two reports of
different ticks in a scan the property is false. Its invariant adds what a scan
has passed by (`SeenOrAhead`) and that the reader's tick is one it has a reason
to be at (`LastIsKnown`).

### Prompt and terminal

**`LineIsReturned`, `LineIsSeen`, `CursorStaysOnTheScreen`, `OverrunsAreBounded`**
for every screen of two rows and columns or more, every buffer that fits on it,
and any texts and characters. What is printed reaches the screen one character at
a time and each may scroll it, so the invariant says of each place of the prompt
which text is still to come (`Waiting`, `Erasing2`, `Echoing3`, ...) and where it
will leave the cursor (`LineIsShown`): exactly behind the line while the screen
has not scrolled and no tab was echoed, at least so far otherwise, which is what
keeps a backspace from leaving the screen. `IsScreen` says that from the cursor on
the screen is empty, so no glyph is ever drawn over another; the lemmas
`BackspaceErases`, `CharactersAreDrawn` and `CharactersScroll` prove that of the
terminal alone. `FullIsFilled` gives the last theorem. With one column the
character that scrolls the screen would fill its last cell, hence
`Columns >= 2`.

### OHCI transfers

- **`RequestsAreKept`**: every step is a step of `ControlRequests` or a stutter,
  for any requests, HID devices and errors. The part that needs an invariant is a
  request that is alone (`AloneIsOrderly`): the rest of its list is as it was
  built, what came before it has been answered, and its end or its error makes one
  write-back and one interrupt (`ListIsExecuted`), so that it leaves nothing
  behind for the next. With HID devices or impatience the contract allows an early
  return, and only `HaltedStaysHalted` is needed.
- **`ReportsAreInOnePlace`**, for any number of HID devices and requests, *while
  requests do not overlap*; from then on it is false (section 3). The invariant
  (`ListsInv`, under `~overlapped`) says that the lists in the controller, in memory
  and in the handler's hands are apart and end (`ListsAreApart`, `ListsEnd`), that
  each descriptor is in one of them or with its endpoint (`TDsAreKept`), and that
  the handler has the queue that was written back (`HandlerHasTheQueue`). Lists are
  least closed sets (`ListAlong`), so that no induction along the links is needed:
  putting a descriptor in front of a list, and taking the first one off it, are
  lemmas about such sets. That the next request finds the descriptors back is what
  `LeftBehind` says of the moment it begins.
- **`RequestsAreNotGivenUp`**: with patient devices and while requests do not
  overlap, a request on an endpoint that works is given up only if its completion
  came before the flag was cleared. `TheListIsAhead` says that the list of a request
  is as it was built until it is executed, and `EndIsSeen` where its end is at each
  step of the driver: ahead, in a done queue, in the flag, or missed.

### Device set-up and boot order

- **`AddressesAreOwn`, `ReportsFindDevices`**, for any devices behind any
  hubs, hubs in hubs, and any number of requests that go wrong. `AddressesAreTaken`
  says that a device listens where its slot says, unless its address was given in
  vain; `DescriptorsAreOwn`, that a slot has its own descriptor from
  `OHCIDetectHIDDevice` on, that its endpoint is linked into the tree only then, and
  that no loop over a hub's ports comes back to it. That `OHCIInitializeDevice`
  takes the least free slot is shown with the well-foundedness of the natural
  numbers.
- **`DevicesArePolledOnTime`**, for any intervals, in any order of linking:
  `RowsLeadOn` says that the links of the tree lead from each of its rows to the
  next, whatever endpoints are linked in between. A walk
  gains an endpoint with each step until it is closed, and there are no more ahead
  of it than it has steps (`AheadIsSmall`), so that it meets every endpoint behind
  its rows (`TurnsPollTheirRows`). That the rows of an interval come up often enough
  (`RowsComeUpOnTime`) is arithmetic on the 32 frames.
- **`EveryDeviceFound`**, for every connected bus: any hubs, hubs in hubs, and a
  device at several ports. As long as nothing went wrong, each step is one of eight
  orderly ones (`StepsAreOrderly`). The invariant `FoundInv` then says of every
  device with an address that it is linked or, if a hub, that the devices at its
  ports listen or are yet to be reset, unless it is being set up
  (`HIDsAreLinked`, `HubsAreEntered`); and that the ports left in all loops, one
  inside the other, are enough for those that wait at address 0
  (`EveryoneHasATurn`, a sum over the loops). At the end no port is left, so nobody
  waits, and the devices that listen are closed under "at a port of": on a
  connected bus these are all.
- **`StopsAreExplained`, `HandlersFindState`, `ControllersStartOnce`**, for any
  machines: any functions, kinds, header types and interrupt lines. `TablesAreReady`
  and `GatesAreSet` say which tables are in use and which vectors have a gate at
  each place of `main`; an input is opened only when its gate is set. `ScanIsInOrder`
  relates the controllers started to the devices scanned and `gOHCIRegisters` to
  the last of them, `GateAwaitsRegisters` says for how long the handler has none, and
  `CausesAreKept` goes through the null pointers. `SizesAreExplained` says where a
  packet size of zero comes from.
- Assumed: the set of devices is finite; each is at a port of the controller or
  behind hubs that are (`BusIsConnected`; only `EveryDeviceFound` uses it); header
  types are those of PCI; an `IRQLine` is an input or 255. The number of PCI
  devices is any.

### Model-checked only

- *Liveness*, and with it the fairness of the refinement of `ControlRequests`
  (`ImplementsRequests`): `KernelComesUp`, `SleepersWake`, `USBIsServed`,
  `EveryEventIsPassed`, `ControlCReturns`, `DevicesKeepReporting`, `HandlerReturns`.
  The proof system has no rule for fairness and `ENABLED`.
- *`EveryCharacterHasOneKey`*: one table of 227 codes without constants, which TLC
  checks completely.

## 7. What is not modelled

- *Fonts, pixels, colours, `stb_sprintf`*: tables and third-party code; no
  property is about them.
- *The mini programs and the test shim*: a guessing game and a host program,
  neither part of the running kernel.
- *The loader's text output, directory listing and line editor*: they keep no
  state that outlives a line. What is wrong with the editor stands in section 3.
- *Physical addresses, low and full speed, toggles*: set once, never compared.
- *A second controller's devices*: its set-up writes the same `gOHCI`, over
  descriptors the first controller goes on using; the machine with two has none.
- *Spurious interrupts* (inputs 7 and 15 without a source), for which there is no
  gate; *exceptions*, which all panic.
- *`FreePages` of a pointer that was never allocated*: a client error; no caller
  does it. *Requests near 2^64*, where the header page wraps the count: no caller
  asks for more than 256 pages.
- *The queue of released keys*: it is written and never read.
- *Memory behind the line buffer* beyond its first byte, which is a free choice
  in `Prompt`: what it holds depends on the compiler's layout.
- *Real time*: how long sections last, lost timer edges and the rate of
  `TickCount`.
- *HID error codes*: a report that failed is re-armed like any other.

## 8. Plan

Done: all the modules, the two refinements, and the proofs of section 6. Next:

1. An abstract queue that `Input` implements as long as the ring does not
   overflow and ticks differ; an abstract critical section that `Interrupts`
   implements.
2. A second controller's devices, whose set-up writes over the descriptors of the
   first.

## 9. Running it

`tlc -config X.cfg M` with the pairs of `PROJECT.json` "runs", and `tlapm M.tla`
for the eight modules with theorems. `CHECK_DEADLOCK FALSE` stands where the
system may stop: after a reset (`Input`), a command that does not come back or a
character outside of the screen (`Prompt`), when the loader has panicked, has
called a program that does not return or has left the firmware (`BootLoader`),
and at the prompt, in a panic or in a sleep without a clock (`Startup`). A panic
of the allocator is a stuttering step.
