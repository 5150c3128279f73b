# A TLA+ verification of TLMBoy

TLMBoy is a Game Boy emulator written as a SystemC/TLM-2.0 model: the CPU, the
PPU, the timer, the serial port, the joypad and the APU are processes of a
discrete-event simulation kernel, and they meet over a memory bus, over raw
pointers into memory (DMI) and over the interrupt flag register 0xFF0F.

This directory holds TLA+ modules translated from the sources under `src/`,
configurations for the model checker TLC, and proofs for the proof system TLAPS.
`PROJECT.json` lists for every definition the lines it translates, the runs with
their properties, for each property a *fault* (a mutated definition, marked
`Fault:` in the modules) that makes it fail, and the hazards that the properties
are aimed at.

To repeat a run: `tlc -config MachineCycle.cfg MCMachineCycle.tla`; to repeat the
proofs: `tlapm M.tla` for the modules
`M` whose names end in `Proofs`.

## 1. The system's parts

| Component | State | Operations | Interacts with | What is hard |
|---|---|---|---|---|
| CPU main loop (`cpu_jumptable.cpp`, `cpu.cpp`) | PC, IME, `wait_ns_`, `local_time_delta_`, `halted_` | `DoMachineCycle`: poll GDB, breakpoint, `HandleInterrupts`, fetch, execute, account for time | kernel (`wait`), bus, IE and IF by DMI, GDB server | *temporal decoupling*: the CPU runs ahead of simulated time and reads state that other processes write |
| CPU instructions (`cpu_ops.cpp`) | registers, flags | about 60 instruction routines | bus | flags, half carries, DAA; time of each |
| Timer (`timer.cpp`) | DIV, TIMA, TMA, TAC, `cycles_per_inc_` | two counting threads, bus reads and writes | IF | registers change while a thread sleeps with an old period |
| Serial port (`serial.cpp`) | SC, `ongoing_transmission`, one timed event | bus, `SerialInterrupt` | IF | starts and aborts while a completion is under way |
| Joypad (`joypad.cpp`) | buttons, P1, last SDL event | `InputLoop`, bus | SDL, IF, PPU flags, `sc_stop` | one event per poll, repeats, stale event member |
| GDB server (`gdb_server.cpp`, `tcp_server.cpp`) | breakpoints, `is_attached_` | remote serial protocol commands | the CPU loop polls it; TCP | an asynchronous client, Ctrl-C, breakpoints and interrupts |
| Cartridge (`cartridge.cpp`) | MBC1/3/5 registers, banks, RAM, save file | bus writes to ROM, RAM accesses, constructor, destructor | bus, DMI | registers that share bits; what survives a crash |
| Memory and bus (`bus.cpp`, `generic_memory.cpp`, `gb_top.cpp`) | address map, bytes | routing, DMI | everything | unmapped addresses, response status kept in a shared payload, the boot ROM's unmapping |
| PPU (`ppu.cpp`) | mode, LY, STAT, frame buffers | `RenderLoop`, three drawing passes | IF, video memory by DMI | order of mode, LY and interrupt updates; sprite priority |
| APU, I/O registers (`apu.cpp`, `io_registers.cpp`) | channels, lengths, envelopes; register bytes; DMA | clocked methods, audio callback, register writes | sc_signals, SDL audio thread, bus | signals that are toggled, a second OS thread, powering off |
| Symbol tracer, game information, options, utilities, windows | tables | text and pixel output | none that changes the emulation | nothing that a state machine would show |

What makes each of them correct: the CPU must see every interrupt at the
instruction at which a CPU without decoupling would, must lose no request and must
leave HALT; the timer must keep exact time and never stop for good; a serial
transfer must end; the buttons must follow the keys; debugger and CPU must agree on
whether the CPU stands still; the cartridge must show the banks that the writes
ask for and keep what was stored; LY, mode and STAT must be those of the
line being drawn; results and flags of an instruction must be those of exact arithmetic, and
words must come off the stack as they went on; the emulation must end only where the code says
so; a note must begin when it is asked for and end when its length has run out.

## 2. Modules

```
MachineCycle  <---- MachineCycleRefinement ---- INSTANCE ----> LockStep (abstract)
     ^                ^             ^
     |         MCMachineCycle   MachineCycleProofs
   (kernel + processes)

Processes <- INSTANCE - MachineCycleRefinement, TimerRefinement, Ports

Timer <---- TimerRefinement ---- INSTANCE ----> Countdown (abstract)
     ^             ^       ^
     |         MCTimer   TimerProofs

Serial, JoyPad <- INSTANCE - Ports <- PortsProofs
GdbServer (with the CPU loop and a client) <- GdbProofs
Cartridge <- MCCartridge, CartridgeProofs
Ppu <- MCPpu, PpuProofs
CpuOps <- Instructions <- MCInstructions, InstructionsProofs
Sound <- MCSound, SoundProofs
```

### MachineCycle: the CPU loop on the kernel

`cpu` is the place of the CPU thread in `DoMachineCycle`: `top` (before
`HandleInterrupts`), `exec` (before the instruction), `tail` (before the
accounting of time), or one of the `wait`s: `wait` and `yield` (a wait of zero
time, which lets every runnable process go first) at the end of the loop, `halt` in
`InstrHalt`. `spent` is `wait_ns_`, `lead` is `local_time_delta_`.

SystemC processes are not preempted, so they act only while `cpu` is in a wait. The
kernel is external and modelled by three rules: a process that is due runs
(`Activate`), the CPU thread continues when its wait is over (`Resume`,
`HaltPoll`), and time advances only when nothing is due, to the next wake-up
(`Elapse`). Processes that are due at the same time run in any order.

The other components appear as processes `p` that sleep for one of `Waits[p]`, set
any of `Raises[p]` and sleep again; a one-shot process (the serial port) sleeps until
an instruction starts it. An instruction is represented by its time and by its
effect on IME, IE, IF and on the one-shot processes: these are the only parts of the
machine that decide the interleaving. `wait_ns_` is reset at the top of the loop, set
by the push of a dispatch and *overwritten*, not increased, by the instruction that
follows, so a dispatch takes no simulated time of its own unless the instruction is
HALT, which leaves `wait_ns_` alone. The push of a dispatch writes through the bus and
may hit IE or IF if the stack lies over them (`StackOver`); requests are sampled
before the push and cleared after it, which the model keeps.

Folded or left out: the first activation of a thread that only performs its first
`wait` is part of `First`; a push that hits a device register with a side effect (SC,
DIV) is not modelled; GDB is `GdbServer`; single-step printing and the EMU opcode
are not modelled.

### LockStep: the abstract CPU

A CPU that looks for an interrupt, executes one instruction and then sleeps for
exactly that instruction's time, always. `MachineCycleRefinement` maps a state of
`MachineCycle` to the state of `LockStep` in which the CPU has already slept through
its lead: `absDue[p]` is `due[p]` less the lead (and less the part of a wait that lies
before the last instruction's own time). `ImplementsLockStep` is the claim behind
`local_time_delta_`: running ahead cannot be observed through the interrupt registers.
The claim is restricted to programs without HALT that start no serial transfer, and
that restriction is a fact about the code: `InstrHalt` (cpu_ops.cpp:12) waits in
kernel time without first handing in the lead, and `interrupt_event.notify`
(serial.cpp:53) is relative to kernel time, so both are off by the lead.

### Processes: what the CPU and the devices assume of each other

`MachineCycle` knows the devices only as processes with `Waits` and `Raises`; `Timer` and `Serial` know the
program only as whatever writes their registers. `Processes` is the contract between them: a
process sleeps for one of its times, raises only its own bits and only when it wakes; the program
moves no wait that has begun and starts a one-shot process only while it is idle; time does not pass
over a process that is due. `MachineCycle` (`CpuKeepsProcesses`), the timer's two threads
(`ThreadsAreProcesses`) and the serial port (`SerialIsAProcess`) each implement it.

### Timer

The two threads, all four registers and every write. A thread reads `inc_time_` once
and sleeps; `timDue` keeps what is left of that sleep when TAC is written, so the
stale period is part of the model. The registers start with any value, as the code
does not initialise them. The program may execute a last HALT (`Stop`), after which
only the hardware moves: this is the situation of the liveness properties. `clean` and
`since` are history: the time since the last overflow, while nothing is written.

`Countdown` is what the timer promises: while it runs, the cycles to its next interrupt are
counted down, the interrupt comes when there are none left and at no other time, and then the
whole period begins again; a write to TMA does not touch the present countdown, and DIV wraps
around at its own pace. `TimerRefinement` maps the registers and sleeping threads to it:
`absLeft` is the counts still missing, in cycles of the selected period, and the rest of the
sleep in progress, whatever its length was. `ImplementsCountdown` is the claim that threads
which look at the registers only when they wake cannot be told from counters of cycles. It does
not forbid the stale period: a write to TAC (`SetControl`) or TIMA (`SetCount`) sets the countdown
anew to whatever `absLeft` then is, the rest of the old sleep included.

### Serial, JoyPad and Ports

`Serial` has the start and clock bits of SC, `ongoing_transmission` and the timed
event. `SerialInterrupt` is a method without `dont_initialize()`, hence runs once at
time 0; this is its `Init`.

`JoyPad` has the buttons, P1, the flags toggled by UI keys, and SDL's queue and the
user as external parts (`Press`, `Release`, `Close`). The result of `SDL_PollEvent` is
ignored by the code. So when the queue is empty, `Poll` handles whatever the event member
holds, which SDL may have cleared or left as it was, and which at first is any event, since
the member is not initialised. A button does not mind (`ButtonsFollowKeys`), but for the
uninitialised event, whose effect on it lasts until its key is first reported (`known`). The
flag of a UI key does: it toggles at every poll for as long as SDL leaves the event there. No
property says otherwise. The turbo key, which only changes the speed of the windows, is not
modelled.

`Ports` composes the two over the flag register that they share with the CPU.

### GdbServer

The server and the parts of `DoMachineCycle` that `MachineCycle` leaves out: blocking
in `InitBlocking` until `qAttached`, handling messages between two instructions,
spinning while `halted_`, breakpoints, dispatch. A message is one unit
(`RecvMsgBlocking` reads a whole packet before it acts), its text is abstracted to the
command and its address. The acknowledgement `+` is left out; the code sends it in
addition to the reply and ignores the client's. The client is external and follows
GDB's own rules: one command at a time, Ctrl-C only while it believes the CPU runs,
breakpoints removed before detaching (the server itself keeps them on `D`). A
connection that vanishes is not modelled.

### Cartridge

MBC1, MBC3 and MBC5 with their registers, the bank indices handed to `DoBankSwitch`,
one cell for each RAM bank, the save file, and the life of the process: constructor,
destructor, and an abnormal end that runs no destructor. The build is the one with
assertions, in which a failed `assert` ends the process (`power = "crashed"`). Not
modelled: ROM-only cartridges, the values of the real time clock, which are the
host's time, and the boot ROM. The MBC5 does not save its RAM even with a battery, so it is
not in `Battery`.

### Ppu

`RenderLoop` is one thread; a step is the code between two of its waits, and `place`
names the wait (`start` is the first nanosecond). The program stores to STAT, LYC and LY
between any two steps; `IoRegisters` keeps the three lowest bits of STAT. LCDC, WY and
WX are read at one point only, when a line is drawn, so `DrawWndwToLine` chooses what it
finds there. Of drawing only `window_line_` is kept, the one thing carried from line to
line that decides an address; it is not initialised, and `Garbage` says what it may hold
in the first frame. The end of V-Blank increments LY once more before it clears it and
compares both values; both comparisons are in `CheckLycInterrupt({Next8(ly), 0})`.
`elapsed` and `period` are history: the cycles between V-Blank interrupts. The loop runs,
and interrupts, whether or not LCDC has the display on, which is what the code does.

### CpuOps and Instructions

`CpuOps` holds the arithmetic of `cpu_ops.cpp` as operators on bytes, words and flags, each
flag derived the way the code derives it: mostly from the result after it has wrapped.
`Instructions` is the table of `DoMachineCycle` and the handlers: `Family` decodes an opcode
(256 to 511 stand for the table behind 0xCB), and there is one action for each family. The
table is regular, so the operands are found from the opcode's bits where the code spells
out every case; the fault-free agreement of the two was read case by case.

An instruction makes its accesses through *one* payload: `Fetches`, then the reads and
stores of its handler. `StatusAfter` is the response status in that payload, which survives
from one access to the next: reads of the first ROM bank go through a DMI pointer and do not
touch it, stores to a bank controller and accesses to the disabled RAM of an MBC1 or MBC3
return without setting it (`Silent`). `ReadBus` throws when it finds an error there, `WriteBus`
does not look. Targets assert (`Asserts`): the serial port at its third address, `DoBankSwitch` at
a RAM bank that an MBC3 does not have, the MBC5 at its disabled RAM, and the OAM DMA, which
a store to FF46 runs to its end, where it reads one of these. For that the module has the kind
of the controller and whether its RAM is enabled (`mapper`, `ramOn`); what else the cartridge does is in
`Cartridge`. `Fatal` collects the accesses that end the emulation; the first of them wins
(`Ends`), and what the instruction had done to the registers before does not matter any more.

`Ram` is the memory that the program under test uses; what ROM and devices deliver is any of
`Device`, and the bytes behind the opcode are any of `Imm`: the code that the CPU executes is
arbitrary. Instructions whose stores hit IE, IF or a device register have their effect there
in `MachineCycle`, `Timer`, `Ports`, `Sound` and `Ppu`, and the time that HALT takes is in `MachineCycle`.
`did` and `frames` are history: the operands of the last computation, and the words that have
been pushed and not popped. A store over one of them, or a new SP, empties `frames`.

### Sound

The sound registers in `IoRegisters` and the APU. `line` and `asked` are the present and the
next value of the eight `sc_signal`s by which a write tells the APU that a length has to be
reloaded or a note begins; `Update` is the kernel's update phase (external), `Deliver` runs
one of the methods that are sensitive to a signal that changed. The CPU's thread may store
again before they have run, if it only waited for zero time: the kernel of the reference
implementation runs methods before threads, but the SystemC standard leaves the order open, and so
does `Write`. `AudioLoop` waits for time, so it never runs while a method is pending. It is the
thread with `DecrementLengths`, the sweep and the envelopes. SDL calls the audio callback on a
thread of its own: `ReadLsb` and `StoreFrequency` come between any two steps, also
between those of `DoSweep`, which is therefore cut into the places (`check`, `lsb`,
`msb`) where it reads or writes what the callback touches. The channels' fields are not
initialised; `Starts` says what they may hold.

## 3. Runs

| Run | Instance | Shows |
|---|---|---|
| `machine_cycle` | PPU (waits 2 or 5), timer (4), serial port (6, started by the program), instruction times 1 and 3, HALT, pushes over IE | `TypeOK`; `NoTimeTravel`: an instruction executed ahead of the kernel is executed before every other process's next effect; `NoLostRequest`: only a dispatch of its own vector or a store clears a request; `HaltWakes`; `Served`: with IME set a pending interrupt is eventually taken |
| `lock_step` | as above with a spare bit and pushes over IE and IF, no HALT and no transfer | `ImplementsLockStep`; `LateByOneInstruction`: what is due waits for one instruction at most |
| `spurious_dispatch` | bit 5 in IE and IF | violated: the comment that `HandleInterrupts` sets the PC when it disables IME |
| `timer` | registers 0..2, all four periods in the source's ratio | `ExactPeriod`: overflows are exactly (256 - TMA) periods apart; `TimerWakesHalted`: after any sequence of writes, an enabled timer wakes a halted program; `ImplementsCountdown`: the interrupt comes when the countdown that the registers show is over, and DIV is always counting |
| `ports` | one line, both groups, a queue of two | `TransferIsScheduled`, `TransferEnds`: every transfer ends, whatever is started and aborted meanwhile; `ButtonsFollowKeys`: a button is what the last event of its key that SDL still holds will make of it, or else its key, whatever is handled twice |
| `gdb` | three addresses, up to four messages under way | `ClientInStep`; `NothingIsLost`: while the client waits, what it waits for is under way, and the server listens to whatever is; `HaltedByGdb`, `BreakpointMissedOnlyByDispatch`, `Answered` |
| `gdb_breakpoint` | two addresses | violated: a breakpoint at the first instruction of an interrupt handler does not stop |
| `cartridge` | all three controllers, 4 or 16 RAM banks, bytes that take every path | `RomBankFollowsWrites`, `RamHoldsStores` over writes, power cycles and crashes |
| `ppu` | two visible lines, two of V-Blank, registers 0..5, a map of three lines, the source's cycle counts | `LyFollowsLine`; `StatShowsState`; `RefreshIsPeriodic`: the comment on 70224 cycles; `WindowLineInMap`: the assertion on the tile map, from the second frame on; `LycWakesHalted`: a halted program is waked at its line |
| `instructions` | every opcode; the arithmetic on 13 x 13 operands, two instructions each; stretches of three or four stack instructions; accesses that fail, with each kind of cartridge | `ArithmeticIsExact`; `DecimalIsExact`: DAA after an addition or a subtraction; `StackIsLifo`; `FailureHasACause`; `TimeCoversAccesses` |
| `sound` | five programs: a sweep up, a sweep down, the second channel with its duty bits, turning the sound off and on, wave and noise | `PlayingHasLength`; `NotesBegin`; `NotesEnd` |
| `bank_switch` | MBC3 | violated: `DoBankSwitch`'s assertion; RAM banks 4 to 7 pass the decoder |

### Bounds, and why they are enough

* *MachineCycle.* Time is relative, so the state space is finite without a bound on
  time. The instance has an instruction longer than the shortest sleep, a sleep longer
  than several instructions, sleeps that coincide with the end of an instruction, two
  periods with a common factor and two periodic processes with an overlapping phase:
  the cases in which `MustSync` differs between `<`, `<=` and a comparison with the old
  lead. The theorems of section 5 hold for every choice.
* *Timer.* `RegMax = 2` has the modulo equal to, one below and two below the largest
  value; the periods 1024, 16, 64, 256 become 8, 1, 2, 4, and DIV's becomes 3 so that
  the two threads drift against each other. `ExactPeriod` is proved for all values.
* *Ports.* The code handles the lines alike and separately, so one of
  both groups shows every interaction. A UI key changes no button and raises no request; the run
  has none, and the theorems hold with any. `QueueMax = 2` lets a release overtake the poll
  of its press, and repeats.
* *GdbServer.* `InFlight` bounds the client's sends only: four messages admit a command,
  a Ctrl-C, a report and an answer crossing each other. Three addresses are a
  breakpoint, the interrupt handler and another.
* *Cartridge.* One byte for each path of the decoders: enable and disable, bank 0 and
  its aliases (0x20), both mode bits, a RAM bank, one that is too high, a clock
  register and a value that is ignored. `Values` distinguishes stored from blank.

* *Ppu.* Two lines of each kind have a first, a next and a last; `RegMax = 5` leaves two values
  that LY reaches only when the program writes it, and its wrap-around. `MapLines = 3`
  lets a counter that is not cleared leave the map in the second frame. All of it is
  proved for any values.
* *Instructions.* `Interesting` has the operands at which a nibble, a byte, a sign or a decimal
  digit carries; the words are those at which bits 11 and 15 carry and SP wraps around. `Ram` is
  eight cells of work RAM, also reached through their echo, and one of high RAM; the stack begins
  inside, at its end and in the echo. `Cartridges` begins with each
  controller, RAM enabled or not, and stores 4, 10, 160 or 255 to its registers, its RAM and FF46. `left` bounds a stretch of
  code: two instructions for DAA, up to four for the stack and for a status that is left behind.
* *Sound.* The programs bound the state space: each writes a few values a few times (`left`). They
  begin with lengths of 0, 1 or 2 and registers that give a length of 1 or 2, so that notes run
  out; `Beats = 1` drops the envelope's phase, on which no property depends.

Deadlock is checked where the system cannot stop. It is not for `Ports` (the window may be
closed), `GdbServer` (a broken packet ends the program) and `Instructions` (a stretch of code
ends).

### Fairness

* `MachineCycle`, `Timer`, `Ports`, `Ppu`: weak fairness of the kernel's own moves: what is
  due runs, and time advances when nothing is due. This is what `sc_start` does. Nothing
  is assumed of the program or of what a device chooses to raise; `StoreIF`, `Halt`
  and so on need never happen. `SDL`'s events are not assumed to come.
* `Sound`: weak fairness of the APU's methods, since the kernel runs what is runnable and
  `AudioLoop` only waits for time; *strong* fairness of `Update`: the update phase ends every
  delta cycle, but the program could raise and lower a signal's next value for ever, so that it is
  enabled only now and then. Neither the program nor SDL's thread is fair.
* `GdbServer`: the operating system schedules both processes (`CpuThread`, `Receive`).
  The client need not send anything and a HALT need not end, so `Answered` excepts a
  program that sleeps in HALT: `InstrHalt` does not poll the server.

## 4. Disagreements between text and code

Each is a run that TLC refutes, quoted in `PROJECT.json`:

1. *Spurious dispatch.* All eight bits of IE & IF are tested, only five have a vector:
   with a spare bit set in both, IME is cleared and the PC pushed, without a jump.
2. *Breakpoint in a handler.* The PC is compared before the dispatch changes it.
3. *MBC3 RAM banks 4 to 7* pass the decoder and fail the assertion of `DoBankSwitch`.

Also met, not stated as a run: a write to TAC acts only after the sleep in progress; the
ninth bit of an MBC5's ROM bank is lost in an eight-bit member; a Ctrl-C that crosses the
report of a breakpoint is answered a second time (`crossed` in `GdbServer`, and the
exception in `ClientInStep`); the joypad interrupt is requested for each press, whatever P1 selects.

Of the sound, in `Sound` as the code has it: NR10 inverts the signal that reloads the first
channel's length, which NR11 should; NR31 and NR41 set their signal once and for all, so that
only the first write reloads; nothing writes the wave channel's trigger signal; turning the sound off
keeps FF1A (NR30), where the comment names FF20; a write to NR52 clears the
status bits; a sweep stores the high bits of the frequency over NR14 and so clears the bit that enables the
length; a downward sweep is computed with unsigned numbers and overflows.

Of the bus, in `Instructions`: an access to FF03 is routed to the serial port, whose assertion
admits two addresses, and so is the OAM DMA's, if 255 is stored to FF46; an MBC5 asserts that its
disabled RAM is not used, where the others print a warning; a store to an unmapped address leaves an error in the payload, and a
program running in the first ROM bank, whose fetches do not go over the bus, can carry
it to a read of the disabled RAM of an MBC1 or MBC3, which then throws.

## 5. What is proved

The `...Proofs` modules are checked by `tlapm` for every value of the constants that
satisfies the modules' assumptions: devices, waits, costs and bits of any number and size;
registers and periods of any size; any addresses and any number of messages under way; any
number of banks, and all bytes instead of the few that the run writes; any transfer time, keys
and queue; any memory, ROM and stretch of code.

* `TypeCorrect` (in each module, under this or a similar name): `Spec => []TypeOK`, one step for
  each action.
* `NeverTimeTravels`: `NoTimeTravel` is not inductive: it speaks of `top` and `exec`, which
  are also reached by `Resume` from a wait, where nothing has been tested. `LeadInv` adds that
  the lead is zero in `wait` and `yield`. Between two waits the kernel does not move, so the
  outcome of the test in `RunAhead` stays true; HALT, which sleeps *with* its lead, comes back
  to the test before it comes back to `top`.
* `RequestsAreKept`: `[][...]_vars` for `NoLostRequest`, action by action; it needs no invariant.
* `AtMostOneInstructionLate`: assumes that the program has neither HALT nor a start of a one-shot process, and rests on
  `DecouplingInv`: the part of a wait that lies before the last instruction is shorter
  than every sleep.
* `DecouplingIsTransparent`: `Spec => LS!Spec`, assuming that the program has neither
  HALT nor a start of a one-shot process. `Init` maps to `Init`; there is one simulation
  lemma for each action, which shows a step of `LockStep` or a stutter, from
  `DecouplingInv`. `RunAhead` is a whole sleep (`WakeUp`), `Sync` is a stutter, and
  `Elapse` is a `Wait` or a stutter, depending on whether the rest of the wait lies before
  the last instruction's own time.
* `TimerIsExact`: `ExactPeriod` from `PeriodInv`, which adds that after an overflow the
  sleep in progress is one of the current period and TIMA is not below TMA.

* `HaltedOnlyByGdb`: `HaltedByGdb` rests on the fact that a server which has been left has no
  breakpoints, since one of them would halt a CPU that nobody can continue. The server itself
  keeps its breakpoints on `D`; it is the client that takes them out first. `GdbInv` therefore
  follows the messages: at most one request or reply is under way (`OneAtATime`), so no
  insertion can still be queued when `D` is sent, and `NoneLeft` carries the empty set from
  there to the detached server.
* `ClientStaysInStep`: `StepInv` gives, for each of the client's views, which messages are under
  way and whether the CPU stands still. Two facts make it inductive: a breakpoint is reached
  only in the view `running`, since in the others the CPU is halted or there is no breakpoint,
  and only there may two messages be under way, `c` followed by Ctrl-C.
* `NothingGetsLost`: from `GdbInv`. The hard case is `D`, after which the server stops listening
  until the next client: a message behind it would stay in the stream. `LeavesLast` says that
  there is none, since the client sends nothing after it; a Ctrl-C may only be in front of it.
* `OnlyDispatchMisses`: between the comparison and the instruction only `HandleInterrupts`
  changes the PC, and the breakpoints change only in `poll`.
* `WindowFollowsWrites`, `RamIsKept`: `CartridgeInv` says for each controller what its registers
  remember of the last writes (`Mbc1Inv`, `Mbc3Inv`, `Mbc5Inv`), and that the save file is
  what the program had stored at the last orderly end. The bank of an MBC3 is tied to the
  writes only while no clock register is mapped, which is when a store reaches it.

* `LyIsTheLine`, `StatIsTrue`, `RefreshIsExact`, `WindowStaysInMap`: one invariant, `PpuInv`, for
  all four. LY does not wrap around by itself since it is right before each increment;
  `TimeInv` gives the time since the last V-Blank interrupt at every place, and
  `WindowInv` bounds the window's counter by the line.

* `TimerCountsDown`: `Spec => CD!Spec`, one simulation lemma for each action of `Timer`. What
  makes a step of a thread one of `Countdown` is arithmetic on `absLeft`: a count less is a
  period more to sleep, so that `TimerLoop` and `DivLoop` are stutters but at the overflow. The
  invariant it needs beside the types is `DivInv`, that DIV's sleep is never longer than its period.

* `CpuLeavesProcesses`, `ThreadsKeepTheirWaits`, `SerialIsOneShot`: the three implementations of
  `Processes`, action by action. The threads need `ThreadInv`: `cycles_per_inc_` is the period of
  some value of TAC, though not always of the present one. The port needs `TransferIsScheduled`:
  `ongoing_transmission` is what keeps a store to SC from starting it twice.

* `TransfersAreScheduled`, `ButtonsAreTheKeys` (`PortsProofs`): the first is
  inductive by itself, but each of its parts needs the other; it also bounds the time to the
  end of a transfer by `TransferTime`. The second follows each key through the queue: an
  event appended is the last of its key, and one polled is the last or leaves the last where
  it is. Once a key has been reported, the member event is one that was polled, and
  `EventSettled` says that the buttons already are what it makes of them, so that handling it
  again, at a poll of an empty queue, changes none.
* `PlayingHasLengthHolds`: a note begins a delta cycle after it was asked for, which may be after
  the sound was turned off. `SoundInv` adds why it then begins with the sound on or not at all:
  turning the sound off clears the volume registers, so that no DAC is on (`OffMeansNoDac`), and
  the method of the wave channel, which asks for no DAC, never runs (`NoWaveTrigger`).
* `NotesAreUnderWay`: a signal is toggled by negating its *present* value, so that two writes in
  a delta cycle ask for the same change and not for none; and a write between the change and its
  method asks for one more. So a note that was asked for is begun, whatever else is written.
* `NotesPlayOutInTime`: from `SoundInv`, by the three kinds of step that touch a length
  (`CountPlaysOut`, `DeliverPlaysOut`, `RestPlaysOut`). That a note which begins while another plays does not
  start its length over is what the code does.
* `InstructionsProofs`, about every opcode: each instruction is shown to `Advance`, which means that
  it leaves a typed state and that its accesses are orderly (the fetches, then at most two
  of data, reads before stores) and fit its time; each property is proved from that once,
  and not opcode by opcode.
  * `ArithmeticHolds`, `DecimalHolds` rest on `SumsAgree`: what is remembered of an addition or a
    subtraction still describes A and the flags, and N says which of the two it was; an
    instruction that changes A or a flag forgets it. DAA is then a fact about two
    digits and two carries (`DaaAdd`, `DaaSub`), proved for all bytes.
  * `FailuresHaveACause` rests on `FailInv`: the first access that ends the program is one of the
    kinds that `FailureHasACause` lists, for each kind of cartridge, and none has happened while it
    runs. The DMA's reads are a matter of arithmetic: which of 160 addresses from a multiple of
    256 lie in the cartridge's RAM or are FF03.
  * `ShiftsAreExact`, `IncDecAreExact`, `LogicIsBitwise`: what the operators of
    `CpuOps` compute, for all bytes and flags, against arithmetic and sets of bits.
  * `TimeIsCovered`: the time of an instruction from `cpu_jumptable.cpp` against the accesses of
    its handler in `cpu_ops.cpp`.
  * `StackHolds`: `FramesHold` says that every word that was pushed, is not yet popped and has not
    been stored over is still in memory in both halves, one below the other, with SP at the last. Every
    instruction and the dispatch is one of a few kinds of `StackStep`; only a word at the
    border of the echo or of the address space makes adjacency a matter of arithmetic.

### Progress

Liveness under fairness is out of the prover's reach, but not what makes it true: a measure
that every step lowers, whoever takes it. Each of these theorems is an action property, proved
for every value of the constants, and says that *no* step of the model starts the wait over.
What is left to TLC is the fairness itself, that is, that a step is taken at all. Where the
measure is a set (the processes that are due), it descends finitely often if there are finitely
many processes.

| Theorem | Property | Measure | Behind |
|---|---|---|---|
| `DispatchComesNearer` | `NearerToDispatch` | the CPU's place in the loop, then its sleep, then the processes that are due | `Served` |
| `WakingComesNearer` | `NearerToWaking` | the same, up to the poll in `InstrHalt` | `HaltWakes` |
| `InterruptComesNearer` | `NearerToInterrupt` | `absLeft`, then the threads that are due | `TimerWakesHalted` |
| `LycComesNearer` | `NearerToLyc` | the steps of `RenderLoop` to the line, at most two frames | `LycWakesHalted` |
| `TransfersAreNotPutOff` | `NotPutOff` | the time to the event, which no store to SC moves | `TransferEnds` |
| `EveryMessageIsHeard` | `MessagesAreHeard` | the places between the CPU and its next poll | `Answered` |

`NothingGetsLost` and `NotesAreUnderWay` are the other halves of `Answered` and `NotesBegin`: what
is waited for is on its way. The properties of this table,
`NotesUnderWay`, `NotesPlayOut` and the three implementations of `Processes` are not listed in the configurations; TLC finds them true of the same
instances when they are added there.

### Only model-checked

Every safety property of a passing run is the subject of a theorem. Liveness (`HaltWakes`, `Served`,
`TimerWakesHalted`, `TransferEnds`, `Answered`, `LycWakesHalted`, `NotesBegin`, `NotesEnd`) is checked by
TLC, as is everything that involves ENABLED, which the prover does not support.

## 6. Plan

In this order; each module written so that it can be both checked and proved about.

1. *(done)* `MachineCycle`, `LockStep`, the refinement and its proof.
2. *(done)* `Timer`, `Serial`, `JoyPad`, `Ports`, `GdbServer`, `Cartridge`.
3. *(partly done)* Address decoding by the map of `GbTop` and the response status in the CPU's
   shared payload are part of `Instructions`, the banks' DMI pointer of `Cartridge`. Next, what the
   OAM DMA of `IoRegisters` copies, also after a failed read, and the boot ROM's unmapping.
4. *(done)* `Ppu`: the loop and its registers. Next, `Sprites`: selection, order and priority of
   sprites as operators against a reference definition, and the sprite buffer, which a frame
   that is not shown does not clear.
5. *(done)* `Sound`: power, triggers, lengths, envelopes and sweep over the toggled signals.
6. *(done)* `CpuOps` and `Instructions`: every opcode, the arithmetic against reference
   definitions, DAA, the stack, time.
7. *(done)* Proofs of the safety properties of all of these, of the refinements, and of what
   every step contributes to the liveness properties. Next, the PPU and the joypad as
   implementations of `Processes`, and the properties of `Sprites`.
8. A client that vanishes without `D`: the server stays attached, a halted CPU spins for ever.

### Not modelled

* What the OAM DMA copies, the boot ROM's unmapping and the read masks of `IoRegisters`; the banks
  of ROM-only cartridges, which have none to switch, and the clock of an MBC3 beyond its selection.
* Sprites and pixels of the PPU: pure functions of memory, except for the sprite buffer (4 above).
* The lost client (8 above), the texts of GDB's packets, the turbo key, single-step printing and
  the EMU opcode, debug accesses (`transport_dbg`), which change no state of the emulation.
* Rendering to windows, generation of audio samples (floating point), the symbol
  tracer, game information, options and logging: output or tables, and no state of the
  emulation depends on them.
