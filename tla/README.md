# Verification of the Cardputer ADV firmware

TLA+ models of the part of this firmware a Cardputer ADV user depends on from
power-on until a program runs (the keyboard driver, the start-up menu with its
app list and WLAN page, and the boot flow that decides which `main.py` runs) and
of the chain bus, the library with a thread of its own. TLC checks them on small
instances; TLAPS proves the main invariants of each for every instance.

Paths below are relative to the repository. `keyboard.py` stands for
`src/m5stack/libs/hardware/keyboard/__init__.py` and `apps/` for
`src/m5stack/modules/startup/cardputeradv/apps/`, and `chain.py` for
`src/m5stack/libs/chain/chain.py`.

## 1. Inventory

The repository is M5Stack's UIFlow2 MicroPython firmware for many boards. Most of
its 444 000 lines are documentation, translations, examples, assets and drivers
that read or write one register. What carries logic of its own:

| component | source | state | operations | modelled by |
|---|---|---|---|---|
| keyboard, ASCII mode | `keyboard.py` 317-396, 505-622, 661-688, `matrix_keyboard.py` | modifier mask, FN state, `_keyevents` | interrupt handler, batch handler, `get_key`, `is_pressed`, `deinit` | `KeyboardI2C` |
| keyboard, HID mode | `keyboard.py` 399-502, 624-659 | report being filled, `_hid_reports` | `_hid_handler`, `append_key` | `HidReports` |
| TCA8418 driver | `libs/driver/tca8418.py` | none but the chip's registers | `key_int`, `events_count`, `next_event` | inside `KeyboardI2C` |
| menu framework | `cardputeradv/framework.py`, `app_base.py` | selected app, its task | loop, `handle_input`, `AppSelector`, app life cycle | `Launcher` |
| launcher, settings, developer, run, ezdata apps | `apps/` | position in each list, sub-menu, task | key handlers, start, stop | `Launcher` |
| app list | `apps/app_list.py` | `_file_pos`, `_cursor_pos`, the rows | launch, up, down, run, install | `AppList`, `Menu` |
| boot flow | `_boot.py`, `fs/user/boot.py`, `startup/__init__.py`, `main.c` | NVS boot option, `main.py`, download | move a download, choose, run | `BootFlow` |
| WLAN settings | `apps/settings.py` 13-238 | edited, saved and stored fields, what is drawn | open, move, edit, ESC, submit, leave | `WlanSettings`, `Menu` |
| chain bus: frames | `chain.py` 45-213 | the decoder's state and fields | encode, decode | `ChainDecoder` |
| chain bus: packets | `chain.py` 216-292, 425-441, 465-608 | `_packet_queue`, `_event`, both threads' positions in the list | send with tries, search and delete, dispatch, clear | `ChainBus` |
| chain devices | `chain.py` 295-420, `libs/chain/*` | none | build a request, read an answer | not modelled: one request each |
| GPIO keyboard (first Cardputer) | `keyboard.py` 1-314, `matrix_keyboard.py` 77-111 | key list, change count | scan, `tick` | not modelled: other hardware |
| sockets, MQTT, BLE UART, ESP-NOW, Modbus, FTP server, ezdata, cellular | `libs/umqtt`, `bleuart`, `m5ble`, `m5espnow`, `modbus`, `uftpd`, `ezdata`, `libs/module` | connection states and buffers | request, answer, callback | not modelled |
| status bar, side bar, widgets, `m5ui` | `apps/statusbar.py`, `modules/widgets`, `libs/m5ui` | what is drawn | draw | not modelled: wording and layout |
| units, hats, modules, drivers | `libs/unit`, `libs/hat`, `libs/module`, `libs/driver` | registers | read, write | not modelled: plain I/O |
| menus of other boards | `modules/startup/*` | as above | as above | not modelled: other hardware |
| C layer, vendored components, docs, examples, tools | | | | not modelled |

How they interact. The TCA8418 pulls its INT pin; the pin's interrupt routine can
only *schedule* the Python handler. That handler reads events over I2C and
schedules the batch handler, which schedules the application's callback, so all
three share MicroPython's bounded queue of scheduled callbacks with every other
driver. The menu does not use the callback: the framework's loop polls
`is_pressed` and `get_key`, hands the key to the selected app, and on ESC or a
click of BtnA returns to the launcher. The apps change NVS, `main.py` and the
display; after a reset the boot flow reads NVS and the file system. The chain bus
stands apart: its thread decodes what the UART has into one list, takes events out
of it for their callbacks and clears it, while the application's requests take
their answers out of the same list; nothing locks it.

What is hard here: the chip works while Python runs, so keys move between two
register accesses of one handler; the scheduler's queue can be full at each of
three places; modifiers are reconstructed from events that are processed late;
the menu keeps each choice in one object and its picture in another; a list has
separate rules for cursor, script and window; power may be lost between any two
steps of an update of files and NVS; two threads of the bus find by index in a
list that the other may shorten; a frame may come damaged, and the decoder keeps
its state. `PROJECT.json` lists each hazard at its
line with the properties that cover it.

## 2. Plan

In this order, each with its properties before the next: `KeyLayout` and
`KeyboardI2C` (the most concurrent part), its abstract specification `KeyStream`
with the refinement, `HidReports`, `Launcher`, `AppList`, `BootFlow`, then
`WlanSettings`, the composition `Menu`, `ChainBus`, `ChainDecoder` and `ChainLine`, the
abstract line between these two; proofs of each after its runs.

What would come next: the avatar download of the developer app as a task beside the menu.

## 3. Modules and how they correspond to the code

**KeyLayout** is what both keyboard modes share: `_KeyEventConverter.decode` as
`Position`, the places of FN and the modifiers, and the keys of the FN layer.

**KeyboardI2C**. A step is one register access of `_irq_handler` (`ReadKeyInt`,
`ReadAny`, `ReadMore`, `ReadNext`, `ClearKeyInt`), the call of `schedule`, or one
event of `_ascii_handler` (`AsciiEvent`); `pc` says where the running callback
stands. Scheduled callbacks never interrupt each other, and the application runs
only between them, so `RunCallback` and `Poll` need `pc = "idle"`; key movements
(`KeyMoves`) need nothing. The environment, external to the code: the chip keeps
at most `FifoSize` events and drops what comes on top (`overflow_mode` is left
off); its INT pin is low while K_INT is set; both edges of the pin schedule the
handler, and an edge that meets a full queue is lost; others may fill the queue
(`OthersSchedule`). What the chip does when K_INT is written over events that
came after the last look is not settled by the code, so the bit may clear or stay.
Data is abstract: an event is its byte, with a number and the switches down at
that moment as history; a key's code is the column of the key map it came from.
`faults` is history too: which of five things has gone wrong so far.
Not modelled: the constructor, with the handler call it makes itself before it
returns (`keyboard.py:567`), and caps lock, which nothing in this class sets.

**KeyStream** is the abstract specification: `queue` is the set of the numbers of the
presses that wait, `Take` gives the application the oldest, and a press is lost only
when the queue is marked lossy. **KeyboardRefinement** maps KeyboardI2C to it: what
waits are the presses in `keyevents`, in the running batch, in the scheduled batches, in
the batch being read and in the chip.

**HidReports** takes the same events in arbitrary batches (which KeyboardI2C
justifies) through `_hid_handler`. The six slots are the constant `Slots`. Keys in a report
are the sequence of non-zero codes, since a zero code leaves its slot free. `typed` is
history: the keys pressed that have a code, in order.

**Launcher**. One action is what the framework does with one key or click:
`HandleKey` is `handle_input` with the whole handler of the focused app inside,
and, for ESC, the return to the launcher (`GoHome`). `chosen` collects what Enter
would act on (`LauncherApp._id`, `SettingsApp._menu_selector`, the general
settings' selector, `RunApp._enter_handler`), `shown` what was last drawn as chosen;
`dev_tasks` counts developer tasks not cancelled. An exception out of a handler
ends the menu (`Ends`), be it a missing file, a line of `main.py` that `_get_file_info`
cannot split, or a copy of a script that fails. The brightness at the start comes from M5Unified or from
an edited `boot.py`, hence any value of `Brightnesses`.

**AppList** has the list's three positions and the rows as drawn; scripts are their
places in the directory.

`Launch` sets the positions back when the app is opened again.

**WlanSettings** is the WLAN page. One action is one key with the whole handler; `set_data`
is split at each field written, the commit and the reconnection, since the power can go
between them. `nvs` is what the NVS library returns and `flash` what of it is committed; after a
power cycle each field may be either. Texts are lengths: only their being equal or empty
matters. `labels` is what the three fields show, with the password's asterisks.
`wanted` is history: what was last submitted. Leaving the page only drops it: its `on_exit` is
never called. Its attributes stay until the next `on_launch` sets them all, and as nothing reads
them until then the model forgets them (`NoPage`).

**Menu** composes Launcher, AppList and WlanSettings. Launcher alone knows of the list only
how it ends and of the page only that it keeps its keys; here a key in the list is AppList's
action, a key on the page WlanSettings', and opening and leaving either (`ListFollows`,
`WlanFollows`) follow Launcher's focus. While `set_data` runs no key is read (`Idle`). `PowerLoss`
starts everything anew from the files and the NVS.

**ChainBus** has one program counter for each thread, `rpc` for `_recv_task` and `apc` for the
application's call. MicroPython changes threads at jumps, hence a search is one step for
each element, and a found index and the deletion at it are two steps; so is the clearing,
which goes down from an index it computed before. A packet is its device and command
(`slot`), the call and try it answers or its number, so histories can tell packets apart that
the code cannot. The environment: a device answers requests in order and may pass over any (lost); it
fires events at any time; `schedule` may be full; a search may time out at any of its rounds, since a timeout
says nothing about how many rounds fit in. `RecvDisturbed` and `AppDisturbed` note in `faults` when a
deletion moved what the other thread's index means: the code has no way to know, and the
properties say what holds when it does not happen.

**ChainDecoder** has one action for each of the decoder's ten states, one byte a step, with
frames as `_send_packet` builds them. One fault in a behaviour: a byte lost, spoiled or added, or a
frame cut short. `line` holds one frame at a time, as the decoder sees one byte after another
however they are read. `heard` is history: the bytes taken since the latest packet was queued.

**ChainLine** is the abstract specification between the two: packets are put on a line and come one by one,
in order, once and unchanged. In ChainDecoder the packet is on the line while bytes of its frame are (`OnTheLine`), unless
its command is one the decoder drops or the frame was spoiled, and what has come is what was queued; sending a frame is `Put`,
its last byte `Arrive`, every other byte a stutter. In ChainBus the line is `line` and what has come is `seen`, the
packets decoded. So ChainBus may leave framing out: a damaged packet is one that was never sent. This needs
the fault to be no worse than one byte of a body (`Mild`). What a worse one can do, a decoder that is deaf from then on or packets
that were never sent, is seen in ChainDecoder only.

**BootFlow** splits every sequence at which power may be lost: opening `main.py`,
copying, removing the download, committing the boot option, the reset. The file
system is the LittleFS that `inisetup.py` makes: what is written takes effect at
close, creation at open. A value set in NVS without commit may or may not be there
after a restart. The download service is modelled from `boot.py`'s description of
it. Every access to a file may raise: in `_boot.py` that is passed over (`OtaFails`, `RemoveOta`), and
a `main.py` left open by it is committed, empty or in part, when it is collected (`CollectFile`);
in the list `with` closes a part of the script as `main.py` and the exception ends `boot.py`
with the boot option already 2 (`ListFails`); in `startup` it ends `boot.py`
(`StartupRaises`, `StartupHeld`). `Partial` is what such a file holds.
`wanted` is history: the program the user last downloaded or chose, from the key
on. `faults` is history too: the errors of this boot, and what befell the choice of `wanted`, `cut`
(the list's copying did not end) and `overtaken` (a download not moved or not removed
was still there, and will replace it).

Operators whose comment begins "Mutant of" are plausible slips in the code, kept
beside the original: put in its place, each makes one property fail.

## 4. Runs

| run | question | instance and why it is enough | states |
|---|---|---|---|
| `poll` | order, modifiers, lost interrupts when polling | FN, shift, A; FIFO 2, queue 2, 4 movements: both queues fill, a key can be pressed within shift and within FN and be read late, and an interrupt can come at every point of a handler that is already queued again | 1 605 516 |
| `callback` | one call per key, arrival, refinement of `KeyStream` | shift, A; FIFO 2, queue 2, 4 movements: two presses in one batch, a refused call between them, movements while the handler reads | 361 535 |
| `stranded` | "called when a key event is ready" | A, with a callback and a queue of four; three movements, and no fault but the race itself | found |
| `hid` | every key reported once, modifiers settle | `` ` ``, FN, shift, A; two slots, 5 movements: reports fill in the middle and at the end of a batch, keys without a code, the FN layer | 177 439 |
| `hid_codes` | the table agrees with its comments | A and I with six slots | found |
| `menu` | focus, choices and tasks of the menu, the list's cursor and window, what the WLAN page shows and stores | all keys; 0 to 5 scripts, two more than the window; texts of none or one character, so that any field can be edited, emptied and taken back; a brightness half way between two options and one next to it; every state of `main.py` and `apps`; a power loss at every step | 1 071 872 |
| `list_shown` | Enter runs what the cursor shows | up to 6 scripts | found |
| `boot` | power losses, downloads, BtnA | two programs, so that one can replace the other; every step interrupted, every file access failing | 4 655 |
| `boot_hold` | BtnA brings the menu | as `boot`, at a boot without faults | found |
| `bus` | packets once and in order, answers of their calls, no index past the end, calls return, nothing stays | one device with a request and an event, two tries, two calls or events in all: a late answer meets the next call, two events wait together, and each thread can delete under the other (the strengthening behind the proofs and the refinement of `ChainLine` were also checked with three: 3 316 316 states) | 131 130 |
| `bus_removed` | a returned packet is removed | as `bus` | found |
| `decoder` | what is queued was heard, refinement of `ChainLine`, the two states that are for ever | four frames out of four kinds: with and without payload, a payload that looks like a header, a heartbeat; a fault at each byte of any of them, with bytes that are parts of a header, lengths below three and above | 1 371 844 |

Deadlock is checked except where the program stops by itself or a bound ends it:
when the menu has ended, when the list has been left, when the movements of `hid` are
used up, and when the bus is shut down or the calls, events or frames are used up.
In `poll` and `callback` another driver can always be scheduled or run.

Bounds that exist only for checking: `MaxEvents` (key
movements, and the bus's events), `MaxFiles`, `MaxText`, `MaxCalls`, `MaxBoth`, `MaxFrames`.
`FifoSize`, `SchedDepth`, `Slots` and `Tries` stand for the chip's 10, MicroPython's build-time
depth, 6 and 3; small values reach their limits sooner and the properties do not
depend on them. No symmetry is used: keys differ by their place.

### What the violation runs show

* `stranded`: a movement between the handler's last reading of the event count and
  its write to K_INT leaves no interrupt behind. The event waits for the next key
  (`keyboard.py:596` against the docstring at 583). The property leaves full queues aside, so the
  trace is the race and nothing else; `NoLostWakeup` shows that, beside full queues, this is
  the only such window.
* `hid_codes`: the key the table calls "i and I" has the code of l, l that of i, and
  z to / have codes of other keys (`keyboard.py:428, 445, 453-462`).
* `list_shown`: four scripts, down three times, up twice, down once: the cursor row shows
  script 1, Enter runs script 2 (`apps/app_list.py:244`). `ShortListIsShown` states where
  the list is right.
* `boot_hold`: with no `main.py`, holding BtnA makes `os.remove` raise and `boot.py` end
  without the menu (`startup/__init__.py:104` against `boot.py:21-22`).

* `bus_removed`: the application finds its answer at an index, the receive thread deletes an
  event before it, and the application deletes the packet after its answer: the answer
  stays and answers the next request, the other packet is gone (`chain.py:278` and 242 against
  the docstrings at 231 and 268). `NoIndexError` shows the same shift as the only way an
  IndexError ends the receive thread.

Three more passing properties say that something is wrong. `EndlessForEver`: a length below
three is never reached, and the bus is deaf from then on. `OutOfStepStays`: a decoder that
took the last byte of a frame for the first of a header goes back to `HEAD1` with the real
header's first byte, and does so at every later frame; the comments of both states say
"look for the header" (`chain.py:139, 150`). `HangsOnlyHalfWay`: at brightness 96 and 160
`approximate` returns None and opening the general settings never ends.
`ModifiersSettle` allows one quirk TLC found: a batch that ends with the key that
fills a report is followed by a blank report without modifiers.

## 5. Fairness

KeyboardI2C's `FairSpec`: weak fairness of the virtual machine's work
(a started handler goes on, a scheduled callback is run: MicroPython runs them
between bytecodes) and of polling (the framework's loop polls every 10 ms).
The handlers are one fairness condition because they run one at a time in the
queue's order. Nothing obliges a key to move, another driver to schedule, or the
keyboard to be shut down, so `EveryPressArrives` does not lean on a later key.

ChainBus's `FairSpec`: both threads get their turns (weak fairness of the application's search and of
the receive thread), a call that goes on searching reaches its timeout, and as long as
turns of the receive thread end, a clearing that finds all packets old falls due (strong fairness, since
both are possible only now and then: time passes however often the threads go round). The bounds end
the packets, so at some time all of them are old. Nothing obliges a device to answer, so `CallReturns` rests on
the tries alone; it also holds with the receive thread dead. That a clearing falls due holds
until the millisecond clock starts again (`ClockWrapEndsClearing`). The other specifications
assume no fairness.

## 6. Proofs

Each theorem is proved by an inductive invariant with one step for each action,
from the module's assumptions on its constants only.

**KeyboardI2C_proofs**, for every set of keys, every size of FIFO, queue and bound,
with and without callback:

* `TypeCorrect`: `Spec => []TypeOK`. `TypeOK` is inductive.
* `StagesInOrderCorrect` and `KeysInOrderCorrect`. `KeysInOrder` speaks of `taken` and
  `keyevents`; it is not inductive, since nothing in it keeps the handler from
  delivering an old event. The strengthening `StagesInOrder` orders the whole pipeline: taken, keyevents, the
  batch being processed, the scheduled batches in turn, the batch being read, the
  FIFO, all up to `count`. An action moves events from the head of one stage to the
  tail of the one before it or drops them, so the proof rests on lemmas about
  `Append`, `Tail` and emptiness and their effect on `Ascending` and `Before`.
* `NoLostWakeupCorrect`. The inductive invariant `PinIsHeeded` splits the promise at the
  interrupt bit: unread events keep K_INT up, and while it is up a handler is
  running or queued.
* `OneCallPerKeyCorrect`. `OneCallPerKey` counts the keys in `keyevents` against the
  calls in the scheduler's queue. It is inductive once the set of calls is known to be finite
  (`CallsCounted`); the work is in what `Append` and `Tail` do to the number of the calls.
* `ModifiersOfThePressCorrect`. `ModifiersOfThePress` compares what a batch reconstructs
  late with the switches at the time of the press. The strengthening `HistoryKept` says that
  there is a history of the switches, one set for each movement of a key, and a movement up to
  which `modifier_mask` and `fn_state` have followed it, the events still to come being
  exactly the movements after it.
* `KeyStreamImplemented`: `Spec => ImplementsKeyStream`, step by step. A step moves presses
  between stages, which changes nothing of their set, drops them where KeyStream may be
  lossy, or takes the head of `keyevents`, the oldest of all by `StagesInOrder`.

**HidReports_proofs**, for every set of keys, number of slots and of key movements: `TypeCorrect`, by which no
report outgrows its slots, `ModifiersSettleCorrect` and `EveryPressReportedCorrect`. `MaskInv` says of each modifier that the latest event of
its key, first among those in the chip, then among those of the batch, tells whether it is down, and that
`modifier_mask` does once no such event is left; `ReportInv` ties the report in hand, or the one sent for being full, to
`modifier_mask`. That a modifier has a single key (`OneKeyEach`) follows from the arithmetic of `decode`.
`KeysInv` accounts for every key typed: in a report that was sent, in the one in hand, or among the events still
to come, in this order. That the keys of a sequence of reports and one more are those of the sequence
and of the one more is proved by induction on the number of reports.

**Launcher_proofs**, for every set of brightnesses (TLC's run has two values):
`FocusOnScreen`, `EnterActsOnShown`, `OneDevTask`, `HangsOnlyHalfWay` and the action property
`OpensTheIcon`. `EnterActsOnShown` says nothing of lists that are not on the display, so it
does not survive opening one: `ClosedAppsAreReset` (a closed settings or run app has
its first choice and no sub-menu) and `ShownIsChosen` (each list that can be reached
without being drawn anew shows its choice) carry it over.

**MenuApps_proofs**, the menu's two apps with a state of their own:

* the list, for every number of scripts (TLC: up to five): `OnAFile`, `CursorFits`,
  `WindowIsASlice`, `ShortListIsShown` and the action property `OpenAndUpShow`. `CursorFits` is
  what makes the window a slice: it bounds the first row drawn on both sides, so a redraw has
  a script for every row. `StaysAtTop` adds that a list no longer than the window is never scrolled.
* the WLAN page, for texts of any length: `StoredAsEntered`, `LabelsTellEdits`,
  `RestoresTheStored`. `StoredAsEntered` speaks of the moments when nothing runs; the
  strengthening says at each step of `set_data` which fields already agree with what was
  submitted, and that only a change calls for the commit.

**Menu_proofs**, for every instance: the composition keeps what its parts promise. A step of `Menu` is for each part a step
of its own specification, a stutter, or its beginning anew: `LauncherSteps`, `ListSteps` and `WlanSteps` say so, from
`PartsAgree`, which says that the page is open exactly while it has the keys, that the menu does not outlive the
list's end, and that Launcher and the list see the same directory. `WlanSettingsImplemented` is the refinement `MenuSpec => WlanSpec`. Hence
`PartsAgreeCorrect`, `MenuLauncherCorrect`, `MenuOpensTheIcon`, `MenuAppListCorrect`, `MenuOpenAndUpShow` and `MenuWlanCorrect` state of
`MenuSpec` all that the run `menu` checks of it.

**BootFlow_proofs**, for every set of programs: `NoProgramLost`, `RunsTheWanted`,
`HoldStopsMain`. The strengthening says who holds the program last chosen in each phase: a
download that waits is that program unless it was overtaken (`OtaIsWanted`); without one `main.py` is
(`MainIsWanted`), but while the list copies (`CopyingIsWanted`); after `_boot.py` a download that is
still there, though the move did not fail, is in `main.py` as well (`OtaIsMoved`); it is
removed only when `main.py` holds all of it, and a `main.py` left open goes with a download that waits
(`OtaIsSafe`). What a move that failed leaves to run at that boot, and what follows
a cut copy or an overtaken choice, the code does not prevent and the properties leave out.

**ChainBus_proofs**, for every set of devices, events and requests, all numbers of tries, calls and
events: `PacketsOnce`, `NoIndexErrors`, `OwnAnswer`, `EventsKeepOrder`, and `ClockWrapEndsClearing` about the test at
`chain.py:580`. The strengthening of the first two says that an index a thread holds still
means what it meant when it was found (the packet found is at it, the clearing's is not past
the end), unless a deletion shifted the list. `OwnAnswer` rests on where answers of
earlier calls can be, `EventsKeepOrder` on the order of dispatched packets, list and line together.
`BusLineImplemented`: `Spec => Line!LineSpec`. Devices put packets on the line, decoding takes the first one off, and
every other step of either thread leaves it alone.

**ChainDecoder_proofs**, for every set of frames that the length field can count, any noise and any number of
frames: `EndlessForEver`, `OutOfStepStays`, `OthersCome`, the refinement of `ChainLine` and `QueuesWhatItHeard`. `OthersCome` rests on `InStep`, which follows a frame
of any length through the ten states: `Behind` says that the line holds the rest of the latest frame, but for the
spoiled byte, `Reached` where the decoder is and how much payload it has, `Copied` that its fields are the frame's.
`SpoiltBodyIsTold` follows from the same invariant: without a fault, or with a byte spoiled in the body of a frame, exactly the
other frames are queued, once, in order and as they were sent, because the checksum tells every such byte
(`TotalReplaced`, `ChecksumTells`). The sum of a payload is a recursive function, so what it computes is
proved by induction on the length: `NatInd` has the induction from the library's theorem that every set of
numbers that is not empty has a least one.

`LineStepByStep` is the refinement as an action property, `Spec => ImplementsLine`: under `InStep`, sending is `Put`
(`LineSends`), the last byte of a frame `Arrive` (`LineBrings`), for as long as the behaviour is `Mild`. `LineImplemented`
makes it whole: `DecoderSpec /\ []Mild => Line!LineSpec`. The behaviours it speaks of are those of a UART without worse
faults; the run `decoder` goes through them with every spoiled byte of a body, and without one.

`QueuesWhatItHeardCorrect` needs no assumption on the fault. It speaks of the steps that queue; the inductive invariant
behind it, `Kept`, says for each state what `heard` ends with: from `0xAA` on, the header, the two bytes of the length (`Opening`), the fields
and the payload so far, and the sum (`Begun`). So in `TAIL2` the line has spelt the frame up to its last byte, whatever was sent.

Each of these modules also proves the type invariant of its component; `ListTypeOK` and
`WlanTypeOK` are shown by proof only, the runs leave them out.

Only model-checked: `EveryPressArrives`, `CallReturns` and `NothingStays`, since liveness is out of the
prover's reach.

`PacketsWereSent` (what is queued was sent) and `OthersCome` are shown by proof only, as far as they hold. `PacketsWereSent` cannot be
proved for faults outside a body, because it is false there for some sets of frames: a spoiled length may join two
frames into one with a sum that fits. What holds with any fault is `QueuesWhatItHeard`; what holds with a spoiled body is
`SpoiltBodyIsTold` and the refinement.

## 7. Not modelled

* `_device_connect_task` of the bus: its timer is commented out. `remove_repeated=True`: nothing passes it.
* The developer app's task and avatar download, the status bar: they draw.
* The GPIO keyboard and the menus of other boards: other hardware with variants of the same code.
* MQTT, FTP, Modbus, microdot, BLE, ESP-NOW, cellular and LLM modules: libraries, many of them third-party,
  whose other side is a radio, a modem or a service that is not in the repository.
* Units, hats, drivers, widgets: register access and layout.
* The C layer, but for the way from power-on to `main.py`.
