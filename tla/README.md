# TLA+ models of FlowerBox

FlowerBox is the firmware of a family of ESP32 and ESP8266 devices (`src/main`, C++ on FreeRTOS): green
houses, lamps, relays, boxes with riddles. A project (`projects/*`) wires sensors, switches and box
properties; the rest is shared: event queue, state machine of the start, wifi, provisioning, settings,
http servers, updates, history of the sensors, delayed actions. This directory holds TLA+ modules of the
parts in which tasks, callbacks, failures and limits meet, TLC configurations that check them on small
instances, and proofs for every value of the constants where they could be had.

`PROJECT.json` lists components, runs, the source lines behind every definition, one plausible bug for
every property (the definitions under the comment "Mutant"), hazards, findings and theorems.

## 1. Inventory

The processes: `app_main` (in the models *main*), the only task that dispatches events; the system event
task (callbacks of wifi and of provisioning); lwIP's task (SNTP callback); the task of the http server;
the task of the mqtt client; a task for each service (sensors, switches); the task of the time scheduler;
the timer daemon of FreeRTOS; the tasks of single projects (dmx, dimmer, publisher, melody, scan); interrupts.
They share memory with few locks and talk mostly through one event queue of ten places.

| component | state | operations | interacts with | what is hard | what makes it correct |
|---|---|---|---|---|---|
| event queue and listeners (`fb_event_manager.cpp`) | queue, listeners, heap blocks of events | push (blocks), dispatch | every task | main pushes into the queue it drains; blocks are shared by listeners | order per task, no block freed early or kept, nothing accepted is dropped |
| boot and work states (`states/*`) | active state, its child | handleEvent, enter, exit | queue, wifi, clock, servers | events queued for a state that is left when they come out | a provided device gets to work, no loss of the network goes unnoticed |
| wifi (`fb_wifi.cpp`) | attempts, driver | start, reconnect, handlers | queue, states | giving up and starting again | a loss is always reported and answered |
| provisioning (`fb_provision.cpp`) | session, mode | start, handlers, end | settings, queue | credentials stored before they are verified | a verdict leads out of the state, no half credentials |
| settings, storage (`fb_settings.cpp`, `storage/*`) | keys in flash or in memory | get, set, clear | everybody | several keys belong together, three tasks write | what is shown is stored, resets last |
| updates (`fb_update.cpp`, `fb_server_update.cpp`) | handle, partition, slots, id | begin, write, end | http, file system, restart | every step may fail, clients and power get lost | a whole image is booted and served |
| multipart reader (`fb_server_update.cpp`) | state, remaining bytes | one block | http, updates | the separator may lie anywhere | no byte of the file is lost |
| sensors and history (`sensors/*`, `fb_cycle_buffer.hpp`) | values, address map, rings | measure, store, answer | service, main, http | three tasks, no lock | answers are of the sensor asked, in order, complete |
| time scheduler (`fb_time_scheduler.cpp`) | priority queue, one timer | add, add from an interrupt, fire | daemon, every caller | several critical sections, commands that wait | never early, none forgotten |
| services (`fb_service_iface.cpp`) | action queue, timer | start, pull, period | daemon, main, http | all waits but one are unlimited | nobody waits for ever |
| switches (`switches/*`) | state, force flag, limits, hysteresis | check, setters | service, http, sensors | changed while they are checked | what the user set is what is done |
| clock (`fb_clock.cpp`) | synchronised | init, sync, calendar | SNTP, history, switches | time jumps at the first synchronisation | histories are in order |
| http servers (`servers/*`) | running server | start, stop, handlers | box, history, updates | they run beside main | see the parts they call |
| box and properties (`box/*`, mappers) | objects, dependencies | set, get, json | http, switches, settings | setters act on other tasks' objects and then store | shown, running and stored value agree |
| keyboard, counter, buttons (`h_keyboard.*`, `fb_counter.cpp`, `fb_input_grid.hpp`) | state of each button, value and target | poll, interrupt, messages | scheduler, sensor service, mqtt | dropped edges, times counted from several beginnings, two writers | the level that lasts is seen, holds are timed right, targets told |
| channels, sceneries (`fb_channel_handler.cpp`, dmx_light) | loops and fades of each channel | tick, set, clear | mqtt task, dmx task | changed between reading and writing a channel | plays what was written, dark after clear |
| http client and mqtt (`fb_http_puller*.cpp`, `fb_mqtt_client.cpp`) | client, connection flag | perform, wifi events | main, queue, tasks of projects | deleted while in use, failed posts | in the end the server's word holds |
| mp3 player (`df_player/*`, `DFRobotDFPlayerMini`, `fb_sensor_mp3.cpp`) | frame being read, volume, loop | commands, queries, restarts | serial line, sensor service, mqtt, http | lost bytes, late answers, resets | answers belong to queries, volume is true |
| projects (`projects/*`) | state of the device | tasks, messages | all of the above | see cipher box, rfids, relays, washer, input matrix | the server knows what is there |
| infrared, templates, containers, hardware access, drivers | | | | | see section 6 |

## 2. Modules

| module | part of the code | uses |
|---|---|---|
| `EventBus` | what the event queue promises: one sequence, given to every listener in attach order | |
| `EventManager` | `EventManager` and main's loop: push, blocked push, receive, listener by listener, release of the block; implements `EventBus` | `EventBus` |
| `RecentValues` | what a bounded history promises | |
| `CycleBuffer` | the ring buffer and its iterators; implements `RecentValues` | `RecentValues` |
| `SensorHistory` | sensor service, store service, storage and the http answer, step by step | `CycleBuffer` |
| `Boot` | the state machine with wifi, provisioning, SNTP, sensors, update end and restarts around a queue of its own | |
| `ProjectTables` | keys, properties and running fields of each of the thirteen builds, as their mappers and hardware objects wire them | |
| `Properties` | both storages, settings, properties, provisioning, reset; every handler write by write | `ProjectTables` |
| `Update` | firmware and file system update with failures, lost clients, power loss | |
| `Multipart` | how the file is cut out of the request | |
| `TimeScheduler` | callers, task, interrupt, daemon and its commands | |
| `Services` | services, daemon, main and http as waiters on bounded queues | |
| `Switches` | `SwitchIface::check()` of light and heater against http, sensor and time | |
| `Fan` | `SensorAht20` and `FanSwitch`: two hystereses and the sudden drop of humidity | |
| `DmxLight` | lamp controller: parsing of messages, sceneries and loops, the tick of the dmx task, the link to the broker | |
| `PlayerDriver` | the serial driver of the mp3 module, byte by byte, with acknowledgements | |
| `Mp3Player` | player and sensor on top of it: start, requests, resets, restarts | |
| `Keyboard` | one button by poll and by interrupt, the long press that forgets the network | |
| `InputGrid` | one button of the grid: bounces, holds, the time it is told with | |
| `InputMatrix` | states and target of the input matrix between buttons, mqtt and publisher | |
| `Counter` | value and target with two writing threads | |
| `Buzzer` | melody and signals of the washer on one buzzer | |
| `CipherBox` | scan of the sockets, bounce time, failures of the bus, post | |
| `Rfids` | antennas, readers and the posting task | |
| `HttpPuller` | relay board over http: task, client, wifi events, pause | |
| `Relay` | relay board over mqtt: modes, pulses, the dimmer's tick | |
| `MC...` | values a configuration cannot write, and the compositions of section 3 | |
| `EventManagerProofs`, `BootProofs`, `TimeSchedulerProofs` | theorems about the module of that name | |
| `SensorsProofs` | theorems about `CycleBuffer`, `SensorHistory`, `InputMatrix`, `InputGrid` | `MCSensors` |
| `SettingsProofs` | theorems about `Properties`, `Update`, `Multipart` | `MCSettings` |
| `SwitchesProofs` | theorems about `Switches`, `Fan`, `Services` | `MCSwitches`, `Services` |
| `DevicesProofs` | theorems about `CipherBox`, `Keyboard`, `Counter`, `Buzzer` | `MCDevices` |
| `PlayersProofs` | theorems about `DmxLight`, `PlayerDriver`, `Mp3Player` | `MCPlayers` |

State and actions. The variables carry the names of the code's fields where there are such fields
(`queue`, `_addressMap`, `_spiffUpdateStatusFlag` become `queue`, `addressMap`, a field of `upload`); a
variable that says where a task is inside a function (`pc`, `task`, `main`, `reader`, `tosend`, `todo`) stands
for its program counter. A handler is one action when nothing else can see it half done. It is several
when another task, an interrupt or a loss of power can: between two critical sections of the time
scheduler, between the store into a slot and the move of the indexes of a ring, between two tests of the
force flag, between two writes of a key. A push into the event queue that waits for room is a step of its
own wherever the wait can be told from the handler around it (`EventManager`, `Boot`, `Services`, `Keyboard`).

Some correspondences that are not obvious from the names:

* `EventManager.pending[t]` is a task inside `xQueueSend(..., portMAX_DELAY)`; `heap` is the set of events
  whose data block is allocated, `handled` a history variable for the properties.
* `Boot`: a handler with all `exit()` and `enter()` calls of its transition is one step because only main
  runs handlers; the events that it pushes itself are left in `pending["main"]`, and main does nothing
  else before they are in the queue. `restarting` is the delayed `esp_restart()`.
* `SensorHistory`: an address is a sensor and the index of one of its values, as
  `reinterpret_cast<int>(sensor) + i`. `Compare` and `Add` read the value twice, as the code does.
  `Push` and `Advance` are the halves of `pushValue()`; `FindFirst` and `FindEnd` are two calls of the http
  server with anything in between.
* `Properties`: `todo[t]` is the sequence of writes a handler still has to make; `box` is what the property
  shows, `hw` what the running object works with, `flash` and `ram` the two storages, one of which `store`
  names. Numbers are abstract, but conversions are not left out: a float is counted in units, two of which make
  the last of the six digits that `setFloat()` and `_valueToString()` keep, and four a whole; a field that is
  an int in its object (`build.cut`, the period of the fan of the green house) keeps the whole part (`Held`).
  `behind`, a history variable, has the properties whose setting somebody else wrote or erased since the box
  was told, or a write of which was refused.
* `Update`: `spiffId` is the number in flash, `named` what `getSpiffId()` returns (the same, or that of
  `RamStorage` after a start without nvs, where `inFlash` is false). `Name` is the write of the number that
  may fail and is only logged; `refused` remembers for the properties that it did.
* `TimeScheduler`: `due` is counted relative to now, so the model needs no bound on time; `tosend` is what
  is left of stop, change and start.
* `Services`: queues are counters, because nobody looks at the actions; a delayed action is represented by
  the command it begins with.
* `Switches`: `seen` is a history variable: has the switch been checked since something it depends on
  changed, where a check that was under way at the change does not count. `Fan.wanted` is its like.
* `DmxLight`: a message is parsed at once into the steps (`todo`) that the task of the mqtt client then
  takes, between which the dmx task may tick; `played` is a history variable.
* `PlayerDriver`: the line is a sequence of bytes abstracted to what the parser tells apart; `disturbed`
  remembers that something was lost, late or unasked for since the line was quiet.
* `Mp3Player`: a packet that the driver took may be lost, and `readVolume()` and `readTotalFiles()` take any
  answer; `doubtful`, a history variable, is set by a volume lost or misread and cleared by one that arrives.
* `Keyboard`: `Read` is `readState()`, `Handle` the judgement with the time stamps, up to the call of
  `_consumer`, and `Consume` the push, when the queue has room; `pushing` has the event meanwhile, with the
  hold that was computed before. Between turns, and in the push, time passes without a bound. `lookAge`,
  `seen`, `missed`, `downFor`, `pressGap` and `verdict` are history variables: what a perfect observer
  knows about the press.
* `Relay`, `CipherBox`, `Rfids`, `HttpPuller`: one action for each stretch of a task that no other task can
  interrupt at a place that matters; `modes`, `states` and `told` are what is set, read and known by the server.

## 3. Runs

Several runs check independent modules at once: their MC module extends one, instantiates the others
with renamed variables, and a variable (`part`, `build`) says once and for all which of them moves, while the
variables of the others stay at one initial value. Such a behaviour is a behaviour of one module, so every
property is checked exactly as it would be alone. The MC modules have the constants of all their parts as
constants of their own, to which only the configuration gives values; a proof module that extends one of
them therefore speaks of every instance, and of the specification of the part (`SH!Spec`, `PL!Spec`), not of
the composition.

| run | instance | shows |
|---|---|---|
| `event_manager` | three tasks, one of them main, two pushes each, a queue of two, two listeners | order, completeness, ownership of blocks, refinement of the bus. `StallIsFinal` says that a self-push of main into the full queue is the end; `AcceptedIsHandled` that it is the only way to lose progress |
| `boot` | every build (with and without time and sensor service), mode and stored setting, a queue of two, one retry, two starts | a lost network has someone to bring it back, each loss gets its attempts, a provided device gets to work |
| `services` | two services, queues of two, two and one places | the ring main - daemon - service - main is opened by the assert of the scheduler only; nobody else waits for ever |
| `time_scheduler` | one delayed and one repeated action, one of an interrupt; ticks of two milliseconds; command queue of four; a daemon that others block | nothing fires early, the task never sleeps with nobody to wake it, every action is invoked |
| `sensors` | a ring of five slots and three values; a sensor of two values and one of one over rings of three slots, three updates; two buttons and a queue of two; one button through bounces and holds up to 14 ms | refinement of `RecentValues`; `HistoryCatchesUp`, `AnswerIsSound`; `StatesAreTold`; `HoldIsToldRight` |
| `switches` | days of three hours with every begin and end, temperatures 0 to 3, limits in and out of order, two pulls; the fan with temperatures and humidities 0 to 2 | `ForceIsObeyed`, `SettledIsRight`, `FanIsRight` |
| `settings` | thirteen builds, up to three handlers on four threads, two losses of power, values that have a fraction and a digit too many; updates of two blocks, three uploads, starts with and without nvs; bodies with files of 0 to 7 bytes in blocks of 1 to 6 with a separator of 4 | `ShownIsStored`, `ResetIsForGood`, `ProvidedIsWhole`; `WholeImagesAreUsed`, `SuccessIsInstalled`; `NothingIsLost` |
| `players` | lamps: two channels, values 0 to 3, twelve messages, three of them in a behaviour; driver: three calls, two faults, 14 bytes; player: two tracks, two faults, three requests | `PlaysAsWrittenOut`, `ClearedIsDark`; `AnswerIsOfTheQuery`, `ParserRecovers`; `VolumeIsTrue` |
| `devices` | cipher box: two sockets, two moves, one fault; rfids: three antennas on two readers, three moves, two faults; relay: one channel, two messages; puller: two lights, two changes and two faults; keyboard with times scaled to 1..3 ticks of a counter of 7; counter of base 2; buzzer of three notes and two signals | `NoFailureIsTold`, `PlugsAreTold`, `TagsAreTold`, `ModeIsApplied`, `ServerIsFollowed`, `SettledIsSeen`, `LongHoldForgets`, `TargetIsTold`, `SilentInTheEnd` |
| `update_handles` | the instance of the update | **violated**: `BeginsClean`, see section 5 |
| `relay_pulse` | the instance of the relay | **violated**: `PulseEndIsShown` |
| `fan_humidity` | the instance of the fan with two speeds | **violated**: `UpdateTellsChanges` |

All runs finish; deadlock is checked except where the configuration says that the bounds or the system let
everything come to an end.

Bounds, and why they are enough. Queues of one and two places make "full" frequent; the ten places of the
firmware only put it off. Two tasks beside main are enough for an order to be disturbed, two pushes for one
to be overtaken. The properties of the ring involve the last slot, the first and one in between, and its
wrap; `RingKeepsRecentValues` removes the bound. Two uploads would show every stale handle, the third one shows
what a second restart does. An update is two blocks so that there is a half-written one; `WholeImagesAreAlwaysUsed`
removes both. In `Boot` one retry is enough to count up, give up and be set back. Two losses of power reach "cut,
repaired, cut again"; three handlers are one more than can disturb each other over one key. The messages to
the lamps have a loop in a loop, a second loop of an entry, endless and zero-times loops, arrays of
different length, and one with more values than an index can count. Three antennas on two readers make a reader change its antenna. Two faults let a fault
follow the repair of the first. `MaxBoots`, `MaxPushes`, `MaxUpdates`, `MaxTime`, `MaxUploads`, `MaxLate`,
`MaxBacklog`, `MaxOps`, `MaxCuts`, `MaxPulls`, `MaxMoves`, `MaxFaults`, `MaxChanges`, `MaxMessages`, `MaxCalls`, `MaxBytes`,
`MaxAsked`, `MaxPlayed`, `MaxTick` and `MaxHold` are the bounds on counters; each appears in the guard of the action
that counts, or caps the value. A day of three hours has a middle, a first and a last hour on either side of
midnight.

Fairness. `EventManager`: main runs (weak fairness of receive, listener, finish), and somebody blocked on
the queue gets in when there is room; which one is left to FreeRTOS. `Boot`: main runs; each blocked push
gets in if there is room again and again, because FreeRTOS wakes the waiters by priority and age; sensor,
access point and time server answer if they are asked again and again. Nothing is assumed of losses of the
network: `ProvidedDeviceWorks` has the premise that the handlers give up only finitely often.
`TimeScheduler`: the task, the daemon and the clock run, and another timer's callback ends. `Services`:
each task goes on if it can again and again. Timers are never required to expire. `CipherBox`, `Rfids`,
`HttpPuller`: the tasks run, time passes, and when the bounded faults are used up the bus, the network and the
server answer; nothing is assumed of the user, who may stop moving things. `Relay`: the dimmer and the scheduler
run, and the client, which both interrupt, goes on if it can again and again because the dimmer sleeps
between its ticks. `Keyboard`: time passes, and each thread goes on with its turn, with what it read and with
its push, because main makes room in the queue (`AcceptedIsHandled`); how late each is has no bound.

## 4. Proofs

Each theorem holds for every value of the constants, from the named assumptions on them, which TLC evaluates
for the instances. A module that is checked alone states its assumption as an ASSUME; one that is
instantiated defines it, the MC module assumes it of its values and the theorem names it as its hypothesis.
None of the invariants proved is inductive as it stands; what had to be added says why the code is right,
and stands as a definition in front of each proof.

`EventManagerProofs` (`EventManagerAssumption`, `NoEventAssumption`): `TypeCorrect`, `OrderPerTask`,
`BlocksAreOwned`, `MainStallsForGood` (an action property) and `EventManagerImplementsBus`, the refinement.
`Inv` adds: a blocked event is the newest one of its task (`PendingIsNewest`); what the listeners were given
are prefixes of each other, up to the cursor (`HandledArePrefixes`, `LastHandledIsCurrent`); and the sequence of
accepted events, which is what the last listener was given, the current event if it is still to be given to
it, and the queue, has the events of each task consecutively numbered from 1 (`AcceptedInOrder`). Each
action either leaves that sequence as it is (receive, fire, finish: they move a boundary inside it) or
appends the pending event (enqueue). The last fact is what makes the release of a block safe: an event that
was accepted once is not accepted again.

`BootProofs` (`BootAssumption`: a queue of at least one place): `LostNetworkIsAlwaysReported` and
`NetworkAlwaysGetsItsRetries` (an action property), for any queue, retries and restarts. `BootInv` adds that wifi
is off until the state that launches it, which is why no report of a loss comes to a state that would drop
it, and that a connected radio has its whole budget of attempts.

`TimeSchedulerProofs` (`TimeSchedulerAssumption`): `NoActionFiresEarlyOrIsForgotten`. Check and removal of the top are
two critical sections; what is ready stays on top between them, because nothing is added that is due before
it (`queue # <<>> /\ due[Head(queue)] < 0`). A wake-up is under way because a Stop is never the last command of the daemon
but while its sender goes on sending (`EndsArmed`).

`SensorsProofs`:

* a ring alone (`N >= 2`): `CountersStayConsistent`, `NoUnwrittenSlotIsRead`, `LastReturnsNewest`,
  `RingKeepsRecentValues` (a ring of N slots implements the last N - 1 values, one less than its size suggests).
  `Inv` relates read index, write index and length, and says which slots have been written;
* `SensorHistoryAssumption` (finitely many sensors of one or two values, as many rings as addresses):
  `HistoryFollowsTheSensors` and `RequestIsAnsweredSoundly`, for any sensors, rings, precisions and measurements.
  `HistoryInv` holds between and after the halves of a push: each address has a ring of its own, whose entries
  are its own, one different from the next, with times that do not fall. `CatchInv` adds who will bring a value
  in that is not close to the stored one: a report under way, or main, which is not yet past that address. `AnswerInv`
  adds what the http server has sent so far: what it visits is written, the last entry sent is the one before its
  index while the first push is under way, and without a push the answer is a piece of what can be read;
* `InputGridAssumption` (a scan is not longer than a released button is counted for): `HoldIsMeasured`. `GridInv`
  bounds the difference between the real hold and the counted one by one scan for each cycle counted;
* `InputMatrixAssumption` (natural bounds): `StatesReachTheBroker`, for any number of buttons. `MatrixInv` says
  who still owes the news of a state: whoever wrote it and has not set the flag, the flag, or the publisher,
  which has not copied that state yet.

`SettingsProofs`:

* `UpdateAssumption`: `WholeImagesAreAlwaysUsed` and `SuccessMeansInstalled`, for images of any number of blocks and any
  number of uploads. The invariant adds what makes a failure harmless: the upload in hand writes the firmware
  slot that does not run, or the partition that the settings do not name, and what it has written so far is the
  beginning of its image; and that the number in flash is the one that is used whenever the settings are in nvs.
  A number that the settings refused leaves both as they were, which is the case the property states apart. The slot selected for boot may be broken; then it is not the running one, to which
  the boot loader goes back;
* `MultipartAssumption`: `UploadIsCutWhole`, for files, separators and blocks of any length: what was passed on is the
  file from its beginning to where the handler is;
* `PropertiesAssumption` and `TablesAssumption` (what the tables of a build have in common: no build stores under
  the keys every box has, each property has a key, the first object told is the one started from it):
  `ResetHolds` (an action property), `ProvidedStationIsWhole` and `BoxShowsWhatIsStored`, for any tables and any
  number of handlers, restarts and losses of power. `ForGoodInv` says that nothing but a reset runs while the objects
  start and that the storage in memory is empty then. `NetInv` adds that provisioning and reset write in orders
  each prefix of which is harmless, and that everybody else keeps off their keys. `ShownInv` adds that the box is
  ahead of the storage for one property at most, by what its handler has still to store, and that the storages
  have no more digits than are printed.

`SwitchesProofs`, for any limits, times, temperatures and pulls:

* `ForcedSwitchObeys`. Whoever sets a flag puts a pull afterwards; so as long as no pull is pending or about
  to be, the check under way has seen the flag as it is, and the invariant says for each of its steps what it
  has ruled out;
* `CheckedSwitchIsRight` (`SwitchesAssumption`): a check reads flag, hours, limits and temperature one after the other; `SettledInv`
  says what those read so far rule out if nothing changed meanwhile;
* `FanDoesAsCalledFor` (`FanAssumption`: each lower limit is below its upper one). A limit that is reached decides the
  hysteresis whatever it remembers;
* `RingOpensByAssert` (`ServicesAssumption`; an action property of `Services`), for any services and lengths of queues:
  everybody in the ring waits for room that only the next one makes.

`DevicesProofs`:

* `FailuresStayInTheBox` (`SocketsInOrder`, `ValuesAreApart`): from the failed call until the scan is judged the
  flag of the bus stays set;
* `OnlyLongHoldsForget` (`TimesFit`: the times are natural numbers), for any periods, presses and waits in the queue:
  `InHand` says that what the looks have shown has been handled or is about to be, `HoldFollows` that the hold the
  button measures is behind the real one by no more than the time between the looks around the press, and
  ahead of it by no more than the time since the last look, until the counter of ticks wraps. `ReleaseIsRight`
  carries that through the push: the event keeps the hold that was judged, however long it waits;
* `ReachedTargetIsTold` (`TargetIsAhead`: the first target is not the initial value): the property speaks of a
  counter at rest; the invariant says which of the two threads owes the notice while it is not;
* `BuzzerFallsSilent` (`CountsAreNatural`): while the buzzer sounds somebody owes the silence, the melody that has
  begun a note, or a signal with half beeps left.

`PlayersProofs`:

* `SceneriesPlayAsWrittenOut` (`LimitsAreNatural`, `MessagesAreJson`), for sceneries of any length and times, loops of any
  count, within each other, endless or of count 0, and any messages. The property compares the player, which knows
  an index, a count of ticks and one counter for each loop, with a list in which every loop is written out.
  `PlayInv` says that what a scenery has sent, the rest of the time of its entry, the turns its loop still owes and
  all that follows are together that list (`Follows`). The turns owed are what the counter says (`Owed`, `LeftFits`), and
  the loops that end before the entry have their counters at 0 (`Untouched`), which is why the reset of
  the counter of a loop that is through is needed as soon as there is a loop around it. A step stays in its entry, goes on
  to the next because no turn is owed, or takes another turn (`TurnTaken`). That only legal sceneries get to the
  player is part of the proof: what `HandlerSteps` makes of any message has repeats that lie within the values;
* `ClearedLampsAreDark` (`LimitsAreNatural`), for any channels, sceneries and messages: a message that clears drops the sceneries
  before it puts the channels out, so that no tick between the two brings anything back (`DarkInv`);
* `VolumeStaysTrue` (`LimitsAreNatural`), whatever is lost on the line or taken for an answer: what is left of a
  request that reset the module ends with the packet that sets its volume again, and unless a volume was
  lost or misread since the last one that arrived, sensor and module agree otherwise (`VolumeInv`);
* `ParserAlwaysRecovers`, for any commands, parameters and lost bytes: `LineInv` lists how far a parser can be out of
  step at each byte of a whole frame; the bytes that begin and end a frame are no commands, and version and
  length cannot both be where a frame that began elsewhere has them;
* `AnswersBelongToQueries`, with acknowledgements or without: `QuietInv` says what is on its way while nothing was
  lost, late or unasked for: nothing, one frame, or an answer and its acknowledgement (after a reset the other way
  round), sent or still to be sent, and that the parser has read the first of them up to its index. The
  acknowledgement that is waited for keeps the next command back, so no answer meets a call that did not ask.

Where a proof needs the least number with a property (the first entry later than the time asked for), it takes
it from the well-foundedness of the natural numbers (`LeastOfSet` in `SensorsProofs` and `PlayersProofs`) instead
of an induction. In the same way `RecursionUnfolds` shows that the recursive functions over arrays and entries
(`Accepted`, `After`) satisfy their equations, and facts about all entries follow by looking at the least one that
would break them.

Only model-checked: all liveness (`AcceptedIsHandled`, `ProvidedDeviceWorks`, `EveryActionIsInvoked`,
`NobodyWaitsForever`, `PlugsAreTold`, `TagsAreTold`, `ModeIsApplied`, `ServerIsFollowed`, `SettledIsSeen`), which the prover
cannot do, as it cannot do ENABLED. Every safety invariant, every action property and the two refinements
of the passing runs are theorems. The violations of section 5 are counterexamples and need no proof.

## 5. Where the code disagrees with itself

* `update_handles`: a begin, an erase, a write or a client that fails leaves `_partition` or `_otaHndl` set;
  the next request fails `assert(!_partition)` and the device restarts. What is booted stays whole
  (`WholeImagesAreUsed` holds with it).
* `relay_pulse`: the time scheduler may restore the mode of a channel while the dimmer is between its callback
  and `tick++`; the increment then skips the tick that would have shown the mode, and the relay stays as it
  was. `ModeIsApplied` holds for all channels this did not happen to.
* `fan_humidity`: `SensorAht20` compares `hum == _humidity` where it means a difference: while the temperature
  stays, another humidity is neither told nor kept.

Premises of the properties, each of which leaves out something the code does:

* `StallIsFinal`, `ProvidedDeviceWorks`: main's push of TRANSITION into a full queue stops the device.
  SYNCED that reaches `StateWifiInit` is dropped and `StateTimeInit` waits for the next one although the clock is
  set; a FAILED_TO_CONNECT in `StateTimeInit` launches wifi from the start again (comment `fb_wifi.cpp:255`).
* `AnswerIsSound` is stated for addresses known when the request began: for others the answer is the end of ring
  0 (`fb_sensor_storage.cpp:35, 47`), and if main pushes between the two calls, another sensor's entries. Order
  is promised for one push in between; more of them may overtake the iterator.
* `ShownIsStored` exempts a property from the moment a message, provisioning, a reset or the end of an update
  stores or erases its key past the box, or the storage refuses its write (which is only logged), until it is
  set again or the device starts; `sta_ssid`, `sta_pass` and `s_id` are such keys as well as those of the
  projects. It leaves out objects that no build of that board starts. The fraction of `f_per` is shown until
  the restart and gone after it, because `FanSwitch::setDeltaPeriod()` takes an int.
* `SuccessIsInstalled`: when nvs refuses the number of the new file system, `setSpiffId()` logs it, the old one is
  mounted again, and "Success" is answered all the same (`fb_update.cpp:170`, `fb_settings.cpp:160`). The property then
  only says that the new one is whole in its partition.
* `VolumeIsTrue` exempts the time from a volume that was lost or misread to the next one that arrives.
  `writeVolume()` waits for no answer, and `readVolume()` takes any ten bytes (it checks the sum of the request, `fb_df_player.cpp:152`).
* `LongHoldForgets` judges a hold as exactly as the looks of the polling thread allow. Its push waits for room without a
  limit inside `tick()`: **a press of a tenth of a second whose PRESSED waits two seconds or more is measured as a long one
  and drops the wifi settings**. Such a wait is time between two looks, so the property does not decide it. The
  same goes for a press that came and went between two looks, and for one as long as the counter of ticks. No tick
  passes between reading the pin and the time stamp of it.
* `ProvidedIsWhole` leaves out a reset that was cut or ran beside provisioning, a property that changed one of the two keys,
  and a phone that started over.
* `ResetIsForGood`: a reset while the settings live in memory is undone by the restart.
* `SettledIsRight` and `FanIsRight` have lower limits below upper ones as a premise; nothing compares the two
  setters, and a heater with limits the wrong way round changes at every check.
* `WholeImagesAreUsed`: `endSpiff()` asks to unmount the partition of the id in the settings, which is not the
  mounted one after the user changed the id; the part about files holds as long as the user did not choose
  since the last update.
* `PlaysAsWrittenOut` leaves out repeats that go forward, which nothing refuses, and a scenery of 256 values. The handler
  supports 255 ("we only support 255", `fb_project_hw_obj.cpp:167`) but compares the length with 255 before it adds a
  value; the index of such a scenery is a byte, wraps after the last entry and begins anew for ever.
* `AnswerIsOfTheQuery` is stated for a quiet line. A message that arrives too late is taken for the answer of
  the next query. The queries and the receiving side of the vendored driver (`DF_available()`) have no caller
  in any of the builds, which only send; `AnswerIsOfTheQuery` and `ParserRecovers` are about the driver as a library.
* `PlugsAreTold` leaves out a box all of whose sockets are empty and a chip that was only half set up (`fb_cipher_box_hw_obj.cpp:116, 146`;
  compare `projects/cipher_box/README.md:10`). `TagsAreTold` leaves out a last post that failed, which is
  not repeated. `ServerIsFollowed` leaves out a paused puller, a client that was freed in use
  (`fb_http_puller.cpp:119`, "need mutex"), and a request begun while there is none, which happens when a loss is mended
  within the retries of `fb_wifi.cpp` and CONNECTED comes again without a DISCONNECTED before it.
* `StatesAreTold` is about the buttons; a new target is compared when a button is pressed next.

Seen while reading and modelling, without a property of its own:

* Updates: when the separator continues in the next block, `valid_len` adds the part of it that is in this
  block instead of subtracting it, and bytes behind the file are written behind the image. Images carry
  their length, so the firmware usually does not notice. The assert that the first block holds the whole
  header fails if the client sends less (`state = "aborted"` in `Multipart`).
* Time: the callback of a service may block the daemon in `xQueueSend(portMAX_DELAY)`; the queue of commands fills and an
  assert of the scheduler fails; from the interrupt the result of the commands is ignored. Milliseconds are kept in 32 bits.
* Wifi and settings: `reconnect()` ignores a refused `esp_wifi_connect()`; `assert(wifi::start())` fails at each
  start with names that are too short; `isWifiProvided()` asks for the access point's name twice and never
  for its password (`fb_settings.cpp:223`); `setFloat()` formats into 16 characters.
* Green house: temperatures of zero and below are answered as invalid; the output of the fan is built with
  its level set while `_state` says off; a lost sensor keeps its last value; the night delta of the fan is copied at the start only.
* Lamps: a last point of no time is not reached; channel 512 is let through into 512 places.
* Mqtt: the connection flag is set when the client is disconnected (`fb_mqtt_client.cpp:162`).
* Input matrix: the result of publishing is ignored.
* Relays: the second of two overlapping pulses restores the mode of the first; an answer without the key
  of a relay turns it off.
* Rfids: a tag whose characters are no number makes `std::stoll` throw. The check sum of a packet is not looked at; a
  garbled one is told as another tag until the next reading (`Garble`).

## 6. Not modelled, and the plan

Modelled, in the order of the plan: what every project depends on (events, history, boot, update, scheduler,
services, switches), then settings and properties of all builds, then the devices with logic of their own.

What is left, in order of what it would add:

1. Composition of `Services` with `TimeScheduler`: the first represents a delayed action by its first command.
2. The keypad, sticks and tressure projects, whose parts (grid, settings, mqtt) are modelled, as devices;
   combinations of buttons in `Keyboard`.
3. The properties named in section 5 as seen without a run.

Left out:

* `fb_ir_reader.cpp`: what it decodes depends on microseconds between edges; a model would be one of the
  signal and not of the code's control.
* `templates/*`: a text substitution over blocks of a page, sequential, without state that another task sees.
* The protocols of the hardware (one-wire search, registers of the AHT20 and of the chips of the boxes) and
  access to hardware without state (`fb_i2c`, `fb_uart`, `fb_pins`, wrappers).
* The rgb, mp3 and gpio switches: they differ from the light in the output their action sets.
* Layout of pages and json, dependencies and limits shown to the user, debug output, drawing of displays.
* Vendored drivers (`components`, but for the mp3 player's), generators, pages and pictures.
* Float arithmetic (measured values are small integers), the wrap of the millisecond clock after 49 days,
  and undefined behaviour of torn reads of floats and of the hash map that http reads while main inserts
  (one-core builds make a reader see the map before or after the insertion unless it is rehashed meanwhile).
