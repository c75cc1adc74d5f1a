# AstroTimer: formal models

TLA+ specifications of the firmware of AstroTimer_pico (`src/MicroLogiciel`), their
model-checking runs with TLC, and proofs checked by TLAPS. Every definition is translated
from the C source; `PROJECT.json` maps it to its lines. Line numbers below refer to
`src/MicroLogiciel` unless said otherwise.

AstroTimer is an intervalometer on a Pico 2 W: the board opens a Wi-Fi access point,
answers DHCP and DNS, serves one web page, and an HTTP API starts and stops a sequence of
exposures by driving a shutter pin. FreeRTOS schedules tasks of one priority on two cores,
preemptively and with time slices (`FreeRTOSConfig.h:44, 62, 108`).

## 1. Inventory

| Component | State | Operations | Hard behaviour | What makes it correct |
|---|---|---|---|---|
| Timer API (`timer.c:129-226`) | flash sector, static `timer_data`, static reply buffer, 3 binary semaphores, `s_TimerTaskHandle` | start, stop, update, settings GET/POST | one connection task per request, all sharing the statics; error paths; flash erase; restart | one sequence at a time; stop stops; what is stored is what was posted; semaphores come back |
| Timer task (`timer.c:102-127`) | loop counter, shutter pin | expose, rest, unregister | may be deleted anywhere, with a lock in hand; clears the handle itself | an open shutter will be closed |
| HTTP server (`httpserver.c:119-170, 248-389`) | backlog, counting semaphore, contexts, sockets, zone list | accept, allocate, spawn, redirect, route, reply, free | failing allocations, slots at their limit, use of a freed context, zones added while serving, partial sends | nothing leaks; routed requests are answered; the backlog is served; a redirect leads somewhere |
| Request reader (`httpserver.c:39-117, 178-246, 436-462`) | connection buffer, offsets, remaining body | receive a line, headers, body | TCP cuts anywhere; lines at and over the buffer's size; clients that hang up | lines handed on are those sent; the task ends |
| Server settings (`server_settings.c`) | flash sector, static record, static reply buffer | GET, POST, restart | no semaphore at all; flash erase; effect only after restart | stored = posted; a restart applies it |
| JSON getters (`json_parser.c`) | none | getInteger, getFloatInt, getBoolean, getString, getIPAddress | text search for keys, buffers of fixed size | value of the key, or an error |
| DHCP server (`dhcpserver/`) | 8 leases: MAC, 16-bit expiry | DISCOVER, REQUEST, options | lost, repeated messages; offers reserve nothing; clock wraps; restart with an empty table | no address with two users; leases honoured; what is granted is what was asked for |
| DNS server (`dnsserver/`) | settings, static packet | answer a query | loose matching of names; settings that change under it | right address for the host name |
| Start-up (`main.c:65-171`) | zones, semaphores, access point | create everything | the server serves before all zones exist | a request meets initialised zones only |
| File system image (`main.c:30-63`, `Tools/SimpleFSBuilder`) | header, entries, names, data | build, look up | offsets between builder and reader; files that cannot be read | what was packed is served |
| Debug output (`main.c:110-127`) | mutex | print | mutex held by a deleted task; called from a USB callback | never blocks for ever |
| Web page (`www/index.html`) | form values | the API's client | polls and posts concurrently | what is typed is accepted, and shown again |
| Build and configuration | - | - | - | - |

Interactions: the listener calls the handlers of the zones in a connection task; handlers
read the body through the request reader and the JSON getters; start creates the timer
task with a pointer to the handler's static record; stop deletes it; both POSTs write flash
and arm the watchdog, whose restart passes through start-up. Task handle, records and
buffers are shared memory without a lock; the semaphores are tried, never waited for.

`PROJECT.json` lists the hazards at their lines with the properties aimed at them.

## 2. Modules

| Module | Models | Reading it against the code |
|---|---|---|
| `TimerApi` | timer API and timer task | `pc[c]` is the place of a connection task in the handler, one action per access to shared state; `tpc[t]` the place of a timer task, including those where it holds the printf mutex or the driver's lock |
| `Intervalometer` | what the timer promises | abstract: idle, starting or running with exposures left; `TimerApi` maps to it by `Mode`, `Left` and the pin (`Abstract`) |
| `TimerApiProofs` | - | theorems about `TimerApi`, and that it implements `Intervalometer` |
| `TimerSchedule` | the timer in ticks | a call is one step; `place` is the timer task, `DelayUntil` the comparison of `vTaskDelayUntil` with its wrap; the forms go through the getters |
| `TimerScheduleProofs` | - | theorems about `TimerSchedule` |
| `JsonParser` | JSON getters, and the bodies that the page makes | a text is a sequence of words and marks; a getter gives the set of its outcomes |
| `SharedLemmas` | - | numbers, recursion and sequences, for all proofs; what a getter finds in the text of a form |
| `HttpServer` | listener, connection tasks, zones | `lpc` is the listener, `cpc[c]` a connection from `away` to `away`; a handler is one step with an outcome (taken or not, replies sent) |
| `HttpServerProofs` | - | theorems about `HttpServer` |
| `RequestReader` | reading a request | one action per iteration of the loops; `used`, `pos`, `remaining`, `skipped` are the C variables; bytes are the few that the code distinguishes |
| `RequestReaderProofs` | - | theorems about `RequestReader` |
| `ServerSettings` | network settings | as `TimerApi`; `at[c]` is the key being parsed, `running` what the access point was started with, `shown` whether the buffer of the reply was made from whole records; extends `JsonParser` |
| `ServerSettingsProofs` | - | theorems about `ServerSettings` |
| `DhcpServer` | leases | `OnDiscover` and `OnRequest` are the two cases of `dhcp_server_process`, `Find` is `opt_find`; the actions of clients and network are external |
| `DhcpServerProofs` | - | theorems about `DhcpServer` |
| `DnsServer` | answers to names | `Component` is one turn of the loop of `get_address_for_encoded_domain`; `IsOurs` the reference definition |
| `SimpleFS` | builder and reader of the image | `Build` keeps the two passes of the builder with their offsets, `Retrieve` is `do_retrieve_file` |
| `CaptivePortal` | how a browser comes to a page | composes `DnsServer` and `SimpleFS` with the redirect, the sends and the settings that may change and restart the device |
| `CaptivePortalProofs` | - | theorems about `CaptivePortal`, `DnsServer` and `SimpleFS` |
| `MC*` | constants of the runs | model values, posted bodies, symmetry |

Modelling decisions. Struct copies (`timer_data = *get_timer_settings()`) are one step: they
are three words or a memcpy with nothing between that another task could tell apart in the
properties, except a mixture that field-by-field parsing produces anyway. Undefined behaviour
is a choice: `fault` stops the model where code runs from flash being erased, where a deleted
task is deleted again and where a freed context is used; `clobbered` is the freed memory that
was given to someone else. `vTaskDelete(NULL)` in stop leaves the connection task at `lost`.
Error returns that cannot be taken (`sprintf` returning 0, `timer.c:176-180`) have no action. `portENTER_CRITICAL` around a flash write
(`timer.c:96`, `server_settings.c:173`) masks one core of two and takes the lock of the kernel: between `Erase` and
`Program` nobody else enters a critical section (`Writing`), but every other step of the other calls and of the sequence
may happen, and either operation may end in `fault`. (On the chip only what runs on the other core does; the model
allows any task.) The buffer of a request begins with anything of `Leftovers`, since `malloc` hands out freed contexts with
the requests in them. In `HttpServer` the chip may stop (`fault`) and slots may all
be lost, and in `RequestReader` a task may wait for its client, so deadlock is not checked in
those runs; liveness properties say what must happen instead.

## 3. Runs

| Run | Bounds | Shows |
|---|---|---|
| `TimerConcurrent` | 2 calls, 2 timer tasks, start/stop/POST, one record | types, semaphores have an owner, an open shutter has a closer |
| `TimerSerial` | 1 call, 2 tasks, every path, words 0..3, two bodies | one sequence; stop stops; reports and storage are true; the refinement of `Intervalometer` |
| `TimerLive` | 2 calls, 1 task, start/stop | exposures end; calls are answered |
| `TimerTwoStarts` | 2 calls of start and stop | violation, section 4 |
| `Schedule` | 3 forms (two pictures; none without delay; an empty field), 3 ticks to a hundredth, clock of 8 ticks, lateness of 1 | the numbers asked for are those shot; no lateness adds up; what is saved is shown; sequences end |
| `Http` | 3 clients, 2 slots | slots, contexts, sockets accounted for, those of tasks that deleted themselves as leaks; visible zones are ready; routed is answered; the backlog is served |
| `ReaderLines` | buffer of 16, three requests with lines that fit, fill the buffer or are longer, all cuttings, hang-up at every byte, two fills of fresh memory and the remains of an earlier request | lines are those sent; requests end; a hang-up releases the task |
| `ReaderSplit` | one request | violation, section 4 |
| `Settings` | 2 calls, 5 keys (`Kept`), three texts of forms | what can be typed is accepted and goes to its field; erased flash gets out of a write in one way only; a restart applies what was stored |
| `Portal` | 4 files in every listing order, 3 settings, 7 names, a Host header of 8 characters (`HostLimit`) | the right address; one redirect; the packed bytes; a page in the end |
| `DhcpSafety` | 2 clients, 2 addresses, clock of 12 that wraps, any remembered address, options before option 50 | no address with two users; leases honoured; an ACK is for what was asked |
| `DhcpLive` | 2 clients, 2 addresses, clock to 3 (`Horizon`) | an entry each; everybody is bound |

Why the bounds suffice. Two calls give every pairwise interleaving, and the third actor that
matters, the timer task, is there twice because a second sequence is what goes wrong. Words of
two bits reach the limit of the loop counter. In `HttpServer` a backlog, full slots and a waiting
listener need more clients than slots. The reader's buffer leaves 9 bytes after the first line, so
that lines below, at and above its size occur with CR and LF on both sides of its end. `whole` is
FALSE where the first line itself is cut: `LinesAreSent` and `RequestEnds` then do not hold
(`ReaderSplit`), so they speak of requests whose first segment holds that line, and only
`ReleasedByClient` of all. The clock of
`DhcpServer` keeps the proportions: a lease is shorter than half the range, and the expiry loses low
bits (`Quantum`). In `TimerSchedule` the clock (`Period`) is shorter than a sequence and longer than one
exposure, so that it wraps inside of both, and `Late` is less than an exposure; `Count` and `Horizon` bound
the loop counter and the time since the start above what a sequence takes. The forms of `Settings` hold the
longest values that fit, a value with the name of a key inside, a comma, and the broadcast address; the keys
that are part of one another (`ipaddr`, `ipaddr2`) are among them. The `Remains` in a reader's buffer have the spaces and the CR LF that complete a first line behind
what was received, so that the headers begin there (`Beyond`). `Portal` has the host name, a
beginning of it, domains of none to two components and a name too long for the header. `MaxWord`, `Kept`,
`Horizon`, `Quantum`, `Half`, `Period`, `Word` and `HostLimit` are the scaled-down constants.

`TypeOK` of `TimerSchedule` and `ServerSettings` is proved (section 5), and that of `CaptivePortal` holds in this
instance; the configurations name the properties that say more.

Fairness. `TimerLive`, `Schedule`, `Settings`, `Http` and the reader assume that the scheduler, preemptive with
time slices among equal priorities, gives each ready task its turn (strong fairness where it queues
for a lock, since FreeRTOS hands locks on in order). No fairness makes a client send: a handler that
waits for the first field of a body may wait for ever, and `BacklogServed` assumes that requests end.
`DhcpLive` assumes that clients repeat themselves, that of many copies one arrives, that the clock
stands still for an exchange (milliseconds against 24 hours), and that restarts come to an end. `Schedule`
has the tick interrupt, and `Portal` a browser that goes on, acknowledged sends and an armed watchdog that
fires.

## 4. Where the code disagrees with its texts

With a run that shows it:

1. `timer.c:151`: a refused start gives the semaphore it did not take; a second sequence starts
   ("Timer task is already running", `timer.c:150`). `TimerTwoStarts`.
2. `httpserver.c:43`: `recv_line` overwrites the first segment with the second. `ReaderSplit`.

Stated in the modules without a run of their own; TLC finds each in the instance named, with the
statement put into its configuration:

3. `timer.c:159`: a stop that meets the end of the sequence deletes its own connection task:
   `CallerSurvives` of `TimerApi`, in `TimerSerial`.
4. `json_parser.c:160`: `getBoolean` never stores, so that no checkbox has an effect and the Wi-Fi password is
   always cleared ("Require Wi-Fi password for connecting", `www/index.html:218`): `PasswordRequired` of
   `ServerSettings`, with all eleven keys in `Kept`.
5. `timer.c:132`: any call overwrites the record being parsed or stored ("The settings have been
   updated", `www/index.html:245`): `StoresWhatWasPosted` of `TimerApi` in `TimerSerial` with two connections.
   `server_settings.c:182` does the same without even a semaphore: `StoresWhatWasPosted` of `ServerSettings`
   in `Settings`. What two mixed POSTs still guarantee is `StoredWhereTyped`.
6. `timer.c:97`: a restart between erase and program loses the settings: `RestartKeepsSettings` in `TimerSerial`.
7. `httpserver.c:102`: a body line that ends with the buffer hides the rest of the body
   ("Returns NULL when the entire request has been read", `httpserver.h:29`): `NullAtTheEnd` in `ReaderLines`.
8. `server_settings.c:173`, `timer.c:96`: the critical section masks one core, so that the other one may copy an erased
   sector; a POST then stores erased text, as a restart between the two flash calls leaves it: `StoresReadable` of
   `ServerSettings` in `Settings`. That there is no other way is `OnlyTheWindowSpoils`.
9. `httpserver.c:228`: an overlong header line can end the headers ("Proper end of headers",
   `httpserver.c:229`): `ProperEnd` in `ReaderLines`.

Limits that the properties name as exceptions, or the instances leave out:

- a form value that is exactly the name of a key is found before the key and mistaken for it
  (`json_parser.c:37`): the forms of `Settings` have such a name inside a longer value only;
- addresses of 15 characters are refused, since the value and its quotes need 18 bytes of 17
  (`json_parser.c:236`): `Fits` asks for 14;
- exposures above 4294 s wrap in `pdMS_TO_TICKS` (`timer.c:114`): `ScheduleAssumption` keeps to what the page allows;
- a delay of 0, which the page allows, stops a build with assertions (`timer.c:117`): `SequenceEnds` excepts it;
- a host and domain name longer than the Host header that is kept (`httpserver.c:231`) redirects for ever:
  `OneRedirect` and `GetsPage` except it (`NameFits`);
- a start whose task is overtaken by another call before it has read its numbers (`timer.c:105`) may shoot
  those of that call: `AskedIsShot` excepts it (`overtaken`).

Because of 1, 3 and 5, one sequence, stop stops, and stored as posted are claimed and proved for
calls made one at a time, and refuted for two.

## 5. Proofs

Every theorem holds for any constants that satisfy the named assumptions of its modules
(`ConstantsAssumption`, `ServerAssumption`, `ReaderAssumption`, `JsonAssumption`, `SettingsAssumption`,
`ScheduleAssumption`, `FormsAssumption`, `DhcpAssumption`, `OptionsAssumption`, `LabelsAssumption`, `TreeAssumption`,
`PortalAssumption`), which TLC evaluates in the runs. Hypotheses beyond them stand in the theorems and are
explained here. `SharedLemmas` extends `JsonParser` because its second half is about it; the modules that use only its
first half cite no fact about the constants of `JsonParser`.

**Timer API** (`TimerApiProofs`), for every set of connections and tasks, every word width and every set of bodies:

- `TypeCorrect`, from `TypeInv`: `TypeOK`, that a resting task has exposures left (without it
  `i + 1` might leave the word), and that a call at a place has a path that leads there.
- `SemaphoresOwned`: `EmptySemaphoreHasOwner` is inductive relative to `TypeInv`. A give empties no
  semaphore, and every place between take and give leads to a give.
- `ShutterIsOwned`: inductive relative to `TypeInv`; the stop call takes over a shutter from the
  task that it deletes.
- under `OneAtATime` (any two connections are the same): `SerialOneSequence` and `SerialStopStops` from
  `SerialInv`, which ties the live tasks to the handle and to the place of the call;
  `SerialReportsStored` and `SerialStoresWhatWasPosted` from `DataInv`, which ties `timer_data` to flash
  or to the fields of the body parsed so far. `OneSequence` alone is not inductive: a task that is past
  `Unregister`, or one whose handle is in `arg`, must be excluded.
- under `OneAtATime`, `SerialIsIntervalometer`: `TimerApi` implements `Intervalometer`. Besides `SerialInv` it needs
  `PinInv` (an exposing task has the shutter open; no task lives where stop writes the pin after its reply), which
  with `ShutterOwned` says when the shutter is closed, as an abstract start requires. The proof maps each action to
  an abstract one or a stutter.

**HTTP server** (`HttpServerProofs`), for any finite set of clients and any number of slots: `SlotsAccounted`,
`ContextsAccounted`, `SocketsAccounted`, `RoutedIsAnswered`, `VisibleZonesReady` and `TypeOK`. The inductive invariant is
`TypeInv` (a list of zones is a sequence of ready zones), `LinkInv` (a busy listener holds a connection that is
nowhere else, `ListenerHolds`; a request has a target only from its headers to its end, `PathIsRouted`), `CountInv` and
`BoundInv` (what a request has left of the list ends it, also when zones are linked at its head meanwhile).
`MoveCounts` reduces the cardinalities to the one connection that moves; `ListenerHolds` is what makes the new task's
slot the one that the listener took. The bound on the heap in `TypeOK` follows from `CountInv`. A task that deletes
itself in the stop handler (`timer.c:159`) never closes, frees or gives: `Leaked` are those tasks. `ContextsAccounted` and
`SocketsAccounted` say that nothing else is left over (`HeapCounted` counts the contexts by the place of their task), and
that a leak takes a slot with it, so that there are never more leaks than slots.

**Request reader** (`RequestReaderProofs`), for any requests, any size of the buffer, any cutting into segments and any
place where the client hangs up:

- `TypesAreCorrect`: the offsets stay inside of the buffer, whatever `malloc` left in it. A first line may seem to end
  behind what was received, in the remains of an earlier request; `header_buf_used` is then negative. The invariant has that
  case as one of its two (`Behind`, with `ParseBehind` and `BehindEnds`): nothing can follow but the early return at
  `httpserver.c:64`. In the other (`Bounds`) what is read next lies in what was received.
- `HandsOnWhatIsSent`: `LinesAreSent`, whose hypothesis `whole` excludes `Behind`. The stream is laid out first (`RequestIs`: where each
  line begins and ends). The invariant `Aligned` says that the unread bytes of the buffer are those of the stream
  after the lines taken so far, or after a piece of the next one that was thrown away because it did not fit.
  `NextBreak` shows that the first CR LF in the buffer is then the end of the next line, and `ReceivedIs` that moving
  the rest and receiving behind it keeps the alignment, wherever the pair is cut.

**JSON getters** (`SharedLemmas`). The text of a form is a chain of pairs (`StringifyIs`); a key in quotes occurs first
in the pair of that key (`KeyFound`), because in quotes stand only names, which differ, and values, which are none of the
names; the value reaches to the next mark (`ExtractIs`). `NumbersAre`, `TextsAre`, `FitsIsTaken` and `FlagIsTaken` say
what the getters make of it.

**Timer schedule** (`TimerScheduleProofs`), for any numbers, tick rate, width of the tick count and lateness:

- `KeepsItsSchedule`: `OnSchedule` whenever the sequence is `Steady`: an exposure outlasts the lateness of the scheduler,
  and so does a delay or a second lateness, and no product, count or sum leaves its width (otherwise
  `vTaskDelayUntil` takes a wake-up in the past for one in the future). The invariant `Timely` gives the distance of the
  last wake-up from the beginning of the sequence at each place of the loop; `After`, the distance modulo the width,
  makes the wrap disappear (`DelayIs`). In the run `OnSchedule` holds of the other sequences too, those
  that two mixed calls make among them.
- `ShootsWhatIsAsked` (`AskedIsShot`): `Asks` follows the numbers from the text through the getters to the record that the
  task reads, each at most a thousandth too small.
- `ShowsWhatIsSaved` (`SavedIsShown`): the rounding of the page makes up for that thousandth (`RoundedIs`).

**Server settings** (`ServerSettingsProofs`), for any number of connections, any of the keys and any texts:

- `RefusesForCause` (`RefusedForCause`) and `StoresWhereTyped` (`StoredWhereTyped`), under `Unnamed`: no text is exactly
  the name of a key. That is a limit of the code (section 4): such a text is found instead of the key.
  `StoresWhereTyped` and `TypesAreCorrect` also suppose `NoStray`, that no uninitialised local holds an address,
  which a value without quotes would store; the page always sends quotes, but the getters do not know that.
- `OnlyTheWindowSpoilsRecords` (`OnlyTheWindowSpoils`), under `Unnamed`. `Sound` says that there is erased text in no record,
  and in flash only during a write. The theorem goes through the steps from a `Sound` state: a key stores what was typed
  (`ParseReadable`), the other steps of a handler bring nothing in (`WorkKeepsSound`), and a write in progress stays one until
  its own `Program` (`WriteGoesOn`); what is left are the copies and the restart within the window.

**DHCP server** (`DhcpServerProofs`), for any number of clients and addresses and any widths of clock and expiry:

- `LeasesAreHonoured` and `AddressesAreUnique`. Their first part is arithmetic: `FreshLease` (a new entry has `Lease` to go
  at least, and is not past half the range, although its low bits are lost) and `OneTickLess` (a tick takes exactly
  one off, also across the wrap). `LeaseHonoured` alone is not inductive: `LeaseInv` says that the entry of a
  bound client outlives the client's own count (`BoundIsHeld`) and that an ACK on its way has a fresh entry
  (`AckIsHeld`), which holds because the clock stands still while a message travels.
- `TypesAreCorrect`, the 16 bits of an expiry among them.
- `AcksAreAsked` (`AckIsAsked`): the walk of `Find` over the options meets option 50 and no byte inside of another option
  (`PassesOver`), and its four bytes are the address that was meant (`UnderstoodAsMeant`).
- `OneEntryIsEnough` (`OneEntryEach`), for clients that ask only for what they were offered (`Remembered = {}`, as in
  `DhcpLive`): a client that asks for an address of its memory fills a second entry. `OneOf` ties the
  messages on their way to the one entry that they may fill.

**Captive portal** (`CaptivePortalProofs`), for any names, settings and files:

- `RedirectsOnce` (`OneRedirect`): while the settings stay, a browser that followed a redirect asks for the name that
  the server takes for its own (`RedirectInv`).
- `AnswersAreMeant` (`AnswerIsMeant`): the loop of `get_address_for_encoded_domain` computes `IsOurs` for names of any length
  (`PassIs`, `AddressIsMeant`).
- `FilesAreServed` (`ServedIsPacked`), for any tree and every order in which the builder lists it. `TypesLaid` and `Laid`
  describe the image after each type and file: names and data are each where their offsets say, and no later write
  reaches them. That the block of names ends before the data is what the builder's own check at its end says
  (`Consistent`). The paths of two files differ (`PathsDiffer`), so that `Retrieve` finds the right entry.

Induction over data is done with sets: a property that holds at 0 and is passed on holds everywhere (`Induction`), and
what is defined by recursion exists (`Recursion`), both from the well-founded order on finite sets. So the recursive
functions (`Stringify`, `Address`, `Build`, `Encoded`, `Find`) are reasoned about for all lengths.

Only model-checked, because fairness and ENABLED are out of the prover's reach: `ShutterCloses`, `CallsFinish`,
`BacklogServed`, `RequestEnds`, `ReleasedByClient`, `SavedTakesEffect`, `EventuallyBound`, `SequenceEnds`, `GetsPage` and
`NamesSettle`; and the violations of section 4.

## 6. Not modelled

The build (no behaviour of its own); the popups and the timed refresh of the page; the bytes of DNS packets and
their compressed names, abstracted to labels; the layout of DHCP replies; `http_server_*_write_reply` (no caller);
the USB key callback (`main.c:137`, a test aid, in interrupt context); start-up that fails half way; memory exhaustion inside
lwIP. The key buffer of every getter is one byte short
(`json_parser.c:148, 169, 192, 214, 238`): the final zero is written where the build decides, and is taken as meant;
a first line without a zero behind it is searched beyond the buffer by `strchr` and `strstr` (`httpserver.c:191-201`), of
which the model keeps the part inside;
the address of the server is assumed outside of the pool (`dhcpserver.c:262`).

## 7. Plan

Written: all modules of section 2; every invariant that a run checks is a theorem too, and so are the action
properties `AckIsAsked`, `RefusedForCause`, `StoredWhereTyped`, `OnlyTheWindowSpoils` and `SavedIsShown` and the refinement of
`Intervalometer`. Next:

1. `StoresWhatWasPosted` of `ServerSettings` and `NullAtTheEnd` of `RequestReader` under the conditions that make them
   true: one call at a time, no body line that ends with the buffer.
2. `LinesAreSent` for a first line that arrives in pieces, once `recv_line` keeps them.
3. `TypeOK` of `CaptivePortal`, from `ServedInv`.

A run that a later module needs joins the run of the same module and bounds, or takes the place of one whose
property has become a theorem.
