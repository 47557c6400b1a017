# Verification of the distributed booking system

TLA+ specifications of the facility booking server (C++, `server/`) and of what
its Java client and the network may do to it, model-checked with TLC on small
instances, with the main safety properties of every modelled component proved by
TLAPS for every value of the constants.

## 1. The system

A client sends one UDP datagram per request: QUERY, BOOK, CHANGE, EXTEND, CANCEL
or MONITOR, with a request ID. The server answers each with one datagram, and
sends further ones to clients that monitor a facility whenever its availability
changes. The server is one thread: `io_context::run` calls one handler at a time
(a received datagram, an expired timer), so the handlers are atomic with respect
to each other and the concurrency is between the server, its timers, the clients
and the network.

| Component | State | Operations | Interacts with |
|---|---|---|---|
| Time conversion (`Util.cpp`) | none | `toMinutes`, `toHHMM`, `parseTime` | used by all others |
| Facility (`Facility.cpp`) | `availableSlots`, `bookings`, the static ID counter | `bookSlot`, `modifyBooking`, `extendBooking`, `cancelBooking`, `isAvailable`, `getAvailability` | called by the request dispatch |
| Request cache (`UdpServer.cpp` 58-90) | `processedRequests`, `requestOrder` | duplicate detection, replay, eviction, insertion | in front of the dispatch; depends on when clients and network deliver |
| Monitors (`UdpServer.cpp` 285-374) | `monitoringClients`, one timer per registration | register, notify, expire | notify is called by every successful facility operation |
| Request dispatch (`UdpServer.cpp` 91-283) | none of its own | one branch per operation | calls the facility, then the monitors, then replies |
| Event loop (`UdpServer.cpp` 11-41, 159-180) | the pending receive, `remote_endpoint_`, the sends under way | `do_receive`, `do_send`, `start`, `stop` | calls `handle_receive` |
| Codec (`Message.h`) | none | `marshal`, `unmarshal` | first step of `handle_receive`, last of the reply |
| Client (`Client.java`) | request counter, the request it waits for | send, resend, accept a reply, monitor loop | the server, over UDP |
| Start-up (`main.cpp`) | none | `initFacilities`, `main` | builds the initial state |

What makes each one correct, and what is hard about it:

* **Facility.** Every half hour is on offer or booked, once; no room is given away
  twice; queries tell the truth. Hard because a booking is an interval and the
  offer is a vector of half hours, related by clock arithmetic on offsets nobody
  validates; because a move returns the old half hours first and must roll back;
  because `push_back` adds one copy where `erase(remove(...))` takes all.
* **Request cache.** A resent or duplicated request is not executed again and is
  answered with the outcome of the first execution; the cache stays within its
  capacity. Hard because of retries near expiry, of eviction at capacity, and of a
  queue that is updated separately from the map.
* **Monitors.** Every client that monitors a half hour learns of every change to
  it until its interval ends, and of nothing else.
* **Dispatch.** A reply tells what happened; an error changes nothing.
* **Event loop.** Every request that arrives is handled once, with its own bytes and
  for its own sender, and answered with what was composed for it. Hard because one
  buffer and one endpoint serve all receives, because the handler must arm the next
  receive whatever happened, and because sends refer to a string that does not last.
* **Codec.** What a user typed is what the server acts on. Hard because numbers are cut
  to their widths, optional fields come together or not at all, and some reads are
  checked and others are not.
* **Client.** The reply it shows is the outcome of the request it sent, and the menu
  comes back. Hard because it compares no IDs, and because its 30 seconds, the
  network's delay and the server's 30 seconds must fit together.

## 2. Modules

| Module | Models |
|---|---|
| `TimeUtil` | `toMinutes`, `toHHMM` with C++ division |
| `Slots` | `Facility::TimeSlot`, `splitIntoThirtyMinSlots`, the half hours of the day |
| `Facility` | the facilities: one action per operation and outcome |
| `Calendar` | the abstract promise `Facility` implements |
| `FacilityVector` | one facility down to its vector, shown to implement `Facility`; slots of any number of half hours |
| `RequestCache` | the at-most-once half of `handle_receive` and its environment |
| `Monitors` | the registrations of monitoring clients and their timers |
| `BookingServer` | the rest of `handle_receive`: extends `Facility`, instantiates `Monitors` |
| `ClientServer` | clients with their resends and monitor loop, the network, and the cache: extends `RequestCache` |
| `Codec` | requests and responses as bytes: `Message.h` and the client's packing |
| `EventLoop` | a request from what is typed to what is shown: extends `Codec` |
| `MC...` | instances for TLC |
| `...Proofs` | theorems about the module of that name, and their proofs; those of `Calendar` are in `FacilityProofs`, about `Facility` implementing it; those of `EventLoop` about `Codec` too |

    Slots --> Facility --> BookingServer <-- Monitors      Codec --> EventLoop
      |          |
      |       Calendar (Facility implements it)            RequestCache --> ClientServer
      +----> FacilityVector (implements Facility)

No module has all of it at once. They meet at narrow places: `EventLoop` takes what the
operations answer as given (`Outcomes`), `BookingServer` begins with a request that is
not a duplicate and has been unpacked, and what `RequestCache` counts as one execution
is one step of `BookingServer`.

A definition named `X_Something` next to a definition `X` is a mutant: `X` with a
bug that its comment names. No specification uses it; `PROJECT.json` lists the
property that fails when it takes the place of `X`.

### 2.1 Facility

`availableSlots` is, for each facility, the number of copies of each half hour in
the vector. The vector is sorted after every change, so this is all it holds; the
scan of `bookSlot` and the loop of `isAvailable` are then the condition `Covered`:
every part of the slot is in the vector, and the last one ends where the slot
does. (Two half hours of a day never start together, which is where the two loops
could differ.) `bookings` is the map from IDs to slots, `currentId` the static
counter of `generateBookingId`, with its wrap at `IdSpace`.

Each operation is split by outcome: `BookSlot`/`BookRefused`,
`ModifyBooking`/`ModifyRolledBack`/`ModifyRejected`, `ExtendBooking`/
`ExtendRejected`, `CancelBooking`/`CancelRejected`. The rollback computes what the
code does (add copies, look, erase every copy), and that it restores the vector is
a property to check, not an assumption. Times of requests are any set of 16-bit
values and offsets any set of integers. The code computes with 32-bit `int`; a sum
that overflowed would give an HHMM value far outside 0800-1800, which the range
checks of `modifyBooking` and `extendBooking` reject as they reject the exact one,
so unbounded integers lose nothing.

`Calendar` says it without vectors and clock arithmetic: bookings hold sets of half
hours; an operation gives one booking new half hours that nobody held (`Assign`, of
which booking, moving, extending and cancelling are cases), or is refused and changes
nothing (`Refuse`).

`FacilityVector` is one facility with the vector as a sequence: `push_back` and the
sort, the two searches (`isAvailable` goes back to the front after each match,
`bookSlot` goes through once), erasure by index from behind, `erase(remove(...))`. It
takes the clock arithmetic from `Slots`. The slots a facility is opened with are runs of
half hours of which no two share a moment (`VectorAssumption`), as `initFacilities` and the
tests add them. The sort is the stable one, as `std::sort` is on vectors this short; the
proofs use only that it rearranges the vector into order. `ImplementsFacility` shows that on
half hours counting is enough. The tests open facilities with slots of one and two hours, on which
the operations mean less: booking takes whole slots, cancelling returns half hours, and a
move or extension erases half hours by value and does not find them in a wide slot.
`NoneGivenTwice` is about such facilities too, but says nothing once a booking has been
moved or extended (`reshaped`): without that condition TLC finds an extension over a wide
slot that leaves the slot on offer, and a second booking of it. `main.cpp` opens half
hours only.

### 2.2 RequestCache

`processed` and `requestOrder` are the map and the queue; `now` is the steady clock
in ticks, of which `TicksPerSecond` make a second so that the truncation of
`duration_cast` shows. A datagram with a key may arrive whenever the environment
lets it (`Timely`): at most `Lifetime` ticks after the key first did. Requests are
recorded in `executed` with the status they answer; a response refers to the execution
it tells of, or to none (0) when nobody has filled it in, and then its status is an
arbitrary value, since `ResponseMessage::status` is not initialized.

### 2.3 Monitors

`monitors` holds the entries of `monitoringClients` and `timers` those whose timer
has not called back; the callback's lambda keeps its own copy of the entry, which is
why they are two sets. `registered` numbers the registrations, because the multimap
may hold two that are equal otherwise. A timer is due when the clock has reached its
interval; the callback may run at any time from then on, since `io_context` may have
other handlers to run first. `Kept` is what `removeMonitorClient` leaves: it compares
facility and client only. Intervals may be zero, as in a request.

### 2.4 BookingServer

One action per operation of the server, for a request that was not a duplicate: the
guards and effects of `Facility` or `Monitors`, the status of the reply (`reply`) and
the updates sent (`notices`). The last two hold what the *last* step sent, so that
action properties can speak of them. The order within a handler is kept where it
shows: `Notifies` reads the vector after the operation, as `notifyMonitorClients`
does, and `BookFacility` formats its reply after booking and notifying, so that an
exception of `parseTime` (`Printable`) makes an error of a booking that stays.
`Changed` is what `modifyBookFacility` notifies about; `Notices` cuts the changed
interval into half hours on the day *of each monitor*, since the day of the change
is not passed on. The exceptions thrown before anything has changed are `Malformed`
(a field is missing, or the operation code is none) and `GetFacilityThrows`.

### 2.5 ClientServer

The environment of `RequestCache`, taken apart into clients and a network. A client is at
its menu, waiting or monitoring. `Send` numbers a request and sends it, `Receive` takes the
next datagram in its socket for the answer (whatever it answers: that is the code),
`Resend` and `NoResponse` are the two ends of a timeout (`Persists` is the condition of the
loop, for both values of `invocation`), `ShowUpdate` and `EndMonitoring` the monitor loop,
after which the socket keeps what has not been read. `Handle` is `handle_receive`: `Replay`
or `Execute` of `RequestCache`, and an answer; `Update` is a monitor's update, whose request
ID nobody sets. A query of several days is a sequence of queries with the same loop.

The network loses (a datagram whose `MaxDelay` has passed is gone), delays, reorders and
duplicates (`Copies`) datagrams. Handling a datagram takes no time, and a client that has
something to do does it before the next tick (`Awake` guards `TimePasses`): a tick is ten
seconds, and the client's loop takes milliseconds between a timeout and what it does then.
With slower clients a resend could come any time after the 30 seconds were checked, which no
bound of the server would cover.

`disturbed` marks a client for which a datagram was sent that may be taken for the answer to
another request: because it resent a request, because a datagram of its requests or answers
was duplicated, or because it was sent an update. Monitoring alone does not disturb, and
neither do delays and losses. `OwnAnswers` says that the unmarked clients show their own
answers. It does not guard against what happens to marked ones, and for them it fails: a
second answer, or an update left in the socket, is shown as the answer to the next request
(`Client.java` compares no IDs; no comment claims that it does). What it does guard is the
end of the wait: giving up does not mark a client (`NoResponse`), so a loop that gave up
before the first resend would break it.

### 2.6 Codec and EventLoop

`Codec` has the datagrams byte by byte, with `Base` values of a byte: `Marshal`/`Unmarshal`
and `MarshalResponse`/`UnmarshalResponse` of `Message.h`, and `ClientMarshal`, what
`Client.java` packs. `Readable` is what `unmarshal` checks before it throws; day and times
are read unchecked, so `Unmarshal` also gets the memory behind the buffer (`junk`).

`EventLoop` has one receive pending into one buffer (`receiving`, `recvBuffer`, `remote`).
A completed receive is in `completions` until `Handler` runs; `HandleReceive` reads the
buffer *then*. An unreadable datagram throws outside the `try`, which ends `run` and the
program (`running`). `Dispatch` gives what the switch answers. `DoSend` sends at once, or
leaves a send to be finished when its string is gone (`sending`, `SendLate`). `Stop` closes
the socket and may come at any time, though in the program only the destructor calls it.
Clients are the Java one and the one of the tests, which packs with `Marshal` and takes
lengths as unsigned.

`CodecAssumption` and `LoopAssumption` say what the constants have in common with the
program's: a byte has an even number of values and the operations among them, the buffer
holds the 15 bytes `unmarshal` asks for, a user's numbers are those Java reads (an offset
fills four bytes, everything else is cut when it is packed), an operation has no extra
fields but its own, the Java client always asks for them (`Complete`), and every fixed
answer fits in the buffer. The one answer that may not fit is that a facility is not found:
it repeats the name (`NotFound`), and only its length has to fit two bytes.

The properties say where the limits are. `StaysUp`: what users type ends the server only
if a facility is named in fewer than three bytes (a QUERY or BOOK is then shorter than
the 15 bytes `unmarshal` asks for) or in more than the buffer holds; both happen.
`ClientLives`: an answer ends a client only if it repeats a facility name too long for the
client's buffer. `ShowsItsAnswer` holds but for sends that found no room in the socket.

## 3. Runs

| Run | Checks | Bounds |
|---|---|---|
| `facility` | `TypeOK`, `SlotsConserved`, `NoDoubleBooking`, `QueryTruthful`, `UniqueIds`, `FreshIds`, `BookingsAligned`, `ImplementsCalendar` | two facilities, two days; three bookings; offsets on and off the grid, zero, negative and too large |
| `vector` | `SearchesAgree`, `NoneGivenTwice`, `ImplementsFacility` | one facility, opened with half hours out of order or with slots of half an hour to two hours; three bookings |
| `cache_prompt` | `TypeOK`, `EvictionDefined`, `CapacityRespected`, `Retained`, `AtMostOnce` | three keys, capacity two, retries while entries are fresh |
| `cache_replay` | `RepliesTellOutcome` in at-most-once mode: violated | two keys |
| `cache_overflow` | `CapacityRespected` with late retries: violated | four keys, capacity two |
| `client` | `ClientTypeOK`, `ExactlyOnce`, `OwnAnswers`, `RetriesInTime`, `ReturnsToMenu` | one client, two requests, one duplicate, one update, two datagrams in the socket, clock to 7 ticks of ten seconds |
| `loop` | `LoopTypeOK`, `ActsAsAsked`, `StaysUp`, `ShowsItsAnswer`, `ClientLives`, `Answered` | two clients, two requests and one; bytes of 16 values, buffers of 32 bytes; one empty datagram or failing receive |
| `monitors_end` | `EveryMonitorTimed`, `MonitorsEnd` | two clients, two facilities, three registrations, intervals 0 and 2, clock to 3 |
| `monitors_kept` | `KeptForInterval`: violated | two registrations |
| `server_notices` | `ServerTypeOK`, `ChangesNotified`, `ErrorsChangeNothing` | one facility, two days of three half hours, two bookings, one monitor, offsets -60, 30, 60 |
| `server_error` | `ErrorsChangeNothing` when a BOOK may carry 2500: violated | as above, one day |
| `server_spurious` | `OnlyChangesNotified`: violated | as `server_notices` |

The offer of `facility` has a gap and touches closing time, which are the boundaries the
range checks and the searches are about; three bookings leave half hours to move and
extend into, and two facilities and days share the ID counter. The cache runs have more keys than the capacity, so that eviction
happens, and clocks that run past expiry. They are in at-most-once mode, the one
`main.cpp` starts the server in; with `AtLeastOnce` every datagram is executed and the
cache stays empty, and only the theorems that hold in both modes speak of it.

`monitors_end` has two clients and two facilities so that a callback has both entries
to remove and entries to leave, and three registrations so that one is removed by the
timer of another and its own timer calls back on nothing. `server_notices` has room
for a booking of one half hour to be extended, moved to a slot that meets the old one
and moved to one that does not, and for two bookings to be in each other's way; its
monitor watches from 08:15, off the grid, or nothing.

`client` keeps the proportions of the program: a tick is ten seconds, a receive times out
after one, the client gives up after three and the server forgets after three, and the
network keeps a datagram for one. Two requests are what it takes for an answer of one to be
taken for the other's, one duplicate and one update are each enough to mark a client, and the clock
has room for both requests to be given up. With more clients nothing new happens at one
client (keys carry the endpoint), and the theorems hold for any number.

`loop` scales the datagram down: 16 values of a byte and 32 bytes of buffer for 256 and
1024, with a name length of two bytes that still exceeds the buffer and a message length
whose sign the Java client trips over. The names of the queries have the lengths at which
something changes: 2 and 3 around the 15-byte check, 18 and 20 around the request that
fits, 23 and 26 around the name that does, and answers around the client's buffer. Numbers
are negative, too large for their field, or without the other field they need.

The passing runs use state constraints nowhere: the bounds are guards (`MaxId`,
`MaxMonitors`, `MaxTime`, `MaxRequests`, `MaxUpdates`, `MaxIdle`), each named in its module. `CHECK_DEADLOCK FALSE` stands in
the configurations in which the clock stops at its bound and no request need come.

The runs that end in a violation state what a comment of the program says and show
that the code does otherwise; each is a finding in `PROJECT.json`:

* `cache_replay`: duplicates are answered with a response that nobody filled in
  (`UdpServer.cpp:88` stores it before the operation runs).
* `cache_overflow`: a key that returns after its entry expired is queued twice, and the
  map outgrows its capacity. For the same reason an entry just refreshed is evicted as the
  oldest: with such keys `Retained` fails too.
* `monitors_kept`: the timer of one registration ends all those of its client on the
  facility (`UdpServer.cpp:311`).
* `server_error`: a booking from 25:00 to 25:00 is made, and answered with an error.
* `server_spurious`: monitors of other days are told of updates that did not happen.

One more divergence shows in the definitions and has no run of its own. The example of an
error response at `Message.h:255` is `[Status=1][MsgLen=20][Error: Slot not available]`, and
`Message.h:260` says "0 = success, 1 = error"; but `handle_receive` sets status 0 before it
calls `bookFacility` (`UdpServer.cpp:99`), which answers a slot that is not available with a
text (`:199`), and an unknown booking ID is answered by CANCEL in the same way (`:281`).
`BookFacility` and `CancelBookFacility` do as the code does: a status of 1 means that nothing
has changed, with the exception `server_error` finds, but a status of 0 does not mean that
something has. The client prints the status and the text and acts on neither.

### Hazards no property guards

Some of the hazards in `PROJECT.json` list no property. The models contain them, and the
properties nearest to them exclude them, which their notes say:

* the wrap of the booking IDs, which `MaxId < IdSpace` keeps out of runs and theorems
  (`UniqueIds` and `FreshIds` are about what comes before, and fail after it);
* requests cut off by the buffer, and numbers cut to their widths: `ActsAsAsked` is about
  requests that fit, and takes for meant what the widths leave of a number;
* sends that find no room in the socket (`lost`), which `ShowsItsAnswer` and `ClientLives`
  exempt;
* second answers and updates taken for the answer to the next request (`disturbed`);
* wide slots once a booking has been moved or extended (`reshaped`).

For each of them TLC finds the property violated when its condition is dropped, so these are
limits of the code and not of the proofs.

## 4. Fairness

Safety runs use specifications without fairness. `Monitors!Fairness` is weak fairness
of the callback of each registration's timer, one condition per registration:
`io_context::run` returns only when it has no work left, and a due timer's handler is
queued and called in turn, whatever other handlers run. Nothing is assumed of clients:
they need never send. `MonitorsEnd` says of an entry whose interval is over that it
leaves the map; it does not say that the clock gets there, which is bounded.

`ClientServer!Fairness` is weak fairness of the clock and of each client's own steps: the
client is a process in a loop and its receives time out. The network owes nothing, not even
one delivery, and `ReturnsToMenu` holds all the same. `EventLoop!Fairness` is weak fairness
of the receive of what has arrived, of the handler, of pending sends and of the clients'
receives. `run` calls completed handlers in turn; that what is sent arrives is assumed there,
because loss and resends are the subject of `ClientServer`. `Answered` says that then only
an end of the server leaves a request unanswered, whatever empty datagrams and failing
receives come between.

## 5. Proofs

TLAPS proves the theorems below for every value of the constants that satisfies the
assumptions of the modules: any facilities, days and offers of half hours, any 16-bit
request times, any integer offsets, any number of clients and registrations.

**Facilities.** `TypeCorrect` holds unconditionally. `Conservation` (`SlotsConserved`),
`NoOverlap` (`NoDoubleBooking`), `TruthfulQueries`, `RunsOnly` (`BookingsAligned`) and
`IdsUnique` assume `MaxId < IdSpace`, that is, fewer bookings than the 32-bit counter
has values; after a wrap `emplace` would keep the old booking under a reused ID while
the half hours of the new one are gone. The inductive invariant is

    IInv == TypeOK /\ FreshIds /\ UniqueIds /\ BookingsAligned /\ SlotsConserved

No part is inductive alone. Conservation needs aligned bookings (the parts of an
interval are then the half hours between its ends, `PartsBetween`, so an extension
takes exactly what the longer booking holds) and unused IDs (a booking must not
replace another); erasing every copy is right only where there is at most one, which
is conservation again. The operations are proved to be instances of one step,
`Reassigned`: one booking gives up its half hours and holds others that were free or
its own, and everything else stays. That a failed move restores the vector is the
lemma `RollbackRestores`. The clock arithmetic is in `SlotsProofs`. `NoOverlap` and
`TruthfulQueries` follow from `IInv`: two runs of half hours that overlap on the clock
share a half hour, and a half hour overlaps a booking when it is one of its parts.

**Calendar.** `KeepsPromise` (`ImplementsCalendar`), under the same assumption: `Facility`
implements `Calendar` with `free` and `held` as the mapping. A `Reassigned` step is an
`Assign` (`ReassignedAssigns`), so of each operation only what is its own is left to show:
that a new ID is in use nowhere (`BookOpens`), that a move keeps the day and the length
(`ModifyMoves`: between half-hour boundaries an offset is the distance in minutes,
`OffsetOfMove`, and an aligned slot has as many parts as boundaries it spans,
`PartsCount`), that an extension adds later half hours only (`ExtendExtends`), and that a
rollback is no step at all.

**Request cache.** `EvictionSafe` (front and pop find a key whenever the cache is
full) and `TypeCorrect` hold in any environment. `CapacityKept` and `RetentionKept`
assume at-most-once mode and that keys return only while their entries are fresh
(`Prompt`: `Lifetime` below expiry),
and so does `ExecutedOnce`: until more keys have come than fit, none is executed twice.
The invariants behind them relate the queue to the map: every key of the map is in the queue, and, under the assumption,
in it once and in the order of the timestamps.

**Monitors.** `AllTimed` is inductive as it stands: a callback removes at least the
entry whose timer it is.

**Server.** `FacilitiesKept` shows that the server implements `Facility!Spec` (its
steps are steps of it or stutters), which carries `IInv` over. `EveryChangeTold`
(`ChangesNotified`) then shows, per operation, which half hours it can change
(`OnlyWithin`) and that the intervals it notifies about cover them (`Covering`); for a
move that is `MoveCovered`, where the interval from the earlier start to the later end
must be a run of half hours that contains both. `ErrorsAreClean`
(`ErrorsChangeNothing`) assumes that BOOK requests carry clock times; `server_error`
shows that without it the property fails.

`MonitorsKept` does the same for `Monitors!Spec`, and with both `ServerTypes`
(`ServerTypeOK`) has only the reply left to look at.

**Clients and server.** `RetriesArriveInTime`: the composition implements
`RequestCache!Spec`, for any number of clients and requests. What has to be shown is
`Timely`: the invariant `TimeInv` says that every request on its way was sent at most
`LastResend` after its first sending (`SentInTime`), that it has been on its way for at most
`MaxDelay`, and that a key was not seen before it was first sent (`SeenAfter`), so that no
arrival is later than `Lifetime`. It needs clients that wake up in time (`Awake`) and
`Invocation = "most"`, which the client has written in; with "least" resends never end. It
carries the theorems of the request cache over: `EndToEndAtMostOnce` is `ExecutedOnce` with
clients and network in place of the environment, and `AnsweredExactlyOnce` adds that an
answer exists only for a request that was executed (`ToldInv`). Both assume `Prompt`, that
resends and delay together stay within the expiry: true of the program if the network keeps
no datagram for longer than a few seconds.

`AnswersAreOwn` (`OwnAnswers`) assumes that the first timeout comes before the client gives
up (10 and 30 seconds). Its invariant `OwnInv` follows the one datagram that an undisturbed
client has under way: nowhere, in a request, in the answer to it, or in the socket, always
for the request the client waits for, and nowhere in the menu and while it monitors. It holds
because giving up takes a resend first, which is a disturbance, and because the clock does
not pass the deadline of a client that is awake. `ClientTypes` is `ClientTypeOK`.

**Event loop and codec.** `TypeCorrect` (`LoopTypeOK`), `ActsOnWhatWasAsked`
(`ActsAsAsked`), `ServerStaysUp` (`StaysUp`), `AnswersAreShown` (`ShowsItsAnswer`) and
`ClientsLive` (`ClientLives`) hold for any clients, requests, names and answers, any even
`Base` above 6 and any `BufferSize` that `CodecAssumption` and `LoopAssumption` allow, the
program's 256 and 1024 among them. The argument has three layers.

* Numbers. `RoundTrip`: what `Put` writes `Unsigned` reads as the number modulo the width,
  because dividing twice is dividing by the product (`DivisionTwice`); `SignedRoundTrip`: a
  signed number its width holds comes back as it is. The widths are 1, 2 and 4, so the
  recursion of `Power` and `Unsigned` is unfolded, not proved by induction.
* Layout. `Parts`: of fields joined end to end each is found at the sum of the sizes before
  it. With `RoundTrip` this gives `Unmarshals` (a request that fits the buffer is read as it
  was meant, whatever is in the memory behind) and `ClientReads` (a response is read as it
  was packed if it fits, and refused if not). `ServerReads` says what is left of a request
  that does not fit: its ID is still right, and the name that is read is no longer than the
  one that was sent.
* The loop. `ActsAsAsked` alone is not inductive: a request in the buffer could be one that
  was acted on, or be overwritten. `IInv` says that every client has one request, and that
  it, or the answer to it, is in one place only: a datagram on its way, the buffer of a
  receive that is completed but not handled (`WayInv`), or an answer on its way or waiting
  for room in the socket (`AnswerInv`). That the buffer still holds the datagram when the
  handler runs follows from the one pending receive (`LoopInv`), and a handler that finds a
  request therefore finds one that was not acted on. `ActedOK` bounds the length of an
  answer by the name in the request it belongs to, from which `ClientLives` follows.

**Vector.** `Invariant`, `SearchesAgreeAlways` (`SearchesAgree`), `NoneGivenTwiceAlways`
(`NoneGivenTwice`) and `CountsAreEnough` (`ImplementsFacility`), for any openings that
`VectorAssumption` allows and any request times and offsets. The vector's loops are
recursive functions; each is unfolded once (`OpenedSteps`, `KeptSteps`, `ReachedSteps`,
`PassSteps`, `RoundsTake`) and what it computes is then shown for the first n places, by the
least number where a claim would fail (`CountUp`).

* Sort and erasures. Distinct places have distinct numbers of places before them (`Ranks`),
  so the sort is a rearrangement, and in order (`SortMoves`). Erasing, by index from behind
  or by `remove`, takes places out and leaves the rest in their order (`ErasedTaken`,
  `KeptTaken`).
* Searches. In a sorted vector `bookSlot`'s pass never misses a slot that would continue
  what it has: whatever starts where the last match ended lies further on (`PassFollows`).
  So it ends where `isAvailable` ends that starts again from the front (`SearchesMeet`). The
  vector has to be sorted for that, which is `InOrder`.
* Nothing twice. `GivenOnce` strengthens `NoneGivenTwice`: the slots on offer are aligned
  and apart, bookings are aligned or empty. It needs that what `bookSlot` finds is filled by
  the slots it erases, moment by moment (`FoundFills`), and that the half hours
  `cancelBooking` pushes cover no moment that the booking did not (`PartsOfBooking`).
* Counting. `InHalfHours`: a facility opened with half hours offers half hours and has
  bookings made of them, moved and extended ones too. Then `bookSlot`'s matches are the
  parts of the slot, one place for each (`MatchesAreParts`), the pass succeeds exactly when
  all of them have a copy (`FoundIfCovered`), and pushing, erasing and sorting change the
  number of copies as `Facility` says (`PushCopies`, `EraseCopies`, `EraseMatchedCopies`,
  `SortCopies`). Each operation is therefore the one of `Facility` with the same outcome.

**Only model-checked.** The liveness properties (`MonitorsEnd`, `ReturnsToMenu`,
`Answered`): fairness and ENABLED are out of the prover's reach. Every safety invariant of
the runs that pass, and every action property and refinement among their properties that
needs no fairness, is also proved.

## 6. Not modelled

* **The whole at once.** `BookingServer`, `ClientServer` and `EventLoop` are three views of
  the server that meet at what one execution of a request is; a single model of all three
  would be out of TLC's reach, and none of the properties needs it.
* **Client restarts.** A client keeps nothing; a restarted one numbers its requests from 1
  again, on a port the operating system picks, and is to the server another client.
* **At-least-once composition.** `RequestCache` has the mode; the client's loop for it is in
  `ClientServer` (`Invocation`), but the runs use what the program uses.
* **Loss simulation** (`generateFpRandNumber`, `handle_receive` 46-49, `do_send`): its rates are 0; a
  lost datagram is one that does not arrive, or a reply that is not seen (`ClientServer`).
* **Printing** (`displayAvailability`, `displayAllSlots`, logging), texts of replies
  beyond their lengths, the client's prompts and its handling of input that is no number, and
  build files.

## 7. Plan

What the modules above do not say yet, in the order it would add most:

1. A run of `ClientServer` with `Invocation = "least"` and `AtLeastOnce = TRUE`: what an
   operation executed twice does to a user who asked for it once.
2. `BookingServer` in the place of `Outcomes` in `EventLoop`, for one facility and one
   client: the operation a user typed is the one the calendar sees.
3. What `FacilityVector` proves with what `Facility` proves: as `ImplementsFacility` holds,
   `SlotsConserved` and `NoDoubleBooking` carry over to the vector of a facility opened with
   half hours, moved and extended bookings included. That takes the instance of
   `FacilityProofs` under the mapping.
