# The IEEE 2030.5 server, in TLA+

This directory keeps TLA+ specifications of the server in `src/ieee_2030_5`
(paths below are relative to that directory), the TLC configurations that check
them on small instances, and TLAPS proofs of what matters most.
`PROJECT.json` maps every definition to the lines it stands for and lists the
runs, the mutants, the findings, the hazards and the theorems.

## 1. The system

The server is a Flask application behind a TLS front end. One process holds
everything in memory:

- a **request thread**: `__main__.py:200-210` runs the server with
  `threaded=False`, so requests are served one after the other;
- a **clock thread**: `adapters/timeadapter.py` starts a thread that sleeps a
  second, reads the clock and announces the second with a signal; the only
  receiver is `time_updated` of `adapters/der.py`;
- nothing locks what the two share.

Resources are kept in *adapters* (`adapters/__init__.py`): a dictionary of
items by index, and for each item named lists of child objects. Objects are
mutable and shared: one `DERControl` may be a child of several programs, and of
several lists of one program, at once.

| Part | State | Operations | Talks to |
|---|---|---|---|
| Adapter lists (`adapters/__init__.py`) | `_item_list`, `_child_map` | add, add_replace_child, replace_child, remove_child, lookups, fetch_all (paging) | everything |
| DER programs and events (`adapters/der.py`, `adapters/timeadapter.py`) | programs, their controls `derc`, their active controls `derca`, the status of each control | a walk over all programs at every tick | shares its lists with the administrator |
| Administration (`server/admin_endpoints.py`) | none | POST and GET of controls, programs, end devices | the adapters |
| Mirror usage points (`adapters/mupupt.py`, `server/meteringfs.py`) | usage points and mirrors, two parallel lists; the readings of each usage point | POST of a mirror, POST of a reading, GET | hrefs; devices keep the Location they were told |
| End devices (`adapters/enddevices.py`, `adapters/fsa.py`, `server/enddevicesfs.py`, `server/derfs.py`) | devices, their function set assignments (FSA) and DERs | start-up from the configuration; PUT and GET of DER resources; FSA lists | DER programs, TLS repository |
| Device capability (`adapters/dcap.py`) | one cached object | GET | end devices |
| Logs (`adapters/log.py`) | list of events | POST, GET | |
| Hrefs (`hrefs.py`) | none | build and parse links | everything |
| Certificates (`certs.py`, `utils/tls_wrapper.py`) | keys, certificates and combined files on disk | create the CA, the server's, each device's | openssl |
| Index of resources (`data/indexer.py`, `persistance/points.py`) | items in memory, files on disk | add, get, set_point, get_point | start-up adds one item |
| Server (`flask_server.py`, `server/server_endpoints.py`, `server/uuid_handler.py`) | routes, TLS context, known UUIDs | dispatch | all handlers |
| Proxy (`basic_proxy.py`) | one upstream connection per request | forward a request | the server |
| Client (`client/client.py`) | a connection, cached responses | get, post, put, create_mirror_usage_point | the server |
| Configuration editor (`control.py`) | the configuration in memory, a working file | commands at five prompts; load, restore | writes what `config.py` reads |
| Configuration (`config.py`, `config_setup.py`) | the YAML file | read once | start-up |
| Data model (`models/`, `utils/__init__.py`) | | generated records, their classes, XML | every handler |
| Legacy and demonstrations (`server/server_constructs.py`, `server/usage_pointfs.py`, `simulation/`, `service.py`, `execute.py`) | | not reached by the server | |

**What is hard.** The clock thread and the administrator change the same lists
between any two bytecodes. Python iterates over the stored list itself, so a
walk sees what arrives behind its back. Nothing above the clock thread catches
an exception: a single `ValueError` ends the processing of events for good.
Objects are identified by equality of all their fields, by `href` or by `mRID`,
depending on the operation, and hrefs are made of list lengths. Everything but
the certificates and the index is lost in a restart, which the clients do not
notice. Devices post again when they hear no answer. Start-up is a chain of
signals whose order decides what exists when. A request body is parsed into an
object of whatever class its root element names. Links are built in one module,
parsed in a second and routed in a third. Bodies are
parsed, but whether the elements that are used are there is not checked. The proxy has
one thread and keeps connections open, the server closes them. `hazards` in `PROJECT.json` lists each
difficulty at its line.

**What makes each part correct.** *Events*: a client is offered exactly the
events whose interval is open, each once, for as long as the clock thread lives, and that
ends on nothing but what can be named. *Mirrors*:
the two lists stay parallel, an href a device was told stays its own, what was
acknowledged is stored. *End devices*: each configured device exists once, with
the programs it was configured for. *Resources of a DER*: what a device was told is
stored is what is read, under the address that answers. *Links*: each leads to an object
of the class it promises, with its href, or is known to do otherwise. *Certificates*: a device has one key, one certificate, one LFDI,
whatever failed in between. *Proxy,
client*: an answer belongs to its request, and every call ends. *Editor*: a crash loses
nothing that was done at a prompt.

## 2. The modules

| Module | Stands for |
|---|---|
| `Adapters` | the list operations of `class Adapter`, as operators on sequences |
| `AdapterLemmas` | proved facts about them, for every list |
| `DERControlEvents` | the clock thread and the administrator's POST of a control |
| `EventLifecycle` | abstract specification: what a polling client may rely on |
| `DERControlEventsProofs` | theorems about `DERControlEvents` and `ActiveListReads` |
| `ActiveListReads` | `DERControlEvents` with a request that reads an active list meanwhile |
| `MirrorUsagePoints` | mirrors, usage points and readings; devices that retry; restarts |
| `MeterRegistry` | abstract specification: numbers and values without lists and hrefs |
| `MirrorUsagePointsProofs` | theorems about `MirrorUsagePoints` |
| `Startup` | the chain of signals that builds programs and end devices from the configuration |
| `StartupProofs` | theorems about `Startup` and `ResourceTree` |
| `TLSRepository` | keys and certificates on disk, over starts, crashes and failing calls |
| `TLSRepositoryProofs` | theorems about `TLSRepository` |
| `DataModelRoots`, `DataModel` | the classes of the data model: bases, required elements, links, repeated elements |
| `DERResources` | PUT and GET of the resources below a DER |
| `DocumentStore` | abstract specification: documents by address |
| `DERResourcesProofs` | theorems about `DERResources` |
| `ResourceTree` | `Startup`, then `DERResources`, and what a GET of any path answers meanwhile |
| `Exchange` | clients, the proxy and the server: connections, requests, answers |
| `Editor` | the configuration editor, its working file, crashes |
| `ExchangeProofs` | theorems about `Exchange` |
| `EditorProofs` | theorems about `Editor` |
| `MC...` | values for the constants of the runs |

`ActiveListReads` extends `DERControlEvents`: its clock steps are those of the
clock thread. `Startup` produces what `DERControlEvents` starts from. `ResourceTree`
composes `Startup`, which it extends, with an instance of `DERResources` for the DERs
of whatever devices the configuration files have, over the classes of `DataModel`.
`EventLifecycle`, `MeterRegistry` and `DocumentStore` are instantiated by the modules
that implement them, with a refinement mapping, and checked as properties.

### Adapters

A child list is a sequence of object identities; what the code compares (`href`,
`mRID`) are functions on objects, since objects are shared. `AddReplaceChild`
replaces the *first* entry with the same href or appends; `RemoveChild` is
`list.remove`. The operators use no recursion, so they can be reasoned about.

### DERControlEvents

*Actors.* `Clock` is the clock thread, one action per stretch of code in which it
touches what it shares: announce a second (`Tick`), enter a program and look up
its active list (`EnterProgram`), take the next control from the list iterator
(`TakeControl`), classify and set the status (`HandleEvent`), change the active
list (`AddActive`, `RemoveActive`), leave the program and the walk (`EndProgram`,
`EndPass`). `PostControl` is the request thread: one request at a time, but
between any two actions of the clock.

*State.* `derc`, `derca` are the child lists `DERC` and `DER_CONTROL_ACTIVE` of
each program, `ctl` and `status` the fields of the control objects, `hand` the
loop variable `ctrl`, `cursor` the iterator, `live` whether `current_active` is
the stored list or the throw-away `[]` that `fetch_children` returns when the
list does not exist yet.

*Abstractions.* A control's data is its mRID, href and interval. `EventStatus` is
one of None, Scheduled (0), Active (1), Complete (-1) and, for posts, any other
value (Cancelled). `list.remove` compares all fields; the comment at
`RemoveActive` says why that picks the control in hand or nothing. The reading of
the clock, the classification and the assignment of the status are one action:
the request thread never writes a control that is already in a list.

*What a post may do.* With `Replacing = TRUE` the administrator may post known
mRIDs, bring a status along, and name hrefs (`PostHref`). With `FALSE` every post
is a new event, and that is the assumption under which the strong properties
hold: they are false without it, and the runs say in which way. Either way the interval
of a post may lack its start or its duration (`NoTime`): both default to `None`
(`models/sep.py:375-388`), the handler checks neither, and `HandleEvent` raises at
`der.py:104` or `:115`, which ends the clock thread (`pc = "dead"`).

### ActiveListReads

A GET of `/derp_<p>_derca` (`derfs.py`) gets the stored list from `fetch_children`
and the serializer iterates over it while the clock thread goes on adding and
removing. `StartRead`, `TakeItem`, `WriteItem`, `FinishRead` are the request. The
serializer is lazy: it takes a control from the iterator (`TakeItem`) and writes its
`EventStatus` later (`WriteItem`), and the clock thread may complete the control and take it
off the list in between; `told` is what was written. `ClockStep` is
any step of the clock thread. Requests are served one at a time, so a post happens
only between reads. `steady` and `removals` are history variables: who was on the
list all along, and how often it was shortened.

### MirrorUsagePoints

`points` and `mups` are `__usage_points__` and `__mirror_usage_points__`. A
POST of a mirror is `PostPoint` (create_or_replace up to its loop), one
`EmbedReading` for each reading it brings along, and `FinishPoint` (the second
half of `create`); a POST of a reading is `PostReading` or `RefuseReading`.
`heard` says whether the answer reaches the device: `location` and `told` are
what the devices know, and are changed only when it does. `Restart` ends the
process anywhere, also between two readings of one request; devices keep the
hrefs they were told. The history variable `current` holds the devices that were
told theirs by the running process; what `told` says of a reading is given up
when the process ends, and when a device with an href from before the restart
posts the same reading, because it may then be stored in a stranger's usage point.

A reading is its mRID, its kind (a `MirrorReadingSet` is let through by
`meteringfs.py:74`), whether it has a ReadingType, and a value. Hrefs are tuples:
`<<"upt", n>>`, `<<"mup", n>>`, `<<"upt", n, "mr", k>>`. GETs change nothing and
are not actions. Each device posts the mRID of its own meter (`PointOf` is
injective): two devices that share one also share its usage point.

### Startup

`BaseAdapter.initialize` sends signals; each is received before `send` returns, so
start-up is sequential, and the order of the receivers decides what exists when.
The initial states are the configuration files. `CreateProgram`, `AddControl`,
`NextMention`, `ControlsAdded`, `AddDefault`, `DefaultAdded` are the loops of
`initialize_der_program_adapter`, one action for each turn; `RegisterDevice` and
`DevicesReady` are the loop of `initialize_end_device_adapter`, entered again after
every program (`der.py:199`). `FSAList`, `ProgramList` and `Reached` follow the links
a device follows once the server runs. Curves are put into programs as controls are
and are left out. `failed` is the exception for an unknown default control.

### TLSRepository

`config`, `clear` and `pc` are one start of the server: its configuration, whether it
was given `--no-create-certs`, and how far it has come; `Reload` is the second start
that `use_reloader=True` makes, and any later one. `jobs` are the openssl calls still
ahead, one action each. On disk a key or certificate is missing, broken or whole;
`paired` are the names whose certificate is for the key beside it, `trusted` those
whose certificate the CA certificate in place signed. `Crash` ends a start between two
steps, `CutKey` and `CutCert` within a file. What openssl refuses (a subject that is in
`index.txt`, a CA certificate for another key) was tried with openssl 3.0 and the
repository's `openssl.cnf`. `issued` is a history variable: the devices of the last
start with clear that came to serve, until a file is removed. The copies
`certs/<serial>.pem` openssl keeps, and the list of clients of the administrator's
page, are left out.

### DataModelRoots, DataModel

One definition for each class of `models/sep.py` and `models/derforecasts.py`, with
the name of the class: its base, the elements and attributes it requires, those that
are links, and those that may be repeated. Two modules, because there are 250 of them;
the first has the classes up to line 3560. `Kinds` is the chain of bases, `IsA` is
`isinstance`, `AllRequired`, `AllLinks` and `AllLists` collect what is inherited.
They are data, and say what may be PUT, what fits where, and what an answer lacks.

### DERResources

`slots` holds the child list of each DER and subtype. `Put` is
`EDevRequests.put` (`enddevicesfs.py:28-49`) with `add_replace_child`: a document
without an href is given the path (`Placed`), the class must have an href and be that of
the first entry or below it (`Fits`), and the entry with the same href is replaced or
the object appended (`Stored`). `Get` answers with the first entry
(`enddevicesfs.py:145-149`). The two are not inverse. A document with an href of its own
is stored, acknowledged, and not shown unless it was the first. A PUT to the DER itself
(`None_Available`) fills a child list as well, but the GET answers with the DER
(`enddevicesfs.py:146-147`), and nobody reads the list; PUT does not look at what the path
says of a sub-resource of the device (`edev_subtype`) either, so other paths lead to the same
lists, and their hrefs are in `Href`. `ReadsWhatItWrote` says what is left of a resource
that can be read (`Readable`), and
`DocumentStore` says it abstractly: per address the latest document, and readers are
served from the address that came first.

### ResourceTree

The links of a resource are part of the model, not its text. A path is the sequence
`hrefs.py` splits it into. `Answer(d, path)` is what a GET by device `d` gets: a failure,
or the class of the object, its href and its links, those of the items of a list
among them; `EndDeviceAnswer`, `FSAAnswer`, `DERAnswer`, `SubAnswer`, `FSARequest` and
`ProgramAnswer` are the handlers, `Page` is `fetch_all`. The `Time`
(`timefs.py:34-39`) and the programs of an FSA (`enddevicesfs.py:211`) are answered without
an href, although `models/sep.py:1209-1210` requires one of the response to a GET;
`Promised` says so of their links. What is below a DER has the href of the document, its own
(`OwnHref`) or the path. `Answer` is an operator on
the state and not an action: reads change nothing. `Further` adds to some links those a
device finds behind them, and `Walk(d)` takes it six times from `/dcap` on, which is all a
device can come to. What the server answers is compared with the data model; what that
comparison uses of `DataModel` is named in `SchemaAssumption`, which TLC evaluates. `PutDER` is a PUT of any device that gets through to
`add_replace_child`. Which items the active list has is left out; it is the subject of
`DERControlEvents`.

### Exchange

A call takes several steps, and the other side may be gone in front of each: connecting
(`CallConnects`, or `CallRefused` when nobody listens), the TLS handshake (`Handshaken`,
`HandshakeFails`), sending the head and, of a POST, the body (`SendHead`, `SendBody`,
`SendFails`, and `SendLost` when the end of the other side is not known yet), and
`getresponse` (`Received`, `Disconnected`, `NotReady`). `state` and `unread` are the two
variables of `http.client.HTTPConnection` that decide whether it can be used again, `line` is
its socket. `http_conn` (`client.py:74-78`) connects only when there is no socket
(`CallOnLine` otherwise), and a failed handshake or send leaves one: `HTTPSConnection` sets
`sock` before `wrap_socket`, and `send` closes nothing. `CallCannotSend` and `NotReady`
are what http.client refuses. `__post__` does not read the response
(`client.py:207-216`), `__get_request__` does. The server closes a connection after each
answer. `Accept`, `Forward`, `ForwardFails` and `Release` are the proxy:
a single thread, which serves one connection until the client closes it, while the
others wait in `backlog`. `Stop` and `Start` are the server's, at any time. The
server's handling of a request is one step (requests are served one after the other);
`executed` counts it. The library's parts were tried with `http.client` and `http.server`
of Python 3. Left out are a certificate the other side rejects after the handshake, as it may in TLS 1.3
(`getresponse` raises, and the connection is left as after a failed send), an answer that is cut
off midway, an end of the server between handling and answering, and the end of the proxy's process.

### Editor

A prompt is a state. A command is an action that changes `data` and then, in its
`finally` clause, stores: `Open` truncates `/tmp/.working_data`, `Dump` writes it, and
the process may be killed before, between and after (`Crash`). `Nothing` stands for
all commands that change nothing and for exceptions, which go through `finally` too and
then leave the editor. `item` is what the loops' `current_item` leads to, 0 when it leads
nowhere: a refused `settings 7` leaves the loop with item 7 (`control.py:184-185`).
The history variables `done` and `survives` say what a restore has to bring back. Values are
abstract: an item is whether it was changed, and what the editor itself reads of it, the id
and the settings of a device and the references of a program. `set` writes a text under any
key, these included (`control.py:234-236`), and `control` refuses an index only when it is
too large (`:242`), so references may lead nowhere; no property says that they do not.

## 3. The runs

| Run | Instance | Shows |
|---|---|---|
| `events_fresh` | 2 programs, one empty; 2 posts; intervals of length 1, 2 and 3 that overlap; the clock skips up to 1 second; or lack a start or a duration; fairness of the clock | the active lists are exact between steps and after each walk, the thread ends only on an incomplete interval, `EventLifecycle` is implemented, an announced event is offered, what is offered is withdrawn |
| `events_replace` | 1 program; 3 posts, all with the mRID `a` or none; statuses None, Scheduled, Cancelled | with replacement and foreign statuses: one listing per mRID, statuses only go forward, and the thread ends only on an incomplete interval or on an orphan |
| `events_complete` (violation) | as `events_replace`, no foreign statuses | a complete event stays on offer |
| `reads_moving` | 1 program; 3 posts; 3 overlapping intervals; a read at any time | no event twice in an answer; each removal hides at most one; the status that is told is Active or, of what is off the list by then, complete |
| `mirror_devices` | 2 devices, 2 values, answers lost, restarts | the lists stay parallel, an href stays one's own, an acknowledged reading is stored, `MeterRegistry` is implemented |
| `mirror_readings` | 1 device, 2 readings of every kind, 5 bundles, restarts | places, hrefs and links of readings |
| `der_resources` | the whole data model: any class is PUT to `ders`, 5 classes with an href of their own too; a `DER` to the DER itself | what is acknowledged is read, classes only narrow, `DocumentStore` is implemented |
| `resource_tree` | 8202 configuration files: up to 2 programs, 3 devices, 2 DERs; then PUTs of 3 documents, with an href of their own or without | each device once, controls as configured, what the first device comes to; each link leads where it says or is on the list of those that do not; answers are complete; paging |
| `exchange` | a direct client with 2 POSTs, clients behind the proxy with 3 calls and 1; the server stops and starts at any time | outcomes are true, what breaks a connection breaks it for good and is one of three things, every call ends |
| `editor` | 2 controls, 1 device of 2 ids, 1 program, 1 file to load; any number of commands, crashes and starts | the working file is up to date, restore brings back one configuration as a whole |
| `startup_assigned` (violation) | every file with up to 2 programs, 1 to 3 devices, 1 or 2 controls; descriptions shared, repeated or unknown; ids repeated | a device that is configured for the second program does not get it |
| `tls_starts` | 4 configurations (an administrator, a second device, a proxy on the server's host, a repeated id); up to 3 faults; any number of starts, with and without clear | what was issued stays good, only who has it is served, a start with clear repairs what it finds |

**Bounds.** Two programs are needed for the iterator to move on and for a control
to be shared; the second one starts empty so that the branch of a missing list is
taken. Two posted objects give a replacement or two concurrent events; three let a
replaced event be replaced again, and a list shrink while two others are on it.
`Horizon` lies behind every interval, so nothing is cut off: later instants are all
alike, and the clock may stay there. Skipping a second (`MaxSkip = 2`) makes short
intervals fall between two ticks. The number of objects (`Obj`) bounds posts. Two
devices are what it takes to confuse two; the mirror model has no further bound,
its lists are limited by the mRIDs. Two programs are what it takes for start-up to
initialise devices with and without the second one, three devices for a repeated id
between two others; for the tree, two DERs on one device, and one on each of two. For
`der_resources` one DER is enough, since a PUT touches one list, and one address besides
the path. For `exchange`, a connection broken by a POST takes the POST, the call that raises
and the one after it: three calls behind the proxy; a failed handshake or send takes a call and
the next, two for the direct client. The methods of a client's calls are a bound (`Methods`):
the direct one only POSTs, which has one step more to fail in than a GET. The second client behind the proxy is there
to wait and be waited for. Two controls are what it takes for an index to be in range,
the last, or out. Three faults let a start with clear, the start after it and one
more go wrong; the number of starts is not bounded.
`CHECK_DEADLOCK` is off only where the system may stop: the clock thread may die and
posts run out of objects (`events_fresh`, `events_replace`, `events_complete`), start-up ends
(`startup_assigned`, `resource_tree`), and calls run out and processes end (`exchange`);
in `editor` nothing stops, since it can be started again at any time.

**Fairness.** For events, only weak fairness of `Clock`: the thread is an endless loop
whose one blocking call is `sleep(1)`, and it holds no lock. Nothing is assumed of the
administrator or the devices. `Served` is about intervals longer than the clock may
oversleep: the code tests both ends strictly (`der.py:113`), so an event as short as
one step of the clock may fall between two ticks and is then never offered.
`EventLifecycle` promises withdrawal of what was offered but not that an event is
offered at all. For the repository, weak fairness of `Work`, the steps of a start:
it is a sequential program whose calls return. That a start is made, and faults, are
left to chance: `ClearRepairs` speaks of a start that has begun when no faults are left.
For `exchange`, weak fairness of the proxy's thread, of the server for each request
it has, and of what a client does within a call: these are threads that run, and
sockets that are served. Weak fairness of `Leave`, for the clients behind the proxy, is an
assumption about their users: `__release_clients__` closes the connections when a process
ends (`client.py:252-259`), and processes end; a direct client that is gone is
in the model one that makes no more calls. Without it `CallsEnd` is false: one client
that is alive and idle keeps all others waiting, since nothing has a timeout. Nothing is
assumed of the server's being up; calls fail then.

**What the client sees** (`LifecycleSpec`, `RegistrySpec`). The abstract modules say
nothing about lists. An event is on offer when it is in some active list. A meter's
number is the number in its href, and a restart forgets everything. `StoreSpec` needs no
fairness and `DocumentStore` has none: a document is kept because it was accepted.

## 4. Findings

- **An active control that is posted again ends the clock thread**
  (`events_complete`). `admin_endpoints.py:172-173` replaces the control in `DERC`
  only. The old object stays in the active list; its mRID keeps the new one off it
  (`der.py:122`); when the new one's interval is over, `list.remove` raises. No
  event of any program is ever processed again, and the old control is on offer
  for ever. `DeathHasCause` shows that, for controls posted without the status Active,
  this and an incomplete interval are the only ways.
- **Only the first program counts** (`startup_assigned`). End devices are
  initialised as soon as the first program is there; when the others are ready, the
  loop over devices ends at the first that exists. A device that is configured
  for another program gets neither function set assignments nor a current program.

Seen while modelling, and not claimed by a run:
- an interval that lacks its start or its duration is accepted (`admin_endpoints.py:154-176`)
  and ends the clock thread at the next walk, with no replacement anywhere (`DeathIsIncomplete`
  says that it takes this when nothing is replaced);
- a control posted with `EventStatus` Active and an interval in the past ends the
  clock thread; with hrefs of their own, two controls of one mRID can get into the
  active list during the very first walk, when `current_active` is a throw-away list;
- a control first met after its end is given Scheduled and keeps it for ever (its
  meaning in `models/sep.py:545` is that the event has yet to start); the number in an
  answer's `results` is counted before the elements are written (`sep.py:5976`); a
  complete control can be on the list for an instant, between `der.py:129` and `:130`; a
  client may be told -1 of a control that its list of active ones contains, because it was taken
  off between its turn and the writing of its status;
- a `MirrorReadingSet` takes the place of a reading with its mRID; an update of a usage
  point turns four fields into tuples (`mupupt.py:87-90`); after a restart nothing ties
  an href to a device, so a reading can be stored in another device's usage point;
- a reading without a ReadingType is acknowledged, and the mirror keeps it, but the usage
  point does not (`mupupt.py:226` and `:109-110`); the href of a reading is that of the list,
  because `usage_point_href` ignores the index of the reading (`hrefs.py:338`, `:358`);
- a program has an mRID only when it is the first and some device is configured for a
  program (`enddevices.py:87-89`); without any program in the configuration no device is
  registered at all;
- `LinksLead` names the links that lead nowhere: `/rsps` and `/upt` from the capability, a
  program's own href and its curves, a control's own href; the default control is answered
  as a `DERControl`; an end device and the program a DER names have hrefs that answer
  something else; FSA and DER lists of all devices but the first;
- the `Time` and the program list of an FSA are answered without the href the data model
  requires (`timefs.py:34-39`, `enddevicesfs.py:211`, `models/sep.py:1209-1210`); what is PUT to
  a DER itself is acknowledged and read by nobody;
- required elements that are never filled in: `dstStartTime` and `quality` of the time,
  `changedTime` of the device status, everything of the device information, the mRID of an
  FSA; in a time zone without daylight saving the time resource raises;
- any document of a class with an href may be PUT to any resource of a DER, and the first
  decides which classes are accepted there for good;
- a POST through the proxy is answered and then makes the next call raise although its
  request is sent and carried out, and every later call too; a failed handshake or send does
  the same to a direct client that has never made a POST;
- the editor: any first command but `restore`, even `help`, overwrites what was to be
  restored (`control.py:338-339`); a kill while it writes leaves an empty file, on which
  `restore` raises; programs keep indices of controls where the server expects
  descriptions (`der.py:172-183`), so the server does not start on an edited program;
  negative indices are accepted, -1 even when there are no controls, and -1 and the last index are
  one control that can be listed twice; `set default_control` and `set controls` write anything;
  a refused `settings` leaves its index as the current item; after `new` with an id that exists,
  `set` raises;
- only the first device has an FSA list, and every FSA leads to the programs of the
  first (`enddevicesfs.py:124`, `:211`);
- `--no-create-certs` creates the CA's and the server's certificates all the same when
  the CA's key is missing (`certs.py:104`); a server and a proxy on one host name cannot
  both be given certificates (`tls_wrapper.py:161`); a start that ended between two of the
  three directories leaves a repository no start gets past (`certs.py:60-64`); two
  interrupted starts, the first with clear and the second without, can leave the devices
  with certificates of a CA that was replaced, and the next start without clear serves.

## 5. What is proved

Proofs hold for every value of the constants that satisfies the named
assumptions of the modules: any number of programs, controls, intervals, devices,
readings and faults, any configuration. The assumptions say that null values are not
values, that a complete interval ends before the horizon, that no
post arrives Complete, that start-up lists no control twice in a program
(`ConfigurationAssumption`), that a configuration has devices (`__main__.py` asserts
it), that devices are not called `ca` or `admin`, for mirrors, that devices have
distinct mRIDs and that no href at all is neither a number nor a mirror, for the resources of a DER, that inheritance is reflexive and transitive. Of the classes
the server answers with, `SchemaAssumption` lists what they require and declare: a table of
constants that TLC evaluates, not a restriction.

`AdapterLemmas` states once what the list operations do: `AddReplaceChild` keeps
the type, brings in no one but the child, keeps every member unless it shares the
child's href, appends when nobody does, and never makes hrefs repeat;
`ReplaceChild` keeps the length and brings in no one but the child; `RemoveChild`
takes out exactly the child when hrefs are distinct, and what stands behind it moves up
by one; `First` is a least element. `AddReplaceChildSame` is what the clock thread
counts on: where nobody else has the child's href, a list that has the child stays as it
is, and one that has not gets it at the end.

`DERControlEventsProofs`, about `DERControlEvents` and `ActiveListReads`
- `TypeCorrect`, `StatusOnlyForward`: `Spec => []TypeOK` and `Spec => StatusForward`, with
  whatever is posted.
- `ActiveListCorrect`, `DiesOfIncompleteIntervals`: `~Replacing => (Spec => []ActiveListed)`
  and the same for `DeathIsIncomplete`; `ClockNeverDies` is its corollary for intervals that
  are all complete (`Interval \subseteq Window`), which the code does not see to. Neither is inductive. What the clock thread is
  about to do depends on what it did before: `RemoveActive` raises unless the
  control in hand is on the list, which was so when its status was still
  Active. `FreshInv` strengthens them with: where the thread holds a program or a
  control, there is one (`InStep`); hrefs are distinct in a program, and controls
  with an interval, that is posted ones, have distinct mRIDs there and belong to one
  program only (`Lists`); the active list is part of the program's list, holds
  only controls with an interval, and hrefs are distinct in it (`Actives`); an
  active control has started and a complete one is over (`Statuses`); what is true
  of the control in hand at each stage (`Hand`); and `ActiveListed` control by
  control (`Agreement`). TLC agreed with `FreshInv` before it was proved.
- `FreshCompleteUnlisted`: `~Replacing => (Spec => []CompleteUnlisted)`. The property that
  `events_complete` shows violated holds, by `FreshInv`, as long as nothing is replaced: the
  replacement of a control is what the finding takes.
- `WalkLeavesExact`: `~Replacing => (Spec => []PassIsExact)`. Between two walks nothing is
  exact, as the clock moves; what holds is that a position the walk has left behind holds a
  control that agrees with the clock (`Walked`), since the clock stands while a walk lasts,
  and a post only appends behind the iterator, with a control that has no status yet.
- `ImplementsLifecycle`: under `~Replacing`, `Spec` implements the safety part of
  `EventLifecycle`. `Tick` maps to `Advance`, a post to `Announce`, `AddActive` and
  `RemoveActive` to `Offer` and `Withdraw` unless the control is on offer already, and all
  others to a stutter. It takes `FreshInv`, and that an object nobody has posted yet has no
  interval, so that its interval is announced before it is offered (`Blank`).
- `OneOnOfferPerMrid`: `PostHref = {} => (Spec => []OneListingPerMrid)`, with controls
  replaced at any time. `FreshInv` is lost then. `PlaceInv` speaks of places instead of
  controls: a place in a program keeps its href and its mRID, and of the places of one mRID
  only the first can hold an interval (`Places`); what is on offer, and what the thread
  holds, has or had such a place (`Offers`, `Holding`); and as long as a walk works with
  the throw-away list, what was offered meanwhile comes from places behind the iterator
  (`NewList`). The hypothesis is that posts name no hrefs of their own. With one, a post may
  take the place of a control of another mRID (`admin_endpoints.py:175-178`, then
  `add_replace_child`), and places mean nothing.
- `DeathsHaveCauses`: also under `"Active" \notin PostStatus`, `DeathHasCause`: the thread ends on
  an incomplete interval or an orphan. An active control
  is on offer or was kept off by an orphan of its mRID (`Displaced`), and what the thread holds
  has not lost its place to an active control (`Taken`). A control that is posted as Active and
  is over when it is first met is removed from a list it never was on (the hazard at
  `der.py:130`), so the second hypothesis is needed.
- `ToldIsTrue`, `AnswersDistinct`, `MissesAreRemovals`: `~Replacing => (ReadSpec => ...)`
  for `ToldTrue`, `AnswerDistinct`, `MissedOnlyByRemovals`. A step of `ReadSpec` is one of
  `Spec` or leaves its variables alone, so `FreshInv` holds. `HandedOut` adds that a control
  the iterator has handed out is behind it or off the list, and complete, for good; `ToldInv`
  that a control of which -1 was written stays complete;
  `Misses` that the controls the iterator has passed without handing them out, and that were
  active all the time, are at most as many as removals: one removal lets one control slip
  from under the iterator to behind it (`PassedAfterRemove`).

`MirrorUsagePointsProofs`
- `MirrorTypeCorrect`: `Spec => []TypeOK`.
- `ListsParallel`: `Spec => []Lockstep`, with restarts. `Lockstep` alone does not
  say that `FinishPoint` answers for the usage point that `PostPoint` created;
  `Asked` does: the mRID of the request being served is known, and when the usage
  point is new it is the last of the list.
- `OwnPointCorrect`: `Spec => []OwnPoint`, with restarts: a list of usage points is
  never shortened while the process that told a device its href runs.
- `ReadingsStayParallel`, `HrefsAreStable`: `Spec => []ReadingsParallel`, `Spec => HrefsStable`.
  The lemmas say what one call does to the list of readings of a usage point, for any list:
  it keeps each place, href and mRID, and adds at most one at the end, with the next number.
- `TypedElementsKnown`: `Spec => []TypedElements`. While the loop over the readings of a mirror
  goes on, those it has stored are known (`Worked`).
- `ToldIsStored`: `Spec => []ToldStored`. A value that was acknowledged is in the device's own
  point and stays there until it is told a newer one (`Remembered`, `Awaited`): nobody but
  the device can post to its point, unless with an href from before a restart.
- `ImplementsRegistry`: `Spec => RegistrySpec`, all of `MeterRegistry`, which has no fairness:
  `PostPoint` maps to `Register` or a stutter, `EmbedReading` and `PostReading` to `Keep`
  of one reading or a stutter, `Restart` to `Forget`.

`StartupProofs`, about `Startup` and `ResourceTree`
- `StartupTypeCorrect`: `Spec => []TypeOK`.
- `EveryDeviceRegistered`: `Spec => []DevicesRegistered`. All devices are made in one
  pass, while the first program is alone (`FirstPass`: the device in the making is
  the next of the list). Once that pass is over the first device is there, and the
  next in the configuration, if any, has an id that is there already (`PassOver`); so
  every later pass ends where it begins.
- `ControlsFollowConfiguration`: `Spec => []ControlsAsConfigured`, which is also what
  `ConfigurationAssumption` of `DERControlEvents` asks of a program's controls. `ControlLists`
  says which controls the two nested loops have added so far: those of earlier mentions, and
  of this one those with a smaller index.
- `FirstDeviceFollowsLinks`: `Spec => []FirstDeviceServed`. Devices are made while the first
  program is alone, so every FSA has that program and no other, and that program has an
  mRID once there is an FSA (`Links`).
- `AssignedAreTheFirst`: a device has FSAs exactly when it is configured for the name of the
  first program. `startup_assigned` shows the promise of the comment broken; this is what
  is left of it, for every device of every configuration.
- `ControlsHandedOver`: what start-up leaves is what `DERControlEvents` assumes of the
  configured controls (`ConfigurationAssumption`): a list of controls for each program,
  their hrefs distinct. Stated in the terms of `Startup`, as constants of a module with
  variables cannot be replaced by expressions that change.
- `PagesAreComplete`: `TreeSpec => []PagesCover`. By `PageIsStretch`, a page is a stretch of the
  list from its start on, for any list, start and limit. `TreeExtendsStartup`, `TreeSpec => Spec`,
  carries every theorem about `Startup` over to the tree.
- `TreeKeepsResources`: `TreeSpec => RS!Spec`. Below the DERs the tree is a `DERResources`:
  a device has the DERs of its configuration, so every PUT is one to a list there is. What
  `DERResources` assumes is stated again in `ResourceAssumption`.
- `LinksAlwaysLead`, `AnswersAreComplete`: `TreeSpec => []LinksLead` and
  `TreeSpec => []AnswersComplete`, for any number of devices, programs, DERs and controls and
  whatever documents are PUT below the DERs, of any class, with an href of their own or without
  (what a document itself lacks is the device's affair). `Met(d)` names outright what a device can come across: the links of the
  capability, its own, those of its DERs when it is the first, of the FSAs, of the programs, and
  the items of control lists. For each of these the answer is worked out (one lemma for each
  kind of object; `Excused` and `Promised` name the links that do otherwise), `Sound` says that it
  is as the two properties ask and that its links are in `Met(d)` again, and so `Walk(d)` never
  leaves `Met(d)`, however many steps are taken.

`TLSRepositoryProofs`
- `RepositoryTypeCorrect`, `IssuedStaySound`, `OnlyIssuedServed`: `Spec =>` always
  `TypeOK`, `IssuedSound`, `ServesIssued`. The invariant is about the calls ahead: a key
  is made before its certificate and the CA before the server (`Ordered`); in a start
  with clear, whoever is to have a certificate has a good one or a call ahead that
  makes it, and nobody else has one (`Progress`); while what was issued counts, the
  only calls are those for the administrator (`Kept`).

`DERResourcesProofs`, for any data model, documents and requests
- `ResourcesTypeCorrect`, `OneObjectPerHref`: `TypeOK` and `HrefsDistinct`, which the runs
  leave to the proofs.
- `WrittenIsRead`, `NarrowingCorrect`: `ReadsWhatItWrote` and `ServedNarrows`, of the resources
  that can be read. The first needs
  that hrefs are distinct in a list (from `AddReplaceChildDistinct`) and that the last
  answer speaks of an entry of its list; the second that the first entry is only replaced
  by one that fits, and that inheritance is transitive.
- `StoreImplemented`: `Spec => StoreSpec`. Initial states map to initial states, and a PUT
  maps to an `Accept` of the abstract store or, when refused or when the same document
  comes again, to a stutter.

`ExchangeProofs`, for any clients, proxied or direct, and any number of calls
- `ExchangeTyped`, `OutcomesAreTrue`, `StuckForGood`: `Spec =>` always `TypeOK`, `OutcomesTrue`,
  `BrokenForGood`, and they need no fairness. The last one says that after an answered POST
  behind the proxy, a failed handshake or a failed send no call is answered or connects, and that
  http.client refuses none otherwise. The invariant is one about each client,
  `ClientInv`: it waits for its last call at most (`Counts`); what was handled was handled
  once and lies behind (`Handled`); in each phase of a call at most one request or answer is on
  its way, that of the call it waits for or of the one that was refused after its request went
  out (`Underway`); and its connection is unusable exactly when the last call broke it (`Usable`). A step of
  a client disturbs nobody else (`Frame`); one of the proxy or the server changes what is on
  its way for one client (`AnsweredClient`, `RequestLost`). TLC agreed with it first.

`EditorProofs`, for any configurations and bounds, any number of crashes
- `EverythingJournaled`, `CrashesRecovered`, `NeverMixed`: `Journaled`,
  `RestoreRecovers` and `RestoresWhole`. None is inductive. `LoopsInv` says which loop goes
  on after a command that is storing, and which item it has; `PromptInv` that before
  the first command of a run there is nothing in memory, and after it what is in the
  file; `SurvivesInv` that until then the file holds what has to survive. `restore` merges
  the file into memory section by section, and a merge of two configurations would join the
  programs of one with the controls of the other, which they name by index: it does not come to
  that because, by `PromptInv`, memory is either empty or the same as the file whenever a restore
  is typed. For the same reason a restore changes nothing once a command was completed.

**Only model-checked:** liveness (`Served`, `Withdrawn`, `ClearRepairs`, `CallsEnd` and the
fairness part of `LifecycleSpec`), which is out of the prover's reach. Every other property
of a passing run is a theorem. What `DataModel` says of a class is computed along the chain of
its bases (`Kinds`, a recursive function); no induction over it can be proved here, so the
facts used of it are assumptions (`SchemaAssumption`, `ResourceAssumption`) that TLC evaluates on
the data model as it is. No module proved about has a RECURSIVE operator.

## 6. What is not modelled

- *Logs* (`adapters/log.py`, `server/logfs.py`): every POST raises at its test of the class
  (`logfs.py:31`) before anything is stored; there is no behaviour to check.
- *Index of resources* (`data/indexer.py`, `persistance/points.py`): its one live use is the
  server's own configuration at a start (`__main__.py:166`), which nothing reads back.
- *Configuration* (`config.py`, `config_setup.py`): a file is read into records, once. The
  records are the initial states of `Startup`.
- *TLS* beyond what names a client and what is on disk, the administrative pages, which
  only read, and the handlers of the administrator for programs and end devices, which
  raise before they change anything.
- *The text of things*: XML, the types of elements, descriptions, the numbers of items that
  links and lists announce. The device capability is one cached object whose count of
  end devices is that of whoever asked; it is left out with the counts.
- *The clock of the platform*: at a change of daylight saving the announced second jumps
  (`timeadapter.py:24`). The model's clock only moves forward.
- *Legacy constructs* no route reaches, and the *simulation* programs. They keep no state
  while the server runs.

*How much that is.* Most of the lines `map` covers belong to the data model: its 250 classes are
8514 lines, all that is generated. What the other entries cover, some 1800 lines, is the code
that decides how the server, the proxy, the client and the editor behave.

Theorems that could follow: what of `FreshInv` survives posts that name hrefs of their own.
