# A TLA+ model of onion-mpv-webui

onion-mpv-webui is an mpv plugin: it serves a web page that shows and controls
the player.  Three parts of it have behaviour that is hard to test, and each has
a group of modules here:

* the **websocket status service**: threads of the HTTP server accept clients,
  mpv's event thread learns about changed properties, and every client is told
  the full status once and then each change;
* the **HTTP server's requests for shared folders**: threads share a ring of
  buffers, the current folder of each share, and a path that the event thread
  leaves for them;
* the **remote control**: the page, its buttons, menus and list of shares, the
  commands it sends and what mpv makes of them.

File and line references are to the repository: `ws:` is
`src/src/onion_ws_status.c`, `plugin:` is `src/src/mpv_plugin.c`, `onion:` is
`src/src/webui_onion.c`; scripts of the page are in `src/webui-page/`.

## 1. Inventory

### 1.1 Threads

* **Event thread** (`plugin:118-167`): waits for an mpv event, takes `mpv_lock`,
  handles the event, releases the lock.  After `MPV_EVENT_SHUTDOWN` it runs
  `clients_close` (via `webui_onion_end_signal`) and frees everything.
* **Connection threads**: the server is created with `O_THREADED`
  (`onion:485`), so each connection has a thread of its own.  It runs
  `ws_status_start` once, `ws_status_cont` for each message, and
  `ws_userdata_free` when libonion frees the websocket.  Plain HTTP requests run
  on such threads too.
* **Signal handlers** for SIGINT and SIGTERM (`onion:551`) also call
  `webui_onion_end_signal`.
* **The page** is single threaded, but its handlers run in whatever order events
  come: messages, ends of connections, timers, answers to requests, the user,
  tabs being hidden and shown.
* **The user of mpv's own window** changes the player at any time, also between
  two calls of one command.

The models take a failed `assert` for the end of the process, which it is in a build
without `NDEBUG`.  The default build (`CMAKE_BUILD_TYPE ?= Release`, `src/Makefile:5`)
defines it and goes on instead with what the assertion excludes; the models end there,
so that they say nothing of such a build after that point.

### 1.2 Components

| component | state | operations | interacts with |
|---|---|---|---|
| client table (`ws:92-265`) | `clients[20].ws`, `num_active_clients`, the index in each websocket's userdata, a lock for the table and one per slot | `clients_init`, `add_client`, `remove_client`, `clients_close`, `clients_uninit` | handlers (counter decides who observes), deliveries (slots) |
| property status (`ws:513-1430`) | per property: `initialized`, `updated`, `ready`, times, value and `json`; three counters; `is_initialized`, `is_observed`; `lock`, `init_in_process`, `init_done` | `status_observe`, `status_unobserve`, `status_update`, `status_send_update`, `status_build_full_json`, `property_reobserve` | mpv (observations, events), handlers |
| status service (`ws:227-507`) | the stack of each connection thread, which locks it holds | `ws_status_start`, `ws_status_cont`, `ws_userdata_free` | both tables, mpv commands |
| event loop (`plugin:118-167`) | `pause`, the event in hand | one branch per event | property status, media track paths |
| update interval (`onion_ws_time.c`) | last and next update time | `time_diff_reached`, `update_timestamp` | selection of ready properties |
| messages (`ws:1437-1646`, `utf8.c`, `webui2.js:520-566`, `tools.js`) | the chunks received so far | quote, split, reassemble, take a command apart | every message between server and page |
| HTTP server, routes (`webui_onion.c`) | running flag, dictionaries of commands | `webui_onion_init`, `handle_command_p2`, ... | all handlers, `mpv_lock` |
| mpv commands (`mpv_api_commands.c`) | none of its own | `cmd_*`, `json_status_response` | mpv |
| media track paths (`media_track_paths.c`) | pending path, current share and directory, the current directory of each share | `media_track_paths_set`, `..._get_current_share`, `..._set_directory` | event loop writes, HTTP threads read |
| path buffers (`buffer_pool.c`) | buffers, marks, next position | acquire, release | HTTP threads |
| shares and media pages (`media*.c`, `fileserver.c`) | dictionary of shares | listing, loading, redirecting, static files | buffers, track paths, mpv commands |
| options and tools (`mpv_script_options.c`, `tools.c`, `percent_encoding.c`) | option dictionary at start | splitting, naming, encoding | start-up, shares |
| status in the page (`webui2.js`, `json-diff.js`, `playlist.js`) | copy of the status, outstanding updates, timers, websocket, rows | merge an update, redraw widgets, update rows, reconnect | websocket messages |
| controls of the page (`buttons.js`, `touchmenu.js`, `keybindings.js`) | the press under way, the open menu, the slider | press, long press, choose, drag | commands on the websocket |
| list of shares in the page (`shares.js`) | selected share, folder of each share, the printed list | pick a share, follow a link, add a file | HTTP requests |

### 1.3 Hard behaviours, and what makes each component correct

* **Client table.**  `clients_close` looks at a slot before it locks it, and the
  threads of its victims remove themselves again later.  Correct: slots, indices
  and counter agree while the server runs; the counter is never too high, so the
  last client to leave is noticed; nobody empties a stranger's slot, until
  `clients_close` has taken a connection's slot and not its index.
* **Property status.**  `status_send_update` walks through three critical
  sections (search, send, reset), and an observation may stop and start between
  any two.  Correct: the counters match the flags; an update is forgotten only
  after its newest value went into a message; an initialisation completes.
* **Status service.**  Four locks in several orders, a wait for a condition
  without a predicate, decisions taken from a counter that is read later.
  Correct: a served client misses no change; the observation stops only when the
  last client has left; nobody waits forever.
* **Path buffers.**  The test of a mark and the mark itself are two steps, and the
  search for the next position starts from what other threads leave.  Correct: no
  buffer is with two requests; every buffer comes back, also after an error.
* **Track paths.**  A path is left by one thread and taken over by another, tested
  outside the lock; handlers keep pointers to strings that others free.  Correct:
  the current share and folder are those of the file mpv started; a stored path, of a
  folder or a file, exists; what goes wrong needs overlapping requests.
* **Messages.**  Correct: what is quoted is parsed to the same string, what is split
  arrives whole and once, a command keeps its parts.
* **Commands.**  Several calls of mpv each, with mpv changing in between.  Correct:
  the command does what its sender saw.
* **Page.**  Messages, timers and ends of connections in any order, several sockets
  behind one variable, rows updated from a comparison of two lists.  Correct: when
  nothing is under way the page shows what mpv is at; a row's button acts on that
  row's entry; a press fires one handler; list, selector and links belong together.

PROJECT.json lists each hazard with its line and the properties about it.

## 2. Modules

### 2.1 The status service

Three specifications, each a module of its own, the third composed of the others:

* **`ClientTable`** is the table.  `slot[i]` is `clients[i].ws`, `index[c]` the
  index in the userdata, `phase[c]` how far a connection has come.  `add_client`
  and `remove_client` hold `clients->lock` throughout and are one action each
  (`Admit`, `Release`); `clients_close` is `CloseStart` and, for each slot, `ClosePeek`
  (the test outside the lock, and the websocket it saves), `CloseClear` (under the
  locks) and `CloseBye`: without any lock it closes the websocket it saved, which "can
  block if connection is already closed" (`ws:145`) and may then do so for good
  (`"blocked"`).  `closeFault` records that it used the websocket of a slot that was
  emptied after the test, or one that libonion has freed meanwhile (`Freed`).
* **`PropertyStatus`** is the structure `__status` and the event loop.  Flags are
  sets of properties.  `evpc` is the event thread's place; each critical section
  on `status->lock` is one action, and each unlocked read (`num_updated`,
  `is_initialized`, `num_ready`) another.  The text in `prop->json` is reduced to
  how new it is: NULL, of an older observation, of an older value, of the newest
  value.  Time is reduced to the set `held` of properties whose next update time
  has not been seen reached, from which any subset may lapse.  mpv is modelled as
  `include/mpv/client.h` documents it: observations per property, coalesced
  change notifications, an initial notification for each observation, pause
  events in a queue that is emptied before property changes are reported.
  `Pause` may be left out of `Props`; then mpv's pause state is constant.
* **`WsStatus`** is the service.  It instantiates both and adds the program
  counter of every connection thread, the locks and what each client has been
  told (`view`).  `status->lock` is held over several steps only by
  `send_to_all_clients1` (`statusHeld`); everywhere else its critical section
  takes no further lock and is one action.  `mpv_lock` needs no variable: the
  event thread holds it exactly while `evpc # "wait"`, and a command holds it for
  one step.  A message is three steps: `Receive`, where libonion calls the callback and
  the websocket is compared with the slot without a lock (`ws:439`), `Read` under the
  slot's lock (`ws:420-421`), and the command with its answer; `Read` also ends a message
  that is a pong or cannot be read.  `callbacks` holds the connections whose websocket
  has the callback; `clients_close` takes it away slot by slot (`ws:131`), so the others
  go on.

`ClientTable` and `PropertyStatus` are also the *abstract specifications* of the
service: `TableSpec` and `StatusSpec` state that every step of `WsStatus` is a
step of the table, or of the property status called at any time, or leaves them
alone.  The refinement mappings send the program counters to the table's phases,
and faults of the handlers to "none".

### 2.2 The requests for shared folders

`HttpServer` extends `BufferPool`, `TrackPaths`, `TextTools` and `ShareNames` with the
threads of the server.

* **`BufferPool`** is `buffer_pool.c`.  `buffer_pool_aquire` is four steps, between
  which other threads run: `AcquireLook` (reads the position, tests its mark),
  `AcquireTake` (marks, allocates), `AcquireSearch` (finds the next position),
  `AcquireStore`.  A buffer is a number; `malloc` returns the least unused one.
  `races` records that two threads passed the test of one mark ("twice"), or
  allocated the buffer of one position ("replaced").
* **`TrackPaths`** is `media_track_paths.c`: `StartFile` is what the event thread
  does, `TakePending` the critical section of the HTTP thread, `SetShareDir` what a
  handler stores.  A path is a sequence of words, so that /m2 begins with /m.
* **`HttpServer`** has one action for each part of a handler between two accesses
  to shared memory: finding the folder, copying its name, writing the path into
  the buffer, resolving it, storing the folder, answering, giving the buffers back.
  `stale` holds threads whose pointer to a `current_directory` was freed under
  them; using it, or a path that is gone, ends the program (`fault`).  It implements
  `PoolSpec`, which is proved.
* **`ShareNames`** (names and routes of shares) and **`TextTools`** (splitting of the
  option, slashes, percent-encoding, sizes) are functions.  They are compared with
  what is documented of them, for every input of a bounded set.  Before the routes of the
  shares stands the one of `.current` (`media.c:401-421`, `TakenForCurrent`): its dot
  matches any character (`SingleChars`) and its pattern has no end.

### 2.3 The remote control

`RemoteControl` is composed along a chain of extensions, each of which adds
variables and actions: `Player`, `StatusPage`, `PageControls`, `SharesPage`; it joins
them with `ApiMessages` and the threads that take commands off a websocket or an
HTTP request.

* **`Player`** is mpv with `mpv_api_commands.c`.  A command is a `job` that holds
  `mpv_lock`; each of its calls of mpv is a step, between which mpv may start the
  current file and its window may change anything.
* **`StatusPage`** is the page as far as it shows the status.  Each widget has the
  properties it is redrawn for (`Triggers`) and what it tells (`Shows`); the rows of
  the playlist are updated by `Diff` as in `updatePlaylist`.  Sockets are a sequence,
  and `ws` the one that the handlers use, whichever socket called them.
  The two sliders are not moved while the user has them (`Blocked`).  The tracks
  in use are part of `track-list`, which is what the page is sent when they change.
* **`PageControls`**: rows, buttons, keys, long presses with their menus, the sliders.
  Every control that `buttons.js` registers passes its events through one handler,
  `fshort` (`touchmenu.js:66-81`), also those without a long press: the event is
  *swallowed* after a long press (`Swallowed`), or *passed* on (`Passed`), which ends
  whatever timer runs.  That goes for buttons, both events of a slider, the selector of
  the shares and the button that shows them.  A press may be released on its button
  (`Up`), on another one with a menu (`Up` as well), on one that listens to "pointerup"
  (`UpOnSender`), or beside all (`UpBeside`); one that began elsewhere may end on a button
  (`ReleaseOnto`).  Buttons that change the look only (`togglePlaylist`, sorting and
  the like) do to a press what `ToggleShares` does when nothing is asked.  Rows, entries of menus, keys and swipes have handlers of their own.
* **`SharesPage`**: the list of shares.  Requests may be answered out of order or fail.
  Whether the overlay with the list is visible is left open: while there is no list, showing it
  asks for one, a second time before the first answer, too.  The selector (`selector`)
  and `shares.selected` are two variables: the selector changes when the user picks a
  share, also if the event is swallowed and nothing is asked.
  Of the server it keeps what was asked for last in each share; the server's part
  in detail is `HttpServer`.
* **`ApiMessages`**: quoting, chunks, commands as text; functions.

The status service is the environment of the page: `SendDiff` sends any part of what
changed, in any split, which contains what `WsStatus` and `PropertyStatus` let the event thread send.

### 2.4 Conventions

An `MC` module gives the constants their values for TLC.  A `_proofs` module holds
theorems; `DataLemmas` has the lemmas on numbers, sequences and recursive functions
that several of them use, and `ServerParts_proofs` the proofs about the four parts of
`HttpServer`.  A definition `D_Suffix` in front of a definition `D` is a
mutant: a plausible mistake in the code `D` models, under which a property fails.
Variables marked *(history)* are read by properties only.

## 3. Runs

| run | instance | what it shows |
|---|---|---|
| `property_status` | 2 properties (one is "pause", the other is throttled and is the track list), 1 queued pause event, values may change during the initialisation | types; counters and flags; no update lost; one observation each; initialisation completes |
| `client_table` | 4 connections, 3 slots | slots, indices and counter agree, clients are turned away, `clients_close` at any time |
| `ws_status` | 2 connections, 2 slots, 2 properties, track switches | a served client misses nothing; the observation stops when nobody is left; both refinements |
| `ws_status_live` | 2 connections, 2 slots, 1 property | connecting clients are served, commands answered |
| `ws_status_end` | 2 connections, 1 slot, pause events, shutdown | `clients_close` ends or blocks, and even blocked holds up nobody who leaves; types |
| `http_server` | 2 threads, a ring of 2, 3 requests of 9 kinds, 2 files started, with two shares or none | buffers, share, folders and answers; what needs two requests at once; names, routes and conversions of text |
| `remote_control` | 3 files, 13 sets of bounds | the page follows the player; commands hit what the user saw; presses, shares, messages |
| `ws_loop_blocks`, `ws_nobody_observes`, `ws_stale_ready`, `ws_double_observation`, `ws_unparsed_value` | the smallest instance that shows it | one statement of the source each that the code does not keep (section 6) |

### Bounds of the status service

`Conns`, `MaxClients` and `Props` are the sizes of the instance,
`MaxQueue` bounds the pause events mpv may hold; nothing else is cut off.
Two connections are enough for the races of the
service: every decision there depends on whether the counter is 0, 1 or more, and
every circle of locks found has two threads, the connecting one and either the
event thread or another handler.  Two properties tell a single update
(`send_to_all_clients1`) from a collection (`send_to_all_clients2`), and make
"all have arrived" differ from "one has".  The table runs with one connection
more than it has slots, so that slots are reused and clients turned away.  The
service and its two parts are covered for every size by their theorems.
The update interval is varied in `property_status` only: a held update just waits
in `updated`, which the properties of the service already allow for.  Symmetry of
the connections is used only in runs without liveness.

Deadlock checking is off where the model stops because the program does: after a
failed assertion or undefined behaviour, when threads wait for locks in a circle,
and in `remote_control` when the bounds are used up.  The liveness properties of the
status service name two exceptions, an abort (`Stopped`) and a circular wait
(`NoCircularWait`), so an unexpected way to get stuck violates them.

### Bounds of http_server

Some 4.4 million distinct states in about a minute and a half.

* Two threads over a ring of two buffers: a ring that is full, a fresh buffer from
  `malloc`, and the search around the ring all happen (static files need two buffers).
  The six addresses of `Buffers` are more than are ever in use.
* Three requests (`MaxRequests`): one that stores a folder while another holds a
  pointer to the old one, and one that comes after both.  Two files (`MaxStarts`):
  one that waits while another is started.  Three requests go with one file, two
  requests with two files (`MaxEvents` is 4); the full product, 12 million states, was
  explored as well.
* Shares `/m` and `/n` beside a folder `/m2` that continues the name of `/m`, a hidden
  folder, folders and files that do not exist.  The other value of the option is
  no shares.
* Names and routes: all options of three entries over six names, which include
  names like the enumerated ones, in every order of the dictionary.
* Texts: lists of up to two folders with each separator and delimiter; ends of URLs of
  up to four characters; every byte for the encodings; sizes around every boundary.
  `Kilo` is 64 instead of 1024 and `MaxInt` 511, so that TLC's integers hold the
  products; both are boundaries of the same kind, and the theorem on sizes covers the
  real ones.

The eight properties of the threads are theorems as well (section 4), for every
number of threads, buffers, requests and shares, and so are the six of text, for all
texts, names and sizes; the run finds them out cheaply and shows that each can be broken
by a mistake in the code.  The properties of text do not depend on the state; they are
evaluated in the initial states (`AtStart`).

### Bounds of remote_control

Some 2.5 million distinct states in about two minutes.  `Bounds` is a set of
instances; a behaviour picks one.  Each one gives room to a few kinds of events:

| window changes | sockets / accepted | tabs hidden | user | what for |
|---|---|---|---|---|
| 2, over all playlists of up to 3 of 3 names | 1 / 1 | 0 | - | every pair of lists that `get_diff` may compare |
| 2 | 2 / 2 | 1 | - | a lost connection or a hidden tab between two changes |
| 1 | 3 / 3 | 2 | - | two sockets at once, tabs shown while one is opened |
| 1 | 1 / 1 | 0 | 1 row | a row's command while mpv changes |
| 0 | 2 / 2 | 1 | 1 row | a row's command after a new connection |
| 0 | 1 / 0 | 0 | 3 presses | a press during, and after, a press, wherever it is released, before the page is connected |
| 1 | 1 / 1 | 0 | 2 buttons, keys or sliders | commands one after the other while mpv changes |
| 0 | 2 / 2 | 0 | 2 buttons, keys or sliders | commands over a lost connection |
| 0 | 1 / 0 | 0 | 4 on the shares | answers out of order, a list asked for twice |
| 2 | 1 / 0 | 0 | 2 on the shares | mpv changed between the calls of an append |
| 0 | 1 / 0 | 0 | 3 presses, buttons, keys, sliders or on the shares | controls that stop each other's presses |
| 0 | 1 / 1 | 0 | 2 of the same | presses, menus and their commands |
| 0 | 1 / 0 | 0 | 4 presses or on the shares | a share picked after a long press |

Two shares, each with its root and one folder; the second is found in its folder, so that
the server restores one that is not the root.  One place to drag both sliders to.
The product of these rows is far too large to explore.  `MaxWrite`,
`ShortLen` and `MetaLen` of `ApiMessages` are 20, 10 and 4 for 65520, 256 and 4;
lengths up to 60 cover messages of one to four chunks with each remainder, and pairs
of them show what one message leaves behind for the next.  `MessagesStayIntact` is about
the real sizes as well.

### Fairness

* Every thread is a POSIX thread that keeps running, and a thread that competes
  for a mutex gets it in the end: strong fairness of the event thread's step and
  of each connection thread's own steps.
* mpv reports each change it owes: strong fairness of `TakeChange(p)`, because
  other events are reported in between.  client.h: "You always get an initial
  change notification".
* `onion_websocket_close` at the end of the program is not fair: it may block forever,
  so `ClosingEnds` says that `clients_close` ends or blocks there, and that connections
  get away all the same, since it holds no lock by then.
* Clients are not fair: nobody has to connect, send a message or leave.  Changes
  in mpv, track switches and the end of the program are not fair either.
* `http_server` and `remote_control` check safety only and assume no fairness.
* In `PropertyStatus`, whose only process is the event thread, weak fairness of
  its steps suffices, with strong fairness of the two events that others disable.

`EndWait` is always possible: the wait has a five second limit, it may be woken
spuriously, and the code looks at no predicate afterwards.

### Conditions in properties

Some properties name a case in which the code does not do what they say.  Each such
condition was put there for a counterexample of TLC, and most stand for an observation
on the code (section 6).

*NothingMissed* says that each value a served client lacks is marked as updated,
so a later `status_diff` carries it.  If the wait for `init_done` ended early,
a full status was built before every property had a value, and a property that
arrives after that is *initialized*, not *updated*: it is never sent to that
client until it changes again.  `partial` records that this has happened in the
current observation; the property speaks of the rest.  It ends with `clients_close`:
a handler that `clients_close` has thrown out takes its client away once more, and may
make the next one look like the first of a service that nobody stopped.

*BuffersAreExclusive*, *AnswersOwnRequest*, *StoredPathExists* exclude two threads that
passed the test of one mark; *QuietPoolIsFree* two that allocated one buffer.
`SafeOneByOne` shows that both need overlapping requests, which no lock prevents.
*CurrentFolderFollows* excludes a folder that a user looked at since.
*SlotFreedByOwner* says that a slot is emptied by its own connection when it leaves, or by
`clients_close` standing at it, and by nobody else as long as the program runs.  Behind
`clients_close` there is one exception: a connection whose slot it has emptied still has the
index, and empties the slot again when it leaves, whoever has it by then (`Passed`).
*SharesReachable* excludes names that continue each other, and those with "current" behind
one character, which the route of `.current` takes.
*PageFollows* excludes a full status that came while updates were outstanding, a
slider after the user moved it or had it while an update came (`moved`), and the icon of an
entry drawn before it was started.
*MessagesIntact* is about strings that are `Quotable` and lengths that are `Chunkable`.
*OneHandlerPerPress* says "fired one" of a press while which no other timer runs, whose own
timer runs while no other control is used, and whose click no finished long press takes.
*ListMatchesSelection* compares the list with the selected share always, with the selector
and the links if no answer failed or came before an earlier one (`missed`); the selector
not after it was changed with nothing asked (`strayed`), the links not in a folder that the
server restored (`printed.restored`).  Each of these was put there for what the code does
(section 6).  *IdlePlayerStarts* excludes changes in the window in the middle
of the command.

## 4. Proofs

For every value of the constants, under `PropsAssumption`, `ClientTableAssumption`,
`WsStatusAssumption`, `BufferPoolAssumption`, `TrackPathsAssumption`,
`HttpServerAssumption`, `TextToolsAssumption`, `ShareNamesAssumption`, `ApiMessagesAssumption`,
`PlayerAssumption`, `PageAssumption`, `ControlsAssumption` and `SharesAssumption` (which TLC evaluates in the runs):

| module | theorems |
|---|---|
| `PropertyStatus_proofs` | `TypeCorrect`, `CountersCorrect`, `ObservationsCorrect`, `NoUpdateLost`, `UpdatesAreSent` |
| `ClientTable_proofs` | `TypeCorrect`, `SlotsCorrect`, `CountCorrect`, `CountBounded`, `SlotFreedCorrect` |
| `WsStatus_proofs` | `StatusImplemented`, `TableImplemented`, `TypeCorrect`, `StopsWhenEmptyCorrect`, `NothingMissedCorrect` |
| `ServerParts_proofs` | `PoolTypeCorrect`, `QuietPoolIsFreed`, `PoolIsExclusive`; lemmas: each step of `TrackPaths` keeps its invariant, and what the functions of `ShareNames` and `TextTools` return |
| `ApiMessages_proofs` | lemmas: what the functions of `ApiMessages` return (`CommandsAlwaysArrive`, `MessagesAlwaysArrive`, `StringsAlwaysArrive`) |
| `HttpServer_proofs` | `ServerUsesPool`, `ServerBuffersAreExclusive`, `ServerFreesBuffers`, `ServerTypeCorrect`, `HandlersAnswerOwnRequest`, `ShareFollowsPlayer`, `FolderFollowsPlayer`, `StoredPathsExist`, `OneByOneIsSafe`, `FoldersHaveOneName`, `SizesShownAreTrue`, `NamesNeverCollide`, `SharesAreReached`, `FoldersAlwaysSplit`, `EncodingIsRight` |
| `DataLemmas` | lemmas: least elements, functions computed turn by turn, recursion over a measure, pieces of sequences |
| `RemoteControl_proofs` | `ListFollowsSelection`, `EachPressFiresOnce`, `CommandsAreMeant`, `AppendedIsPlayed`, `TypesHold`, `PageFollowsPlayer`, `MessagesStayIntact` |

What the assumptions say of the program: sets of threads, connections and
properties are finite; paths are sequences of words that include "/"; the names of
folders and files are absolute, and the folder of one that exists exists; a folder
in the list of shares is a sequence of names; "playlist" and "pause" are among the
properties, a playlist has its position within its files and plays nothing without
one, whether it is mpv's first or set by its window, and a file that starts does not
replace the playlist; no url of a share begins with another one; a widget is redrawn for properties that the server observes
(`Triggers`, a constant expression); every long press is on a button that has a menu.
Of texts: the value of the option is written as documented, so a separator is no part of
a name or folder, which the option has no way to escape (`Writable`); a string of mpv has
no byte zero inside it and no half of a character; a chunk has room for its number and
its id, two bytes each, and is smaller than what is written at once; the name of a
command is a word without a slash.

### The status service

*Counters.*  `CountersMatch` is inductive together with the types: each action
adds to a counter the size of what it adds to the set.  The one step that needs
care is the reset, where `num_updated` drops by the size of the properties reset:
the assertion `prop->updated` is what makes that a subset of `updated`.

*Updates.*  `StaleIsPending` is not inductive: a text is made current by
`parse_value` during the send and its flag is cleared only in the reset, while
the observation may change in between.  `SendInv` adds three facts: what is
updated is initialized; what the search would select, forced by a pause, is ready
when the messages are built; what is ready then has a current text until the
reset.  The second matters because the forced reset clears `updated` and not
`ready`: it must not clear what was not sent.  It holds because the event thread
alone sets `updated` and changes `pause`.  `UpdateLeavesSent` follows from the
same invariant, one step per action.

*Table.*  `CountIsExact` needs to know that the slot `remove_client` empties was
occupied, which `SlotsAreOwned` says while `clients_close` does not run.
Afterwards only `CountNeverHigh` is left: every decrement, also the second one
for the same client, takes at least as much from the counter as from the slots.  `SlotFreedCorrect` rests on
`OwnedAhead`, which lasts into the closing: whoever is in has the slot of its index, unless
`clients_close` is through with that slot.

*Composition.*  `StatusImplemented` and `TableImplemented` show step by step that the
service implements its two parts; that takes no invariant but the type of `pc`, for
the table.  Through them the service inherits the
parts' invariants: the theorems of `PropertyStatus_proofs` and `ClientTable_proofs`
are instantiated, not proved again (`PartsCorrect`).  `LockInv` says who holds which
lock where; it makes `StopsWhenEmpty` follow from `EmptyIsUnobserved`, because the
decision to stop is taken and carried out under `ws_lock`.

*Nothing missed.*  That a served client lacks only what is updated is not inductive: a
full status is built in one step and counts in another, and a send takes updates away
after it passed the clients one by one.  `MissInv` says why neither loses anything.
While values are still missing nobody has been told anything (`CompleteWhenTold`), since
the first client waits or builds its status (`FirstWaits`), and a delivery that began
under an earlier observation cannot pass the slot whose lock it holds (`OldIsPassing`).
What a send will take away is in the view of each client it has passed, or in the status
that client is about to get (`TakenIsTold`); the others it has still ahead.

### The requests for shared folders

*Pool.*  `BuffersAreExclusive` is not inductive: a thread that has passed the test
of a mark will have the buffer although it does not hold it yet.  `PoolInv` says,
as long as no two threads have taken one position: no address is in the ring
twice; what a thread is about to take is still where it read it, threads about to
take the same address stand at the same position, and the position is marked when
somebody has the buffer by now; a buffer of the ring that somebody has is marked;
nobody has a buffer twice.  The hard step is the second `AcquireTake` at a position
that had no buffer when both threads read it (`TakeNewStep`): it replaces the buffer
in the ring, and the mark that stays belongs to the replaced one.
`QuietPoolIsFree` needs the opposite direction, `MarkedIsHeld`: unless a buffer was
replaced, a marked buffer is with a thread.  That the search for the next position
stays in the ring (`NextPosInRing`) is part of the types.

*Server.*  Every step of `HttpServer` is a step of the pool or leaves it alone
(`PoolIsUsed`), so the server implements `PoolSpec` and inherits the pool's theorems.
`ServerInv` adds that a handler which serves has its buffers and that a resolved path
belongs to a request under way.  `OwnInv` is what makes `AnswersOwnRequest`
inductive: between writing its path and using it a handler finds that path in its
buffer, because what others write goes to their buffers.

*Share and folder.*  `TrackInv`: the current directory lies in the current share, and a
pending path is the one of the last started file.  `ShareFollows` and `FolderFollows`
are the two properties with the comparison of strings that the code makes; the
properties speak of folders and follow where names are separate.
`FolderRequests` says that requests for folders carry paths and shares that exist, so
that a stored path is again one.  `StoredExist` adds that a handler about to store
a folder has resolved it: that depends on `OwnInv`, hence on the pool.

*One by one.*  `Orderly`: with no overlap at most one thread is at work, nobody else
holds a buffer, no mark is set but its own and no string was freed under it.  Each of
the three things that can go wrong contradicts one part of it.

*Texts.*  `FoldersHaveOneName` is about every text: one that is not slashes alone has a
part with slashes only around it (`PartIs`), `left_slashed_string_if_not_empty` puts one
slash before that part (`PartSlashed`), and more slashes around the text leave the part
as it is (`SlashesAround`).  `SizesShownAreTrue` is arithmetic: what the two divisions
round off is less than a thousandth of the unit each.  `EncodingIsRight` goes through the
bits of the twelve bytes that the bitmaps consist of (`BitsOf`), once per encoding.

*Recursion over texts.*  A recursive definition is a choice among functions that satisfy
an equation, so each needs a function that does before anything follows from it.
`TurnsExist` builds one step by step where each value depends on the one before,
`RecursionExists` where it depends on any value with a smaller measure, which the readers
of texts need: they go on behind the token or the character just read.

*Names of shares.*  Within the option the enumerated names are a permutation of the
first `n`, and each swap keeps them one (`ProperShares`, `SwapDoes`).  The part that needs
an argument is the `while` of `__swap_enumerated_share_names`, which has no bound of its
own: it walks along a permutation, so it can neither end at a missing share nor go round
without finding the name (`TakesAll`, `WalkReturns`, `HolderIs`).  A name that a share got
by a swap stays with it, because only the share of that name could take it away
(`NamedIs`).  `SharesAreReached` follows: two routes that begin the same path would have
names of which one continues the other (`PrefixesOfOne`).

*The option.*  `WrittenIs` gives the place of each entry in the text; read from there,
`sscanf` finds the entry (`EntryIs`), and what is skipped behind it ends at the next one.
The entries read from the end backwards are then the rest of the list (`OptionAlwaysSplit`).

### The remote control

*Shares.*  `ListMatchesSelection` speaks of moments without requests; `LastDecides`
extends it to all others: as long as answers come in order, the last request is the one
the page will show, and the folder stored for its share is the one asked for, or it asks
for ".current" (`Fits`).  The selector shows the share of the last answer, unless it was
changed since and nothing asked (`strayed`).  `ShownIsSelected` is the part that no order of
answers and no failure disturbs.  That `update_selected_share`, which takes the first share
whose url fits, finds the share that was listed needs that no url begins with another.

*Presses.*  The flag and the timer are globals of all controls.  What a step does to them is
one of a few things (`PressStep`): a click on some control (`Clicked`), the release of the
button held down on one that listens (`Released`) or beside all, another control used in
between (`Used`), a new press, the end of a timer.  `PressInv` ties flag and timer to the
presses: the button held down belongs to the last press, whose timer runs or has fired
(`HeldIsLast`); a press whose timer runs has fired nothing, and is not alone once another
one began, another control was used or the flag is set (`RunningIsOpen`); a press alone that
does not run has fired once (`FiredOnce`).  `OneIsHeld` keeps a slider from being used while
a button is held down, which would take the timer from under `HeldIsLast`.

*Rows.*  The longest argument is about `get_diff` and `updatePlaylist`, for lists of any
length.  `Diff` and `UpdatedPlaylist` are recursive functions, whose value after each
turn follows from the one before (`Turns` in `DataLemmas`).  `Leads` is the invariant of
`get_diff`: the operations found so far take the rows from the old list to one whose
first `q` rows are those of the new one and whose others are old ones moved by `o`, up
to the entries that are compared next (`OpFits` says this of one operation).  Each of
the eight branches keeps it (`DiffStepLeads`), and the number of turns is enough to reach
both ends.  `Stands` is the invariant of the loop in `updatePlaylist` over these operations:
no row is missing where one is replaced or removed, and each row made so far serves its
entry (`OpApplied`).  So the handler does not fail once the page has a status, the rows
have the names of the new list, and `Renumbered` gives them their places.

*Commands.*  `CommandInv` carries this through the page.  What is on its way to mpv,
in a menu, a socket, a request or a `job`, is `Formed`: a command for an entry carries
the index of the file that was meant in the list that was shown.  What the page holds
is a status with the rows of its playlist (`StatusTypes`), also when a full status
overtook updates; what comes on a socket leaves it so.  `CommandsHitShownEntry` and
`TypeOK` are read off.

*Appended file.*  `AppendedLast` says where the file is at each call of
`cmd_media_playlist_add`: last from `loadfile` on; before the jump nothing is current;
the number that was read is the one of the last entry.  It needs that mpv starts a file
only when one is current, and that no other command runs meanwhile (`mpv_lock`).

*The page follows.*  `PageFollows` speaks of moments when nothing is under way;
`FollowInv` is about all others.  What the server believes to have told is true of
whatever is not dirty (`ToldIsTrue`).  On each socket the last message about a property
has the value that was told last (`WiresAre`), because an update goes to every open
socket.  A property that no message mentions any more has that value in the status of
the page, with the outstanding updates over it (`StatusIsTold`), as long as the page is
`Live`: its socket is open and the full status was taken from it.  That is where a status
that overtakes updates is excluded, since the updates hold older values.  Widgets show
the status (`ViewIsStatus`), which is the statement that each widget's triggers are
sufficient (`UpdatesAreShown`), except for a slider that the user moved (`Untouched`): a
slider that is blocked when an update for it comes counts as moved from then on.  So do the icons (`IconsAreStatus`).  The button that
resets the speed shows 100 on the click, before the player was asked.  `ResetIsStatus` says why
it is right in the end: the command is on its way, or the speed it set is, or they are
equal.

*Messages.*  A command: the slashes between its parts are the only ones, since those in
parameters were encoded (`SplitIs`).  Chunks: as many are announced as the loop writes, or
one more that still holds its number and id (`ChunksAre`); until the last one arrives the
page holds exactly the data of those before (`MessageJoined`), with nothing left over for
the next message.  Strings: `EscapedFrom` is the escaped end of a string behind each of its
bytes.  `Quote` copies the string in two parts, the second out of the last four bytes; both
together are the whole escaped string when no character lies across the border and four
bytes exist (`QuoteIs`).  Every backslash in it stands before a quote and every quote behind
a backslash (`EscapedBytes`), so `JSON.parse` neither ends early nor fails, and reads the
string back (`ParsedIs`).

### Only model-checked

The liveness properties (`InitialisationCompletes`, `ConnectingIsServed`, `CommandIsAnswered`,
`ClosingEnds`: liveness and ENABLED are out of the prover's reach) and the statements the code does not keep, which TLC refutes.  Every
safety property of a passing run, of states and of steps, is a theorem.

## 5. Plan

Done, in this order: the status service with proofs about it and its two parts; buffers,
track paths and the server that uses them, with their proofs; names and texts; the
remote control, with its proofs; the functions on text.  What is left:
of the hazards without a property, two are about signals and about memory at the end
of the program; they need a model of `status_free` and of threads that outlive the
server.  The notes in PROJECT.json say why the others have none.

## 6. Where the code departs from what it says

Each is a run that TLC ends with a violation; PROJECT.json quotes the lines.

* `EventLoopGoesOn`: a client that connects while a single property is sent can
  block the event loop for good.  `send_to_all_clients1` takes `status->lock` and
  then slot locks (`ws:1166`, `1178`), `ws_status_start` the other way round
  (`ws:351`, `1219`, `396`).
* `ServedIsObserved`: of two clients that connect at the same time neither is
  "the first", and nobody observes (`ws:363`).
* `ReadyIsUpdated`: a client that leaves and another that connects in the middle
  of a send make the assertion in `__reset_ready_props` wrong (`ws:1381`); without
  `NDEBUG` it ends the process, with it `num_updated` is counted down too far.
* `OneObservation`: a track switch without a client observes the track list
  twice; the assertion in `status_unobserve` is wrong later (`ws:1125`).
* `InitialValueParsed`: two values of one property during the initialisation keep
  the others from being parsed (`ws:895`), and the full status reads NULL.

The models show more that no run of its own is devoted to, because nothing in the
repository states the opposite as clearly.

Status service:

* `assert(0)` in `ws_status_start` when a client connects between another's
  `remove_client` and its look at the counter (`ws:386`, `Abort("multiple")`).
* A NULL websocket in a delivery, tested before the lock and used after it
  (`ws:1176-1179`), or in `ws_status_cont` (`ws:421`), which may also find another
  client's websocket in the slot once `clients_close` runs.
* A connection whose slot `clients_close` has emptied empties it once more when it leaves,
  also under a client that connected since (`ws:255-265`).
* `clients_close` closes a websocket that its own thread may have freed meanwhile
  (`ws:146`, `closeFault`).
* A new observation marked as initialized by the decision about the old one
  (`ws:902-905`).
* Pending throttled updates are not flushed on a pause unless the property "pause" is
  reported afterwards (`plugin:139-144`).

Shared folders:

* Two threads get one buffer when both test its mark before either sets it
  (`buffer_pool.c:53`), `races`.
* `mtp->pending` is tested outside the lock; the second of two threads takes over a
  path that is NULL by then (`media_track_paths.c:203-220`), `fault`.
* A handler reads the string of a `current_directory` that another one has freed
  (`media_api_handler1.c:33-85`), `fault`.
* A share `/m` takes files of `/m2` for its own (`strstarts` in `media_track_paths.c`),
  and requests for a share `ab` for its own when it is called `a` (`media.c:333`); the
  route of `.current` takes those for a share `xcurrent` (`media.c:406`).
* "Save this subfolder as last used" (`media_api_handler1.c:80`): the path is stored before
  `opendir` (91) tells whether it is a folder, so a file's path is stored, too
  (`media_html_handler.c:133-143` does the same), and `.current` then answers with the
  file.  `StoredPathExists` is therefore about both.
* The size in the JSON list is an `int` (`media_api_handler1.c:170`).

Messages and commands:

* The number of chunks is computed with a smaller size than is written: just below a
  multiple of it a message does not arrive (`ws:1597`).
* A backslash is not escaped, and a string shorter than four bytes with a quote, or
  with a character across its last four bytes, is spoiled (`ws:1437-1500`).
* An append to a playlist that became empty meanwhile fails with the text "success"
  (`mpv_api_commands.c:655`).

Page:

* `onclose` clears the timer of outstanding updates without setting it to null: no
  update is drawn until the tab is hidden and shown (`webui2.js:614`).
* Updates outstanding while a full status arrives are older, and overwrite it
  (`webui2.js:590`).
* A second socket opened while the first is being opened works with `ws` set to null
  when the first one ends (`webui2.js:627`).
* The menu of the audio tracks sends `set_subtitle` (`touchmenu.js:763`).
* The page never shows that mpv is idle: no status has a property `idle`
  (`tools.js:107`).
* A long press released beside its button makes the next event of any control count as its
  end (`touchmenu.js:66-76`), where the comment speaks of "next mouseup/touchend event" (35).
  A click is lost; so is the "change" of the selector of shares, which then shows a share
  that is never asked for (`strayed`), and the "change" of a slider, whose block then stays
  and keeps it from following the player until it is used again (`moved`).
* `block.disable` comes after `send`, which fails while the websocket is being opened: the
  slider stays blocked as well (`buttons.js:127-131`, `138-142`).
* A slider, a share or a click on another button ends the timer of a press that still
  runs (`touchmenu.js:78`): the press fires nothing.
* While a menu is open the selector of shares changes and nothing is asked
  (`touchmenu.js:68`).
* ".current" is replaced by the root of the share and not by the folder that the server
  restored, since `share_get_subdir` looks for a prefix that `json.dirpath` does not have
  (`shares.js:125-126`, `160-165`), and for the first share never: ".." and "/" in a
  restored folder start from the wrong place (`printed.restored`).

## 7. Not modelled

* The texts of the observed properties: the properties depend on how new a value is,
  not on how it is written.  Quoting and chunks are `ApiMessages`.
* Failing writes and reads of sockets: libonion's result is logged and ignored.
* Signal handlers and memory that is freed under running threads at the end of
  the program (`onion:551`, `568-589`, `status_free`, `clients_uninit`): the models
  end with `clients_close`.
* The arithmetic of `onion_ws_time.c`: whether an update time is reached is a choice,
  which leaves out no result of it.
* Start-up, the parsing of the other options, pages of errors, and what answers look
  like: straight-line code.  The share `.current` and hidden names are in
  `HttpServer`; `wordexp`, which expands the paths of shares, is not.
* `json_status_response` (the status by HTTP) and the command `quit`.
* Of the page: sorting and scroll positions, overlays, swipes that change no share, the
  media session and notifications, marks of chapters, the field for a URL, touch events
  that repeat mouse events, and selected entries of menus.  They draw, or keep state that
  no modelled part reads.  A touch is taken for the mouse events that a
  browser makes of it.
* The tab that `browseShares` opens, and other clients of the server: they change the last
  folder of a share, too.
* Bytes in front of a string: `rstrip_slash` reads one for a string of slashes only
  (`tools.c:383`), `left_slashed_string_if_not_empty` for one without a slash in front
  (`tools.c:397`).  The operators of `TextTools` stop at the start of the text.
* Builds without mpv (`WITH_MPV` undefined), build files, vendored code.
