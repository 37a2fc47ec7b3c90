# A TLA+ model of nexer

nexer is a TCP forwarder that starts the processes its upstreams need.  It is one
thread on one libuv loop: every component is a C++ class whose methods run inside
callbacks, stores closures, and owns handles that libuv gives back, closed, some
iterations later.  Almost everything that can go wrong in it goes wrong between two
callbacks.  That is what these modules are about: who still refers to what when a
callback comes, which callbacks may still come, and whether somebody who waits is
told.

Paths below are those of the repository (`src/process.cc`, `include/...`, `test/...`).

## 1. Inventory

| Component | State | Operations | Talks to |
|---|---|---|---|
| `ProcessManager` | per app: waiting closures, process, restart flag, preamble count, checking flag, start time | `Require`, `Check`, `Start`, `CheckPreamble`, `ClearCallbacks` | is called by `TcpProxy`; makes `Process` and `Timer` objects and gives them closures |
| `Process` | status, libuv process handle, three pipes, timer of the limit | `Start`/`Spawn`, `Kill`, `Input`, exit, read, write and close callbacks | tells its owner through `on_data_`, `on_error_`, `on_exit_`; deletes itself |
| `TcpForwarder` | for each side: connection, string read, string being written | closures for data, sent, error, close; `SetOutgoing`, `Swap` | owns two `TcpClient`s; tells `TcpProxy` when it is deleted |
| `TcpProxy` | listening handle, set of forwarders | `OnConnection` closure, `CheckUpstreamProcess`, `Has`, `Remove` | `ProcessManager::Require`, `TcpClient::Connect`, `TcpForwarder` |
| `TcpClient` | handle, lists of closures | `Connect` (resolve, connect, retry, time out), `Write`, callbacks | its owner's closures |
| `http::Server`, `Request`, `Response` | parser state, url, headers, body, buffers of the response | `OnData`, `Reset`, parser callbacks, `Response::End` | `TcpClient`; the handler of `Nexer` |
| `Nexer`, `main` | proxies, admin server | `Start`, `Run`, `Close`, `/shutdown` handler, destructors | makes and closes everything else |
| `Config` | apps, map from names to apps, flat sections | parsing | fills the structures all others point into |
| `FixedSizeMemoryPool` | two linked lists of blocks | `Allocate`, `Free` | - |
| `EventLoop`, `Handle` | libuv's loop; one handle each | `Run`, `Close` | everything |
| `Timer` | start time, interval | `Start`, `Stop`, ticks | `ProcessManager`, `Process`, `TcpClient` |
| `TcpServer`, `UdpServer` | listening handle | `Listen`, accept or receive | `TcpProxy`, `http::Server`, `Nexer` |
| `FunctionList`, `Then` | closures | add, remove, invoke | everything |
| `StringBuffer` | block, capacity, size | `Write`, `Printf`, `Load`, `Resize`, `Consume`, `Clear`, `Reserve` | HTTP |
| `Url` | parts of a url, its query | parse, decode | HTTP |
| `Logger` | file, level, line buffer | `open`, one call a level | everything |
| `AsyncWork`, `HttpClient` | - | - | used by nothing in `src/` but the tests |

How they interact: a client connects to a proxy; the proxy makes a forwarder and
*requires* the upstream's app; the process manager checks the app (with a checker
process), starts it if needed (its preambles first), checks it every 100 ms until it
serves, and answers all callers; the proxy then connects to the upstream, trying again
until the connect timeout, and joins the two connections in the forwarder, which
relays until one side ends.

What is hard:

* **Closures and lifetimes.**  `closed` is not `deleted`: a handle's close callback
  runs later in the iteration (or in the next one), last closed first, and objects
  delete themselves in it.  Closures capture references to objects with such lives.
* **The same function inside and outside a call.**  Without a checker, `Check` runs its
  continuation before it returns; with one, from a later event.  A spawn that fails runs
  `on_error_` inside `Start` and `on_exit_` from a close callback.
* **Callers that wait** on apps that wait on other apps, while processes exit, are
  killed, restarted, fail to spawn, and time limits pass.
* **Buffers handed to libuv by address.**
* **Reused memory**: identity by address.
* **Calls that fail half-way**: a spawn, a read that cannot start, an address in use, a
  `realloc`, a write; what was done before stays.
* **Boundaries**: rounding of two clocks, a line that just fits, a name without value.

`PROJECT.json` lists under "hazards" each place where this bites.

## 2. Modules

    EventLoop            the loop: phases, closing list, close callbacks, call stack
      EventLoopProofs      a handle given to uv_close has one close callback
    RequireService       abstract: every question is answered once
    ProcessManager       process_manager.cc               implements RequireService
      MCProcessManager     apps and preambles for TLC
      ProcessManagerProofs
    Process              process.cc
      ProcessProofs
    Relay                abstract: each side gets a prefix of what the other sent
    TcpForwarder         tcp_forwarder.cc, tcp_client.cc  implements Relay
      TcpForwarderProofs
    TcpProxy             tcp_proxy.cc, nexer.cc           built on RequireService
      TcpProxyProofs
    TcpConnect           tcp_client.cc (static Connect)   implements RequireService (of one caller)
      TcpConnectProofs
    HttpServer           http_server.cc, http_message.cc, nexer.cc
      HttpServerProofs
    Parts                drives one of the following at a time
      Config               config.cc (registry of apps)
      ConfigSections       config.cc (keys and values), Logger::ParseLevel
      Nexer                main.cc, nexer.cc, tcp_server.cc, udp_server.cc, event_loop.cc, handle.cc
      Timer                timer.cc
      StringBuffer         string_buffer.h
      Url                  url.cc
      Logger               logger.cc
      MemoryPool           memory_pool.h (used by its own test only)
      MCParts              configs and texts for TLC
      PartsProofs          of all of them

`RequireService` is what ties them: the process manager is shown to implement it for
its clients, and the proxy uses the *specification* for the process manager (it takes
part in `Ask` and `Answer` steps), so no instance has to hold both state machines.
In the same way `TcpProxy` reduces a forwarder to its lifetime and a connect to its
result; `TcpForwarder` and `TcpConnect` have the rest.  In the process manager a
`Process` is reduced to what its closures are told and when it is deleted.

### EventLoop

One iteration of `uv_run`: poll, close callbacks, timers.  `closing` is libuv's list of
handles given to `uv_close` (a stack: the last one is finished first); at the start of
the closing phase the list becomes `batch`, and what is closed meanwhile waits for the
next iteration.  The order is the source of several of the findings.  `calls` is the
call stack of the running callback.  A component that needs to tell a continuation run
inside a call from one run later pushes frames on it (`Dispatch` starts a callback,
`Continue` replaces the innermost frame by what it calls); the loop takes no event
until it is empty.  A component whose handlers only queue things is written with one
action for a handler and leaves `calls` empty.

### ProcessManager

`app` is `app_map_`: a record for each `config::App` with the fields of
`ProcessManager::App` (`late` stands for the comparison of `require_start_time` with
`max_start_time`).  `proc` and `timer` are the heap.  `owed` counts, for each client,
calls of `Require` less answers; it is not in the code.  Frames and actions:

| Code | Frame / action |
|---|---|
| `Require` (100-107) | `Require` / `DoRequire` |
| `Check` (158-188) | `Check` / `DoCheckNothing`, `DoCheck` |
| the closure of `Require` (109-129) | `CheckThen` without timer / `RequireThenOk`, `RequireThenError` |
| the closure of `Start` for its timer (58-69) | `CheckThen` with timer / `PostStartThen` |
| `Start`, `CheckPreamble` (132-156) | `Start` / `DoStart` |
| the closure of `Start` (20-88) | `StartThen` / `StartThenOk`, `StartThenError` |
| `OnError` of an app (34-39) | `AppError` / `DoAppError` |
| the end of a failed `Process::Start` | `StartFailed` / `DoStartFailed` |
| `ClearCallbacks` (93-98) | `Clear`, `Invoke`, `Cleared` / `DoClear`, `AnswerClient`, `AnswerPreamble`, `DoCleared` |
| `checking = ...` after a call (68, 78) | `SetChecking` / `DoSetChecking` |
| `OnExit` of an app, of a checker (41-54, 178-183) | `AppClosed`, `CheckerClosed`, then `Delete` |
| the 100 ms timer (71-80) | `Tick`, `TimerClosed` |

The environment is in constants: what a spawn, an exit or a read may come to
(`AppSpawn`, `CheckerSpawn`, `AppExit`, `CheckerExit`, `KilledExit`, `ReadErr`).  Each
run names its environment, because which properties hold depends on it (section 4).

### Process

One `Process` from creation to deletion with its child, its pipes, its time limit and
its owner.  The owner acts until the object is deleted, in any phase of the loop, close
callbacks included: it may `Start` the process once, `Kill` it whether or not a child is
there, and write `Input` while it runs.  `signal` is kept for each sender, the `Process`
itself (the limit, and a `Start` that failed) and its owner; `"stray"` marks a signal sent
when the pid was 0 or had been reaped, and where it goes is not followed.

A poll is what libuv makes of it.  `Polled` is one `epoll_wait`: `ready` is the streams
with something to read, `sigchld` whether a SIGCHLD came with them, the child's own or, if
the program has `Siblings`, another's.  `Read` takes a ready stream, and when none is left
the signal watcher reaps (`Reaping`): every child that has ended, also one that wrote and
died after `epoll_wait` had returned, for `OnProcessExit` to close its pipes with all that
is in them (`ChildExited`).  If this child lives, it was the other's (`OthersReaped`).

A start that fails waits for its close callbacks.  If `Start` took longer than the limit,
or was called in a close callback, the timers come before these, and the limit may tick
meanwhile: `phase = "aborted"` is the program's end when libuv is asked to close a handle
twice.

### TcpForwarder and Relay

The four strings of the two `Client`s keep their identity (`String`), because `Swap`
exchanges pointers and libuv reads a string when it transmits, not when `Write` is
called: a request holds the address and the length it was given.  Chunks are numbered
as they are read, so that `Relay` can say what each side is owed.  `echo` is chosen
initially and never changes: a pair of connections, as the proxy makes them, or the dummy
server of `nexer.cc`, one client on both sides that share two strings.

### TcpProxy

A session is an accepted connection.  Its closures captured the address of its
forwarder (`mine`); `memory` says whose forwarder lives at an address, `forwarders` is
the set `Has` looks in.  The app's answer may come inside the call or later.  With
`Reuse` a deleted forwarder's address may be given out again.  `Shutdown` allows
`Nexer::Close`.

### TcpConnect

The timer of `Connect`, the attempts it makes one after the other, `TryConnectData`
which they share, and the lists of closures it takes itself off.  Neither the resolver
nor the network has to answer before the time is over, or at all.

### HttpServer

One connection.  The peer's bytes are the pieces llhttp would call back for: the start
of a request (its method and the first part of its url), the rest of the url, parts of
header names and values, two parts of the body, the end of the message, junk.  TCP
delivers them in any grouping, so a read may end inside a request and the next may hold
the rest of it and several more.  `Understood` is what `llhttp_init` costs: a parser
just reset takes nothing but the start of a request.  A response is the list of the urls
whose answers are in the buffers, `Spoilt` when the buffers changed after `uv_write` got
their address.  `patient` is a history variable: the peer waited for each answer before
it asked again.  `Shutdown` names the requests for `/shutdown`, `EmptyValue` those whose
first header has no value: llhttp makes no callback with text for it, and the next name
is appended to the one before (`http_message.cc:29-50`).

### Parts

The parts of the program that never wait, side by side: a behaviour picks one, the
`subject`, and drives it as its module says while the others stay as they are.  They
share no state, so this checks each as its own specification would; their constants and
assumptions are in one configuration.

* `Config` follows the recursive `ParseApp` with a stack of the definitions that are
  open; `last` remembers what each name was last defined as (not in the code).
* `ConfigSections` has the flat sections: a record of keys for each, the `Parse` each
  value is given to, and what that accepts.  `said` remembers the values (not in the
  code), `fields` holds what came of them.
* `Nexer` is `main()`.  `Start` listens server by server; the handle of each is none,
  listening, unused (created, and could not listen), closing or deleted.  `RunReturns`
  is `uv_run` with nothing active left.  A connection is the life of its `TcpClient`, an
  app its process.  Ports are taken modulo `Ports`, as `htons` does.
* `Timer` reads two clocks in whole milliseconds, which begin theirs at different
  moments: libuv's, which fires, and the wall clock, which `OnTick` asks and somebody
  may set.
* `StringBuffer` has the block byte by byte and, in `text`, what the calls should have
  left.  A `realloc` may fail whenever there is one.  `state` says what failures did:
  bytes are behind the text ("torn"), a `Resize` took them in ("exposed"), or a call
  that does not look at the result of `Reserve` wrote past the block ("overrun").
* `Url` reads one text, and is checked against what writing does: a url put together of
  its parts, a query of its pairs and an escaped text are read back.
* `Logger` reduces an entry to its level and length, and a line to what it keeps of it.
* `MemoryPool` has `prev` and `next` of every block; `Leftover` is what a fresh block may
  hold where `prev` is: null, or an address outside the pool, whose damage when it is
  written through is not followed.

## 3. Runs

Every passing run explores its whole state space, and between them they take every
action of every module.  Runs marked *finding* show the code contradicting the repository's
own words; `PROJECT.json` quotes them.

| Run | Instance | Shows |
|---|---|---|
| pm_preambles | `web` (checked, limited) needs `tunnel` and `login` (checked, limited), `login` needs `tunnel`; 2 clients | whoever waits is driven by something under way; one process per app; the preamble count is exact; a check's timer is allocated; "ok" for an unchecked app means a process |
| pm_faults | one unchecked app, 2 clients, every failure of spawn, read and exit | every caller is kept in one place; `App::process` never dangles |
| pm_promise | preamble and a checked app, fairness | every `Require` is answered, once (refinement of `RequireService`) |
| pm_graceful_exit | *finding* | an app that exits with 0 when killed is not restarted |
| process_life | with and without limit, failures to spawn and to read, slow starts, other children, an owner that acts in any phase, 2 chunks of output on each stream, fairness | the limit and a failed start signal the child and nobody else; the exit told is the child's; output comes before it, but for a child that another's SIGCHLD had reaped; the timer is gone first; a process with a limit tells its end once |
| forwarder | 3 chunks each way, a pair and an echo, fairness | nothing libuv holds is touched; the forwarder outlives its connections; bytes are relayed (refinement of `Relay`); chunks arrive; both sides end together |
| proxy_sessions | 2 sessions, addresses not reused, shutdown, fairness | the set is exact; each client gets its own upstream; no orphans; nobody abandoned; forwarders are freed |
| proxy_reuse | *finding* | a reused address joins a client to another's upstream |
| connect_retries | 4 attempts, resolver and network that may never answer, fairness | closures find their data; the pointer is live; one attempt at a time, its client not deleted; requests outlive their client only in the resolver after the timeout; `then` is called once (refinement of `RequireService`); nothing is left behind |
| http_keep_alive | 3 requests, the second with an empty header, the last for /shutdown, pipelining or not, fairness | to a patient peer each answer is whole, alone and in order however TCP cuts; its requests are told apart into url, headers and body; buffers outlive writes; every request is answered or its connection ends |
| parts | each of the parts above, one at a time; fairness for `Nexer` | one app per name whatever the order, and references see its definition; checkers have one owner; fields hold what the config said; lists of blocks are whole; `Close` finds no deleted server and a shutdown ends the program; a buffer holds what was written; a timer drops the tick at once and no other but one; what is written as a url, a query or an escape is read; no log entry is lost or cut without a mark |
| config_tests | *finding* | the parser refuses keys that `test/test_config.cc` asserts it takes |

### Bounds, and why they are enough

* **Processes and timers** (`Proc`, `Timer`) bound the heap of the manager; `Reserve`
  makes clients wait while fewer objects are free, so that a start, its checker and the
  starts of preambles that follow never lack one.  No other action waits for it.  An app
  that crashes again and again while others wait keeps earlier start timers open, which
  is why the reserve is 3 or 4 with preambles.
* **Clients**: two, so that one may wait while the other's answer runs; they are
  symmetric.  Three apps are the smallest set in which a preamble is shared.
* **Chunks**: three per direction: one in libuv's hands, one read behind it, and one that
  arrives after the strings were swapped.
* **Attempts**: four; a fifth differs from the fourth in nothing.
* **Sessions**: two; sessions meet only in the set of forwarders and in a reused address,
  which takes two.
* **Requests**: one request before, one after a `Reset`, and the shutdown.
* **Apps, depth, preambles, checkers** of `Config`: two names that may refer to each
  other, one nested definition inside another, and one anonymous app.
* **Keys**: two values for each key of a section: the last one wins, or both are in the
  list.
* **Plans**: an admin server with two proxies, one of which has an app; ports above
  `Ports` (10 for 65536) that come out as another server's; dummy servers on tcp and
  udp; an address another program has.  Two connections: one to ask for the shutdown,
  one that outlives it.
* **Text**: blocks of 2, 4 bytes and none above 5, texts of up to 3 bytes of two kinds:
  each call may fit, grow the block, or fail.  Urls, queries and escaped texts of up to 6
  pieces, from three alphabets that have every character the code looks for.
* **Clocks**: an interval of 3 ms, a millisecond of two moments, 11 ms in all: three ticks
  and the rounding of both clocks against each other; the wall clock may be half a
  millisecond or some milliseconds away from where it was.
* **Lines**: a buffer of 40 for 4096, with lengths at, below and above what just fits
  after the names of 5, 6 and 9 characters; two entries.
* **Blocks** of the pool: five give head, middle and tail of both lists.
* **Output**: two chunks a stream, one read and one that comes after `epoll_wait` returned
  and is there at the exit.

`CHECK_DEADLOCK FALSE` is given where the program ends: a parsed configuration, a program
that exited, a proxy that is deleted, a process that was aborted.

## 4. Where properties need an environment

The instances say for which environments a property was found to hold; these are not
conveniences but facts about the code.  Each case below was found by TLC in the same
modules, with other values of the constants.

* `SingleInstance`, `WaitersAreDriven`, `PendingIsExact` and `CheckTimerAlive` hold when
  apps and checkers can be spawned and an app that ends does so with an error.
  * An app whose spawn fails is given up at once (`OnError` clears the callers) and tells
    its exit later, from a close callback.  If it was started again in between, that exit
    sets `app.process = nullptr` (`src/process_manager.cc:45`) although the new process
    runs, and the next `Require` starts the app a second time: `SingleInstance` fails.
  * A checker whose spawn fails answers twice, from `OnError` and from `OnExit`, the
    second time with a timer that may be gone: `CheckTimerAlive` fails.
  * An app that exits with 0 leaves callers waiting (`WaitersAreDriven` fails), also when
    it was killed to be restarted (pm_graceful_exit).

  These four and `AnsweredOkRuns` are proved for such an environment (`Obedient` in
  `ProcessManagerProofs`, section 6).
* `AnsweredOkRuns` and `PendingIsExact` need that no unchecked app with preambles that
  answer later crashes in a loop.  The timer of a start is not closed when its process
  dies; it ticks into the next start, whose preamble is still running, and tells the
  callers 0 while `App::process` is null.
* `NoDanglingProcess` is proved for every environment, `EachCallerKeptOnce` for every
  environment in which no app needs itself as a preamble, through whatever others.
* A cycle of preambles deadlocks its apps, and if spawns fail it may answer a caller
  twice.  `tunnel` and `web` have checkers, need each other and wait for each other; the
  late exit of a checker tells that `tunnel` is up.  `ClearCallbacks` of `tunnel` answers
  the client, then `web`'s closure, which starts `web`; the spawn fails, `ClearCallbacks`
  of `web` tells `tunnel`'s closure so, and `tunnel`'s `Start` runs `ClearCallbacks` of
  `tunnel` again, over the vector that was not emptied yet: the client is answered a
  second time.  `EachCallerKeptOnce` fails there.  The instances are acyclic, and the theorems about
  callers assume it (`Acyclic`).
* `ImplementsService` needs that an app with a checker has a `max_start_time` (the tunnel
  of pm_promise has one).  Without it `Tick` goes on as long as the check fails, and
  nothing promises that it ever succeeds: TLC then finds the callers waiting for ever.
* `OwnUpstream` and `NobodyIsLeft` need that addresses are not reused (proxy_reuse).
* `ExitsOnce` assumes a child that ends when it is sent SIGTERM, as nothing in the code
  ends one that does not, and allows for the abort when the limit ticks between a start
  that failed and its close callbacks.
* `OwnSignalsReachTheChild` is about the signals a `Process` sends itself.  Of its owner's
  `Kill`, which asks for nothing (`src/process.cc:218`), nothing of the kind holds: when an
  app and its checker end in one poll, `src/process_manager.cc:122` kills from the close
  callback of the checker while `App::process` still points to the app, whose pid was
  reaped.  The model has the owner's stray signals.
* `OutputBeforeExit` allows for a child that was reaped when another ended: output that it
  wrote after `epoll_wait` returned is lost, and the model reaches the loss.  With
  `Siblings = FALSE` all output comes first or an error was told, which is proved
  (`OutputOfOnlyChildComesFirst`).
* `ClientOutlivesRequests` allows for a name that is resolved after the timeout:
  `OnAddrInfo` is then given a client that was deleted, and the property does not show it.
* `AnswersInOrder` speaks of a patient peer; one that pipelines may make `Reset` clear
  the buffers of a response that is being written.
* `RequestIsWhole` and `AnswersInOrder` stop at a peer that pipelines: the start of the
  next request may come with the end of the last, is forgotten by `Reset`, and the rest
  is refused.  `AnsweredOrClosed` holds even then.
* `TicksAreFiltered` speaks of timers during which nobody sets the clock.  Set forward,
  the tick at once is told (a connect gives up before it begins); set backward, the
  difference is negative and, unsigned, larger than every interval.
* `ShutdownEnds` needs connections and apps that end by themselves, and no dummy servers:
  `Nexer` keeps no pointer to them, so they go on listening after a shutdown.
* `HoldsText` excuses a buffer in which a `Printf` or a `Load` failed: bytes stay behind
  the text and the next `Resize` takes them in; and one in which `Resize`, `overflow` or
  `Load` could not reserve, which they do not look at.
* `LogIsComplete` says of the level "critical" what the code does: it is written only
  where everything is, although it is the highest.
* `ReadsWhatIsWritten` excludes a query or fragment with "://", which is taken for the
  end of the scheme.
* `FieldsAreAsSaid` excludes the `cwd` of a command, which becomes part of its
  environment; a log level that is none and the dummy type "http" are taken and change
  nothing.
* The models stop where the code uses an object that is gone.  Two such places are reached
  and not followed: after `Nexer::Close` forwarders look themselves up in the deleted proxy
  (`src/tcp_proxy.cc:79`); and a `Process` is deleted by the close callback of its process
  handle before its pipes, closed earlier but finished later, have had theirs
  (`src/process.cc:60`).  A third is not reached: after `/shutdown` a kept connection's
  next request goes to the deleted `http::Server` (`src/http_server.cc:49`).  `HttpServer`
  would stop there, and in http_keep_alive the request for `/shutdown` is the last.

## 5. Fairness

`uv_run` is never stopped and every poll handles finitely many events, so the loop goes
round (`LoopStep`: weak, and strong in the manager, where callbacks disable it again and
again), close callbacks run (weak), a repeating timer fires (strong: it is enabled only
in its phase), and time passes.  Beyond that: checkers and killed processes exit, what
`epoll_wait` returned of a child's output and of SIGCHLD is handled, a socket that is open accepts what is sent.  In `Nexer` the peers of
connections and the apps end sooner or later, because a shutdown waits for them.  Nothing is assumed elsewhere of
clients, of apps that run, of remote ends or of the resolver: they may stay silent for
ever.

## 6. Proofs

Checked by TLAPS (SMT, Zenon and PTL).  Assumptions are those of the modules
(`ConfigAssumption` of each, `EnvironmentAssumption`, `ProcessAssumption`, ...), and TLC
evaluates them in every run; a theorem that needs more says so in its `ASSUME`.

**EventLoopProofs** has the lemmas about the loop that the other modules rest on.  For a
set of handles that are closed once (`QueueInv`), `uv_close` of one not yet queued, its
close callback and the turn to the next phase keep a handle at one place of `closing` and
`batch`, and after its callback it is at none.  "Deleted in its close callback" is safe
because of this.

**ProcessManagerProofs** proves, for every set of apps, preambles, clients, objects and
every environment the constants allow,

* `TypeCorrect`: `Spec => []TypeOK`, the frames of the call stack included (no run
  repeats it);
* `ProcessNeverDangles`: `Spec => []NoDanglingProcess`;
* `CallersKeptOnce`: `Spec => []EachCallerKeptOnce`, if preambles have no cycle;
* `AnswersWhatIsAsked`: `Spec => Service!Init /\ [][Service!Next]_owed`, on the same
  condition: the safety half of `ImplementsService`;
* `OneProcessEach`: `Spec => []SingleInstance`, `PreamblesAreCounted`:
  `Spec => []PendingIsExact`, `CheckedTimerStays`: `Spec => []CheckTimerAlive`,
  `WaitersAlwaysDriven`: `Spec => []WaitersAreDriven` and `ToldOnlyWhatRuns`:
  `Spec => AnsweredOkRuns`, on the same condition and in an environment that obeys.

`NoDanglingProcess` is not inductive by itself: the step that would break it is the
deletion of a process by its close callback, and what saves it is that the same callback
resets `App::process` first and that there is one such callback.  `IInv` therefore says
that a process handle is queued once (`QueuedOnce`), that only a process that ended is
queued (`ProcInv`), that `Delete` is the outermost frame of its callback and its process
is no longer queued (`StackInv`), and that the batch is empty outside the closing phase.
`Restart` inside the callback makes a *new* process before the old one is deleted;
`Allocation` shows that it gets another address.  Lemmas on stacks and queues
(`StackKept`, `PushKeepsQueue`, `TakeKeepsQueue`) carry the steps that change neither.

The callers need `KInv` beside it.  `ClearCallbacks` calls every closure of a vector
before it empties the vector.  Were somebody to append to the vector meanwhile, he would
be forgotten; were `ClearCallbacks` of the same app to run inside, everybody after the
first would be called twice.  What a closure may do inside is: count down the preambles
of an app that waited, start that app, fail to spawn it and clear *its* callers.  It
never calls `Require`: that happens only for the preambles of an app whose check is over,
which is never inside a `ClearCallbacks`.  And every app reached is one that needs, at
some distance, the app being cleared.  So with apps numbered such that each is above its
preambles, all that runs inside `ClearCallbacks` of an app is about apps above it
(`Nested`).  `FramesOrdered` and `Ordered` say that who waits because of a preamble does
need it.  `Kept` is the count itself, with at most one answer owed.  `StackCounts`,
`PlacesAppended` and `PlacesTaken` say what a frame and a vector add to it.  The steps
that hand no closure on are one lemma (`QuietStep`), the other five are proved each for
itself (`RequireKeeps`, `ClearKeeps`, `ClearedKeeps`, `AnswerKeeps`, `AskKeeps`).

The last five theorems assume `Obedient`, which is what section 4 found these properties to
need: apps and checkers can be spawned and read, an app ends with an error, killed or not,
and one that nobody checks has no preambles of its own.  The instance of pm_preambles is
`Obedient` and `Acyclic`.  How checkers end, which apps are checked or limited, what needs
what, and when processes exit is left open.  The invariant is `MInv`, of four parts:

* `KInv`, from above;
* `TimersQueued`: a timer that waits for its close callback is closing (`EventLoopProofs`);
* `PInv`: the closure `CheckPreamble` made for an app is kept as often as the app's
  `pending` says.  `RequireKeeps`, `ClearKeeps` and `ClearedKeeps` conclude that every
  closure stays (`CopiesStay`), a client's or an app's; the other frames move only what
  they are themselves (`CopiesMove`);
* `DInv`: what is under way for an app.  For an app that is checked, `OneDriver` says that
  while it has callers exactly one of seven things will clear its vector: `Require`'s check
  runs, in a frame or in a process; it is being started; preambles are counted down; its
  timer ticks; `ClearCallbacks` runs; a restart was asked for.  While it has none, none of
  them is there.  "Exactly" is needed: two of them at once would start two processes or
  answer a caller after its vector was given to somebody else.  `Checking` says what
  `App::checking` means between the callback that begins a check of the timer and the one
  that ends it, frame by frame, because the flag is set after the call which it describes
  (`process_manager.cc:78`).  `Unchecked` is the weaker statement for the others, of which
  old timers may still tick.  `Processes` ties process objects to `App::process` and to the
  timer their closure captured.  `Layered` says which frame may be above which, so that it
  is known what is still to run below a frame that acts.

The proof goes frame by frame (`RequireDriven`, `ThenErrorDriven`, ..., `TickDriven`).
`Apart` and `MildStep` carry the apps that a step leaves alone and the steps that make, end
and close nothing.

**ProcessProofs** proves, slow starts and owners that kill at any time included,

* `OwnSignalsAlwaysArrive`: `Spec => []OwnSignalsReachTheChild`;
* `ExitIsTruthful`: `Spec => []ExitIsTheChilds`;
* `TimerNeverOutlives`: `Spec => []TimerFindsProcess`;
* `OutputComesFirst`: `Spec => []OutputBeforeExit`;
* `OutputOfOnlyChildComesFirst`: without `Siblings`, the same without the exception for a
  child that another's SIGCHLD had reaped;
* `ExitIsToldOnce`: every step is one of `RequireService`'s or none, and only the step
  that deletes the `Process` answers: the safety half of `ExitsOnce`.

Its `IInv` says that `IsRunning` is true exactly while there is a child that was not
reaped, that one which was not tried has none and nothing to close, that once its handles
wait to be closed it has ended and its status says how (`Life`), and that the answer is
owed as long as the object lives (`OwedWhileOpen`).  The output needs `OutputInv`: both
streams are read until an error was told; when the child's own SIGCHLD came, the child
wrote nothing since, so what is left in a stream is in one that is `ready`, and the reaping
waits for these.  The SIGCHLD of another child says nothing of this one, which is where the
argument, and the code, stop.

**TcpForwarderProofs** proves, for any number of chunks, for a pair of connections and
for the echo,

* `BufferStaysStable`: `Spec => []BufferIsStable`;
* `ForwarderLivesAsLong`: `Spec => []OutlivesConnections`;
* `RelaysInOrder`: `Spec => ImplementsRelay`, the whole refinement of `Relay`.

The four strings and the pointers to them are the difficulty.  `Wired` says which connection each side still has;
`StringsInv`, that each direction has two strings of its own which only change places (in
the echo, both sides share one pair).  `FlowInv` is the refinement's heart: for each
direction, what was sent, what is in libuv's hands in `data_out`, with the length it was
given with, and what was read behind it into `data_in` are, one after the other, what was
read, and nothing waits in `data_out` when no write is under way.  `QueuedAreClosing` and the lemmas on the queue
carry the lives.

**TcpProxyProofs** proves, for any number of sessions,

* `SetIsExact`: `Spec => []ForwardersExact`, also where addresses are reused;
* `ClientsGetTheirUpstream`: `Spec => []OwnUpstream` and
  `NobodyIsEverLeft`: `Spec => []NobodyIsLeft`, where they are not (`~Reuse`); the run
  proxy_reuse shows that they need it.

The first rests on `SetInv`, in which an address in the set is the one its forwarder
lives at.  The others need that each stage of a session is what its connection and its
request say (`StagesAreTrue`), that no two sessions captured one address (`HomesDiffer`),
that a session whose forwarder lives finds it there (`MemoryIsMine`), and that a
forwarder with no upstream yet has its client (`ForwarderHasClient`).

**TcpConnectProofs** proves, for any number of attempts and whatever the resolver and the
network do,

* `ReferencesStayLive`: `Spec => []ReferencesAreLive`;
* `RequestsFindTheirClient`: `Spec => []ClientOutlivesRequests`;
* `ThenIsOwed`: every step is one of `RequireService`'s or none: the safety half of
  `CallsThenOnce`.

An attempt that failed is still being closed when the timer looks for the next one:
`CurrentIsTheListener` and `OnlyCurrentIsOpen` say that all attempts but the last are
closed and listen no more; `RequestsAreTrue` says which request an attempt may have;
`OwedWhileOpen`, that `then` is owed exactly while the timer is open: whoever calls it
closes the timer.

**HttpServerProofs** proves, for any number of requests, with and without a value in the
first header, however TCP and the parser cut them and whenever the peer sends junk,

* `PeersGetTheirAnswers`: `Spec => []AnswersInOrder`;
* `RequestsAreToldApart`: `Spec => []RequestIsWhole`;
* `WritesEndFirst`: `Spec => []BuffersOutliveWrites`.

A patient peer's last request is the only one on its way, so the invariant `HInv` speaks of
that request and of the place `k` the server has come to in it.  What the parser holds
(`calls`) and then the socket (`wire`) go on with the pieces after `k`, up to junk, if any
(`Follows`), and the fields of the one `Request` are what its first `k` pieces make (`At`:
`UrlAt`, `HeadersAt`, `BodyAt`).  Between two requests (`Waiting`), while one is received
(`Underway`) and while its answer is sent (`Answering`) the same three things hold of
different `k`.  Every step either moves pieces from the socket to the parser, which
changes neither `Stream` nor `k`, or takes one piece and goes from `k` to `k + 1`; what is
to be shown of each callback of the parser is that the fields follow.

**PartsProofs** has a section for each of the eight parts.

*Config*, for every set of names and every size and nesting of a config:
`NamesAlwaysApps`, `ConfigSpec => []NamesAreApps`, and `CheckersNeverShared`,
`ConfigSpec => []CheckersNotShared`.  Neither is inductive.  A definition moves its `tmp`
over an App that others point to, and what keeps names unique is that `app_map` and the
names of the Apps are inverse to each other (`Registry`): `GetAppFinds` shows that `GetApp`
keeps this and gives the App of the name, `MoveKeepsRegistry` that an App may be written
over by one of its name.  What keeps checkers apart is that the definitions still open hold
checkers no App holds (`Checkers`).

*ConfigSections*, for any number of keys in any order: `FieldsAlwaysAsSaid`,
`SectionsSpec => []FieldsAreAsSaid`.  `SetKeeps` is about one more value of a key.

*StringBuffer*, for every unit of growth, every limit and every text, and whenever `realloc`
fails: `AlwaysHoldsText`, `BufferSpec => []HoldsText`.  `HoldsText` with the types of the
variables is inductive; the work is in what the two ways of getting room leave
(`GrownKeeps`: the text, and nothing behind it, where the rounding up must not lose a byte)
and in `Printf`, which writes one byte more than it says (`PrintfKeeps`).

*Nexer*, for every list of servers and whatever fails to listen: `ServersAreThere`,
`NexerSpec => []PointersAreLive`.  The invariant must say of each server pointed to that it
was never closed, which is more than that it is not deleted: the close callback comes later.

*Timer*, for every interval, resolution and distance of the two clocks:
`TicksAreAlwaysFiltered`, `TimerSpec => TicksAreFiltered`.  `TimerInv` says that `Start` read
both clocks at one moment and when libuv fires next, depending on how often it has.
`MsApart` is the arithmetic: two moments are as far apart as their milliseconds say, but
for one; `ElapsedSinceStart` shows that the unsigned difference does not wrap.

*Logger*, for every sequence of calls and every size of the buffer: `LogIsAlwaysComplete`,
`LoggerSpec => []LogIsComplete`.  `LoggedIfDue` and `LineFits` are about one entry;
`OneMorePlace` about the place of an entry among those that are due in a file.

*MemoryPool*, for any number of blocks and any order of calls: `ListsStayWhole`,
`PoolSpec => []ListsAreWhole`, if what `malloc` leaves in a fresh block is no address of
another block of the pool (`Leftover`): with one, the first `Free` of the fresh block writes
through it.  `PoolInv` says that there is an order of the blocks of each list which `next`
and `prev` follow, and that what is before the first is no block (`Row`); `RowPushed` and
`RowWithout` put a block in front and take one out from anywhere.  That the walk of
`FreeBlock` goes along this order takes induction over it, which `WalkAlongRow` does by
looking for the least place where it does not (`LeastNumber`, from the library's `WFMin`).

*Url*, for all texts put together from texts of bytes (`UrlAssumption`: the program's texts
end at their first NUL, so no byte is 0): `UrlIsRead`, `UrlSpec => []ReadsWhatIsWritten`.
The state is of no consequence, the input is any text; the proof is about the functions.

* A url: `UntilStops` says where the loops of `ParseUrl` leave off, `FieldsInOrder` that each
  field ends behind the one before it, and `BeforeIsSpelt`, `PathIsSpelt` and `AfterIsSpelt`
  put the text together from the fields (`UrlIsSpelt`).
* A query: while the loop is in the piece that begins at `b`, the pair it holds is what has
  been read of this piece (`Reading`) and those it told are those of the pieces before `b`
  (`ToldBefore`).  `CharIsRead` shows that each character keeps this (`ReadUpTo`).
* Escapes: a character's code is read back as the character (`CodeIsDecoded`), and the
  codes stand one behind the other in the encoded text (`TextsStandThere`), so that
  decoding from the last code to the first gives the text back (`DecodedIsEncoded`); what
  is decoded from a place on is no longer than what is left there (`DecodedFits`).

Both induction and recursion have to be made from what the provers can use.  `AllNumbers`
is induction stated of a set of numbers, again from `WFMin`.  A recursively defined function
is what its equation says only if some function satisfies it: `FoldGoesOn`, `DecodeGoesOn`
and `FlattenGoesOn` show that one does, by extending it place by place.

Only model-checked:

* Liveness, which is out of the prover's reach: `EveryChunkArrives`, `EndsTogether`,
  `ForwarderIsFreed`, `AnsweredOrClosed`, `ShutdownEnds`, `LeavesNothing`, and the half
  of `ImplementsService`, `ExitsOnce` and `CallsThenOnce` that promises an answer.

`TestsParse` and the other properties of section 3 that are violated are not true.

## 7. Not modelled, and what comes next

Not modelled:

* `AsyncWork` and `HttpClient`: nothing in `src/` uses the one, the tests alone use the
  other, and each is one call with no state that another step depends on.
* What happens to a datagram: one closure logs it.  Two mistakes in how `UdpServer` gets
  from a handle to itself are listed as a hazard: their outcome is undefined.
* Status texts, the headers of a response, command lines and environments: data no
  property tells apart.
* jsini, llhttp and libuv, which are not the repository's: the modules have what they
  call back and when.
* `uv_getaddrinfo` that fails before it queues, which uses a pointer nobody set yet; and
  every other use of an object that is gone: the properties stop at the first such use.

The plan, in order of importance:

1. Done: the event loop and the process manager; processes; forwarders; the proxy; the
   static connect; the HTTP connection with headers and body; the whole of the
   configuration; the program's start, shutdown and end; timers, buffers, urls, the log;
   the memory pool.
2. Proofs.  Done: the loop; the manager with all its invariants; `Process`, `TcpForwarder`,
   `TcpProxy`, `TcpConnect` and `HttpServer` with all their invariants; the registry of
   apps; the fields of a configuration; the string buffer; the servers of `Nexer`; the
   timer; the log; the memory pool; the parsers of urls.  Every invariant of a run that passes is
   stated by a theorem.  Left: what of the manager's invariants remains in environments
   that obey less.
3. A proxy composed with the detailed `TcpConnect` instead of its result, if the state
   space allows.
