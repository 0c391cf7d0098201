# LenSA Proxy: specification and verification

LenSA Proxy is a desktop program that serves an authenticated HTTP/CONNECT proxy to the
machines of one private IPv4 network. These TLA+ modules model the parts of it in which
the order of events matters: the listener and its connections up to the end of a tunnel,
the server with its shutdown, the application service, the windows with what survives
from one launch to the next, and the way of one request to its destination. TLC checks
them on small instances; TLAPS proves theorems about each of them for every value of
their constants.

`PROJECT.json` maps every definition to the lines it models, lists the hazards of the code
with the properties that cover them, and names for every property a plausible bug that
violates it. Paths below are relative to `src/internal/`.

## 1. The system

| Component (code) | State it keeps | Operations | Talks to |
|---|---|---|---|
| managed listener (`infrastructure/network/listener.go`) | slots of a buffered channel, registry of connections, count per client address, `closed`/`done` | `Accept`, `Close`, `CloseConnections`, `ClientCount`, `managedConn.Close` | called by `http.Server.Serve` and by the server's shutdown |
| connection deadlines (same file, 204-272) | explicit read and write deadline of each connection, its half closes | `Read`, `Write`, `SetReadDeadline`, `SetDeadline`, `CloseRead`, `CloseWrite` | `http.Server`, goproxy's copies, Stop |
| proxy server (`infrastructure/network/server.go`) | state New…Stopped, `startDone`, `stopDone`, `serveDone`, `serveErr`, `stopErr` | `Start`, `Stop(ctx)`, `Clients`, the goroutine `serve` | listener, `net/http`, service |
| request handlers (`server.go` 349-463, `auth.go`, `headers.go`) | none between requests | `OnRequest`, `HandleConnect`, `OnResponse`, `ConnectionErrHandler` | goproxy, safe dialer |
| safe dialer and address policy (`dialer.go`, `policy.go`) | the machine's own addresses, read once | `DialContext`, `Allow` | resolver, network |
| application service (`application/service.go`) | `operationMutex`, snapshot, owned server, loaded pair, availability of the keyring, persisted settings | `Start`, `Stop(ctx)`, `Snapshot`, `SaveSettings` | server, keyring, settings file, window |
| keyring adapter (`infrastructure/keyring/store.go`) | one entry of the system's keyring | `Load`, `Save`, `Delete` | operating system |
| settings (`infrastructure/storage/settings.go`) | the `.ini` file | `Load`, `Save` | service |
| interface discovery (`infrastructure/network/interfaces.go`) | none | `DiscoverInterfaces` | operating system, window |
| window controllers (`presentation/fyneui/fyneui.go`, `presentation/windows/window.go`, `presentation/form/form.go`) | `inFlight`, `closing`, the form, what is shown | clicks, results of commands, refresh every 200 ms, the close dialog | service |
| window layout, colours, entry points | widgets | drawing, wiring | — |

A click starts a goroutine that calls the service; the service serialises commands with
one mutex (Start tries it, Stop waits for it), creates one server per Start and gives it
up after Stop; the server wraps the TCP port in the managed listener and hands it to
`http.Server.Serve`. The window polls the snapshot and never waits for the service.

What is hard about it, and what must hold:

* **Listener.** `Close`, a sweep and the owners of connections run against the accept loop.
  Slots and client counts must be exact on every path, a sweep after `Close` must find
  everything, and `Close` must free the accept loop wherever it waits.
* **Connections.** Every `Read` refreshes an idle timeout of its own unless `http.Server` has set a
  deadline; the two run on different goroutines. No read may sleep without a timeout, the end of
  one half of a tunnel must spare the other, and the slot must come back.
* **Server.** Any number of Starts and Stops at once; contexts that end at any step;
  `http.Server.Shutdown` that neither looks at the context while the accept loop is tracked
  nor knows hijacked tunnels. A stopped server must hold nothing, every waiter must be
  released with the verdict of the one shutdown, a server must never be restarted.
* **Service.** Commands of several goroutines; a server or keyring that fails; a process
  that dies between two steps. The snapshot must never promise quiet while something is
  reachable, and the keyring must follow the last successful Start.
* **Windows and settings.** State that was polled, captured or matched earlier: one command at a time, no
  exit without a question, a form that shows what is served. A file that is old, cut or edited by hand and
  a list of interfaces that changes between launches: a form that comes back as it was closed and can be started.
* **Requests.** Several places may refuse a request; each refusal must be final and touch
  nothing. Addresses come from outside, in several spellings.

## 2. Modules

```
 ProxyLifecycle <---- AppWindow -- extends --> Settings
      ^ implements                             (what the window relies on)
 ProxyService -- uses --> ServerContract       (what the service relies on)
                               ^ implements
                          ProxyServer -- uses --> AcceptGate
                                                     ^ implements
                                                ManagedListener
 Tunnel                                        (one of the listener's connections)
 ForwardProxy -- extends --> SafeDialer        (one of its requests)
 Settings, SafeDialer -- extend --> Orders
```

Each layer is checked against the abstraction of the layer below, and each detailed module
is shown to implement its abstraction, so no run has to compose everything. `MC*` modules
hold instances, `*Proofs` modules theorems. A definition that is the plausible bug of
another one stands right before it and is used by no specification.

**AcceptGate** is what the listener promises: it admits only connections of an allowed source,
below the limit, before it is shut; it turns a connection away only if its source is foreign
or it is shut.

**ManagedListener** has one process per goroutine that touches the listener, and one step per
critical section, channel operation or socket call. `acceptPc` is the place of the Serve
goroutine in `Accept` (`TakeSlot`, `Recheck`, `InnerAccept`, filter, `Register`, `CloseLate`,
and the error paths), `tokens` the slots taken, `connections` and `clients` the two maps,
`phase[c]` the progress of `managedConn.Close` (socket, `Unregister`, `ReleaseConn`),
`sweepPc`/`sweepLeft`/`sweepAt` a `CloseConnections` with its snapshot, `closed`/`done`/
`innerOpen` the three steps of `Close`. Addresses are records with the host and the spelling
(IPv4-mapped, zone); `NormalizeAddress` does to them what the code does. `sync.Once` is modelled
by what it guarantees: one caller performs `Close`, and one the closing of a connection.

**Tunnel** is one accepted connection from its first request to the end of a CONNECT tunnel. `reader`
is the `Read` under way (`Check` looks at the flag under `deadlineMutex`, `Refresh` sets the socket
before the mutex is given back), `Mark` and `SetTimer` are the two halves of `SetReadDeadline` (the flag
under the mutex, the socket after it). `Sets` and `After` are the places where `net/http.Server` sets a
deadline: for a header, to clear it, to wake its background read at the end of a handler or at a hijack,
for the next request. `up` and `down` are goproxy's two copies with their half closes, `Sweep` is what
Stop does to the connection. Peers may finish writing, vanish or stay silent; `polite` says that the
target ends when it has been told that no more comes.

**ServerContract** is what the service relies on: the phases of a server, the port it binds, its
live connections. **ProxyServer** models `Start` and `Stop` of any number of goroutines, each
locked section one step, the channels as nil/open/closed, the loop in `Stop`, `shutdown` step by
step, and the goroutine `serve`. `net/http` appears as far as Stop relies on it: the tracked
accept loop, `inShutdown`, and for each connection whether it is untracked, new, idle, active or
hijacked. `result` tells the nil of a Stop that found nothing to stop (`"noop"`) from the nil of one that shut the server
down or waited for it, as `WaitersShareVerdict` speaks of the latter: nil means that nothing failed.

**ProxyLifecycle** is what the window relies on: how the snapshot's state and what the network can
reach change together. **ProxyService** models `Start` and `Stop` between their critical sections,
the keyring with failures (also those that come after the work is done), and `Relaunch`: the
process ends between any two steps and only the keyring survives. `phase`/`bound`/`live` are the
newest server's ServerContract. `expected` and `uncertain` are history: the pair of the last
Start that succeeded, and whether it is known to have been stored.

**Settings** has no variables. It says what the `.ini` file is (the set of keys it has, each with what
is written there), what `Load` makes of a missing or useless line, what a write that was cut short leaves
(`TornSaves`), what `DiscoverInterfaces` offers of a system's devices and in which order, which name and
port `applyPersistedSettings` restores, which entry the window selects, and when `ParseForm` succeeds.

**Orders** says what a sort leaves, for the two sorts of the program: the element at place `k` is the one that `k - 1`
others come before (`InOrder`). It is neither recursive nor a choice of a whole sequence, so that TLC evaluates it and
TLAPS can reason about it.

**AppWindow** extends it with both controllers over repeated launches; the variable `toolkit` says which
one (`"fyne"`: Linux and macOS, `"windows"`). Handlers run one at a time; each goroutine has a `kind` (start,
stop, close) and a place `pc` inside the service, which appears as ProxyLifecycle behind its mutex. `Refresh`
is the ticker or timer, `FinishOperation` and `Drain` the two ways results come back, `dialogs` the close
dialogs with the settings each has captured, `iface`/`port`/`auth`/`pair`/`theme` the form, `savedIface` the
index that a locked list falls back to. `Launch` reads `disk` and asks for the interfaces twice, as the
program does (service and window), with answers that may differ; `Exit` writes it, or fails half way.
A close whose Stop returned an error ends differently in the two windows: fyne queues a message and closes at once
(`CloseWindow`), Windows shows a modal one first (`pc = "box"`, `FailureShown`) and closes when the user has seen it (`Acknowledge`).
While a window is open the file is not looked at, so `disk` is forgotten then. The refusal of an
invalid form is left out: it shows a message and starts nothing.

**SafeDialer** is one `DialContext`: parse, resolve once, filter (`Allow`, `AllowedAddresses`), try in
order. A `netip.Addr` is a record of address, IPv4-mapped or not, zoned or not. The loop of `allowedAddresses`, with its map of
what it has seen and its two lists, is put as what it computes: the positions at which an allowed address is mentioned first,
those of IPv4 before the others. **ForwardProxy**
extends it with the handlers for one request. The pair is a sequence of characters, so that cutting
at the first colon is what the model does too; base64 is reduced to "canonical Basic or not"; header
fields are names, and the list in Connection is a set of names. goproxy's routing and
`http.Transport`'s one dial per request are modelled from how `server.go` uses them.

## 3. Runs

| Run | Instance | Question |
|---|---|---|
| `listener` | 5 connections (two spellings of one machine, a second machine, a foreign one, one without a readable address), 2 slots; 218 000 states | Are slots, registry and client table exact, is nothing left after a late sweep, is it an AcceptGate, does `Close` free Serve? |
| `tunnel` | one connection; all 2 352 states | Has every read a timeout, does a hijack always wake the background read, does the end of one direction spare the other, does the slot come back, does Stop end the tunnel? |
| `server` | 2 Starts, 2 Stops, 2 connections; 547 000 states | One shutdown; a stopped server holds nothing; who shut it down or waited is told whether that failed; it is a ServerContract |
| `server_live` | 1 Start, 2 Stops, 1 connection; 105 000 states | Every Stop returns |
| `service` | 3 goroutines, 2 pairs, 1 connection; 106 000 states | The snapshot agrees with the network, the keyring with the last Start; Stop returns; no command leaves Starting or Stopping for ever; it is a ProxyLifecycle |
| `window` | both toolkits, 2 goroutines, 2 dialogs, 2 systems (one that offers a wired and a wireless device, one that offers nothing), 3 old files (none, one with a vanished name, one edited by hand), 2 typed ports, 2 themes, 1 pair; 396 000 states | One command; no quiet display of a reachable proxy; no silent exit; the form shows what is served, comes back as it was closed and can be started; commands end, and a confirmed close closes or, on Windows, shows that its Stop has failed |
| `forward` | 1 name, 4 literals, answers of up to 3 of 5 addresses in several spellings, 6 authentications, 4 ports; 193 000 states | Only allowed addresses are dialed, each once; failures leave nothing open; refusals dial nothing; hop-by-hop fields end at the proxy; exactly the configured pair is let in |

Why these bounds suffice for what is asked:

* `listener`: two slots and three admissible connections make the accept loop wait for a slot while two owners and a
  sweep compete for the connections. A second registered connection of one host tells a count from a set.
* `tunnel`: there is no bound; the module is finite.
* `server`, `server_live`: with two Stops one shuts down and one waits, and a third would only wait as the second does;
  two Starts suffice for the one that finds the server no longer New.
* `service`: three goroutines let a Start, a Stop that waits and a refused Start overlap.
* `window`: one command is under way at a time (`OneCommand`, proved for any number of goroutines), so two goroutines let a close
  meet a command. On Linux and macOS a second close dialog may open above the first, and both may be confirmed; that two confirmed
  closes meet a command as well would take a third goroutine and is left to the proofs of the safety properties. On Windows a
  message box keeps a second one away. Ports are 0 (no port), 12345, the default and what cutting or hand-editing leaves of them; a
  cut name is empty or one that no device has. Two systems let the service and the window get different answers, in either order;
  an answer that lacks only some of the devices, and two addresses on one device, multiply the states too far and are left to
  `RestoredCorrect`, `LaunchIsUsableCorrect` and the theorems about `Settings`, which hold for any systems.
* `forward`: three answers hold a duplicate in another spelling, or two IPv4 addresses behind an IPv6 one.

No counter grows without bound. The bounds are `RequestedMax`, `MaxConnections`, `MaxDialogs`, `Tasks`, `TypedPorts` and
the sets above. Symmetry is used only in runs without liveness. `CHECK_DEADLOCK FALSE` stands where the modelled thing ends: a stopped
server, a closed connection, an answered request, and in the runs that look for one violation. The runs `listener`, `service`
and `window` check for deadlock: a listener can always be closed once more, a service given one more command, a closed program
be launched again.

### Fairness

* Listener: the Serve goroutine keeps calling `Accept` and each owner, once it has begun to close a
  connection, goes on. Clients owe nothing. The steps of a `Close` that has begun are fair, its beginning is not.
* Tunnel: goroutines go on, and a socket's deadline comes (`ReadEnds` is fair where a `Read` has one). Handlers, dials and
  peers owe nothing; only a `polite` target ends when it has seen the end of what it is sent, and the two liveness
  properties name it where they need it.
* Server: goroutines inside Start or Stop go on; a context ends (the windows give Stop five seconds);
  `net/http` lets go of the listener once it is closed, and of a closed connection. Peers never have to hang up.
* Service: goroutines inside a command go on; server and keyring answer; a stopping server frees its port
  and its connections, which is what `StopReturns` of ProxyServer shows. `LockStop` is strongly fair since a
  `sync.Mutex` in starvation mode hands over to the waiter. **The keyring's answer is an assumption**: it has no
  timeout in the code, and while it asks its user for a password a Stop waits without bound.
* Window: goroutines run and the calls they queue are made (`Goroutine`); the timer ticks. The user owes nothing: questions may stay unanswered and messages
  unseen, so `ConfirmedCloses` promises on Windows, after a failed Stop, the message and not the end. The fairness of
  a goroutine is strong for two reasons: a Stop that waits for the mutex gets it, as in `LockStop`, and ProxyLifecycle lets a
  stopping proxy be reachable, unreachable and reachable again, which ProxyServer does not. For its other steps weak would be the same.

### What the runs show, beyond yes

* A tunnel in which the client only listens loses its sending half after the idle time (30 minutes), although the other
  half is busy: the refresh is per direction and happens when a Read begins. `HalfCloseSparesOther` shows that the other half
  survives, and `SlotComesBack` that a silent client still cannot keep its slot for ever.
* On Windows a confirmed close after a failed Stop waits for the user without bound (`window.go:793`), and until then the settings
  are not written; a Start that was on its way may begin behind the message. A close whose Stop did not fail never waits.
* `StopEndsTunnel` needs the polite target: see the first of the smaller disagreements below.
* `LaunchIsUsable` holds for every file, cut and hand-edited ones included, since `applyPersistedSettings` and the selection
  in the window each fall back to something valid. What a cut file can do is restore a wrong setting that looks right, such as
  a port of which the last digit is missing; `RestoredAsClosed` therefore speaks of exits that could write their file.
* `RestoredAsClosed` is by name: with two addresses on one device the first is restored, whichever was chosen. On Windows it
  holds for theme and interface only if no question was asked, as the settings are captured before the question.

### Where the repository says otherwise

Each of these runs checks one statement of a doc, a comment or a text shown to the user, and TLC finds it violated.

| Run | Statement | What the code does |
|---|---|---|
| `server_reach` | "Прокси доступен в локальной сети" in Running (`form.go:131`) | When accepting fails for good, `serveErr` waits for the next Stop; until then everything says Running and the port is closed. |
| `service_sticky` | unavailable means Load or the *last* Save/Delete failed (`service.go:192`) | The flag is never set back to true. |
| `window_exit` | the process ends only after the cleanup (`proxy-lifecycle.md:103`) | A Stop that reaches the mutex before the goroutine of an earlier click finds Stopped; that Start then runs while the window closes. `ExitLeavesOnlyALateStart` (proved) says that this is the only way. |
| `window_win_pair` | credentials are read-only while the proxy works (`Changelog.md:77`) | On Windows the fields become read-only only if they are disabled, which with authentication on means only while closing. |
| `window_win_iface` | a change of the locked list is taken back (`window.go:459`) | It is set to `savedIfaceIndex`, which is 0 until the user chooses, not the restored interface. |

Smaller disagreements met on the way, with no run of their own:

* `proxy-lifecycle.md:80` says that client and target sockets stay in the registry until the tunnel is closed or Stop
  is called. Only the client's is there; the target's is closed by goproxy when both copies have ended. A target that
  neither reads nor ends keeps its socket and two goroutines after Stop.
* A refused configuration goes from Stopped straight to Error, while the flow document shows Starting in between.
* While the keyring answers after a Start the button says stop, is enabled and is ignored.
* The warning about the keyring is evaluated once, when a window is created.
* On Windows a theme chosen while the window closes is shown and not saved.

## 4. Proofs

All theorems hold for any sets of connections, goroutines, pairs, files, systems and addresses, under the named
assumptions of the modules: finite sets of connections; values such as `NoConn` outside the sets they stand beside; a
system that reports finitely many devices and addresses and gives each device an index of its own (`SystemsKnown`); a file in
which a name is a name and a check mark is one or none (`OldFilesKnown`, which is what `Load` makes of any text); at
least one close dialog (`DialogsBounded`). With `ListenerIsGate`, `ServerKeepsContract` and `ServiceIsLifecycle` the three
refinements of the chain in section 2 are proved. Every safety property that a passing run checks is stated by a theorem.

**Nobody waits in vain.** Liveness rests on fairness and ENABLED and is out of the prover's reach, but half of it is safety: who
waits, waits for something that is there and can go on. Each component has that half as an invariant, stated in its proof
module and checked by TLC on the instances of section 3 before it was proved: `SlotsCome`, `WaitsForSomebody` with
`Channels`, `InCharge`, `SomebodyIsAtIt`, and for the tunnel `Halves`. What is left to the liveness runs is that goroutines
that can run do.

**ManagedListenerProofs.** `IndType` strengthens the type invariant with what the acceptor's place says about the
connection in its hand (`HandOK`: it has one exactly while it inspects it, and a connection about to be registered
has passed the filter) and with `RegistryExact` (a connection is in the registry exactly between hand-over and
unregistration). Without them neither `Unregister` nor `CloseSocket` preserves the types. On top of it:

* `CapacityCorrect`: `tokens` is the cardinality of the set of holders. A step moves one element into or out of that
  set, or exchanges the acceptor's slot for the connection's. It also shows that a release never blocks.
* `SocketsBoundedCorrect` follows, as the open sockets inject into the holders.
* `NoLeak`, `NoAdmissionCorrect`: an open socket is in the acceptor's hand or the registry; the registry only shrinks once `closed`.
* `LateSweepCorrect` needs the strengthening that a sweep begun after `Close` has in `sweepLeft`, or at `sweepAt`, every
  connection not yet closed, which holds because nothing is admitted any more.
* `ClientsCorrect`: the count of a source is the cardinality of its registered connections (`CountsKnown`), which
  `Register` and `Unregister` change by the one element they move.
* `ListenerIsGate`: every step is an AcceptGate step or a stutter, from the invariants above.
* `NobodyBlocks`: a release finds a slot, on every path; a full listener is full of connections that can end.

**TunnelProofs.** `IInv` ties flag, socket and reader together: `FlagPlace` says what the flag is at each place of the
server, `TimerFollows` that socket and flag agree unless somebody is between the two, and that who refreshes has seen a
flag that is still the flag. `ReaderPlace` says when a Read can be under way at all: whoever clears a deadline does so when
nobody reads, which is what makes the second half of `SetReadDeadline`, outside the mutex, harmless. From it
`ReadsAreTimedCorrect`, `AbortWakesReadCorrect` and `HalfCloseCorrect`. `NoSocketForgotten` follows both sockets through the
half closes: the target's, which is in no registry, is open only inside a tunnel.

**ProxyServerProofs.** A stopped server is quiet because of the order of the shutdown, and `Descent` states that order:
what each place of the one caller in `shutdown` (`One`) has achieved for good. The gate is shut before the port is awaited,
the accept loop is over before the registry is swept, and so nothing comes after the sweep. `Starts` and `Serving` are what
a Start and the goroutine `serve` contribute, `Stopped` is what remains. From it `OneShutdownCorrect`,
`StoppedIsQuietCorrect`, `CleanStopCorrect`, `VerdictCorrect` (what `failed` says at the end of the shutdown is what every waiter is told) and `ServerKeepsContract`. `ChannelsCorrect` says that `startDone`
and `stopDone` follow the state and are closed once, by one who finds them open (in Go a second close ends the program);
with `Presence`, who is there to close them, it gives `NobodyWaitsInVain`: a Stop that waits has been overtaken by what it
waits for or waits for a goroutine that is there, and the one that serves is not held up by peers once the gate is shut.

**ProxyServiceProofs.** `IInv` is the type invariant (with: the holder of the mutex is the one caller inside a command)
and `Knowledge`: `Rest` holds whenever the mutex is free, and `HolderKnows` says, for each place of the holder, what the
snapshot says and in which phase the server is. The published state runs ahead of the server in a Start and behind it
in a Stop, never the other way round, so quiet is never shown too early. From it: `AtRestCorrect`, `QuietCorrect`,
`StopCorrect`, `StoreKept` (the keyring changes only after a success), `StoreFollows` (a caller about to persist still
holds the pair that is expected), `ServiceIsLifecycle` (the service implements ProxyLifecycle) and `SomebodyInCharge`
(Starting and Stopping are shown only while a caller is inside the call that ends them).

**OrderProofs.** `InOrderIsSorted`: for a strict order on a finite set `InOrder` has every element once, in order. That
every place has an element would need an induction if the sort were recursive. Here the number of elements before one is an
injection of the set into as many numbers, and takes each of them by the theorem on injections between finite sets
of one size. The existence of a first position (`MinIsFirst`) comes from the well-foundedness of the naturals.

**SettingsProofs.** `DiscoverInterfacesCorrect`: the list has every private IPv4 address of an eligible device once, by
index, address and prefix. `LoadSaved`: what Save has written, Load reads back. `RestoredFormIsValid`: whatever a file says,
the form made of it can be started, if there is an interface and, where one is wanted, a pair.

**AppWindowProofs.** What the window answers depends on two facts that the code nowhere states: `Commands`, that
`inFlight` names the one command under way, and `ShownIsOld`, that a state Stopped or Error that was polled is still true, since
only such a command ends it. `Mutex` relates the holder of `operationMutex` to the state it has made, and `Closes` says what
a close finds when its Stop has returned. `Kept` adds that the form agrees with what a Start has captured and with what is
served, as every handler that changes it is shut out while a command is under way. From them `OneCommandCorrect`, `ShownQuietCorrect`,
`ExitCorrect`, `NoSilentExitCorrect`, `ServedShownCorrect` and `NobodyWaitsInVain`.

What an exit writes was captured earlier, when the close was requested. `Captures` says that it is not outdated: what the
dialogs hold is the form as it is, since a dialog keeps the user from the form; what a confirmed close has taken with it
agrees with the form (`Agrees`: in port and check box, on Linux and macOS in everything), since the form is locked while
closing; and so does, once the window is gone, a file that could be written. `Stable` is what a step must leave alone for
that. `RestoredCorrect` follows through Save, Load, the restored name and the window's own list; `LaunchIsUsableCorrect`
needs `RestoredFormIsValid` only. `TypeCorrect` shows that the two indices point into the list and the port of the form is a
number, whatever a hand-edited file said.

**ForwardProxyProofs.** `Dialer` says what is open at each place of the dial, `Handler` what the client has been told at each
stage and that no request passes unless it is `Granted`, `Fields` which header fields have gone either way. `AuthenticateExact`
is about sequences: cutting at the first colon yields the configured pair exactly for the sequence made of it, if the
user name has no colon. From them `NothingLeftOpenCorrect`, `ChallengedCorrect`, `OnlyServedCorrect`, `HopByHopCorrect`.
`AllowedAddressesCorrect` says what the filter makes of an answer of any length: exactly its allowed addresses, unmapped,
each once, IPv4 first. `Tries` adds that what was tried and what is left make up that list. From them `OnlyAllowedCorrect`,
`EveryTriedCorrect` and `TypeCorrect`.

Only model-checked is liveness: `CloseFreesServe`, `StopReturns` (of server and service), `ComesToRest`, `ClickEnds`,
`ConfirmedCloses`, `SlotComesBack` and `StopEndsTunnel`. It rests on fairness and ENABLED, which the prover does not handle.

## 5. What is not modelled

* The connection pool of `http.Transport` (a second request to a host may reuse a connection that passed the policy), and a dial
  that goes on after its request was abandoned: library code. Of a tunnel's bytes only that they are there; those that goproxy's
  hijack finds already buffered are in neither copy, in the library as in the model.
* The encoding of the pair in the keyring as one string: exact for single lines, and both windows have no other fields.
* `net/http`'s and goproxy's timeouts of the write side: nobody in the program sets a write deadline, so that `Write` differs
  from `Read` only in that its idle refresh always takes place. It appears as a write to the client that may fail.
* On Windows, what a modal message box lets through while it is up (timer messages are, further close requests are not): the
  model lets `Refresh` run behind a dialog or a message and keeps everything else away. The message about a refused form or a failed
  command is not a state of its own: no action waits for it, as `inFlight` is cleared before it is shown and the timer drains
  further results behind it.
* Drawing, colours, texts, clipboard, tooltips, the password's visibility, entry points: no state a property is about.
  `NewServer`'s options and the constructors' nil checks guard against callers the program does not have.
* An `inner.Accept` that returns a connection together with an error (`listener.go:69-71` closes it): no listener of the standard
  library does.
* Real time. A timeout is a step that may happen at any moment.

What is left of the repository is drawing, wiring and library code; of the core logic every operation that changes state
is an action of a module.

## 6. Order of construction, and where to extend

The modules were built from the inside out: listener, server, service, windows, requests, then settings and tunnels.
`ProxyServer` is the module to extend if a supervised `serve` is ever added; a server that reports its own death would turn
`RunningIsReachable` from a finding into a property. `AppWindow` is the one to extend if a window recorded the interface it
restores (`savedIface` in `LaunchOn`) or honoured `CredentialsReadOnly` on Windows: `ServedInterfaceShown` and
`ServedPairShown` would then hold for both toolkits, and `Fyne =>` could go from `ServedShown`. `Tunnel` would lose `polite` if
the target's sockets were registered as the flow document says.
