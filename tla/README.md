# LiteVPN: specification and verification

TLA+ models of LiteVPN (a point-to-point VPN: one server, one client at a time,
IP packets over QUIC), TLC runs that check them on small instances, and TLAPS
proofs of their main safety properties for every instance.

Source references are to `src/crates/`: "server" is `litevpn-server/src/main.rs`,
"client" is `litevpn-client/src/main.rs`, "quic.rs", "auth.rs" and so on are in
`litevpn-core/src/`; scripts are in `src/scripts/`. `PROJECT.json` maps every definition to its lines.

## The system

| Component | State | Operations | Hard part |
|---|---|---|---|
| Server session table (server 38-262) | slot `active`, id counter, one task per connection | accept, authenticate, take id, replace, close the displaced, pump, clean up | tasks interleave at every access to shared state; a task cleans up long after it lost the slot; restart |
| Tunnel set-up and pumps (server 218-261, client 243-298, quic.rs 274-383) | each end's phase, the connection, packets under way | open and accept streams, send, receive, end | everyone waiting on everyone; silent death of one end; mismatched configurations |
| Stream framing (quic.rs 385-472) | bytes written and not, bytes read and not | write a packet, read one | arbitrary fragmentation; end of stream inside a packet |
| Datagram backlog (quic.rs 137-211) | packets queued, last transmit counter read | count, refresh, wait | a counter that moves between reads; packets that never count |
| Egress pacer (quic.rs 20-135) | rate, epoch, bytes of the epoch | record, adjust, wait | rate change inside an epoch; idle time |
| Client run (client 92-350) | where the process is, attempt and run counters, its connection | check settings, dial with retries, authenticate, tunnel / probe / benchmarks | each side learns late that the other left; the server may finish what the client gave up |
| Authentication (auth.rs) | none beyond the exchange | request, answer | timeout on one side only; limits of the two sides differ |
| Configuration, command line, token file (config.rs, client 381-455, keygen) | none | validate | ranges at their boundaries |
| macOS routes (macos_routes.rs) | system routing table, `RouteGuard` | remove stale routes, install, remove | killed between any two commands, any command failing, another run at the same time |
| Benchmarks (server 267-630, client 457-872) | counters, deadlines on both sides | send, receive, report | two sides that agree only through timers |
| Switching scripts (`set-vpn-transport.sh`, `run-tun-smoke.sh`, `run-vpn-mode.sh`) | both configuration files, the service, WireGuard on both machines | switch, restore | failing half-way, signals, a remote shell that outlives its ssh |
| TLS, TUN, sockets, output, other scripts | none | set-up | - |

Interactions: the accept loop spawns a task per connection; tasks share the slot
(mutex) and the TUN device, and close each other's connections. Within a task the
two pumps run under one `select!`. The send pump calls backlog, then pacer. The
client's `main` owns the `RouteGuard` and the connection, and its pumps are the
other end of the server's. A benchmark takes the place of the pumps after
authentication and never touches the slot. The switching scripts edit what both
programs read at their start, and restart the server.

## Modules

| Module | Models | Composed with |
|---|---|---|
| `SingleClient` | what the server promises: one owner of the tunnel, newest first, the displaced one disconnected, nobody admitted twice | abstract; implemented by `Session` |
| `Session` | the server's tasks and slot | `INSTANCE SingleClient` |
| `Tunnel` | both ends of one session | |
| `Framing` | packets over a stream | the stream pumps of `Tunnel` in detail |
| `Backlog` | the datagram send loop and its cap | the datagram pump of `Tunnel` in detail |
| `Pacer` | the pacing of both send loops | `Backlog`'s `Pace` in detail |
| `ClientRoutes` | runs of the client against the routing table | the `up` phase of `Connect` in detail |
| `Settings` | what configuration, token file and command line must satisfy; the authentication request and its parsing | operators only, used by `Connect` |
| `Connect` | client processes from start to end, and the authentication exchange | `EXTENDS Settings`, `INSTANCE Session`: every server step is one of `Session`'s, guarded by what the client sent |
| `Switching` | the scripts that change transports and switch to WireGuard and back | produces the pairs of transports `Tunnel` starts from |
| `Bench` | one benchmark, both sides, with time | the `bench` phase of `Connect` in detail |
| `*Proofs` | theorems about `Session`, `Connect`, `Tunnel`, `Framing`, `Backlog`, `Pacer`, `ClientRoutes`, `Bench` | each extends the module it is about; `ConnectProofs` also instantiates `SessionProofs` |
| `MC*` | instances for TLC | |

How state corresponds to code:

- **Session.** `pc[t]` is the await or critical section where connection t's task
  is; `active` the mutex's content, one step per critical section as the lock is
  never held across an await; `clientId[t]` the task's `client_id` (0 for `None`);
  `previous[t]` the value `replace` returned, until its connection is closed;
  `conn[t]` the connection as the server sees it. A connection also closes when
  the last handle to it is dropped (`DropUnreferenced`), as quinn does. `Restart`
  is systemd's `Restart=always`.
- **Tunnel.** `pc[s]` is where each end is after authentication. `announced[s]` is
  quinn's rule that a stream becomes known to the peer with its first data.
- **Framing.** Bytes are digits of base `Base` (256 in the code), so that headers
  and packets are made of the same material.
- **Backlog.** `queued`, `transmitted` are the struct's counters, `sent` is quinn's
  counter less the baseline. Saturation of `queued` at 2^64 is out of reach. A packet
  that has become too large for the path between the check and `send_datagram_wait`
  ends the loop (`TooLarge`).
- **Pacer.** `elapsed` and `bytes` describe the epoch. Rates are whole numbers; the
  sleep until `target_time` is the condition it waits for, without the division.
  `clock`, `total` and `epochs` record the whole life of a pump for the properties; no
  action reads them.
- **ClientRoutes.** One step per `route` command. `purpose` is which of the five
  callers of `cleanup_routes` is running. `table` outlives the runs. `Refuse` is every
  return of `main` before it has looked at the table: a configuration that cannot be
  read or is not valid, an address that is none or not IPv4. The model is of a
  configuration with `route_all` and without `--no-routes`, on macOS.
- **Bench.** `pc[r]` is where each side's function is, `timer[r]` the deadline it
  has set, time is in ticks of 100 ms. `count` and the other amounts are packets where
  the code sends packets, as datagrams or framed, and bytes (the code's `bytes`) in the
  two unframed stream directions, where a write takes and a read returns any number of
  them; the `packets` these two directions print are numbers of calls and left out.
  `write_stream_packet` has no deadline; every other pending write ends at the
  deadline. `path` is `up`, `dead` (nothing arrives any more, and each side is told at
  its own time, `IdleTimeout` later at the latest), or `narrow` once
  `send_datagram_wait` has found that a datagram is too large for it (`TooLarge`). Tasks
  react within a tick.

- **Settings.** A request is its lines, each a sequence of words, and its size in
  bytes; a token is a word or several lines of words. Names and addresses are left
  out.
- **Connect.** `cpc[c]` is where process c is: in `connect_client` (`dial`,
  `connect`), in `client_authenticate_with_mode` (`auth`, `await`), or in what it
  authenticated for (`up`, `hold`, `bench`). `end[t]` is the client's view of
  connection t and `Session`'s `conn[t]` the server's; they close independently.
  `answer[t]` is what the server wrote; it can be read after the close that follows
  it, or be lost to it. `attempt` and `run` are the loop counters of
  `connect_client` and `run_bench_iterations`. `--bench-runs` is looked at only with
  `--bench` (`Runs`). The assumptions say what a start can be (numbers are natural, a
  token file has a line), that `MaxConns` is no limit to an accepted start, and that
  the server passed its own checks.
- **Switching.** One step per command that changes something. `shell` is the list of
  commands the current ssh still has to run at the server, `stray` that of an ssh
  that was cut. `loaded` is the transport the running server process has read, which
  is the file's only after a restart. `back` is where `run-vpn-mode.sh` goes on after
  its trap: a trap for INT or TERM that returns does not end the script. `trouble`
  records, for the properties alone, what the script cannot repair: a `stray` shell, a
  clean-up at the server that failed, was cut or came too early (`restore`), a
  `wg-quick down` there that failed behind `|| true` (`kept`), one that failed on the
  client (`local`), a signal before `LOCAL_WG_UP=1` (`race`). The scripts' pacing
  presets are left out.

The definitions marked "a mistake" next to a definition are plausible bugs of that
code; each property is checked to fail when the definition is replaced by one.

## Runs

| Run | Instance | Shows |
|---|---|---|
| `session` | 3 connections | `DisplacedIsBeingClosed`, `SlotHasLiveOwner`, `NoOrphanConnection`, `DisplacedEnds`, `ImplementsSingleClient` with fairness |
| `connect` | 2 processes, 3 connections, 8 pairs of invocations | `OnlyInvitedServed`, `LastConnectionServed`, `RequestUnderstood`, `StartupEnds`, `UpIsServedOrEnds`, `SlotIsFreed` |
| `switching` | every sequence of the scripts | `SwitchAgrees`, `SmokeRestores`, `WireguardIsGone` |
| `tunnel` | 4 pairs of transports, 2 packets each way | `MismatchIsDark`, `DatagramCarries`, `NobodyLeftBehind` |
| `tunnel_stream` | stream on both sides | **violated**: `StreamCarries` |
| `routes` | 3 consecutive runs of any kind, refused ones included | `ConnectsOutsideTunnel`, `ServerStaysReachable`, `PumpsFullyRouted`, `LeavesNoRoutes` |
| `routes_live` | 2 concurrent runs | **violated**: `LiveRoutesKept` |
| `backlog` | cap 2, buffer 4, 7 packets, 3 discards | `BacklogCapped`, `WaitEnds` |
| `pacer` | rates 5 to 10, packet 7, burst 9 | `SleepIsShort`, `KeepsToTarget` |
| `pacer_idle` | the same, not adaptive | **violated**: `BurstIsSmall` |
| `framing` | bytes 0/1, packets up to 4 bytes against a buffer of 2 | `PacketsIntact`, `CleanEndIsComplete`, `EveryPacketArrives` |
| `bench` | 1 s, up to 200 ms one-way delay, 2 packets or bytes, idle timeout 5.2 s | `SummaryReceived`, `CountsAddUp`, `BothEnd` |

What the violated properties show:

- **Stream mode never starts.** Server and client open their own stream, then wait
  for the peer's before writing anything (server 237-244, client 264-271). A stream
  is known to the peer only once data arrives on it, so both wait until the
  connection ends. The README of the repository offers the mode; its
  OPTIMIZATION_LOG says it was not run end to end.
- **A live tunnel loses its routes.** `cleanup_stale` cannot tell stale routes from
  those of a running client; any other run with `route_all` (a probe, a benchmark)
  removes them, and the running client does not notice.
- **The burst budget is not one after a pause.** The static pacer compares against
  the whole time since the pump started, so idle time accumulates as credit.

Other results worth knowing:

- A benchmark's summary is safe exactly while the one-way delay, retransmissions
  included, is under the 300 ms the server waits: with `MaxDelay = 3` TLC finds
  the summary cut off.
- A benchmark over datagrams fails on a connection that is up when a datagram no longer
  fits the path (OPTIMIZATION_LOG.md:25 and :138 record such runs); the other side then
  ends by the close of the connection, and `SummaryReceived` says that this and a dead
  path are the only causes of a failure.
- In the unframed stream benchmarks only `bytes` can be compared between the two sides;
  `packets` is how often each side called `write` or `read`.
- A client that is refused for its configuration leaves the routes of an earlier, killed
  run in the table, as it ends before `cleanup_stale`. `LeavesNoRoutes` is about runs
  that get that far.
- The adaptive pacer may exceed its target by a burst and a packet per rate change
  (`KeepsToTarget`); without that term TLC refutes the bound.
- `WaitEnds` has a premise: if more than `datagram_backlog_packets` datagrams are
  discarded by quinn in a session, the send pump waits for ever.
- Three kinds of request pass the client's checks and not the server's: a benchmark
  of duration 0, a token file of several lines, and a request of more than 1024
  bytes (`Defective` in `Connect`). The server drops them without an answer, so the
  client reports a lost connection; the exception is a token file whose second line
  has the form of a benchmark request, of which the server takes the second line for
  the request. `RequestUnderstood` says that exactly for the requests that are not
  defective the server reads what the client meant.
- A probe reports success at AUTH_OK, before the server has checked the capacity of
  the path and while it displaces the client being served. The displaced client
  ends (`UpIsServedOrEnds`).
- A process never displaces its own session (`LastConnectionServed`) because only
  connecting is retried: a client that authenticated and lost the answer gives up.
- The scripts keep their promises except in named cases. A remote shell that
  survives Ctrl-C can undo the restore of `run-tun-smoke.sh` or a later switch. A signal
  between `wg-quick up` and `LOCAL_WG_UP=1`, or SIGTERM while the first ssh of
  `--mode wireguard` runs, runs the clean-up too early: the script goes on, WireGuard is
  up on the client, and with `CLEANED_UP` set no later signal takes it down; a signal
  between the trap and that ssh leaves it up on the server in the same way. A failed
  restore is ignored (`|| true`), so `--mode off` says the server is restored when it may
  not be; and a `wg-quick down` that fails at the server is not even part of the status.
  Each of the properties is stated with exactly these exceptions, those of the client
  apart from those of the server.
- Mismatched transports do no damage and carry nothing (`MismatchIsDark`).

### Bounds

Every bound is a constant. In `Session`, three connections let a third client
displace the second while the second is still closing the first; its safety is
proved for any number. `Connect`'s pairs put a tunnel beside each other use of the
client (tunnel, probe, benchmark at the limits, wrong token, too many retries) and
have starts beyond each limit; one process has a second connection, for a retry or
a second benchmark run. Capacities lie below the smallest payload, below the MTU,
and above it. `Switching` is unbounded in scripts run, and has one stray shell at a
time. Three consecutive client runs let one run
find what a second left of a first's routes. `Framing` needs two packets to see the
reader lose its place, and a packet longer than the buffer. `Backlog` needs more
packets than the buffer and more discards than the cap. `Pacer`'s 18 ticks hold
six adjustments; time stops at `MaxTime`. In `Bench`, two packets let one be queued at
the deadline and one be under way, and two bytes let a write be split over two reads.
Its idle timeout of 52 ticks is longer than every other wait of the code, so that all
of them can end before it, as with the code's 30 s and 5 s; `MaxTime` is past the end
of every run (`AlwaysMoving`: `Duration + Second + Linger + IdleTimeout + Rest`). The
theorems hold for every value. Deadlock checking is off where the modelled activity ends by
itself (sessions, runs, benchmarks) or time stops at its bound; in `Session`,
`Connect` and `Switching` it is on.

### Fairness

- `Session`: weak fairness of each task's own steps. Handshake (QUIC's timeout),
  authentication (10 s) and benchmarks (`BothEnd`) end; tokio's mutex is fair; a
  closed connection fails the pending await. Nothing is assumed of clients: that
  streams get ready, pumps fail or peers leave is never required.
- `Tunnel`: tasks are polled, and a connection with a dead end times out (keep-alive
  5 s, idle timeout 30 s, crypto.rs:121-131). Packets are not required to arrive.
- `Backlog`: the loop is polled every 2 ms and a live connection transmits what it
  has buffered.
- `Framing`: both pumps are polled and QUIC delivers what was written.
- `Connect`: a process's waits end by a timeout (connecting), by the end of its
  connection (the answer, the tunnel) or by themselves (probe, benchmark, by
  `BothEnd`); tasks of the server run as in `Session`; a connection that one side has
  left ends on the other, by the close that was sent or by the idle timeout. A tunnel
  that is served need never end, and no message need arrive in time.
- `Switching`: none; its properties say how things are when a script has ended.
- `Bench`: time passes, timers fire, messages arrive within `MaxDelay` while the path is
  there, and a dead path is reported within `IdleTimeout` (30 s from the last packet,
  which the next keep-alive, up to 5 s later, starts anew: crypto.rs:121-131).

## Proofs

All with TLAPS, for every value of the constants that satisfies the modules'
assumptions (`NoConn` is not a connection; numbers are natural; a burst is at least
a packet, as `target_burst_bytes` makes it; those of `Connect` above). TLC evaluates
the assumptions on the instances, and has checked every inductive invariant on them
before it was proved.

- **SessionProofs.** `TypeCorrect`, `OneOwner`, `SlotOwned`, `NoOrphans`,
  `Refinement`. None of the three safety invariants is inductive alone: whether a
  clean-up clears the right slot depends on ids being distinct (`IdsDistinct`), which
  in turn needs every id in use to be below the counter (in `TypeOK`),
  whether a displaced session will be closed on the task that holds it not having
  returned (`PreviousHeld`, `DisplacedForGood`), and whether a drop closes a
  connection on where its handles are (`HandleKept`). `IInv` joins them, is
  preserved by every action, and gives the invariants; with it every step maps to
  a step of `SingleClient` or to a stutter. `Refinement` is the safety part of
  `ImplementsSingleClient`. `Inductive` and `TableRefines` are stated for
  `Init /\ [][Next]_vars`, without fairness, so that they also speak of the server
  inside `Connect`. Two step properties follow: `LostForGood`, no step gives the slot to
  a session that was displaced, has ended or was a benchmark, and `Undisturbed`, the
  only steps that take the slot from its owner or close the owner's connection are
  another task's entry, the owner's own clean-up, its peer and a restart; a late close
  of a displaced session never hits the session that has the slot by then.
- **ConnectProofs.** `ServerIsTable`: whatever the clients do, the server variables of
  `Connect` only take steps of `Session` (an action adds a guard to a step of the
  table or leaves it alone), so that the results of `SessionProofs` carry over:
  `OneTunnel`, the composition implements the safety of `SingleClient`, with any clients
  and any path.
  `TypeCorrect`, `OnlyInvited`, `LastConnection`, `Understanding`. What a server task
  does is separated by the network from why it may: `AskedOnce` and `AdmittedAsked`
  say that a connection whose task is past authentication carried a request, that of a
  process which had settled its mode (`ModeSettled`) after passing its checks
  (`StartChecked`); `DialedInOrder` that later connections are unused;
  `LockHasId` that only numbered tasks come near the slot. `Understanding` is the
  lemma that `ParseRequest` undoes `Request`, for every token and every mode within the
  client's limits, in both directions: a defective request is not understood.
  `NeverWaitsInVain` and `NeverUpUnserved` say in which states a client can be while it
  waits for its answer and while it believes its tunnel is up. They need both sides:
  `Ties` (the server holds an id, a handle or a task past authentication only for a
  connection it answered, and the client is past a phase only after the server's step)
  and, from `SessionProofs`, where the handles of an open connection are.
- **TunnelProofs.** `TypeCorrect`, `Dark`, `StreamNeverStarts`, `NothingMadeUp`. The
  inductive part is that an end whose mode is stream has announced nothing
  (`StreamSilent`), because announcing takes a pump and a pump takes the peer's
  announcement: the circular wait that `tunnel_stream` shows is there for every
  number of packets and every loss. `Accounted` and `GotByBoth` bound what is
  delivered by what was read at the other end. `CanNotice`: an end whose peer has left
  is at an await that fails on the closed connection, or the idle timeout is still to
  come; `DatagramWaitsForNobody`: in datagram mode no end waits for the other to start.
- **FramingProofs.** `TypeCorrect`, `Intact`, `CleanEnd`, for any base of the bytes, any
  packets and any fragmentation. `HeaderReadBack`: the two bytes of a header give the
  length back, for every length they can hold. The invariant `Framed` says that there
  are suffixes of the stream, one per packet not yet delivered, each a frame followed
  by the next suffix, and that the reader is at the first of them or inside its body;
  reading and writing a piece then are a cut and an extension of a concatenation.
  `NeverStarved`, by counting the bytes of the suffixes: while a written packet is not
  delivered, what the read in progress still needs is on the stream.
- **ClientRoutesProofs.** `TypeCorrect`, and `ConnectOutside`, `Reachable`, `FullyRouted`,
  `NothingLeft`, under the assumption `~Concurrent`, without which `routes_live`
  refutes what they rest on. `IInv` says what the table holds at each point of the
  latest run (`Outside`, `Deleting`, `Adding`, `Settled`) and that no earlier run
  is alive. `NothingLeft` is about the runs that got as far as `cleanup_stale`; one that
  was refused before (`Refuse`) changes nothing. `RoutesKept`: under the same assumption no step takes a route away while
  pumps run, so two runs at once are all there is to what `routes_live` finds.
- **BacklogProofs.** `TypeCorrect`, `Capped`. The cap is on the loop's estimate;
  that the true backlog obeys it needs the accounting of every datagram
  (`Accounted`) and that the copied counter is never ahead (`CounterLags`).
  `WaitsForSomething`: after at most `MaxBacklog` discards a loop that has to wait has a
  datagram in the buffer to wait for. `DiscardsStall`: after one more it waits until the
  connection is lost, so the condition in `WaitEnds` cannot be weakened.
- **PacerProofs.** `TypeCorrect`, `ShortSleep`, `LongRun`. The last is `KeepsToTarget`,
  about the whole life of a pump, not an epoch of it: the bytes sent stay below the
  target rate times the time, plus a burst and a packet for the start and for every
  rate change, and rate changes are `AdjustEvery` apart. The invariant has what the
  guard of `wait` gives, that a pump that may send is within the budget of its epoch
  (`WithinBudget`), and adds what earlier epochs have sent. The last term is not slack in
  the proof: TLC refutes the bound without it.
- **BenchProofs.** `TypeCorrect` from the conservation of packets and bytes (`Counted`),
  without an assumption on delays. `SummaryGetsThere` and `ReportsAddUp` under
  `MaxDelay < Linger`, for every duration and amount of data; with
  `MaxDelay = Linger` TLC refutes the first. `Refused` is the part of the invariant about
  a narrow path: the sender has failed, and the other side is on its way to the close. `Timely` gives each phase its place on the
  clock of the run: the client starts within one delay (`Starts`), a sender stops within
  two of the nominal end (`SendsInTime`), the end of a stream and its acknowledgement
  take one more each (`StreamEnds`), so that all of it is over before the server's
  extra second and the five-second waits (`ReadsInTime`), and the summary is read
  before the server stops lingering (`Lingers`). The slack is part of the result: four
  delays have to fit into the second by which the server reads longer.
  `TimeCanPass`, for every delay: what is urgent can be done (`CanAct` spells out the
  guards of `Progress`; on the instance TLC finds them equal to its `ENABLED`).
  `EndsInTime`, under `MaxDelay < Linger`: a benchmark is over `Second + Linger` after
  its duration as long as the path is there, also when a datagram was too large for it
  (TLC finds a behaviour that takes exactly that long), and when the path dies
  `IdleTimeout` and the client's `Rest` later (`Limit`).
  `AlwaysMoving` joins them, and shows that a `MaxTime` past that cuts nothing off.

Only model-checked: the liveness properties and the fairness part of the
refinement (temporal reasoning under fairness is beyond the prover; what most of them
rest on, that in every state where something is still to happen the step that brings it
about is possible, is proved as an invariant above), and `Switching`:
it has no constants, so TLC's run covers all of its behaviours and a proof would add
nothing.

## Not modelled

TLS set-up, TUN and socket creation, certificates (calls to libraries and the
operating system without state of their own); names, addresses and TOML syntax;
printing and averaging of benchmark results (floating point and formatting); the
test suite; the scripts that build, deploy, measure and summarise, which are
straight lines of commands.

## Plan

Order of work: the session table and its abstract specification, with proofs
(done); tunnel, routes, backlog, framing, pacer and benchmarks (done); settings,
connecting and authentication, composed with the session table, and the switching
scripts (done); proofs of every safety invariant of the parameterised modules (done);
step properties of the slot and the routes, the composed refinement, and the states the
liveness properties rest on, as theorems (done). Left, should the code change: what
its new steps disturb.
