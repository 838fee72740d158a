# A TLA+ model of RatholePro

RatholePro is a reverse tunnel: a client behind a NAT dials a public server, and
visitors of the server's ports are relayed through that connection to services
in the client's network. This directory models the Go program under
`src/go-core` (paths below are relative to that), checks the models with TLC on
small instances and proves the most important properties with TLAPS.

## 1. The system

| Component | State it keeps | Operations | What makes it correct |
|---|---|---|---|
| **Session pool** (`server/server.go` 17-80) | a slice of yamux sessions, under a mutex | `add`, `pick` (pops dead sessions, rotates a live one), `remove` | no session twice, none lost while it lives, round robin |
| **Control plane, server** (`server/server.go` 82-331) | pools per service; a goroutine per connection and per visitor | accept loop with the transport upgrade in it, `handleClientConn`, `handleVisitor` | only authenticated sessions in a pool, and in the right one; nobody can hold up everybody |
| **Control plane, client** (`client/client.go`) | `mux_connections` worker goroutines per service | dial, upgrade, `authenticate`, serve, sleep, retry | one connection per worker; it always comes back |
| **Control protocol** (`protocol/protocol.go`) | none | `WriteMessage`, `ReadMessage`, `HashToken` | messages arrive whole and take no byte of what follows |
| **Relay** (`relay/relay.go`, `handleTCPStream`) | two goroutines at each end of a stream | copy, half-close, close | nothing lost or cut short, ends are passed on, nothing left behind |
| **UDP forwarding** (`udp/udp.go`, the UDP goroutine of `Run`) | map of visitors; a stream | frames with address keys, expiry, retry | requests and answers get through, service survives its sessions |
| **Transports** (`transport/`) | tcp, tls; `NoiseConn`; `WSConn` with a read buffer | dial, listen, handshakes, framing | the connection is a stream of bytes |
| **Automatic certificates** (`transport/autocert.go`) | two files | `EnsureCert`, `ListenTLS` | certificate and key match, also after a crash, and a server that is started comes up |
| **Heartbeat** (`heartbeat/`) | a monitor's two channels under one `sync.Once` | `Monitor`, `Stop`, `ServerHeartbeat`, `ClientHeartbeat` | a peer that is gone is reported; every goroutine ends |
| **Load balancer** (`loadbalancer/`) | an index and a counter per back end, all atomic | `Next` (three strategies), `Connect`, `Release` | counters are exact, back ends in turn, no panic |
| **P2P** (`p2p/`) | a socket, an announced address | `STUNDiscover`, `ExchangeAndPunch` | success means that a hole exists |
| **HTTP proxy** (`httpproxy/`) | two connections and two goroutines | `handleHTTPProxy`, `HandleCONNECT`, `ForwardRequest` | nothing lost, ends passed on |
| **Configuration**, **main**, **install.sh**, release workflow | files and flags | start-up | |

How they interact: a worker's connection passes through the transport's
handshake (inside the server's accept loop), then one `Auth`/`AuthResp`
exchange, and from then on belongs to yamux on both sides. The server puts the
session into the pool of the service; handlers of visitors pick sessions from
the pool and open a stream, the worker accepts it and both sides start a relay.
yamux closes sessions whenever it likes, and tells nobody but who asks.
`heartbeat`, `loadbalancer`, `p2p` and `httpproxy` are packages that neither
`main.go` nor another package calls; they are modelled as libraries, used the
way their exported functions allow.

What is hard to test here: the gap between `pick` and `Open`; sessions that are
dead and still listed; answers that are written before the session is
registered; connections of yesterday that only one side knows to be dead;
restarts; a step of the accept loop that waits for a stranger; two relays that
wait for each other; goroutines that are not told that their partner has
returned; frames and reads whose sizes do not line up; a kill between the two
certificate files; counters that are read one by one; a stop that meets a
failure; a NAT that gives another port than expected. The list with source
lines is in PROJECT.json (`hazards`), each with the properties that cover it, or
with the reason why none does.

## 2. The modules

    PoolOps ── SessionPool ── FairPool ──(implements)── Dispatcher
       │            │             └── FairPoolProofs (with PoolOpsProofs)
       │            └─(every pool is one)─┐
       ├── Tunnel ──────────────── TunnelPools
       │     └── TunnelProofs ── TunnelPoolsProofs (with TunnelPools)
       └── UdpForward ── UdpForwardProofs
    Framing ── FramingProofs
    Relay, HttpProxy ── CopierProofs ── PackageProofs
    AutoCert, LoadBalancer, Heartbeat, HolePunch ─┘

* **PoolOps** - the pool's list operations as operators on sequences, with the
  argument why `pick`'s loop is one atomic step although sessions close while it
  runs. Used by every module with a pool; `sessionPool` and `udpPool` have the
  same code.
* **SessionPool** - one pool with the goroutines around it. `held[h]` is the
  session between a handler's `pick()` and its `Open()`. A session that nobody
  refers to may come back as a new one, so a small set stands for any number.
* **FairPool** adds two history variables (who was picked since when; the last
  answer); **Dispatcher** is the promise to visitors, without lists or dead
  sessions: a fair choice among the ready ones. `ImplementsDispatcher` is the
  refinement: ready = listed and not closed.
* **Tunnel** - workers, accept loop, client handlers and visitor handlers of any
  number of TCP services, over any transport. `wpc`, `hpc`, `vpc` are where a
  goroutine blocks; each action runs to the next place where the code waits or
  another goroutine could interfere. Correspondence in brief:
  `Dial`..`LosesConnection` = `client.Run`/`runTCPSession`/`authenticate`;
  `Accept`, `AcceptAndUpgrade`, `UpgradeDone`, `UpgradeFails` = the loop in
  `server.Run` with `applyServerTransport`; `NoAuth`..`HandlerReturns` =
  `handleClientConn`; `VisitorArrives`..`RelayEnds` = `acceptVisitors` and
  `handleVisitor`. **TunnelPools** maps every pool of it to a SessionPool.
* **UdpForward** - one UDP service: the server's runner goroutine with
  `ServerUDP`, and workers with both loops of `ClientUDP`. `Connects` abstracts
  what Tunnel has in detail.
* **Relay** - one relayed connection from visitor to local service: three
  buffers and two copying goroutines per direction, half-closes, resets.
* **Framing** - one direction of a connection below yamux: `WriteMessage`'s two
  writes and then yamux's, framed by `NoiseConn` or `WSConn`, and read by
  `ReadMessage` and then through yamux's buffer.

* **AutoCert** - the start of a server with `auto_cert`: `UseExisting` and
  `GenerateSelfSigned` are the two ways through `EnsureCert`; opening and filling
  each of the two files is a step of its own (`OpenCert`, `EncodeCert`,
  `OpenKey`, `EncodeKey`), and the process may be killed, or fail to write,
  between any two; `ListenTLS` loads the pair or ends the process. Days may pass
  or not.
* **LoadBalancer** - callers inside `Connect`: `NextRoundRobin` and `NextRandom`
  are one atomic access; `ScanFirst` and `ScanNext` are the loop of `LeastConn`,
  a step per counter; `CountIn`, `DialBackend`, `DialBackendFails` and `Release`
  are the rest. `IndexValues` and `IntValues` are the widths of uint64 and int.
  The history variable `moves` counts, per caller, the changes of counters since
  its call began.
* **Heartbeat** - `Monitor` or `ServerHeartbeat` at one end (`pinger`, with the
  channels as flags and their shared `sync.Once`), `ClientHeartbeat` at the other
  (`responder`), a connection of limited capacity between them that may go
  silent before it is reset. The owner of the connection, which is outside of the
  package, reads the pongs or does not (`pongsRead`).
* **HolePunch** - `ExchangeAndPunch` at both peers: discover, announce, learn,
  then send a punch and wait for one. A NAT keeps port numbers or not; datagrams
  get lost, overtake each other and come from strangers.
* **HttpProxy** - one connection: `ReadRequest` through a `bufio.Reader` which
  takes in more than the header, then `HandleCONNECT` with a goroutine per
  direction (`up`, `down`) or `ForwardRequest`, which collects the answer. Every
  way out but HandleCONNECT's own writes what there is to write (`Leave`) and
  closes the connection in a later step (`CloseConnection`, the deferred Close),
  so that a client may get a part of what was written before a reset.
* **MCPackages** - these five, Relay and Framing do not call one another; one run
  checks them all, with a variable that says which of them runs.

The MC modules only give constants their values and, in MCPackages, choose the
package; MCFraming and MCAutoCert are for the two of them that also have a run
of their own. PROJECT.json's `map` has the
source lines of every definition. Operators named `Mutant...` are not part of
any specification: each is a plausible bug, which the property named for it in
PROJECT.json must detect.

Abstractions that a reader should know of:

* A connection that broke need not be noticed at once by either side, and what
  was sent before may or may not still be read. The end of a client process is
  such a break, as seen by everybody else. A failed dial and the sleep before a
  retry change nothing, so they are stuttering steps.
* `Owner` fixes which peer uses an identifier. Connections are not bounded by
  it: an identifier stands for a new connection once nobody refers to it.
* `Open` succeeds on a session whose link is down as long as the server's yamux
  has not noticed, as in the code.
* The handshake of tls is part of the client's dial; the server does its part in
  the handler's first read, not in the accept loop.
* After a failed noise upgrade nobody closes the connection; it is broken then.
* SHA-256 is an injective function. JSON, logging, base64 and the keys are left
  out.
* In Relay, `Window` is the size of a TCP or yamux buffer in bytes; in Framing
  the sizes keep the order they have in the code.
* A kill is that of a process: what was written is still there. The loss of
  power before the data is on the disk is not modelled.
* In AutoCert, a running server looks at no date, as in the code
  (`transport.go:60`): it serves an expired certificate until it is restarted.
* In HttpProxy each piece of data is what one `Write` sends; flow control is
  left out, as each direction has a goroutine of its own.
* In Framing, the server is not pinged (`Pinged`): a masked ping is misread by
  `readFrame`, which reads no mask key, and `WSTransparent` fails with
  `Pinged = {"server"}`.
* In Heartbeat, a client that is able to read or to write is taken to do so
  within the five seconds of a `Monitor`'s write deadline (`ClientReads`). What
  makes a write fail is then a connection whose far end is gone, hung, or stuck
  in a write itself.

## 3. The runs

Passing:

| Run | Question | Bounds, and why they suffice |
|---|---|---|
| `fairpool` | Is the pool a fair dispatcher? | four sessions, two handlers, no other bound: enough for a removal in the middle of a list while another handler holds a session, and for re-use |
| `tunnel_safety` | Who gets into which pool, and is anybody forgotten? | two services (own token, default token), three workers (one with another service's token), one of them with two connections, two failures or restarts, three transports |
| `tunnel_live` | Does everybody get back in, over tls? | a good worker with two connections, one without a token, a mute peer, one failure |
| `udp` | Does the UDP service survive? | two workers, three sessions, one failed bind, one failure, two datagrams |
| `packages` | Does each of the seven packages do what it promises? | see below |

Bounds of `packages`:

| Package | Bounds |
|---|---|
| autocert | a certificate is good for four days and renewed two days before its end; three kills or write errors: one in the first generation, one in its repetition, one in a renewal |
| loadbalancer | three callers, three back ends, all strategies: while one scans, the two others may change the counters before and behind it; integers of three bits, so that the index wraps and the int becomes negative (which is the panic: the run stops there) |
| heartbeat | both senders, two messages in flight each way, two calls of `Stop`, pongs are read or not |
| p2p | two peers, all four choices of NATs, two attempts, two datagrams of strangers: fewer attempts than datagrams that may arrive |
| httpproxy | `CONNECT` and others, clients that wait for the answer and clients that do not, two pieces each way behind the header |
| relay | two bytes each way through buffers of one byte: every writer has to wait |
| framing | noise and WebSocket, both directions; frames below, at and above the reader's buffer, a control message and frames behind it, fourteen bytes in all, two pings |

The properties, beside one type invariant per module (`TypesOK` for six of the packages,
`FRTypeOK` for framing):

* `NoDuplicates`, `QueueOrder`, `OnlyDeadLeave`, `ImplementsDispatcher` - the pool.
* `PoolAuthenticated`, `RightService` - sessions and visitors are only ever
  where a token took them.
* `ClientsAreAvailable` - a client that takes itself for connected, over a link
  that works, is in its pool or about to be.
* `PoolsAreSessionPools` - what holds of SessionPool holds of each pool of the tunnel.
* `OneLinkEach` - no error path of a worker leaves a connection open.
* `Reconnects`, `VisitorsGetThrough` - recovery after the failures stop.
* `NoSessionAbandoned`, `StaysInService`, `RequestsGetThrough` - UDP.
* `EOFMeansAll`, `BytesArrive`, `TornDown` - the relay.
* `WSTransparent`, `WSDelivers`, `ControlIntact` - the framing. `WSDelivers`: if
  the writer pauses for good, the reader ends up with all that was written.
* `PairUnlessInterrupted`, `ListensUnlessHalfRenewed` - certificates: only a
  generation that was cut off leaves files that do not fit, and a server that is
  started listens without a day going by, unless what was cut off has left a new
  certificate with an old or a torn key. That this one state has no way out is
  the run `cert_recovers`.
* `CountsMatch`, `LeastChosen`, `InTurn` - the load balancer. `LeastChosen`: the
  back end that is chosen has at most as many connections more than any other as
  counters have changed since the call began. The bound is tight: two callers
  that scan at once choose the same back end. `InTurn` is about indices that fit
  into an int; the panic of the first one that does not is in the model, and no
  property excludes it.
* `ClosedOnce`, `MonitorNotices`, `ResponderEnds` - the heartbeat. Where nobody
  reads pongs, and nothing in the package does, they fill the connection: the
  responder may then stay in its write, which `ResponderEnds` names as the one
  exception, and a peer that runs is reported dead, which the run reaches and no
  property excludes.
* `SuccessIsReal` - a peer that reports success shares a hole with its partner;
  that the partner succeeds as well is not promised, and not so.
* `OnlyBufferedLost`, `EndMeansWhole`, `HalfClosePasses` - the HTTP proxy. The
  data that a client sends right behind its `CONNECT` may be lost in the header's
  reader, and no more than that. A client that sees an end has all that the
  target sent, where a pause of five seconds counts as the target's end, as in
  the code; a target's reset looks like an end as well, and leaves the client
  with a beginning of the answer, without gaps, or with a 502. A client whose own
  connection is reset (because it sent a body, say) is told nothing.

Runs that show where the code does not do what its comments or the README of the
repository say (PROJECT.json, `findings`, quotes them):

| Run | Violated | Because |
|---|---|---|
| `tunnel_blocked` | `Reconnects` | the upgrade waits for the peer inside the accept loop, without a deadline (`server.go:168`) |
| `udp_waits` | `WaitsForSession` | the runner blocks for ever instead of retrying (`server.go:134`) |
| `udp_answers` | `AnswersDelivered` | answers carry an empty key that no visitor has (`udp.go:113`, `178`) |
| `udp_reconnect` | `WorkersReconnect` | the worker waits for the local service after the stream is gone (`udp.go:173`) |
| `relay_eof` | `EOFArrives` | only a TCP connection is half-closed, a yamux stream is not (`relay.go:17`) |
| `cert_recovers` | `ListensAgain` | a kill between certificate and key leaves files that `EnsureCert` takes and `ListenTLS` cannot load, at every restart (`autocert.go:66`, `144`) |
| `framing_noise` | `NoiseTransparent` | what does not fit into the caller's buffer is dropped (`noise.go:129`) |

Deadlock checking is off where the system may stop: UdpForward (the runner
blocks for ever), and the packages (a server listens, a caller has panicked, a
heartbeat has ended, a peer has failed, a connection is over, all is written).

Where a comment says something else and no run refutes it, because it is no
property of the states: `ServerHeartbeat` is said to expect pongs and to end at
a timeout, and has no read and no deadline (`heartbeat.go`); the socket for the
punches is said to use STUN's port and uses the number of the external port
(`p2p.go:151`); `ForwardRequest` forwards the header of a request only.

Fairness. Every goroutine that can take a step takes one eventually: Go's
scheduler. Sessions on dead links are closed eventually: yamux's keepalive, on
by default in `DefaultConfig`. An accepted stream that nobody serves and a
half-closed stream end by yamux's timeouts. In Relay an end reads what it gets
and hangs up some time after it saw the other hang up. In UdpForward the local
service answers. In AutoCert, systemd starts the server again (`Restart=always`
in install.sh), but no day has to pass: a server that comes back when a
certificate of three years runs out has not recovered; in Heartbeat both goroutines run, the monitor's
`select` takes a closed channel some time, an owner that reads pongs goes on
reading, and TCP gives up on a connection that carries nothing; in HttpProxy the
proxy's goroutines run, and the two ends do what they like; in Framing the
reader reads on. Nothing is assumed
of visitors, idle peers, the network, failed
binds or restarts, which are bounded by counters (`MaxDrops`, `MaxBindFails`,
`MaxSent`, `MaxBytes`, `MaxWritten`, `MaxPings`, `MaxKills`, `MaxStops`,
`MaxStrange`, `MaxPieces`); liveness is about what comes
after them.

## 4. What is proved

TLAPS checks, for every value of the constants that satisfies the modules'
assumptions:

* **FairPoolProofs**: `TypeCorrect`, `PoolHasNoDuplicates`, `PoolIsAQueue`,
  `LiveSessionsStay`, `PoolIsADispatcher`. The lemmas about `Rotated`, `Without`
  and `Removed` are in PoolOpsProofs. `QueueOrder` alone is not inductive: a
  session added at the tail must not have been picked before anybody in front of
  it, which is why `HAdd` forgets the past of an identifier, and duplicates would
  break the order, so the invariant is types, `NoDuplicates` and `QueueOrder`
  together. With it, a pick of the first live session is exactly a fair choice
  of Dispatcher, and every other step is a registration, a withdrawal or a stutter.
* **TunnelProofs**: `TypeCorrect`, with one step per action, `PoolsAreAuthenticated` and
  `VisitorsReachTheirService`. A pool's content depends on what a handler
  remembers (`hsvc`), which depends on what was in flight when it read it, which
  depends on who owns the connection. Hence the inductive invariant: types; an
  `Auth` in `toServer[c]` was written by c's owner with its own service and token
  (`Credentials`); a handler that is past the check serves a connection
  authenticated for its service (`HandlersAuthenticated`); and the two
  properties. The one property of SHA-256 that is used is that equal hashes mean
  equal tokens.

* **TunnelPoolsProofs**: `WorkersHaveOneLink` (`OneLinkEach`) and
  `ConnectedMeansAvailable` (`ClientsAreAvailable`). Both are about who refers to
  a connection. To the invariant of TunnelProofs they add `Links` (a
  connection that is up is its owner's current one, and a worker that dials has
  none), `Waiting` (a connection waits once for the accept loop, which starts
  its one handler) and `Answered` (once the server has said yes on a connection
  that is up, read or not, its session is open and in the pool of the worker's
  service, or its handler is at the `add`). `ClientsAreAvailable` alone is not
  inductive, as the answer is sent, and may be read, before the session is
  registered. And `EveryPoolIsASessionPool` (`PoolsAreSessionPools`), the
  refinement of each pool. Needed for the two steps that bring a session in: one
  whose connection still waits for the accept loop, the upgrade or the `add` is
  in no pool and held by no visitor (`NewToPools`), which rests on `Waiting`.
* **UdpForwardProofs**: `TypeCorrect` and `SessionsAreOwned`
  (`NoSessionAbandoned`). A worker remembers no session, and no goroutine of an
  earlier one runs, exactly while it connects (`WorkerHasSession`), so it cannot
  get a second one; and the runner has a session from its `pick()` to the end of
  `ServerUDP` (`RunnerHasSession`).
* **CopierProofs**, the two modules that copy between connections.
  `TypeCorrect`, `NothingIsLost` and `EOFIsNoTruncation` (`EOFMeansAll`) of Relay,
  for buffers of any size: while the stream is up every byte that was sent is with
  the reader or in one of the three buffers (`Conserved`); an end is written
  behind the last byte only, and a copy ends only when its input is empty and
  ended (`EndOrder`); the two goroutines at the local service start together,
  after the dial (`DialledOnce`). `ProxyTypes`, `OnlyTheBufferIsLost`
  (`OnlyBufferedLost`) and `EndMeansAllAnswered` (`EndMeansWhole`) of HttpProxy,
  for any number of pieces: what goes up is always numbered through from what the
  header's reader took in to what is still unread (`UpOrder`), what comes down
  from what the client has read to what the target has written, or to a beginning
  of it if the target's connection was reset (`DownOrder`), as long as the client
  is not reset; and what can be there at all before the dial, before
  the 200 and after the end (`Stages`), without which the two
  orders are not inductive: when the dial succeeds, or one direction ends, they
  say nothing yet of the queues that begin to count then.
* **FramingProofs**, under the hypothesis that no proxy pings the server, without
  which they are false (see `Pinged`):
  * `WSIsAStream` (`WSTransparent`), for all sizes of messages, frames and
    buffers and any number of pings. The wire is
    always cut into whole frames (`Framed`: the places where one begins, and how
    much data lies before each), and what was read, the read buffer and the data
    on the wire are together what was written (`WSInv`). A `Write` adds a
    whole frame (`AppendFramed`); `readFrame` takes one away, a ping as
    well as data, provided it has no mask key (`DropFramed`).
  * `TypeCorrect`. That an exact read never gets more than it wants follows from
    where writer and reader are (`Phases`: nothing is read before the header is
    written); that there are no more pongs than pings from the number of pings on
    the wire, of which `readFrame` takes one (`PingInv`). Over noise, whose
    length field may be too short for the frame, a header on the wire
    announces at most what follows it, and all of that is data (`NoiseShape`).
  * `ControlMessagesPass` (`ControlIntact`), also over noise: until it is read the
    control message lies on the wire as two whole frames, and the reader asks for
    the size of each (`NoiseControl`). The hypothesis `FitsNoise` says that header
    and payload are shorter than 2^16 bytes. It is needed: `WriteMessage` allows
    16 MB (`protocol.go:14`), and `NoiseConn.Write` keeps two bytes of the length. The
    messages of this program are a few short fields.
* **PackageProofs**: `FilesAreAPair` (for all periods and any number of kills),
  `CountersAreExact`, `LeastConnFindsLeast` (`LeastChosen`), `RoundRobinInTurn`
  (`InTurn`), `PunchedHolesAreReal` (a socket's address is settled before its
  first punch, so that whatever arrives from the announced address was sent
  there), and `TypesAreCorrect` (`TypesOK`) of the run of all the packages,
  through the lemma that a behaviour of that run is one of each package.
  `LeastConnFindsLeast`, for any number of callers and back ends, needs
  `ScanInv`: of every counter that the loop has been past, what it knows of the
  best one is off by at most the changes since; and `MovesCover`: whoever changes
  a counter adds to the `moves` of all that are looking. `RoundRobinInTurn`
  needs `TurnInv`: the last choice is the remainder of the last index, and an
  index that has outgrown an int gives a negative remainder and ends the process
  before the index can wrap to zero, where a turn would begin in its middle. This
  is why `LoadBalancerAssumption` says that an int has no more values than a
  uint64.

With these, every invariant and every action property of the passing runs but
`ClosedOnce` is a theorem, and so is each refinement. What is only model-checked is liveness
(`Reconnects`, `VisitorsGetThrough`, `StaysInService`, `RequestsGetThrough`,
`BytesArrive`, `TornDown`, `ListensUnlessHalfRenewed`, `MonitorNotices`, `ResponderEnds`,
`HalfClosePasses`, `WSDelivers`): fairness needs ENABLED, which is outside what
the prover can do. No module has a
RECURSIVE operator, and no statement about a recursively defined value for all
inputs is made, as induction over data is out of the prover's reach.

## 5. Not modelled

`main` (flags), the installer, the release workflow and the loading of the
configuration work once and sequentially, and keep no state. Within the modelled
files:

* start-up errors, the recovery from panics, JSON and the size, magic and
  version checks of the control protocol, the fields of certificates, STUN's
  message format, the syntax of HTTP;
* WebSocket close frames, masked pings to the server and frames above 16 MB;
  pongs that a proxy sends of its own accord, whose payload `readFrame` gives out
  as data (`wsframe.go:90-143`); the bytes that the upgrade's own reader may have taken in (`websocket.go:38`);
* the noise keys; a connection whose noise upgrade failed stays open at both
  ends (`server.go:185`): the model calls it broken;
* leaks of memory, goroutines or descriptors that no other behaviour depends on
  (`server.go:205`, `udp.go:54`), and a `ServerUDP` that goes on reading
  datagrams after its stream has failed (`udp.go:83`);
* a client whose service has another type than the server's (`client.go:135`);
* a load balancer without back ends, whose `Next` and `Connect` return an error
  (`loadbalancer.go:56`, `86`);
* a half-read address in the exchange of P2P is a failed exchange; punches that
  are still to come after a success are left to the caller (`p2p.go:142`).

The lines named here of `server.go` and `client.go` are also among the
`hazards` of PROJECT.json, without a property and with the reason.

## 6. Plan

Done, in this order: pools (PoolOps, SessionPool, FairPool, Dispatcher and their
proofs), control plane (Tunnel, TunnelPools, proofs), UDP, relay, framing; then
the packages AutoCert, LoadBalancer, Heartbeat, HolePunch and HttpProxy; then the
proofs about links, pools, UDP sessions, the relay, framing and the packages,
and those about the proxy, control messages, turns and the packages as one run.

What is left, most useful first:

1. The safety half of the liveness properties: what is never lost on the way
   (`WSDelivers`, `RequestsGetThrough`), as theorems of their own, like
   `NothingIsLost` for `BytesArrive`.
2. UDP and TCP services in one tunnel, with clients whose type differs from the
   server's.
