# A TLA+ model of pyvpn

This directory models the VPN of this repository: a Python server and client
that perform a certificate handshake over UDP, hand out virtual addresses and
tunnel packets through tun devices. Paths below are relative to the repository
(`src/server.py`, `docs/...`); `PROJECT.json` gives the lines behind every
definition.

## The system

| part | state | operations | interacts with |
|---|---|---|---|
| replay window (`src/protocol/replay.py`) | `_highest`, the bitmap `_seen` | `check`, `reset` | called by `DataChannel.decrypt` for every DATA packet |
| control handshake (`src/protocol/control.py`) | a `Session`: ids, state, key, peer certificate, age | six handlers, one per message and side | called by server and client for every control datagram |
| address pool (`src/routing.py`, `IpPool`) | available set, two dictionaries | `allocate`, `release` | called by the server |
| server (`src/server.py`) | `clients`, `ip_to_addr`, the pool, kernel routes | datagram handlers, a main loop each second, `stop` | UDP, tun, `ip route`, iptables |
| client (`src/client.py`) | flags of the attempt, session, data channel, routes added | `run`, `_connect`, datagram handlers, `stop`, `_cleanup` | UDP, tun, `ip addr`, `ip route` |
| data channel (`src/protocol/data.py`) | packet counter, fragment groups, replay window | `encrypt`, `decrypt`, `cleanup_fragments` | tun callbacks and DATA datagrams |
| TCP transport (`src/protocol/framing.py` and both ends) | one handler task per connection | framing, connection loss | same handlers as UDP |
| TLS channel (`src/protocol/tls_channel.py`) | a lock around a stream | used by a test only | - |
| server lifecycle (`src/app.py`, `src/tun.py`, `src/routing.py`, `src/privileges.py`) | tun device, forwarding, NAT rules, user id | set up in `run`, taken down in `_cleanup` | kernel, other servers on the host |
| status file (`src/status.py`) | the file | `maybe_write`, `close` | called by the client |
| configuration, CLI (`src/config.py`, `src/cli.py`) | a `Config` | parsing, merging, validation | read by everything |
| Windows tun (`src/tun_windows.py`) | - | I/O | - |

Each process is one asyncio loop, so a callback, and the code between two
`await`s, is atomic. What is hard is between the processes and over time:
nothing is retransmitted, either side may be killed at any moment, datagrams
are lost, doubled and reordered, keepalive and handshake timeouts race with
late answers, signals arrive in the middle of a sleep, and an operation that
changes several tables and the kernel's routes can fail half-way. The list is
in `PROJECT.json` under `hazards`, each with the properties that cover it.

What makes each part correct:

- replay window: no id is accepted twice, no late one that fits is refused;
- handshake: both ends derive the same key and channel id, whatever is lost or
  repeated;
- pool and server: every address is in the pool or held by exactly one client,
  all tables and the routes say the same, silent clients are reclaimed;
- client: it stops when told, retries otherwise, and leaves no route and no
  stale status file behind;
- data channel: what leaves the tun device at one end entered it at the other,
  whole and once, and nothing is dropped without a cause;
- TCP: sessions and connections come and go together;
- lifecycle: a server keeps its NAT rule while it runs and takes it along;
- together: after a crash of either side they are connected again.

## Modules

    DedupWindow     <-- refined by -- ReplayWindow <- ReplayWindowProofs
    PacketDelivery  <-- refined by -- DataChannel  <- DataChannelProofs
                                      (extends ReplayWindow)
    AddressLease    <-- refined by -- VpnServer
    Control <- VpnServer (also IpPool)  <- VpnServerProofs
               VpnServer <- VpnServerTcp <- VpnServerTcpProofs
            <- VpnClient                <- VpnClientProofs
               VpnServer, VpnClient <- VpnTunnel <- VpnTunnelProofs
                                       (extends both ends' proofs)
    ServerHost                          <- ServerHostProofs

An `MC...` module instantiates each for TLC.

**ReplayWindow** is `replay.py`: the integer bitmap is the set of its one bits,
so a shift adds to every member. Each branch of `check` is an action.
**DedupWindow** is what it promises: a set of accepted ids and a verdict.

**DataChannel** is one direction of the data plane. A packet is a token and its
pieces are what `encrypt` cuts it into; `Encrypt` numbers them, `Decrypt` asks
the window and then reassembles, `Tick` is `cleanup_fragments`. The two tun
callbacks differ in what goes out (`ClientTunReadable`, `ServerTunReadable`).
Datagrams are delivered, lost, doubled, reordered and damaged; a damaged one
does not decrypt but its counter reaches the window first. `excused` records
which packets had a piece lost, late or overtaken, so that `Arrives` can demand
all others. **PacketDelivery** is what the channel promises: packets come out
whole, at most once, and only if they went in.

**Control** has a record for `Session` and one operator per handler, from the
session before to the session after, and the datagrams in flight. Session id
and ephemeral key are drawn together and are one token. A key is what the key
derivation is given (both ephemeral keys, both ids in the salt), so two keys
are equal exactly when the real ones are; a signature names its certificate and
what it covers. On the server, a message that raises while its handler parses
it leaves the session in ERROR (`ServerParseFails`); malformed datagrams to the
client are left out.

**IpPool** is the class of that name. `ReleaseAll` is `release` for a set of
clients, as the main loop calls it.

**VpnServer** has one action per kind of datagram in `handle_udp_data`, split
where the code branches: a reset from a new and a known address, CLIENT_HELLO,
CLIENT_FINISHED without effect, with an address, with the pool exhausted, other
traffic, and a datagram of an unknown address. Datagrams that do not parse are
among them: a HARD_RESET cut short raises after its session was stored
(`HandleResetRaises`), a CLIENT_HELLO or CLIENT_FINISHED ends in ERROR
(`HandleUnparsable`), and any other CONTROL datagram only refreshes `last_seen`
(`HandleTraffic`). `MainLoop` is one iteration of
`run`: `_cleanup_stale`, then `_send_keepalives`. `StopServer`, `ExitServer`,
`CrashServer` and `StartServer` are its life.

**AddressLease** is what the server promises of virtual addresses, with members
and a partial function instead of sessions, four tables and a pool: a member is
granted at most one address, the least nobody holds, and holds it exactly until
it leaves. The members are the keys of `clients` and the lease is `ip_to_addr`,
so a crash is all members leaving at once.

**VpnServerTcp** adds TCP mode: frames go through the same handlers, `Accept`
creates a session before any frame, and the `finally` of a connection's handler
(`HandlerEnds`) removes whatever session its address has. A connection that
`_remove_client` closed may have frames left in its buffer, and a HARD_RESET
among them makes a session anew. A frame on which `handle_udp_data` raises ends
the handler too. A connection may be `lost` before its handler
runs, which the `drain()` in `_send_keepalives` then meets
(`TcpMainLoopRaises`).

**VpnClient** follows the task through `run` and `_connect` with a program
counter: about to attempt, in the loop, sleeping between attempts, done or
failed. `LoopStops`, `LoopWaits` and `LoopTimesOut` are the three ways an
iteration goes; the `Recv...` actions are the branches of `handle_udp_data`.
`IP_ASSIGN` has two actions, since `set_ip` raises when the address is already
on the device. `status` is the address the status file shows, written at
intervals in the loop and at once on IP_ASSIGN. The two history variables only
serve properties.

**VpnTunnel** lets the two exchange real datagrams through the set `net`. A
scenario bounds, by kind, losses, duplications, crashes and stops. Three
constants say how kind the world is: `Prompt` (datagrams arrive within the
second), `QuickRestart` (a dead server is back within the second), `ReuseAddr`
(a new socket may appear under an address the server already knows).

**ServerHost** is the rest of a server process, from `main` to the end of
`run`, for several processes on one host. `pc` is the step of `run` that comes
next, and between any two steps another process may act, the process may be
killed, and the default route may change. The interface of the default route is
looked up in one step (`FindUplink`) and used in the next (`SetupNat`); the
calls that put the device up are one step (`SetIp`). `left` counts the rules
that processes left behind. Its
configuration is the port and the user: the file's values are checked, what the
command line overrides is not (`Accepted`, `Chosen`), so a start may fail as
late as at the bind, after `setup_nat`; after `--user` the bind of a privileged
port fails.

Time is discrete, in seconds of the main loops. Time stamps are kept as ages
that stop counting one past the largest value a comparison tells apart, which
loses nothing. A tick waits until the loops have taken their turn.

## Runs

Runs that pass:

| run | shows |
|---|---|
| `replay` | all orders of ids -1..7 on a window of 3: the bitmap is the history, and `check` implements DedupWindow |
| `data` | packets of one and two pieces, counters that run out, a window that is overtaken, groups that interleave and time out: `GroupsPure`, `ImplementsDelivery`, `Arrives`, `BuffersReclaimed` |
| `server` | two clients and one address, any datagrams in any order, right and wrong signatures, such as do not parse, stops and crashes: `TablesAgree`, `PoolConserved`, `RoutesMatch`; once its handshake has begun an entry is heard from again or removed (`SilentReclaimed`), and the handshake ends or goes with its entry, however often it is started over (`BegunHandshakesEnd`) |
| `tcp` | two connections that come, go and are lost at any point: `SessionsConnected`, `TablesAgree`, `PoolConserved`, `AddressKept`, and `ImplementsLease`: client table and `ip_to_addr` implement AddressLease |
| `client` | any well-formed datagrams, failing attempts, stops, kills: `ConnectedThisAttempt`, `RoutesTracked`, `StatusCurrent`, `NoEarlyTimeout`, `StopEndsAttempt` |
| `tunnel` | three scenarios, below: `ChannelsAgree`, `AddressesAgree`, `Reconnects`, `AutoReconnects`, `OnlyLiveSession` |
| `lifecycle` | two servers on one host, started, stopped, killed and failing at every step, two uplinks: `NatHeld`, `NoStrayRules` |

The scenarios of `tunnel`: the server dies anywhere and is back within the
second; the client dies or is stopped anywhere; two datagrams are lost and two
doubled anywhere.

Runs in which the code departs from its documentation (quotes in
`PROJECT.json`, `findings`):

| run | behaviour |
|---|---|
| `client_stop` | a stop during the sleep between attempts is overwritten by the next attempt |
| `outage` | a server down for longer than the client's timeout: the one reset is lost, and no timeout runs before the handshake is done |
| `reconfigure` | on reconnect the same address makes `set_ip` raise, and the routes are not added again |
| `downlink` | the server's tun callback calls the coroutine `_send_to` and nobody awaits it: no packet reaches a client. DataChannel starts where `_ipv4_dest` has found a client; it reads the bytes after the header instead of the destination, so that most packets do not get so far |
| `tcp_reset` | `drain()` on a connection that was lost a moment ago raises in the main loop and ends the server |

Further departures show in the model and have no run of their own:

- `AttemptRaises`: in UDP mode an exception of `create_datagram_endpoint` on a
  later attempt ends the client, which docs/ARCHITECTURE_AS_IS.md lets retry
  indefinitely.
- With `ReuseAddr`, a client that comes back under an address the server knows
  completes its handshake, but the server keeps the data channel of the old
  session (`AutoReconnects` fails).
- A HARD_RESET_CLIENT delivered a second time after the server restarted or
  removed the session makes a new one; the client takes its HARD_RESET_SERVER
  in any state and goes through a second handshake, but opens its data channel
  only once. Then the two ends hold different channels, and possibly different
  addresses (`ChannelsAgree`, `AddressesAgree` fail with a duplication and a
  crash of the server, or with a duplication and without `Prompt`). The
  theorems about them exclude exactly this (`SessionOnce`).
- With a pool of one address `AutoReconnects` fails too: a client that finishes
  its handshake while its dead session holds the last address never gets one,
  since `_assign_ip_to_client` is called once per data channel.
- After `--user` dropped root a client can neither set its address again nor
  delete its routes; docs/DEPLOYMENT.md calls the option safe on the client.
- A second server with the same device name takes the first one's device away.
- `--port` is not validated, unlike `port` in the file.
- A HARD_RESET_CLIENT shorter than its header raises after its session was
  stored (`src/server.py:310`, `HandleResetRaises`). The session stays in IDLE,
  which `is_expired` excludes, so no timeout removes it, though docs/BACKLOG.md
  lets `HANDSHAKE_TIMEOUT` clean up after every HARD_RESET_CLIENT. This is why
  `SilentReclaimed` and `BegunHandshakesEnd` speak of handshakes that have begun:
  with IDLE entries included TLC refutes both.
- `_seen` is never masked, so the bitmap outgrows the 64-packet window (the
  verdicts stay right).

**Bounds.** The window of 3 with 8 ids lets the window slide past its own
length and jump by more than it. In `data`, three packets need up to five
counters of four, so the last id is met in every order; a window of 2 can be
overtaken by one packet of two pieces, and a fragment timeout of 1 iteration
keeps in time and too late apart. The server needs two clients, so that they
compete for the one address of the pool, and one spare token for a new session
while both are in use; a keepalive interval and a keepalive timeout of 1 and a
handshake timeout of 0 iterations keep "before" and "after" apart. One of the
two clients sends whatever it likes; what the other sends parses and is signed
as it should be, but comes in any order too (`Sound`): both with anything at
all are a million states, on which the liveness properties take too long, and
the theorems are about any clients. In `tcp` a keepalive is due in every
iteration, and the pool of two lets a client be given a second address if the
code did so. The tunnel has one client that uses up to three addresses, hence
two dead sessions beside the live one, and timeouts of 1, 2 and 3 seconds in
the order of the defaults (10, 30 and 120 s). `lifecycle` lets an interface
collect three rules (`MaxRules`): two of living servers and one that a dead one
left. In `tcp` the two connections are symmetric, in `lifecycle` the processes
and the interfaces; neither has a liveness property. Sids (8 in the tunnel) are
reused once nothing refers to them, so their number bounds nothing; deadlock
checking, on in every run, would show a shortage.

**Environment.** `tunnel` assumes `Prompt` and gives each scenario one kind of
fault: a reset that is doubled and late, or doubled around a crash of the
server, makes a second session of one attempt (above), and a CLIENT_FINISHED
of the first then establishes one that has no key. For the two safety
properties the proofs need less, only `SessionOnce`: delays are arbitrary when
nothing is doubled, and losses, crashes, restarts and stops of both sides may be
combined; for liveness the runs keep `Prompt`. In `data` nothing is assumed:
datagrams stay in
flight as long as they like, and are excused when they do; one of them may be
damaged (`MaxDamaged`).

**Fairness.** Weak fairness of the main loops and of time: asyncio runs what is
ready and `sleep` ends. In the tunnel also of delivery (what is not counted as
lost arrives) and of the server's restart (a service manager); in the data
channel of arrival; in `tcp_reset` of the handlers that a lost connection
wakes. Crashes, losses and stops are never fair. `tcp` and `lifecycle` check
safety only.

## Proofs

The proof modules hold for every value of the constants under the named
assumptions of the modules: any window size from 1 to `MAX_WINDOW`, any ids,
packets and counters; any set of addresses, any pool, any timeouts, any
configuration; any finite set of server processes and any interfaces.

- *WindowTyped, WindowIsExact, ReplayWindowImplementsDedup.* The inductive invariant is
  `TypeOK /\ WindowExact`: bit b is set exactly when `highest - b` was
  accepted. A shift by d moves bit b to b + d as `highest` moves by d; a jump of
  a window or more clears what no longer fits. The refinement follows: the two
  rejection tests of the code are the abstract one.
- *ChannelTyped, GroupsArePure, ChannelDelivers.* The window's invariant is
  reused. To it come: packets own disjoint ranges of counters below
  `packet_counter` (so `counter - index` names one packet), a datagram carries
  the counter its packet gave it, the window has accepted the counters of every
  part in a buffer, and of all pieces of what was written. Hence a piece can
  complete its packet only once: the window would refuse its counter, and a
  group that a late piece opens anew lacks parts whose counters are spent.
- *ServerTyped, TablesAlwaysAgree, PoolIsConserved, RoutesAlwaysMatch.* None of
  the three invariants is inductive alone. Removing a client returns
  `allocated[c]` to the pool, which is the client's `virtual_ip` only because
  the tables agree; the address handed out is nobody's only because the pool is
  conserved; and deleting the routes of removed clients leaves the others' only
  because no two clients share an address. Their conjunction, with the types,
  is inductive. The proof has a lemma per action: handlers that leave
  addresses alone (those that raise included), assignment, removal, the main loop, and the server's life.
- *AddressIsKept.* From the same invariant: the only action that writes
  `virtual_ip` needs a closed data channel, and a client with an address has an
  open one.
- *ServerLeases, TcpServerLeases, TunnelServerLeases.* Every step maps to
  joining, a grant, leaving, or a stutter. The pool's least address is the
  least free one because the pool is conserved; a grant meets no member that
  holds one because the data channel was closed; and taking `VirtualIps` out of
  `ip_to_addr` takes out exactly the removed clients' addresses because the
  tables agree. The lemmas are about an arbitrary remainder `rx` of the
  network, so the three specifications share them.
- *TcpAddressIsKept.* As AddressIsKept, with the steps only TCP mode has.
- *TcpTyped, SessionsStayConnected, TcpTablesAgree.* The server's invariant is
  reused: a frame is one of its datagrams, and the end of a handler removes a
  set of at most one client, where the main loop removes many. To it comes
  `SessionsConnected`, which is inductive with the types: only an open or
  closed connection delivers a frame, so no session appears where no handler
  is left to remove it.
- *ClientTyped, ConnectedIsCurrent, RoutesAreTracked, StatusIsCurrent,
  TimeoutsAreEarned.* The invariant adds `Silence`: once the session has left
  its first state something was received in this attempt, so `last_seen` is no
  older than the attempt; a timeout, which needs a finished handshake, then
  needs a full timeout of the attempt. And `Leftover`: a status file that no
  attempt owns is one a killed process left, so only the first attempt meets it.
- *EndsSafe, TunnelTimeoutsEarned.* The composition keeps what each end keeps
  on its own. `EndsInv` is the conjunction of both ends' invariants with two
  facts about what passes between them: datagrams are well typed, and a session
  that is in use has drawn its token. A step of one end leaves the variables of
  the other alone, so the lemmas of VpnServerProofs and VpnClientProofs carry
  over; no assumption on faults or delays is needed.
- *TunnelChannelsAgree, TunnelAddressesAgree.* Neither property is near to
  inductive: which key a session will derive is in the datagrams in flight.
  `Paired` says that the server's entry for the attempt's address was made for
  the client's current session, that the client has heard of no other session
  than that entry's, and that each datagram in flight from or to the current
  socket belongs to the two: a SERVER_HELLO, for instance, is in flight only
  when the server's key is the agreed one, and IP_ASSIGN only with the entry's
  address. `FirstSession` says that the attempt's one reset, while in flight,
  either finds nothing (nobody has answered) or finds an entry that cannot go
  before it arrives. Its second half needs `SessionOnce`: the address is new to
  the server, and the reset is delivered once, or within the second and to a
  server that does not die. TLC checked `TunnelInv` in the scenarios of `tunnel`
  before it was proved, and shows that neither half of the condition can go.
- *HostTyped, RulesAreHeld, NoRuleIsStray.* The invariant adds that a process
  has a `_nat_interface` only between `setup_nat` and `_cleanup`. Every step then leaves
  the holders of an interface alone, adds the one that set up a rule, or takes
  one away; the lemmas count them (`HolderJoins`, `HolderLeaves`), and the
  rules follow the count: one more, one less, or, when a process dies, one
  that `left` counts from then on.

Only model-checked: all liveness (`SilentReclaimed`, `BegunHandshakesEnd`, `StopEndsAttempt`,
`Arrives`, `BuffersReclaimed`, `Reconnects`, `AutoReconnects`,
`OnlyLiveSession`), which needs fairness and ENABLED. Every invariant and
every action property of the runs is proved, the two of the tunnel under
`SessionOnce`, which every scenario of its runs satisfies.

## Not modelled

- The TLS channel: nothing but a test uses it, it wraps a blocking socket, and
  its one piece of concurrency is a lock around `sendall`.
- What malformed datagrams do to the client.
- The client's TCP mode, and a `drain()` that waits on a paused writer.
- The Windows tun device; X.509, the ciphers and lz4 (libraries); the parsing
  of configuration directives other than the port and the user.
- What an address belongs to outside the process: the subnet route, whose
  failures the code ignores.

## Plan

1. The client's TCP mode and the composition of both ends over a stream.
2. Proofs: the safety facts that the liveness properties rest on (what bounds
   the age of a session, of a fragment buffer and of an attempt).
