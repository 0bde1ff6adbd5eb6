# tunnelvision in TLA+

tunnelvision is one container: s6 boots a VPN tunnel and an nftables
killswitch with shell scripts, then a FastAPI process (`svc-api`) watches the
tunnel, switches it on request, forwards ports, and runs a DNS server and three
proxies next to qBittorrent.  This directory models the parts of it whose
correctness depends on the order of things: what happens between two awaits,
while a command fails, when a process restarts, or when two handlers meet.

`PROJECT.json` lists the components, the runs, the defects each property is
shown to notice, the source lines of every definition, the hazards and the
theorems.  This file says what they mean.

## 1. Inventory

| Component | State it keeps | Operations | Hard behaviour | What makes it correct |
|---|---|---|---|---|
| Watchdog (`api/services/watchdog.py`) | `_state`, `_consecutive_failures`, `_tried_configs`, `_cooldown_until`; state file `watchdog_state` | a tick every `health_check_interval` seconds, restart, failover pass, cooldown | awaits inside a pass, settings re-read per tick, restart of the API, bring-up that succeeds without a tunnel | a pass covers every file and ends; no recovery is claimed on an exit code; it heals when a server answers |
| Connect pipeline (`api/routes/connect.py`) | `_vpn_lock`, the locals of each call, `wg0.conf`, `/etc/wireguard/wg0.conf` | connect, rotate, reconnect, activate a file | one await per command, unlocked handlers in between, rollback, timeouts | a reply tells the truth; a failure does not strand the user; one switch at a time |
| VPN commands (`api/constants.py`, `init-vpn.sh`, `init-killswitch.sh`) | tunnels, runtime file, `vpn_type`, `vpn_interface`, `active_config`, `killswitch_state`, nft tables | bring up, tear down, fence | the scripts take their inputs from state files and from the running interface | rules and tunnel belong together |
| Control plane (`api/routes/control.py`) | none of its own | restart, disconnect, killswitch on/off, torrents on/off | synchronous; MQTT runs them on another thread | as above |
| MQTT (`api/services/mqtt.py`) | client, session, `_connected`; at the broker: topics `available` and `state`, the last will | connect, publish, commands, stop | a thread of its own, which waits for the loop; the loop acts between its statements; broken sessions | the shutdown ends; what the broker shows follows the process |
| Settings, state files | YAML file, one file per key | load, save, read, write | two threads, one temporary name per key | a reader sees a value somebody wrote |
| Setup wizard (`api/routes/setup.py`) | `setup_required`, `setup_provider`, `wg0.conf`, `provider.ovpn`, the saved settings | provider, upload, verify, credentials, server, complete | steps out of order, repeated, overlapping, half-failed | it closes only with a configuration; a verification leaves nothing running; what is saved was checked |
| Port forwarding (`port_forward.py`, `natpmp.py`, `hooks.py`) | task, `_port`, `_payload`, state file `forwarded_port`, the gateway's mapping | start, request or bind, hook, refresh | a task replaced while it waits, requests that fail, a lifetime that runs out | the published port is the newest task's and stays mapped |
| Authentication (`api/routes/auth.py`, the middleware of `main.py`) | sessions, attempts per address | login, logout, check | limit, expiry, window | no more guesses than the limit for each life of the process; a lockout ends; sessions that are over keep nobody out |
| Event stream (`api/routes/events.py`) | one bounded queue per client | subscribe, broadcast | a full queue, a broadcast from another thread | one client costs no other an event |
| DNS server (`api/services/dns.py`) | cache, blocklist | query, refresh | expiry, eviction, refresh while queries run, downloads that fail | no answer outlives its record; a switched list takes effect |
| HTTP, SOCKS5, Shadowsocks proxies | connection counters, two transports and two tasks per connection | handshake, relay | two directions, either may end first | a tunnel for those who may use it; nothing read is lost, nothing stays open |
| Provider base (`providers/base.py`, `vpn.py`), server updater, provider routes | instances, server cache with time stamp, the updater's task | list, refresh, filter, health | fetches that overlap, fail, end out of order | no list looks newer than it is; the updater goes on |
| Boot scripts, firewall lockdown | s6 dependency order | run once | a failing oneshot | never open before the killswitch |
| History, notifications, backup, health monitor, read-only routes, web UI | logs, files | append, send, restore, poll | crash in the middle of a rewrite | nothing else depends on them |

**How they interact.**  The watchdog, the HTTP handlers and most services are
coroutines of one event loop: they interleave only at awaits.  MQTT commands run
on paho's thread and interleave anywhere.  The s6 service `svc-healthcheck` and
the boot scripts are other processes; they meet the API only through state files
and through the tunnel and rules themselves.  Settings are read from YAML at
each use by some readers (the watchdog, rotate) and once at start by others.

## 2. Modules

| Module | Models | Extends |
|---|---|---|
| `Vpn` | the shared resources as one record, and every command on them as an operator | - |
| `Watchdog` | the watchdog's task, one action per path between two awaits, with its environment | `Vpn` |
| `Failover` | what the watchdog promises: six states and a book of tried files | - |
| `Connect` | the locked pipelines, one action per await, and the unlocked handlers | `Vpn` |
| `Switch` | what a switch of the tunnel promises its callers | - |
| `MCConnect` | symmetry of requests for TLC | `Connect` |
| `PortForward` | the port forwarding tasks of PIA and Proton, their gateways and the hook | - |
| `Tunnel` | what a proxy promises its clients | - |
| `Proxy` | the three proxies: service, handshakes, relay | - |
| `Dns`, `MCDns` | cache, blocklists and queries of the DNS server | - |
| `Servers`, `MCServers` | provider instances, list cache, updater, provider routes | - |
| `Setup` | the setup wizard and a reboot | - |
| `Bridge` | MQTT thread, event streams and the event loop they meet on | - |
| `Auth`, `MCAuth` | sessions, attempts and the middleware | - |
| `VpnProofs`, `WatchdogProofs`, `ConnectProofs`, `PortForwardProofs`, `ProxyProofs`, `SetupProofs` | proofs | the module they are about |
| `CacheProofs` | proofs about the two caches, of server lists and of DNS answers | `Servers`, `Dns` |
| `ApiProofs` | proofs about event streams and authentication | `Bridge`, `Auth` |

`Watchdog` and `Connect` compose the commands of `Vpn` with their callers.
`Bridge` composes two services and the loop.  Three modules are abstract and are
implemented: `Failover` by `Watchdog`, `Switch` by `Connect`, `Tunnel` by `Proxy`.
`Auth` and `Dns` put their module's name before the names every module has
(`AuthNext`, `DnsTypeOK`), so that they can be used next to `Bridge` and `Servers`.

### 2.1 Vpn

`vpn` is a record: the interface `wg0` and the OpenVPN daemon (what each runs),
whether `tun0` exists, the content of `/etc/wireguard/wg0.conf`, the state files
`vpn_type`, `vpn_interface`, `active_config` and `killswitch_state`, and the
loaded rules (for which interface and which endpoint, or `Open`).  A command is an
operator that returns the new record and an exit status: `WgQuickUp` refuses an
existing interface and does not wait for a handshake, `InitKillswitch` takes the
endpoint from the running interface and loads nothing when there is none,
`InitVpn` picks its file itself.  What the code does in several commands
(`bring_up_wireguard_file`, `do_vpn_restart`) is not an operator here: `Watchdog`
and `Connect` take it step by step.  wg-quick, openvpn, nft and the servers are not
in the repository; they are modelled from what the code expects of them and
marked external in the map.

A server is "good", "silent" (brought up, but no handshake, as when a handshake
is older than `handshake_stale_seconds`) or "rejected" (the bring-up command fails).

### 2.2 Watchdog and Failover

| Variable | Code |
|---|---|
| `pc` | the point in `_run`, `_on_unhealthy_standalone`, `_do_failover`, `_activate_config` |
| `wdState`, `wdFile` | `_state`, state file `watchdog_state` |
| `fails`, `tried`, `cooldownLeft` | `_consecutive_failures`, `_tried_configs`, `_cooldown_until` in check intervals |
| `queue`, `passSize`, `trying` | the locals `untried`, `len(untried)`, `config_file` |
| `settings` | the keys `_load_setting` reads; `Invalid` is a value `int()` rejects |
| `qbt` | torrents running or paused |
| `raising` | `bring_up_wireguard_file`: its next command, its file, and whether a handler or the watchdog called it |
| `mqtt` | `do_vpn_restart` on the MQTT thread, between its two commands: the type it stopped |

One action is one way through the code between two suspension points.
`AwaitPoints` are true awaits: HTTP handlers that need the loop run only there.
`SyncPoints` cut a synchronous stretch where only the MQTT thread and the servers
can get in between, at each subprocess call and file write: the two commands of
a restart, and the four steps of bringing up a WireGuard file (`Lower`,
`RuntimeWritten`, `Raised`, `Fenced`).  A handler that activates a file goes
through the same four and holds the loop until its end (`LoopFree`).

Environment actions: the control-plane commands, activation of a WireGuard
file, pausing and resuming torrents, saving settings, servers that change, an
OpenVPN daemon that loses or reaches its server, and a restart of `svc-api`
(memory lost; a clean stop also writes the state file).  paho's thread runs one
command at a time; a restart through the API is one of that thread with nothing
between its two commands.

`Failover` is the documented state machine (`docs/TECHNICAL_PRIMER.md`, section
on the watchdog): `Watchdog` implements it with the identity mapping on
`wdState` and `tried`; commands, waits, locals and settings are hidden.

Left out: the recovery counter, messages, webhooks and history; `vpn_state`,
which the health monitor owns; `VPN_ENABLED=false`, where the loop returns at
once; I/O errors on state files.  A subprocess that exceeds its limit raises,
which `_do_reconnect` (watchdog.py:318) and `_activate_config` (watchdog.py:387)
catch and take for a failed restart or activation; the model has the failure, and
not what the killed command may have done halfway.  Of what other handlers do in
the watchdog's awaits, the locked pipelines of module `Connect` and the
activation of an OpenVPN file are left out here: the watchdog takes no lock, and
most of its properties are about its own book and about what it sees when it
looks, and `SelfHeals` and `KillswitchFollows` are stated for a watchdog whose
tunnel nobody switches through those two.  The queue is sorted by path in the
code; the model leaves the order open.  The set of files does not change.  `KillallOpenvpn` is immediate.

### 2.3 Connect and Switch

| Variable | Code |
|---|---|
| `lock` | `_vpn_lock` |
| `req[r]` | a call: where it is, what it is, the content it is about (`want`), the saved `prev_conf` (`prev`), its reply |
| `dir`, `link` | `/config/wireguard`: regular files, and the target of `wg0.conf` when it is a link |
| `active`, `hostname` | state files `active_config`, `vpn_server_hostname` |
| `vpn`, `server`, `raising`, `mqtt` | as in `Watchdog`; `raising` is always that of a handler |

Names and contents differ here: `wg0.conf` changes its content, is listed among
the files it may point to, and a link to itself exists for `glob()` but not for
`exists()` or `open()`.  A request is one action per await of `_run_cmd`,
`list_servers`, `resolve_connect` or `post_connect`; commands of the control
plane, of MQTT and file activation run between any two of them.  An activation
holds the loop, so that a command of a pipeline in flight is taken to end before
or after it; the MQTT thread may act between its four steps.  With `Timeouts`, a
command may be killed before its effect, after it, or, if it is a script, between
its own commands (`Halfway`): the old tables deleted and no new ones loaded, the
new ones loaded and `killswitch_state` not written, the daemon started and
`vpn_interface` not written.  A `wg-quick` that is killed did its work or did not.
The choice of a server is left open except for the one a rotation excludes.  The
module is used with `VPN_TYPE=openvpn` when there are OpenVPN files, so that `init-vpn.sh` never
re-reads `/config/wireguard` (assumption `ConnectAssumption`).

`Switch` hides the request's path.  It knows whose switch is under way, the server
it is about, the one chosen before, what the tunnel runs, which server the
killswitch lets out and what each caller was told.  On the way the tunnel may run
the one server, the other or none; at the end it is the new one ("ok", or "failed"
when the reply of a switch that was made is lost), the old one ("rolledback"), or
none, and that only when the old one may be rejected.  `Connect` implements it
(`IsASwitch`) with `by` mapped to the lock, the two servers to `want` and `prev`
of its holder once that has begun to touch the tunnel, and the gate to the
endpoint in the loaded rules.  This is where the lock, the saved runtime file and
the killswitch meet: a rollback file saved too late (`StartWireguard_SavesLate`)
passes every other property of the run and fails this one.

Files can be lost, and no property says that they are not: a provider connect
writes through the link `wg0.conf` into the file it points to, and choosing a
file unlinks a `wg0.conf` of one's own (`WriteWg0`, `ActivateWgConfig`).

Left out: server attributes, filters and scores; cancelled requests; a timeout of
the second command of an OpenVPN activation.

### 2.4 PortForward

| Variable | Code |
|---|---|
| `tasks` | every task `start()` creates: its gateway, its await point, whether it was cancelled, and the ticks it still waits; the newest is `_task` |
| `port`, `signed` | `_port`; the gateway that signed `_payload` |
| `file`, `told` | state file `forwarded_port`; the last argument of the hook script |
| `gateway` | the gateway of the present tunnel, `None` when its server forwards no port |
| `grant`, `left` | outside the code: the port each gateway forwards, and for how long |
| `provider` | `vpn_provider`; read when the process starts |
| `hooked` | history: the ticks spent waiting for the hook since a gateway last mapped a port |

PIA asks once for a signed port and binds it again and again; NAT-PMP asks for a
mapping again and again.  `_request_mapping` blocks the event loop, so a NAT-PMP
answer and what follows up to the next await is one action.  A task of PIA waits
for its answers and can be cancelled there.  A cancelled task ends at its next
step: the hook call that PIA makes then does nothing, because its service is
created without a configuration (`HookScript`).  A payload of PIA that is missing,
that cannot be decoded or that holds no port ends the task, each with what it had
already kept (`NoSignature`).  Ticks of five seconds pass only while no NAT-PMP
task can go on; the hook takes up to `HookTicks`, its limit in hooks.py.

Left out: `stop()`, which no code calls; the bytes of the packets; a gateway that
grants a shorter lifetime than it was asked for (the code does not read it).

### 2.5 Proxy and Tunnel

| Variable | Code |
|---|---|
| `kind`, `required` | which service; whether a user or a password is configured |
| `server`, `file`, `connections` | `_server`, the service's state file, `_connections` |
| `pc[c]`, `pipe[c]` | the handler of a connection, and its two pipe tasks |
| `closed[c]` | the transports to the client and to the target |
| `inbox`, `outbox`, `initial` | received and unread; written and under way; what came with a Shadowsocks address |
| `peer`, `said`, `heard` | outside: the two ends, what they sent and got |

The three services have handshakes of their own and the same relay: two tasks,
`asyncio.wait` for the first that ends, the other cancelled.  They differ in the
`finally`: Shadowsocks closes both transports, HTTP and SOCKS leave the target to
the pipe (`Leave`).  Every early return of a handshake is one disjunct of
`GiveUp`.  Closing lets what was written drain, as asyncio does; an end that is
gone takes its data with it.

`Tunnel` knows who may use the proxy, which connections are open, what was said
and what was heard.  `Proxy` implements it with `allowed` mapped to those who
hold the credentials and `open` to the connections with a target (`IsATunnel`):
this is where authentication and delivery meet in one statement.

Left out: the bytes (a chunk is a number), the cipher and its nonces, request
parsing beyond accepted or refused, IPv6 forms of an address.

### 2.6 Dns

`answers` is the ordered dictionary as a sequence of entries with name, type,
lifetime and age; `blocked`, `since` and `interval` are the blocklist manager's;
`loop`, `todo` and `fetched` are `run()` and the refresh it is in; `queries` are
datagrams whose task has not run.  `resolve()` blocks the event loop, so a query
is one step (`Handle`); each download of a refresh is an await, and settings may
change between any two (`ChangeSettings`).

Left out: the statistics, the wire format, the order of the upstreams, and
domains below a blocked one, which the code does not block either.

### 2.7 Servers

`live` is the singleton in `_instances`; `cache` carries two ages: how old its
content is and how old `_cache_time` says it is.  `list_servers` takes the time
before its await and `refresh_cache` after it; the difference is what the
properties are about.  `request` are calls that wait for the provider's API, each
as long as it has waited; `updater` is the task of `ServerListUpdater`; `health`
is a call of `/vpn/provider-health` between its awaits.  The catalogue may answer
with any part of itself.  Mullvad's client stands for all clients that have a
list and an account.

Left out: `resolve_connect` and the scores, keys and tokens of the other
providers, the state files the check route reads.

### 2.8 Setup

`required` and `provider` are state files, `settings` what the wizard saves,
`wg0` the path `WG_CONF_PATH`: nothing, a file, or a link to itself, for which
`exists()` is false and `write_text()` raises.  `daemon` and `tun0` are the
openvpn of a verification and its device, `pia` the provider singleton with the
login it was made for and its token.  A call runs to its first await in one
step.  `connect_to_server` appears as its outcome, `Boot` as what `init-vpn.sh`
makes of the files.

Left out: key generation, which keeps nothing; the texts of the files beyond
accepted or refused.

### 2.9 Bridge

`thread` is paho's thread: idle, between the two statements of `_on_connect`
(`_connected = True`, then "online"), waiting for a coroutine, inside
`broadcast`, or about to reply; `loop` is the event loop, which `stop()` blocks in `loop_stop()`
(state "joining").  `link` is what the client believes of its connection,
`session` what the broker does; `available` and `topic` are retained.
`clients` is the list `_clients`, which `broadcast` walks by index (`next`) on the
MQTT thread while the loop appends and removes.  Events are counted.

Only `GET /health` and the reply to a command publish the state; `watched` says
that the health route answers a caller without a key, which it does once the setup
is done and while neither a login nor a key is asked for (`Configure`).
`overtaken` is a history variable: the loop ran `stop()` between the two
statements of the last `_on_connect`.

Left out: discovery payloads, keepalives, and the order of events in a queue.

### 2.10 Auth

`sessions` and `attempts` are the two dictionaries with ages in place of times,
`cookie` is what each browser holds, `tries` is a history variable: the
passwords that were compared within a window.  `restarts` is another: when the API
was started again within a window, which empties the dictionaries and not the
history.  No handler awaits, so a call is a step.  A request carries no key, a
wrong one or the right one (`Keys`).  `Call` is the middleware for every other
route: without a login to ask for, a missing key is refused and a wrong one is let
through, as in main.py:118-135.

Left out: what a password is, and the cookie's attributes.

## 3. Runs

The bounds of each run are in its .cfg.  Files, contents, requests and clients
are model values; counters that would grow (failures, user requests, API
restarts, unlocked commands, chunks) are capped by a named constant.

| Run | Shows | Bounds and why they suffice |
|---|---|---|
| `watchdog_safety` | `RemainingExact`, `GivesUpAfterAll`, `FileTruthful`, `RecoveryVerified`, `KillswitchFollows`, and `FollowsTheBook` (refinement of `Failover`) | three files of both kinds: one active, one rejected, one more, so that a pass has a middle and every await point, and switches the type; settings that `int()` rejects; a user request inside a pass or a bring-up; one restart |
| `watchdog_live` | `EscalationEnds`, `CooldownEnds`, `SelfHeals`, `PauseUndone` | two WireGuard files, one of which may be rejected, and two user requests, so that a failed bring-up leaves its runtime file to a later restart; no restart of the API, which loses `PauseUndone` (see below) |
| `connect_api` | `ReplyTruthful`, `NeverStranded`, and `IsASwitch` (refinement of `Switch`) | two servers, three requests: one fails and rolls back, one follows it, one is refused; no unlocked command and no timeout, with which the code breaks all three (see below) |
| `connect_files` | `OneAtATime`, `LockFreed` | a WireGuard file that may be rejected and an OpenVPN file, two requests, two unlocked commands or activations inside them, commands killed before, after and halfway |
| `portforward` | `MappingHeld`, `PublishedByNewest`, `KeepsTrying` | two gateways, one that always answers; two ports; two connects, so that one task replaces another at each of its points; one restart of the API; a lifetime of 12, a refresh of 9 and a hook of up to 6 ticks of five seconds, the 60, 45 and 30 seconds of the code |
| `proxy` | `ReadIsWritten`, `LeavesNothing`, `EndsWithItsEnds`, and `IsATunnel` (refinement of `Tunnel`) | each of the three services, one connection (connections share only the counter; the proofs have any number), two chunks each way and a buffer that is full after one, so that a pipe waits in `drain` while the other ends |
| `dns` | `NoStaleAnswer`, `BlocklistFirst`, `ListsFollowSettings` | two names on a cache of one entry, so that one evicts the other; lifetimes below the floor, between and above the cap; two lists that overlap; one query type (two exceed five minutes, and no property tells types apart) |
| `servers` | `RecentAnswers`, `HealthRecent`, `KeepsRefreshing` | two requests, the health route and the updater, a call that lasts up to half a TTL: fetches overlap and end out of order, a list expires while it is fetched |
| `setup` | `ClosedHasConfig`, `NothingLeftRunning`, `SavedAfterLogin` | two calls at a time, so that any call runs inside any other; a right and a wrong login; two looks at `tun0`; reboots |
| `bridge` | `AllTold`, `StopEnds`, `AvailabilityFollows`, `StateShown` | two clients with room for one event: full queues, a client removed before, at and after the index of a broadcast; crashes, shutdown and broken sessions at any point, also inside `_on_connect`; a health route that asks for a key and not |
| `auth` | `GuessesLimited`, `RefusedOnlyWhenFull`, `LockoutEnds` | two browsers behind one address, room for two sessions, two attempts in a window of three, an age of four, a restart within the window: every edge of window and age is met with the table full and not |
| `connect_v_leak` | `KillswitchHonest` fails | see below |

In `MCServers` an assumption also compares the filter of a server list with its
criteria applied one after the other, on every part of the catalogue.

Deadlock is checked wherever time or users always go on.  The `connect_*` runs
serve a fixed number of requests, and a proxy's connections are made once; both
then stop, so their .cfg files switch the deadlock check off.  That the
shutdown of `Bridge` cannot wait for itself is `StopEnds`.

### Fairness

`Watchdog!Fairness` is weak fairness of the watchdog's own steps: a sleep ends, a
subprocess returns (each has a timeout), a request to qBittorrent returns or
fails, the event loop runs whatever is ready, and a handler that holds it comes
to its end.  Users, servers and the supervisor owe nothing: they may act for ever
or never; nor does the MQTT thread, whose restart may never start what it
stopped.  `Connect!Fairness` is weak fairness of each request that has begun and
of an activation that holds the loop; nobody has to send one.
`PortForward!Fairness`: time passes, tasks go on, and a gateway that is asked
again and again answers at last (strong fairness of `Mapped`), since a request
that fails every time can publish nothing.  `MappingHeld` needs no fairness; the
gateways in `Reliable` answer at once.

`Proxy!Fairness`: tasks that are ready run, and what was written drains to an
end that still reads; the ends owe nothing.  `Dns!DnsFairness`: tasks run, time
passes, and a list that is asked for again and again is downloaded at last
(strong fairness, for the same reason as above).  `Servers!Fairness`: time passes
however many requests come (strong, because a reply that is due is sent first),
and calls end within their timeout.  `Bridge!Fairness`: both threads go on, the
loop runs what it was handed, and the broker notices that a process is gone (its
keepalive).  That the state is published again is fair only while `watched`: the
HEALTHCHECK of the container (`Dockerfile:141`, `healthcheck.sh:60`) asks for
`/health` every minute and sends no key, so a login or an API key turns it away
before the handler runs (main.py:118-133).  `Auth` needs only that time
passes.

### A disagreement found

`connect_v_leak` is expected to fail, with the lines it contradicts in
`PROJECT.json`: when bring-up and rollback both fail, the killswitch script
deletes the rules and loads none, and `killswitch_state` stays "active", where
the code says that the killswitch blocks everything.

### Where code and docs disagree, and a property names the exception

In each of these the passing property says what the code does keep, and where it
stops; the line of the repository that says more is quoted beside it.

* Switches of blocklists "take effect immediately" and the DNS service re-reads
  them "on every tick" (`docs/TECHNICAL_PRIMER.md:780-789`): `run()` reads the
  settings only when a refresh is due, up to 24 hours later (dns.py:329), and with
  every list off `_refresh_blocklists` does nothing, so that the last list stays
  in force (dns.py:367).  `ListsFollowSettings` is "in the end", and states the
  last one as it is.
* A mapping is "refreshed every 45 seconds (60s lifetime)"
  (`docs/TECHNICAL_PRIMER.md:961`; natpmp.py:133, "keep alive before lifetime
  expires"): the 45 seconds begin when the hook has ended, and the hook may take
  30.  `MappingHeld` allows the mapping to lapse when the hook took what the
  refresh leaves of the lifetime, and only then.
* The watchdog "publishes MQTT state" on every transition
  (`docs/TECHNICAL_PRIMER.md:662-664`): `_publish_mqtt` (watchdog.py:461-467) is
  called by nobody.  `StateShown` rests on the health route alone.
* After `wg-quick up` "the killswitch is re-run so nftables knows the new
  endpoint" (`docs/TECHNICAL_PRIMER.md:470-476`): the script reads `vpn_type`
  before the caller writes it (constants.py:221, watchdog.py:380), so the first
  WireGuard file after OpenVPN gets the endpoint of the first OpenVPN file, and
  `vpn_interface` stays "tun0".  `KillswitchFollows` is about files brought up
  while `vpn_type` says "wireguard", and about whatever interface is recorded.
* The device's availability is retained with a last will (mqtt.py:57-62):
  `stop()` between mqtt.py:84 and 86 publishes "offline" before paho's thread
  publishes "online", and the clean disconnect has no will.
  `AvailabilityFollows` excepts `overtaken`.
* Login attempts are limited per address and window (`CHANGELOG.md:6-9`), by a
  list in memory: a restart of the API allows as many again.  `GuessesLimited`
  counts the restarts in a window.

### Seen while modelling, and not runs of their own

The models contain each of these; no run states that they do not happen.

Watchdog and commands:
* after a bring-up that fails, the runtime file holds the failed content while
  `active_config` keeps the old name: the old file is then skipped as active and
  never restarted, although its server answers (the exception in `SelfHeals`);
* a restart of the API during a cooldown leaves the torrents paused
  (`PauseUndone` with `MaxCrashes = 1`);
* a command of the MQTT thread between bringing a file up and fencing it takes the
  tunnel down, and the activation is still reported as a success (`Fenced`);
* a saved `cooldown_seconds` that is no number raises between setting COOLDOWN and
  pausing the torrents (`EnterCooldown`);
* a failover to the second OpenVPN file starts the first, because `init-vpn.sh` is
  not told which (`OpenvpnStarts`).

Connect:
* a disconnect inside a reconnect, since it takes no lock (`ReplyTruthful`,
  `NeverStranded` and `IsASwitch` fail with `MaxCommands = 1`);
* with `wg0.conf` as the only file, connect replaces it by a link to itself, and
  with several its content is lost (`ActivateWgConfig` with `Wg0Content` set);
* a provider connect after a rotation writes through the link into the user's file
  (`WriteWg0`);
* a killswitch script that is killed between deleting and loading leaves no rules
  and a `killswitch_state` that says "active" (`Halfway`);
* a command that times out skips the rollback (`NeverStranded` with `Timeouts`);
* a rotation excludes the server last asked for, which is not the one in use after
  a boot or a rollback (`Candidates`).

Port forwarding:
* with PIA the configured hook script is never run, as `post_connect` gets the
  service without a configuration (`HookScript`);
* a NAT-PMP task replaced before its hook has run leaves a port that the next task
  finds unchanged and never announces;
* a connect to a server without port forwarding leaves the old port published.

Setup:
* verifying WireGuard turns `wg0.conf` into a link to itself (`setup.py:352`) and
  copies nothing to where wg-quick reads: only a runtime file left by
  `setup/server` or a boot can come up, `complete` then finds no configuration, and
  uploading again raises (`VerifyWireguard`, `UploadWireguard`);
* a verification that succeeds may have seen another call's tunnel (`Poll`), and
  taking it down ends both;
* the singleton for PIA keeps the first login it was made with: correcting a wrong
  password fails until a restart, and with a token any second login is saved
  unchecked (`CredentialsPia`);
* `complete` restarts qBittorrent, where its comment speaks of the init chain.

Others:
* Shadowsocks reads the relay with the handshake's 30-second limit: a client that
  only listens is cut off (`Silent`);
* the DNS cache is keyed by name alone: an AAAA query gets cached A records
  (`Cached` with two `Types`); with the cache disabled every answer of an upstream
  is lost (`Upstream` with `CacheSize = 0`); a full cache drops the answer that was
  stored first (dns.py:61-63), where the class (dns.py:39) and
  `docs/TECHNICAL_PRIMER.md:896` say LRU: a hit moves nothing (`OldestFirst` is
  what holds instead);
* an API that answers 200 with nothing replaces the server list for a whole TTL
  (`Fetched` with an empty reply);
* a first connection to the broker that fails is never tried again (`Start`);
* without a login, a wrong `X-API-Key` is let through where a missing one is
  refused (main.py:123-135, `Call`);
* a stream whose client leaves before its generator starts leaks its queue
  (`Open`), and a client that leaves during a broadcast of the MQTT thread can
  make it skip another (`overlap`).

Outside the models, in the same files: the MQTT button `vpn_rotate` (mqtt.py:268)
has no command behind it.

### Defects the properties notice

Next to a definition `X` the modules keep forms `X_Y` of it with a plausible
defect Y; nothing uses them.  `PROJECT.json`, "mutants", pairs each property of
each run with the defect that must break it.

## 4. Proofs

`VpnProofs` has the lemmas on the commands: each returns a record of the right
type, whatever the servers do.  `WatchdogProofs` proves, for any finite set of files,
any settings and any bounds:

* `Invariance`: `Spec => []IInv`.  `IInv` adds two parts to the properties.
  `Phase` says which published state goes with which point of the task; without
  it `TriedOnlyInOutage` is not inductive, because nothing says that a failover
  step happens in state "failing_over".  `PassBook` says that in a pass every file
  but one is in `tried` or in `queue` and none is in both; `GivesUpAfterAll` and
  `RemainingExact` follow from it when the queue is empty or shrinks by one.
* from it `TypeCorrect`, `BookIsClean`, `CountIsExact`, `LoopRestsCalmly`,
  `CooldownIsEarned`, `FileIsTruthful`, and the action property
  `RecoveryIsVerified`;
* `Refinement`: every step of `Watchdog` is a step of `Failover` or leaves its
  variables alone.  `StartPass` of `Failover` wants an empty book, which is where
  `TriedOnlyInOutage` is used;
* `KillswitchIsFollowed`, for files of both kinds: `Fenceable` is what an
  activation has still got when it makes the rules, whatever restarts,
  disconnects and killswitch commands of the other thread came between its steps.
  The runtime file is its own or the one `init-vpn.sh` writes, and with its own
  `wg0` is down or runs it; without an endpoint the script leaves no rules;
* `SidecarNeverActs`.

`ConnectProofs`, for any files, any number of requests and any bounds:

* `TypeCorrect` and `MutualExclusion`: at most one request is past the lock, and
  the lock is held exactly then.
* `PipelineCorrect`: `PipelineInv` says for each point of a pipeline which tunnel
  runs, what the runtime file holds and which rules are loaded (`WgOnly` rules
  out OpenVPN, `WantKind` ties the kind of a request to its content).  It is
  inductive only while no command runs without the lock (`Alone`).  From it
  follow `RepliesAreTruthful` and `RollbacksRestore`, for a provider, and whether
  commands time out or not.  `RollbackRestores` is about the saved file, whichever
  it is; that it is the right one is part of `IsASwitch`, so no run checks it apart.
* `NobodyIsStranded`, without timeouts: a failed switch that leaves no tunnel has
  tried the previous file first, and only a server that can reject it keeps it
  down (`StrandedInv`).
* `ConnectIsASwitch`, under `Alone` and without timeouts: every step is a step of
  `Switch` or leaves it alone.  `SwitchInv` adds to `StrandedInv` what ties one
  point of a pipeline to the next: `prev` is the server the runtime file was for
  when the request began, the runtime file of a rollback is `prev` again, the
  gate is that of the tunnel once the killswitch has run (`Progress`), and tunnel,
  runtime file and gate agree whenever the lock is free (`Settled`), which is what
  the next request starts from.

`PortForwardProofs`, for any gateways, ports and number of connects:

* `TypeCorrect`;
* `NewestPublishes`: from `ShapeInv`, in which every task but the newest is over or
  cancelled, so that no other can reach a publication;
* `MappingIsHeld`, for any lifetime, refresh and limit of the hook: by `KeepInv`
  what is left of the mapping, the time the hook took and the part of the refresh
  that is over make up the lifetime (`InTime`), and a tick moves one from the
  first to one of the others.  With the values of the code, 15 seconds are what
  the hook may take.

`ProxyProofs`, for any number of connections, chunks and any buffer:

* `NothingReadIsLost`: `ReadIsWritten` alone is not inductive, since a transport
  that is closed takes nothing.  `Sound` says which transports may be closed at
  which point of the handler, and that a pipe which still reads finds its
  destination open.
* `NothingIsLeft`: `Sound` again, and `Counted`: `_connections` is the number of
  handlers under way.
* `Implements`: every step is a step of `Tunnel` or leaves it alone.  `Granted` is
  what the target's side needs: whoever has reached it was authorised.  `Held`
  keeps the first data of Shadowsocks apart from what the pipes carry.

`CacheProofs`, on `Servers`, for any catalogue, TTL, interval and number of requests:

* `AnswersRecent`: by `StampTellsAge` a list within its TTL says nothing older than
  its stamp and one call.
* `VerdictRecent`: by `VerdictHolds` the verdict ages no faster than the call that
  is waited for.
* Both use that a call is shorter than the TTL (`Patience < Ttl`): the timeouts
  of the clients are 30 seconds at most, `PROVIDER_CACHE_TTL` is 3600.

`CacheProofs`, on `Dns`, for any names, lists, lifetimes and cache size:

* `CacheInv` says that the cache is no longer than its size, that it has one entry
  for a name, and that entries are ordered by age.  The last two are not in the
  code: `put` assigns to a dictionary key and would keep the place of an old entry.
  They hold because a name is put only after `get` found none for it and dropped
  one that had expired, so that `put` always appends.
* from it `DnsTypeCorrect`; `OldestMakesRoom`, that the entry dropped from a full
  cache is the oldest; `AnswersAreFresh`; and the action property
  `ListsComeFirst`.

`SetupProofs`, for any number of calls and looks at `tun0`: `ClosesConfigured` and
`NoOpenvpnLeft` are inductive as they stand; `SavesAfterLogin` needs
`TokenIsEarned`, that a token stands for a login of this instance.

`ApiProofs`, on `Bridge`, for any clients and any room: `EveryoneIsTold`, by `DueIsAhead`:
whoever was found registered and has not been reached is ahead of the index of
the iteration, while nobody is removed.

`ApiProofs`, on `Auth`, for any addresses, browsers, limits, ages and window:

* `GuessesAreLimited`, for any number of restarts: the list and the history
  `tries` part at a restart, so `Explained` compares them at every age.  Of the
  passwords younger than x there are no more than attempts younger than x on the
  list and the limit for each restart younger than x.  A restart empties the list,
  which held no more than the limit of any age; an attempt adds one to both; time
  moves all three alike (`WithinAged`).  The code prunes only when an address
  calls, so pruning, ageing and pruning again must be ageing and then pruning
  (`RecentAged`), and that needs the order.
* `StoreIsBounded` and `RefusedWhenFull`: sweeping leaves the sessions that are
  good, and a login is refused only when as many are left as fit; a token
  nobody has exists because there are more tokens than sessions and cookies.

Assumptions on constants: `FilesAssumption`, `SettingsAssumption`,
`ConnectAssumption`, `PortAssumption`, `ProxyAssumption`, `ServersAssumption`,
`DnsAssumption`, `SetupAssumption`, `BridgeAssumption` and `AuthAssumption`, which
TLC evaluates in the runs of
their modules; what a theorem assumes beyond them is in its statement.

Only model-checked: liveness, since the prover has no fairness (`EndsWithItsEnds`,
`ListsFollowSettings`, `KeepsRefreshing`, `StopEnds`, `AvailabilityFollows`,
`StateShown`, `LockoutEnds`, and those of `Watchdog`, `Connect` and
`PortForward`).  The part of `ListsFollowSettings` that says what a step may not
do is checked with the rest of it.  Every other safety property of a passing run
is proved, some of them under the hypotheses named above.

## 5. Plan

Done: every module of section 2 and the proofs of section 4.

Next, in this order:

1. Lemmas that several proofs state for themselves (sequences without an element,
   ages that saturate) in one module, when one of the eight can make room.
2. `NobodyIsStranded` and `RepliesAreTruthful` with file activation between the
   steps of a pipeline, where the code allows a weaker statement than without it.
3. `Boot`: the s6 order of the lockdown, the tunnel and the killswitch.

## 6. Not modelled

Cryptography (Shadowsocks, key exchange), parsing of provider APIs, the scoring
of servers, the web UI, metrics, speed tests, notifications, history, backups and
the health monitor do not decide anything the modelled parts read.  The boot
scripts before the tunnel are text processing in a fixed order.
`PROJECT.json`, "components", has the reason for each, and for the parts of a
component that are left out; its "hazards" say which of them no property covers.
