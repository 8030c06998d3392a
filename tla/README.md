# Formal models of wintools

TLA+ models of the concurrent and distributed parts of
[Hana-ame/wintools](../src/README.md): the blocking key-value store, the PeerJS
signaling server with its room directory, the PeerJS client and the file-serving node
on top of it, the LLM proxies (capture-proxy and multi-proxy), the HTTP tunnel over a
data channel (webrtc-proxy), and the ECH client, its shared library and its reverse
proxy. TLC checks each model on a small instance; TLAPS proves the safety of nearly
all of them for instances of any size.

`PROJECT.json` lists components, runs, mutants, the source lines behind every
definition, findings, hazards and theorems. This file is the text to read first.

## 1. The system

wintools is a collection of Go programs around a few packages.

| part | source | state | who talks to it |
|---|---|---|---|
| key-value store | `pkg/kv/store.go` | map of entries under a RW lock; per entry a lock, the data, a broadcast channel, an access time | the REST handlers, one goroutine per request; the eviction goroutine |
| REST API | `pkg/api/handler.go`, `cmd/kv-store` | none | HTTP clients |
| signaling server | `internal/go-peerserver/signalserver.go` | clients by id and queues by destination under `s.mu`; a send lock per connection | browsers and nodes over WebSocket, one goroutine each; a sweeper |
| room directory | same file | rooms, activity, metadata and reported peers under `s.mu` | HTTP announcements and queries, the end of a connection, the sweeper |
| PeerJS client | `pkg/peerjs/peer.go`, `connection.go` | signaling socket, message channel, `closeCh`, the connections | the signaling server, remote peers through pion, the application |
| file node | `pkg/peerfs/node.go` | `connCount`, a session per connection | the PeerJS client's callbacks, browsers |
| webrtc-proxy | `cmd/webrtc-proxy/main.go` | streams by id on both sides, a bounded queue per stream and direction, the connection in use | HTTP clients, the target, a `Peer` on each side |
| capture-proxy | `cmd/capture-proxy/local.go` | cool-down and limit errors per address family, counters, ban list | HTTP clients, one upstream over IPv4 or IPv6 |
| multi-proxy | `cmd/multi-proxy/main.go` | cool-down, exhaustion and last status per source | HTTP clients, capture-proxies |
| ECH client | `pkg/ech/client.go`, `pkg/netdial`, `pkg/localdns` | configuration, key cache and default client, each an atomic or locked variable | everything that dials out |
| ECH shared library | `cmd/ech-shared/shared.go` | start-up flags, a table of handles | C and Java callers, from threads Go does not know |
| ECH proxy | `pkg/echproxy/proxy.go` | caches of addresses, outlets and transports, a cookie jar, the entries | browsers, upstream sites |
| opencode-proxy | `cmd/opencode-proxy` | a daily quota, a limiter per address | HTTP clients, one upstream |
| peerfs-proxy | `cmd/peerfs-proxy` | connections to nodes, requests in flight | HTTP clients, nodes |
| browser bridge | `pkg/peerfs/web/bridge.js` | a pool of workers, a queue of waiters | the page, nodes |
| the rest | `cmd/ip-proxy`, `cmd/twitter-downloader`, `examples/`, `pkg/apifwd`, `pkg/proxyheaders` | none worth a model | |

A node (`pkg/peerfs`) registers with the signaling server over its `Peer`; a browser
does the same and sends the node an OFFER, which the server forwards, or queues while
the node is offline; the node answers, pion connects the two directly, and the file
protocol runs on the data channel. Nodes announce themselves in rooms, which browsers
query; the server forgets a node when its connection ends or its announcements stop.
webrtc-proxy uses the same `Peer` to carry HTTP requests. multi-proxy sends each request
to the first of its capture-proxies that is not cooling down, and each of those to the
first address family that is not. The ECH proxy, the shared library and other programs
take their client from `pkg/ech`.

What makes this hard, and what correctness means, part by part:

* **Key-value store.** `Get` sleeps on a channel it captured before it released the
  locks, while updates replace the channel and `Delete` and eviction close it. No
  waiting `Get` may be forgotten, no channel may be closed twice by deletions, and an
  entry that was refreshed may not be evicted for its former age.
* **Signaling.** A connection can be replaced by another one of the same id while its
  goroutine is anywhere, in particular about to clean up; look-up and action are
  separate critical sections; writes are slow and fail. The table must only point
  at live connections, a message must not be delivered twice, a late clean-up must not
  hit the successor, nothing may deadlock on the two kinds of locks.
* **Directory.** Four tables must agree after any order of announcements, leaves,
  disconnections and sweeps.
* **Peer and node.** A connection is set up by one goroutine and closed by up to
  eight others, before, during or after it opens; the limit on connections is
  maintained by a callback. Goroutines must end, connections must be closed and
  forgotten, strangers must not stay.
* **capture-proxy.** A request ends on one of a dozen paths and may try two families,
  while other requests put those on cool-down and midnight resets everything. The
  counters must add up, a real error must not be hidden behind a limit, a ban must not
  outlast itself. A stream is read by one goroutine and relayed by another under three
  time-outs; whatever happens, the client gets one end and the tokens are billed once.
* **multi-proxy.** A source that works must be used, whatever the others are in.
* **webrtc-proxy.** All streams share one callback per side, which blocks while one
  stream's queue is full. Chunks must stay in order, an end must mean all of the body,
  and neither a stream nor the callback may be left behind when anything fails.
* **ECH client and library.** Loads and stores of several variables by threads that
  know nothing of each other. One initialisation at a time; ready must mean usable; a
  closed handle must stay closed; a key that changes on the server must be picked up.
* **ECH proxy.** Four caches that describe the same host are filled and cleared apart;
  bodies pass from a buffer to a stream at a limit; names are rewritten rule after rule.

The `hazards` of `PROJECT.json` give all of this line by line.

## 2. Modules

| module | models | composes / extends |
|---|---|---|
| `KVStore` | the store and the outcome of every REST operation | |
| `KVLinear` | a history of calls and the definition of linearizability | `KVStore` |
| `KVStoreProofs` | inductive invariants, theorems, linearizability among them | `KVLinear` |
| `Discovery` | the room directory | |
| `DiscoveryGraph` | who has dropped out since each report was stored: is the graph the graph of now | `Discovery` |
| `SignalServer` | registration, routing, queueing, clean-up; a crash, a half-open or slow connection | `Discovery`: the two share `s.mu`, and the end of a connection removes its directory record |
| `SignalServerProofs` | inductive invariants of directory, graph and server, one delivery at most, the server as a directory | `SignalServer`, `DiscoveryGraph` |
| `Peer` | `peer.go` and `connection.go` | |
| `PeerNode` | `onConn`, `OnClose`, hello timer, first frames | `Peer`: fills in the callbacks |
| `PeerNodeProofs` | inductive invariant of the limit, theorems | `PeerNode` |
| `CaptureProxy` | capture-proxy's handler, cool-downs, counters, ban list, daily reset | |
| `CaptureProofs` | inductive invariants of capture-proxy and of multi-proxy with it, theorems | `MultiProxy` |
| `RelayPromise` | what capture-proxy promises of a stream | abstract specification |
| `StreamRelay` | `forwardStream` and its reader | instantiates `RelayPromise`, which it implements |
| `RelayProofs` | the refinement's safety, billing | `StreamRelay` |
| `MultiProxy` | multi-proxy with several sources | `CaptureProxy` is its first source, and runs at the same time |
| `HttpTunnel` | streams, frames and queues on both sides of webrtc-proxy | |
| `TunnelProofs` | order and completeness of bodies | `HttpTunnel` |
| `TunnelConnect` | how webrtc-proxy's client gets its channel | |
| `EchClient` | `pkg/ech/client.go` and the shared library | |
| `EchClientProofs` | inductive invariant, theorems | `EchClient` |
| `EchProxy` | a request through the ECH proxy, and its caches | |
| `EchProxyProofs` | inductive invariant, theorems | `EchProxy` |
| `EchRewrite` | entries, wildcards, the rewriting and blocking of names | pure definitions |
| `MC...` | constants, symmetry and history variables for TLC | |

Mutants (a definition changed the way a bug would change it) stand just before the
definition they are a mutant of; they are not used by the specifications.

### KVStore

State: `m` is `Store.m`; `data`, `chOpen`, `stale` are the fields of entries (`stale`
stands for a `lastTouch` more than `ttl` ago); `pc`, `req`, `ent`, `held`, `res` are the local
state of one call per client, where `held` is the channel a `Get` captured.
Actions are critical sections: `Lookup` (the optimistic one), `Create` (with the second
check), `Update` (Set, ShallowMerge, DeepMerge), `GetSnapshot`, `Touch`, `GetWake`,
`GetTimeout`, `Peek`, `DeleteUnmap` and `DeleteClose` (the channel is closed after `s.mu`
is released), `EvictScan` and `EvictConfirm`, `Stop`. Merges are constants
`Shallow` and `Deep`: any functions from two documents to a document, so what is
checked does not depend on JSON. The panic of `close` on a closed channel is the result
"panic", which `net/http` recovers; locks released by `defer` are free after it.

### Discovery

`disc` is the activity per room, `colls` the metadata's list of rooms, `stats` the
record, `links` the reported peers, `now` the clock. `Announce`, `Leave`, `Forget` (the part of
`removeClient` and `handleDeadDst`), `SweepDiscovery`; `InRoom`, `Online`, `OfTypes`,
`Edges` are the answers to queries. `HandleAnnounce` and the queries read the clock before they take `s.mu`
(`signalserver.go:601-602`, 693), which a takeover may hold for the ten seconds of a write deadline; so `Announce` stamps
with any time up to now, and a query began at any time up to now. Load, uptime and names are left out.

### SignalServer

One goroutine per connection: `Connect` and `Takeover` (in between, `s.mu` is held while
the old connection's `sendMu` is awaited: variable `mu`), `SendOpen`, `Flush`, `Replay`, then
`Receive`, `Route`, `Forward`, `Enqueue`, `DropDead`, `CloseDead`, `SendLeave`, `FindSource`,
`TellSource`, and at the end `ReadFails`, `RemoveClient`, `Close`. A write takes two steps
(`BeginSend` takes `sendMu`; the write ends later, well or not), so it overlaps with
everything. `link` says how a socket is: a peer that is gone, a write that failed and
poisons all later ones, or closed here. `Break`, `SweepQueues` and `Directory` (the
actions of `Discovery`) are the environment and the sweeper. Messages expire in the order
in which they were queued, so how much time has passed is the choice of how many of the
oldest have expired, made where a queue is looked at (`Unexpired`). OFFER, ANSWER and CANDIDATE
are one kind of message, LEAVE and EXPIRE another.

### Peer and PeerNode

`sig`, `closeCh`, `msgs`, `starter`, `reader`, `loop`, `shutter`, `gather` are the
signaling half: `Dial`, `Await` (Start and failStart), `Read`, `Push`, `ReadFails` (readLoop), `Select`
and what follows (handleLoop), `Shut`, `ShutSignal`, `CloseNext`, `ShutDone` (Close).
Per connection: `stage` is the goroutine that sets it up (handleLoop for an offer,
OnDataChannel for a further channel, Connect for our own), `pcs`, `desc`, `chan`, `events` are
pion, and `closing[c][r]` is the call of `DataConnection.Close` for reason `r`, of which
there are eight. `Close` is two steps, `CloseEnter` and `Unregister`, and the callback: the
sections merged in `CloseEnter` touch disjoint state that nobody else relates.
`PeerNode` adds `count` (connCount), the `verdict` of the limit, the hello `timer`, and what the
first frames do. pion is external and assumed to behave as the comment at the head of
`Peer` says. The client role, without callbacks, is how `cmd/webrtc-proxy` uses a `Peer`.

### CaptureProxy, StreamRelay, MultiProxy

`CaptureProxy`: `cooldown`, `limFails`, `unsettled` (reqs - ok - errs) per family,
`banCount` and `banned` per client, and one record `req[r]` per handler: where it is, the
families `left` to try, what it will answer. Each lock is a step: `Gate`, `Incr` (ban
list), `ReadBody`, `Try` (the cool-down is read), what comes from upstream (`NoResponse`,
`ErrorResponse`, `LimitError`, `Accepted`), `SetCooldown`, `Relay`, `Finish`; the clock ends
cool-downs, windows and bans, and `Midnight` makes the daily reset due. Durations are
their kinds: a minute, five, until midnight. A stream is one step here, with
the outcomes that `StreamRelay` gives it.

`StreamRelay`: the upstream sends events (`Send`, in whole or in halves) and stops
(`Stop`); the reader goroutine is `ReaderSends`, `ReaderGivesUp`; the handler is
`PreRead`/`PreTimeout` (before the first byte), `Commit`, then `Receive`, `Event`,
`ErrorEvent`, `Drained`, `Fire` (the stall timer), `SealStream` and `Return`. A write is begun by one of these and ends in
`Written`, once the client reads or has left: neither `forwardStream` (`local.go:1203-1210`, 1257) nor its server (1807-1811)
sets a write deadline, and while the handler is in a write it looks at no timer. `Tick` is time, `ClientReads` the client that pauses
and goes on, `ClientLeaves` the request's context. Its state maps to that of `RelayPromise`: header
sent, number of [DONE], client gone, what the caller was told.

`MultiProxy` adds `ucool`, `exceeded`, `ustatus` per source and a record `fwd[r]` per
handler. When the loop reaches source 1 the request becomes a request of `CaptureProxy`,
whose steps interleave with everything; of the other sources only the answers are modelled. The word that says a quota is
exceeded may be in the body of any answer but a 200 (`main.go:250`).

### HttpTunnel and TunnelConnect

`HttpTunnel`: frames travel in `toServe` and `toClient` in order until the channel closes.
Client side: handler `h` (`Start`, `SendHead`, `SendBody`, `SendEnd`, `TakeHead` or `NoHead`,
`RelayBody`, `LastChunk`, `RelayTimeout`), channels `headCh`, `bodyCh`, `done`, and
the callback `ClientReceives`, which holds its frame in `cbC` while the stream's queue is
full. Serve side: goroutine `f` (`TargetAnswers`, `DoFails`, `RespBody`, `RespEnd`), the reader of the
request body (`Read`), `queue`, `eof`, `live`, and the callback with `cbS`. A body is the
sequence 1, 2, ... of its chunks, which is enough to see loss, repetition and disorder.

`TunnelConnect`: the dialling goroutine `dial`, pion's callback `fired`, and the two
events whose order decides: `onOpen` is set, and `onOpen` is read.

### EchClient, EchProxy, EchRewrite

`EchClient`: each load and store of `cfg`, `cache`, `client`, `initing`, `initDone`,
`initErr` is a step of one of three kinds of threads: callers (`ECHFetchBegin` with its
compare-and-swap, `ECHRead`, `ECHClose`, `SetDohURL`), the goroutine of `ECHInit`, and the refresh loop
(`Tick`, `Swap`, `RefreshFails`). `KeyChanges` and `KeyExpires` are the front domain and the
lifetime of the key.

`EchProxy`: `pc[r]` walks a request through `Match`, the choice of the outlet
(`ModeCached`, `ModeUnknown`, `KeepOutlet`), `ApplyCookies` (the jar, and over it the cookie `Fixed` by the configuration, `Overridden`), the addresses (`IPsCached`, `AskDoH`,
`StoreIPs`, `DoHFails`), the two rounds of `sniFrontDo` (`TryAnswered`, `TryFails`, `RoundFails`, `Forget`) or one
attempt (`SendAnswered`, `SendFails`), `SaveCookies`, and the body (`PassThrough`, `TooLong`, `Rewrite`, `StreamUnit`,
`StreamEnds`, `StreamBreaks`). The caches are `ipCache`, `modeCache`, `pool`, `jar`; `Expiry`, `CookieDies`
and `HostMoves` are time and the host. Text is a number of units here, because what is lost
or repeated is the question; what is written is `EchRewrite`'s.

`EchRewrite`: `Lookup` (exact entries, wildcards), `Rules` in any order the code's sort may leave
them in (`Orders`: exact names before wildcards, long names first, and names of one length
as the map and an unstable sort have them), and their application to text as token sequences: a name is never taken apart into
characters, but pieces may touch.

## 3. Runs

| run | instance | what it shows |
|---|---|---|
| `kv_store` | 2 clients, 1 key, 2 entries, eviction on, all updates | no lost wake-up (`NoLostWakeup`), a woken `Get` without data lost its entry (`WokenEmptyMeansGone`), `Delete` closes once (`DeleteNeverPanics`), only expired entries are evicted (`FreshEntrySurvives`), and a `Get` returns without its time-out once there is data or its entry is gone (`GetReturns`) |
| `kv_linear` | 2 clients and the evictor, 1 key, 2 entries, 4 calls or evictions | every history is linearizable, an eviction counting as a `Delete` that nobody called (`Linearizable`) |
| `discovery` | 2 nodes, 3 rooms, 5 ticks | activity, metadata and rooms agree (`RoomsMatchMetadata`), no edge of the graph was stored before one of its ends last dropped out (`GraphIsCurrent`), a sweep never drops who follows the protocol (`SweepKeepsFollowers`) |
| `signal` | 2 connections, 2 tokens of which 1 is accepted, 1 message, queues of 1, one room | the table is sound (`TableIsSound`), at most one delivery (`AtMostOnce`), a replaced connection is closed (`ReplacedIsClosed`), old clean-ups are harmless (`OldCleanupIsHarmless`), a broken connection is closed and removed (`BrokenIsRemoved`) |
| `peer_node` | limit 1; casts {b1}, {b1, b2}, {b1, its second channel}, {own} | types, with the closing reasons and the counter (`TypeOK`), the limit holds (`AcceptedWithinLimit`), handleLoop comes back (`HandlerReturns`), goroutines end (`GoroutinesEnd`), closed connections are forgotten (`ClosedAreForgotten`), what `Close` gathers stays closed (`GatheredStayClosed`), strangers leave (`StrangersLeave`) |
| `capture` | 2 requests of one client, both families, ban list on, one midnight | the counters of /status add up (`CountersAddUp`), a real error reaches the client (`RealErrorPassedOn`) |
| `sse_relay` | one stream of up to 2 events with content, channel of 1, a client that pauses and leaves | `StreamRelay` implements `RelayPromise` (`KeepsPromise`), tokens are billed once (`BilledOnce`), the reader ends (`ReaderEnds`) |
| `multi` | 2 requests, capture-proxy with its ban list and one other source | a request is not refused while a source is healthy (`HealthyServes`), a ban leaves no count behind (`BanStartsAfresh`) |
| `tunnel` | an upload and a download of 2 chunks, queues of 1 | bodies stay in order (`BodiesInOrder`), an end means all of it (`EndMeansWhole`), no stream and no blocked callback stays (`NothingLeftOver`) |
| `tunnel_connects` | one connection after the other | **finding**: an open channel is never used (`RequestsAreTunnelled` fails) |
| `ech_client` | 2 callers, 2 start-up goroutines, 1 handle, a key that changes once, 1 failure | one initialisation at a time (`OneInit`), ready means usable (`ReadyHasClient`), closed is final (`CloseIsFinal`), the client ends with the key in use (`KeyHeals`) |
| `ech_proxy` | 2 handlers; 1 wildcard host that leaves Cloudflare, 3 addresses, or 2 hosts with cookies | rewritten names lead back to the site (`LinksLeadBack`), bodies arrive whole (`WholeBody`), requests carry the configured cookie, or the latest living one saved (`CarriesLatest`), the outlet is right in the end (`OutletHeals`) |

### Bounds

* *KV*: the hazards need one key, a call in the middle of something and another that
  interferes; entries are recycled once nobody refers to them (`Garbage`), so two entries
  and two clients give unboundedly long histories. Linearizability keeps its history, so that
  is bounded: four calls and evictions (`MaxCalls`), enough for a call to be in the middle of
  something while its entry is evicted and another call makes the key's next one.
* *Discovery*: two nodes are enough for every pair property; three rooms against
  `MaxCollections` 2 let an announcement be refused; `MaxTime` 5 against `HeartbeatTTL` 2
  allows two expiries.
* *Signaling*: a connection and the one that replaces it or sends to it; a queue of one
  (`MaxQueued`) is full at once. Each message is sent once (`Signals`), each connection used
  once. The directory is small here, as it is checked by itself; larger numbers are
  the theorems' part.
* *Peer*: `MaxMsgs` 1 makes the channel full at once. `cast` picks the connections of a
  behaviour, so the run covers the sum and not the product of the casts, and
  `MaxFaults[cast]` bounds how often the environment ends something (LEAVE, a lost
  signaling server, Close, a channel closed by the other end, a late ICE failure, a bad
  frame): two for one connection. Two connections come with none: there the hello timers and
  the limit are the subject. The hello timer may fire while the ANSWER is made and sent, before the channel is up, and between
  its opening and `OnOpen`. Ten seconds are taken to be more than `NewPeerConnection` needs, and more than pion needs
  to report a further channel, which is open before the node hears of it (`Close` would leave it open until then).
* *capture-proxy*: a third limit error in a row locks a family until midnight, out of
  reach of two requests that start from nothing; `MCInit` therefore starts from any number of limit
  errors up to two, as earlier requests leave them behind once their cool-downs are over. `MaxDays` 1 has a
  request overlap the reset. `BanMax` 1 bans at the second request.
* *Stream*: with a channel of one the reader blocks at once; two events allow one before and
  one after a stall; the waits keep their order (`Gap` < `ToolGap`), which is all that is
  compared.
* *multi-proxy*: one source inside the model, one outside; the first covers every state a
  source can get into, the second is what a fallback needs.
* *Tunnel*: two streams so that one can block the other; bodies of two chunks against
  queues of one, so that a queue is full with a chunk to come.
* *ECH client*: two `ECHInit`s can overlap and a third would be refused as the second is; one handle
  is used by two callers; the key changes once, DoH fails once.
* *ECH proxy*: `MaxRewrite` 1 against bodies of 1, 2 and 3 units, so at the limit, one above, and one that is streamed on
  after that, coded soundly or not; one handler meets them, the other gives the caches a second user; `MaxPool` 1 lets an
  address push out another. A behaviour of the run is about these caches and bodies, or about
  two hosts reached directly whose answers set any cookie, alive or dead, one of them with a configured cookie: cookies meet neither caches nor
  bodies in the code, and the run covers the sum and not the product. For
  `EchRewrite` the entries have the shapes of `certs/l.moonchan.xyz/upstream.json` (exact, wildcard, with rewrites, and
  its entry `dlsite-img` for `img.dlsite.jp`), and the names are those of the sites, names that contain one
  (`notiwara.tv`, `www.iwara.tv.cn`), `img.dlsite.com`, and blocked hosts and their like, by pairs in quoted, protocol-relative,
  http, percent-coded and plain contexts, with and without a port. What the code gets wrong is among them, and
  named in the property as an exception (`Glued`, `LeadsTo`, and http:// in `Becomes`).

Deadlock checking is off where the modelled system may come to rest: a `Peer` that nobody
contacts, a bounded history (`kv_linear`), a finite set of requests (`capture`, `multi`,
`tunnel`) and a stream that has ended (`sse_relay`).

### Fairness

* `KVStore!FairSpec`: weak fairness of each call's own steps, `Return` included: Go
  schedules every goroutine and its locks are free between steps of the model. Time-outs, eviction and
  callers are not fair.
* `SignalServer!FairSpec`: strong fairness of each goroutine. Locks are contended, Go's
  mutexes hand over after a millisecond of starvation, and a write has a deadline of ten seconds.
  Nobody has to connect, send or crash.
* `PeerNode!FairSpec`: weak fairness of the program as a whole (goroutines, timers, and pion
  finishing a negotiation one way or the other). Environment steps are bounded in number, so this says
  no more than that nothing enabled waits for ever. Server, remote peers and callers are not fair.
* `StreamRelay!Fairness`: weak fairness of handler, reader and clock, and of a read that
  returns once its body was closed. Strong fairness of the two timers: Go's `select` picks at random among what is
  ready. The upstream owes nothing. Of the client it is assumed that it does not stay connected for ever without reading
  (`WF_vars(ClientReads(TRUE))`: it reads on, unless it leaves), and that a write it makes room for again and again ends (strong
  fairness of the handler). The code does not make up for a client that breaks this: it has no write deadline. A connection
  that is gone is TCP's matter, which ends the write.
* `HttpTunnel!Fairness`: weak fairness of handlers, callbacks and forwards; the time-outs of the
  program end every wait for the other side.
* `TunnelConnect!Fairness`: weak fairness of the dialler, of pion, of requests and of the 30-second timer; strong
  fairness of the callback and of the `select` that waits for it. The counterexample is therefore
  not a system that stopped.
* `EchClient!Fairness`: weak fairness of the refresh loop and of the key's expiry. Callers may
  stop anywhere.
* `EchProxy!Fairness`: weak fairness of the expiry of addresses and outlets: time passes. No handler has
  to go on.

## 4. What is proved

All theorems hold for finite or infinite sets of clients, connections, nodes, keys, messages,
handlers and streams, and for any bounds, except that the requests of `CaptureProxy` are a finite
set, because they are counted. Assumed are the named assumptions of the modules: merges of documents
are documents and null is no value (`KVAssumption`); reports and messages are built from
the declared sets, and `MaxQueued` and `HeartbeatTTL` are positive (`DiscoveryAssumption`,
`SignalAssumption`); a limit, a queue and a time-out is at least one (`CaptureAssumption`,
`RelayAssumption`, `TunnelAssumption`); the kinds of threads are different ones (`ClientAssumption`);
casts are sets of connections, limits and bounds are numbers and "no reason" is no reason (`PeerAssumption`,
`NodeAssumption`); multi-proxy is a client of capture-proxy's and a request
need not name a stack (`MultiAssumption`); DoH answers lists of addresses, "no cookie" is not the value of a
cookie, and `maxSNITransports` is positive (`EchAssumption`); entries have names and wildcards have three parts,
which are texts (`EntriesAssumption`). There
is one lemma per action. Most theorems state a property of a run for every instance; those that
do not are type theorems (that of `EchProxy` holds the limit of the pool and of the rounds), `RoomsAlwaysAgree`, `QueueAlwaysBounded`, `RelayKeepsPromise`, which states the
safety half of one, two that say what a composition keeps of a component (`ServerIsADirectory` and
`MultiRefinesCapture`), those about `TunnelConnect`, which prove the finding, and those about the definitions of `EchRewrite`.

**`KVStoreProofs`**: `TypeCorrectness` (`Spec => []TypeOK`), `NoWakeupIsLost`, `WokenEmptyIsGone`,
`DeleteIsSafe`, and the step property `FreshEntriesSurvive`. The inductive
invariant `IInv`: types; no entry under two keys; entries in the map have open channels; an entry
that a `Delete` took out still has an open channel and belongs to that `Delete` alone; a call whose
entry's channel is open works on the entry of its own key, unless it is being deleted; and the
channel a `Get` sleeps on is its entry's channel exactly while that is open. The third part is why
`Delete` closes safely, the last two are why no wake-up is lost: without them the invariants
of the runs are not inductive, because an update could be working on an entry of which
nothing is known.

`AlwaysLinearizable` (`LSpec => []Linearizable`, of `KVLinear`, for any number of clients, calls,
entries and objects, with a single key as the definition has it): a call takes effect in the section that reads or writes the
data of its entry, a `Delete` in the one that takes the entry out of the map. An eviction counts as a `Delete` that nobody
called and that nobody waits for (`LEvict`), so the theorem covers the store with its `ttl`. That is not an order yet: a call may
still write to an entry that a `Delete` or an eviction has taken out, and another may read what it wrote, when the key has
a new entry already. The invariant `LInv` says that there is an order of the calls
that took effect which explains their answers (`Order`, `Placed`) and in which every entry still in use has a place
(`Anchored`): the end of the order if it is in the map, otherwise just before the `Delete` that took it out, where the cell holds
what the entry holds; and no call that works on the entry began after one behind that place was over, which is why inserting it
there (`TakesEffectPreserves`) respects the history. That such an order is an outcome is an
induction on the calls. As an induction theorem with an operator parameter cannot be used, it is done with a
set of numbers (`SetInduction`, from the well-foundedness of `<`), and so is the existence of the function that
`Outcome` defines recursively (`OutcomeDefined`).

**`SignalServerProofs`** has four parts.

*The directory*: `DiscTypeCorrect`, `RoomsAlwaysMatch`, `RoomsAlwaysAgree` and the step property
`SweepAlwaysKeepsFollowers`, over a clock without bound. `RoomsMatchMetadata` is
inductive once every heartbeat is known to be a time of the past (`StampsArePast`). The
core is `SweepAllOrNothing`: all entries of a node carry the stamp of its last
announcement, so they expire together, and a sweep leaves a node alone or forgets it.

*The graph*: `GraphAlwaysCurrent`, of `DiscoveryGraph`, which notes who has dropped out since each node's report was
stored. What is inductive speaks of every reported edge and not only of those that queries show: its other end has not dropped
out since (`EdgesAreCurrent`), because whoever leaves is taken out of all reports in the same step. The order in which reports
are stored is what counts, not the time they are stamped with: a report that waited for `s.mu` may carry a time
before the other end's departure, and still be right.

*The server*: `ServerTypeCorrect`, `TableAlwaysSound`, `ReplacedAlwaysClosed`,
`QueueAlwaysBounded` and the step property `CleanupAlwaysHarmless`. The invariant `SigInv` adds to
the properties: a takeover, which waits for a lock with `s.mu` held, finds the table as it left it
(`TakeoverFinds`); every connection past the check has an accepted token
(`TokensAccepted`); and who comes to clean up has seen the connection fail (`FailureSeen`).
As connections do not recover (`LinksOnlyFail`), the last part is why a late
clean-up cannot hit a connection that works. Steps that leave the table alone are dealt with once, by
`QuietPreserves`. `ServerIsADirectory` (`Spec => DiscSpec`) says that every step of the
server is one of the directory or leaves it alone, and `ServerRoomsAgree` takes the directory's
invariants over to the server.

*At most once*: `AlwaysAtMostOnce`. A message is in the hands of a goroutine, in a queue, in
a batch that is being replayed, or written. The invariant is that no message is in two of these
places or twice in one (`NoCopies`), and that all of them have been sent (`AllSent`); every step is one of four
moves (`Drops`, `Passes`, `Takes`, `Adds`), none of which makes a copy.

**`PeerNodeProofs`**: `NodeTypeCorrect` and `AlwaysWithinLimit`. The limit is kept by a counter that
is the number of nothing: a connection that closes before it opened is never subtracted, as its callback is not
called. The invariant `NodeInv` bounds it from below by the connections whose callback may still come (`Live`:
their channel has not come up, is to be reported open or is open, or their callback is under way), and from above by those that
were ever counted. An open channel is live, so there are no more open accepted ones than live ones. What makes a
step lower both by one, and never the counter alone, is that a connection opens at most once and owes its callback
to one closer (`Orderly`).

**`CaptureProofs`**: `CaptureTypeCorrect`, `CountersAlwaysAddUp`, `BansAlwaysStartAfresh`, and the step property
`ErrorsArePassedOn`. `CountersAddUp` relates a difference of counters to the number of requests in flight on a
family, so each action is shown to change both by the same one, with the theorems on cardinality. It is
inductive together with types, with `BanStartsAfresh`, and with `ResetAfterMidnight`: requests may be
unsettled without being in flight only once a reset has run.
For multi-proxy, `HealthyAlwaysServes`: the invariant `MultiInv` says that a healthy source is never on cool-down
and that a request on its way has not yet passed any (`OnItsWay`), which is why it cannot run out of sources first; and
`MultiRefinesCapture` (`MSpec => Spec`), from which `BehindMultiProxy` has capture-proxy's invariants for the
composition.

**`RelayProofs`**: `RelayKeepsPromise` (`Spec => Promise!Safe`, the refinement without its
liveness) and `UsageIsBilledOnce`. The invariant `RelayInv`: the upstream's [DONE] is in one place only, with the
reader, in the channel, among the events not yet looked at, or passed on (`OneDone`), so that it cannot be
sent after the one that seals the stream (`SealedOnce`); and no report of usage exceeds the number of events
sent (`Reports`).

**`EchClientProofs`**: `AlwaysOneInit`, `ReadyAlwaysHasClient`, `CloseIsAlwaysFinal`. `initing` is set exactly while a
start-up goroutine is at work, until the first success (`InitingMeansWork`), so there is one at a
time (`OneAtATime`); the refresh loop is counted once that goroutine has stored its client (`LoopIsCounted`);
and of a handle, the flag is set before the body is closed, the body is closed before the
handle is deleted, and the handle is deleted before `ECHClose` returns (`HandlesInOrder`).

**`TunnelProofs`**: `BodiesAlwaysInOrder` and `EndAlwaysMeansWhole`. The invariant `TunnelInv` follows a body on its whole
way: what the target has read, then its queue, then the chunk the callback waits with, then the
frames still on their way, carry on from each other without a gap and up to what the handler has sent (`UpPath`); the same in the
other direction (`DownPath`). `BodiesInOrder` alone is not inductive, as it says nothing of what will be read next;
and `EndMeansWhole` needs that the end frame is behind the last chunk, which only the order of all the frames of a stream gives.
For `TunnelConnect`, `NeverTunnelled` shows that the finding of section 5 is no accident of one behaviour: `onOpen` is always
set after the callback was looked up (`TooLate`, the inductive invariant), so in no behaviour is the channel reported open or a request
served. `PromiseAlwaysBroken` follows: every behaviour in which dialling succeeds again and again breaks `RequestsAreTunnelled`.

**`EchProxyProofs`**: `EchTypeCorrect`, `BodyAlwaysWhole`, and the step property `LatestAlwaysCarried`. The invariant
`EchInv` follows the body from phase to phase (`BodyOK`): nothing is read before the head of the answer is dealt with,
and while the body is streamed, a browser that has not left has all that was read, which is what `WholeBody` lacks at the
handover from the buffer to the stream. `JarIsCurrent` says that the jar holds, at every moment, the last cookie with a lifetime that was saved of a host, while it
lasts, so that `ApplyCookies`, the only step out of `apply`, finds it whatever other handlers stored while this one
waited; a configured cookie comes before it (`Overridden`). A Set-Cookie that deletes is passed over by the code, and so
by the property (section 5). That the pool keeps its limit, and that the address to try next is one of the list although
another handler may have replaced the list in the cache, is part of the types.

The definitions of `EchRewrite` are proved about for any entries and texts, and not only for the run's.
`SubdomainsLeadBack` is the look-up half of `LinksLeadBack`: the entry that a page names for a subdomain leads to
that subdomain, or, if the configuration has an entry of that very name, to the host of that entry (`LeadsTo`; the repository's
`upstream.json` has one that differs, section 5). It supposes that no two wildcards of different sites can be around one
host (`Separate`), as Go walks the map in any order and takes the first; the run checks this for its entries. `LongerNamesStay` and
`WholeNameReplaced` are the promise of `replaceDomainBounded`: a name inside of longer names stays, a
whole name is replaced, and nothing else changes. They hold for names with two different tokens next to each other
(`Mixed`): after a place that is only part of a name the code goes on one character later and no longer sees what is
on the left, which for a name like `aa` would matter; a domain name always has a dot. That the
recursion defines a function on all texts is `RecursionDefined`, an induction on the length with
`SetInduction`; what it computes is then found by induction on what stands before the name (`Alone`).

**Only model-checked.** Liveness and what rests on ENABLED: `GetReturns`, `BrokenIsRemoved`,
`HandlerReturns` and the other `~>` of `PeerNode`, `ReaderEnds`, the liveness half of `KeepsPromise` (`Told`),
`NothingLeftOver`, `KeyHeals`, `OutletHeals`; and `LinksLeadBack`, which is about the entries of the configuration
at hand. Of what it rests on, the look-up and the replacing of one exact name are proved (above); wildcard
rules, the cutting of blocked URLs and several rules one after the other are not. Every other invariant and step property of the runs has a theorem.

## 5. What the models showed

**Finding** (`tunnel_connects`): webrtc-proxy's client registers its `OnOpen` after `Connect` has returned
(`cmd/webrtc-proxy/main.go:563`), but `Connect` returns because the channel opened, and by then `wireDataChannel` has
looked the callback up (`pkg/peerjs/connection.go:217-238`). The open connection is never used, and
closed after 30 seconds; `NeverTunnelled` (section 4) proves it of every behaviour. After a success the loop would end, so it never reconnects either.

The following were met while modelling; the models have these behaviours (unless said otherwise), and the
properties are stated so that they tell what does hold.

*Store and signaling*
* `Set`, `ShallowMerge` and `DeepMerge` close a channel again that a `Delete` or an eviction
  closed after they had looked the entry up, and panic (`store.go:132`).
* Entries made by `Get` and `Peek` stay for ever when `ttl` is 0 (`store.go:191`).
* The server registers a connection before it sends OPEN; a message that gets in between makes
  `Peer.Start` give up (`signalserver.go:406`, `peer.go:204`).
* Between the two sections of `route` the destination can come online and be replayed its
  queue; the message is then queued for a client that is online (`signalserver.go:466`).
* `handleDeadDst` drops a message without notice when the destination has registered again
  meanwhile (482, against the comment at 440); messages in replay are lost when the connection breaks (532).
* An announcement reads the clock before it takes `s.mu` (`signalserver.go:601-602`): after a wait, the time it is stored with may be
  before a departure that took place meanwhile, on the edges of the graph as well, and two announcements of one node that overlap
  may be stored in the other order. `GraphIsCurrent` is therefore about the order of storing.
* A LEAVE may arrive after its id is back (562). A node that announced itself without a collection is
  in no room and is swept away (161).

*Peer and node*
* A connection above `MaxConns` is closed before it has a PeerConnection, and is then set up all
  the same (`node.go:367`, `node.go:93`).
* A connection that is closed before it opened, or is rejected, keeps its slot of `MaxConns` for
  ever (`connection.go:443`).
* An offer that is handled while `Close` runs survives it (`peer.go:343`, `node.go:335`).
* Not in the model: `SendThrottled` waits for a channel that nothing closes (`connection.go:430`); a failing
  `newPeerConnection` leads to a nil dereference (`connection.go:159`).

*capture-proxy and multi-proxy*
* Three concurrent limit errors lock a family until midnight, although `local.go:89-92` says that momentary limits
  must not; `limFails` survives midnight; a later cool-down of a minute may overwrite one until
  midnight.
* A client that stays connected without reading keeps `forwardStream` in a write, for as long as it likes: there is no write
  deadline (`local.go:1203-1210`, 1807-1811). The stall timer runs meanwhile, so that a stream that is well may be
  cut off once the client reads on. `KeepsPromise` and `ReaderEnds` assume a client that reads on or leaves (Fairness).
* After the daily reset outcomes may exceed requests, for those that were in flight.
* multi-proxy takes "exceeded" in any body for an exhausted quota, against `main.go:246-249`; capture-proxy's answer to a
  banned client locks the source until midnight; `lastStatus` is shared, so a 502 may carry the status of another
  request (`main.go:184`); a late 200 clears `exceeded` while the cool-down stays.
* Not in the model: `Transport.Proxy` and `DialContext` ask for the proxy separately; `forwardPassthrough` is never
  called; multi-proxy's time-out leaves capture-proxy's request running.

*Tunnel*
* When `done` and a full `bodyCh` are ready together, the drain takes one chunk and the rest of a response may
  be cut off under a 200; with `headCh` and `done` ready it may be an empty 200.
* An upload the browser aborts ends in REQ_END, as a complete one does, and a response the target
  breaks off ends in RESP_END. `EndMeansWhole` is therefore about uploads that were not cut.
* A browser that reads slowly blocks the callbacks of all streams.

*ECH client and library*
* The default stored by `currentConfig` can overwrite a concurrent `SetDohURL` (`client.go:308`); the setters load,
  change and store, so one of two at once is lost; `doDohRequest` may take URL and address from different
  configurations.
* `ECHInitReady` returns -1 during a retry; an `ECHInit` between the store of the error and the clearing of
  `initing` does nothing; programs that only use `Do` never refresh their key.

*ECH proxy*
* A body that cannot be decoded is lost: the assignment at `proxy.go:913` overwrites it with nil, so that 936-943 has
  nothing to write, against the comments at 936-938 and 1041-1042 and `hardening_test.go:16-17`. `WholeBody` leaves these bodies out.
* A cookie that upstream deletes stays in the jar (`proxy.go:1336-1339`) and overrides the browser's, against the comments at 1303
  ("the same name overwrites") and 1357 ("what the server issued last counts"): `CarriesLatest` is about the last
  cookie that has a lifetime. Which of two answers is the last is the order of `saveCookies`, not that of the upstream. A DoH failure keeps the outlet "ech" for
  ten minutes; a look-up under way stores its old addresses after `clearIPCache` (1289), which
  is why `OutletHeals` needs both caches to expire; a request may be sent up to 2 times the number of addresses,
  whatever its method.
* Not in the model: the request to upstream is not tied to the browser's; `text/event-stream` is held back up to 8 MB;
  injection into HTML needs a path that never matches.
* Names, all of them in the run and named as exceptions in `LinksLeadBack`: `notiwara.tv` is taken for a host of `iwara.tv`, as
  the rule for `*.iwara.tv` is applied without its dot (`proxy.go:343`), against the comment at 386 and the test's
  `notpixiv.net` (`rewrite_test.go:45-50`), which only meets exact names (`Glued`); with the repository's `upstream.json` a
  link to `img.dlsite.com` gets the name of the entry of `img.dlsite.jp`, against 33-35 (`LeadsTo`); of a quoted "http://host" of a
  blocked host, "http:" and the rest of the URL stay (`Becomes`).

## 6. What is not modelled

* *Listing and reading files* (`pkg/peerfs/node.go`, handleRead and handleList): a loop over one file
  that sends meta, chunks and an end. Its only concurrency is `SendThrottled`, whose wait has no end on a closed
  channel (section 5), so a model would restate that line.
* *ICE candidates, heartbeats, retrieving an id, the data path* of a `Peer`. `NewPeerConnection` is
  assumed to succeed. pion, SCTP, TLS and DNS messages themselves are external.
* *peerfs-proxy*: its hello gate is `PeerNode`'s without a limit, its peer is `Peer`; a request is one goroutine that
  shares a counter with the others. *Browser bridge*: promises in one JavaScript thread, a model
  of its own. *opencode-proxy*: counters that do not depend on each other.
* *The server's HTTP gates and dashboard, the console, HTTP forwarding helpers, ip-proxy*: functions of one
  request, or two copy loops.
* *Within modelled parts*: parsing of SSE bytes, outbound proxies, metrics and pages (capture-proxy, multi-proxy); HTTP headers
  and the bytes of a frame (webrtc-proxy); service worker, certificates and loading of the configuration (ECH proxy).
* *Examples, probes, twitter-downloader*: linear programs.
