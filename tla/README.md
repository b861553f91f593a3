# A formal model of fastcgicdnhttp11

The program is a caching proxy: nginx hands it requests over FastCGI, it
answers from files in a cache directory or downloads them from the origin over
HTTP/1.1 and keeps them. It is one thread around `epoll_wait`. What makes it hard is
not parallelism but *re-entrance and lifetime*: a handler calls others that
close, move and free the objects the first one is working with, over plain
pointers, and events that were fetched for an object may be handled after it
was closed.

## 1. Inventory

| Component | Source | State | Operations | Talks to |
|---|---|---|---|---|
| Main loop | `main.cpp` | lists of objects to delete (`newDelete*`, `oldDelete*`) | `epoll_wait`, dispatch by kind of object, deletion after two rounds | everything |
| Timers | `Timer.*`, `Timer/*` | none of their own | `CheckTimeout::exec` (1 s), `DNSQuery`/`DNSCache` | Backend, Http, Client, Dns |
| Client | `Client.cpp`, `Client.hpp` | request, status, host, the download or cache file it reads | parse FastCGI, `loadUrl`, `dnsRight/dnsError/dnsWrong`, read and send the file, disconnect | Dns, Http, Cache |
| Dns | `Dns.cpp` | `queryList`, `queryListByHost`, `queryByNextDueTime`, counters, answer cache | `get`, `cancelClient`, `parseEvent`, `checkQueries`, `cleanCache` | Client |
| Http (a download) | `Http.cpp` | host, uri, its connection, its clients, progress of the answer, `pathToHttp` | `tryConnect`, `readyToRead`, `addClient/removeClient`, `disconnectFrontend/Backend`, timeouts | Backend, Client, Cache |
| Backend (a connection) | `Backend.cpp` | socket, its download, TLS state, buffered request | `tryConnectInternalList`, `remoteSocketClosed`, `downloadFinished`, timeouts | Http |
| BackendList | `Backend.hpp` | `busy`, `idle`, `pending` of one address | used by the two above | |
| Cache | `Cache.cpp` | one descriptor, access and modification times; a debugging registry of descriptors | read, write, newFD/closeFD | Http, Client |
| Https | `Https.cpp`, `Http.cpp` | its own `pathToHttp` and lists | as Http, over TLS | Backend |
| Server | `Server.cpp`, `ServerTCP.cpp` | listening socket | accept | Client |
| Common, xxHash | `Common.cpp`, `xxHash/` | none | conversions, hashes | |

How a request runs: `Server::parseEvent` accepts a `Client`; it reads the
request, looks for the file in the cache, for a download of the same path in
`pathToHttp` (then it joins it), and otherwise asks `Dns` for the address of the
origin. `dnsRight` makes an `Http`, which gets a `Backend` from the pool of that
address: an idle one, a new one below `--maxBackend`, or none (it goes to
`pending`). The `Backend` reads the answer into the `Http`, which writes the cache
file and wakes its clients. At the end the connection serves the next of
`pending` or becomes idle.

What makes each correct, and what is hard about it:

* **Pool and downloads.** The two pointers `Backend::http` and `Http::backend`, the
  three lists and the path map have to agree after every handler although each
  of six handlers (`readyToRead`, `remoteSocketClosed`, `downloadFinished`,
  `disconnectBackend`, two `detectTimeout`) changes several of them and calls the
  next one half way. Nobody may name a freed object. Downloads that wait are
  served, in order, or told. No path may stay bound to a dead download.
* **Resolver and clients.** A query points to its clients; the clients end in
  eight ways. Three indexes of the queries have to agree. Replies are
  datagrams: late, lost, double, and they race the retries.
* **Deferred deletion.** `main()` and `CheckTimeout` both hand closed objects to
  the deletion lists.
* **Transfer of one answer.** Header and chunk parsing over buffer borders, the
  resend of a request on a new connection, the `.tmp` file and its rename,
  clients that follow the file while it grows: one thread writes to all of them, and the
  loops over them change the list they run over.
* **Asserts.** Only the `DEBUGFASTCGI` build compiles (`Makefile:9`), so each
  assertion is an `abort()`; systemd restarts the service
  (`fastcgicdnhttp11.service:8`). A crash is therefore a transition of the model.

The hazards, each at its line with the properties that watch it, are in
`PROJECT.json`.

## 2. What is modelled

### `BackendPool.tla`: connections, downloads, paths, main loop

The state is that of one `BackendList`, of the `Http` and `Backend` objects that
use it and of `pathToHttp`; the variables have the names of the fields. Objects
are identified by their address, so an id is used again after a deletion, as
`new` would do. A handler that calls other functions is a chain of actions, one
per function, linked by `pc`; nothing else runs in between, as in the program.

| Actions | Code |
|---|---|
| `EpollWait`, `Event`, `HandlerEnd` | one round of `main()`: deletion, events fetched before their handlers, what is closed is given up |
| `Join`, `NewOnIdle`, `NewConnected`, `NewPending`, `NewConnectFails`, `ClientGone` | `Client::dnsRight`, `Http::tryConnect`, `tryConnectInternalList`, `removeClient` |
| `Read*` | `Http::readyToRead`: status line (also one that is cut: `ReadStatusCut`), header, body, errors |
| `ClosedUnanswered`, `ClosedToIdle`, `ClosedToNew`, `ClosedConnectFails`, `ClosedFree` | the branches of `Backend::remoteSocketClosed` |
| `FinishUnanswered`, `FinishToPending`, `FinishToIdle`, `FinishRefused`, `Detach` | `Http::disconnectBackend` around `Backend::downloadFinished` |
| `BackendTimeout`, `HttpTimeout`, `HttpCheck` | `CheckTimeout::exec` |
| `Restart` | systemd |

Loops that erase from the vector they index are modelled by what they do: the
loop over `pending` of a refused connection gives up every *second* download
(`Erased`, `Kept`). Null dereferences and failed assertions set `crashed`.

`Turns.tla` is what the pool promises, with no word of connections: at most `maxBackend`
downloads are served at once, one begins to wait only while that many are, those who
wait get their turn in the order of arrival or leave, and in one round several of those served
may end (the timeouts of several connections close them at one tick). `InTurn` says that `BackendPool`
implements it, with `served <- {http[b] : b \in busy}` and `queue <- pending`.

Abstracted: the bytes of the answer (only how far it is read, `stage`), the
request buffer (both are `Exchange`'s), TLS, the clock (anything the timer looks at may be too old), and
which of several clients of a download is meant (`fronts` says whether it has
any; `Delivery` has the list itself: when no handler runs it holds exactly the clients that
have the download).

### `Resolver.tla`: queries, clients, deferred deletion

`Dns.cpp` with the life of a `Client` from `accept` to `delete`: `queryHost`,
`waiters`, `retryTime` and `nextRetry` are the fields of `Query`; `byHost` and
`byDue` are the two indexes; `sent` counts the copies of a query that may still
be answered. Times are relative to now, so `Tick` moves the buckets. `Reply`,
`ReplyIgnored` and `Lost` are what the network may do to each copy; `Get*` are the
branches of `Dns::get`; `CheckQueries` sends again what is due and ends it after the third
try; `removeQuery` erases the whole bucket, as in the code (`NotDue`).

Abstracted: the packet format (a reply is right, bad or unreadable), IPv6
addresses, the difference of http and https clients, the parsing of FastCGI (`Request`),
what the client does between its answer from the resolver and
its end (`EndedByHttp`; that part is `BackendPool`'s and `CacheFile`'s).

### `Delivery.tla`: one answer, its clients and its cache file

`BackendPool` says *whether* a download has clients and how far its answer is read;
`Delivery` takes one download and follows what is written. `clientsList` is the
vector of `Http`. The loops of `Http` over it call `Client::writeEnd`, which erases the
client from the vector under the iterator. So a loop (a step of `todo`, `Visit`) goes
through the memory the vector had when the loop began: `RemoveClient` moves down what
follows, and leaves a copy of the last element behind the end (`stale`), where only a
loop finds it. A handler is the sequence `todo` of the steps it still has to do, so
`DisconnectFrontend` is `<<"end", "clear", "assert">>`, as in the code.

| Definitions | Code |
|---|---|
| `Output`, `ContinueRead`, `Finish`, `End`, `HttpError`, `StartRead`, `ReadFinal` | `Client::writeOutput` and `write`, `continueRead`, `writeEnd`, `httpError`, `startRead` of the `.tmp` and of the cache file: each gives the set of what the client may be afterwards |
| `Join`, `ReadCached`, `Start` | the branches of `Client::dnsRight`; `Http::addClient` |
| `Gone`, `ReadyToWrite`, `Delete` | the events of a client |
| `StatusOk`, `HeaderEnd`, `NoTempFile`, `HeaderFails`, `StatusOther`, `StatusCut`, `Data` with `Count` | `Http::readyToRead` and `Http::write` |
| `DisconnectBackend` | the rename of the `.tmp` file |
| `Served`, `ClosedUnanswered`, `ClosedAnswered`, `NotReplaced`, `BackendDeleted`, `Fails` | what the pool does to the connection of this download |
| `HttpTimeout`, `HttpCheck`, `Restart` | the timer, systemd |

The descriptor of a client blocks. It is the one `accept` returns; line 231 of `Server.cpp` announces to
make it non-blocking, and nothing does (`Client`, `EpollObject` and `epoll_ctl` leave its flags alone). So a write
sends everything, or fails, or the process waits in it; EAGAIN does not occur, `dataToWrite` stays empty, and
of `readyToWrite` only the call of `continueRead` is reached. What those branches would do is in section 6.

Abstracted: an answer is a header and `Blocks` blocks of the length that `Content-Length`
says; how the parser gets there is `Exchange`'s. A block is one call of `writeOutput`, so a cut inside a
block is not told apart from one before it. That a write waits for its peer is a step that takes long (section 4).
Client sockets are edge triggered (`Server.cpp:234`): EPOLLOUT may come at any time, and nothing says it comes. The
revalidation of an old cache file (304) is a choice of `StatusOther`; what it means is in
`CacheFile`.

### `Answer.tla` and `Exchange.tla`: one connection, several downloads, read by read

`Exchange` has one connection to an origin and the downloads that use it one after another.
`SendWhole`, `SendPart`, `SendBehind` and `SendFails` are what `Backend::socketWrite` may do with
a request; what it keeps goes to `bufferSocket`. The answer is on `wire`, a sequence of tokens;
`Read(k)` takes any first part of it, so the network may cut everywhere. `ReadOtherCode`,
`ReadHeader` and `ReadContent` are the three parts of one turn of the loop of `Http::readyToRead`;
the pure part of it, what one read means, is `Answer`: `HttpCode`, `Header` (recursive over the
lines, `HeaderLine` is one of them) and `Chunks` (recursive over the chunks of `Http::write`, `ChunkSize` and
`ChunkBytes`). What one download leaves, on the
wire and in `bufferSocket`, is there for the next.

The parser does not continue what a read has cut: what `headerBuff` keeps is copied in front
of the next read, but the next read is parsed by its own length (`Buffer`, `Http.cpp:373-395`), and
`chunkLength` is -1 after every part of a chunk (1818). So a token says whether it must come with
the one before it (`joined`), and `harmed` counts the reads since a download met a cut
that the code does not survive, or a connection that was not clean. The properties about what is
understood hold while `harmed = 0`: for each way to cut the answer elsewhere. What a
harmed download does is in the model as well (up to `MaxHarmed` more reads), with the assertion of
1866 and 1940 as `crashed`.

Abstracted: a word is two tokens or one, which is enough for a cut inside of it; of the header
lines only the one the parser depends on is there (`Content-Length`, or another name); hexadecimal
numbers are one token; `etag` and `content-type` change nothing here; TLS.

### `Request.tla`: the FastCGI request

The records a web server sends, arriving in halves; `ReadyToRead` is one call of
`Client::readyToRead`: one `read` of at most `ReadSize`, the loop over the records in it (`Parse`, a turn of it is `Record`),
and with the end of the request the origin it names (`Origin`) and the call of `loadUrl` or the
page given instead (`Outcome`). `Accept` is `Server::parseEvent`, which reads at once and waits there until something has come
(the descriptor blocks); `edge` is the edge triggered report of epoll. The parameters of a record that is cut are
taken only for the loop protection, which answers before the cut is noticed (`Looped`; `seen` says whether that
parameter is in front of the cut). The sizes of names are numbers modulo `2^Width`, because the code
subtracts them unsigned and compares with `npos`: `Meaning` says what a name is for, and `Wraps`
which names the arithmetic takes for another.

Abstracted: the letters of names (a name is its size and whether each part the code looks for is
there), the sizes of parameters (a record is there or cut), the second domain only in its effect on
https.

### `CacheFile.tla`: one URL over days

What `loadUrl` and `dnsRight` decide from the file's times and ETags, what a download
stores (`NewFile`, `Stored`) or confirms (`Arrives304`), the copies of the browsers, and an origin
that publishes versions and goes back to old ones. `gone` is how long a version has not been the
content of the URL, so that `FreshBody` relates what is served to what was true and not to what the file says.

Abstracted: times are ages in units of which `TimeToCache` is two; a download ends within a unit
(a download without a byte for 30 seconds is ended); answers other than 200 and 304 store nothing; the
six random characters of a frontend ETag are never those of another in use. A body is one value: partial
files are `Delivery`'s. The test for a cache file of less than 25 bytes (`Client.cpp:892`) is not modelled: the program
leaves none (`disconnectBackend` aborts on a `.tmp` file of less than 25 bytes, and renames only what has more, `Http.cpp:1305-1324`), so only
somebody else who writes to the cache directory can make one; the same holds for a file whose header was corrupted.

## 3. Runs

| Run | Asks | Instance |
|---|---|---|
| `pool_one` | the safety properties of the pool and `FifoPending` | 3 downloads, 2 connection objects, limit 1, failing connects, 2 closing bits |
| `pool_two` | `IdleIsFree` and the refinement `InTurn`, where moves to idle connections, refusals beside busy ones and two ends in one round happen | limit 2 |
| `pool_live` | `Released`: no client of a download is forgotten and no path stays bound to it | 2 downloads, 2 paths, limit 1 |
| `dns_queries` | the safety properties of the resolver and the deletion lists | 2 clients, 2 hosts, 2 ids, late rounds |
| `dns_live` | `TimesOut`, `Reaped` | 2 clients, 1 host |
| `delivery` | the list agrees with the clients, a loop that erases under its iterator passes over few of them, and the end of a request is told only with the whole file | 4 clients, 2 blocks |
| `exchange` | what is understood of an answer however it is cut, what a download leaves on its connection, what the origin hears | 3 downloads; answers with a length, empty, of two chunks, and a 404 |
| `request` | what is loaded is what was asked, once; nothing is forgotten; connections that are not one request are not answered | GET and POST, 17 names at the borders of the arithmetic, 4 paths, 5 odd connections |
| `cache` | bodies are not older than the time to cache, 304 never keeps another content, the origin is asked only when the file is stale | 2 browsers, 3 versions: a short ETag, the longest that is stored, one too long |
| `delivery_cache`, `exchange_own`, `cache_confirmed` | one claim of a comment each, refuted (section 6) | |

Bounds and why they are enough. Every conflict in the pool is between a
connection that closes, the download it carries, one that waits and one more
(the loops over `pending` behave differently for first, second and third): three
downloads, one or two of them busy. `Room` keeps a busy connection from closing
when no id is left for its replacement; two connection objects and a limit
of one leave one to spare, and the proofs (section 5) are for every number. A limit of two
with three connection objects was beyond the time a run may take. `MaxCloses`
is the number of closing bits in one event; the code may see three. `maxBackend` is above 0: `--maxBackend=0` is left out, with which the first connection to an
address is opened all the same (`Backend.cpp:609-636` does not look at the limit). In the
resolver `Limit` and `RetryDelay` are 1 so that the limit and the collision of two
queries in one second occur; `MaxLate` lets one round last a second longer than
it should, `MaxCopies` limits the copies in flight to two of three (three in
`dns_live`), `MaxSurplus` cuts the counter that only goes down; `FreshId` and
`FreshClient` keep an id or an address from being used again while some structure names it:
the wrap of the 16-bit id (after 65534 queries a new one overwrites a query that never
ended) and the reuse of the address of a client in a deletion list are therefore outside
these runs.

In `delivery`, two blocks give a first, a last and a step between. A loop over four clients may lose two, and passes
over one at most; over two clients it passes over none. With five, the fewest of which it passes over two, the result
was the same in seven times the time; the proofs are for every number (section 5). `View` leaves out what was sent to a
client that is closed and not deleted yet: no step depends on it and no property speaks of it any more.

In `exchange` the third download meets what two before it have left; an answer of three bytes in chunks of
two and one has a cut inside of a chunk, between chunks and in each part of their lines; `MaxHarmed` only
ends the misery of a download that reads what it should not. In `request` records arrive in
halves and four of them fit a read (`ReadSize`), so requests fit one read, need two, and are cut at
and inside of records; `Width` is 8 bits, more than any size of the instance. In `cache` the time to cache is two units, so that a
file can be fresh, fresh at its last moment and stale; five frontend ETags are enough that one is always
unused (`CacheFileAssumption`).

Symmetry is used in the safety runs only.

## 4. Fairness

`Handler` and `HandlerEnd` are weakly fair: a handler returns. `Restart` is:
`Restart=always`. `epoll_wait` has timers in its set, one of a second and one of
10 ms for the resolver, so rounds go on, and each handles all of its events
before the next: strong fairness of `EpollWait` and of the
events, because a timer or a request may come in between. `CheckTimeout` visits all that is busy
or in `pathToHttp` at every tick.

Two assumptions are not justified by the code alone:

* *The origin does not feed one download for ever*: at some tick the visited object is too old.
* *A handler returns.* The descriptors of clients block (`Server.cpp:212-236`), and their peer is nginx: the read
  at accept (242) waits until it sends something or closes, and a write to a client waits while the buffer of the socket
  is full. As long as that peer does neither, no other event and no timer is handled. So `Released`, `TimesOut`
  and `Reaped` hold of a proxy whose web server sends the request it connects for and reads the answer it asked for, or closes. The
  safety properties do not depend on it.

Nothing is assumed of the
network to the origin: replies may all be lost, and `Lost` and `Reply` are not fair. Requests
and departures of clients are not fair either.

## 5. Proofs

Each theorem holds for every value of the constants; what it assumes of them is the `ASSUME` of
the module it is about (names that differ, natural bounds, `None` is none of the objects), unless a
row says more. The proofs of a component share one inductive invariant, `IInv`, which TLC checked on the
component's run before it was proved; a second one is added where more is assumed.

| Module | Theorem | Property |
|---|---|---|
| `BackendPoolProofs` | `TypeCorrect`, `LinksCorrect`, `PoolBounded`, `IdleCorrect`, `NobodyWaitsForIdle`, `PathsCorrect`, `WatchCorrect`, `DoomedCorrect`, `NeverDangling`, `AbortsExcluded`, `ServedInOrder` | `TypeOK`, `Links`, `PoolBound`, `IdleIsFree`, `NoIdleWhilePending`, `OneDownloadPerPath`, `WaitingIsWatched`, `DoomedUnreferenced`, `NoDangling`, `SafeAborts`, `FifoPending` |
| | `PendingCorrect` | `PendingUnlinked`, which has no run of its own |
| `BackendPoolTurns` | `PoolGivesTurns` | `InTurn` |
| `DeliveryProofs` | `TypeCorrect`, `ListCorrect` | `TypeOK`, `ListAgrees` |
| `DeliveryWhole` | `MissesFew`, `EndsWhole` | `LoopsMissFew`, `EndIsWhole` |
| `ResolverProofs` | `TypeCorrect`, `WaitersCorrect`, `QueriesCorrect`, `DueCorrect`, `KnownCorrect`, `EventsCorrect` | `TypeOK`, `WaitersAlive`, `QueriesIndexed`, `DueIsQuery`, `KnownNotAsked`, `EventsAlive` |
| `ExchangeProofs` | `TypesKept`, `HeardWhole`, `Understood`, `NothingMoreComes`, `LastLineOnly`, `AbortsNeedCut` | `TypeOK`, `WholeRequests`, `AnswerUnderstood`, `NothingToWaitFor`, `OnlyLastLineLeft`, `AbortNeedsCut` |
| `CacheFileProofs` | `TypeCorrect`, `SameCorrect`, `AskedCorrect` | `TypeOK`, `SameMeansSame`, `AskedOnlyWhenStale` |
| | `FreshCorrect` | `FreshBody`, where the ETags of the origin tell its versions apart (`TagsTell`) |
| `RequestProofs` | `TypeCorrect`, `OneRequestCorrect`, `AnsweredCorrect` | `TypeOK`, `OnlyOneRequest`, `AnsweredOnce` |
| | `ForgottenNever` | `NotForgotten`, where every conversation has the end of a request (`Ended`) |
| | `ServedCorrect` | `ServedAsAsked`, where the parameters come in one record (`Together`) |

**The pool.** None of the properties
is inductive alone, because between two functions of one handler the structures
disagree: the download `rel` being disconnected is out of some of them and still in
others. So `IInv` adds, among others, `Control` (what holds at each `pc`: where `cur` is,
who `rel` is), `LinkedLive` (what a connection names is alive, except when
stale), `Stale` and `StaleDoomed` (which connections may still name a download
that left them: closed ones, in no list, given up), `OpenBusy`, `Closed`, `Finishing`
and `Leaving` (the state half way through `disconnectBackend`). A frame lemma
(`Structural`) covers every action that leaves the structures alone; the others have
one case each. `FifoPending` follows from `IInv` step by step.

**The refinement.** `BackendPoolTurns` maps each action of the pool to one of `Turns` or to a stutter (the
table at its head) under `IInv`: `PoolBound` gives `Start` its room, `Links` makes "who is served"
change by one, and the loop that erases every second waiting download leaves a subsequence. The attempt found the
abstract specification wrong: it let one download end at a time, which `pool_one` cannot tell
from the code, and with two connections `EpollWait` closes two.

**A download and its clients.** Inside a handler `clientsList` and the clients need not agree: a loop may pass over a
client, and `clear()` takes it out of the list though it still has the download. `ClearedIsAsserted`
says that whoever is so forgotten is looked for before the handler ends (the assertion of
`disconnectFrontend`), so that the process ends and not the agreement; with `ListLinked`, `ListOnce` and `LinkedOpen` this
is `ListAgrees` for every number of clients. `StepsLeft` says which lists of steps a handler may still have to do.

`DeliveryWhole` has what a client gets, for every number of clients and every length of the body. Nobody can rely on the loops
to reach everyone, so `WholeInv` does not: `Follows` says of each client alone that it reads the `.tmp` file and has
got the front of it, up to where it is, or has got nothing; that is true of a client a loop passed over as well. `writeEnd` reads on
before it tells the end, so at that point what was sent is the file (`EndTold`). `StepsRight` says when the clients of a file are
ended: when it is whole, when the timer has closed the connection, or behind the assertion of `backendError` that aborts first.

How many a loop passes over is `LoopsCount`. When the client at the iterator is erased, what is behind it moves down by one (`MemoryMoves`), and the
one that comes to the place of the iterator is the only one of the list that it does not visit any more (`RemovedInOrder`), unless it was the last,
which is found again behind the end. So a loop passes over at most one client for each it loses, and two are still behind
it when it does; hence fewer than half of those it began with, and of two none.

**The resolver.** The properties hold together: a query points to living clients (`WaitersAlive`) because `disconnect` finds the query of a
client through `queryListByHost`, and that index is right (`QueriesIndexed`) because what `checkQueries` ends is a
query (`DueIsQuery`) although `removeQuery` erases whole buckets. `GivenUpClosed` and `AcceptedFresh` are
added for the deferred deletion: no event that `main()` has fetched is for a client it deletes.

**A connection.** `WholeRequests` needs `RestKept`: as long as the origin has heard half a request,
`bufferSocket` is not empty and keeps the requests of later downloads away.

The other properties speak of the end of a download or of an empty wire, and say nothing of a read in the middle. `Right` does: as
long as nothing harmed (`Following`), there is a `p` such that what is parsed stands for the first `p` tokens of the answer
(`ParsedTo`: before the header, at the end of one of its lines, or in the body) and the rest of it is on the wire. In the body,
the file is its first bytes, and `p` is where those end (`LengthAt`), between two chunks (`Between`) or
behind the size of one (`Opened`). `NotBegun` and `Unsent` say what a download finds that asks again on another connection,
and `Ended` and `OnlyLastLineLeft` what it leaves. `Right` was an invariant of a TLC run, on more
answers than those of `exchange`, before it was proved.

What a read does to `p` is a fact about `Answer` alone. `Header` and `Chunks` are recursive over positions from the front of
a text to its end, and what the one at position `i` gives depends on positions behind it only (`LineLocal`, `SizeLocal`): so the
functions exist and are what their definitions say (`HeaderLines`, `ChunkSizes`). `TextIs` says which token is where in
an answer of every form, `HeadCuts` where a cut in a header does no harm, `HeaderRead` what the parser makes of a header
from any of those places to any other, and `ChunkRead` and `BytesRead` the same of a chunk when it holds of the chunk
behind it; `ChunksRead` is the induction over how many bytes of the body are still to come. `ReadAt` connects these to a read,
one lemma per action takes `Right` over it, and in `AllRead` no place is left that a download could wait at. Of the
answers nothing is assumed but that their status is a number other than 0 and their sizes are numbers
(`ExchangeAssumption`), and that a chunked body has at most two chunks with bytes in them, as `Text` makes them.

**The cache file.** `Unambiguous`: any two copies with one frontend ETag, in the cache, in a `.tmp` file or in a browser,
have one content. For `FreshBody`, `NotOlder` (a file is at least as old as its content is gone) survives a 304
only if the ETag that is confirmed is that of the content (`OwnTag`, `Asked`). `TagsTell` is what that needs of
the origin, and without it the property fails: this is the run `cache_confirmed`.

**The request.** A read parses as many records as it has got, so what a turn of the loop keeps has to be carried along
them. `Numbers` is induction for sets of numbers (from the library's well-founded orderings; its induction theorem itself
cannot be used here), `Turns` that the recursive function of `Parse` exists and is a run of `Record`s; with them `ParseKeeps`
takes `RecordStep` from the first record of a read to the last. `ReadWhole` is the invariant over the reads: unless the connection
was closed, what was read is whole records of one request (`OneRequest`), and it is answered when its end was among them. The
names need no induction but the arithmetic of `size_t` (`MinusIs`; of its width only that it holds the sizes of the two domains is assumed): a suffix or tail that is absent is found exactly where the size
wraps (`SuffixFound`, `TailFound`). Both hypotheses are needed: parameters in two records with a read between them break
`ServedAsAsked` (section 6), and a request without its end is never answered.

Only model-checked:

* liveness (`Released`, `TimesOut`, `Reaped`): the prover has no rule for fairness and ENABLED.

## 6. Where the program and what it says of itself differ

Three are runs whose counterexample TLC finds; `findings` in `PROJECT.json` quotes the lines.

1. `delivery_cache`: `disconnectBackend` makes a `.tmp` file that lacks its end the cache
   file. (A connection that closes in the body breaks the same property in another way: the
   request is sent again, but `resetRequestSended` leaves `parsing` as it is, and the second
   answer is appended to the first, status line included. This is `Raw` in `Delivery`.)
2. `exchange_own`: `flushRead` gives the connection away before it reads the rest of an answer
   that is not 200; the next download takes that for its own answer.
3. `cache_confirmed`: a 200 without an ETag is stored with the ETag of the content before it, and a later
   304 confirms the wrong content.

The others are formulas of the modules that do not hold. Each is reproduced by a cfg above
with its properties replaced by the one named here.

* `PendingOnlyWhenSaturated` (`pool_one`): `pending` is non-empty below the connection limit after a
  refused connection, because the loop that gives the waiting downloads up erases from the
  vector it indexes (`Backend.cpp:176`); the next timer tick then fails an assertion.
* `Resolver!Answered` (`dns_live` with two hosts, two ids, `MaxCopies = 1` and the constraint `EarlyOnly`):
  `removeQuery` drops the retries of every query due at the same second (`Dns.cpp:795`); their
  clients may wait for ever.
* `DeletedOnce` (`dns_queries`): `main()` and `CheckTimeout` each put a closed client on the way to deletion
  (`CheckTimeout.cpp:72`).
* `NoClientRemains` (`delivery`): the loops over `clientsList` skip a client for each one they
  end (`Http.cpp:1016`); with three clients the assertion behind the loop aborts.
* `EndIsWhole` without `~flowing` (`delivery`): when the timer ends a download, the loop of the error (`Http.cpp:2036`) passes
  over a client too; no assertion is behind it, and `disconnectFrontend` (2042) then tells that client the normal end of
  a file of which there is only a part. It takes three clients.
* `EndIsWhole` with one `Header` for `Headers(k)` (`delivery`): the loop that starts the clients on the file (`Http.cpp:811`) that loses a client with two more
  behind it passes over the next and visits the last twice, which is sent the header twice. It takes three clients.
* `NobodyLags` (`delivery`): a client that the loop of `Http::write` (`Http.cpp:1758`) passed over is not woken for this block. It reads on
  with the next one or with the end. It takes three clients.
* `HeaderContinued` (`exchange`): a header that arrives in two reads is not understood as in
  one: a `Content-Length` at the cut is lost, and the body is taken for chunks.
* `UsageIsUsage` (`request`): when the end of a request (STDIN) comes in a read of its own, `host` and
  `uri` were cleared by it (`Client.cpp:176-178`) and the answer is "CDN bad usage".
* `ServedAsAsked` (`request` with `ReadSize = 4` and a request whose `host` and `uri` are in two records): each read clears
  what the one before it has found (`Client.cpp:176-178`), so the origin is looked for in a part of the parameters.
* `FreshOrAsked` (`cache`): `If-None-Match` is answered 304 without a look at the age of the file
  (`Client.cpp:867-883`); the copy of a browser may stay as old as the file, if nobody else asks.
* `EtagStored` (`cache_confirmed` with `Tag <- Wide`): an ETag of 128 to 255 characters is not
  written because its size is compared as a signed char (`Cache.cpp:369`); from then on each request
  that finds the file stale is an error 500 (`Client.cpp:1415-1428`).

Behaviour of the models that no property names:

* `flushRead` calls `disconnectBackend` before `disconnectFrontend`, which the comment of
  `Http.cpp:1284` forbids (`StatusOther`, `StatusCut`, `ReadStatusOther`, `ReadStatusCut`).
* The assertion about the `.tmp` path (`Http.cpp:1165-1173`) can never hold: a timeout in
  the body aborts the process (`AssertTemp`, `BackendTimeout`).
* The counter of queries in progress drifts with every lost or double reply
  (`inProgress`): what `Dns.cpp:699` calls overloaded may be an idle resolver.
* Nothing calls `Backend::readyToWrite`: a request that is written in part is never completed
  (`SendPart`, `SendBehind`). Were it called, it would erase the wrong end of the buffer (972).
* An answer of no bytes is not ended by its header (`NothingToWaitFor` excludes it): its clients wait for the timeout.
* Names that wrap (`Wraps`): a name of 13 characters (18 with the second domain) is taken for one of
  the CDN's own, as is a label of two or three characters under it. In the model
  `cdn1.confiared.com`, of 18 characters, is so forced to https.

Seen beside the models. The output of clients is written for sockets that do not block, which they are not (section 2). Were
they made so, as `Server.cpp:231` says, the code kept for it would lose and repeat data: `readyToWrite` erases the whole buffer when its write finds
the socket full (`erase(0,-1)`, `Client.cpp:1727`), keeps it when the write was complete, to be written again (1723-1726), and
tests an `errno` it did not reset (1715); `write` takes -1 for the number of bytes written (1825).
Further: http of the host `foos` and https of the host `foo` have the same cache path
(`Client.cpp:690-715`); positions in a read are 16 bits wide (`Http.cpp:390`); `startHttps` waits in a
loop for the handshake on a socket that does not block (`Backend.cpp:648`), and nobody else is served meanwhile; a
connection taken from idle keeps its old time stamp until it is read (`Backend.cpp:1135`), so the first
tick may end its new download.

`Released` holds despite the aborts because the process restarts. It is checked with connects that do not
fail at once: a reconnection that does (`Backend.cpp:241`, "todo abort client") leaves the
download without a connection, and its path may stay bound. That nothing then dangles is checked (`NoDangling`, with such failures in
`pool_one`).

## 7. Plan

Done: all modules of section 2 with their runs; the proofs of section 5.

Next: **Composition**, `fronts` of `BackendPool` as an abstraction of `clientsList`, and the connection of
`Delivery` as one of `BackendPool`. Then what `Exchange` says of a chunked body of any number of chunks: `Text` would
get a sequence of sizes, and `IsChunk` its partial sums; the lemmas about one chunk do not depend on how many there are.

## 8. Not modelled

`Cache`'s descriptor registry (`newFD`, `closeFD`) is debugging code, as is the page of `loadUrl` that lists all objects
(`Client.cpp:546-683`). `Https` repeats `Http` with its own map, over OpenSSL, whose states are the library's. `Timer` and the set-up of sockets have no state worth a
property. `binarytoHexa` and `xxHash` are conversions whose results the program compares only with
themselves; that two URLs have different hashes is assumed everywhere.
