# A TLA+ model of yoyo

yoyo crawls the BitTorrent DHT: a node (`src/dht`) listens to other nodes,
learns infohashes from the peers that announce themselves and downloads their
metadata; a sniffer (`src/processes/sniffer`) writes what it finds to MySQL and,
with the tasks of `src/processes/magnet`, to an index that an API serves
(`src/server`). `src/libbtpool` is a C++ client of a query service on a C library.
The concurrency is in the Go package `dht` and between the sniffer, the tasks and
the API; `libbtpool` is sequential arithmetic, coding and files. This project models
them as a family of modules, checks each with TLC on small instances, and proves
every safety invariant of the runs with TLAPS for all instances.

## 1. Inventory

| Part | State | Operations | What is hard, and what makes it correct |
|---|---|---|---|
| transaction manager, `dht/krpc.go` | `cursor`, `queryChan`, the maps `transactions` (by id) and `index` (by type and address), one goroutine and one buffered channel per query | `sendQuery`, `run`, `query`, `insert`, `delete`, `filterOne`, the handlers of answers | check and insertion are far apart; answers race timers; both maps must describe the queries in flight; every query, caller and key must come free |
| routing table, `dht/routingtable.go` | a tree of buckets, `cachedNodes`, `cachedKBuckets`, `clearQueue` | `Insert`, `Split`, `Remove`, `RemoveByAddr`, `Fresh`, `GetNeighbors` | `Remove` works without the table's lock; the tree must partition the ids, and all its leaves must be refreshed |
| containers, `dht/container.go` | `syncedMap`, `syncedList`, `keyedDeque` | `Push`, `Delete`, `Iter`, ... | several locks, methods that take two of them in turn |
| blacklist, `dht/blacklist.go` | a map with ages | `insert`, `delete`, `in`, `clear` | test and set apart; a sweep in two steps |
| token manager, `dht/krpc.go` | a map from ip to token | `token`, `check`, `clear` | the same; a token is meant to be used once |
| packet pipeline, `dht/dht.go`, `dht/krpc.go` | the listener's buffer, `packets`, `workerTokens` | `listen`, `Run`, `handle` | one buffer for all packets; one loop that everything waits for |
| metadata download, `dht/peerwire.go` | `requests`, `workerTokens`, `responses`, a blacklist, pieces | `Request`, `Run`, `fetchMetadata`, `requestPieces` | back-pressure through three channels; pieces that are wrong, repeated or missing |
| peers manager, `dht/routingtable.go` | a keyed deque of peers per infohash | `Insert`, `GetPeers` | push, length and removal in three steps |
| bencode, bitmap, `getTopK`, compact forms: `dht/bencode.go`, `bitmap.go`, `util.go` | none | pure functions | indices and lengths read from the text, bits beside byte boundaries |
| sniffer, `processes/sniffer` | two tables, the requests of the wire | two callbacks of the DHT, the loop over responses | select-then-insert, status before post, counts out of order |
| magnet, `processes/magnet` | the status of a task, celery's queue | `begin_task`, `download_torrent`, `update_meta_info` | chains of tasks, paging over a set that shrinks |
| API, `server` | the index | update, search, suggest | get-then-index |
| query client, `libbtpool/btquery_client*` | the key of the last query | pack, send, unpack | lengths computed apart from the writes; a key kept between calls |
| big numbers and RSA, `bignum.c`, `bn_mul.h`, `rsa.c` | none | arithmetic, keys, encryption, signatures | carries, borrows, the guess of a quotient's digit, arguments that are one object |
| digests, `md5.c`, `sha1.c` | a context | streaming, one block | pieces that end anywhere, the padding, the carry of the count |
| AES and sealed texts, `aes.c`, `shub_encrypt.c` | none; a file | the cipher, sealing and opening a text, decrypting a file | pads at block boundaries; a file replaced in two steps |
| byte buffers, `bytebuffer.c`, `package_helper.c` | a buffer and a cursor | reads and writes, a mark of failure | ends of the buffer, byte orders, a failure tested once at the end |
| C bencode, `bencode.c` | trees | decoding, making, encoding | lengths read from the text |
| linked list, `list.c` | rings of nodes | insertion, erasure, swap, concatenation | a ring goes through its own list |
| files and other utilities, `sd_fs.c`, `utility.c`, `sd_socket.c`, ... | the system's | wrappers of system calls | partial reads and writes |

How they interact: the listener passes packets through a channel to `DHT.Run`,
which starts a goroutine per packet (`handle`); the handlers ask and change the
blacklist, the tokens, the routing table and the transactions, and may send
queries themselves; queries go through `queryChan` to `run`, which starts a
goroutine per query; `Run` also joins and refreshes. Announces reach the sniffer
by a callback, which writes to the tables and may hand a request to the wire;
responses of the wire come back through a channel. The tasks read the same
tables from other processes, and both post to the API. Everything shared within
a process is behind a mutex per container, and what is hard is what happens
between two of these critical sections, or between two statements on a table.

`PROJECT.json` lists every component with its status and every hazard with its
line and the properties that would catch it.

## 2. Modules

| Module | Models | Composition |
|---|---|---|
| `TransactionManager` | outgoing queries and the handlers that end them | uses the routing table as the set that `NodeSet` promises, and the blacklist as a set whose items may leave at any time |
| `RoutingTable` | the tree, the buckets and the two caches | implements `NodeSet` (`ImplementsNodeSet`) |
| `NodeSet` | the abstract specification of the table: a set, changed by one node at a time, never beyond `MaxNodes` | |
| `BlackList` | the blacklist and its callers | |
| `TokenManager` | the tokens and their callers | |
| `Packets` | listener, loop and workers | takes from `TransactionManager` that callers of `sendQuery` return (`CallersReturn`) and that a handler may never return (`WorkersLostOnlyToLateAnswers`) |
| `Wire` | the download of metadata, with the sniffer's loop as its consumer | |
| `PeersManager` | `Insert` over a `keyedDeque`, lock by lock, and `GetPeers` | |
| `Indexer` | the sniffer's callbacks and loop, the jobs of magnet, the two tables and the index | composes sniffer, magnet and API; the wire's responses come as `Wire` delivers them, genuine |
| `Magnet` | the chains of `begin_task` over the pages of rows | its downloads are those of `Indexer` |
| `Bitmap`, `Bencode`, `CompactInfo` | the pure functions of `dht` | `DhtChecks` compares them with references; `Numerals` is shared with `BencodeTree` |
| `BigNum`, `BigNumMod`, `Rsa` | `bignum.c` and `rsa.c` limb by limb | each over the one before; `NumberChecks` compares them with integers |
| `Digest`, `DigestSteps` | streaming and compression of `md5.c` and `sha1.c` | `CodecChecks` puts the parts together |
| `Aes`, `Sealing` | the cipher; the functions that seal texts with it | `Sealing` takes a cipher and a digest as parameters |
| `LittleEndian` | numbers as chars | used by `ByteBuffer` and `Sealing` |
| `ByteBuffer` | buffers and the package helper | used by `QueryClient` |
| `BencodeTree` | `bencode.c` | |
| `QueryClient` | a query and its answer | over `ByteBuffer` and `Sealing`; the server is external |
| `FileStore` | `sd_aes_decrypt_file` with crashes and failing calls | over `Sealing` |
| `LinkedList` | `list.c` on its links | implements `ListSequences` (`ListsAreSequences`) |
| `ListSequences` | the abstract specification of the lists: sequences of distinct nodes | |
| `MC...` | the instances TLC checks; `MCMaps` is that of the blacklist and the tokens, `MCParts` that of every part without a run of its own | |
| `...Proofs` | theorems about the module of that name; `ClientProofs` is about `libbtpool`: `LittleEndian`, `ByteBuffer`, `Sealing`, `QueryClient` and `FileStore`; `PartsProofs` about three more of the parts that `MCParts` checks, `LinkedList`, `Indexer` and `PeersManager` | |

**Granularity.** A step is what the code does while it holds one lock once, or
one channel operation, or one piece of work on local data. A method that takes
two locks in turn is two steps with everything else in between: `keyedDeque.Delete`
is `ReadIndex` and `Delete`, `blackList.insert` is `Insert` and `SetItem`,
`clear` is `Collect` and `DeleteMulti` (`CollectIPs` and `DeleteIPs` of the tokens). `routingTable.Insert` runs under `rt.Lock`,
which excludes other inserts and readers but not the rest of `Remove`; so it is
a walk of small steps too, one insert at a time (`writer`). The calls of
`cachedKBuckets` are steps of their own, for `Fresh` walks it without `rt.Lock`: a split
makes the children, deletes the parent from the deque (`FindCached`, `UnlistParent`)
and pushes the left and then the right child, while removals push buckets again
(`CacheBucket` and `Touch`, then `Relist` and `RelistTouched`, are the two locks of a push).

**Data.** A node is an address with the id it claims; its ip is shared with
others. In `RoutingTable` an id is a sequence of bits and the same id may be
inserted again. An element of a bucket is a node and whether the deque's index
knows it, because `PushBack`, which `Split` uses, is inherited from `syncedList`
and leaves the index alone. Time is a step that makes an item expired or a timer
go off. A token is a number, a packet the number of its arrival, and a piece of
metadata is good or bad (what sha1 tells). A transaction is named by the number
of its id.

`TransactionManager` in terms of the code: `frame[p]` is a call of `sendQuery`
(`CheckIndex` the tests of self and of the index, `GenTransID` the test of the
blacklist and the id, `SendQuery` the channel), with the requests the caller has
left; `pc[o]` is the place of the goroutine `query` (`Insert`, `Send`,
`SendFails`, `Receive`, `Timeout`, `GiveUp`, `Lookup`, `Remove`, `Delete`);
`handler[h]` is a packet in `handleRequest`, `handleResponse` or `handleError`
(`HandleRequest` and `HandleAnswer` choose, then `CheckFound`, `SetFound`,
`FollowUp`, `Push`, `Unblock`, `CheckInsert`, `SetInsert` or `BlockSender`,
`LookupSender`, `RemoveSender`). `Expire` and `Evict` are steps of the blacklist and
of `Fresh`. `SetFound` may or may not go on to ask for further nodes: whether the
table calls a node new (`routingtable.go:199`) depends on its bucket and not on the
address that the set of this module knows.

In `Wire` the blacklist is a map of its own with the steps of `BlackList`: the test of its
length and the set are apart (`DialFails`, `SetItem`), the sweep collects and then
deletes (`Collect`, `DeleteMulti`), and an expired item goes when it is asked for. A
port below 0, which lets `genKey` block a whole ip, is only in `BlackList`.

`Indexer` takes each statement on a table, each request and each answer for a step,
and a database transaction for its reads and then its commit. `proc[p]` is a callback,
the loop or a job, with what it has read. gorm scans all rows found into one task, so
that `Status` is that of the last. `Fails` is any call that fails; `Crash` is a restart of the
sniffer, which rolls an open transaction back and forgets what was requested. `nameless`
are the torrents whose name is there but empty, which the sniffer posts and the API does
not write; `lost` are those whose name a failure kept from the index: the post of the loop, or of a
job that went on, or the only announce, without which the loop has nothing to count.

The pure parts are operators and recursive functions, one per function of the
code, that return what the function leaves in its arguments; control such as loops
with early exits stays as it is where a return code or an index depends on it.
A number of `bignum.c` keeps its length, which decides where a carry ends, so that what is
left of an earlier use is passed on where the code reuses an object (`Rsa!Private`);
`DivMpi` is told which result takes the place of the dividend.
Bytes are numbers, their width is a constant (`CharBits`, or `CharBase` for the values
a char has), and a limb is a number
below `2 ^ (CharBits * Chars)` from which every carry and borrow is taken. Chars of
texts are strings of length one. Memory is a sequence, `NULL` and the failure of
`malloc` are left out. Each `...Checks` module states what its parts are compared with:
integers, sequences, or the published values of RFC 1321, FIPS 180 and FIPS 197.

## 3. Runs

All runs together finish in a few minutes. Every property of a passing run has a
mutant in the module, named in a comment above it: a form of one definition that
a plausible slip would give, and that makes TLC find the property violated.

| Run | Instance | Shows |
|---|---|---|
| `tm_safety` | 2 remote nodes behind one ip, `Run`, 1 caller, 2 workers, 1 query, 2 packets, a table of 1 | `TableWithinMaxNodes`: the test of `MaxNodes` and the insertion are apart, and only `rt.Lock` keeps two workers from exceeding it; `TypeOK` |
| `tm_progress` | 1 remote node, `Run`, 1 worker, 2 queries of one key, 3 packets, a channel of 1 | `TransactionsMatchGoroutines` and `IndexedIsLive`: the maps are exact although two queries of one key may overlap; `QueriesEnd`, `CallersReturn`, `KeysAreFreed`; `WorkersLostOnlyToLateAnswers` |
| `tm_resend` | 1 query, 2 tries | finding: an answered query is sent again |
| `table_split` | ids of 2 bits, K = 1, 2 ids that part at the last bit and one of them at 2 addresses, `MaxNodes` 2, 2 removers | `LeavesPartitionIds`, `IndexedWithinK`, `LeavesAreCached`: the tree and both caches under inserts, splits and removals, each leaf in the deque that `Fresh` walks or about to be pushed; `ImplementsNodeSet`, more nodes coming than the table takes; `TypeOK` |
| `table_remove` | ids of 3 bits, K = 2 | finding: nodes moved by a split cannot be removed |
| `maps` | blacklist: 3 addresses of 2 ips, 2 workers, the goroutine of `New`, size 2; tokens: 2 ips, 2 workers, 3 tokens | `Overshoot`, `ExpiredItemsGo`; `UsesBounded`, `ExpiredTokensGo` |
| `packets` | 4 packets, a channel of 1, 2 workers | `TokensCountWorkers` with the promise that `Run` never waits for a token, `ListenerReturns` |
| `packets_buffer` | 2 packets | finding: a queued packet is overwritten |
| `wire` | 3 requests (one honest peer with a piece and a part), each with an infohash of 20 bytes or not, 2 workers, other channels of 1 | `ResponsesAreGenuine`, `HonestNotRefused`; `RequestsEnd`, whatever the blacklist does meanwhile |
| `wire_whole` | 1 honest peer with one whole piece | finding: it is refused |
| `parts` | one part per behaviour, below | the sniffer and the index, tasks, peers, lists, the query client, files, and the pure functions |
| `parts_carry` | the arithmetic of `parts` | finding: a sum loses a carry |

In `parts` a behaviour chooses a part at the start and stays in it, so that the
states of the parts add up and do not multiply. A pure function is one step, which
chooses its arguments; what it has to return for them is said of that step
(`Chosen` in `MCParts`), as an action property:

| Part | Instance | Property |
|---|---|---|
| index | 1 torrent, with a name or an empty one, 2 addresses, 2 callbacks, 1 job, the loop; 3 calls, 1 failure or crash | `RowsBounded`: no more rows than callbacks, though they look before they insert; `FoundIsIndexed`: whoever finds a torrent, and whatever overtakes it, the torrent comes into the index, unless its name is empty (`nameless`) or one of the failures that cannot be made good met it (`lost`); every other failure is harmless to it |
| tasks | 4 rows, pages of 2, offsets to 2, 2 chains | `EveryRowTried`: although pages are counted over a set that shrinks, every row comes to be downloaded |
| peers | 3 peers, 2 workers, K = 2, 5 announces | `PeersKept`: what workers remove side by side leaves `get_peers` at least K + 1 less the number of workers |
| list | 2 lists, 3 nodes | `RingsClosed`; `ListsAreSequences`, the refinement |
| query | 4 queries, 2 answers, 2 calls, a cipher, digest and key pair that only have their inverses | `QueriesAnswered` |
| file | 4 blocks of 4 chars, a buffer of 5, failing reads, writes and deletions, 2 crashes | `TextIsOnDisk` |
| arithmetic, text, power, inverse, prime | limbs of 4, 8 and 16 bits; numbers of a few limbs with the largest and smallest digits; primes from 1 to 270 | `NumbersExact` |
| encryption, signature, sealing | keys of 24 and 32 bits in chars of 4; the real AES and MD5 on texts of 0, 12, 15, 16, 17, 28 and 32 chars | `SecretsOpen` |
| message, known | messages fed in 3 pieces to a digest with blocks of 4 words of one char; the published values | `DigestsStream` |
| buffer | up to 3 writes to rooms of 0, 3, 4, 7 and 10 chars of 2 bits, ints of 4 chars | `BufferReadsBack` |
| bencode, tree, goText, goValue, address | every text of up to 5 chars of a bencode alphabet (`d l i e : - ` and digits), texts whose length overflows, trees and values; bytes of 2 bits | `MessagesReadBack` |
| bitmap, nearest | arrays of up to 5 bits with bytes of 2; queues of up to 3 of 5 ids | `NeighborsNearest` |

**Bounds.** `MaxQueries` and `MaxPackets` end a behaviour of `TransactionManager`;
two queries are what it takes for an overlap of one key and for a full channel,
and three packets of one query are one more than `trans.response` holds with one
try. `NoIdWrap` says that ids do not repeat within a behaviour: the code's cursor
wraps after 2^32 - 1 queries. In `RoutingTable` `MaxLength` bounds the list of a
bucket, which an insert racing removals lengthens; buckets of one node and two ids that
share their first bit give two levels of splits, the last one at the full depth of the ids. Four
arrivals are two handlers that never return, a packet in the channel and one the
listener holds: the listener would be stuck there if `Run` did not drop packets. `MaxTokens` allows a token
that replaces another and one more.

In `Indexer` `MaxCalls` is one call more than it takes for two callbacks to look
at once: a third meets what they have left. `MaxFaults` is one failure anywhere, or
one crash. In `Magnet` two pages and a chain that a page without rows adds show rows that slip
to a page already read; `LastOffset + Limit` covers every row that is left, as in
the code with up to 200 100 rows. In `PeersManager` both workers can find the
deque overfull at once after four pushes, and `MaxPushes` 5 leaves one more. Limbs of 4 bits make the second
correction of a quotient's digit, which is seldom with 32, a frequent case; limbs
of two chars make chars and limbs different things. A digest's count of bits carries
after the second piece, since its words are of one char. Texts to be sealed
lie on and beside the boundaries of blocks. Five chars are enough for a bencode
string in a list, a nested list and every error of the two decoders.

Deadlock is not checked where a bound or a full table ends the run, where all
requests have ended, where the tokens are used up, or where a part of `parts` has its
arguments; it is checked in `packets`.

**Fairness** is weak fairness of steps that Go's scheduler takes sooner or later
(a goroutine that can run, a timer, a ticker), and strong fairness where a
goroutine competes for a channel: Go's channels serve waiting senders in turn, and
`select` chooses at random. Nothing is assumed of packets, of the application, of
remote peers or of handlers, except in `Wire`: that no peer talks for ever.
A read renews its deadline of 15 s with every message, so a peer that sends
keep-alives for ever does keep a worker. In `Indexer` one of the goroutines and
jobs that count and post goes on as long as one can, which is less than each of
them doing so; nothing is assumed of callbacks, answers or downloads. In `Magnet`
celery starts a `begin_task` that is due, and its query does not fail: a chain ends
when it does.

## 4. Findings

1. `tm_resend`: the `break` at `krpc.go:296` leaves the `select`, not the loop.
   An answered query is sent again until its tries are used up.
2. `table_remove`: `Split` moves nodes with `PushBack`, so that they are in no
   index. `Remove` does not find them, and a silent or lying node stays in the
   table. The same run shape shows that inserting such a node again adds a
   second element and reports it as new (`routingtable.go:199`).
3. `packets_buffer`: `listen` sends slices of one buffer (`dht.go:215`).
4. `wire_whole`: metadata whose size is a multiple of `BLOCK` is never fetched
   (`peerwire.go:336`).
5. `parts_carry`: the carry loop of `mpi_add_abs` (`bignum.c:703`) counts `i` but leaves
   `p` where it is. If the limb above the added ones is full and not the last, it wraps to 0
   and takes the carry a second time, and the limb above keeps its value: on
   limbs of 4 bits 511 + 5 is 276. `mpi_read_string` so misreads the decimal 36893488147419103232
   (2^65). Only where the number grows does `p` follow. `NumbersExact` states what comes
   out (`LostCarry`) and holds everywhere else; the RSA operations do not run into it with the keys
   of the run, nor can the last sum of `rsa_private`, whose second operand is the longer or 0.

Seen while modelling, and not kept as runs; in the DHT:

- a removal in the middle of an insert leaves an address in `cachedNodes` whose
  node is in no bucket, or a bucket list longer than k (`routingtable.go:385`, `:201`);
- an insert that ends at the last bit of the ids places the node nowhere;
- `MaxNodes` counts addresses, buckets hold ids: ids that share an address are all kept;
- the sweeps of blacklist and tokens delete items renewed between their two steps;
- the configured `BlockedIPs` are swept after an hour like any other item;
- `check` accepts an expired token that has not been swept yet;
- the blacklist outgrows `BlackListMaxSize` by up to one item per goroutine less one;
- while a split is under way, `Fresh` sees a leaf that is not in `cachedKBuckets` yet, or
  the parent that is no leaf any more: it visits the child the next time.

in the peers manager:

- an element without a key stays in the deque: once it is at the front, `Insert`
  finds an overfull deque, takes nothing off, and the queue grows with every announce; and a worker may
  remove the peer that has announced itself last;
- `keyedDeque.Push` of a known key leaves the old element in `invertedIndex`;

in the sniffer, the tasks and the API:

- `download_torrent` sets status 2 over 1, although `tables.sql` gives 1 for a
  torrent that was found; after that neither requests nor counts are made for it;
- a post that fails after status 1 was set is never tried again, and `hot` may lag
  behind after posts that overtake each other, until the next announce;
- a torrent whose name is there but empty gets status 1 and is never indexed: the sniffer asks only
  whether there is a name (`sniffer.go:92`), the API writes only a name that is not empty (`models.go:193`);
- a torrent whose only announce could not be stored gets status 1 without a post, since the
  count is 0, and later announces post a count without a name;
- a torrent is requested although its row could not be created; errors of a commit are not looked at;
- an empty page of `begin_task` adds a chain beside the one it belongs to, and
  `celeryconfig.py:15-20` starts `begin_task` without its offset argument;

in `libbtpool/utility`:

- `bignum.c`: `mpi_div_mpi` writes Q and R before it has read the sign of A
  (`bignum.c:1145-1156`): with R in place of A an A of -|B| or below gives the remainder of |A|,
  which `NumbersExact` states; with Q in place of A both signs are those of B, and R is 0 where
  |A| < |B|; the callers divide numbers that are not negative in place, or drop R;
  `mpi_cmp_mpi` compares lengths before signs; `mpi_mod_int` is wrong for a
  divisor over half a limb; `mpi_add_abs` of a number to itself in place would lose every carry, which no
  caller does; `mpi_read_string` loses "-" in a radix other than 16 and
  `mpi_read_file` the sign; `mpi_write_string` needs a byte more than it asks for with a
  negative hexadecimal number; `mpi_gcd` leaves common factors of 2 out and does not
  end for B = 0, nor does `mpi_inv_mod` for N = 1; `mpi_is_prime` is a Fermat test
  that accepts 1 and refuses 2. `NumbersExact` says so where it compares (the
  sign, 1 and 2) or takes other arguments;
- `rsa.c`: a RAW signature of the length of an MD is not verified;
- `aes.c`: the `sd_aes_` functions ignore their key; `sd_aes_decrypt_file` loses the
  text after a read or write that is cut short, or a bad pad, and does not truncate
  a temporary file left from a crash; `em_aes_decrypt` accepts a pad of 0 or below;
  `xl_aes_decrypt` reports success for a bad length; the pad of an empty text is read before its start;
- `bencode.c`: "-3:" makes the decoder loop; `rawLen` leaves ":" out, so that a
  decoded string encodes without its last char; look-up of a key matches a prefix; encoding has no limit of depth;
- `package_helper.c`: a `PushCStr`, `PopString` or `IgnoreString` that fails leaves no mark;
  `PopCStr` and `GetString` take a length below 0;
- `btquery_client_common.cpp`: building the reserved field reads beyond a short channel;
- `sd_fs.c`: `sd_copy_file` reports success when a file cannot be opened, `sd_write_v` when a part was
  written; `sd_mkdir` and `sd_rename_file` test and act in two calls.

## 5. Proofs

TLAPS checks, for every value of the constants that satisfies the named
assumptions of the modules (`TMConstants`, `NoIdWrap`; `BLConstants`, `TKConstants`,
`PKConstants`, `WRConstants`, `RTConstants`, `LLConstants`; `IndexAssumption`,
`PeersAssumption`; `SizesAssumption`, `BlockSizeAssumption`, `FileAssumption`; and
`ClientAssumption`, `LengthsAssumption`, `ParametersAssumption`). TLC evaluates them in
every run. What only a theorem assumes is told with it below.

- `TypeCorrect`, `TransactionsCorrect`, `IndexCorrect` (`TransactionManagerProofs`).
  The inductive invariant `IInv` adds to `TypeOK` that the id of a query is its
  number (`IdsAreNumbers`, so that ids are distinct), that a query being pushed or queued
  is in one place once (`FramesHoldMade`, `QueueHoldsQueued`, so that `run` starts one
  goroutine for it), that `transactions` holds the registered goroutines
  (`TransactionsAreLive`), that the loop counter leaves room where a goroutine
  sends (`LoopCounter`), and that a handler signals a query that exists
  (`HandlerNames`). There is a lemma per action or group of alike actions; `NextIInv`
  combines them. `IndexedIsLive` is part of `IInv`: the index may name either of
  two overlapping queries of one key, and whichever ends first clears the entry.
- `TableBounded`: `TableWithinMaxNodes` follows from a second invariant that
  counts the node about to be set with the table while a worker is between test and set; it is
  inductive because `TableFree`, the lock, lets one worker be there.
- `TableUsedAsNodeSet`: every step of the queries and the handlers changes the table as
  `NodeSet` allows, so that this module and `RoutingTable` agree on one specification.
- `BlackListTypeCorrect`, `BlackListBounded` (`BlackListProofs`): `Overshoot` is not
  inductive; `Room`, which counts the goroutines between test and set with the
  items, is.
- `TokenManagerTypeCorrect`, `TokenUsesBounded` (`TokenManagerProofs`): a token's uses
  and the workers that hold it in `check` are together no more than the workers
  (`UsesAndHolders`). That needs to know that a token about to be set is nowhere else
  (`SetOnce`), stands under one ip (`OneIP`) and is gone once used (`UsedIsGone`).
- `PacketsTypeCorrect`, `PacketTokensExact` (`PacketsProofs`): packets pass through the
  listener, the channel, `Run` and the workers in their order (`InOrder`), so that a
  packet's goroutine starts once and each start and return counts.
- `WireTypeCorrect`, `WireResponsesGenuine` (`WireProofs`): the type invariant says nothing of the
  length of the blacklist, which concurrent inserts exceed. A request is in one place
  (`QueuedOnce`), and from the last piece on has all its pieces and only good ones
  (`WholeOnes`), because sha1 is tested before it goes on.
- `WireHonestNotRefused`: no piece of an honest peer is refused if none has metadata that fills
  its last piece (`NoneFull`). `FitsUnlessFull` reduces the test of a piece's
  length to the remainder of the size: the finding of `wire_whole` is the only case there is.
- `TableImplementsNodeSet`, `EveryLeafCached` (`RoutingTableProofs`):
  `NodeSet` bounds the set by `MaxNodes`, which `Insert` tests long before it sets the node; the
  refinement holds because `rt.Lock` keeps other inserts out and removals only make room
  meanwhile (`RoomForWriter`). `EveryLeafCached` is about every moment between the steps
  of a split: it replaces a leaf by both its children in the tree (`LeavesSplit`), and from then on
  a child is in `cachedKBuckets` or the insert, or a removal that has just taken its key
  out, has yet to push it. `CacheInv` adds that what the insert deletes from the deque is no leaf
  any more (`ParentSplit`); `RemoverStillPushes` and `WriterStillPushes` say that
  a push under way stays so until it lists its bucket.
- `TableTypeCorrect`, `BucketsHoldAtMostK`, `LeavesPartition`: the invariant is `TableInv`.
  `OneLeaf` says that every id has one leaf on its way, which a split keeps.
  `IndexedWithinK` is not inductive: the list may grow beyond K by elements without a key,
  and a removal may come between the test of an `Insert` and its `Push`. What survives is
  `WriterHasRoom`: fewer than K elements of the writer's bucket have a key, or its own id
  has one, which the `Push` replaces. `LeavesSound` says that what is in the bucket of a
  leaf is under it, and needs to know where the writer stands in the tree.
- `PeersAreKept` (`PartsProofs`): `PeersKept` looks at one step and depends on what the others have
  seen. `EnoughHeld` says that while t workers are between the test of the length and
  the removal, K + 1 + t elements were there but for one per worker, the element
  a `Push` holds outside of the list counted; one worker at a time pushes (`OnePusher`).
- `ListRingsClosed`, `ListEndsAreNodes` (`PartsProofs`): `RingsClosed` becomes
  inductive when it says both directions agree (`BothWays`), rings share nothing
  (`Apart`), every node of a list is reached from it (`Connected`) and counted (`Counted`).
- `ListsKeepSequences` (`PartsProofs`): the lists implement `ListSequences`, every step a
  step of it or a stutter. `RingsClosed` is not enough, for it says nothing of the order;
  `Threaded` says there is a sequence for each list that its pointers run through. A lemma per
  operation says which sequence threads the list next, and `WalkIsThread`
  that the walk of the refinement mapping finds the one there is.
- `TextStaysOnDisk` (`ClientProofs`): `FileInv` says for each step what the file beside the
  sealed one holds: a beginning of the text, which the buffer goes on with up to the
  offset that has been read (`Waits`), and the whole text where the sealed file may
  go. A crash leaves a beginning, and the next call writes over it from the start
  (`OverlaidBegins`), so that a rest that was not cut off does no harm. A file that is not
  of whole blocks is refused and stays. Assumed are that a deciphered block is as long as the
  block was, that no read or write takes less than it is given (`WholeCalls`), and that a file of whole blocks has a pad: otherwise `aes.c` overwrites
  the error by the result of the last write and deletes the file (see section 4), so
  that the theorem would be false without them. Read, write and delete errors and
  any number of crashes are covered.
- `IndexerRowsBounded` (`PartsProofs`): a callback adds a row however many there
  are by then; counting the callbacks that have found none with the rows makes the bound
  inductive (`RowRoom`, `PeerRoom`), since one begins like this only where there is no row.

- `AnswersAreRead` (`ClientProofs`): `QueriesAnswered`. The invariant is `ClientInv`: the server
  would read from each packet that was sent what its query said (`Sent`), and an answer on its
  way is what the server makes of a response for such a packet, cut by n chars
  (`Answered`). It holds whatever the sizes, the queries, the responses and the
  number of calls are, and of what comes back for a query that was not the last nothing is
  claimed: the client has only one key. That the actions keep it is a statement about
  texts, and the proof is built in layers like the code:
  - `NumberReadBack`: a number that fits n chars is read back from them;
  - `SetBytesWrites`, `GetBytesReads` and those over them: a cursor that has the text t to write
    (`ToWrite`) or to read (`ToRead`) goes on with the rest of t; `WrittenIsRead` says
    that at the end the memory is t. So `PackedIs` gives what `set_query_params` writes
    without steps, and shows that the buffer has just the room it takes;
  - `CipheredOpens`, `PaddedOpens`, `KnownKeyOpens`, `PacketOpens`: a text cut into blocks,
    ciphered, joined, deciphered and freed of its pad is the text; `xl_aes` keeps the first two
    words, from which the key is made, and replaces the third by a length;
  - `HeaderIs`, `PacketHas`, `PackedSeals`: where the packet holds the key and the body, and
    that `packLen` allows for both pads (nothing is written past the end);
  - `Limits`: no length of a query whose reserve fits its buffer overflows its word;
  - `QueryEncoded` and `AnswerDecodes` say what both ends make of all that.

  Assumed are `CipherInverts`, that `aes_cipher` makes chars of a block and `aes_invcipher`
  undoes it under every key that the digest gives, and `RsaInverts`, the same of the
  key under RSA. Both are about functions that are parameters here; that AES is undone,
  block by block, is what `DigestsStream` and `SecretsOpen` check of `Aes` with TLC, and the
  toy cipher, digest and key pair of the run `parts` satisfy both.
- Recursive functions. The library's induction theorems take an operator as a parameter, which
  the provers cannot instantiate; what `Power` and `NumberOf` compute is shown by way of the
  least element of a set of numbers instead (`LeastNumber`, `Induction`, `Recursion`
  in `ClientProofs`): a set with 0 and with every successor is all of them, and a recursion has
  a function that it defines.

Every safety invariant of the runs is proved, and so are the action properties and
refinements that are about state (`ImplementsNodeSet`, `ListsAreSequences`, `PeersKept`,
`HonestNotRefused`). Only model-checked:

- all liveness: fairness and ENABLED are beyond the prover;
- what the pure functions compute (`NumbersExact`, `SecretsOpen`, `DigestsStream`,
  `BufferReadsBack`, `MessagesReadBack`, `NeighborsNearest`): `BigNum`, `Bencode`, `BencodeTree`
  and others are recursive operators, in whose reach nothing can be proved. Of
  `BufferReadsBack` what the client uses is proved as lemmas on the way to
  `AnswersAreRead`.

Some definitions are written for the proofs without a change of what they say: removal from a
list takes the two sides of a place instead of filtering (`ListRemove`,
`ElementsAt`), the text of a file is given char by char (`Plain`), a text is cut into blocks and
joined again by the places of its chars (`BlockOf`, `Joined`), and `Power` is a
function for `^`, of which the provers know nothing.

## 6. Not modelled

- Two overlapping calls of `Fresh`: their deadlock needs the reader locks that `Iter`
  holds for a whole walk, while the models take a walk for one step.
- `bucket.Fresh`, `ping` and the rest of `Replace` after its first
  return cannot be reached, since no candidate is ever kept (`IndexedWithinK`).
  `announcePeer` is never called.
- Search and suggestion of the API are questions to Elasticsearch; the middleware
  is metrics, logging and recovery.
- Random strings and the addresses of the machine in `dht/util.go`; the textual
  forms of bitmaps.
- `utility.c`, `sd_socket.c`, `sd_time.cpp`, `sd_string.cpp`, `base64.c`,
  `basic_type_convertion.c` and the part of `sd_fs.c` beside the functions
  `sd_aes_decrypt_file` uses: wrappers of system calls and general helpers.
  The hardware variants of `bn_mul.h` compute what its C one does.

## 7. Plan

1. `Fresh`: the reader locks that `Iter` holds, `clearQueue`, two overlapping calls,
   and the deadlock of hazard `routingtable.go:526`.
2. Proofs: the facts of `Bitmap`, `CompactInfo` and `Aes` that need no recursion; that `Aes`
   satisfies `CipherInverts`.
3. `base64.c` and the directories of `sd_fs.c`, should the client come to use them.
