# A TLA+ model of libHSPlasma

libHSPlasma reads, edits and writes the data files of the Plasma engine
(`core/`) and speaks its network protocols (`net/`).  Most of its source is
serializers, one read/write pair per engine class.  What can go subtly wrong is
elsewhere: in the registry of reference-counted keys that all objects share, in
the manager that loads and unloads pages of such keys, in the threads and the
encrypted connections of the network clients, in the transactions of the file
client, and in the block buffer of the encrypted files.  These are modelled.

Contents: [inventory](#inventory), [modules](#the-modules), [runs](#the-runs),
[proofs](#the-proofs), [what the models found](#where-the-code-does-something-else),
[what is left out](#what-is-not-modelled), [plan](#plan).

## Inventory

| Part | State | Operations | How it interacts | What makes it correct |
|---|---|---|---|---|
| Keys: `plKeyData`, `plKey` (`core/PRP/KeyedObject`) | uoid, object ID, object pointer, reference count, file offset, callbacks | Ref/UnRef by every `plKey` copy, move and destruction; setObj, deleteObj, setLocation, setName, setID | every object holds `plKey`s; the registry holds one per key | a datum lives as long as a `plKey` points to it, and no longer |
| Registry: `plKeyCollector` (`core/ResManager`) | map location -> type -> vector of keys, and a flag per vector | findKey, add, del, delAll, cleanupKeys, sortKeys, optimizeKeys, MoveKey, ChangeLocation | called by the manager only | a key is where its uoid says, once; IDs are positions; no edit of the registry leaves an unsorted vector flagged as sorted; clean-up takes only what nobody holds |
| Manager: `plResManager` | lists of pages and ages, the registry, file positions | ReadPage, ReadAge, ReadPagePrc, UnloadPage, UnloadAge, AddPage, DelPage, ChangeLocation, AddKey, AddObject, DelObject, MoveKey, and the writers | objects being read call back into readKey, which adds keys of other pages | a loaded object has a registered page; what a page holds is loaded after it has been read; an object that fails does no harm to others |
| Locations, page and age information | page and sequence numbers, flags | parse and unparse per engine version, set and compare | keys of all maps | the codec is injective on valid locations |
| Threads: `hsThread`, `pnThreadedSocket`, `pnThreadHelper` | thread handle, `fState`, `fRunning` | start, wait, run, stop | one dispatch thread per connection beside the application | no thread outlives its objects; stopping ends |
| Sockets: `pnSocket`, `pnRC4Socket` | handle, `fConnected`, two cipher states, two locks | connect, send, recv, close, waitForData | dispatch thread receives, application sends | both ends stay in step; a failure closes |
| Clients: auth, game, gate keeper, file | socket, dispatcher, interface, transaction numbers; the file client's manifests in progress | connect, disconnect, requests, one handler per message | handlers run on the dispatch thread | an answer belongs to its transaction; a manifest is delivered whole, once |
| Vault: `plVaultStore` | nodes by ID, last ID | addNode, Import, Export, references | none | no two nodes share an ID |
| Streams: file, RAM, sized, encrypted, token and PRC parsers | position, block buffer | read, write, seek, skip | used by every serializer | they behave like a byte sequence with a position |
| SDL: `plSDLMgr`, `plStateDataRecord` | descriptors by version, records | parse, find, read, write | none | the record read is the record written |
| Serializers (`core/PRP`), bindings (`Python/`), tools | the fields of each class | read, write, prcParse, prcWrite | readKey, prcParseKey, prcParseCreatable | what is written reads back |

Hard behaviour:

* *Erasing while iterating.* delAll and cleanupKeys run three nested loops over
  a map that they and the destructors they call change.
* *Inference from a count.* cleanupKeys concludes from a reference count of 1 or
  2 that nobody else holds a key.
* *Reference leaks that cancel out.* `plKey`'s move assignment does not release
  its target; only the last element of a vector gives its reference back when
  an element is erased.
* *Recursion through objects.* Reading an object registers keys of pages that
  are not loaded, and may fail in the middle.
* *Reads that break off.* A file that does not open and an index that ends early
  leave pages without objects, and buckets that have the file's flags but were not
  sorted.
* *Incremental IDs.* An object's ID is its position, and four operations repair
  it each in its own way, in unsigned arithmetic.
* *Two ciphers in step.* Several threads send through one RC4 stream over a
  socket that may take a part of a message, and the receiver must be at the same
  position; three loops over the message tables must count the same.
* *Answers in pieces.* Manifests of several transactions arrive in chunks, each
  only after the last has been acknowledged, while threads draw transaction
  numbers from one counter.
* *Half a read.* A file that has been cut off makes a read fail between the
  buffer and the position; a program that ends early leaves a file without header.
* *Threads.* An unsynchronised `fRunning`, a socket that either side may close,
  a thread that ends by itself while the other side is about to stop it.

`PROJECT.json` lists each hazard at its line with the properties that cover it.

## The modules

| Module | Models | Builds on |
|---|---|---|
| `KeyCollector` | keys and registry, with the manager's entry points to it | |
| `ResManager` | the manager's pages | extends `KeyCollector` |
| `SocketThread` | connection, dispatch thread, stop | |
| `Channel` | one direction of an encrypted connection: `sendMsg`, `pnRC4Socket`, `recvMsg`, dispatch | implements `MessageQueue` |
| `NetMessages` | the message tables of the auth, game and gate keeper protocols, and how requests and handlers use the fields | |
| `MessageQueue` | what a connection promises: messages in order, as they were sent | |
| `FileClient` | the file client's requests and dispatch, the server it talks to | implements `Answers` |
| `Answers` | what the file client promises: one answer per request | |
| `EncryptedStream` | `plEncryptedStream` over a file | implements `ByteStream` |
| `ByteStream` | what a file promises to its readers | |
| `MCKeyCollector`, `MCResManager`, `MCChannel`, `MCFileClient`, `MCEncryptedStream` | the small instances | |
| `Induction` | lemmas: induction over numbers, recursion over an interval | used by the next row |
| `KeyCollector_proofs`, `Channel_proofs`, `EncryptedStream_proofs` | theorems | extend the module they are about, and `Induction` |
| `SocketThread_proofs`, `FileClient_proofs` | theorems | extend the module they are about |
| `ResManager_proofs` | theorems: types, counts, pages and the registry under the manager's calls | extends `ResManager` and `KeyCollector_proofs` |
| `PageObjects_proofs` | theorems: the objects of page files | extends `ResManager_proofs` |

### KeyCollector

A `plKeyData` is a member of the constant set `Key`; `refCnt[k] = 0` means that
the slot is not allocated.  `keys` is the two-level map with its vectors,
`notOpt` its flags, `uoid` and `id` the two halves of `plUoid` (its `operator==`
ignores the ID), `loaded` the keys with an object, `refs` which holder (an
object or the application) holds which keys.  A slot that is freed may be used
again, like memory.

Each call is one action.  The loops of `delAll`, `cleanupKeys` and `ReadKeyring`
are one action per iteration, with `pc` naming the loop and `cur` its iterator,
because the question is what an iterator meets after an erasure.  The library
is single threaded here, so no other call starts in between.

Details taken from the code, and not tidied up:

* `EraseDrop`: only the erasure of the last element of a vector releases its
  reference (`plKey.h:333`, through `std::vector::erase`).
* `Renumbered`: `del` and `MoveKey` decrement the IDs behind an erased key,
  modulo the width of `uint32_t`.
* `ChangeLocationFlags`: locations that differ in their flags compare equal, and
  the entry that was just written is erased.
* `Sortings`: `std::sort` is not stable, so every order that the comparison
  admits is a possible result.
* `SetName`: a key may be renamed at any time (`plKey.h:219`), and the registry does
  not hear of it: its bucket keeps its flag, and another key may have the new uoid.
* `KeyringThrows`: the stream may end anywhere in the index, after the flags of some
  types have been set and before `sortKeys`.
* `ReadKnownKey`, `ParseKnownKey`: with `preserveIDs` a reference that is read gives
  its ID to the key that is found; one that is parsed does not.  A new key has the
  ID that `add` gave it, in both (`ReadNewKey`).

### ResManager

A call is a program `todo`, a sequence of instructions with a location:
`ReadPage(l)` is unload, index, objects; `ReadAge` is unload and index for each
page of a list, and then open and objects for each; `ReadPagePrc` is parse, unload,
push.  Each
instruction starts a loop of `KeyCollector` or of this module.  `disk` holds the
pages as sets of entries with the uoids that an object's body refers to; a page
file may be replaced between calls.  An object fails at any point of its body
(`FailObject`), a parse fails at any point of the document (`ParseThrows`), a file
may fail to open or its header to be read (`FileThrows`), and an index may end
anywhere (`IndexThrows`): the call is over, and keeps what it has done so far.

An age lists any pages of `Ages`.  ReadAge keeps the `plPageInfo` of every page it
has read; if the age lists a location again, the second read has deleted the first
of them, and the loop over the objects uses it (`plResManager.cpp:379`).  The program
of such an age has "deleted" in the place of the "open" of that page.

`undefined` records that the program has used an object or a `plPageInfo` that it had
deleted, or has read a page at an offset of an earlier file.  From there C++ promises
nothing and the model stops: these are the runs that need `CHECK_DEADLOCK FALSE`.

Assumed: all pages are of one engine version and one age; pages that `ReadAge` does
not find are left out of its list, as the code does; IDs in references are 0, as in the versions that do not store
them (`KeyCollector` has the general case); the index of a page file lists a uoid
once (`FileAssumption`): two entries of one uoid would be one key, with the offset
of the second.

### SocketThread

`app` is the program counter of the application in connect and disconnect,
`thr[c]` that of the dispatch thread of connection `c`.  Objects are new with
every connection, so the variables are functions of `c`: `sock`, `dispatch` and
`helper` with their life, `fRunning` (whose initial value is arbitrary: nothing
initialises it), `fState` and `handle` of the `hsThread`.  `net[c]` is what the
next recv will find: nothing, a part of a message, a whole one, a reset, a broken
connection, or the end of the stream.  The statements of `stop` and the parts of
the loop in `run` are separate actions, since that is where the two threads
meet.

Assumed: the application calls connect, send and disconnect from one thread,
which the clients do not lock against others; it retries after a failed connect
instead of calling disconnect (see below); handlers return and do not
disconnect.  The game client is the one translated; the auth and gate keeper
clients have the same connect and disconnect.

The program may stop: at the end of the stream, where recv spins, after a lost
stop, and when all connections are used up.  So both configurations say
`CHECK_DEADLOCK FALSE`, and what must not stop is a liveness property.

### Channel, NetMessages, MessageQueue

A message is its ID and the values of its fields; on the wire it is a sequence of
cells, one for each number, length, character, array element or block of fixed
size.  RC4 is a stream of keys, so a cell carries the position it was enciphered
at (`key`), and the receiver deciphers it if that is its own position.  `Buffer`
is what `sendMsg` writes, `MessageSize` the separate count of `NCMessageSize` that
sizes the buffer, `Size` and `Stored` what `recvMsg` asks for and does with it,
field by field.  `Encrypt` takes `fSendLock` and moves the cipher by the whole
message; `TransmitWhole`, `TransmitPart` and `TransmitNothing` are the outcomes of
the socket's send.  `RecvPart` is a call of the socket's recv that returns fewer
bytes than asked, `RecvRest` the one that completes a read.

`NetMessages` holds the tables as the source has them (`GET_Cli2Auth` and the
like), and next to them, taken from the request functions and the `case`s of
dispatch, as what each field is filled or used: a number, text, data or not at
all.  `FieldsAsDescribed` compares the two at every message handled.  They are two
independent transcriptions of different files.  The widths of numbers and the
sizes of blocks are left out, since both ends take them from the same table entry.

Assumed: the connection is encrypted; both ends have the same tables; the
application does not disconnect while it sends.  What a failed `recv` leaves in
the buffer is not known, so the model stops there (`astray`), as it does when the
receiver is given cells it cannot decipher.  The sender and the receiver may have
nothing more to do, so the configurations say `CHECK_DEADLOCK FALSE`.

### FileClient, Answers

`caller[h]` is a thread between drawing its number (`nextTransId`, under a mutex)
and sending; `queued`, `files` and `offset` are `fMfsQueue` and `fMfsOffset`;
`server` is the file server as the client's handlers take it to be: it sends the
next message of a transaction when the last has been acknowledged, and messages
of different transactions in any order.  A send may fail at any point and breaks
the connection; disconnect deletes the Dispatch with its maps.

Two things make a handler run on bytes that are not a message.  `TornMessage` is the
read loop's behaviour on a message in two parts: the second part is read over the
first (`pnFileClient.cpp:116`).  `FailedRecv` is a recv that fails inside dispatch:
nobody looks at its result, and the switch runs on a header and a buffer that hold
what the memory held, perhaps the message before.  `StrayHandler` is what the handler
then does: nothing, hand over something for some transaction, also what was handed
over already, or begin an array for it.  `undefined` is set, and the model stops
there, which is one reason for `CHECK_DEADLOCK FALSE`; the other is that all
transactions may be used up.  `Break` is only what fails between two messages: the
select of the dispatch loop, or the send of a ping.

`Answers` keeps three of these variables, what the application knows of a
transaction, what it was handed, and `undefined`.  It says: a number is new, a
manifest comes whole and once, a download in order, nothing after an answer; and it
says so up to the step that sets `undefined`, which may do anything.  So what is
promised covers errors of the server and connections that are lost between two
messages, and not a connection that is lost inside one: there the code does
not keep it.

### EncryptedStream, ByteStream

`header` and `blocks` are the file; `base`, `fLBuffer`, `fDataPos` and `fDataSize`
the stream's own state.  Bytes are numbered as they are written and 0 is padding,
so a wrong byte is seen wherever it comes from.  `WriteByte` and `ReadByte` are the
loops of `write` and `read`, which copy up to a block boundary at a time.  A read
that meets the end of the base stream throws with the buffer and the base stream
advanced and `fDataPos` where it was: `Read` keeps that.  `Crash` ends a writer
before `close`, `Truncate` cuts blocks off a file.

`ByteStream` says that reads return what was written at the position, from
wherever the reader seeks; `certain` is the exception that a failed read makes,
until the next seek.  Its refinement mapping states the reason: the stream is
right when the base stream is behind the block of the position,
`base = BlocksOf(fDataPos)`.

Assumed: a writer only adds at the end, as all callers in the library do; the key
is not changed between writing and reading; a file is cut at a block boundary; the
destructor closes, so a stream is not opened twice.

## The runs

| Run | Question | Bounds |
|---|---|---|
| `KeyCollector_counts` | Is a datum ever deleted under a `plKey`, or a key dropped by clean-up that somebody holds? Does delAll unload everything, does sorting repair all IDs? | 3 keys, 1 location, 1 type, 2 names, stream IDs 0 and 1 |
| `KeyCollector_places` | Is every key where its uoid says, once? Does any step but setName and the flags of an index make a bucket lie about its order? Are IDs right after every edit? | 3 keys, 2 locations, 2 names |
| `ResManager_pages` | Do pages that come and go as files leave objects without a page, half-read objects, duplicates? Is a page loaded after it was read? | 4 keys, 2 pages that refer to each other and to themselves, one in two versions |
| `ResManager_calls` | Do the counts hold with every call of the manager mixed in? | 2 keys, 2 pages, an age that lists each once and one that lists a page twice |
| `ResManager_returns` | Does every call end, with the loops in it that erase? | 3 keys of 2 types, 2 pages, indices with the flags on and off |
| `ResManager_replace` | Finding | 3 keys, 2 pages |
| `SocketThread_stops` | Can the thread outlive its objects, can a joinable thread be destroyed, does disconnect return? | 2 connections |
| `SocketThread_eof` | Finding | 1 connection |
| `Channel_messages` | Do the ends stay in step, is every message of the tables handled as it was sent, does every handler use fields as they are? | each message of the three protocols once, next to a ping or an unknown message of a second thread; strings and arrays of 2 and of 0 |
| `Channel_ranks` | Finding | the one message that `Channel_messages` leaves out |
| `FileClient_answers` | Is every request answered as promised until a message is not received whole, and does it end? | 2 clients, 2 threads, 2 transactions of 3 and 2 entries |
| `EncryptedStream_bytes` | Does a file read as it was written? | 7 bytes, blocks of 2 and of 3 |

Why the bounds are enough to be interesting.  Three keys in one bucket have a
first, an inner and a last element, which is the distinction that `EraseDrop`
and the renumbering make; two names over three keys give equal and different
uoids; two locations give a source and a destination, with keys in both.  Four
keys hold two pages with objects in each that refer to each other.  `MaxRef`
bounds the counts above what three holders need, `MaxHeld` the `plKey`s that
the application keeps, `MaxPages` the list of pages, `MaxConns` the connections:
two, so that what an old thread does while the next connection is made is
covered.  Two threads that send one message each are what it takes for two
messages to be enciphered in one order and sent in the other; strings of two
elements are cut in the middle, empty ones make a recv of nothing.  Transactions
of three and two entries have a first, an inner and a last chunk and different
ends.  Seven bytes fill three blocks of two, and two of three, with a last block
that is not full, and leave positions on both sides of every boundary.  `IDMod` is 16, for 2^32: far from what three keys count up to, and
reached by a decrement below 0.

Key slots are interchangeable in the model, so `Permutations(Key)` is used as
symmetry, in runs that check safety only.

### Fairness

* `KeyCollector!FairSpec`: weak fairness of the loops' steps.  A call that has
  started runs on the caller's thread until it returns.
* `ResManager!FairPageSpec`: the same for the work of a page call.  Which object
  fails is left open.
* `SocketThread!FairSpec`: every thread is scheduled (weak fairness of each
  dispatch thread and of the steps of disconnect), and a peer that has begun a
  message completes it or goes: without the last one `recv` may wait for the
  rest of a message for ever, and does in the code.  Nothing makes the
  application connect or disconnect, or the peer send anything.
* `Channel!FairSpec`: the dispatch thread runs and the network delivers what is on
  the wire.  No thread has to send.
* `FileClient!FairSpec`: the dispatch thread handles what it has received, and the
  server answers when it has been asked or acknowledged.  Connections may break
  at any time, which ends the requests too, and so may a message (`undefined`).

`DisconnectReturns` starts when `fRunning` is false and the thread has passed the
line that sets it, and allows for the end of the stream: both exceptions are
real and are described below.

## The proofs

TLAPS checks the eight modules of proofs for every value of the constants that
satisfies the assumptions: any finite set of keys, any number of locations, types
and names, any ID width; any contents of the page files; any number of connections; any threads, tables and
messages; any clients, transactions and lengths; any sizes of blocks and files.
A theorem with a hypothesis of its own states it as `ASSUME`; the reasons are below.

**`Induction`.**  The provers cannot instantiate a theorem about operators, which
the library's induction theorems are.  They can instantiate one about sets: a set of
numbers that is not empty has a least element (`LeastNumber`), so a set that holds 0
and with every number the next one holds all (`UpTo`, `AllNumbers`), and a first value
with steps defines a function on an interval (`Recursion`).  What the recursive
functions of `Channel` and `EncryptedStream` compute for every input is proved
through these four.

**`KeyCollector_proofs`.**  `CountCoversOwners`, no datum is deleted under a
`plKey`, is the property the library rests on.  It is not inductive alone: that
erasing "the" element of a bucket takes away one owner needs that the key is
there once, and that `del` finds it needs that it is in the bucket of its uoid.
The inductive invariant

    IInv == TypeOK /\ Placed /\ Anchored /\ CountCoversOwners

adds `Placed` (each bucket is injective and holds only keys whose uoid names that
bucket) and `Anchored` (the iterator is at a valid location while keys are being
read).  One lemma per action shows that it is kept; the ones on counting
(`OwnersSum`, `DeletedOwners`, `SettledCounts`) say how owners and counts move
together when an object dies with the keys it holds.  The argument of the
erasures is that the count loses at most the reference the registry had:
`WithoutDropBound`.  From `Invariance`: `TypeCorrect`, `RegistryCorrect`,
`CountsCorrect`.  `CleanupCorrect` is an action property: a key that clean-up
drops has count 1, or 2 with an object; the registry and the object own as many,
so by `CountCoversOwners` no holder is left.  The leak described below is on the safe
side of it: a count that is too high only keeps a key alive.

The further results each add what they need to `IInv`:

* `NoDuplicates`: what findKey returns is the registered key of that uoid, if there is
  one, because of `Placed`; so a step that adds a key adds a new uoid.
* `DelAllCorrect`: no loaded key of the location is registered behind the iterator
  (`Unloaded`).  The loop erases the element it stands on and does not advance, and
  deleting the object may take references, but not registered keys, elsewhere.
* `FlagsCorrect`: that a bucket is flagged or in the order of its names (`Truthful`)
  is no invariant of the code.  setName leaves an optimized bucket out of order, and
  ReadKeyring clears the flag of a type on the file's word before it sorts, and may
  throw in between (`plResManager.cpp:506`).  So the property is about steps:
  no other step makes a bucket lie, and sortKeys at the end of ReadKeyring leaves no
  bucket of the page that does.  Insertions and moves set the flag, the erasures keep
  the order, sortKeys and optimizeKeys look at the whole bucket.  It is stated for
  `~PreserveIDs`: with that switch ReadKeyring does not sort (`plResManager.cpp:509`),
  and the flag is the file's word for good.
* `KeyringRenumbers` and `EditsRenumber`: IDs are positions.  Both assume `FewKeys`, fewer keys
  than the ID's type has numbers: with 2^32 keys in one bucket the last position has
  no ID, and no process holds that many `plKeyData`.  `EditsRenumber` also
  assumes `~PreserveIDs`, which
  is the switch for keeping the IDs as they are; it needs that a key without
  a location, as one that was freed, has ID 0 (`Blank`), since AddKey leaves the ID of
  a new key to `add`.

**`ResManager_proofs`.**  The manager's calls are other steps on the same
registry: an object that fails in the middle dies with the keys it has read so
far, ReadPagePrc parses objects whose keys nothing has registered, ReadAge
interleaves indices and objects of several pages.  `RMInv`, which is `IInv` with
the types of the manager's own variables, is kept by each of them; the lemmas on
counting of `KeyCollector_proofs` are used again, for other owners that come and
go.  From `ManagerInvariance`:
`ManagerTypeCorrect` and `ManagerCountsCorrect`.  The assumption `0 \in StreamIDs`
says that the 0 which references carry is one of the IDs found in streams.  `OnePageEach` and
`OnePageOfAge` need one more conjunct: `UnloadsFirst` says that an instruction which
registers a page comes right behind the unload of its location, or finds it
unloaded.  They are about different specifications: `PageSpec`, where pages come
and go in any order, and `ReadAgeSpec`.  An age that lists a location twice gets as
far as the `plPageInfo` it has deleted, and `OnePageOfAge` speaks of the states up to
there: while it reads the indices, where pages are registered, each unload takes away
the page that the same call has registered before.
With the calls of `OtherCalls` the property does not hold: ChangeLocation may
rename a page to the location of another.

Every result of `KeyCollector_proofs` is proved again for `RMSpec` (`ManagerRegistryCorrect` to
`ManagerEditsRenumber`), where the runs check the registry alone.  `ManagerSteps` is why
that is short: from a state of `RMInv`, a step of the manager is a step of
`KeyCollector` (an index that breaks off is one, `KeyringThrows`), nothing to it, or an `ObjectStep`, which occurs between two loops
only and leaves the registry as it is or adds one key under a uoid that nobody
has.  The hypotheses are those of the registry's theorems, `FewKeys` and
`~PreserveIDs`.  `ManagerFlagsCorrect` has the same two exceptions as `FlagsCorrect`,
with flags that any page file may carry (`Optimized`).

**`PageObjects_proofs`.**  Four properties of `PageSpec`, the first three of which need
each other.  `PageSpec` has files that fail and indices that break off, but no renaming
of keys: the application that renames the key of an object makes it another object,
and what a page file says of it no longer applies.
ReadObjects meets no loaded key (`NoObjectReplaced`) because the unload before it
has left none; the unload leaves none (`ObjectsHavePages`) because every loaded
object has a registered key under its location; and an object has all its
references (`ObjectsAreWhole`) because nothing replaces it while it is read.

    Pages == Program /\ Progress /\ Homed /\ Unread /\ Objects /\ NothingReplaced

`Program` says that objects are read right behind the index of their page, and
that this page is registered; `Progress`, where ReadObjects is.  `Homed`: a loaded
object is registered and has a page, or is `Doomed`, which is to say that the
iterators of delAll have still to come to it; here enters that delAll
visits every type and every position although it erases behind itself.
`Unread`: of the page that is being read, only objects `Behind` the position
are loaded, though the references that are read on the way append new keys to the
very buckets that the loop is in.  `Objects`: what an object holds and what is
left of its body are together the references of one entry of one version of its
file, and `FileAssumption` makes that entry the only one.

The fourth, `PagesAreLoaded`: when ReadObjects is done and no object failed, every
object of the page file is loaded.

    ReadInv == PageInv /\ OffsAllocated /\ (ReadingObjects => IndexRead /\ ObjectsRead)

`IndexRead` says that every entry of the file that the index has passed has a registered
key with a file offset, `ObjectsRead` that every such key `Behind` the position has its
object.  At the end everything is behind.  Reading an object may append keys
behind and before the position, but those have no offset; and the keys with one stay
registered, because ReadObjects drops none.

**`SocketThread_proofs`.**

    IInv == TypeOK /\ WorkingJoinable /\ ConnectedHasObjects
              /\ DeletedJoined /\ FreshConnections

`WorkingJoinable` is the core: a thread that works belongs to the connection that
is up or being taken down and can be joined, so neither of the two joins in
disconnect lets the deletes pass before it has ended.  `ObjectsOutliveThread` and
`ThreadsAreJoined` follow.

**`Channel_proofs`.**

    IInv == TypeOK /\ CellsTyped /\ MsgTyped /\ LockHeld
              /\ KeysFollow /\ NotAhead /\ NoGap /\ InStep

`LockHeld` says that only the thread with `fSendLock` has enciphered cells;
`KeysFollow` that the cells in the receiver's buffer and on the wire carry the
keys that follow its position, one by one, as long as no send was truncated;
`NotAhead` and `NoGap` that the receiver's position, those cells and the ones of the
thread with the lock add up to the sender's position, or to less if something
was lost.  Then the receiver's next cell has the key the receiver is at:
`CiphersInStep`.

`QueueRefined`, that `Channel` implements `MessageQueue`, has two halves.  The first
is about one message: sendMsg, NCMessageSize and recvMsg walk its fields in three loops.
By induction over the fields, the buffer has one cell more than
NCMessageSize counts, there are places `P` such that every field lies in the buffer
at its own (`LaidOut`), and recvMsg that has taken the cells up to a place knows
which field it is at, how many cells come next and what they mean (`ReaderAt`).  The
second is about the order of messages on one wire:

    QInv == /\ sent \in Seq(Message) /\ handled \in Seq(Message) /\ WholeMessage
            /\ \E all, E : Ordered(all, E)

`all` is what was sent, and the message whose send was truncated behind it; `E`, the
positions of the ciphers at which these messages end.  `CellsRight`: a cell between two
of them carries the value of that message at that offset; `ReaderIn`: the receiver is
at the end of the last handled message, or inside the next one.  Of the truncated message the
last cell never comes, so the reader cannot get past it (`cut => fRecv < E[Len(all)]`).
`FieldsDescribed` follows for tables and uses that fit each other (`UsesFit`): no message
reaches a handler in the place of another.  Whether they fit is a matter of
the tables alone; they do in `Channel_messages` and do not in `Channel_ranks`, which is
the finding below.

`MessagesAssumption` says of the messages what the requests do: a value for each field
of the table, and in front of each array its length (`pnGameClient.cpp:251`).  TLC
evaluates it for all tables of `NetMessages`.

**`EncryptedStream_proofs`.**  `TypeCorrect` and `StreamRefined`, that a file behind
`plEncryptedStream` is the sequence of bytes of `ByteStream`.

    IInv == Types /\ WriterInv /\ FileInv /\ ReaderInv

`WriterInv`: the file has the full blocks of what was written and the buffer the rest.
`FileInv`: a file with a header has the first blocks of what was written, and all of them
unless it was cut off.  `ReaderInv`: the base stream is not behind the reader's
position, and where it is not ahead either the buffer holds the block of that
position.  That write and read keep these over any number of bytes is by induction over
the bytes (`Writing`, `Reading`).  After a read of a missing block the base stream is
ahead, and what is read from then on is undefined until the reader seeks:
`Certain` of the abstract stream is exactly that the base is where it should be.

**`FileClient_proofs`.**  `TypeCorrect`, `QueueCorrect` and the refinement
`ImplementsAnswers`: every step of `FileClient` is a step of `Answers` or leaves its
three variables alone; a handler that runs on a torn or failed message is the step
that `Answers` says nothing about, and the last one.  `QueueCorrect` is about the states
before it.  The invariant behind them ties the three places where a
transaction is: nobody else has its number (`NumberInv`), nothing is known of it
before it was sent (`FreeInv`), a message on its way has exactly the entries that
come next after what the client has (`FlowInv`), and a queued array is filled up
to its offset (`QueueInv`).

**Model-checked only.**  Liveness: `LoopsEnd`, `CallEnds`, `DisconnectReturns`,
`RequestEnds`, `EverySentHandled`.  The prover has neither fairness nor ENABLED.  Every safety
property of the passing runs is a theorem; the properties of the three runs that
exhibit a violation are not, for they do not hold.

## Where the code does something else

Checked, each by a run that exhibits it:

* **An object is used after it was deleted** (`ResManager_replace`).  ReadPagePrc
  that throws leaves loaded keys without a page; ReadPage then reads over them,
  and `hsKeyedObject::read` deletes the old object before setObj asks it whether
  it is a stub.
* **The end of the stream blocks for ever** (`SocketThread_eof`).
  `pnRC4Socket::recv` does not tell 0 from progress.
* **The handler of ScoreGetRanksReply reads the wrong field** (`Channel_ranks`).  It
  takes `msgbuf[3].fData` for the ranks (`pnAuthClient.cpp:279`); field 3 is the
  length of the array (`AuthMessages.cpp:664`), which sets another member of the
  union, and field 4 the array.

Observed while modelling, present in the models and not the subject of a run:

* References leak when a vector shifts: `plKey`'s move assignment (`plKey.h:333`)
  overwrites the pointer without UnRef.  `CountRefs` then counts more than the
  owners, and cleanupKeys never drops the key.
* ChangeLocation loses the keys if only the flags differ: `from == to` holds, the
  map entry is updated and then erased (`plKeyCollector.cpp:278`).
* Reading an age again may not load all of it: the unload of the second page
  cleans up keys that the first page's index has just found but which own no
  object yet.
* UnloadPage deletes unowned objects of other pages too: cleanupKeys runs over
  all locations.
* AddObject of an object whose uoid is registered leaves the object out without
  telling.
* setName of a registered key changes its uoid without the check that AddKey
  makes, and so may duplicate one; and it leaves a bucket flagged as optimized that
  is no longer in order (`SetName`).
* An index that ends early leaves its page registered without objects, and the
  buckets of the types that have been read with the file's flags and unsorted
  (`IndexThrows`).
* ReadAge of an age that lists a location twice uses a `plPageInfo` that it has
  deleted (`UseDeletedPage`).
* A recv that fails inside the file client's dispatch, or brings a part of a message,
  does not keep the handler from running (`FailedRecv`, `TornMessage`).
* A file offset outlives the page it was read from, as long as the key does; the
  next index that does not list the key leaves it.
* ReadPagePrc of a page that is registered unloads what it has just parsed.
* A `stop` that comes before the thread has begun is undone by
  `fRunning = true` in `run`, and disconnect waits until the connection fails.

Observed, outside the models: `connect` deletes the socket when the address is
not reached and keeps the pointer (`pnGameClient.cpp:116`), so that disconnect
deletes it a second time; `fConnected` and the socket handle are read and
written by two threads without a lock; cleanupKeys leaves
map entries of locations without keys, which getPages reports.

## What is not modelled

* The serializers of `core/PRP` and their formats, text formats, the ciphers
  themselves, rendering data: most of the source by lines, and conversions without
  control of their own.  What they do to the registry is in `ResManager`.
* The classes that hold SDL records, the vault store, `pfSizedStream`, the
  location codec and `hsOrderKeys`: see the plan.
* What the auth, game and gate keeper clients do with a message after it has been
  taken apart: they call the application.
* AfterLoad callbacks of keys, load masks and clone IDs, the stub objects of
  unknown classes.
* Writing pages, the list of ages, progress callbacks.
* The polled socket interface, which has no thread, and listening sockets.
* Several application threads; the lock of the manager.
* Python bindings, tools, vendored libraries.

## Plan

In this order; 1 to 6 are there.

1. `KeyCollector` and its proofs: everything in `core` rests on it.
2. `ResManager`, composed with it; its proofs.
3. `SocketThread` and its proofs.
4. `Channel` with the tables of the protocols, against `MessageQueue`; its proofs.
5. `FileClient` against `Answers`; its proofs with the refinement.
6. `EncryptedStream` against `ByteStream`.
7. `plVaultStore`: IDs across addNode and Import; proof that they are unique
   where they are.
8. `pfSizedStream`, the window over another stream.
9. `plLocation`'s codec as functions, with its inverse proved by arithmetic.
10. `hsOrderKeys` against a topological order.
11. AfterLoad callbacks; SDL records; `hsBitVector`.

Each of these comes with its theorems: the safety properties of the modules that exist
are proved.
