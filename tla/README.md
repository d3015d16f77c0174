# TLA+ models of at

Models, model-checking configurations and proofs for `at`, a personal data
server (PDS) for the AT protocol with a command line, written in Go. Paths are
relative to the repository's root.

Contents: [the system](#the-system) · [modules](#modules-and-the-code-they-model)
· [runs](#runs) · [fairness](#fairness) · [proofs](#proofs) ·
[findings](#findings) · [not modelled](#what-is-not-modelled) · [plan](#plan)

To check everything:

    tlc -workers 2 -config MCParallel.cfg MCParallel      # and so for each run below
    tlapm ParallelProofs.tla                              # and so for each module named *Proofs

## The system

| Component | State | Operations | Interacts with |
|---|---|---|---|
| **parallel** (`internal/parallel`) | one call: a derived context, a goroutine per job, an unbuffered channel, a WaitGroup | `Do`, `Map`, `FirstOf` | `CreateAccount`'s look-ups and transaction, `CreateSession`, handle resolution (`FirstOf`), the write path |
| **bus** (`pubsub`) | the slice of queues under an RWMutex; per queue two channels, a pump goroutine, a done channel, an index | `Publisher.Pub`, `Subscriber`, `queue.Close`, `bus.Close` | the sequencer publishes to it; firehose handlers subscribe |
| **sequencer** (`internal/sequencer`) | an atomic counter, table `repo_seq` | `New`, `Pub` | publishes on the bus and then stores; the PDS's handlers call it |
| **accounts** (`internal/accountstore`, `internal/pds`) | tables `actor`, `account`, `repo_root`, `refresh_token`, `app_password`, `invite_code` | `CreateAccount`, `CreateSession`, `UpdateHandle`, `Activate`/`DeactivateAccount`, `DeleteAccount` ... | parallel (jobs share one transaction), actor store, sequencer, directory of dids |
| **actor store** (`internal/actorstore`) | a directory per did: a signing key, a database with `repo_root`, `repo_block`, `record`, `backlink`, `blob` | `migrate`, `CreateRepo`, `ProcessWrites`, `Destroy`, the record index | repository, block store, blobs |
| **repository** (`internal/repo`) | a Merkle tree of records and its commits | `FormatInitCommit`, `FormatCommit`, `ApplyCommit`, diffs | block store |
| **block stores** (`internal/blockstore`) | blocks by cid, in SQL or in memory | `Get`, `Put`, `PutMany`, `DeleteMany`, `ApplyCommit` | repository |
| **blobs** (`internal/repo/blobstore.go`, `internal/actorstore/blob.go`) | temporary and permanent files, tables `blob`, `record_blob` | upload, make permanent, delete, quarantine | the write path |
| **identity caches** (`internal/didcache`, `internal/httpcache`) | tables `did_doc`, `did_handle`, `http_cache` in one file that all runs of the command share | `GetDID`, `CachedDoc`, `CacheDoc`, `Purge`, `RoundTrip` | the command line over the resolvers of `atp` |
| **file cache** (`internal/didcache/filecache.go`) | a JSON file | `load`, `save`, get, store | nothing calls it |
| **authentication** (`internal/auth`, parts of `accountstore`) | tokens and their scopes, invite use counts | middleware, `createTokens`, app passwords | every handler |
| **xrpc** (`xrpc`, `internal/pds/passthrough.go`) | none to speak of | routing, encoding, error mapping, proxying | every handler |
| **lexicons** (`lex`, `lexgen`) | none beyond a run | reading schemas, printing Go | build time only |
| **queues, lists, arrays** (`queue`, `array`) | a ring of elements linked both ways, a stack, a slice | push, pop, insert, remove, move, copy a list into a list | the bus uses `array.Remove` |
| **data formats** (`internal/ipldutil`, `internal/cbor`, `internal/repo/cbor.go`) | none | encoding | repository |

How they interact. A request to create an account looks its handle and its email
up in parallel, makes the actor's directory, key and repository, registers the
account in one transaction of four parallel jobs, and announces it with three
events; each event is numbered by the sequencer, offered to every subscriber
through the bus, and then stored. Deleting an account undoes these in an order
of its own. The command line asks the caches, which ask the network.

What is hard here:

* goroutines that drop a result when a context ends, while their caller commits
  a transaction they share (`parallel`);
* channels closed under a publisher's feet, and indices that go stale when
  another queue is removed (bus);
* numbers handed out before, and stored after, the event is published, across
  crashes and an unreadable table (sequencer);
* several stores written one after another without a common transaction, with
  other requests, failures and ended contexts in between (accounts);
* two caches on top of each other with separate lifetimes, filled by several
  processes at once, whose tables only one of them makes (identity caches);
* pointers rewritten one by one, through nodes that may be the same one, and a
  list copied into itself while it grows (lists);
* parallel jobs inside one transaction, whose failures an ended context hides
  (actor store);
* files written in place while others rename or unlink them (blobs);
* values that pass through several representations and must come back with the
  same content identifier (data formats, prepared writes);
* code generated from a schema in two passes that have to agree (lexicons).

What makes each component correct:

* *parallel*: a nil answer means that everything is over and succeeded; every
  call returns.
* *bus*: what `Pub` accepted reached every open subscription registered before
  it, in order and once; a `Pub` ends, and the lock is granted, although
  subscribers go away.
* *sequencer*: a number in the table identifies one event, there and in the
  streams; non-overlapping calls keep their order; what is stored was seen.
* *accounts*: names are unique; an account has its repository; an answer with
  tokens is backed by rows; a finished deletion has removed the files and the rows
  of its tables.
* *identity caches*: answers are not older than the lifetimes add up to, a
  refill does not go back in time, a purge forgets.
* *lists*: the rings stay whole, and a list is the sequence the calls' comments
  describe.
* *actor store*: there is one root at most, with its blocks; what a transaction
  commits is one whole operation on the index of records; no backlink outlives
  its record.
* *blobs*: a permanent file holds the bytes of its cid once nobody writes it.
* *repository*: every key of the tree and every commit has its blocks.
* *data formats*: a commit is read as it was signed, a value keeps its cid, a
  prepared write is read as it was written.
* *xrpc*: a failed call tells its caller the same however many clients and
  handlers pass it on.
* *lexicons*: the server reads the query its client writes; a generated file
  imports what it names.

`PROJECT.json` lists the components, and under `hazards` each place in the code
where something can go wrong that a test would hardly reach, with the
properties below that would catch it.

## Modules and the code they model

| Module | Models | Composition |
|---|---|---|
| `ForkJoin` | what a caller of `internal/parallel` is promised | abstract |
| `Parallel` | the goroutines, channel and loops of `Do`, `Map`, `FirstOf` | implements `ForkJoin` |
| `ChannelBus` | `pubsub/channels.go`, with `array.Remove` | |
| `Sequencer` | `internal/sequencer` over the bus's slice of queues | |
| `Accounts` | account creation, sessions, renaming, app passwords and deletion across the stores | uses the answers `ForkJoin` allows |
| `IdentityCache` | `didcache` over `httpcache` over the network, and start-up | |
| `OrderedList` | what the comments of package `queue` promise of a list | abstract |
| `LinkedList` | `queue.List` and `queue.ListQueue` as rings of pointers | implements `OrderedList` |
| `RecordIndex` | what an actor's database promises of repository, records and backlinks | abstract |
| `ActorStore` | transactions of `internal/actorstore` over `internal/repo/format.go` | implements `RecordIndex`; jobs as `ForkJoin` allows |
| `BlobStore` | the files of `internal/repo/blobstore.go` | composed in `Storage` |
| `Repository` | `internal/repo/repo.go` over a store of blocks | composed in `Storage` |
| `Storage` | what an account keeps beside its tables | `BlobStore` beside `Repository`; beside `ActorStore` in `MCActorStore` |
| `PreparedWrites` | `PreparedWrite` and its parts, `internal/repo/ops.go` | composed in `Encodings` |
| `CommitCodec` | the CBOR codecs and signature of commits, `internal/repo/cbor.go` | composed in `Encodings` |
| `IpldNodes` | `internal/ipldutil`: Go values as IPLD nodes and back | used by `MCAlgorithms` |
| `QueryParams` | `toQuery` and `fromQuery` as `lexgen` writes them | composed in `Encodings` |
| `XrpcErrors` | failed RPCs as `xrpc/error.go` writes and `xrpc/client.go` reads them | composed in `Encodings` |
| `Encodings` | what one part of the program writes and another reads | `PreparedWrites`, `CommitCodec`, `QueryParams`, `XrpcErrors`, over inputs of any number |
| `LexImports` | the imports and the packages named in files that `lexgen` writes | used by `MCAlgorithms` |
| `MC*` | instances for TLC: inputs, symmetry, and what runs beside what | |
| `ParallelProofs`, `ChannelBusProofs`, `SequencerProofs`, `AccountsProofs`, `ActorStoreProofs`, `IdentityCacheProofs`, `LinkedListProofs` | theorems about the module each is named after | |
| `StorageProofs` | theorems about `BlobStore` and `Repository`, and about the parts of `Encodings` | over `Storage` and `Encodings` |

In every module the variables are named after the fields and tables they stand
for; `pc` says where each goroutine, request or process is; an action is what
happens from one shared access (lock, channel operation, SQL statement, file
operation) to the next. Operators under a comment that begins with "Wrong:" are
plausible mistakes in the definition that follows them. They are not part of
the specification: substituting each for its original makes the property
listed with it in `PROJECT.json` fail, which shows that the property depends on
the code being as it is.

**Parallel.** `pc` of a goroutine goes from `ready` through `running` and `send`
to `done`. `send` is the select of the send against `ctx.Done()`; the two
outcomes are a receive by the loop (the channel is unbuffered: both move in one
step) and `DropOnCancel`. `ctx` is the *derived* context, which the call's own
deferred `cancel()` ends too; `cancelled` remembers whether the caller's ended.
`Map` looks at the context before the job, does not send successes, and writes
`results` by index; its `errs <- ctx.Err()` stands outside a select, so such a
goroutine can stay for ever, which `GoroutinesExit` leaves out.

**ChannelBus.** `queues` holds the queue *values* in the slice, `ix` the index in
the value the subscriber was handed: the code copies the struct, and the two
drift apart. `waiting` is the set of writers queueing for the RWMutex, which
hold new readers back as Go's does. A consumer's panic is recovered by
net/http, with the lock it holds kept (`stuck`); a publisher's ends the
process (`panic`), for parallel's goroutines recover nothing. `ShutQueue` is an
iteration of `bus.Close`, which closes slots and not subscriptions. The history
variable `lifo` is true while every removal took the newest queue; several
guarantees hold only then, and [a finding](#findings) shows why.

**Sequencer.** `Number`, `Publish`, `Deliver`, `Marshal`, `Store` and `Return` are
the stretches of `Pub`; `Fail` is an error of any of them, also of an `INSERT`
whose row was committed, and `Crash` can come between any two. `Start` is `New`,
whose query may fail (`ReadFaults`) and then counts as an empty table; `clean`
remembers that it never has. Of the bus the slice of queues is here, by subscriber,
with its locks: a publication reaches the queues that are in the slice when it
takes the read lock, one after another, and `Remove` takes out whatever stands at
the index that the queue was appended at. As in ChannelBus, `lifo` is true while
every removal took the newest queue. What the pumps do with an event is left to
ChannelBus.

**Accounts.** `LookUp` and `Decide` are the two halves of the look-up goroutines
of `validateCreateAccountReqLocalPDS`, which share the variable `err` with their
caller. `Register` is the transaction of `AccountStore.CreateAccount`: `Insert`
gives what is committed when some set of its four jobs ran to the end, and
ForkJoin's `NilAnswer` says which sets those are (all, unless the context
ended). Every `INSERT ... ON CONFLICT DO NOTHING` can do nothing. `Fail` is any
step that can return an error; the handlers undo nothing. `Destroy` and the
four deletes are `DeleteAccount`, statement by statement; `email_token`, in which
nothing is ever inserted, is left out. `apps` is the table `app_password`, by did,
which `DeleteAccount` does not name; nothing but the store's own functions inserts
into it. `late` remembers the dids for which a call wrote rows or files after their
deletion had begun. `Requests` excludes
only what the directory of dids excludes: two requests given the same new did.

**IdentityCache.** `pc` of a run of the command goes through opening the file,
making the tables if the file was not there, purging, and looking one
identifier up. Versions of a name count from 1; a row holds a version and the
time it was stored; `ended` records when versions ceased to be true, so that
the age of an answer can be stated. Version 0 of a did is the empty document
that a JSON error body decodes into, for the status is not looked at.
`http_cache` has no unique key: `put` adds rows and `get` reads the oldest, so
only that one is kept in the model. Both lifetimes are the same in
`context.go`, and equal in the run.

**LinkedList.** `next`, `prev`, `owner` (`Element.list`) and `value` are the fields
of an element, and of a list's root, which is the list itself as a node; `len`
is the list's. A list starts as the zero value, and `Inited` is `lazyInit`.
`Elem` is the memory of elements: `insertValue` takes one that is in no list,
be it new or removed. Each call is an action, with `Insert`, `Unlink` and
`Relink` for `insert`, `remove` and `move`; calls that return early change
nothing and are no action. `PushBackList` and `PushFrontList` are a `StartCopy`
and a `CopyOne` per turn of their loop, for the loop of a list copied into
itself reads links that it has written. `Contents` reads a list the way
`RevIter` does, and `call` is a history variable, so that the refinement tells
one call from another with the same effect. `Clear` takes it that nobody holds
an element of the list any more: with one still held, a later `Remove` would
make `len` negative.

**ActorStore.** `db` is the committed tables, and each transaction has its own
`view` of them, as SQLite gives it; `lock` is the write lock, and a transaction
whose view is out of date cannot write (`CanWrite`). `CreateRepo` and
`FormatTree` are the sequential part of a transaction, up to `parallel.Do`;
then `JobDone` and `JobFails` run its jobs in any order, `JobsOk` answers nil
when every job is through, with failures hidden if the caller's context has
ended, and `CommitTx` needs a live context, as `database/sql` does. A content
identifier is the record of what it identifies, so equal contents have equal
cids. The statements are modelled as they behave, which is not always as they
were meant:

* `PutMany` builds one row of all its blocks, so two blocks are a syntax error;
* `DeleteMany` passes cids as arguments, which the driver refuses;
* `GetDuplicateRecordCIDs` reads a table "reocrd" that does not exist, so a
  batch with an update or a delete fails;
* `ProcessWrites` applies its commit with `isCreate = true` and inserts a root
  where there is one.

Together they mean that `ProcessWrites` never commits (its commit always
removes the old root's cid) and that `CreateRepo` commits only with no writes,
so that no block of a record is ever stored and `GetRecord`, which joins
records with blocks, finds nothing. An update of an indexed record loses its
backlinks without getting new ones; `RecordIndex!Update` says so too. What the
properties show is that these failures leave nothing behind.

**BlobStore.** `stored` and `quar` map cids to *files* (`Inode`), and files to
the bytes of their two chunks: a descriptor goes on writing to a file that was
renamed or unlinked. `genKey` gives every temporary file the same name, so
there is one uploader (`up`) at most that makes sense; the moderator `mod` does
whatever else there is. `broke` remembers that a read or write of a file failed.

**Repository.** A tree is a function from keys to records, `Apply` being the
library's `Add`, `Update` and `Delete`. `Record` and `ApplyWrites` store before
they replace the tree and can stop anywhere. `ApplyWrites` gives each write the
tree from before the batch, as the code does, so that only the last one stays.
`Load` opens the tree at the commit's cid. What a commit's bytes are when the
library reads them as a node, an empty tree, is taken from the shapes of the two
(their field names share nothing).

**PreparedWrites, CommitCodec, IpldNodes, QueryParams, XrpcErrors, LexImports** model
functions. A stream of CBOR is a sequence of items, an IPLD node a tagged tuple,
a Go type a record with its kind, a schema a record like `lex.TypeSchema`, an
error the sequence of its layers.
Integers keep their widths (`Width`). Two of them are about code that prints
code: `QueryParams` models what the printed functions do, `LexImports` which
packages the printing names, branch by branch. Where some inputs are known not
to work the property names them: `Sound` and `Compiles` in QueryParams, `Lossy`
in IpldNodes, `Regular` and `RegularGroup` in LexImports. Dropping a condition of
the first and of the last three violates the property (`Compiles` is about code
that Go refuses, and the tie of a body's encoding to its schema in `Regular` about
lexicons that nobody writes). An answer of XrpcErrors may come back through a
handler whose method is that of a client, as `internal/pds/passthrough.go` has
them all; an error with a status below 400 is left aside, for no client takes its
answer for a failure.

## Runs

All properties of a run are checked together. "States" are distinct states.

| Run | Instance | States | Shows |
|---|---|---:|---|
| `parallel` | 3 jobs, any of the three entry points, context ending at any time or before | 12,780 | `NilMeansQuiet`, `NilMeansSuccess`, `ResultsStayPut`, liveness `CallReturns`, `GoroutinesExit`, and `Promise`: Parallel implements ForkJoin |
| `bus` | 2 subscribers; 2 publishers of a message each, or 1 of 2 messages and contexts that end, or 1 of a message and bus.Close; fair | 322,785 | `NoSilentLoss`, `RegistryExact`, `PanicWindow`, `Fifo`, liveness `PubEnds`, `LockIsGranted` |
| `sequencer` | 3 calls and 2 subscribers, or 2 calls and 3 subscribers; 2 lives, unreadable table | 3.27 M | `StreamsAreUnique`, `RealTimeOrder`, `StoredWasSeen`, `NoStoredNumberAgain` |
| `accounts` | 2 creations over 2 dids, handles and emails with a rename, or for one did with a login and a repeated deletion, or 1 creation with app passwords and a deletion; (de)activation | 1,077,337 | `NamesAreUnique`, `AccountHasRepo`, `OkIsStored`, `DeletedIsGone` |
| `identities` | 3 runs, 2 at a time, 1 purge, 1 change of the world, lifetimes 1, clock to 4 | 4.10 M | `TablesAreMade`, `RefillsGoForward`, `AnswersAreFresh`, `PurgeForgets` |
| `actor_store` | 2 transactions over 2 uris and 6 batches, 2 revisions; or 1 blob in 5 files; or a repository of 2 keys, 2 records, 2 revisions | 763,453 | `OneRoot`, `LinksHaveRecords`, `ImplementsRecordIndex`: ActorStore implements RecordIndex; `WholeWhenQuiet`; `NothingDangles` |
| `algorithms` | 2 lists, 4 elements, 2 values; prepared writes over 2 uris and 2 records; commits, nodes, parameters, errors and schemas as listed in `MCAlgorithms`, which is `Encodings` with inputs beside `LinkedList` | 15,112 | `RingsAreLinked`, `CursorIsOld`, `ImplementsOrderedList`: LinkedList implements OrderedList; `WriteIsRead`, `SignedIsRead`, `CidIsKept`, `QueryIsRead`, `ErrorIsRelayed`, `ImportsAreUsed` |
| `parallel_cancelled`, `bus_stale_index`, `accounts_half`, `blob_half`, `repo_load` | small | | the [findings](#findings): each run ends with a counterexample |

`MCActorStore` and `MCAlgorithms` each hold several parts of which a behaviour
moves one, chosen at the start: nothing in the code joins them. The type
invariants are part of the proofs. That of IdentityCache also states the bounds
of the run, on the clock and on the counts, and holds in the run when
`INVARIANT TypeOK` is added to its configuration; the proof's `Types` is without them.

Why the bounds are enough:

* *parallel*: three jobs give one that fails, one that is dropped and one that
  is still running at once; the jobs do not interact otherwise. The proofs
  remove the bound.
* *bus*: two queues already make the swap of `array.Remove` visible, and three
  are needed only for the finding's two removals out of order. Two publishers
  share the read lock while a writer waits; two messages of one publisher show
  order; a context that ends acts on its own subscription, and a shutdown begins
  when no publisher is at work, so neither needs a second publisher. What a message
  is does not matter. The proofs remove the bounds for safety; for liveness the run
  is all there is.
* *sequencer*: two calls race, and a third begins after one of them has ended;
  a second life begins with a table that has gaps. Three subscribers are what it
  takes for a stale index to take an open subscriber's queue; two calls are enough
  beside them, one that meets the queue and one that no longer does. The proofs
  remove the bounds.
* *accounts*: every race in the code is between two requests; a third adds no
  new pair of steps. In the deletion's cast both requests ask for the same, so
  that everybody meets. The proofs remove the bound.
* *identities*: an answer's age is at most three by the stated bound with
  lifetimes and holding time 1, so a clock to 4 can violate it. The clock does
  not start before the first answer, as only differences of times matter. The
  proofs remove the bounds: any runs, purges, changes, clock and lifetimes.
* *lists*: a call touches an element, its neighbours, the mark and the root; four
  elements let all of them differ, and let a list of two be copied into itself.
  A second list is there to be mistaken for the first. The proofs remove the
  bounds: any lists, elements and values.
* *actor store*: two transactions are enough to race for the lock, the root and a
  stale view; two uris give a batch of two jobs that index, and two record types
  give the two paths of links. A second revision is what a second commit needs.
  The proofs remove the bounds.
* *blobs*: a file of two chunks can be half written; five files are as many as
  can be in use at once. The proof has any number of blobs and files.
* *repository*: batches of two writes show that the second does not see the first.
  The proof has any keys, records and batches.
* *algorithms*: commits have versions of 4 bits, all of them, and a stream is cut
  off and extended at every place; nodes have integers of 2 and 3 bits over a data
  model of 3, so that some fit one width and not another, and types nest two deep,
  as far as the code looks; parameters take every combination of their attributes;
  errors take every code, with statuses that are missing, exact, inexact or out of
  range, and a second response inside the first, and pass two more legs;
  schemas have one or two definitions, as imports of a file are a union over its
  definitions. The proofs remove the bounds for writes, commits, parameters and
  errors; nodes and schemas have none.

All runs but `algorithms` say `CHECK_DEADLOCK FALSE` because a call, a request or a run of the
command ends, and the bounded calls run out; that nobody waits for ever is
stated by the liveness properties instead.

## Fairness

Only `parallel` and `bus` check liveness. `Parallel!Fairness` is weak
fairness of every goroutine, of the closer and of the receiving loop: the Go
scheduler runs what can go on, and job functions are assumed to return, as Go
code has no way to make them. `ChannelBus!Fairness` is weak fairness of pumps,
consumers and publishers while the process runs: goroutines that can go on do,
the consumer's yield returns, and who waits for a lock that can be had takes it
(Go's RWMutex lets no reader overtake a waiting writer). Nobody is obliged to subscribe,
publish, end a context or shut down. All other runs check safety and assume
nothing.

## Proofs

The theorems hold for every value of the constants under the named assumptions
of the modules they are about.

**ParallelProofs** (assumption `JobAssumption`: a job is not named like one of
the error constants). `NilMeansQuiet` and `NilMeansSuccess` are not inductive:
that a nil answer hides no failure depends on where each goroutine was when the
channel was closed. `IInv` adds

* `ClosedLast`: the channel is closed only after every `wg.Done`;
* `Place`: what the place of a goroutine tells about its job's outcome;
* `Received`: while nothing has ended the call, a goroutine past its send was
  received, so its outcome is the one on which the loop goes on;
* `ResultsMatch`, `Loop`, `NilAnswered`: Map's slice, the loop's own variables,
  and what is known after a nil answer.

From `Invariance` follow `TypeCorrect`, `NilIsQuiet`, `NilIsSuccess`,
 `ResultsAreStable`, and `KeepsPromise`: `Spec => Promise`, the
implementation of ForkJoin, by mapping each action to `Finish`, `Cancel`,
`Answer` or a stutter.

**SequencerProofs** (assumption `SequencerAssumption`: the types of the two
bounds). `IInv` ties the three places in which a number lives: `Numbers` (calls
on their way have distinct numbers not above the counter), `Table` (the rows
are those of the calls that stored one, and stay whatever the call answers),
`Free` (while the table could be read, nothing stored is ahead of the counter or
under a number still to be stored), `Streams`, `Unique` and `Seen` (what
subscribers have and are owed), `History` (what began after what). `Seen` needs
to know which queues the range of a publication meets: those in the slice, and
`Registered`, part of `Bus`, says that while removals take the newest queue these
are all, each at its own index; `NewestRemoved` is the step that keeps it. From
the invariant follow `TypeCorrect`, `NumbersAreFree`, `StreamsHaveNoDuplicates`,
`OrderIsKept`, `StoredEventsWereSeen` and `NumbersDoNotReturn`. The table's half of
`OrderIsKept`, and `NumbersDoNotReturn`, are about tables that `New` could read; what
happens after the other starts is under [findings](#findings).

**LinkedListProofs** (assumption `ListAssumption`: lists, elements and `Nil` are
different things, and the elements are finitely many). `RingsStayLinked` proves
`RingsAreLinked`. The invariant speaks of neighbours only and is inductive as
it stands, with the variables' types beside it (`IInv`: `Links`, `Linked`,
`Counted`, and `LoopOK` for the lists a copying loop is about). Every call is
made of four operations on links, `lazyInit`, insertion, removal and clearing, each with
a lemma (`LazyInit`, `InsertLinks`, `UnlinkLinks`, `ClearLinks`) and, for the
length, `CountInsert` and `CountUnlink`; `move` is a removal followed by an
insertion (`RelinkInv`). The other two speak of a ring as a whole. `OInv` adds that
some sequences `S` are what the rings hold, in order (`Orders`), and where a
copying loop is in them (`CopyOK`): it has made so many copies, each with the value
of its original, its cursor is at the next of the old elements, and there are as
many of these left as it has turns. Going along a ring is an induction over the
places of a sequence, done by taking the smallest place at which two readings of
it differ (`Smallest`). What each operation does to `S` is a lemma; that a step of
OrderedList is what it does to `Contents` gives `ListsAreOrdered`:
`Spec => ImplementsOrderedList`, and `CursorStaysOld` is `CursorIsOld`.

**ChannelBusProofs** (assumption `BusAssumption`: the bound on messages is a
number). The four properties are about queues that are or are not in the slice,
while the code speaks of indices; the invariant joins the two:

* `Publishing`: a publisher that sends holds the read lock, so the slice it
  ranges over is the one that is there;
* `PumpsHold`, `Closing`, `Distinct`: a pump holds a message exactly while it
  hands one on, which channels a consumer has closed where it is, and that
  nobody stands in the slice twice (`SwapRemoved` says what `array.Remove` does);
* `Registry`: while every removal has taken the newest queue, the index in a
  subscriber's hand is where its queue stands;
* `SentBefore`, `InOrder`: a subscriber has been given what was sent, older than
  what a call has still to bring it, and received it in order;
* `Carried`, `Returned`: a publisher that is past an open queue has given it the
  message, and a call that answered nil is over.

From `Invariance` follow `TypeCorrect`, `ExactRegistry`, `OneWindow`, `NothingLost`
and `InSendOrder`.

**AccountsProofs** (assumption `AccountsAssumption`: "no row" is no handle, email
or request, and the dids to be deleted are dids). `NamesAreUnique` is inductive
beside the types, as the unique indexes are what keeps it. The others need
`FilesFirst` and `OneRegisters` (who registers has made the key and the
repository, and is alone in that), `RegisteredIsStored` (what an answer promises
holds from the commit on, before the answer) and `EmptiedSoFar` (a deletion has
removed the files and emptied the tables it is past). `QuietSteps` and `NextKeeps` say once what most
actions leave alone. They give `TypeCorrect`, `UniqueNames`, `RepoBehindAccount`,
`OkStored` and `DeletedGone`, which is about the tables that `DeleteAccount` names.

**ActorStoreProofs** (assumption `ActorStoreAssumption`: `Absent` is no content and
no transaction, the bound is a number, batches are non-empty sequences of
writes). That the tables are whole (`DbWhole`: links have rows, the one root its
blocks, and after the first root the empty tree is there) depends on the views
in flight. `JobsInHand` says what a view has become, job by job in any order: a
repository being founded (`Founding`), a record being removed (`Removing`), or a
transaction that has a job left which cannot succeed (`CannotFound`, and the
delete of `ProcessWrites`). `OneWriter` says that who has written holds the lock,
and `CommitsWhole` that what reaches `CommitTx` is one whole operation (`Whole`) on the
tables as they are. From it follow `RootIsOne`, `LinksAreBacked` and `Refinement`:
`Spec => ImplementsRecordIndex`, by showing that a commit is an operation of
RecordIndex and every other step a stutter.

**StorageProofs** has three parts. The first two (assumptions `BlobStoreAssumption` and `RepositoryAssumption`: the
values for "none" are not among the others, the files are finitely many, the
bound is a number, batches are sequences of writes) are about storage. For the blob files, `Places` is what
uploader and moderator hold where they are, `Apart` that no file serves two
blobs or is permanent and temporary, and `Filled` that, until the disk fails, a chunk that
is not right yet will still be written by somebody who has the file open.
`BlobsWhole` is `WholeWhenQuiet` from these. For the repository, `RepoInv` keeps the
records of the open tree, and the tree and records of every stored commit, in
the store; `Applied` and `StoreGrows` are its lemmas, and `TreesWhole` is `NothingDangles`.

The third is about `Encodings`, whose inputs are constants (`EncodingsAssumption`, with
the assumptions of its parts: inputs have the types their fields have in Go,
integers have one bit or more, "none" is no value, the name of an unknown field is no
field's):

* `WritesAreRead`: a write holds one of its three parts at most, whatever setters
  were called (`IsWrite`, inductive beside `PreparedWritesAssumption` alone);
  `ReadBack` then says that a part is read as it was written.
* `CommitsAreRead`: `Gives(F, zero, d)` says that a reader of the fields `F`, which
  come in any order and with unknown ones among them, ends with `d`. The fields
  that are written give what was signed (`FieldsGive`), and still do with one
  inserted anywhere (`InsertedGives`). `VersionIsRead` is about the encoding of a
  negative version by its distance from -1 and overflow, and `CutFails` about streams that
  stop short.
* `QueriesAreRead`: by the type of the parameter (`QueryRead`), for those that the
  property does not leave aside by `Sound` and `Compiles`.
* `ErrorsAreRelayed`: an answer that has passed one client is `Complete` (it has a
  code, and a message where its code has one by default), and such an answer stays
  as it is (`CompleteStays`), however often it is passed on. For answers without
  JSON, `CodeOfClass` says which code a status is given.

**IdentityCacheProofs** (assumption `IdentityCacheAssumption`: lifetimes and bounds
are numbers and the HTTP lifetime is not zero, dids and handles are finitely
many and disjoint, handles belong to dids). An answer passes from hand to row
to hand, up to four times with both caches, and each time its age grows. `Known(k, v, t)`
says that version `v` was true at `t` or later, and at the last purge or later;
`Hand` states it of the answer that a run holds and `Rows` of every row, each with the
age that its place allows. `Files` and `Begun` are about start-up (a table is missing only while
somebody is making it or since that failed), and `Alone` about a purge beside which nobody
runs. `TablesAreMadeOnce`, `AnswersStayFresh` and `PurgesForget` follow, and
`RefillsAreNotOlder` under `HttpTTL <= DocTTL`; `context.go:90-97` gives a week to both.

Only model-checked: the liveness properties (`CallReturns`, `GoroutinesExit`, `PubEnds`,
`LockIsGranted`), as the prover does not treat fairness; and `CidIsKept` and
`ImportsAreUsed`, as IpldNodes and LexImports are recursive over nodes and schemas.

## Findings

Each is a run that ends with a counterexample to one property, which states what
a comment, a schema or a test says.

* `parallel_cancelled`: `Do` on a context cancelled beforehand can answer nil. A
  goroutine whose context is done may drop its error instead of sending it, and
  the loop may then meet the closed channel before it looks at the context.
  `TestDo_Cancel` in `parallel_test.go` asks for the context's error.
* `bus_stale_index`: closing two of three subscriptions out of order removes
  the queue of the third, which stays open and hears nothing more. The index is
  the one the queue was appended at; `array.Remove` moves the last one.
* `accounts_half`: two requests for one handle pass the look-ups together;
  `ON CONFLICT DO NOTHING` drops the second actor row, and the request is still
  answered with tokens.
* `blob_half`: a copy to permanent storage that fails leaves half a file;
  `MakePermanent` called again finds a file, skips the copy, removes the whole
  temporary one and answers nil. Its comment says that it moves the file.
* `repo_load`: `Load` opens the tree at the commit's cid, not at its data, and so
  does not find the records of the commit. `repo_test.go` reads one back after
  `Load`.

Four more things that the model does and a caller may not expect; no run is about
them, as the properties name each in a premise:

* The two look-ups of `CreateAccount` and their caller share one `err`, so that the
  email's "not found" can hide the handle's "found"; `ON CONFLICT DO NOTHING` is then
  what keeps names unique, and what `accounts_half` is about. A look-up that is late
  enough to write `err` after the caller has checked it is left out (`Check` says what
  it can do).
* A caller of `CreateAccount` that goes away during the transaction makes some of its
  jobs fail; `parallel.Do` hides their errors, and the transaction, begun without the
  caller's context, commits the rest. An actor without an account, or an account
  without an actor, is what is left (`cancelled` in `OkIsStored` and
  `CreatedIsRegistered`).
* `DeleteAccount` "deletes all records associated with the given `did`"
  (`account.go:207`) but for its app passwords: the table is not in its list, and
  `apps` not among the tables of `DeletedIsGone`.
* After a start at which the sequencer's table could not be read, the counter begins at
  zero over stored rows, and `INSERT`s are refused until it has passed them (`clean` in
  `RealTimeOrder` and `NoStoredNumberAgain`).

## What is not modelled

* *Queries without effect* (`next`, `earliestAfterTime`, the account store's
  resolver): they read one table and nothing depends on them.
* *The file cache*: nothing calls it.
* *`--no-cache`, `CacheDoc` with a previous result, subcommands that run `init`
  twice* in IdentityCache: see the plan.
* *Cryptography and bytes*: signatures, password hashes, the bytes of CBOR and
  CIDs. Where it matters that two values differ, they are different model values.
* *The codecs of the other generated types* (`atp`, `api`): they come from the same
  generator as those of commits.
* *The tables beside blobs* (`blob`, `record_blob`): `blob.go` 384-390 are stubs,
  nothing inserts a row, and `DeleteBlob` has no caller.
* *The block cache* of `internal/actorstore/repo.go`, *the in-memory block store*,
  and *`PutRecord`* beyond its `GetRecord`, which finds nothing (see ActorStore).
  Nor is `IndexRecord` with a nil record, which no caller passes.
* *The walk that compares two trees* (`repo.go` 253-300, 412-503): an algorithm over
  the library's nodes.
* *`WriteRPC` and its like in `lex/type_schema.go`*, and *the rest of what `lexgen`
  prints*: text, but for the parameters and the imports.
* *`TakedownAccount`*: no caller. *Invite codes, `UpdateEmail`, token
  scopes*: see the plan.
* *Text*: logging and printing.
* *HTTP*: that a handler runs in a goroutine of its own, with a context that ends
  when the client goes, is all that is used of it.

## Plan

Done: parallel, the bus, the sequencer, the core of accounts, the identity
caches, the lists, the actor store with its blobs and repository, the codecs,
and the two parts of the code generator that compute rather than print. Next,
in this order:

1. **Proofs**: the bounds in `TypeOK` of IdentityCache.
2. **Rest of the account store**: invite codes and their use counts; the
   scopes a token is accepted for.
3. **Algorithms**: the walk that compares two trees, `CidSet` and `BlockMap`, the
   names that `lexgen` gives to types.
4. **IdentityCache**: start-up of subcommands (which wrap the HTTP cache in
   itself), `StoreIdentity`, and the file cache.
5. **Composition**: CreateAccount's events through Sequencer and ChannelBus.
