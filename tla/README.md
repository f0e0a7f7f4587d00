# TelUI in TLA+

TelUI receives OpenTelemetry traces, logs and metrics over OTLP/gRPC and
OTLP/HTTP, keeps them in memory, and shows them on a web page that polls an
API. This directory holds TLA+ models of it, TLC configurations that check them
on small instances, and proofs, checked by TLAPS, of what holds for every
instance. Line numbers refer to the files under `src/`.

## The system

| Component | State | Operations | Used by / uses |
|---|---|---|---|
| in-memory store (`storage.go`, types in `objects.go`) | maps of requests, resources, scopes, traces and metrics, a list of logs, one mutex | `receiveTraces`, `receiveLogs`, `receiveMetrics`, `reset` | called by every endpoint; read by the UI API |
| OTLP/gRPC endpoint (`serve_otlp_grpc.go`) | a goroutine per call | `Export` of three services | calls the store |
| OTLP/HTTP endpoint (`serve_otlp_http.go`) | a goroutine per request | `readOtlpRequest`, three handlers, `ack` | calls the store |
| UI API (`serve_ui.go`) | none | lists, single items, `POST /api/reset` | reads the store with its mutex held |
| values (`value.go`, methods in `objects.go`) | none | `convertValue`, `hashInto`, `toJson` | store (conversion, ids), UI API (answers) |
| start and stop (`main.go`, `utils.go`) | listeners, the stack of deferred stops | `start`, `serveLocalhost`, stop functions | starts the endpoints, waits for their requests |
| page: loop, tabs, reset button (`static/runner.js`) | `updatingTab`, `loopPromise`, `stopLoop`, one closure per loop | `updateLoop`, `updateTab` | fetches lists; calls `updatePanel` |
| page: lists (`traces.js`, `logs.js`, `metrics.js`) | `#body` | `updateTraces`, `updateLogs`, `updateMetrics` | called by the loop |
| page: side panel (`panel.js`, `selectSpan`, `selectLog`, `selectMetric`) | selected item, `panelUpdater`, `#panel-body` | select, close, update | called by clicks and by the loop |
| parsing, properties, graphs (`utils.js`, `props.js`, `graph.js`) | a canvas | `fetchData`, `renderProp`, drawing | called by lists and panel |

What is hard about it:

- The store's mutex is taken for one map operation at a time. A call with
  many items takes it many times, and keeps ids and pointers in local variables
  in between, while other calls write and a reset empties the store.
- Ids are 64-bit hashes of undelimited encodings; an id may be shared.
- A value of an unknown type makes a conversion panic, after part of the
  request was stored; a string that is not UTF-8 is stored, and makes every
  answer panic that has it. Over gRPC a panic ends the process, over HTTP the
  connection.
- The UI API writes to its client with the mutex held. The client may be slow,
  or gone; senders that wait for the mutex give up and send again; a stop waits
  for all of them.
- Values pass four conversions (to `value`, to JSON, through the page's reviver,
  to properties) in which integers, times, bytes and references travel as
  objects with marked keys, next to a sender's own keys.
- `-verbose` prints what was just stored, without the mutex: of a metric, what
  other calls have put into it, too. A print panics at text that is not UTF-8.
- On the page every `await` is a point where the tab, the selection or the store
  may change under an answer that is on its way.
- A reset takes away what the page shows, and the ids it refers to.

What makes each part correct:

- *store*: what a call stored is there, once, in order and under its own
  context's ids, unless a reset came after the call began; a reset leaves
  nothing of finished calls; what an id or index meant it goes on meaning
  between resets; ids resolve, with one exception that is stated exactly; the
  merged metadata of a metric does not depend on the order of arrival.
- *endpoints*: a status means what the sender makes of it; a retry doubles no
  span; every request comes to its end, whatever clients do, and gives the mutex
  back.
- *start and stop*: a stop ends, and cuts off nothing that was accepted.
- *values*: what is shown is what was sent, and well-formed telemetry reaches the
  screen; equal contexts get equal ids.
- *page*: one loop runs at a time; the list is that of the highlighted tab,
  never goes back in time, and is newer than an acknowledged reset; no click is
  lost; list and panel catch up with the store.

## Modules

    Telemetry      what the store promises, without its mechanism
    Storage        the store and the goroutines that fill it
      StorageRefines the refinement of Telemetry (INSTANCE)
      StorageInv     the inductive invariants, IInv and StoreInv
        MCStorage      small instances of all of these
        StorageProofs    types, what is filed, resolvable and stable
          StorageKeptProofs  what is kept, in which order, and under which ids
            StorageEndsProofs    how calls get on, and what ends the process
            StorageRefinesProofs  the refinement
    Endpoints      clients, the handlers of the three servers, the mutex between them
      Server         the process around them: start, interrupt, stops
        ServerInv      its inductive invariant
          MCServer       small instances
          ServerProofs   theorems
    Objects        the field tables of the structs, what is written of them, and the keys
    Utf8           texts, and the cut of a log's summary
      Utf8Proofs     theorems
      Items          one item on its way from its sender to the screen (with Objects)
        ItemsProofs    theorems about the rows of logs and about Objects
      Values         conversion, hashing, JSON, parsing, showing of values (with Objects)
        ItemsShown     what of an item is shown (with Items)
          MCItems        small instances
    Page           the browser page, with the store reduced to a set and a version
      PageInv        its inductive invariant
        MCPage         small instances
        PageProofs     theorems

The modules with proofs extend TLAPS; those that TLC runs do not.

### Storage

State: the six fields of `struct storage` are variables of the same name.
`metrics` maps an id to an index into `heap`, the list of all metric objects
ever made: this is how a `*metric` that outlives a reset is modelled. Each
call has the batch it carries (`sent`), a position in it (`pc`, `n`), and the
local variables of its goroutine (`ids` for `reqId`, `resId`, `scopeId`; `cur`
for the pointer `m2`). `resets` and `cut` are history: they record which calls a
reset overtook.

A batch is the sequence of loop bodies that the three nested loops run
(`WellNested` says which sequences those are). One action is one critical
section, with the conversions and hashing before it, which touch nothing shared:

| Action | Code |
|---|---|
| `receiveRequestMeta`, `receiveResource`, `receiveScope` | storage.go:45-106 |
| `receiveSpan` | the innermost body of `receiveTraces`, lock at 173-186 |
| `receiveLog` | the innermost body of `receiveLogs`, lock at 268-270 |
| `receiveMetric` | the body of `receiveMetrics` up to the unlock at 477 |
| `receivePoint`, `appendPoint` | the two critical sections of `receivePoints`, 302-308 and 317-319 |
| `beginDump`, `endDump`, `race` | the unlocked print of a metric at 546-548 |
| `convertPanic` | the panics of value.go:84, storage.go:343 and 366 |
| `printPanic` | the panic of value.go:182 in a print, at 54, 77, 102, 189, 273 or 547 |
| `respond` | the return of a handler |
| `reset` | storage.go:34-43 |

Abstracted: contents are opaque values, the hash is a constant operator
`hashValue` (any function), and the values whose conversion panics are a
constant set `Bad`; those with a string that is not UTF-8 are `Unprintable`. With
`-verbose`, a call that has stored such a value is at `"panic"` (`AfterPrint`), and a
metric that holds one cannot be printed (`Printable`). A print that succeeds is
a step of its own only for metrics: of everything else a call prints a value that
it holds itself, which nobody else can tell. The outcome of a metric's print is
taken from the metric as it is when the print ends; one that got past the place of
a later change is one that ended before it. `MetricIdentity` keeps resource, scope and one name for
the five other fields of the identity. A description is a sequence, as its
length matters. `race` is Go's check for concurrent use of a map: the process
may end, or the step may go unnoticed, in which case the steps above describe it.
It takes a write of what the print reads, a stream, a point or a longer
description; the field `conflict` is not printed.

### Telemetry and the refinement

`Telemetry` has no mutex, no goroutine-local ids, no registries, no metric
objects: a call hands over its items in order, each in one step, and a reset
empties three collections. Only a call that was open at a reset may lose data
points (`LosePoint`). `StorageRefines` maps `Storage` to it: an item counts as
taken once its loop body is over, a stream from its first point on, and a metric
only as long as `metrics` leads to it. What a reader gets from the registries
and the merged metadata is not part of it; `DanglingNeedsReset`,
`ConflictIffDiffers` and `LongestDescription` speak of these.

### Endpoints and Server

A request is a pair of a client and the number of its try. `at` is where its
handler is; the store is the set `kept` of copies <<request, position of the
item>>, as `Storage` has the details. An export takes the mutex for one item at
a time (`storeItem`), a UI handler from `lock` to `written` or `flush`, over up to
`MaxPieces` writes to its client.

| Action | Code |
|---|---|
| `accept`, `readOtlpRequest`, `stored`, `ack` | serve_otlp_http.go:32-149, `Export` in serve_otlp_grpc.go |
| `storeItem`, `storePanics` | the calls of `receiveTraces`, `receiveLogs`, `receiveMetrics` |
| `badId`, `notFound`, `lock`, `writePiece`, `writePanics`, `written`, `flush`, `reset` | the handlers of serve_ui.go |
| `send`, `giveUp`, `learn` | clients (external) |
| `skip`, `listen`, `listenFails`, `notify`, `interrupt`, `kill` | main.go:28-55, utils.go:15-34 |
| `closeListeners`, `stopped`, `exit` | the stop functions and the libraries' `Shutdown` and `GracefulStop` |

Abstracted: a body is described by what `readOtlpRequest` tests of it; an item
by its kind and what is wrong with it (of an unknown type, not UTF-8). With
`-verbose` the handler panics after it has stored one that is not UTF-8
(`Unprinted`). An answer's writes are counted, not read; `Items` has their contents. The reply
500 (serve_otlp_http.go:87-90) is left out, as an empty reply can always be
encoded. `/api/metrics` and `/api/metric` run like the list and the log here.
`net/http` recovers a panic of a handler and closes the connection; `grpc-go`
does not recover it.

### Objects, Utf8, Values and Items

A value is a pair <<type, content>>. `Objects` is a table of the seventeen
structs that objects.go encodes: for every field the value that is not written,
the fields that are always written (`Always`), and keys that differ from the
field (`Keys`); a few fields are written otherwise (`OddMembers`). It also has
`mapifier.key` (`key`) and what the page undoes of it (`shownKey`). `Values` has
one operator per conversion: `convertValue`, `hashInto`, `toJson`, `revived` for
the reviver of `fetchData`, `renderProp`, and `selectMetric` for what metrics.js makes
of a metric before the side panel shows it: buckets with their bounds in place of the
counts of a histogram, the extremes of a summary. In `Items` one item goes through a stage
for each of them, and there is one for each place where it can fail: `panicked`
(conversion, or the summary of a log), `broken` (the answer panics), `unreadable`
(`JSON.parse` throws), `not drawn` (the graph throws).

The conversions are recursive over nested data. The stages are not, so `Items`
takes the conversions as constants (`Converts`, `converted`, ..., `rendered`) and can be proved
about, whatever they are. The configurations give them the operators of `Values`,
and `ItemsShown` has the properties that need to know them.

`Utf8` has the cut of a log's summary (`cut`), next to what it is meant to be
(`FirstLine`), and stands apart from `Values`, whose recursive definitions would
keep it from being proved about.

Abstracted: a text is a sequence over six letters, `a`, a newline, the first byte
of a character of two, three or four, and a byte that continues one; which
characters need how many bytes, and the few codes that UTF-8 forbids, make no
difference to where a text is cut. `maxLogLength` is 4 in place
of 130. A key is the number of its leading underscores and the rest. Numbers
are names, as is what `%g` writes of doubles without a JSON form; wrapping is
modelled where it happens (`AsUint`). The bounds of an exponential histogram's
buckets are powers that the page computes in doubles; here they are all one number. A body that is not a text is summed up
by its JSON, of which any of `JsonTexts` may be the result. What metrics and
streams hold is put together by `Storage`; here they are already whole. Maps
with the same key twice, which OTLP forbids, are not considered.

### Page

A step is a task of the browser with the microtasks that follow it, up to the
next `fetch` or timer; the server's reading of the store for a pending request
is a step of its own, so that answers can overtake each other. `loops` holds
every run of `updateLoop` so far, with its position (`list` and `panel`: awaiting
the answer of `updater()` or `updatePanel()`; `sleep`; `over`), its closure's
`running`, and the answer once given. `loopPromise` and `stopLoop` are indices
of loops. `asked` holds the requests made by clicks on items, in the
list or on "go to span" in the panel (`Linked`). The store is
`present`, a set of items, and `version`, the number of its changes; what is
shown carries the version it was read at. `wiped`, `acked` and `rivals` are
history variables. What users, senders and failures do counts against
`MaxActs`; what the page and the server do by themselves does not.

Left out: the layout and order of rows, the highlighting of the selected item,
the resizer, graphs.

## What the runs check

| Run | Instance | Properties |
|---|---|---|
| `traces` | 3 calls, each any of 3 batches; 2 resets; no collisions | `DanglingNeedsReset`, `NothingSurvivesReset`, `StoresAtOnce`, `StableUntilReset` |
| `logs` | 3 calls, 3 batches; 1 reset; resource and scope ids collide | `StoredIsVisible`, `KeptOnceInOrder`, `StableUntilReset` |
| `metrics` | 3 calls, 4 batches; 1 reset; ids collide | `TypeOK`, `FiledUnderOwnHash`, `ConflictIffDiffers`, `LongestDescription`, `StoreInv`, `StableUntilReset` |
| `panics` | 3 calls, 7 batches: 4 with a value that cannot be converted at some place, 3 with a string that cannot be printed; both transports; `-verbose`; 1 reset | `StoreInv`, `EmptyStreamHasWriter`, `EndsOverShared`, `StoresAtOnce`, `EveryStepAdvances` |
| `race` (violated) | 3 calls, 3 batches, `-verbose` | `VerboseOnlyLogs` |
| `prints` (violated) | 1 call with a log that cannot be printed, `-verbose` | `VerboseOnlyLogs` |
| `server` | 1 sender with 2 tries of any of 10 posts, 1 client of the UI API with 5 questions; both OTLP servers; `-verbose` | `TypeOK`, `StoredAsAnswered`, `RetryKeepsSpansOnce`, `StopCutsNothing`, `ServerInv`, `LockedWhileWriting` |
| `stops` | 1 sender whose post panics, 2 clients of the UI API | `HandlersEnd`, `StopEnds` |
| `items` | every struct with every two fields telling; logs with every body of up to 5 letters, and every event name of up to 3 | `ShownAsSent`, `WellFormedIsShown`, `RowIsFirstLine`, `OneIdentity` |
| `conflict` (violated) | metrics with every two fields telling | `ConflictIsShown` |
| `page` | 2 metrics and a span, there or not at first; 4 acts | `TypeOK`, `OneLoop`, `ListOfActiveTab`, `ResetIsShown`, `NoClickLost`, `PanelOfSelected`, `PageInv`, `ListNeverGoesBack` |
| `page_converges` | the same; 3 acts | `ListConverges`, `PanelConverges` |

Each property is stated in words above its definition. Each is paired in
`PROJECT.json` with a mutant, a wrong form of one definition that stands just
above the right one; with the mutant in its place TLC finds the property
violated. `StoreInv`, `ServerInv` and `PageInv` are the inductive invariants of the
proofs; `StoreInv` contains every invariant of `Storage` but `VerboseOnlyLogs` and
`EndsOverShared`, so `metrics` and `panics` check those they do not name, too:
in `metrics`, for instance, that no point is lost or doubled under collisions.

*Bounds.* Three calls are enough for one to create, one to merge and one to be
between two critical sections; the batches of a run differ pairwise in the
context, item or description that its properties compare, and two calls may
carry the same batch. One reset cuts the calls into those before, across and
after it; the run `traces` takes two, so that a call can be overtaken twice. The
logs and metrics runs use a hash under which two resources share an id and two
scopes do. Calls are symmetric and no property names one, so these runs use
symmetry. On the page, four acts
allow, for instance, a metric to be selected, another one to be selected or the
tab to be changed while the answer is out, data to arrive, and a reset; three
are enough to leave a metric's panel for that of a span on another tab. Two
metrics compete for the panel, and the span has a panel without an updater, to
which a link in any panel may lead.
In `server`, the second try begins while the handler of the first may still be
storing, or after its answer was lost, and the UI client reads, resets or
disappears in between. In `stops`, two UI clients hold the mutex in turn, so
that a handler can be overtaken while it waits. An answer takes one write or
none before the last flush, which is enough to tell a client that is waited for
from one that is not. In `items`, two telling fields show that no field hides
another or takes its key; nested attributes go three levels deep, with every
key that reads like a mark. A limit of 4 letters, with texts of up to 5, puts a
newline, a whole character and each byte of one at, before and after the cut, which
is then moved back by up to three bytes.

*Fairness.* `Storage` has none: a call may have to wait for the mutex as long as
a UI handler keeps it, which is for `Server` to say, and `EveryStepAdvances` needs no
fairness. `Page!FairSpec`: pending
events, timers, and requests are weakly fair, which says that the server answers
and the browser runs its tasks. `Server!FairSpec`: every handler is weakly
fair, and so are the process's stops. This includes the steps that read from
or write to a client: a client sends or reads on, or gives up. That is an
assumption on clients and their TCP connections, not something the code
ensures: no server sets a timeout, and without the assumption one UI client
that never reads stops everything (serve_ui.go:59). Requests, giving up and
interrupts are not fair. User acts, failures and arrivals are not fair:
they need not happen.

*What they show.* All properties hold but two. The runs `race` and `prints` are
two bugs that one property, `VerboseOnlyLogs`, rules out: the flag `-verbose` is said
to log (main.go:22), and adds ways for the process to end. With `race`, two calls
that carry the same metric end it, since storage.go:547 ranges over the metric's map
of streams after the unlock. With `prints`, one call over gRPC does, since
`jsonToString` panics at a string that is not UTF-8 (value.go:182), which without
the flag is stored. `EndsOverShared` says what is left: a call is ended by
another only over a resource, scope or metric that both carry, unless ids collide.
The run `conflict` is a bug, too: the field
`conflict` that storage.go:461 sets is not written by objects.go:507-522, so the
note of metrics.js:93-98 is never shown. Some exact statements are weaker than one
might hope, and say so: ids dangle after a reset overtook a running call
(`DanglingNeedsReset`), which makes `metrics.js:31` throw; a stream is
visible before its first point (`EmptyStreamHasWriter`), which makes
`metrics.js:111` throw for that update, and stays so when the first point's
conversion panics; the panel may show the item selected before
(`PanelOfSelected`) until, for a metric, the next update repairs it
(`PanelConverges`).

Others hold with conditions that a reader should know:

- `RetryKeepsSpansOnce`: logs and data points are doubled by a retry, but only if
  the sender got no answer.
- `StopCutsNothing`: a server whose second address cannot be had (utils.go:21-24)
  serves on its first one until the process exits, with no stop that waits for its
  requests.
- `WellFormedIsShown` excludes what the code does not survive: values without a
  type (value.go:84), text that is not UTF-8 (value.go:182; it also breaks the
  lists, until a reset, and in the summary of a log the index of
  storage.go:254 may run out of the string), NaN and infinities (value.go:178,
  which make the answer no JSON), streams with values of both number types and
  histograms that count without bounds (graph.js:121, metrics.js:128).
- `OneIdentity` compares contexts that differ in one field. Nothing stands between
  the fields that are hashed (objects.go:133-142, 175-179, 204-210), so a scope
  with the name `a` and no version has the id of one with the version `a` and no
  name. `FiledUnderOwnHash` says what the store then does.
- `ShownAsSent` says of a metric what its side panel shows, its metadata and its
  streams; name, description and the rest are in its row of the list, which is
  not modelled. Of a histogram it shows the buckets that have counted something, with
  their counts and in order. Among those of an exponential one there is one with the
  scale for its count, as objects.go:695 writes the scale in place of the zeros.
  Flags, empty bytes and the time 0 are shown as the marked objects they
  travel as, since props.js:35-37 does not recognise these.

## What is proved

TLAPS checks everything below for all values of the constants. There are no
other assumptions than the named ones of the modules:

- `BatchAssumption` (Storage): the entries of a batch are nested as the loops of
  the code nest them; `Verbose` and `MaxReset` have their types. Calls, batches
  and the hash are arbitrary, so that "any hash" includes every collision.
- `EndpointsAssumption`, `EnabledAssumption` (Endpoints, Server): senders and
  readers of the UI API are different clients, a post comes over gRPC or HTTP,
  the questions are those the API has. Clients, posts, the number of tries and of
  writes per answer are arbitrary.
- `PageAssumption` (Page): each item belongs to a tab. Items and the number of
  acts are arbitrary.
- `LimitAssumption` (Utf8): `maxLogLength` is a number.
- `SentAssumption` (Items): the texts of a log are sequences of letters. Items and
  conversions are arbitrary.

### The store

| Theorem | Statement |
|---|---|
| `TypeCorrect` | `Spec => []TypeOK` |
| `Stable` | `Spec => StableUntilReset` |
| `Filed` | `Spec => []FiledUnderOwnHash` |
| `Resolvable` | `Spec => []DanglingNeedsReset` |
| `Invariant` | `Spec => []StoreInv` |
| `Visible` | `Spec => []StoredIsVisible` |
| `OfThisReset` | `Spec => []NothingSurvivesReset` |
| `OnceInOrder` | `Spec => []KeptOnceInOrder` |
| `Conflicts` | `Spec => []ConflictIffDiffers` |
| `Longest` | `Spec => []LongestDescription` |
| `Writers` | `Spec => []EmptyStreamHasWriter` |
| `Advances` | `Spec => EveryStepAdvances` |
| `EndsShared` | `Spec => []EndsOverShared` |
| `Implements` | `Spec => StoresAtOnce`, which is `Telemetry`'s `Spec` under the mapping |

*Types and stability* (`StorageProofs`). `TypeOK` is inductive together with `Lists`
(the slices are sequences, which `Append` needs): `TypeInit`, `TypeStep`. `Stable`
needs this and that every step of a call only extends the maps (`RegisterLemma`,
`RegistriesGrow`) and metric objects (`MetricGrows`, `HeapStep`).

*Ids* (`StorageProofs`). `DanglingNeedsReset` says nothing of the variables a
goroutine keeps between its critical sections, and those are what it stores
next. `IInv` adds them. `Locals` says: the ids a call holds are those of a
resource and a scope it entered, they are registered unless a reset came in
between, and its pointer and stream exist. Which of these it holds depends on the
kind of the previous entry, so `NestingLemma` first derives from `WellNested`
that there is one. `LocalsStep` shows that each action keeps `Locals` for the
call that steps (`LocalsOfAdvance`, `LocalsOfMove`) and for the others
(`LocalsOfOthers`, as the maps only grow); `ContextOK` turns `Locals` into "what
is stored now resolves"; `DanglingStep` and `MetricsStep` carry
that through each action, and `InvStep` treats the reset, after which nothing
is left to resolve and every running call is among those excused.

*What is kept* (`StorageKeptProofs`). "Registered" is not enough for
`StoredIsVisible`, which says under *which* ids an item is found. `StoreInv` adds
to `IInv` and the properties themselves:

- `Exact`: the ids a call holds are those of the innermost resource and scope
  around its entry, and its pointer is of the metric object that `metrics` has
  under that metric's id, unless a reset came in between (`ExactStep`). `ContextIdLemma`
  shows what passing an entry does to the context of the next.
- `Agreed`: the metadata a metric shows is that of some call, and as long as it is
  not marked as conflicting, that of every call. Without it `ConflictIffDiffers` is not
  inductive: the comparison of a new entry with the merged metadata would say
  nothing of the entries before (`MetaNew`, `MetaMerged`, `MetadataStep`).
- `Countable`: the sets `KeptOnceInOrder` counts are finite. A step that passes a
  log or a point adds one place and one entry to both counts (`PlacesStep`,
  `CountStep`).

`StoredStep` says once for all of these what a step changes in the sets of
entries passed (`Passes`, `Remains`): only appends and the ends of loop bodies
pass one. Each part has a lemma for the step of a call (`VisibleStep`,
`OriginStep`, `OrderStep`, `WritersStep`); `StoreReset` treats the reset.

*Getting on, and ending* (`StorageEndsProofs`). `EveryStepAdvances` gives each
call a number, `StepsLeft`, that every step of the call lowers and no step of
another changes (`MoveLemma`, `AdvanceStep`): what a call has to take is bounded by
what it carries. `EndsOverShared` needs, of a panic in a print, where the string came
from that cannot be printed. A call prints only what it has just been at
(`Printing`, `PrintableStep`); of a resource or scope that is what the registry had
under its id, which some call had brought (`Refused`, `Sourced`: every value in the
registries and in the metric objects was brought by an entry that a call has passed
or is at, under the same id, whether a reset has come since or not). `SourcedStep`
shows that for each action, and `PrintEnds` applies it. Of the race it needs that the
pointers of the printing and of the writing call lead to an object filed under the
metric id of each: that is `Exact` for a call at a point or in the print, and
`FiledUnderOwnHash` for one that finds the metric in the map (`RaceEnds`). Both
hold of objects that a reset has cut off, too.

*The refinement* (`StorageRefinesProofs`). `AbstractInit` maps the initial
states. For a step of a call there is one lemma per variable of the abstract store:
`SpansStep`, `SeriesStep`, `StatusStep`, `TakenStep` say how `Spans`, `Series`,
`Status` and `Taken` change. Their conclusions are the conjuncts of `Telemetry`'s
actions, or that nothing changes (`Hidden`), from which `AbstractStep` assembles
the step. The interesting case is `appendPoint` through a pointer that a reset has cut off:
the point is nowhere in `Series`, and the step is `LosePoint`; that the call is
then among those the reset overtook follows from `Exact`.

### Endpoints and process

| Theorem (`ServerProofs`) | Statement |
|---|---|
| `ServerInvariant` | `Spec => []ServerInv` |
| `ServerTypes` | `Spec => []TypeOK` |
| `Answers` | `Spec => []StoredAsAnswered` |
| `Retries` | `Spec => []RetryKeepsSpansOnce` |
| `Stops` | `Spec => []StopCutsNothing` |
| `Locked` | `Spec => LockedWhileWriting` |
| `HandlersAdvance` | `Spec => [][...]_vars`: a running handler is where it was or has fewer `StepsLeft`, and the mutex and the store are only touched by one that gets nearer to its end |

`ServerInv` has a part for each thing the properties need: `Roles` (which server
runs which handler), `OneWriter` (the mutex belongs to the one handler that
writes), `InTurn` (a client's tries follow each other), `Progress` (how much a
try has stored goes with where it is and what was answered), `Copies` (there are
copies of what was stored, of a span only one), `StartOrder` and `Covered` (a
server that listens or has a request running has a stop deferred, or got only one
of its addresses). A step is a step of one request, or of the process
(`StepCases`). `Goes` says of the first that `at` changes along one of the
edges listed in `Edges` and for that request only (`GoesLemma`), which
`RolesStep`, `InTurnStep` and `ProgressStep` need; `WriterLemma` says
who may take or give the mutex, `BusyLemma` whom a stop may have to wait for.
`Locked` is an action property: it follows from `OneWriter` and `WriterLemma`,
as `storeItem` and `reset` require the mutex to be free. `HandlersAdvance` is the
part of `HandlersEnd` that needs no fairness: no step sets a handler back, not even
one that is overtaken at the mutex (`AdvanceLemma` for its own steps,
`OthersLemma` for the rest), so a request takes at most three steps and one for each
item or each piece of its answer.

### The page

| Theorem (`PageProofs`) | Statement |
|---|---|
| `PageInvariant` | `Spec => []PageInv` |
| `PageTypes` | `Spec => []TypeOK` |
| `Single` | `Spec => []OneLoop` |
| `OwnList` | `Spec => []ListOfActiveTab` |
| `Wiped` | `Spec => []ResetIsShown` |
| `Clicks` | `Spec => []NoClickLost` |
| `OwnPanel` | `Spec => []PanelOfSelected` |
| `Onward` | `Spec => ListNeverGoesBack` |

`PageInv` adds to the properties what is on its way: the loop that is not over
is one of the highlighted tab (`LoopOfActive`), an answer that waits to be shown was
read after what is shown and, unless the tab is being changed, after the last reset
the page knows of (`AnswersAreNews`), and
requests for the panel are for the selected item or were out before it was
(`PanelRequests`). The proofs do not go action by action through nested
records. They first reduce a step to what it does to the loops, one of `Kept`,
`Opened`, `Stops` or `Moves` (`TabsStep`), to the server's part (`ServerStep`), and to the panel, one of
`Shows`, `Closes`, `Selects` or no change (`PanelStep`); the invariant is then shown for
these cases (`OneLoopStep`, `NewsStep`, `ListStep`, `PanelRequestsStep`).
`Onward` follows from `AnswersAreNews`, since only an answer that waits is ever
shown. `NoClickLost` says what makes `ListConverges` true in spite of the calls of
`updateTab` that return at once (runner.js:56): it relates `updatingTab`, the loop
waited for, and the address. `ClicksStep` shows it for the same four cases, `RunsOn`
being what each leaves of a loop that goes on.

### Items

| Theorem | Statement |
|---|---|
| `CutStops`, `CutIsFirstLine`, `CutIsText` (`Utf8Proofs`) | of the operator `cut` |
| `FirstLines` (`ItemsProofs`) | `Spec => []RowIsFirstLine` |
| `KeysApart` | `key` is injective and yields no mark, and `shownKey` undoes it |
| `MembersOnce` | no two members of a struct are written under one key |
| `MembersTell` | structs with the same members agree in every field written by itself |

`Utf8Proofs` proves for every text of any length and every limit: on UTF-8, the
loop that looks for the start of a character stops within the text (`CutStops`;
on other texts it may not, which is why `Items` has `Unsummed`),
`cut(s) = FirstLine(s)` (`CutIsFirstLine`), and the cut of a UTF-8 text is UTF-8 (`CutIsText`). `CutLemma`
is the core: the beginnings that fit are exactly those before a letter at which the loop
may stop (`PrefixLemma`). `FirstLines` carries this over to the rows: `RowInv`
says that the row stays as `receive` has cut it and that only what `receive`
objects to makes it panic, and a log with a text of its own has only one
summary (`BodiesLemma`).

What the encoders do is proved from the tables of `Objects`. `KeysLemma` goes
through the seventeen structs, since a key such as `time`, which is the name of
one field and stands for another, is only unambiguous within each; `OddLemma`
has the members that are written in place of fields. With them, a member under the key
of a field is that field's (`OwnKeyLemma`), from which `MembersOnce` and
`MembersTell` follow. The latter says that the page can tell two structs apart if their
senders' differ: it is one level of `ShownAsSent`, for all contents, while
`ShownAsSent` has all levels, for those of the run. For headers it needs `HeaderValueLemma`, as
one with a single value is written as a text. It says nothing of the fields in
`Odd`: trace and span travel in one member, and the scale of an exponential
histogram in place of its zeros.

### Only model-checked

- Liveness: `HandlersEnd`, `StopEnds`, `ListConverges`,
  `PanelConverges`. TLAPS has no proof rules for fairness and ENABLED here. What
  they need of safety is proved: `EveryStepAdvances`, `HandlersAdvance`, `NoClickLost`.
- `ShownAsSent`, `WellFormedIsShown` and `OneIdentity` of `ItemsShown`. `Values`
  is recursive over nested data, and induction over data is out of the prover's
  reach. `KeysApart`, `MembersOnce` and `MembersTell` prove a single level.

Every other property that a passing run checks is also proved. `VerboseOnlyLogs`
and `ConflictIsShown` do not hold.

## What is not modelled

- The bounds of an exponential histogram's buckets (metrics.js:137-138): powers in
  doubles. The rows of the list of metrics (metrics.js:38-60).
- Drawing (`graph.js`), layout, order and formatting of rows, style sheets, and the
  embedding of static files: they keep no state that other parts depend on.
- Decoding of OTLP, gzip, HTTP and gRPC, which are libraries; the models have
  their outcomes.

## What is left to prove

- That the store of `Endpoints`, the set `kept`, is what `Storage` makes of it: a
  mapping from calls and batches to requests and items, under which `storeItem`
  is a pass of an entry.
- What `Telemetry` promises by itself (an answered call's spans are there until
  a reset), so that the refinement carries it over to `Storage`. `StoredIsVisible`
  says it of `Storage` directly.
