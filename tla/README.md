# Goquiver in TLA+

This directory holds TLA+ models of [goquiver](../src/README.md), a library of Go
packages, the TLC configurations that check them on small instances, and theorems
about them that TLAPS proves for every value of their constants. `PROJECT.json` lists
the runs, the theorems, the lines each definition models and the hazards the
properties are for.

Contents: [inventory](#inventory) · [how to run](#how-to-run) ·
[modules](#modules-and-what-they-model) · [runs](#what-the-runs-check) ·
[fairness](#fairness) · [proofs](#what-is-proved) ·
[divergences](#where-the-code-and-its-documentation-part) ·
[limits](#what-is-not-modelled) · [plan](#plan)

## Inventory

The packages are independent libraries with three dependencies among them:
`pool/balanced` uses `safe.UnlimitedChannel`, `cache` uses `safe.Map`, and `fan` uses
`pool`. State is in memory; nothing is persisted by the library itself. `k8s` and
`firestore` talk to external services.

| Component | State | Operations | What is hard | What makes it correct |
|---|---|---|---|---|
| `safe.UnlimitedChannel` (`safe/channel.go`) | the slice `storage`, two unbuffered channels, the channel `finalized`, a context; one manager goroutine | `In`, `Out`, `Finalize` | a send racing `Finalize`; selects with several ready cases; `In()` closed by a client | FIFO without loss or duplication; `Finalize` returns exactly the rest; no send and no `Finalize` blocks for ever |
| `safe.Map` (`safe/map.go`) | a map and a `RWMutex` | `Keys`, `Set`, `SetIfNotExists`, `Get`, `Has`, `Delete` | each method is atomic, sequences of them are not | one critical section per call |
| `balanced.Pool` (`pool/balanced/pool.go`) | the pool's mutex, a left-leaning red-black tree of workers; per worker an estimate, an unlimited channel, the ongoing task | `New`, `RunAsync`, `Run` | keys of the tree change without the tree's lock; a channel send under the pool's lock; cancellation racing submission; an unbuffered answer per task; panicking tasks | no worker lost from the tree; estimates equal to the backlog; a task runs at most once; the answer tells its fate; everyone is answered |
| `pool.Pool` (`pool/pool.go`) | a count, a wait group, an unbuffered channel of tasks, a context; up to `size` goroutines | `New`, `Run`, `UntilFinished` | the count is unguarded; a nil task, the closed channel and the context all end a goroutine; a signaller that may be left behind | the limit on goroutines; `nil` from `UntilFinished` means that everything was executed; nobody waits for ever |
| `fan.Fan` (`fan/fan.go`) | two slices for results and errors, a `pool.Pool` | `Out`, `In` | tasks write to the slices while `In` returns them on cancellation, or while a second `Out` replaces them | each result at its item's place when `In` returns without an error |
| `cache.Cache` (`cache/cache.go`) | a `safe.Map` of items with time stamp, time to live and refresher; one refresher goroutine | `New`, `Set`, `Get`, `Delete`, the periodic refresh | get, clone, refresh and set are separate steps that race `Set`, `Delete` and each other; the refresher's end | no call is undone but by a clone under way; an answer without an error was not stale (but see `cache_stale`) |
| `k8s`, one object (`k8s/k8s.go`, `k8s/def.go`) | two package-wide clientsets and a `sync.Once`; per waiting call a goroutine that polls; the objects are the API server's | `Init`, `Rollout`, `Remove`, `Get`, `List` | an `Init` that failed once, or fails while another call waits for it; a status older than one's own update; answers that are lost; a poller that outlives its call; the claims of a StatefulSet | the object was gone, or rolled out as written, when a wait returns nil; data goes last; every call returns and pollers end |
| `k8s`, many pods (`WatchPods`) | the map of what was said of each pod; the watch and its events | `WatchPods` | what happens between the list and the watch; events that repeat a state; the end of stream and context | available and unavailable in turn; what was said last is true |
| `k8s`, manifests (`EncodeYAMLAll`, `DecodeAllYAML`) | none | writing and reading lists of resources | separators and comments are found anywhere in a text | what is written can be read again; all or nothing |
| `raw` (`raw/raw.go`, `raw/diff.go`) | none | `Get`, `ChainGet`, `Merge`, `Diff` | bounds, nil values, mixed types | what is returned is what is there; `Merge` keeps both maps; a diff gives the second value back |
| `geo` (`geo/split.go`) | none | `Split` | recursion over a grid with rounded edges, intersections that are dropped | the pieces are a partition of the area, but for what rounding cuts off |
| `firestore` (`firestore/firestore.go`) | a client, a namespace, a regular expression; the documents are the database's | `Create`, `Set`, `Delete`, `Get`, `List`, `RawCollectionRef`, `AtomicAdd` | prefixing and stripping paths | an operation stays in its namespace; what `List` returns can be given back |
| `serde` (`serde/serde.go`) | none | wrappers of encoders | none of its own | - |

The hazards that follow from the fourth column are in `PROJECT.json`, each at its
line and with the properties that cover it.

## How to run

    tlc -config MCUnlimitedChannel.cfg MCUnlimitedChannel
    tlapm UnlimitedChannel_proofs.tla

and likewise for the other configurations, named `MC<module>.cfg` or
`MC<module>_<run>.cfg` after their module, and proof modules. `Fan_proofs` is also that of
`Pool`, `Data_proofs` takes four minutes.

## Modules and what they model

    FifoMailbox  <-- implements --  UnlimitedChannel        Pool         Cache
         ^                                                   ^
         |  each worker's queue follows it                   |  Fan EXTENDS it
    BalancedPool                                            Fan

    Resources    <-- EXTENDS --  K8sClient, PodWatch, Manifests

    RawValues, Manifests, GeoSplit, FireStore  <-- inputs of any kind --  Data
         ^                                                                 ^
         |  EXTENDS                                                        |
    RawMaps  <----------------- small inputs ---------------------------  MCData

An `X_proofs` module holds the theorems about `X`, an `MCX` module its instances for
TLC; `Fan_proofs` has those about `Pool` too, and `Data_proofs` those about what `Data`
calls, with the lemmas about paths in `FireStore_proofs`. A definition whose name has an underscore (`HandOut_KeepsHead`) is a *mutant*: the
form the definition would take with a plausible bug. Putting it in the place of the
definition must make TLC find the property violated that `PROJECT.json` pairs it with,
which shows that the property does depend on that piece of the code.

### `FifoMailbox`

What a client may rely on: `Accept` while the mailbox is open, `Deliver` in the order
of acceptance while it is open, `Shut` once. There is no goroutine and no select in it.

### `UnlimitedChannel`

| Code | Model |
|---|---|
| the manager goroutine (31-66) | `mgr`: `select` (both selects of the loop: they differ in that the first has no send case, which `storage # <<>>` says), `closing` (after `break`), `drain` (the safety loop), `panicked` |
| a send on `In()` | `send[i]`: `idle`, `blocked`, `through`; the rendezvous is `TakeIn` or, in the safety loop, `Drain` |
| a receive from `Out()` | no state: `HandOut` is the rendezvous with any receiver |
| `Finalize` (81-86) | `CallFinalize` cancels, `ReturnFinalize` reads `storage` after `close(finalized)` |
| a client closing the channel `In()` returns | `CloseIn`, when `InMayClose` |
| panics of the manager: close of a closed channel, `storage[0]` of an empty slice, a send on a closed channel | `TakeInClosed`, `NoticeCancel`, `HandOutOnClosed` lead to `panicked`, after which the process is gone |

`accepted` and `received` are history variables. Items are sent once each, which costs
nothing: what an item is does not influence the manager.

### `BalancedPool`

| Code | Model |
|---|---|
| the pool's mutex (269-270) | `lock`: the task whose `RunAsync` holds it |
| the LLRB tree (229, 275, 286-287) | `tree`: its in-order sequence. `DeleteMin` is the tail. `InsertNoReplace` descends by comparisons that each read both keys anew, the worker's own (`ReadKey`) and then the node's (`Descend`, `Less`), under two locks (136-142): `gap` is the interval of places that is left, with the key once it is read, and which node is compared next - the shape of the tree - is left open |
| the workers' first estimates (236-239) | `FirstEta`: one `Microsecond` apart, in the unit of all durations |
| `RunAsync` (268-289) | `Submit` (choice or refusal), `AddEta`, `Send`, `DeleteMin`, (`ReadKey`, `Descend`)*, `Insert` |
| `etaWithOnGoing` (112-120) | the estimate less any part of the running task's, since time passes at will |
| `Run` (293-300) | the tasks in `Sync`: `Receive` is fair for them. For the others it is the client's choice, for ever |
| the worker's loop (182-195) | `pc`: `LookAtContext` (outer select), `NoticeCancel` and `Take` (inner select) |
| `handleTw` (149-181) | `Start`, `EndDo`, `Settle`, `CloseFinished` |
| after the loop (197-201) | `Finalize`, `Report` per task, `Exit` |
| the worker's unlimited channel | `accepted`, `delivered`, `open`: used as `FifoMailbox` says, which `MailboxesAreFifo` checks. A send after `Finalize` is swallowed, as the safety loop does |

`Send` is one step although it is a rendezvous with the channel's manager: that manager
always comes back to a receive (`EverySendGetsThrough`). Finalize is one step for the
same reason (`EveryFinalizeReturns`). Both are checked on `UnlimitedChannel` itself.

Two things are taken from the caller: an estimate is the same each time it is asked for,
and `Do()` ends (in the runs with fairness).

### `Pool`

| Code | Model |
|---|---|
| `p.count < p.size` and `p.count++` (72-73) | `CheckCount`, `LoadCount`, `StoreCount`: the accesses are not synchronized, each is a step |
| `p.wg.Add(1)` and `go` (74-75) | `StartWorker`, which keeps the set of goroutines that `wg` counts |
| `p.tasks <- task` (90) | `HandOver`, the rendezvous with a goroutine in its select |
| the goroutine (75-88) | `worker[w]`: `select`, `busy`, `exited`; `EndTask`, `ExitWorker` |
| `UntilFinished` (95-108) | `UntilFinished` closes the channel and starts the signaller, `StopWaiting` is the return of `wg.Wait`, `ReturnNil` and `ReturnError` are the select |

`CallerOf` says which goroutine calls `Run` for which task: one caller makes its calls
in sequence. `UntilFinished` is called when no `Run` is in progress and none follows;
otherwise the send on the closed channel panics in the client.

### `Fan`

| Code | Model |
|---|---|
| the slices are replaced (55, 56) | `MakeResults`, `MakeErrors`: two steps, since tasks of an earlier call may write in between |
| the loop over the items (57-65) | `RunNext`: `Pool`'s `CheckCount` for the next item once the previous `Run` has returned |
| a task's writes through the receiver's fields (61-64) | `WriteResult`, `WriteError`: to the slices of the *last* call of `Out`, at the index of its own item; the second ends the task. Out of range it panics, which ends the process (`crashed`) |
| `In` (69-71) | `Pool`'s `UntilFinished` and its return |

Everything else is `Pool`'s (`PoolStep`). A task is `<<call, index>>`, an output is known
by its task. One goroutine calls `Out`, any number of times, and then `In` once: after
`In` the pool's channel is closed and either call panics.

### `Cache`

| Code | Model |
|---|---|
| the methods of `safe.Map` (`safe/map.go`) | `Has`, `Put`, `Remove`: one critical section each, one step each |
| `Set` (236-259) | `CallSet`, `EndLoad` (the refresher function returns), `MakeItem` (its time stamp), `StoreItem` |
| `Get` (271-309) | `CallGet`, `Look`, then `Check`, `EndRefresh`, `StoreRefreshed`, or `Set`'s steps and `LookAgain` |
| `Delete` (165-167) | `CallDelete`, `Delete` |
| `refreshAll` (130-162) | `ref`: `SelectDone`, `SelectTick`, per key `ReadKey`, `CheckKey`, `RefreshKey`, `StoreKey`, then `EndRound`. The keys come in any order, as a Go map gives them |
| the ticker | `runs`, or stopped with or without a tick left in its channel (the module is built as Go 1.22, where `Stop` does not take the tick back) |
| `time.Now()` | `now`, which moves among `Times` |

Items are cloned before they are refreshed (146, 289): a stored item never changes, so
items are values. What an item's value is does not matter, but where it is from: `gen` is
the number of the call that made it, which a refresh keeps. `left` and `late` are history.
`expired()` is asked twice by `Get` (290, 74); an item that has expired stays so, and one
step does for both.

### `Resources`

The kinds of `k8s/def.go` with the ones that have no namespace, the address of an object,
what `List` selects (`Listed`) and which claims `getPvcs` takes for a StatefulSet's
(`ClaimsOf`, against `BelongsTo`, which is what Kubernetes means by it). A name is a
sequence of parts, the dashes among them, and a word may be of several parts:
`mydata-web-0` is `<<"my", "data", "-", "web", "-", "0">>`. A pattern is found anywhere in
it, inside a word too (`Mentions`).

### `K8sClient`

| Code | Model |
|---|---|
| `Init` under `sync.Once` (50-79) | `once`, set by the `RunInit` of one call, which may fail before the first client, or between the two (`partly`). Until then the other calls wait; the error is that call's own and is returned by it in a later step, `InitError` |
| `Remove`, `Rollout`, `Get` | `BeginCall` starts a call; `Dispatch` is the switch on the kind, past `Init`: a kind that is not known is refused, a manifest that does not fit is `ErrParse`, and a client that was not made panics. From then on a call's `pc` is the request it is about to make |
| `rollout` (426-447) | `Create`, and on "already exists" `Update`; `Written` returns or starts the wait |
| `remove`, and the case of a StatefulSet (512-524) | `GetSts`, `ListPvcs`, `Delete` of the object, then `NextClaim` one by one, whose errors are ignored (`RemoveFails`) |
| `waitForRemove`, `waitForRollout` (312-396) | the select is `AwaitDone`, `AwaitError`, `TimeOut` (time-out or cancellation); the goroutine is an element of `pollers` with `PollRemove`, `PollRollout`, which lives on when its call has timed out, or blocks for ever at its send |
| the API server | `obj`. Each request may be refused, or carried out with its answer lost (`ErrApi`). `ReportStatus` is a controller, `Finalize` the end of an object with finalizers. Other clients are the other calls |

Of an object's specification only the generation is kept, of its status the generation
that it is about and whether the three counts are as wanted: what `waitForRollout` compares.
`hit`, `wrote` and `seen` are history.

### `PodWatch`

| Code | Model |
|---|---|
| `Init` and `List` | `DoList`: what it returns is the state at that moment |
| `Watch` and the loop over the listed pods | `Start`: the stream begins with an `Added` for each pod, as the server sends it when no version is given |
| the select | `OnDone`, `OnClosed`, `OnEvent`; both callbacks are called by one goroutine, so an event and its callback are one step |
| `podReadyMap` | a total function: a name that is missing reads as false, as in Go |
| the pods | `cluster`, changed by `AddPod`, `ModifyPod`, `DeletePod`; `Bookmark` stands for any event that is not about a pod |

`told` is the history of the calls of both callbacks, `unseen` that of the pods whose last
change the function cannot have seen.

### `RawValues`, `RawMaps`, `Manifests`, `GeoSplit`, `FireStore`, `Data`

Algorithms without state of their own, as operators, each module with the reference
definition it is compared with:

- `RawValues`: values are trees of maps, slices, atoms and nil; an error and a panic are
  results. `ChainGet` runs along the keys with what it has reached so far. The reference
  is `Way`, which follows the keys as far as each of them leads somewhere. Nothing is
  claimed of no keys and of an index that a slice does not have (see below).
- `RawMaps`: `Merge` and `diff`, recursive as in the code, and the way through JSON that
  `Diff` takes with what is no `Map` (`throughJSON`): a struct becomes a map, its numbers
  become `float64`. The references are the places of a value (`Places`, `ValueAt`) and what a diff means (`Patch`).
- `Manifests`: a text is a sequence of tokens, so that the splitter's `---`, its trimming
  and its two expressions for comments and blank lines do to it what they do to a string.
- `GeoSplit`: a polygon is the set of the unit squares it covers; `Grain` units are the 1e-7
  that `round` keeps, so that edges of a polygon, and of a box, may lie between two of its
  multiples, and a slanted edge is a stair as fine as one likes. `Rects` has the grid with
  its rounded edges, those of the box included, and skipped spans, `lost` the
  rectangles whose intersection fails or is no polygon and is dropped without an error. `Sliver` is the reference for what rounding
  cuts off: a square between an edge of the polygon and the multiple of 1e-7 it rounds to.
- `FireStore`: paths are sequences of elements, of which one may be empty (`Empty`, behind
  the last slash: what a namespace makes of the empty path) and then is no path for the
  client; the database is a function from paths to counters, `Do` is an operation with its prefix, its check of the path and its errors.

`Data` takes any one of its `Inputs` in a step, and its invariants are the comparisons.
What an input may be is said by its assumptions: the values of a map are values again, the
lines of a resource are of `Tokens` other than a line end, polygons given together do not
overlap and are finite, a grid has at least one cell, paths and documents are of
`Elements`. `MCData` has small inputs, for which TLC evaluates these assumptions, and the
two comparisons of `RawMaps`. Loops of the code (the descent, the splitter, the skipping of
lines, the levels of `Split`) are recursive functions, about which the provers can reason;
only `RawMaps` declares RECURSIVE operators.

## What the runs check

Passing runs; all bounds are in the configurations.

| Run | Instance | Shows |
|---|---|---|
| `channel` | 3 items, 2 finalizers, `In()` may be closed, receivers keep coming | `NothingLostOrReordered`, `FinalizeReturnsTheRest`, `ImplementsMailbox`, `EverySendGetsThrough`, `EveryFinalizeReturns`, `EveryAcceptedItemSurfaces` |
| `balanced` | 3 workers, 2 tasks of which one panics and the other has a maximum delay, every client waits, cancellation | `EtaIsTheBacklog`, `EveryWorkerIsInOnePlace`, `TreeIsSortedUntilATaskEnds`, `AnswerTellsTheFate`, `MailboxesAreFifo`, `EverySubmitReturns`, `EveryQueuedTaskIsAnswered`, `WorkersExitAfterCancel` |
| `pool` | 3 callers, size 2, one nil task, cancellation | `NilMeansAllTasksEnded`, `EveryRunReturns`, `UntilFinishedReturns` |
| `fan` | `Out` up to three times with 2, 2 and 1 items, size 2, cancellation | `ResultsAreInPlace`, `CrashesOnlyIfOutShrinks`, `ResultsAreFinal`, `EveryCallReturns` |
| `cache` | 2 keys, 2 clients, 2 calls, a refresher that works and one that may fail, cancellation | `NilMeansFresh`, `LastCallWins`, `EveryDueItemIsRefreshed` |
| `k8s` | 2 concurrent calls out of 6: a StatefulSet with a claim removed (waiting or not) and rolled out, and the kinds that are treated differently | `RemovedMeansGone`, `RolloutSeesItsOwn`, `DataGoesLast`, `EveryCallReturns`, `GoneEndsPollers` |
| `podwatch` | 3 pods of which 2 are admitted, 3 statuses, 3 changes, 1 bookmark | `AnnouncementsAlternate`, `SaidLastIsTrue`, `WatchEnds` |
| `data` | some 167 000 inputs of the five modules above | `GetsWhatIsThere`, `MergesBoth`, `DiffIsExact`, `ManifestsComeBack`, `PiecesCoverTheArea`, `NamespacesAreApart`, `ListedPathsWork` |

Some properties are theorems without a run of their own: each module's type invariant,
`PanicsOnlyIfInWasClosed`, `AtMostOneLateStart`, `UnexpectedOnlyIfDeleted`, `AtMostOneLateRound`, and
`GoroutinesWithinLimit` for one caller.

Some of the properties of `data` are equivalences, since the code does less than one
would like: `ManifestsComeBack` says exactly which lists survive (not those with a blank
line, one that looks like a comment, a `---`, or a space at a resource's end, which
`TrimSpace` takes), `ListedPathsWork` for which collections the stripped path is right.
`PiecesCoverTheArea` says what is left out: squares in a dropped rectangle and slivers.
Others have a precondition that leaves out where the documentation promises something else
than the code does: `AnswerTellsTheFate` says nothing of nil for a task that panicked,
`Pool`'s `EveryRunReturns` of as many nil tasks as the size, `NilMeansFresh` of an item
that replaced the one `Get` set, `GetsWhatIsThere` of no keys and of an index that a slice
does not have. These are [divergences](#where-the-code-and-its-documentation-part).

Why the bounds are enough. The channel's manager looks at its storage only as empty or
not, and at its head: three items give an item at the head, one behind it and one still
outside; a second finalizer is the first that can find the work done. In the balanced
pool three workers are the least for which a descent through the tree makes two
comparisons whose keys can change in between, and two tasks have one in `Do()`, or panicking
in it, while the other is anywhere in `RunAsync`, or in the queue behind it when the
cancellation comes (the estimates are such that both can come to one worker). Longer
queues and reports of several tasks are the proofs' matter: the five safety properties of
this run hold for any number of tasks and workers. In `Pool` a size of two with three
callers and one nil task has a goroutine that a nil task took away, one that remains and a
caller that finds the limit reached, and the nil task can come at each place; a second nil
task would be as many as the size. In `Fan` the second `Out` may have its items mixed with the first one's, and the third can be
overtaken by tasks with an index it does not have. In `Cache` two calls and the refresher
make three writers of one key; the two keys are for the order of a round. `Times` has two
moments, 0 and 2, and items live for 1: time matters only as before or after the expiry.
In `K8sClient` two calls are the least that race for an object: one removes what the
other rolls out, the poller of one outlives it while the other creates the object again,
and one waits for the `Init` of the other and goes on when it has failed. In `PodWatch`
three changes are one in the gap, one seen and one after it; the pod that is not admitted comes and goes as well.
In `MCData` maps nest two deep with slices of maps inside, keys are one longer than that;
every shape made of blocks in 3 columns and 2 rows, whose edges are multiples of `Grain` (3)
or lie between two, is split to each depth up to 3 with each grid up to 3, and a
U of 7 by 5 is cut into pieces that do not hang together, with two rectangles that may be
lost; `Few` is 7 instead of 200, so that some of these are split and others not.
The moments and the numbers of calls, changes and bookmarks are bounds of the model and
not of the code.

## Fairness

A goroutine that can run is scheduled (weak fairness of its steps), and a select takes
each of its cases eventually while it stays ready, since Go picks uniformly among the
ready ones. `ServedSpec` of `UnlimitedChannel` also lets receivers keep coming. The
`FairSpec`s let a task's `Do()`, an item's function and a refresher function come to
an end, and the cache's ticker tick. Nothing is assumed about clients: no one need ever
submit, call, cancel, finalize, close, or receive from the channel `RunAsync` returned.
A client of `Run` does receive, because that is `Run`'s own next statement.

In `K8sClient` the server answers every request, if only with an error, time passes (so a
time-out comes when nothing else does) and the polling goroutines are scheduled; no object
need go away, no rollout need finish. In `PodWatch` only the goroutine that called
`WatchPods` is fair: `WatchEnds` says that a cancelled call returns however many events
there are, and it needs that events are not added for ever, which the bound on changes
gives the model and the random choice of Go's select gives the code.

The liveness properties name the ways out the code has: a panic of the channel's manager
ends the process, a cancellation may leave `Pool`'s `Run` blocked and with
it `Fan`'s `Out`, a cancelled cache refreshes no more.

## What is proved

For any items, finalizers, tasks, workers, estimates, callers, sizes, lengths, requests,
objects, templates, pods and statuses, and any value of the bounds; the only assumptions
are the types of the constants (`InMayCloseIsBoolean`, `PoolAssumption`, `CacheAssumption`,
`K8sAssumption`, `PodWatchAssumption`), that what stands for nothing is not something
(`NoItemAssumption`, `AbsentAssumption`), that a microsecond and the step of the rounding
are whole numbers of units (`PoolAssumption`, `GrainAssumption`), that the pods are
finitely many and, for the fan,
that its one caller makes all calls and no task is nil (`FanAssumption`). For `Data` they
say what an input is (`InputsAssumption`, `ValuesAssumption`, `ElementsAssumption`,
`TokensAssumption`); the run `data` evaluates them. Every safety property that a run checks
is a theorem, but for `MergesBoth` and `DiffIsExact`.

- **`UnlimitedChannel_proofs`**: `TypeCorrect`, `Fifo`, `FinalizeIsExact`, `NoPanic`, and
  `Refinement`: the channel implements `FifoMailbox`. The inductive invariant `IInv`
  adds to the four safety properties what each needs: that the manager is past its loop
  only after `c.out` is closed, that `c.out` is closed inside the loop only if `In()`
  was, and that a finalizer has returned only once the manager drains - from then on
  `storage` does not change, which is what makes the returned slice final. The
  refinement uses the same invariant: `HandOut` moves the head of `storage`, and
  `accepted = received \o storage` makes it the mailbox's oldest item.
- **`BalancedPool_proofs`**: `TypeCorrect` (including that the lock belongs to the one
  client inside `RunAsync`) and `OneLateStart`. `AtMostOneLateStart` is not inductive: a
  worker between the outer look at the context and `Start` still has its late start
  ahead of it. The strengthening says that a worker that has used it is in `handleTw`
  or has come back to the outer select of a cancelled pool, where it can only stop.

  `AnswersAreTrue` rests on `FateInv`, which follows a task through its worker's queue:
  what the channel took in was sent to that worker once (`InMail`), what it gave out is
  the beginning of that (`Delivery`), the worker handles the last of these (`InHand`) and
  has done the others once (`RunsOnce`), `Finalize`'s slice is the rest (`Leftover`), and
  a client was told of its task what the queue says of it (`Answers`). A task that is
  given back lies behind everything delivered by a channel that is closed, so it is never
  started later. `MailboxesImplementFifo` is a refinement that the same invariant
  carries: `Take` is `Deliver`, a `Send` to an open channel is `Accept`, `Finalize` is
  `Shut`, and every other step leaves the mailbox alone; the refinement of
  `UnlimitedChannel_proofs` is about the same abstract module.

  `WorkersKeepTheirPlace` counts by way of `OnePlace`: the tree has no worker twice and
  misses exactly the one whose client is inserting; `WithProperties` says what inserting
  an element into a sequence does. `TreeIsSorted` rests on `SortedInv`, in which the
  first worker may be out of order between `AddEta` and `DeleteMin`, and `gap` keeps room
  for the estimate of the one that is inserted, which a comparison that has read it still
  has right: so each comparison narrows the gap to places that are right.

  `EstimatesAreTheBacklog` is about a sum over a set, a recursive function. `AddsOnce`
  says that the recursion determines its value: of the sets on which two solutions differ
  one is minimal (`WFMin`, strict subsets of a finite set being well-founded), and it has
  no smaller one to blame. `BacklogIsUnits` gives a solution without recursion, the number
  of pairs of a task and one unit of its estimate, whose growth by one task is a fact about
  cardinalities. With that, `EtaInv` is preserved because a task enters the backlog in
  `AddEta` and leaves it in `Settle`, and by `FateInv` no task is settled twice.
- **`Fan_proofs`**, about `Pool`: `TypeCorrect`, `NilIsFinal` and `LimitForOneCaller`. The invariant for
  `NilIsFinal` follows a task from the hand-over to its end: a task whose `Run` returned
  is nil, executed, or the current task of a busy goroutine, which the wait group
  counts. That for the limit says that the count is at least the number of goroutines
  started, counts the one in progress, and is at most the size; it needs that the only
  caller is in one `Run` at a time. With two callers the theorem is false (`pool_race`).
- **`Fan_proofs`**, about `Fan`: `FanUsesPool`: every step of the fan is a step of `Pool` or leaves it
  alone, so that what is proved of the pool holds under the fan: `FanWithinLimit` is
  `LimitForOneCaller`, since `Out` calls `Run` from one goroutine. `FinalResults` says
  that what `In` returned with nil is not written again: nil means an empty wait group
  and thus no busy goroutine, and no `Out` is in progress that would replace a slice.
  `FanTypeCorrect`, `CrashNeedsShorterSlice` and `PlacesAreFilled` have one invariant,
  `SliceInv`. Calls of `Out` and `In` come one after another (`CallsReturned`), a task
  writes only after its `Run` has returned (`TasksBegun`), what stands in a slice stands
  at its index (`InPlace`), and no task of the call that made a slice has ended without
  filling its place (`Filled`). The last is what nil adds up to: all tasks of the last call
  have ended, by the pool's own invariant for `NilIsFinal`. A write out of range is one by a task
  of an earlier call with an index that the last call's length excludes.
- **`Cache_proofs`**: `TypeCorrect` (with it, that no nil refresher is called),
  `LastLeft`, `UnexpectedMeansDeleted` and `OneLateRound`. The invariant `LastInv` adds to
  `LastCallWins` that every clone in the hands of a `Get` or of the refresher is of the
  item the last `Set` left, unless it was overtaken, and that an item about to be stored
  for the first time is its own call's: storing either keeps what is known of the key.
  For `ErrUnexpected`: a `Get` that set the missing key finds it there, or it was deleted
  since (`StillThere`), because `KeysStay`: nothing but `Delete` shrinks the map. For the
  late rounds the ticker's last tick is counted against the rounds begun (`LateInv`).
  `NilIsFresh` needs to know of every item where it came from: `FreshInv` says that items
  in the map, in the hands of a client and in those of the refresher are of a call so far,
  and that none is older than the beginning of the call that made it, if that call is
  still in progress; calls in progress have different numbers. So an item that a `Get`
  stored itself, or refreshed, is no older than that `Get`, whoever refreshed it since.

- **`K8sClient_proofs`**: `TypeCorrect`, `RemovedMeansGoneHolds`, `DataGoesLastHolds` and
  `RolloutSeesItsOwnHolds`. None of the three is inductive. `Shape` says which calls and pollers go together: a poller is of a
  call that got as far as waiting, at most one of each call and place, and it has closed
  its channel only while the call awaits it. `UidInv` says that incarnations are numbered
  by the call that created them, so that an object created later is never one that was
  hit before. With these, `RemoveInv` follows a removal from the deletion (the hit object
  is going or gone) over the poller that saw it gone to the claims and the answer, and
  `RolloutInv` follows a rollout: what is there, if it is the incarnation written, has at
  least its generation, and so has the status that a poller keeps when it closes.
- **`PodWatch_proofs`**: `TypeCorrect`, `Alternate` and `SaidLast`. `MapInv` says that
  `podReadyMap` is what was said last of each pod, which makes the next announcement the
  other one. `TruthInv` adds the events under way: the last undelivered event about a
  pod - or the map, if there is none - says what the pod is now (`Settled`), unless its
  last change was in the gap or an addition. Delivering the head of the queue
  (`SettledTail`) and sending an event (`SettledAppend`) keep that.

- **`FireStore_proofs`**: `NamespacesStayApart` and `ListedPathsAreFound`, for paths over
  any set of elements that has the package's own words, any namespace in it, any path and
  any database; `Data_proofs` draws the invariants of `Data` from them. The first goes
  operation by operation (`Apart`): a path with its prefix is within the namespace, and so
  is a document of a collection that is (`DocumentIsWithin`). For the second, markers stand
  in the name of a document where they stand in that of any document of the collection
  (`AnyDocument`), one of them right before the caller's path (`OwnMarker`); stripping ends
  at the last one, which exists because a finite set of integers has a greatest element
  (`MaxOfSome`, by a minimal counterexample again). If there is none behind the caller's
  path, what is left is the path of the document, else something shorter (`StripShape`).
- **`Data_proofs`**: `ChainGetAlwaysExact`, `ManifestsAlwaysComeBack`, `PiecesAlwaysCover`,
  `NamespacesAlwaysApart` and `ListedPathsAlwaysWork`, each an invariant of `Data`. As a
  state, `Data` has little to it: `Known` says that the input is one of `Inputs`. What is
  proved is about the operators, for all of their arguments.

  Their loops are recursive functions, of which it must first be shown that they exist and
  are what their recursion says. The lemmas `...Exists` do that without an induction over
  an operator. `StepByStep` stands in for it: a set that has 0 and, with each number below
  a bound, the next one has all up to the bound, or there would be a least one missing
  (`LeastNatural`). Here it is the set of the lengths for which the recursion has a
  solution: one for *n* is continued to *n* + 1. For `Split`, whose recursion ends at the
  greatest depth, solutions are continued from there up (`SplitsExists`). Then the same
  lemma, with the set of the numbers for which a claim holds, proves claims about them.

  *ChainGet.* As long as the keys lead on, `ChainGet` stands where `Way` does
  (`ChainGetAlong`); where they stop leading, one step gives the reason (`StepStops`), and
  a result that is no value never becomes one again (`StopIsFinal`).

  *Split.* `round` keeps the order of its arguments and multiples of `Grain` (`RoundOrder`,
  `RoundOfMultiple`), so spans that follow each other share their rounded edge: they are
  apart (`SpansApart`) and leave no gap between the rounded edges of the box (`SpanCovers`),
  skipped ones included. Thus each square of a polygon is in exactly one rectangle of its
  box or outside the box's rounded edges (`RectsTile`), and then it is a sliver, because its
  row or column has an edge of the polygon there (`OutsideIsSliver`). The intersection with one
  falls into components, which are disjoint because hanging together is symmetric
  (`SidesAreMutual`, `SameComponent`). Cutting is then a partition of what is not in a
  dropped rectangle and no sliver (`CutTiles`). What is a sliver of a piece is one of the
  polygon it was cut from: an edge of the piece is one of the polygon, or of a rectangle,
  which is a multiple of `Grain` and rounds to itself (`PieceInherits`).
  A partition of each piece is one of the whole (`TilesOfTiles`), and that carries
  over the levels from the deepest up (`SplitPolygonTiles`).

  *Manifests.* With plain lines the text is `---`, a resource, `---`, a resource...; the
  splitter, which only ever appends to its last part (`CuttingShape`), cuts it there and
  nowhere else, and the same for the lines of a part once it is trimmed (`DocumentIs`).
  Documents are taken off one at a time (`DecodeFrom`), which gives what
  is read from any list of plain resources: the same, but for spaces at the end of the last line
  (`PlainListRead`). For the converse, whatever is read consists of plain lines
  (`ReadLinesArePlain`), so a list with another line cannot come back (`ManifestIsRead`).

Only model-checked:

- the liveness properties (`EverySendGetsThrough`, `EveryFinalizeReturns`,
  `EveryAcceptedItemSurfaces`, `EverySubmitReturns`, `EveryQueuedTaskIsAnswered`,
  `WorkersExitAfterCancel`, `EveryRunReturns`, `UntilFinishedReturns`, both
  `EveryCallReturns`, `EveryDueItemIsRefreshed`, `GoneEndsPollers`, `WatchEnds`): the
  provers reach neither fairness nor ENABLED;
- `MergesBoth` and `DiffIsExact`: `Merge`, `diff`, `Places` and `Patch` are RECURSIVE
  operators that descend into a value, as in the code, and the provers do not read those. As
  recursive functions they would need a domain, the set of all values, which no definition
  here can name; and the indices of a diff are written as strings, about which the
  provers know nothing.

## Where the code and its documentation part

Each is a run that TLC must find violated, quoted with its lines in `PROJECT.json`.

| Run | What happens |
|---|---|
| `balanced_swallowed` | `RunAsync` gives a task to a worker whose channel is finalized; nobody answers, `Run` waits for ever |
| `cache_stale` | a `Get` sets a missing key, another call replaces the item by one that expires, and the `Get` answers with that and without `ErrStale` or any other error: it looks again, but not at the time (`cache.go:284-287`) |
| `pool_race` | concurrent callers start more goroutines than the size |
| `k8s_pvcs` | `Remove` of the StatefulSet `web` takes the claims of the StatefulSet `web-db` with it: a claim is found by a substring of its name |

Seen in the models as well, without a run of their own:

- `ErrWillTakeLonger` although another worker is idle: the tree's order is stale once a
  task has ended (`balanced/pool.go:281`; `TreeIsSortedUntilATaskEnds` says until when it
  is not).
- The refresher, or a `Get`, stores the clone it refreshed after `Delete` removed the key:
  the key is there again (`cache.go:155, 307`; the exception in `LastCallWins`).
- `balanced.Run` returns nil for a task whose `Do()` panicked (`balanced/pool.go:163-167,
  180-181`), although "It returns an error if the task execution fails" (line 292): the
  case that `AnswerTellsTheFate` leaves out.
- A caller of `RunAsync` that does not receive blocks the report of unprocessed tasks, and
  with it those behind it (`balanced/pool.go:199`). `EveryQueuedTaskIsAnswered` is checked
  where all clients wait.
- "If the task is nil, it will be ignored" (`pool.go:69`): it ends the goroutine that takes
  it, which the count still includes (`pool.go:72, 80-81`), and after as many nil tasks as
  the size a `Run` blocks for ever (`pool.go:90`). `Pool`'s `EveryRunReturns` supposes fewer.
- A `Run` blocks for ever once the cancellation has ended the goroutines (`pool.go:84-90`):
  the exception in `EveryRunReturns`.
- The case of `refreshAll` for a cancelled context leaves the `select` and not the loop:
  the goroutine spins for the life of the process (`cache.go:137-138`, `SelectDone`).
- An expired item without a refresher of its own is answered with `ErrNoRefresher` even
  when `Get` is given one: the options of `Get` count when the key is missing
  (`cache.go:280-288, 305`).
- A goroutine of `waitForRollout` that sends an error after its call has timed out blocks
  for ever, and one whose object never becomes ready polls for ever (`k8s.go:353`).
- After an `Init` that failed every later call, and one that waited for it, gets nil from
  `Init` and panics with a client that is nil, maybe before the call that ran `Init` has
  returned its error (`k8s.go:52-79`). The doc of `Init` says that it "throws error if failed
  to get envrioment variables" (`k8s.go:49`), that of `Rollout` that "The function returns an
  error if the rollout operation fails" (`k8s.go:570`). `K8sClient` has these calls; no
  property of it speaks of them.
- A `Remove` of a StatefulSet that fails after the StatefulSet went leaves its claims, and
  a second `Remove` fails with "not found" before it comes to them (`k8s.go:513-518`).
- `WatchPods` says nothing of a change between its list and its watch, and nothing of a pod
  that is added ready, until the pod's next event (`k8s.go:930-965`): the exception `unseen`
  in `SaidLastIsTrue`.
- A manifest is split at a `---` inside a block of text, and loses lines of such a block
  that are blank or look like comments, and spaces at a resource's end (`k8s.go:191, 195`).
- `ChainGet` panics without keys, at an index equal to the length and at a negative one, and
  says `NotFound` of a greater one (`raw.go:53, 75`), although there are "error variables for
  common error conditions, such as keys being empty or invalid, accessing an array with an
  out-of-bounds index" (`raw.go:10-11`): `EmptyKeys` and `ArrayIndexOutOfBounds` (20, 25) are
  never returned. `GetsWhatIsThere` claims nothing of these cases.
- `Merge` panics where both maps have a nil (`raw.go:132`); a diff does not see a nil at the
  end of a slice.
- `Split` cuts a polygon along its box with the edges rounded, which loses what is beyond
  them, up to half of 1e-7 wide (`split.go:133-136`): the slivers in `PiecesCoverTheArea`.
- `Split` cuts the parts of a MultiPolygon with depth 3 and grid 3, whatever was asked for
  (`split.go:41`), and drops intersections that fail.
- `List` of `firestore` strips too much from a collection whose path repeats the end of
  what is stripped, such as one named `documents` when there is no namespace
  (`firestore.go:56`); `AtomicAdd` of a missing document returns the service's error and
  not `ErrNotFound`.

## What is not modelled

- Time: estimates are numbers, and how much of one has elapsed is left open.
- The shape of the red-black tree and its rebalancing: library code; only the order
  that results and the comparisons it makes matter to the pool.
- A panic in a task's `ETA()`, a task that calls its own pool, a negative pool size,
  `Run` after `UntilFinished`, a refresher function that panics.
- `SetIfNotExists` and `Has` of `safe.Map`, which nothing in the repository calls.
- Memory safety of the unguarded `p.count` beyond its values: the accesses are words.
- `serde`, which only calls encoders.
- Of `k8s`: `GenManifest` (Helm renders the chart), the policy for the children of a removed
  object, what the Kubernetes library reads and writes for one object, the Go type
  parameters and casts, a claim that two patterns find (the second removal of it is
  another request whose error is ignored), more than one call of `WatchPods` at a time
  (they share nothing).
- Of `geo`: the geometry library, what a square of the finest resolution cannot show of a
  polygon, floating-point errors, negative coordinates, a negative grid, for which the loops of `split.go:131` do not end.
- Of `firestore`: the condition of `List`, which selects documents; a namespace with
  characters that mean something in a regular expression; other clients between the
  steps of one operation (each is one request).

## Plan

Done, in this order:

1. `UnlimitedChannel` with `FifoMailbox`, refinement, proofs.
2. `BalancedPool` over the mailbox; proofs of its types and of the late start.
3. `Pool`; proofs of its types, of the limit and of `UntilFinished`.
4. `Fan` over `Pool`; proofs that it uses the pool as its theorems suppose and that what
   `In` returned is final.
5. `Cache` over the operations of `safe.Map`; proofs of its races.
6. `Resources`, `K8sClient` and `PodWatch`; proofs of their safety properties.
7. `RawValues`, `Manifests`, `GeoSplit`, `FireStore` and `MCData`.
8. The proofs of the remaining safety properties: of the tree, the estimates, the answers
   and the mailboxes of `BalancedPool`, of the slices of `Fan`, of `NilMeansFresh`, and of
   `FireStore` for any paths.
9. `Data`, with the loops of the algorithms as recursive functions, and the proofs about
   `ChainGet`, the manifests, `Split` and `FireStore` for any input.

Open: `Merge` and `Diff`, and liveness, in the provers' terms.
