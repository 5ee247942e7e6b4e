# A TLA+ verification of Scrob

Scrob is a self-hosted tracker of movies and shows: a FastAPI backend
(`src/backend`) over PostgreSQL and an Astro frontend (`src/frontend`). It pulls
libraries, plays and ratings from media servers (Plex, Jellyfin, Emby, Nuvio,
Stremio, ARVIO) and cloud services (Trakt, Simkl, MDBList, WeTrakr), receives
webhooks while something plays, and pushes watched flags, ratings, lists and
collections back. The hard part is not any one request but that all of this goes
on at once, in one asyncio process, over transactions that are read-committed,
against services that fail, and across restarts.

This directory holds TLA+ models of the parts where that matters, TLC runs that
check them, and TLAPS proofs. Every definition of a model names the lines it
stands for in `PROJECT.json` ("map"); the hazards the properties are for are listed
there too, each at its line.

## 1. The system and its parts

| component | state | operations | hard behaviour | modules |
|---|---|---|---|---|
| Sync jobs (`routers/sync.py`, `main.py`, `core/job_retention.py`, the cloud routers) | `sync_jobs` rows, the asyncio task of each, `_sync_semaphore`, the scheduler's loop | request, scheduled start, first write, checkpoints, complete, fail, cancel, abort, prune, start-up | cancel against start, one pull at a time, restarts with jobs at work, schedules that depend on pruned rows | `SyncJobs`, `JobLife` |
| Incremental push (`core/push_state.py`, `_run_full_push`, the fan-out of ratings) | `connection_push_state` rows and misses, the push jobs' modes, the server's items | plan, load, lookup, send, save, interrupt; real-time push of a change | what may be remembered after failures, siblings and cancels; two pushes at once; a live push lost or late | `PushState` |
| Watch history (`core/watch_dedup.py`, `core/rewatch.py`, `routers/history.py`, `routers/webhooks.py`) | `watch_events`, manual sessions, rewatch cycles, advisory locks | play, complete, poll, dismiss, unwatch, heal, start and cancel a rewatch | check-then-insert, two ways to end a session, a cycle that changes under a handler | `WatchLog` |
| Next Up (`routers/history.py`, `core/enrichment.py`) | episode rows and their dates, the snapshot of the show, the sweep's dates | load, recheck, sweep, watch, bulk mark, rewatch | a stale snapshot decides whether to ask again; dates rewritten by three parties | `NextUp` |
| Plex watchlist (`core/watchlist_reconcile.py`, `_reconcile_plex_watchlist`, `routers/lists.py`) | the managed list, a baseline per connection, the remote lists | three-way reconcile from two jobs, immediate pushes, deletion of the list, change of directions | edits during a reconcile, partial failure, truncated fetch, several connections over one list | `WatchlistReconcile` |
| Playback and echoes (`routers/webhooks.py`, `core/scrobble` callers, the Emby poller) | sessions, tokens of pushed plays in memory, reports on their way | open, progress, stop, scrobble, push, unwatch guard | a token outlived or eaten by another play, reports twice, restarts, ping-pong of unwatches | `Playback` |
| Library pull (`sync_items`, `_remove_stale_collection_files`, library webhooks) | collections and files, each server's items | per-item savepoints, removal of stale files, the breaker, item webhooks, deletion of a connection | maps loaded before the first item, short scans, late webhooks | `Library` |
| Plays at cloud services (`routers/trakt.py`, `simkl.py`, `mdblist.py`, Nuvio, Stremio, ARVIO, Plex's history) | events here and there, cursors, pending-push markers | pull, full push, one-shot push, unwatch | echoes under another date, cursors that pass a late play, a marker used up | `CloudPlays`, `PlexHistory` |
| Marks at cloud services (the same routers, `ratings.py`, `lists.py`, `media.py`) | ratings, watchlists, dropped shows, the collection, here and at each service | say, pull, push, fan out, lookup | a job that writes what it read before the user said otherwise; failed lookups; replaced libraries | `CloudMarks`, `CloudShelves` |
| WeTrakr (`routers/wetrakr.py`) | two bookmarks, ids of remote lists and comments | incremental pull and push of four sections | a journal that lags its feeds, rows that commit late, answers that are lost | `WeTrakr` |
| Identity (`core/enrichment.py`, `core/episode_order.py`, match and refresh in `shows.py`, `sync.py`) | media and show rows, provider ids, mappings, files, plays | create, map, merge, fold, refresh, match, unmatch, override | races on creation, a merge under a writer, one provider's numbers taken for the other's | `Catalog`, `Stubs` |
| Accounts, tokens, device grants; image cache; calendar; Radarr and Sonarr; export, import, backup; profiles and statistics; schema; frontend | | | see section 7 | none |

How they meet. Requests and the scheduler start jobs (`SyncJobs`). A push job is an
instance of `PushState`'s push; a Plex pull or push job runs `WatchlistReconcile`'s
reconcile; a library pull is `Library`'s, and which row each of its items becomes is
`Catalog`'s. A pull, a webhook, a manual session and the poller all end in the same
duplicate check (`WatchLog`). A play or an unwatch is pushed to the other connections,
and what that causes there comes back as a webhook (`Playback`), in Plex's history
(`PlexHistory`) or in a cloud service's (`CloudPlays`). All share one PostgreSQL
database through `AsyncSession`s: a handler sees what others have committed and
nothing of what they have not.

What makes each correct: a job ends, is never revived and is never lost; a push
memory claims no more than was sent, and servers converge; one viewing is one
event, and none is dropped; nothing a user removed comes back and nothing else goes;
an echo makes no play and no scrobble, and a genuine play is not hidden; a bookmark
passes nothing that was not handled; a play stays on a row of the episode that
was played; both sides settle in the end.

## 2. Modules

**`JobLife`** is what a user may rely on of one row: pending, running, an end;
cancelled rows of guarded jobs do not start; what is finished stays. **`SyncJobs`** is
the system: rows, tasks with a stage, the FIFO of the semaphore, the scheduler
between its reads and its insert, a clock in hours, `Crash` and `Startup`. It
implements `JobLife` under the mapping status ↦ status, guarded ↦ "its connection
is a media server" (`LifeSpec`). The body of a sync is one stage; its checkpoints are
the action `Checkpoint`. `RollsBack` says which runners roll their session back before they
write the final status: the pulls from media servers and the jobs of MDBList, WeTrakr
and Bingebase. After a failed statement or flush the handlers of the others (Trakt,
Simkl, ARVIO, the push to a media server, the heal) raise on that write and leave the
row as it is (`Strand`).

**`PushState`** has, per item, the user's rating, the server's copies of it and
whether Scrob knows them; the remembered row with its age, mode and whether the push
that wrote it completed; the pushes at work; the live pushes on their way. Ages are
counted up to the reconcile interval (`Week`) and the lifetime of a miss, because
only "older or not" matters. One kind of value stands for watched flags, ratings
and season ratings, which take the same path.

**`WatchLog`** has handlers that are transactions (`check`, `record`, `after`),
events with the viewing they come from (history), sessions, one rewatch cycle,
advisory locks per media row, the heals of stuck cycles and of duplicates, and a clock.
Two media rows may be the same episode (`Ep`).

**`NextUp`** is one show of one user: the providers' schedule, the snapshot, the rows
with their dates, the sweep, and a load that reads, perhaps asks, and answers. The load
keeps what its session read first: the rewatch by its id, the settings, the row it chose
with its date and its show (`db.py:29`, no expiry on commit), so the rest of the answer
may be older than the database. Dates are days from today and saturate at `Long`, beyond
which no rule distinguishes them.

**`WatchlistReconcile`** has per connection the remote list, the baseline and the
directions, per job a record with its plan and what is left of it, the managed list
with the id of its row, and the immediate pushes on their way. What a reconcile does
to the database shows at `Commit`; what it does to Plex at once.

**`Playback`** has servers of four kinds with full and scrobble-only connections, the
reports on their way, handlers that work through one report in the order of
`webhooks.py`, tokens, plays, sessions, scrobbles sent out, and the pushes of plays and
unwatches to the other servers.

**`Library`** has the items of each server with ids, the rows and files here, a pull
that goes item by item over maps it loaded first, webhooks, and the user's changes.

**`CloudPlays`** has events with a date here and at two services, with the pulls,
pushes and cursors of each; **`PlexHistory`** composes it with a Plex server
whose history is read by every full pull, and with the markers of pending pushes.

**`CloudMarks`** has one kind of mark at a time (ratings, lists, dropped shows), each
with what the service makes of it; **`CloudShelves`** extends it with the fourth, the
collection: calls on their way, what Stremio was told, what is read incrementally.

**`WeTrakr`** has two sections at a time, with what each side holds, when it was dated
and committed, both bookmarks, and the jobs between their steps.

**`Catalog`** has provider numberings (a `World`), show and episode rows, files and
plays, mappings, handlers that look up, create and record, pulls, merges and refreshes;
**`Stubs`** adds the user's match, re-match and unmatch of a show.

Each `MC` module extends its module and names the model values; the `.cfg` files assign
them. `SyncJobsProofs`, `PushStateProofs`, `WatchLogProofs`, `WatchlistReconcileProofs`,
`PlaybackProofs`, `LibraryProofs`, `WeTrakrProofs` and `CloudShelvesProofs` hold the proofs.

In every module an action is a whole handler or the part of one between two points
at which others can run: an `await` that leaves the transaction, a commit, a call to
a service. Its guard is the code's condition and early returns. History variables
(named as such where they are declared) only record what happened; no guard of a
code action reads them.


## 3. Runs

| run | configuration | distinct states | what it shows |
|---|---|---|---|
| `jobs` | a scheduled media server, a scheduled cloud service and the heals, each with runners that roll back or do not; 2 jobs, 2 hours | 415 thousand | serial pulls, one scheduled job per connection, a schedule that survives pruning, refinement of `JobLife`, every task ends; no row of a runner that rolls back is orphaned or left unsettled |
| `push` | an item of two copies and one that must be looked up; 1 push at a time, 2 values, 2 edits, 1 fault | 426 thousand | what the memory claims; a full push re-asserts everything; the servers converge |
| `watch` | 2 episodes, 2 viewings, 2 handlers and the poller, a rewatch, 2 minutes, window 1 | 1.8 million | one event per viewing, none within the window, none dropped |
| `wl_settle` | 1 connection, 2 items, 3 edits, 1 fault | 919 thousand | no resurrection, only what was removed goes, both sides settle |
| `playback` | 6 servers of 4 kinds (2 scrobble-only), 1 item, 2 acts, 1 tick, 1 fault | 2.6 million | echoes leave no play and no scrobble, and hide a play only in place of an echo that is missing; unwatch rounds end; now playing is true |
| `library` | a Plex and a Jellyfin server, 2 rows, 2 ids, 2 changes there, 1 here, 1 trouble | 507 thousand | a clean pull mirrors its server: every media under an id it has there, every file of what its id is of there; a collection loses its last file only when two removals cross; pulls repair the rest |
| `cloud_plays` | 4 pairs of services, 1 item, 2 dates, 1 failure; two jobs at once for Trakt and Simkl | 372 thousand | plays are not echoed, no cursor passes one, all agree in the end |
| `cloud_marks` | 8 pairs of services over the 4 kinds of mark; 1 to 3 changes, 1 failure | 146 thousand | what the user said stands; the collection is in step; all agree in the end |
| `wetrakr` | 2 items, 2 pairs of sections switched on and off, 2 changes, 1 failure | 986 thousand | neither bookmark passes what was not handled; a comment is written once; both sides agree |
| `nextup` | 3 shows of 3 episodes in 2 seasons, 2 events | 324 thousand | nothing is offered before it airs, the count is right unless the rewatch changed under the load, what is due is offered without a sweep |
| `catalog` | 4 worlds of differing numberings, 2 users, 3 requests or lost calls | 220 thousand | a play stays on a row of its episode; merges lose none; twins and versions fold |
| `catalog_fallback` | as `catalog` | (violated) | the finding of section 5 |

The number of states is there to show that the configurations are not empty; every
action fires in some passing run.

### Bounds, and why they are enough for what they ask

The races are between two tasks over one row, item, episode or key, or between one
task and the poller, the scheduler or a service, so two of each give every pair.
Two values are needed for a stale one to differ; two edits for a value that changes
and changes back; one fault for a lost call, a crash or an expiry at every point.
Bounds stand in the guards of the actions they limit: `MaxJobs`, `MaxTime`,
`MaxEdits`, `MaxFaults`, `MaxFails`, `MaxPlays`, `MaxRewatch`, `MaxOther`, `MaxActs`,
`MaxFlight`, `MaxChanges`, `MaxFixes`, `MaxTroubles`, `MaxEvents`. Some deserve a word:

* `push` has one slot for pushes, so that the second item and the liveness fit.
  Pushes that overlap are checked with one item in `PushState_overlap.cfg` (1.0 million
  states, kept beside because of its length) and, for the two safety properties, proved
  for any number of slots.
* `watch` has one minute for the window and a latency of 0: a transaction begins and
  ends within a minute, the window is longer. The proofs need only `2 * Latency <= Window`.
* `playback`: the reports of a server come in order unless one is sent again
  (`Ordered`), and a server has one connection. With two connections to one server,
  or reports out of order, `NothingLeavesForEcho` and `NowPlayingTrue` do not hold.
* `cloud_marks`: the shelf has one change and one job at work, ratings have 2 changes,
  the rest 3; a pull and a push of the shelf that overlap again and again can undo each
  other for ever, so that `AllSettle` is checked without overlap. `ShelfInStep` was also
  checked with two overlapping jobs.
* `cloud_plays`: two overlapping jobs only for Trakt with Simkl; with two for Trakt
  with Plex the safety properties were checked once (6.2 million states). A marker of a
  pending push lives 3 units, of which a pull takes at most one.
* `catalog`: `MaxActs` counts the requests of users (order, refresh, match, unmatch,
  override) and unanswered calls. The four worlds are a shift of seasons, a special
  that only one provider has, two versions of one episode, and a season that is another
  show at the other provider.
* `nextup`: `Recheck` and `Ahead` are one day; older dates saturate.

Where a bounded system may stop (no edit left, nothing to do), the `.cfg` says
`CHECK_DEADLOCK FALSE`. Symmetry is used only in runs without liveness.

### What the history variables excuse

Several properties hold but for cases the code accepts or a later section lists as an
observation; each is named by a history variable, so that the property speaks of
everything else.

* `WatchlistReconcile`: `raced`, a direction switched on while a reconcile with
  the old directions is at work; `lost`, what a truncated fetch left out. `NoResurrection`
  speaks of an item both sides, the baseline and any reconcile at work agreed on.
* `Library`: `mirrored`, the connections whose last undisturbed pull (nothing else touched
  the server's items, and no item failed: a failing item is rolled back and skipped)
  left the collection as the server is; a pull ends it when it is about to remove files
  after a short scan that the circuit breaker lets pass. `slipped`, the connections of
  which a pull evicted a file it had moved itself (`RematchMirrors`), until an undisturbed
  pull without that. `crossed`, media of which two removals overlapped. `doubled`, ids
  under which a webhook, or a pull that something crossed, left files of two media:
  there a file of the other media may stay beside the right one (`ExactMirrors`). Where
  no webhook did that, a re-matched item leaves nothing of its old media behind.
* `CloudPlays`: `raced`, a play recorded while a pull that read the history before it is
  at work; `undated`, a play without a date; `late`, a play dated before Trakt's
  cursor (seen by the next full pull); `unwatched`, an unwatch that failed at the service.
  `PlexHistory`: `spent`, an item whose marker was consumed, expired or overwritten.
* `CloudMarks`: `word` is what the user said while no job was at work and every
  service heard. `CloudShelves`: `heard`, the same for the collection; titles
  Stremio has and was never told of are exempt, since it keeps them by design.
* `WeTrakr`: rows older than their bookmark on purpose, what the user took back, lists
  that could not be read.
* `NextUp`: an unanswered call, dates older than `Recheck`; `LeftTrue` asks for a
  snapshot that is what TMDB says, and for the rewatch the load found.
* `Catalog`: `guessed`, a report whose numbers are read as the other provider's;
  a row moved by a refresh (`Rehomed`); a crowd of rows for one episode.

### Fairness

* `SyncJobs`: every task that can take a step takes one (the event loop is fair, every
  network call has a timeout), and the server is started again. Neither requests nor the
  scheduler need do anything.
* `PushState`: time passes, the scheduler starts a push when it may (it asks every
  minute), a push at work goes on, requests on their way arrive or fail. Manual
  pushes need not happen.
* `WatchlistReconcile`, `Library`, `CloudPlays`, `CloudMarks`, `CloudShelves`,
  `WeTrakr`: the scheduler starts the jobs of every enabled direction again and again;
  a job that is at work ends, a call on its way arrives. The fairness is strong where the
  bound on jobs at work makes one wait for another (the semaphore is first come, first served).
* `NextUp`: days pass and the user looks; the sweep need never run.
* Faults, failing calls and edits are bounded in every module, so they stop; nothing
  is claimed of a service that fails for ever.


## 4. Proofs

The theorems hold for every value of the constants that satisfies the assumptions
named in the module. The way is the same everywhere: an inductive invariant, checked by
TLC first, a lemma per action, and one temporal step at the end.

**`SyncJobsProofs`**, from `ConstantsAssumption` (disjoint kinds of channels, natural
bounds): `TypeOK`, the inductive `IInv`, `MutualExclusion`, `NoOrphanRow` (of
the runners in `RollsBack`, whichever they are), `OneScheduled`, `ScheduleKept`, and that `SyncJobs` implements `JobLife`. `MutualExclusion` is not
inductive: that two tasks are not inside says nothing of who may enter next. `IInv` adds
that whoever is inside is `holder`, that the queue names every waiting task
exactly once (so that `Acquire` admits a task that is not inside), that the stage of a
task bounds the status of its row (which makes a row's end final, and gives the
refinement), and that nothing is left in memory while the server is down. `ScheduleKept`
needs no more: a row that ended is not written again, since no task is left whose stage
could, and a prune keeps, of each connection and kind, the newest row by update and id,
so the time the scheduler counts from only grows.

**`PushStateProofs`**: types, `RecordedWasSent` and `FullReconciles` for every library,
number of copies, concurrent pushes and values. `PInv` says of every push at work what
it still owes: a known copy of an item it wants to send is either still to do, or
failed, or was sent the value (`Owes`), and, for a full push that resumed nothing and
a copy nobody touched since, the copy shows the user's value (`Reasserts`).

**`WatchLogProofs`**: types; `ReportsKept` for any number of handlers, rows and reports;
`WindowHolds` where no episode has two rows (`OneRow`: with two the advisory locks
differ, and `WatchLog_siblings.cfg` shows the race); `OnePlayOneEvent` where, in
addition, no media server reports the viewing of a manual session (`SharedPlays =
FALSE`: a server's report may come later than the window after the session's event).
`ConstantsAssumption` asks that a transaction takes at most half the window
(`2 * Latency <= Window`). The invariant ties each handler that has found no duplicate to
what the history can hold by the time it commits: whoever is past the check holds the
lock, what it read within the window is what is there, and a report is either at work,
recorded, or within the window of an event.

**`WatchlistReconcileProofs`**, for any number of keys, edits and faults: types, with
any number of connections; that a two-way reconcile which nothing disturbs makes the
sides equal and leaves the next one nothing to do (`UndisturbedRunSettles`); and, for a
user with one Plex connection (`OneConn`), `OnlyRemovedGoes` and `NoResurrection`. Without
`OneConn` the first is false (`WatchlistReconcile_pair.cfg`). It says nothing of the baseline; `RInv`
adds that the baseline holds only keys of the list and, if both directions are on, of
Plex, that what a reconcile has read before its network calls is still so although
users edit meanwhile, and that its plan removes only what is gone and ends in a sound
baseline, whatever subset of its calls succeeds. For `NoResurrection`, `DInv` adds that a
key which was dropped is on one side at most and in the baseline while it is there, that
a plan adds only what its baseline did not hold (`PlanNew`), and that a reconcile at work
has read enough of this to add no such key (`JobDrop`).

**`PlaybackProofs`**, for any servers (finitely many), connections, items and reports:
types; `HiddenForEcho`, `RoundsEnd`, and `NowPlayingTrue` where the reports of a server
arrive one at a time (the set `Ordered` the property itself speaks of). The invariant
`BInv` has two parts beside the types. `PlaysOwed`: unwatch rounds done, under way and on
their way are at most the plays recorded. `SessionsEnd`: one handler at work per ordered
server, on its oldest report and the row that is there, and behind every report that
opens a session a stop. For `HiddenForEcho` (`PushHidesOne`), `TInv` adds `TokensOwed`: the
tokens left and the user's reports hidden so far are at most the echoes that went astray
and those still to come (reports, handlers and calls on their way); what moves an echo
from a call to a report, to a handler and to its token keeps the sum. That a handler is a
new one when its report is taken up needs `CopiesApart`. The sums are over finite sets of
records, so finiteness of what is on its way is part of the types.

One more theorem speaks of the scrobbles themselves, under hypotheses that the run's
instance satisfies. `NoScrobbleOfEcho` proves `NothingLeavesForEcho` where every server
but Plex waits for an answer before it reports again (`InTurn`), no server has both
kinds of connection (`OneConnection`), an Emby that is pushed to has `sync_watched` on
(`EchoesKept`), and reports are taken up before Plex would send them again for good
(`AnsweredInTime`, `Latency < Retry`). `EInv` adds `WInv` to `BInv`: nothing on its way is
older than `Latency`; a connection has one stop under way at most, and a stop says that
the playback ended only if it did. `Fair` then balances the books of an item, twice: what
was sent on, with the playbacks over 90% and the reports that may still be sent on
(`Owed`), never exceeds the plays and the losses (`Due`); and with the echoes still to
come it never exceeds these and the live tokens. The second line is what makes the first
inductive: a mark that finds no token is not an echo of a live push.

`NoPhantomPlay` stays with TLC. It needs more of the delivery of reports than the code
may count on, and TLC shows what happens without: with reports out of order from Jellyfin
and Emby it fails, and so does `NothingLeavesForEcho`; with `Latency` 1 against a window
of 0 (Plex alone) it fails, since the report comes too late for the dedup check, and with
`Latency = Retry` so does `NothingLeavesForEcho`. A server that is pushed to with two
connections reports one echo twice, for one token. With long credits the token expires
(`Playback_credits.cfg`); with `sync_watched` off nobody asks for it
(`Playback_unsynced.cfg`, section 5). On instances of two servers TLC finds no violation
with Plex's reports out of order, or with a latency of 1, a window of 1 and a retry window
of 2; a proof would have to bound how far apart the two reports of one play and late
echoes can be against `Window`, which no part of the code does.

**`LibraryProofs`**, for any servers, media, ids, plans of the servers and bounds: types;
`EmptyOnlyCrossed`; and, where no two connections are to servers of a kind (`OneEach`),
`PullMirrors` and `ListedKept`. Without `OneEach` the second pair is false
(`Library_twoplex.cfg`): files belong to a kind of server, not to a connection.
`EmptyOnlyCrossed` speaks of collections that have lost their last file; `LInv` says of
every transaction at work, webhook or pull, that the files it is to remove are there and
no other's unless their media is `crossed` (`Apart`), that it knows each collection of
which it takes the last files (`Knows`), and that what a pull has cached is of the media
it was when read (`CacheTrue`). `DInv` says that the ids with files of two media are all
`doubled`, and that a pull nothing has crossed knows every file under the ids it has still
to do; so an item of such a pull leaves no other media's file beside its own.
`MInv` adds, for `PullMirrors`, that nobody is about to
remove what a mirrored server has (`Spared`), what the maps of an undisturbed pull are
worth (`PullTrue`), and that each item the pull has done is placed and the files of its id
are of it (`Progress`), which
the items it has still to do cannot undo. The invariants were checked by TLC over the run's
instance and from arbitrary initial tables. The attempt to prove `Progress` showed that
a pull with a failed item must not count as undisturbed.

**`WeTrakrProofs`**: types; `WrittenOnce`; and that neither bookmark passes what was not
handled (`PullCovers`, `PushCovers`), for any items, jobs, clocks and faults. The
invariants say of a job at work what its snapshot covers of what it will stamp: a row
older than the new bookmark is in the plan, was sent, is excused by name, or committed
with an older date than the push began; an entry of the journal that has appeared was
applied, or its section is still to do.

**`CloudShelvesProofs`**, for any services, media, episodes, seasons and bounds, and with
jobs that overlap: types; `WordsStand` for ratings, lists and dropped shows, of
`CloudMarks` alone and beside the collection; and `ShelfStaysInStep`. `WordStands` speaks
of what is here only. `WordHeld` adds what each service holds, what each pull at work has
read and what each push at work will send: near the user's word, except what Simkl and
Trakt were not sent (`Excused`), of which no pull makes anything. `ShelfInStep` speaks of
rows without a call under way. `ShelfHeld` says of every row that was heard: no call adds
what is not collected or removes what is; a service out of step has a call coming that
names the row; a pull at work has read a title in the library only if it is collected, and
as gone only if it is not; and Stremio marks nothing as removed that it has. That is why
`PullShelf` takes the rows of calls under way out of `heard`: what such a pull reads
may be older than the call. `ConstantsAssumption` says that Nuvio and Stremio keep
no ratings, lists or drops. Both invariants were checked by TLC over the run's setups,
and with two overlapping shelf jobs (2.5 million states).

Stay with TLC: all liveness (`JobsSettle`, `Converges`, every `Settles`, `Follows`,
`AllSettle`, `Surfaces`) and what uses ENABLED, which the prover does not do;
`NoPhantomPlay` and `NothingLeavesForEcho` outside the hypotheses above, where they do
not hold; the properties of `CloudPlays`,
`PlexHistory`, `NextUp` and `Catalog`, most of whose steps are folds over sequences and
sets, so that their proofs need induction over data; `AdditiveDrops` and the other
properties of section 5, which do not hold. No module proved about declares a
RECURSIVE operator.

## 5. Findings

Listed with a run: `FallbackIsRight` (`catalog_fallback`): when TMDB does not answer,
`core/enrichment.py:310` asks TheTVDB with TMDB's numbers and fills the row in from
another episode, which its comment and its callers say does not happen.

Kept beside, each a property of a module and a configuration under which TLC shows it
violated (for those without one of their own, put the property in the run's):

| property | configuration | what it shows |
|---|---|---|
| `NoRevival` | `SyncJobs_mixed` | a cancelled job of a cloud service is revived by its runner's first write, which has no WHERE on the status |
| `FailureRecorded` | `SyncJobs_mixed` | the handlers of `run_trakt_sync` (`routers/trakt.py:1373`), `run_trakt_export_sync`, `_run_trakt_push`, the Simkl jobs, `_run_arvio_sync`, `_run_full_push` while it has nothing to remember, `run_heal` (`routers/sync.py:7892`) and the imports write "failed" through a session whose transaction has failed, without the rollback the other runners do; the write raises and the row stays running until the next start-up, while `_short_error` (`routers/sync.py:127`) wants the recording not to fail |
| `RecordedEverywhere` | `PushState_sibling` | an interrupted push remembers an item of which only one copy took the value (`sync.py:7594`) |
| `ResumeTrustsFullRuns` | `PushState_pair` | `core/push_state.py:62-63` says the rows a resumed full push trusts "came from that run"; `unchanged` (line 151) accepts rows of any push since then |
| `OnePlayOneEvent` | `WatchLog_siblings` | the duplicate check's lock is per media row, the check spans an episode's rows |
| `PollEndsSessions` | `WatchLog_all` | a poll that finds only duplicates rolls its deletes back (`history.py:3737`) |
| `DismissedNotWatched` | `WatchLog_all` | a session dismissed while the poller has read it is recorded all the same (`history.py:3717` against the docstring at 3671) |
| `RewatchEnds` | `WatchLog_all` | two handlers that record the last two episodes of a cycle at once each miss the other's row (`core/rewatch.py:187`) |
| `HealKeepsProgress` | `WatchLog_all` | the heal of duplicates deletes an event that a rewatch's progress hangs on |
| `OnlyRemovedGoes` | `WatchlistReconcile_pair` | with two Plex connections, deletion of the managed list makes the second reconcile wipe that connection's watchlist (`sync.py:3922`) |
| `NoPhantomPlay` | `Playback_credits` | a stop of a pushed play that comes after the token has expired, as with long credits, makes two events |
| `RewatchNotHidden` | `Playback_echo` | a token is for "the one echo expected back, so a genuine later rewatch isn't silently swallowed too" (`webhooks.py:535-537`): the token of a call that fails, or that the server makes no report of, is not taken back, and one whose echo is late is taken by a play that comes first; that play leaves no event |
| `NothingLeavesForEcho` | `Playback_unsynced` | "an echoed row - not a real play - never reaches Trakt/MDBList/Simkl/Bingebase" (`webhooks.py:774-788`): with `sync_watched` off on a connection that is pushed to, the MarkPlayed branch (1777-1793) never asks whether the mark is an echo and scrobbles it |
| `RematchMirrors` | `Library_rematch` | `old_source_id` is read after it was assigned (`sync.py:2511`): the old file of a re-matched item survives |
| `ExactMirrors` | `Library_mirror` | a report of an addition handled while the item is matched anew, or later, makes the old media's file beside the new one (`webhooks.py:2159-2245`); `existing_files` (`sync.py:2360`) has one row for an id, so whole pulls that nothing crosses leave both as long as the right one is the one it has |
| `ListedKept` | `Library_twoplex` | two Plex connections of one server remove each other's files |
| `RescanIsSafe` | `PlexHistory_pairs` | "re-scanning the full history each time is safe" (`sync.py:3450-3456`): the marker of an echo is consumed by the first rescan, and the next imports it |
| `AdditiveDrops` | `CloudShelves_parts` | Trakt's pull of dropped shows writes back the list it read (`trakt.py:1244` against 1228): a drop made meanwhile is lost |
| `DropIsFinal` | a `simkl` setup for drops | the order of Simkl's push (`simkl.py:978`) does not keep a watched dropped show dropped |
| `LeftOfNow` | `NextUp_show` | a load counts with the rewatches it found when it began (`history.py:1217-1222`, 1037-1046): one started meanwhile is not heard of, and of one cancelled, completed or restarted nothing counts as watched |
| `SwitchedOnMeansAll` | `WeTrakr_switch` | a section switched on while a push is at work loses its first full push: the push writes the bookmark back (`wetrakr.py:1354` against `auth.py:553-558`) |

Observations met while modelling, for which there is no run. They are differences between
code and text, or limits, that a maintainer may want to know:

* *Jobs and lists*: two connections that find no managed list both make one; from then on
  each reconcile of the user fails at `scalar_one_or_none` (`twin` in the model).
* *Playback*: a stop without a position takes the progress of the last session
  (`webhooks.py:1468-1511`); a second stop within 15 seconds is dropped and leaves
  a session behind (517); a stale token in front of the queue hides the one after it until it
  expires; a late echo of an unwatch deletes a newer play.
* *Collections*: `README.md:492` promises that Stremio keeps what Scrob did not add, but
  `stremio_pushed_library_ids` becomes everything collected (`sync.py:6686`); a delta for
  one title forgets another's failed removal; a failed lookup at a full push takes a title
  off Stremio (`enrichment.py:230`); removals reach Nuvio only by deltas; a removal at
  Stremio is undone by a full push before the next pull; MDBList is sent the whole show
  for a series row; pulls never fan out although `README.md:496` says so.
* *Library*: a re-match from one episode to another of a different number evicts nothing:
  the key of `existing_files` has the number (`sync.py:2246`, 2360), and the old file's id
  is among those seen.
* *Marks*: two services whose pulls overwrite can exchange a pair of ratings for ever; half
  points come back even (7.5 as 8); deleting all ratings is not pushed.
* *Plays*: a play back-dated behind Trakt's cursor waits for a full pull; dateless plays are
  imported again by MDBList, Nuvio and ARVIO; `_apply_nuvio_progress` overwrites newer
  progress (`sync.py:4652-4751`).
* *WeTrakr*: an imported rating with an old `rated_at` is never pushed; reconnecting another
  account keeps the ids of lists and comments; removals are not sent.
* *Next Up*: `_has_aired` (`history.py:902-909`) against its callers (2936-2938,
  3171-3173) on an episode without a date; a rewatch counts all progress rows
  (`core/rewatch.py:187-194`).
* *Identity*: Plex's rating-key fast path (`webhooks.py:2529-2545`) is not scoped by user or
  connection; `shows.py:3355-3417` rebuilds a mapping without the reconciliation
  `episode_order.py:1034` describes; a TheTVDB match does not fold copies as a TMDB match
  does, and a re-match can leave ids of the old show; concurrent handlers of a show only
  TheTVDB has can make duplicates.
* *Export and import* (not modelled): lists with names that slugify alike get each other's
  items; a drop is not exported; half ratings are rounded to even; a dateless play is dropped
  on restore beside a dated one; Trakt's importer calls `.get` on a comment that is a string;
  `trakt_auto_sync_interval` is exported and not imported.


## 6. What the models leave out

* `SyncJobs`: progress counters and warnings; WeTrakr's refusal of a second job (the model
  allows the request); the locks Nuvio and Stremio jobs add.
* `PushState`: the branches of Nuvio, Stremio and ARVIO; removals of ratings, which are
  pushed at once and never reconciled; the comparison with the server's present value,
  which only saves calls.
* `WatchLog`: files that hold several episodes; the poller's row lock and the advisory lock
  of the play it inserts are taken in one step; record and completion of a rewatch are one
  step; a play lost because its rewatch row was deleted meanwhile (`RecordFails`).
* `WatchlistReconcile`: the baseline is read with the fetch; titles that never resolve;
  `Patient` says that a user waits for a change to be pushed before the next change of the
  same item (one of the two places in the frontend disables its button, the other does not;
  without it a late push of the first change can be taken for a removal).
* `Playback`: files of several episodes, `PlaybackProgress`.
* `Library`: the ratings and watched flags a pull writes, playlists; files of a deleted
  connection outlive it. `existing_files` is keyed by id and episode number
  (`sync.py:2360`), `Cached` by id: the media of an instance are films, or episodes of
  one number. An item matched anew to an episode of another number is not found under
  its id, and its old file stays (section 5).
* `CloudPlays`, `PlexHistory`: one window for all duplicate checks (ten minutes
  and two in the code); Plex's reports arrive or are lost within it.
* `CloudMarks`, `CloudShelves`: named lists; Simkl's watchlist is never written to.
* `WeTrakr`: a slot taken by the scheduler while a request holds it.
* `NextUp`: specials, phantom rows, half-watched events, translations, the progress page.
  TMDB's answers are cached for half an hour (`tmdb.py:13`, 125-127), so what a load or a
  recheck reads "now" may be that old; the model's unit is a day.
* `Catalog`, `Stubs`: films, titles healed in bulk, ratings and comments a merge moves;
  rows from before `Media.tvdb_id`, whose `tmdb_id` holds TheTVDB's number
  (`episode_order.py:1089`).

Integer overflow plays no part: ids and counters are Python integers and the columns are
wide. Where floating point matters (half ratings) the model counts half points.

## 7. Not modelled

*Accounts, tokens, 2FA, OIDC, device grants*: each a transaction on one row. The refresh
of a single-use token by two tasks at once (`trakt.py:64`) is the hazard among them; the
models see a refresh that fails as a failing call. *Image cache*: a lost file is fetched
again. *Calendar*: a row recomputed from queries; the dates it shows are `NextUp`'s.
*Radarr and Sonarr*: one task that submits what it does not remember; a repeated submission
is answered "exists". *Export, import, backup*: conversions, one job each, whose life is
`SyncJobs`'. *Profiles, statistics, compatibility API*: queries; the writes go through
modelled handlers. *Schema*: the constraints that matter are in the modules that rely on
them. *Frontend*: pages over the API; where the interface limits what may overlap, a
constant says so.

## 8. Plan

Done: the models and runs above; the proofs of section 4.

Next, in order of what they would say:

1. `ShownAired`, an action property whose invariant ties a load at work to the dates of its
   row; `NoPhantomPlay`, for which a bound on late reports and echoes against the window must be
   found first.
2. The refresh of a single-use token (Trakt, WeTrakr, Simkl, Nuvio), with and without the lock.
3. Device grants, the image cache, the poller of Radarr and Sonarr, backup.
