# El Pulpo: a TLA+ model

El Pulpo is a proxy in front of a fleet of OpenAI-compatible inference servers.
It probes the servers, publishes their models, queues and routes requests,
streams answers, records usage in SQLite and lets an operator edit a YAML
configuration by hand or from a dashboard. This directory holds a model of it:
TLA+ modules translated from the Go source, TLC configurations that check them
on small instances, and proofs, checked by TLAPS, of what matters most.

Paths without a prefix are relative to `src/internal/`.

## Inventory

| component | source | state | operations | hard parts | correct when |
| --- | --- | --- | --- | --- | --- |
| concurrency slots | `health/sem.go` | cap, free slots, FIFO of waiters | Acquire, Wait/abandon, Release, setCapacity | grants racing cancellations; a cap that changes over held slots | no slot lost or made, no wake-up lost, FIFO, no starvation |
| configuration store | `config/store.go` | live snapshot, known hash, last error, attempted hash, the file | Load, poll, Save, callbacks | file read outside the lock; saves, hand edits and crashes interleave | no stale save, edits honoured, errors shown, forms truthful |
| request path | `proxy/proxy.go` | one `call` per request, in-flight counts | front door, resolve, acquire, dispatch, buffered or streamed answer | many exits; client, watchdog, timers and prober act at any time | slot and count returned once, one terminal line, and it is truthful |
| load balancer | `balancer/balancer.go` | in-flight count per published id | Add, Resolve | the choice and the count are two steps | counts exact; the least loaded available member is chosen |
| health manager | `health/health.go` | servers, election, failures, models, route table | Apply, probe loop, RebuildTable, Stop | probes racing edits; concurrent rebuilds; timers | table agrees with the servers; removed servers stay gone |
| usage writer | `usage/writer.go` | queue, batch | Submit, flush, drain | full queue, failed batch, shutdown | every row is committed or reported lost |
| debug recordings | `usage/debugwriter.go`, `usage/debug.go`, `proxy/debug.go` | queue, rows kept | capture, commit, trim, clear | as above; trimming | bounded, nothing waits for ever |
| settings | `config/settings.go` | current settings, generation, listeners | Load, Update | two updates at once; the loop that ends a debug window | no accepted update is lost |
| configuration document | `config/types.go`, `validate.go`, `canonical.go` | none | parse, validate, normalise, publish ids | references between sections | canonical text means what it was made from; names stay clear |
| dashboard actions | `dashboard/actions.go`, `body.go`, `csrf.go` | staged imports | save, import, delete, apply prices | clone before save; cascading deletes; stale previews | no save undoes another one or does what nobody was shown |
| dashboard views, exports | `dashboard/views.go`, `query.go`, `api.go`, `exports.go`, `debug.go` | none | render | none: read-only | - |
| usage store | `usage/usage.go`, `query.go`, `csv.go`, `prune.go` | SQLite, its schema | migrate, insert, query, prune | reports of several queries; pruning in batches; migrations that fail | reports add up, retention is kept, migrations run once |
| application | `app/app.go`, `cmd/elpulpo` | lifecycle | New, Start, Stop, loops | order of shutdown; starts that fail | rows of finished requests survive a shutdown |
| price catalogue | `catalog/catalog.go` | none | load, match | an override that is broken | a rate is applied only where it was asked for |
| generated templates, test support | `dashboard/*_templ.go`, `*_test.go`, `testenv` | none | - | - | - |

How they interact. The store calls `Manager.Apply` after every change of the
live configuration; `Apply` starts and stops probe loops and resizes the slots
of a server (`setConfig`). The request path reads the live snapshot, the route
table and the state of a server without holding anything in between, takes a
slot, and submits one row to the usage writer. The dashboard saves through the
store with the hash its form was rendered with. Settings are an atomic pointer
read once per request.

## Modules

| module | models | rests on |
| --- | --- | --- |
| `SlotLine` | what a server's slots promise: holders, a line, a number of slots | - |
| `FairSem` | `health/sem.go`, every method, and the select of `Wait` | implements `SlotLine` |
| `FairSemProofs` | theorems about `FairSem` | `FairSem` |
| `ConfigStore` | `config/store.go`, the file, operators, dashboard pages, crashes | - |
| `MCConfigStore`, `ConfigStoreProofs` | constants for TLC; theorems | `ConfigStore` |
| `Proxy` | a request from the front door to its terminal line, with the balancer | the slots of each server implement `SlotLine` |
| `ProxyLines` | the requests at one server, any server, as the users of a `SlotLine` | `Proxy`, `SlotLine` |
| `MCProxy`, `ProxyProofs` | constants for TLC; theorems | `ProxyLines` |
| `Health` | `health/health.go`: probe loops, elections, falls, the route table | - |
| `MCHealth`, `HealthProofs` | constants for TLC; theorems | `Health` |
| `Ledger` | `usage/writer.go`, `usage/debugwriter.go`, the migrations, start and stop of `app/app.go` | - |
| `MCLedger`, `LedgerProofs` | constants for TLC; theorems | `Ledger` |
| `Settings` | `config/settings.go`, the settings forms, the loop that ends a recording window | - |
| `Document` | the configuration document: rules, canonical form, published ids, the catalogue, what each dashboard action makes of a document | - |
| `Dashboard` | pages that post, save, import and update while the file is edited and the process restarts | `Document`, `Settings` |
| `MCDashboard`, `DashboardProofs` | an instance for TLC; theorems | `Dashboard` |
| `Metering` | what the proxy reads from and rewrites in an answer | - |
| `Accounts` | the row of a request, the table with its retention, the reports over it | `Metering` |
| `MCAccounts`, `AccountsProofs` | an instance for TLC; theorems | `Accounts` |
| `SequenceLemmas` | what operators on sequences return, as lemmas the proofs share | - |

A definition whose comment begins with "Slip" is not part of the model. It is
what a plausible mistake would make of the definition that follows, and shows
that a property notices that mistake.

### FairSem

`capacity`, `avail` and `waiters` are the fields of `fairSem`. A waiter is named
by its request: `cancelled` and `chan` are the flag and the channel of its last
waiter. Every method holds `fairSem.mu` throughout, so it is one action (Acquire,
Release and setCapacity are split by their branches). Outside the lock there is
only the select of `Wait`: `Receive` takes the grant, `WaitEnds` sees the context
or the timer, and `Abandon` then takes the lock; a grant may arrive in between.
`popWaiterLocked` and `drainLocked` are loops in the code; `PopCount`, `Popped`,
`Rest` and `Left` say what they return and leave behind.

`SlotLine` knows nothing of waiters, channels or cancellation. It has holders, a
line, and a number of slots in circulation. `FairSem` implements it with the
holders being the requests that own a slot or have a grant in the channel.

### ConfigStore

The store's fields keep their names (`cur`, `fileHash`, `lastErr`, `attempted`).
A hash is the contents it is the hash of, so two hashes are equal exactly when
the contents are; `""` is `NoFile`, since the code uses it for both. Contents are
a configuration in canonical or in another layout, a broken file, or no file.
What validation looks at is abstracted to "broken" for a file and to `Invalid`
for a configuration that would be refused once written.

`poll` is cut where it is outside the lock: `PollRead`, `PollCompare` (first
locked section), `PollRecord`, `PollSwap`, `PollApply` (each a locked section of
its own) and `PollNotify` (the callbacks). `Save` holds the lock from its checks
to the update of the store, but the file changes before the store does, so the
check, the rename, the update and the callbacks are steps. `Crash` falls between
any two of them and leaves the file, and the pages open in browsers, as they are.
`overtaken` is a history variable: it says whether the file has been changed
behind the watcher's back since the watcher last read it.

### Proxy

One record per request, `call`, whose `pc` says where its handler is. The steps
of a handler are cut wherever it reads something that others write: the choice
of a model, the count, the slot, the second look at the server after the wait
(`CheckUp`), the address (`Aim`), the answer, each read of a stream, each write,
and the deferred release and decrement. `End` writes the terminal line and the
answer at once: nobody reads one without the other. The other actors are the
client (`ClientLeaves`), `total_timeout` (`DeadlinePasses`), the upstream server
(`UpstreamTurns`, and the choices in `Answer`, `BodyRead`, ...), the prober
(`Probe`) and the watchdog of the stream (`WatchGone`, `WatchIdle`).

Abstractions. A server is down, up without an address, up but not in the route
table, or up; `Probe` moves between these as probe rounds, edits of addresses and
table rebuilds may. Bodies, token counts and the model name in the answer are
left out. The configuration is fixed while requests run (a request keeps the
snapshot it started with; changes of `max_concurrency` are covered by `FairSem`).
The slots of a server are in the terms of `SlotLine`. The upstream's silence is
told apart only while it is being read. A tick of the watchdog that falls
between a slow write and the next read has the same effect as one at the end of
that write and is not a step of its own.

### Health

A server that is removed and added again gets a new `ServerState` and a new
loop, while the old loop may still wait for an answer; so states and loops are
named by incarnations, `<<server, number>>`, and a number is free again once
nothing refers to it. `servers`, `stopped`, `table` and `reelect` are fields of
`Manager`, `st` holds those of `ServerState`, `closed` and `probeNow` the channels
of an entry. `Apply` holds `Manager.mu` throughout and is one action. A round
begins with the snapshot it works on (`Begin`), asks one address after the other
(`AskAnswered`, `AskFailed`), and stores what it found (`Elect`, `Miss`), each a
step. A rebuild of the table lists the servers (`Collect`), reads each under its
own lock (`Read`) and stores the result under none (`Store`), so rebuilds overtake
each other here as in the code. What the addresses would answer is `world`.
An edit may take an address off its list while it is being asked; when it answers
it is elected all the same (`Leftover`) and stays, see finding 4. `Settles` wants
every server to be asked at an address of its list or at one left over in this way.
Failures are counted up to three: beyond that only the dashboard looks at them.
Time is left out: timers fire whenever they like, and with it what an interval
is. So are transports and TLS settings.

### Ledger

A row or a recording is named by its request. `finish` hands over the row
(`SubmitRow`) and then the recording (`SubmitCapture`), neither of which waits.
The usage writer takes, ticks, flushes, drains; a flush may fail, and drops its
batch. The debug writer takes, commits and trims: after every `TrimEvery` commits
and once more before it drains. `Stop`, `ShutdownReturns`, `WriterAwaited` and
`Exit` are the stages of `App.Stop`, each of whose waits of 30 s may run out; `Kill`
falls anywhere. `Restart` starts the next binary, which may bring more
migrations; `Migrate` executes one and records its number in one transaction, and
`StartFails` ends a start at any point. `overdue`, `silent`, `killed` and `trimmed` are
history: whose handler outlived the grace, what vanished in a stop without a line
or in a kill, and whether the recordings were within their limit when this life
began or last trimmed or cleared them.

### Settings, Document, Dashboard

`Update` is cut into its read and check, the transaction, and the swap: nothing
locks all three. One knob stands for the settings that only have a range; the
switch of the recordings and its deadline are told apart. A restart reads what
was stored (`Reload`).

`Document` has no state. The sections that `Normalize` sorts are sets; addresses
and members keep their order. A published id is cut at its dashes and its last
`@`, so it is a sequence of pieces and a host: the segment of the server is the
last piece, whatever the id of the server has. `Valid` and `Parsed` are
`ParseAndValidate`: its rules, and what becomes of the document, whose currency is
put in upper case. So a document that was read, posted as text or imported has
one in upper case, and one that a form was saved with has it as it was spelt.
`Canonical` is the text that is written, `Means` what a document amounts to once
defaults are filled in and its currency is compared in any case, `Applied` what
each form makes of a document, `Answerable` the checks made before the copy. A
price section that is missing and one without models are two things: `catalog/apply`
asks for the currency of the second. YAML and the wording of violations are left out.

`Dashboard` lets them interleave. A post of one section is checked against the
live configuration (`PostSection`), copied and edited later (`Clone`), saved later
still under the hash of its form (`SaveDraft`), with other pages, hand edits,
polls and restarts in between. An import is staged and applied by a second post.
`ConfigStore` models the steps inside a save and a poll; here each is one step.

### Metering, Accounts

A frame of a stream and the document of a buffered answer have a model, a usage
object and a response object, each of which may be missing, and an amount of
text. `Metering` says what of them is renamed and what is counted. In `Accounts` a
request relays frame after frame and may fail between any two; its row waits to
be committed; pruners fix a cutoff and delete batches; days pass; and a report
runs its queries one after the other, for each grouping the groups, two
percentiles for each of them, the totals and their percentiles, with commits and
deletes in between. Time is counted in days, amounts in units of a rate and a
token.

## Runs

| run | instance | shows |
| --- | --- | --- |
| `fairsem` | 4 requests, caps 0 to 3, fair | all properties of the semaphore, and that it implements `SlotLine` |
| `fairsem_shrink` | 3 requests, caps 1 and 2 | finding 1 |
| `configstore` | 1 page, the watcher, an operator, crashes, 2 configurations, fair | the guard and the forms are right; saves are answered, edits honoured |
| `configstore_stale_save` | 2 pages | finding 2 |
| `configstore_own_write` | 2 pages | finding 3 |
| `proxy` | 2 requests, 2 models and an alias of both on one server with one slot, fair | counts, slots and rows are exact and truthful, the slots are used as `SlotLine` promises, departures and silent streams end |
| `proxy_slow_client` | 1 request | finding 5 |
| `health` | 1 server that is removed and added again, 2 addresses, 2 incarnations, 1 applier, 2 edits, 1 change of the world, fair | one loop for each server, falls and elections as documented, the table comes to agree with the servers |
| `health_dropped` | 1 server, 2 addresses, 1 edit | finding 4 |
| `ledger` | 2 requests, a queue of 1, batches of 2, recordings kept 1, trims after every second commit, 2 lives with 1 and then 2 migrations, 1 failing trim, fair | every row is accounted for, a stop loses none in silence but those of overdue handlers, recordings outnumber their limit by the commits since the last trim only, migrations run once, nothing waits for ever |
| `dashboard` | 2 pages, 16 posts to choose from, 6 settings forms, 2 files, 2 posts, 1 hand edit, 1 restart, 1 failed write, fair | no save loses another one, names stay clear, the program runs on what is stored, windows close |
| `accounts` | 1 request of 4 possible answers beside 2 stored rows, 3 days, a retention of 1, batches of 1, 1 pruner, 2 reports, 1 failing delete, fair | rows say what the upstream reported, the client sees the name it asked for, reports add up, retention is kept |

Why the bounds are enough. The semaphore compares its cap with what is free or
held, so caps of 0 (no limit), one below, at and above what is in use reach every
branch; four requests give two holders and two in line, which order and
cancellation in the middle need. The store has one watcher and a lock, so what
one page can do to another it does through the fields a single page shares with
the watcher; the theorems below cover any number of pages. Two configurations
and a broken file distinguish new, old, reverted and refused contents. In the
proxy one slot and two requests make one wait for the other; the order among
several waiting is `FairSem`'s matter; two models on one server tell the count of a
model from the slots of the server. Servers do not look at each other but
through the table, whose rebuilds race already with one server, its loops and
one applier; two incarnations make an old loop meet a new one; two addresses
are what an election, a fail-over and a fail-back need; three failing rounds fit
in any behaviour, since rounds are not bounded. In the ledger one row waits, one
is in the batch or committed, and one more is dropped; its theorems cover every
size. With one recording kept and a trim after every second commit the second
recording is there beyond the limit until the trim, whose one failure or the end
of the first life leaves it there for longer. Two posts are what it takes for
one to be overtaken by another or to stage and apply an import, and the hand
edit and the restart come on top. One form and one file spell the currency in
lower case, and one body has a price section without models, so each way in
which a saved document may differ from its file occurs. A report of two
groupings over three rows has groups of one and of two rows; batches of one make
a prune of two rows take two steps and an end.

The bounds on counters are named where the constants are declared: `Edits` and
`Changes` (`Health`), `Faults` and the length of `Releases` (`Ledger`),
`Horizon`, `MaxPosts`, `MaxCrashes`, `MaxFaults` (`Settings`), `MaxEdits`
(`Dashboard`), `LastDay` and `Faults` (`Accounts`). The other modules need none.
Deadlock is checked but in `health` and `health_dropped` (stopped, or without
servers, nothing moves until somebody edits), `ledger` (the process is gone
after its last life), `dashboard` and `accounts` (all posts are made, the clock
is at its bound).

### Fairness

- `FairSem`: a handler that was sent a grant takes it, finishes an abandon it
  began, and releases its slot (a deferred call on every path). No client need
  come and no timer need fire.
- `ConfigStore`: the ticker of `Watch` and the scheduler keep the poll and every
  call of Save going. Both need the lock, which others take again and again:
  `sync.Mutex` hands it to a waiter that starves, hence strong fairness.
- `Proxy`: handlers keep going. `queue_timeout` bounds the wait for a slot,
  `connect_timeout` and `first_byte_timeout` the wait for an answer, the
  watchdog the silence of a stream. The wait for the rest of a buffered body is
  bounded by the departure of the client only, and so it is in the fairness
  condition. A client that stays is assumed to take what it is sent, in the end.
- `Health`: the scheduler keeps loops and rebuilds going, `probe_timeout` bounds
  the wait for an answer, timers fire, and a closed channel stays ready. Nobody
  need edit or stop, and the tokens of `probeNow` and `reelect` need not be taken.
- `Ledger`: both writers keep going, since an insert is given 10 s, and so does a
  stop, each of whose waits has an end. A handler need not end: its upstream may
  hold it. So rows and recordings that were handed over settle, handlers need not.
- `Dashboard`: the loop of the recording window looks every five seconds, and an
  update that began goes on, its only wait being for a transaction. Nobody need
  post.
- `Accounts`: the daily ticker comes round and a prune that began goes on.

## Findings

1. **A lowered cap lets newcomers in** (`fairsem_shrink`, `AdmitsWithinCap`).
   Two slots held, the cap lowered to one: `avail` is clamped at 0, the first
   Release raises it to 1 although the other request still holds the one slot
   there is, and the next request is admitted beside it. "Shrinking absorbs
   over-allocation in flight" (`health/sem.go:60`) needs the release to be
   swallowed.
2. **A save may overwrite a hand edit** (`configstore_stale_save`,
   `SavesRaceNoEdit`). Save compares the form's hash with what the watcher saw
   last (`config/store.go:147`), which is up to a second old.
3. **A poll may undo a save in memory** (`configstore_own_write`,
   `OwnWritesAreNotEdits`). The poll reads the file before it takes the lock
   (`config/store.go:232`). A save that completes in between is compared with the
   old contents; the poll applies those as an edit, and the next one reports the
   save as a hand edit.
4. **A dropped address is elected again** (`health_dropped`, `DroppedAddressGoes`).
   An edit takes an address off the list of its host while a probe asks it.
   `setConfig` drops the election (`health/health.go:84`), the probe stores the
   address it asked (`health/health.go:465`), and every later round begins with the
   address that is elected (`health/health.go:428`): the server stays there for as
   long as it answers. `health/health.go:82-83`, `specs/functional.specs.md:370-373`
   and scenario 20 (`specs/functional.specs.md:692`) say that the next probe walks
   the edited list from position 0. The same steps keep the server at a later
   address when the edit only changes the order of the list; the run does not
   look for that.
5. **A slow client looks like a silent upstream** (`proxy_slow_client`,
   `IdleMeansSilent`). The idle clock is reset when a read returns, and runs on
   while the line is written to the client (`proxy/proxy.go:931`).

### Divergences without a run

Met while modelling; the models do what the code does.

- The error of a file that is broken at startup is lost: Load records it and then
  applies an empty configuration with source "startup", which clears it
  (`config/store.go:105`, `129`), while `config/store.go:84-85` says that it is
  recorded for the dashboard.
- There may be more than "at most the newest thousand" recordings
  (`specs/functional.specs.md:473-474`, `usage/debugwriter.go:10-12`). The writer
  trims after every tenth commit (`usage/debugwriter.go:43`), counts from 0 again
  when the trim failed, and commits what a stop drains after its last trim
  (`usage/debugwriter.go:48`); the next process begins with what is there then.
  `RecordingsBounded` and `StopDrainsFew` say how many more there may be.
- A deadline of `debug_until` can be left without its switch, or the switch
  without a deadline: a form that names only `debug_for` takes the switch as it is
  by then (`dashboard/debug.go:337`), while `dashboard/debug.go:309-311` and
  `specs/functional.specs.md:729` say the switch cannot be left open.
- The loop that closes a window reads the settings and updates them later
  (`app/app.go:395`): it may close a window that was opened in between.
- Two settings updates that overlap both reach the database, but the later swap
  undoes the other in memory until the next start (`config/settings.go:122`).
  `SettingsKept` claims nothing while updates have overlapped.
- A request that waited for its slot builds the transport from the timeouts it
  read before, under the generation of the settings by then (`proxy/proxy.go:498`).
- `total_timeout` that passes mid-stream ends as `upstream_error`
  (`proxy/proxy.go:1033`); `specs/functional.specs.md:331` says every timeout is
  `upstream_timeout`.
- `Stop` is said to cancel streams (`app/app.go:443-444`,
  `specs/implementation.specs.md:427-428`); it does not, and the rows of handlers
  that outlive its grace vanish without a line when the writer has ended
  (`SilentOnlyOverdue` allows exactly these).
- A report is not one snapshot (`usage/query.go:463`): rows committed or pruned
  while it runs show in its later queries only. `ReportsAddUp` is about reports
  that nothing came under.
- Ids of servers may have a dash, but the segment of a published id is what
  follows its last dash (`config/types.go:144`), so a server with one can never be
  a member of a route.
- A save keeps the submitted configuration live (`config/store.go:161`) and
  validates another one, the one its text reads as. They differ in three ways. A
  currency that a form spells in lower case is shown so until the next read of the
  file, which makes it upper-case (`config/validate.go:388`); `LiveMatchesFile`
  compares currencies in any case. A price without a rate is no price while it is
  live, and is written as free. A price section without models is left out of the
  file (`config/canonical.go:118`) but stays live with its currency, which
  `catalog/apply` asks for (`dashboard/actions.go:655`): a rate it refuses now it
  applies after a restart. `LiveMatchesFile` leaves the last two out (`Complete`).
- A preflight of `/v1` passes `proxyAuth` first (`app/app.go:301`), where
  `app/app.go:206-208` says it is answered without.

## Theorems

Proved for every set of requests (finite where slots are counted), every set of
caps, every set of pages, documents and edits, every number of servers and
addresses, every size of a queue or a batch, and every set of answers, prices,
rows, selections and groupings. Every safety property that a passing run checks
is stated by one of them.

- `FairSemProofs`. The inductive invariant `IInv` is `TypeOK`, `NoLostWakeup` and
  `WorkConserving` together, with the queue's elements taken as a set: none of
  the three is inductive alone, since a hand-off is right only because no entry of
  the queue is cancelled, and a drain finds nothing only because no slot is free
  while somebody queues. From it follow `TypeCorrect`, `WakeupsAreNotLost` and
  `SlotsAreUsed`. Counting slots needs in addition that `Holders` is finite and
  that a drain of `a` slots admits as many as it subtracts (`PoppedCount`):
  `SlotsAreNotLost` and, as an action property, `SlotsAreNotMade`.
  `UnresizedCapHolds` draws the conclusion an operator cares about: while the cap
  stays what it is, no more requests than the cap hold a slot. `AdmissionIsFIFO`
  is the action property on the order of grants.
  `SemaphoreIsALine` is the refinement: the holders of the line are the requests
  that own a slot or have a grant in their channel, the line is the queue, and the slots in circulation (`InCirculation`) are the
  free and the held ones. Acquire enters the line or takes a slot, a release that
  hands off and a drain finish and admit in one step, `Receive` and `WaitEnds` are
  stutters; which of them needs what of `IInv` is said at each step's lemma.
- `ProxyProofs`. `IInv` says of each call, by where its handler is, what may have
  been logged and sent (`Proper`), of each line that its entries are the requests
  that queue there, once each, and that there is one only where no slot is free
  (`LineInv`), and that the counts are exact (`CountInv`). The three need each other:
  a release hands its slot to the head of the line, which is a request that waits
  for it only because of `LineInv`, and a row is written once only because the
  states before it have none. Follow `InflightCounts`, `SlotCounts`, `OneLineEach`
  and `LinesTellTheClient`. `LinesAreUsed` proves `UsesLines` for a server that is any
  (the constant `Served` has no other assumption): since no slot is lost or made,
  those in circulation are as many as the cap (`SlotsFit`), and every step of a
  handler enters the line, is admitted, gives up, finishes, or leaves it alone.
- `ConfigStoreProofs`. `StoreTypes` needs to know, besides the types, that only
  broken contents are ever recorded as attempted and that a configuration past
  the checks of Save is a valid one. `LockIsKept` (the lock is held by exactly the
  saver inside its write; no run checks it) needs that a crash leaves nothing
  running. `FormsAreFaithful` is inductive over the types. `GuardIsCurrent` needs
  what the actors hold in their hands while nothing was overtaken: what a poll has
  read is the file until it compares it, and what a save has renamed into place is
  the file until it is committed. All four hold for any number of pages, of which
  the run has one.
- `HealthProofs`. `TypeInv` is `TypeOK` in parts, and in addition: a loop that
  has an answer still has the address that gave it, and a server that is listed
  is listed under a state of its own. `DownOnlyByFailures` is inductive over it.
  `PublishedOnce`, which no run checks, says that a published id leads to one
  server: whichever goroutine stores a table, it has gathered each id once.
  `LeftoversAreElected` delimits finding 4: no step but the election that ends a
  probe under way leaves a server at an address that is not on its list; an edit
  of the list drops the election.
  `NeverFailsBack` needs `RoundInv`: in a round the active address is the one the
  round began with or none, and it comes first in what is left to ask or not at
  all. `LoopsMatchServers` needs `LoopInv`: a loop under whose name the table is
  being rebuilt is in its loop, so that it does not come back from the dead when
  the rebuild ends. The servers, incarnations, addresses and appliers are any.
- `LedgerProofs`. `TypeInv` adds to the types that a process which does not
  serve holds nothing (`HoldsNothing`): without it a restart could overfill a
  queue. `SchemaKept` is about migrations through any number of failed, killed and
  repeated starts. `StopLosesOverdueOnly` needs `SilentInv`: until its context is
  cancelled the writer neither drains nor ends; once it is, only overdue handlers
  run; once the writer saw its queue empty only they can have put a row there.
  `SpamGuardHolds` is inductive over the types, in every life of the process.
  `StopDrainsFew` adds what a stop drains after its last trim, no more than a full
  queue and one recording for each handler that outlived the grace: it counts
  those that may still hand one over (`DrainInv`). `RowsAreAccounted` counts places:
  it follows from `RowInv`, which says that the queue, the batch, the table and the
  three sets of rows given up are apart from each other, hold nothing twice, and
  are together the rows that were handed over. The sizes of the queues and
  batches, `Keep` and `TrimEvery` are any.
- `DashboardProofs`. `SettingsAreKept` needs `SettingsInv`: while no two updates
  have overlapped at most one is on its way; until it has stored its patch, what
  it will swap in is the live settings with that patch, and afterwards it is what
  is stored.
  `LiveMeansItsFile` rests on two facts about a document of any size: what the
  canonical text of a valid one parses to means what it means, and parsing a
  document changes nothing but the case of its currency (`ParsedMeans`), which makes
  no difference the second time. `NamesStayClear` derives the clear names from the
  rules of `Valid`, which whatever becomes live has passed: what it takes is that
  writing a document changes neither a name nor a price that is looked up.
  `SavesKeep` needs `CurrentInv`: while the hash a page or an import carries is the
  one in effect, and that file has not gone and come back (`past`), what was
  checked, copied or previewed under it still holds of the live configuration.
- `AccountsProofs`. `ClientsSeeTheirNames` and `RowsTell` rest on `RowsInv`: a request
  has sent the frames it read, renamed, up to the last one or the one before; its
  meter holds what was reported last and the whole text; and each row says what
  the meter of its request, which is over, says. `OldRowsOnly` proves
  `OnlyOldRowsGo`, the safety half of `RetentionIsKept`, from `Cutoffs`: a cutoff
  that a pruner fixed is never ahead of the one of today. The run has one pruner;
  the daily loop and the button at once are this theorem's matter. `ReportsAreRight` needs in
  addition that the table is finite and its counts are numbers (`Table`), and
  `ReportInv`: until a row comes or goes under a report, what it has gathered after
  each query is right for the rows it selects. Under it lie lemmas about the
  queries themselves: a sum over a divided set is the sum of the sums over its
  parts (`SumOfDivision`), an amount is linear in proper counts, so pricing each
  published id as a whole is pricing each row (`AmountIsOfEach`), grouping divides
  the rows (`GroupsDivide`), and the row at offset `n / 2` of a set in order is
  its median (`MiddleIsMedian`). Sums are cardinalities (`Sum`), and what holds of
  every finite set is shown with `SetInduction`, which is proved from the
  well-foundedness of strict inclusion and takes a set instead of an operator.

What the proofs asked of the models. Some things that hold of the program were
left out before and are now said: an entry that a form puts in beside an equal
one makes a document with two of them, which does not pass (`Apart`, `Doubles`);
what a readable file parses to has the shape of a document (`ParsedAssumption`);
currencies have an upper-case form that is its own (`CurrencyAssumption`); requests
are finitely many where those that are overdue are counted (`ReqsAssumption`); and
usage, stored rows and prices are not negative (`CountsAssumption`; the code
keeps `int64`, and refuses a negative price but not a negative count, which an
upstream is assumed not to report). And two properties were said more exactly:
`NamesAreClear` finds the server of a member by its base model and whole id, and
`SavesKeepTheRest` is about a file that has not come back.

Model-checked only: liveness (`NoStarvation`, `SavesAnswered`, `FileBecomesKnown`,
`HandEditsHonoured`, `DeparturesEnd`, `SilentStreamsEnd`, `Settles`,
`RemovedLoopsEnd`, `HandedOverSettles`, `WindowsClose`, the second half of
`RetentionIsKept`), which is out of this prover's reach.

The assumptions on constants are named where the constants are declared; TLC
evaluates them in the runs.

## Not modelled

Rendering, templates, CSV as text, YAML and JSON syntax and the wording of
violations keep no state and decide nothing the properties tell apart.
Authentication, response headers and the check against cross-site posts refuse
or pass a request before the modelled handlers see it. `GET /v1/models`, paging,
the time series and the lists of distinct values only read. The retention of
recordings (`PruneDebug`) is one delete. Transports and TLS settings of a server
are rebuilt from its configuration. Test support is not part of the program.

## Plan

Done: all modules above, and a theorem for every safety property, action property
and refinement the passing runs check. What is left is to say more:

1. Of `ConfigStore`, that a save that is answered is what the file and the store
   hold at one moment of the save (an abstract store with one step for each).
2. Of `Health`, what a table may list: nothing of a server that was removed before
   the rebuild that made it began. `TypeCorrect` and `PublishedOnce` say less: that
   its routes lead to states, of servers configured or removed, one for each id.
3. Of `Ledger`, the order of the recordings kept: the last ones handed over.
