# Rastrillo in TLA+

Rastrillo is a Go framework for server-rendered web apps over one SQLite
database. Most of the repository is generators, templates, interface parts
and prose. The logic that is hard to get right sits in a few packages where
handlers, goroutines, timers, browsers and restarts interleave; these are what
is modelled here. Paths below are relative to the repository.

## The system

### Inventory

Each component with its state, operations, partners, what is hard about it and
what makes it correct. "Modelled" names the modules; the rest is planned or
left out, and `PROJECT.json` says why for each.

| Component | State | Operations | Works with | Hard | Correct when |
|---|---|---|---|---|---|
| Live hub (`live/live.go`, `live/view.go`): *LiveCounters, LiveRender* | per topic a counter and the sequence of its last change; a sequence; a boot ID per process | `Notify`, `Middleware`, `View.Attrs` | the app's commits and queries; streams | a write lands between a request's start, query and version; a restart loses all of it | a page that claims the newest version shows every announced write |
| Change stream (`live/stream.go`): *LiveStream* | per stream its known versions, a wake channel; the set of streams; closed | admit, resume, send, heartbeat, lifetime, `Close` | hub; browser or edge; shutdown | wakes during writes, cut connections, IDs of other processes, random select | no change is skipped, no wake lost, Close drains |
| Page script (`ui/live.js`): *LivePage, LiveView* | per region its last fetch, busy, queued, stale, tries, forms; the stream | changed, refresh, apply, submitted, edited, quiet, stop, run | stream; regions' and forms' answers; the person; the browser | answers overtake each other, fetches fail, editing, page cache | no region goes back, none stays behind in silence |
| Live schedule (`live/schedule.go`): *LiveSchedule, Process* | a heap of times, one timer | `NotifyAt`, fire, stop | hub, the runtime's timers, two clocks | a stale fire, the wall clock set, the cap, Close | what is pending is raised in time |
| Second factor (`secondfactor/`): *SecondFactor* | half-sessions with attempts and expiry; recovery codes | `Hold`, `Pending`, `Strike`, `Complete`, `Sweep`, `RegenerateRecoveryCodes`, `SignInRecovery` | first factors, TOTP, passkeys, sessions | statements of handlers interleave, a handler dies between two | one session per half-session and code; misses stay in budget |
| Authenticator codes (`totp/`): *SecondFactor* | a secret, whether confirmed, the last step spent; a limiter in memory | `Begin`, `Confirm`, `Disable`, `SignIn`, `StepUp`, `verify` | the gate, sessions | select-then-update, enrolment replaced under a handler | a code is good once; a live secret was proven |
| Background work (`background/`): *Background* | timers held, a WaitGroup, stopped | `Go`, `After`, `Timer.Stop`, `Loop`, `Stop` | every package that outlives a request; shutdown | a timer fires while Stop disarms it | nothing starts after Stop, Stop outlasts the work |
| Serving and shutdown (`serve.go`, `serve_stop.go`): *Serve, Teardown* | where the main goroutine is | build, serve, drain, close | hub, Group, database, net/http | failures on the way in, requests that outlive the drain | the database outlives the work; the drain ends |
| Sessions (`sessions/`): *RecordSignIn (signed mode)* | rows, or signed cookies with an epoch per person | SignIn, Adopt, SignOut, RevokeAll, Refresh, Sweep | every sign-in | epoch read before signing, a sign-out beside a refresh | a session that was ended is over one cookie lifetime later |
| Jobs (`jobs/`, the poll of `ui/rastrillo.js`): *Jobs, JobPage* | jobs in memory; a page's stream, timer and fetch | Start, progress, finish, sweep, Events, StatusPage, Fragment | handlers, browsers | watchdog against result; a stream that breaks in the middle of a fetch | one final state; every job frees its slot; the page learns the end |
| Links and users over records (`auth/`, `objrec/`): *RecordLinks, RecordSignIn* | links, markers, claims and users as object records | PutLink, TakeLink, sweep, ensure, EndSessions | sign-in, the object store | calls that half happen, midnight, compare-and-swap | a link is redeemed once and refused only for cause; one user per address |
| Challenges (`passkey/`), nonces (`pow/`) | rows or object records with an expiry | put, take, sweep | sign-in | create, delete and sweep as separate calls | each is good once, and never after it expired |
| Migrations (`migrate/`): *Migrate, Upgrade* | a ledger, the write lock, foreign keys per connection | Apply, adopt, Stamp, runOne, evict | start-up of several instances, older databases | two instances, a kill between any two statements, a rollback that fails | each is applied once, in order; the ledger tells what is there |
| Event log (`eventlog/`, `internal/generate/mergeablestore.go`): *EventLog, MergeLog* | events per stream and writer; the database's writer | LocalWriter, Append, AppendChecked, AppendUnder, Ingest; create, update, delete | requests, other databases | maxima read before an insert, a writer minted twice, redelivery | one event per position everywhere; nothing is written on what is gone |
| Provisioning (`provision/`): *ConsoleCreate, PathMap, Tenants* | the platform's instances and paths; the app's tenant records | Create, PublishPaths, signup, relabel, advance, finishReplace | the CARLOS platform, the object store | answers lost after the write, stray POSTs and PUTs, requests that stop half way | one instance per tenant and no orphan; a live prefix stays published |
| Password limiter (`password/`), vault handoff (`vault/`) | failures in memory; one row per person | fail, clear; Enrol, Restore | sign-in | as TOTP's limiter | as TOTP's limiter |
| Everything else | none shared between requests, or generated | | | | |

### Hazards

`PROJECT.json` lists what in this code is hard to test, each at its line, with
the properties that would catch it, or the reason none does yet.

## Modules

| Module | Models | Notes |
|---|---|---|
| `LiveCounters` | the hub's counters | shared by the two below |
| `LiveRender` | requests that render while writers commit and notify | extends LiveCounters |
| `LiveStream` | `serveStream`, wakes, resume, Close, the connection | extends LiveCounters |
| `LivePage` | live.js over LiveRender, and the stream seen from the page | extends LiveRender; implements LiveView |
| `LiveView` | abstract: a region shows a moment of the data, and never goes back | |
| `SecondFactor` | `secondfactor.Gate` and `totp.Handlers` for one subject | |
| `Background` | `background.Group` | |
| `Serve` | the process from build to exit, with the hub's Close and the Group | extends Background; implements Teardown |
| `LiveSchedule` | NotifyAt, the timer, fire | |
| `Process` | Serve with the hub's schedule, which Close stops | extends Serve, LiveSchedule |
| `Jobs` | the registry of jobs, `run` and fn | |
| `JobPage` | the status routes, the stream and the page's poll of one job | extends Jobs |
| `RecordLinks` | links and markers in an object store | |
| `RecordSignIn` | users, epochs and signed cookies behind the links | extends RecordLinks |
| `ConsoleCreate` | `Console.Create` against the platform | |
| `PathMap` | `Console.PublishPaths` against the platform | |
| `Tenants` | one tenant's record from signup to live | extends ConsoleCreate, PathMap |
| `Teardown` | abstract: the database is open while work runs, refused work stays refused | |
| `Migrate` | `migrate.Apply` by several instances on one database | implements Upgrade |
| `Upgrade` | abstract: migrations run in order and are recorded as they run, or adopted | |
| `EventLog` | the log and the generated store's writes, on several databases | implements MergeLog |
| `MergeLog` | abstract: databases gain events, their own in free positions, others' as they are | |
| `LiveStreamProofs`, `LivePageProofs`, `SecondFactorProofs`, `ServeProofs`, `JobsProofs`, `RecordSignInProofs`, `TenantsProofs`, `DatabaseProofs` | theorems | each extends the module it is named for and proves of the modules that extends; LivePageProofs is also about LiveRender, ServeProofs about Process, JobsProofs about JobPage; DatabaseProofs is about Migrate and EventLog |
| `MC*` and their `.cfg` | instances for TLC | |

### How state and actions correspond to the code

**LiveRender.** `committed` is the app's data, `owed` the commits whose Notify
has not run, `announced` what the counter stands for. A request goes through
`Begin` (Middleware records the sequence), `Query` and `Attrs` per topic in any
order, and `Answer`. `Begin` may also record 0, which is what a route mounted
without Middleware reads. `Restart` forgets the counters between any two steps.

**LiveStream.** A handler's `phase` follows `serveStream`: opening (admitted, its
header not flushed), reading the counters, composed (before the check of done),
writing, waiting in its select, and ending: it has returned and net/http has the
closing chunk to write. The header and the closing chunk are writes without a
check of done, each with a deadline of its own, and any of the three kinds of
write may find its connection broken. `wake` is the channel of capacity one,
`wire` what was written and not read, `late` the writes that ended after Close.
A client keeps its URL's versions and its last event ID; `Cut` loses an unread
suffix. `Resubscribe` is the page's own reconnect, from any versions of this
process its regions may show by then or from another's (for several processes at
once live.js sends no boot, and boot 0 stands for all that are not this one).
Whether a stream may be opened (`Allow`) is a pure question and left out.

**LivePage.** `st` is live.js's `state(name)` by field. A task of JavaScript is
one action with the microtasks it leaves, so `FetchAnswered` includes the
refetch of what was queued, `Settle` the regions a form held back. The stream
is what `LiveStream` shows it to be: events in order for every topic that moved
past `known`; it is not composed with LiveStream step by step, which would only
multiply the states. `FormSwaps` brings any of the page's regions
(`Rastrillo-Regions` lists what the server rendered); `left` is the history of
those that the answer of the form with their last fetch left out, by listing
others or by staying put. An answer that lists none is `FormUnknown`, and like a
5xx counts as a fault: a person who resends a failing form for ever, each time
before the regions' own fetches are in, is outside `CatchesUp`. `faults` bounds failures, lost streams, hidden tabs,
frozen pages and edits together.

**SecondFactor.** A request is a program counter and what its handler holds
between statements. One SQL statement is one action; in-memory limiter calls go
with the statement before them. `Die` stops a handler where it is, `Restart` all
of them together with the limiter. `opened`, `used`, `proven`, `crossed` and
`lost` are history. The proof of a passkey is one that cannot be guessed.

**Background, Serve.** Each section under the Group's lock is one action; what
runs outside it is another: the runtime's firing of a timer (`Fire`) before its
callback has the lock (`Callback`), the two halves of `Timer.Stop` (`Forget`,
`Disarm`), `wg.Wait` (`StopReturns`). `main` is the goroutine in Serve: the
close func's Live.Close, Background.Stop and db.Close are steps of their own,
reached from a drain, its deadline, a listener's failure or a failed build.

**LiveSchedule, Process.** There are two clocks: `wall`, which may be set, and
the monotonic one, which is what `timer` counts down by. `firing` holds the
fires the runtime has started and that wait for the hub's lock; `NotifyAt` and
its Reset may come before them. `forward` is history. Process runs the schedule
beside Serve: whoever closes the hub first stops it, a fire that was waiting
then finds it closed, and the schedule goes on through everything before that.

**Jobs, JobPage.** Every section under the lock of `Jobs` is one action; fn and
`run` are two processes per job, so a result and an expired context may both
wait in the select, and an fn outlives its timeout. A page holds an
EventSource, a number of timers and at most one fetch; `wire` and `reply` are
what the server has sent and the script not handled. `Break`, `FetchFails` and
`Restart` are the faults.

**RecordLinks, RecordSignIn.** One call of the object store is one action, with
what the request holds between two. `TakeFails` stands for an error, an answer
lost after the store has acted, and a process that ends. `Judge` and `Resign`
use the moment the request began (`start`), as the code does; `MaxStall` bounds
how far the clock runs past it. `Init` includes the two repairs `ensure` has:
a claim without its user, and a user from before `Blind`.

**ConsoleCreate, PathMap, Tenants.** The platform is `instances` and `paths`;
`adrift` and `straying` are POSTs and PUTs whose caller has gone and that may
land at any time or never. `call` and `publish` are the client's functions in
progress, `work` where the app's signup and its refreshes are. Whether a
deadline (`AttemptUntil`, routing) has passed is a choice. One module serves
both kinds of app, chosen at `Init`: a home, which publishes no paths and keys
its record by the label, and a hub, which publishes and keys it by the slug.

**Migrate.** An instance is `at` a place of Apply; one statement, or one section
that the write lock makes one, is one action. `ReadLedger`, `IsEmpty` and
`Compare` are before any transaction and so before the lock. The structure of
the database is the set of migrations it has the effect of: `built`, from before
it had a ledger, and those in `runs`. `fk` is the connection's PRAGMA, `evicted`
a connection the pool is told to discard. `Kill` may come anywhere and takes the
connection's transaction with it; `Boot` starts over. `crossed` is history: an
instance adopted what another had begun to apply.

**EventLog.** A request of a generated store is LocalWriter (`Arrive`, `Mint`,
`ReadBack`) and then an append: a plain one whose transaction reads before it
has the lock (`Append`, `Read`), or one judged under BEGIN IMMEDIATE
(`BeginLocked`, `Judge`, `Refuse`). `Insert` stamps what `saw` held and commits;
under WAL it needs the lock and that nothing was committed since (`MayWrite`), or
it is `Busy`. `Ingest` delivers any part of what another database has, any
number of times. Each of its batches is one step, since its first statement
takes the lock. A database that is put back to an older copy and goes on under the same writer is
left out: the code has no answer to it but ErrDiverged, as its comment says.

## What the runs check

| Run | Instance | Distinct states | Shows |
|---|---|---|---|
| `live_stream` | 2 topics, 1 client, 2 handlers, a cap of 1, 1 change to either topic, 2 processes, 1 cut | 164 thousand | no lost wake, nothing skipped, two writes after Close at the most; everyone is told, Close drains |
| `live_page` | 1 region, 1 form, 1 commit, 2 processes, 1 fault | 361 thousand | a page that claims the newest version is complete, and one that began after the last change claims it; no region goes back; none misses a change unless a form leaves it out; a region behind catches up or gives up aloud |
| `live_page_stays` | 1 region, 1 form | | *violation*, see below |
| `half_session` | 2 handlers, 2 half-sessions, 2 recovery codes, a passkey | 1.6 million | one session per half-session and code; the strike budget |
| `totp` | 2 handlers, 1 half-session, 2 secrets | 312 thousand | a code is good once; a live secret was proven; the limiter's budget |
| `totp_raced` | the same, with the window of one step either side | | *violation*, see below |
| `serve` | 1 each of goroutine, timer, loop, stream; 2 callers of Stop; 3 readings of the clock | 265 thousand | Stop outlasts, Teardown, the shutdown ends; what is pending is raised in time |
| `job_page` | 2 jobs of 1 owner, 1 page, 2 faults | 211 thousand | one final state; every job ends; the page is not stranded and learns the end |
| `record_sign_in` | 1 link, 2 redemptions, 2 other requests, 2 days | 2.7 million | single use, refusals for cause, one user per address, sign-out everywhere |
| `tenants` | 3 hosts, 2 relabels, 2 slugs, a signup, 2 refreshes, a tick, 1 fault | 776 thousand | one instance, no orphan, never another's; the prefix stays |
| `migrate` | 2 instances, 4 migrations, 2 faults | 76 thousand | once, in order and truly recorded; the writer comes back clean; what is killed converges |
| `event_log` | 2 databases, 2 requests, 2 writers, 1 record, 3 events, 1 fault | 1.4 million | one event per position, homes without gaps, MergeLog, writes only on what is live |

Every property of a passing run has a mutant: a plausible bug in one definition
(its operator stands before the one it would replace) under which TLC finds the
property violated in the same instance. LiveRender and Serve have no run of
their own: `live_page` and `serve` contain them. No run lists a type invariant:
each module has one, and each is a theorem.

### Bounds

`MaxSeq`, `MaxBoots`, `MaxCommits`, `MaxCuts`, `MaxFaults`, `MaxTries`,
`MaxClock`, `MaxLost`, `MaxProgress`, `MaxEnds`, `MaxCookies`, `MaxPuts`,
`MaxTaken`, `MaxForward`, `MaxFires` and `Moments` bound counters, faults or
clocks; in Tenants `NearLive` also leaves out ticks that would publish the map
that is there. Nothing else is cut. Two changes and two processes are enough for
every comparison the code makes of a version: older, the same, newer, of another
boot. `MaxTries` is 1, where the code has 3: a region that gives up does so
after the same steps. Two handlers suffice to race; that more change nothing is
what the theorems say.

In `half_session` the window is one step (`PendingTTL` 0) on a clock of two, so
that expiry, a sweep and a code presented in time all happen; `MaxAttempts` is
2, so the strike before the last and the last differ. In `totp` the skew is 0,
where `totp_raced` has the code's 1: the neighbouring steps multiply the states
past what a run should take, and codes of two steps are there with the clock.
The histories `opened` and `used` stop counting at 2, since a second session is
already wrong. `late` stops at 2 for the same reason.

`serve` has no request beside its stream: a request differs only in being owed
its answer, so a stream, which is owed it once the hub is closed, is the harder
one. `MaxPending` is 1 where the code has ten thousand: the second pair meets
the cap. In `record_sign_in` a day is two ticks and a link lives one, so a link
crosses midnight live; in `job_page` an owner may run one job, so the cap is met
by the second. `tenants` has the code's own `MaxRelabels` of 2
(`provision/create.go:20`), which takes three labels, and one fault: a lost
POST, a lost PUT or a request that ends. That more faults and more labels change
nothing is what TenantsProofs say.

`live_stream` and `live_page` are small because they check liveness too, without
symmetry. In `live_stream` two topics let a cut come between two events of one
pass, and the cap of one is met whenever the client is back before the handler
of its broken connection has found out. `live_page` has one region: a form whose
answer brings one of its regions and not another, and regions of one page at
different versions, are LivePageProofs' to cover, about any number of regions and
forms. In `migrate` the four migrations are two of structure,
one of data between them and a rebuild that is marked post-adoption, so a
database may match the set, the base, or neither; two faults are a kill and a
failure, or two of either. In `event_log` there is one record, since every race
is about one stream, and IDs then run out at once (`Refuse`); three events let a
writer's second follow another's first. DatabaseProofs are about any numbers.

### Fairness

`StreamFairness`: goroutines that can run do; a client reads and reconnects.
The select's cases for a wake, done and a gone client are fair in the strong
sense, since Go's select picks at random among ready cases and so does not pass
one over for ever. `PageFairness`: the server answers, timers fire, answers are
handled; whoever edits or hides finishes some time. `ServeFairness`: likewise,
with handlers that answer; a stream is only owed its end once the hub is
closed, and the drain's ten-second deadline is owed nothing, so `ShutdownEnds`
cannot lean on it. JobPage: a job's timeout runs out, `run` takes what is ready,
the browser dials, timers fire and answers come and are handled; fn is owed
nothing, so `EveryJobEnds` rests on the watchdog. `FairMigrateSpec`: an instance
that can go on does, and one that is down is started again, as the text of
Apply assumes (`migrate/apply.go:60-64`); it is not owed a boot that no fault
interrupts, but faults are bounded. No change, signal, failure,
cut, submit or lifetime is owed anywhere.

## What is proved

Every invariant and action property of a passing run is a theorem, for any value
of the constants that the named assumptions allow. The assumptions say that
counters and bounds are numbers, that sets are finite where something is counted
and that random draws differ; and a few things of the code: a page that opens a
stream has a region (`ui/live.js` asks for its topics first), a day is longer than
a link lives and a request lasts, a signup is no refresh and the tick is no
request.

* **LivePageProofs**, of LiveRender: `RenderTypeCorrect`, `RenderComplete`
  (CurrentMeansComplete), `RenderSettles` (FreshMeansCurrent). The invariant
  adds, per request and topic (`Knows`), that the sequence recorded at the start
  decides both halves: data read with no change since holds every announced
  write, and a rendered version equals the counter exactly when no change came
  since. CurrentMeansComplete alone says nothing of a request that has read its
  data and not its version.
* **LiveStreamProofs**: `StreamTypeCorrect`, `NoWakeIsLost`,
  `DrainsAfterTwoWrites` (TwoWritesAfterClose), `StreamSkipsNothing`
  (SkipsNothing). A wake is taken before the counters are read. What Close finds
  under way is the header or a write that had passed its check of done; after it
  comes no other but the closing chunk. A drain so waits for less than two write
  deadlines of a stream, and two of five seconds (`live/live.go:172`) are the ten
  it has (`serve.go:247`). That a blocked stream ends "within WriteDeadline"
  (`live/stream.go:263`) is true of the write it is blocked in. For SkipsNothing the invariant adds what every ID on
  the wire, composed or kept by a client may claim: of each topic no more than
  the client was told by it and by what comes before it. A cut then leaves a
  prefix, and a prefix's last ID claims only that prefix.
* **LivePageProofs**: `PageTypeCorrect`, `PageRenders`, `PageMissesNothing`
  (NothingMissedBySwaps), `PageNeverBackwards` (LivePage implements LiveView).
  The server's half is LiveRender's, stated of actions on a set of slots, so
  that a page's fetches and forms only have to be such slots. `Sound` says of a
  region's state that it counts the forms that are out and that what its last
  fetch has read is no older than what it shows: that alone keeps it from going
  back. `Due` says that a region behind what was announced has its last fetch
  under way, or one to come; a form that takes a fetch's place must bring the
  region itself. A 204 and an answer with other regions break that for the
  regions they leave out (`left`), and of those alone the theorem says nothing;
  `live_page_stays` shows that it cannot.
* **SecondFactorProofs**: `TypeCorrect` (over `Shaped`: what a handler holds at
  each place), `OneSession` (`HalfInv`: at most one handler is about to mint for
  a half-session, and then its row is gone), `RecoveryOnce` (`CodeInv`: a code
  claimed by a handler or used is out of the table and never drawn again),
  `ConfirmedProven` (`EnrolInv`: what handlers between two statements know of
  the row), `OtpOnce` (`OtpInv`: a code that opened a session, or is about to,
  is at or below the last step of its secret while that is enrolled). The last
  two hold until an UPDATE lands on another enrolment than its handler read
  (`crossed`); `totp_raced` shows the proviso is needed.
* **SecondFactorProofs**, of the budgets: `StrikesBounded` (StrikeBudget) and
  `FailuresBounded` (LimiterBudget). Past its budget each strike more on a
  half-session has a handler that is about to delete it, or a delete that was
  lost (`BudgetInv`, by cardinalities). The limiter's window is a sum over the
  times of failures, so its invariant (`LimiterInv`: the sum and the handlers that
  have asked and not failed stay below the limit and all requests together) needs
  what a fold over a set adds up to. Section "Sums" proves that of the community
  modules' SumFunctionOnSet: a counterexample would have a smallest one, since
  finite subsets are well-founded, and a smallest one can be taken an element from.
* **ServeProofs**: `ServeTypeCorrect`, `WorkIsCounted` (CountsRunning),
  `StopWaits` (StopOutlastsWork), `StartsNothing` (NothingStartsLate),
  `TeardownKept`: Serve implements Teardown. Every step of the Group has one of
  three effects on what runs (`Kept`, `Entered`, `Left`), and the count follows
  them; `StopInv` adds that a Stop that has begun has stopped the Group, and
  that since one returned nothing runs.
* **ServeProofs**, of Process: `ScheduleInTime` (RaisedInTime), over any clocks, calls and
  late fires; the invariant adds that a closed hub has nothing pending, without
  which the late fires that do nothing would seem to lose something. The heap's
  first exists because the naturals are well-founded. `ProcessServes`: Process
  implements Serve, so what is proved of Serve holds of what `serve` runs.
* **JobsProofs**: `FinishedIsFrozen` (Frozen). The invariant adds that an ID
  whose fn has not begun has no finished job, so Start overwrites none; every
  other step of the registry, a page or a restart leaves a settled job alone.
* **JobsProofs**, of the page: `JobPageTypeCorrect`, `NoPageIsStranded`
  (NeverStranded). The invariant counts the ways in which the script is looking
  (`Busy`): never more than two, and a stream never beside a timer, so that what
  takes one of them away puts another in its place or was told that the job is
  gone. What the stream or a refused fetch says of that is true, and stays true
  since an ID never starts twice.
* **RecordSignInProofs**, of the links: `LinksOpenOnce` (OneRedemption) and
  `LiveLinksWork` (RefusedForCause). `LinkInv` says where a marker and a link may
  go: both stay until their day is two midnights back, and then
  (`BygoneExpired`) the link has expired for any call that may still meet it,
  since `LinkTTL + MaxStall` is less than a day. Two calls may so both create the
  marker; what is unique is the call that has marked and is in time (`Spends`).
* **RecordSignInProofs**, of the user: `AddressHasOneUser` (OneUserPerAddress),
  `SignOutEndsSessions` (EndsInOneLifetime), `RecordOnlyMovesForward`
  (RecordKept). `UserInv` says of a request between two calls (`Fit`) that what
  it holds is of the claim's user, and of a refresh that it has begun no later
  than any sign-out whose epoch it has missed; the record is at the epoch of
  every sign-out answered (`Raised`), which is what a refresh reads.
* **RecordSignInProofs**, of the bounds: `SignInTypeCorrect` (TypeOK). What bounds
  an epoch is not any guard on it: sign-outs everywhere are admitted while the
  epoch and those under way are together below `MaxEnds` (`BoundInv`, by the
  cardinality of `Ending`), and a compare-and-swap that fails takes one from the
  one and gives nothing to the other.
* **TenantsProofs**: `TenantsTypeCorrect`, `OneInstanceKept` (OneKept), `LiveIsOwn`
  (OwnInstance), `PrefixStaysPublished` (PrefixStays). `HoldInv` says what everybody
  holds at each place. `OneInv` calls a host ours (`Mine`) when another creation
  has not got it and a POST of ours has reached or may reach it, a record names it
  or a move to it is unfinished, and says that one host at most is: so no second
  instance can be made, and what a stray POST makes later a record already names.
  `SoleKnows` is why a signup that leaves a label leaves no instance there: while
  its record is the one it wrote, nobody else has a POST for it, so an answer
  "taken" is another's. `MapInv` says that publishes exclude each other from
  listing to PUT, so a map on its way holds every prefix that is listed and on the
  platform's.
* **DatabaseProofs**, of Migrate: `LedgerTells` (LedgerIsTrue), `ReturnsClean`
  (CleanReturn), `MigratesInOrder` (RunsInOrder: Migrate implements Upgrade),
  `UpMeansApplied`, `RefusesJustly`, `MigrateTypeCorrect`. `MigrateInv` says of
  each place what Apply knows there (`ApplyFits`): in the loop that all before
  the next migration is recorded, at a body that the next one is not. That holds
  only because who has the lock is who is inside a transaction (`LockFits`), so
  no row comes between the re-check and the commit. `AdoptionFits` says that what
  is about to be stamped is there; it is decided before the lock is taken, and
  stays true because nothing that ran is undone.
* **DatabaseProofs**, of EventLog: `ContentIsOne` (OneContent), `HomesAreComplete`
  (HomeComplete), `DeliveriesAreTaken`, `LogMerges` (MergesOnly: EventLog implements
  MergeLog), `OnlyLiveIsWritten` (WritesOnLive), `LogTypeCorrect`. OneContent is
  not inductive: two databases agree on a position because one writer is one
  database's (`WritersInv`) and that database has all that anybody has of it
  (`HomeComplete`). The next position is then free everywhere because it is free
  at home, where the writer's numbers are 1..n (`WritesNext`, `WritesFresh`).
  `RequestFits` adds that what was judged under the lock is what is there still.

Only model-checked: liveness (EveryoneIsTold, CloseDrains, CatchesUp,
ShutdownEnds, EveryJobEnds, PageLearnsEnd, Converges), since the prover reaches neither
fairness nor ENABLED. No model needs a recursive operator; the one fold, the
limiter's sum, is proved about as above.

## Where code and text disagree

1. `live_page_stays`: a region's stream fetch overtaken by a form is dropped
   (`ui/live.js:298`), and a form answered by a 204 that stays put fetches
   nothing in its place (`ui/live.js:514`); nor does one answered by other
   regions than this (`ui/live.js:287`). The region stays old until the next
   change or reconnect. `NothingMissedBySwaps` is what holds.
2. `totp_raced`: Confirm's UPDATE names neither the secret it verified nor the
   unconfirmed state (`totp/handlers.go:189`), so a Begin between makes live a
   secret nobody proved. `ProvenUnlessCrossed` is what holds. The same UPDATE may
   lower `last_counter`, and Begin's INSERT OR REPLACE may replace a secret that
   a Confirm has just made live, where its text has it refuse.

Smaller ones, with no run: `secondfactor/recovery.go:101` and `:109` say a miss
leaves the half-session alive and that there is no attempt counter, and line
143 strikes; Complete does not look at the expiry its error names.
`background/background.go:140` says a loop runs until the Group stops, and its
select may pick a tick that is ready beside done: one pass more starts, which
Stop waits for. `jobs/events.go:91` calls the stream's first read the one "the
client is presumed current with", and a change between the page's render and
that read is told only when the job changes again or ends. `ui/rastrillo.js:13`
keeps going only if the replacement carries data-poll; a stream that breaks
during the fetch of the last fragment has set a timer by then, and one fetch
more is made, of what the missing attribute reads as. A 30-bit label that
another creation has drawn is taken for the tenant's own when the refresh that
takes an overtaken signup over asks for it (`provision/create.go:39`):
`OwnInstance` excludes it.

`migrate/apply.go:63-69` says that of two instances which boot at once the loser
skips what the winner applied "instead of re-running the migration or failing its
boot". That holds from the lock on. The ledger, isEmpty and the structure are
read before it (`migrate/apply.go:95`, `migrate/adopt.go:27-65`): an instance
that read an empty ledger and then sees the other's first tables takes them for
an older database's, finds no match and fails its boot. `RefusalIsJust` allows
just that. If the structure matches while a migration of data is still to run,
it stamps that one, which then never runs (`crossed` in LedgerIsTrue).

One more came of the proof of OwnInstance, which would not go through for two
relabels, where the run had had one. A refresh reads a home's `replaced` record,
h left for g, and stops there. The signup finds g taken too, moves on to a third
label and deletes g's record. The refresh then creates g's record, which it finds
missing (`finishReplace`, `provision/sequence_test.go`); a later one resumes it,
its GET finds the other creation's instance, and marks that live.
`provision/sequence_test.go:165-169` says the move is written as it is so that a
refresh does not "mark the other creation's instance ours". This takes a refresh
that sleeps through two relabels, and the code is the worked example of a test.
`OwnInstance` therefore excludes a history in which a refresh finished a move;
`OneKept` holds of it all the same.

## Not modelled

Pure functions of a request, cryptography, I/O clients, generators, templates
and documentation: each is listed with its reason in `PROJECT.json`. Of the
modelled packages: `Allow`, token parsing, the notice region, focus and
navigation of live.js; sealing, HMAC and code formats; middleware assembly.
Crashes matter only where something is persisted or compared with what a browser
keeps, so Serve has none: a process that dies closes its database by dying.

## Plan

What is left, the most important first.

1. `OneUse`, the abstract promise of challenges, nonces and links (used once,
   never after expiry), and `RecordNonces` and the SQL stores that implement it.
2. Sessions in rows; passkey registration; the money schema's upgrade of the
   event log.
3. Abstract specifications of SecondFactor and Tenants that the proved
   invariants already suffice to refine.
