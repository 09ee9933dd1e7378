# Solstice check-in: a TLA+ model of the kiosk service

This directory models the check-in service of this repository (`src/app`): kiosk
scans, the Redis lock and state key, the PostgreSQL rows, the retry loop towards
the badge-printing vendor, the vendor's callbacks and the admin's overrides. TLC
checks small instances; TLAPS proves the main safety properties for every value
of the constants. Paths below are relative to `src/`.

## 1. The system

| part | state it keeps | operations | hard behaviour | what makes it correct |
|---|---|---|---|---|
| Check-in orchestration, `app/services/checkin_service.py` | none across requests; one coroutine per scan | `process_scan` | every `await` lets other requests in; an exception or a crash at any of them | the try block is a critical section per attendee; a started scan is answered; one badge per attendee |
| Redis, `app/redis_client.py` | `lock:checkin:<attendee>` and `state:checkin:<attendee>`, both with a TTL | `acquire_lock`, `release_lock` (GET, then DELETE), `set_state`, `get_state`, `delete_state` | expiry between two commands; errors are swallowed; no client at all, or a server that stalls | locks are given back, and only by their owner |
| Publishing, `app/services/queue_service.py` | the loop's counter and `last_error` | `publish_print_job` | late, lost and missing answers; retries of what was already done | returns; returns the id that the vendor knows; never asks for a second job after an answer |
| Callback, `app/api/routes/webhook.py`, `app/services/webhook_service.py` | none; a background task per delivery | `print_callback`, `process_callback` | duplicates, concurrency, arrival before the row has the id, loss after the 200 | final status is the vendor's word; badge and job agree |
| Overrides, `app/api/routes/admin.py` | none | FORCE_CHECK_IN, RETRY_PRINT, CANCEL, RESET_LOCK | the row is read before, and written after, Redis awaits | job and attendee rows agree; nothing unaudited; the vendor's id is not erased |
| Database, `app/database.py` | `attendees`, `print_jobs`, `checkin_audit` | commits | READ COMMITTED, no row locks between SELECT and UPDATE; a commit that fails may have been applied | unique `scan_id` and `idempotency_key` |
| Vendor, `scripts/mock_vendor.py` | its jobs | `POST /print-jobs`, callback | it ignores the Idempotency-Key, may stall | external |
| HTTP shell, `app/main.py`, `app/api/routes/checkin.py`, `app/schemas.py`, `app/config.py` | settings | routing, the two GET endpoints a kiosk polls, the 500 of the exception handler, health, SSE stub | three reads behind one answer, made while commits go on | an answer never reports a check-in that is not there, and knows every job a kiosk was told of |

A scan calls Redis, the database and the vendor in turn, inside one coroutine.
The vendor calls back over HTTP, and the callback touches only the database. The
admin's overrides touch Redis and the database; a kiosk's poll reads both. Nothing
coordinates the four except the lock (scans only) and the database's transactions.

## 2. The modules

    CheckinTypes   requests, attempts, constants
     |- Faults         at most MaxFaults failing calls or crashes
     |- Database       badge, jobs, audit, clock
     |- RedisClient    lock, rstate                  (extends Faults)
     |- VendorApi      http, vjob
         |- QueueService   pub                       (extends Faults)
             |- PublishLoop    = QueueService against the vendor alone
                 |- PublishTiming  now, began, due: the loop in time
    ScanService    scan = Database + RedisClient + QueueService
    WebhookService hook = Database + VendorApi + Faults
    AdminService   adm  = Database + RedisClient
    CheckinSystem  = ScanService + WebhookService + AdminService
    CheckinLifecycle    the abstract life cycle of print jobs and check-ins
    AttendeeLock        the abstract lock of acquire_lock and release_lock
    CheckinProperties   what is claimed of CheckinSystem  (extends PublishLoop too)
    KioskApi       poll = the GET endpoints over Database, RedisClient and ScanService
    KioskSystem    = CheckinSystem + KioskApi, and what is claimed of it
    MCCheckinSystem, MCKioskSystem, MCPublishLoop     values of the constants for TLC
    LoopProofs, CheckinProofs, ClaimProofs, JobProofs, RowProofs, StateProofs, KioskProofs,
    PrintProofs     theorems: LoopProofs is under CheckinProofs, which the others extend;
                    RowProofs extends JobProofs, StateProofs RowProofs, KioskProofs StateProofs

How the code is read:

* **One step per await.** The service is one asyncio process, so the code between
  two awaits is atomic and everything else interleaves. `ScanService` has an action
  for each await of `process_scan`, in the order of the code, with the guard,
  early return and exception path of each; `Publish` is a step of the retry loop
  (`QueueService!PublishStep`), which runs inside the scan.
* **A scan is a request.** The print job of scan `s` is the row `jobs[s]`, the n-th
  POST for it is `<<s, n>>`, and the vendor job it creates has the same name. A scan
  handles one request; a kiosk that retries is another scan with the same `ScanIdOf`.
* **Failures.** Every Redis, database or HTTP call may raise (`Fault`), up to
  `MaxFaults` times. A failed commit, and a failed SET NX, may have been applied. A
  failed SETEX or DEL that was applied looks to the code like a success, because
  the error is swallowed, and is that outcome. A crash ends every request and
  background task and leaves Redis, PostgreSQL and the vendor as they are; it
  is bounded by the same counter.
* **The lock's value** is `<kiosk>:<time>`. The model stores the scan that set it,
  and `OwnedBy` is the code's `startswith`: `PrefixOf` says which owner's text
  begins which. `ReleaseGet` and `ReleaseDelete` are the two commands of
  `release_lock`.
* **Commits of an object loaded earlier.** SQLAlchemy's UPDATE names the columns
  that differ from the loaded values: `Database!Flush`. An override keeps the row
  as it `seen` it and flushes on top of what the row holds at commit time.
  The callback's and the scan's UPDATEs always change `status` or
  `vendor_job_id` and are written directly.
* **A poll** (`KioskApi`) is one GET: `get_attendee_status` reads the attendee, the latest
  job and the state key in three steps, and its answer keeps what each read saw. `badge_printed`
  is the value of the first read, as the code's loaded object has it. `since` is a history
  variable: the scans that had been answered with a job when the poll began.
  `get_scan_status` ends in a 404 or, because `CheckinService.get_job_status` does not exist, in
  a 500. A kiosk may poll again and again; a crash cuts off the polls in progress.
* **Time** is a counter (`clock`) read when a job is built, for the `ORDER BY started_at DESC`
  of the overrides. A TTL may run out at any time when `LocksExpire` or `StatesExpire` says so.
  This is not an idle possibility for the lock, as `PublishTiming` shows. There, time passes by
  `Tick`, and no connect, request or sleep outlasts the settings
  (`VENDOR_CONNECTION_TIMEOUT`, `VENDOR_READ_TIMEOUT`, which also bounds writing, and
  `VENDOR_RETRY_BACKOFF_BASE`). With connect timeout `C`, read timeout `R`, backoff base `b` and `N`
  attempts the loop may take `N(C + 2R) + b N(N-1)/2`: with the defaults 5, 25, 1 and 3 that is 168 s,
  and the lock lives 30 s (`app/config.py` 36, 57-63). Each phase of a request is taken to wait once:
  httpx counts `read` per chunk, and a vendor that trickles its small answer is left out. Over https the connect timeout
  applies to the TLS handshake once more, which makes it `N(2C + 2R)`; the URL in `.env` is plain http. Nothing in the code
  compares the budget with the lock's TTL.

Merged steps: the `refresh` after the INSERT belongs to its commit; the SELECT of
the attendee in `process_callback` and in `manual_override` belongs to the SELECT
of the job (`badge_printed` only ever goes from FALSE to TRUE); the backoff sleep
belongs to the start of the next attempt. Abstracted data: messages, names,
badge data, error texts, `attempt_count`, `completed_at`, `processing_at`, the
details of audit rows. Two things of the vendor come from the contract in
`app/schemas.py:83-90`, not from the mock, which only ever reports SUCCESS: a job may
fail, and a callback may be sent more than once. The vendor's verdict on a job does
not change between deliveries. An accepted answer always carries a vendor job id.

## 3. The abstract specifications

`CheckinLifecycle` is what the database promises about check-ins: a job is opened
PENDING, ends once as SUCCESS or FAILED, and its person is checked in by the very
step that makes it SUCCESS. `LifecycleRefined` says that `CheckinSystem` without
overrides implements it, with `status` the status column and `checkedIn` the
`badge_printed` column. Overrides are outside of it on purpose: RETRY_PRINT
reopens a finished job and CANCEL fails one whose attendee is checked in.

`AttendeeLock` is what `acquire_lock` and `release_lock` promise together: a client takes a
free lock and works under it (`Enter`), or takes it and never hears so (`Orphan`, the failed
SET NX that was applied); it leaves with the lock given back (`Leave`) or without (`Abandon`,
a failed release or a crash). `ClaimRefined` says that the lock keys and the scans in their
claims implement it, under the `LeaseIntact` of section 6.

`PublishLoop` is not an abstraction but a smaller system: the retry loop against the vendor alone, which the
run `publish` and `LoopProofs` examine in all its interleavings. The rest of the service does not write
the loop's variables, so its invariant holds in the service (`LoopInvInService` in `CheckinProofs`), where the other
proofs use it. `Elsewhere` is the step of a fault or a crash that strikes outside of the loop.

## 4. The runs that pass

| run | instance | what it shows |
|---|---|---|
| `publish` | one scan, 3 attempts (the default), all vendor scenarios, lost answers, 1 fault, connect timeout 1, read timeout 2, backoff base 1; 37 thousand states | `SecondJobNeedsMiss`, `SubmittedIsAccepted`, `RefusalLeavesNoJob`, `LoopWithinBudget` (the bound is met exactly: one tick less is violated), and `PublishEnds` under weak fairness of the loop and of time only |
| `callbacks` | 2 scans of one attendee from 2 kiosks, the name of one the beginning of the other's, 2 attempts, 2 deliveries per callback, state keys expire, 1 fault or crash; 1.05 million | `StatusIsVendorsWord`, `LifecycleRefined`, `ScanAdvances`, and, while locks do not expire early, `ClaimExclusion` and `ClaimRefined` |
| `overrides` | 1 scan, FORCE_CHECK_IN, RETRY_PRINT and CANCEL at any moment, 1 delivery, 1 fault or crash, a vendor that accepts or refuses with a 5xx; 950 thousand | `TypeOK`, `SuccessImpliesCheckedIn`, `CheckedInWasPrintedOrForced`, `VendorIdSurvivesOverride`, `StatusHasCause`, `DuplicateIsHonest` |
| `scan_ids` | 3 scans, Redis without a client, 2 attempts, lost answers, a resent scan_id, an unknown attendee, 1 fault or crash; 228 thousand | `ScanIdPublishedOnce`: the unique columns do what the lock cannot; `VendorIdIsOwn` with late and lost answers |
| `one_badge` | 2 overlapping scans, 2 attempts, lost answers, locks that expire, RESET_LOCK for a kiosk named `admin...`, 1 fault or crash, under `UndisturbedSpec`; 2.03 million | `NoDoublePrint`: a second badge takes one of the six steps of `Disturbance` |
| `answered` | 2 overlapping scans from the kiosks of `callbacks`, lost answers, no TTL, 1 fault or crash; 49 thousand | `ScanAnswered` in adversity; `LockFreed` by the release alone, `LockHasWorker`, `CallbackSettlesJob` until something fails; `PendingIsReal` |
| `status` | 2 scans of one attendee, FORCE_CHECK_IN, one kiosk that polls either endpoint again and again, 1 fault or crash; 1.15 million | `PollNeverOverstates`, `PollSeesOwnScan`, `PollStateHasGround` over torn reads |

Each property has a mutant, an operator such as `AcquireWithoutNX` or `OverrideWholeRow`
placed just before the definition it corrupts, under which its run must fail.

### Bounds, and why they are enough

Two scans of one attendee are the least that can race; `scan_ids` has three, of which two carry
one scan_id and share a kiosk. RESET_LOCK beside scans is in `one_badge`; that it never lets
two overlapping scans into the claim, unless a kiosk is named `admin...`, is shown for any number of scans by
`ClaimExclusionCorrect`. `one_badge` has no callbacks, because nothing before the badge depends on one but
`badge_printed`, and the theorem has them.
One polling kiosk is enough, as polls change nothing and do not see each other. The run without
callbacks (`status`) has badges printed by force; that the same three properties hold with callbacks is
proved. Attendees do not share any row or key, so one is enough; a second one that has no
row gives the `not found` path. Two attempts tell the first from the last; `publish` has the
code's three, with a middle one. Two deliveries give the duplicate; a third would
be handled like the second. One fault or one crash per behaviour lets every
except clause run at every await; pairs of faults are left out of the composed
runs. `VendorConfigured` is TRUE in every run: the
CONFIG_ERROR return goes on as any other refusal does. `CHECK_DEADLOCK FALSE` is in every
configuration because a behaviour ends when its finitely many requests have been handled.

### Fairness

`FairSpec` has two parts, on different grounds. `Running` is given by the code: a publish loop that
can go on does, because the event loop runs ready coroutines and httpx ends every wait of a POST by a
timeout (`queue_service.py` 54-59). `StoresAnswer` is an assumption which the code does not give: Redis and
PostgreSQL answer each command or fail it. Neither client is built with a timeout for commands
(`redis_client.py` 25-29, `database.py` 26-32), so a server that takes a command and never answers would hold the
request, its lock and its connection for ever; `ScanAnswered`, `LockFreed` and `CallbackSettlesJob` say nothing of that
case. What is owed is a step without a failure (`NoFault`): a failure may interrupt it, but nothing may count
on one. No TTL is owed to run out, so no lock is freed by waiting. `TimedSpec` owes that the timed loop goes on and that
time does; it does not owe anything of the vendor. Nothing obliges a kiosk or an
admin to send a request, the network to deliver, or the vendor to answer. `WorkingVendorSpec` adds
that the vendor answers, prints and calls back; only `early_callback` uses it.

## 5. The runs that fail: where documents and code part

| run | the repository says | the run shows |
|---|---|---|
| `double_print` | README.md:47, a second scan can never trigger a second print job | the state key is read before the lock is taken and never again; the lock is given back before the badge is printed |
| `early_callback` | README.md:3 and 14, the callback checks the attendee in | a callback that comes before `checkin_service.py:138` finds no row and is dropped; it was answered 200 |
| `double_apply` | README.md:48, applied only while the attendee is still PENDING | two deliveries pass the test together; the second write repeats the first, which is why `LifecycleRefined` still holds |
| `foreign_release` | redis_client.py:84, release the lock if owned by owner_id | the owner is read by a GET and the key deleted by a second command: a lock that expired and was taken by another kiosk in between is deleted all the same |
| `stale_pending` | README.md:42-45, the callback updates the state, which is stored in Redis | a failed print leaves PENDING in Redis, and kiosks are told to wait |

Three more disagreements need no run, because no order of steps is involved. `admin.py:29` says that RESET_LOCK
clears the Redis lock; `release_lock(.., "admin")` (`admin.py:222`) leaves every lock in place whose owner's text does
not begin with `admin`, that is any kiosk's, and the answer is LOCK_RESET all the same. `GET
/scan/{scan_id}/status`, documented as the fallback for kiosks without SSE (`routes/checkin.py:65`), calls
`CheckinService.get_job_status`, which does not exist: for every scan_id with a row the answer is
500, as `KioskApi!AskScan` has it. And `routes/checkin.py:48-51` promises a 409 for DUPLICATE, but its
`detail` is `response.model_dump()`, which holds a `UUID` object that the JSON encoder of FastAPI's
handler for `HTTPException` cannot write, so the kiosk is likely to be answered 500.

More consequences can be seen by changing a constant or a specification, and are kept as hazards
rather than runs: `ClaimExclusion` fails as soon as `LocksExpire` is TRUE, and `NoDoublePrint` under `Spec` as soon as
any one of the disturbances is let in (section 6). A FORCE_CHECK_IN whose commit fails leaves SUCCESS in Redis, the
excuse that `DuplicateIsHonest` spells out. And `VENDOR_ERROR` after a permanent refusal does not mean that the vendor has
no job: an attempt before it may have timed out, and `queue_service.py` 87-96 returns without looking at `last_error`;
`RefusalLeavesNoJob` has to except it.

## 6. The proofs

`tlapm` proves, for all values of the constants that satisfy the named assumptions:

| theorem | statement |
|---|---|
| `CheckinProofs!TypeCorrect` | `Spec => []TypeOK` |
| `ClaimProofs!ClaimExclusionCorrect` | `ASSUME LeaseIntact PROVE Spec => []ClaimExclusion` |
| `ClaimProofs!ClaimRefinedCorrect` | `ASSUME LeaseIntact PROVE Spec => ClaimRefined`, the refinement of `AttendeeLock` |
| `ClaimProofs!LockHasWorkerCorrect` | `Spec => []LockHasWorker` |
| `JobProofs!SuccessImpliesCheckedInCorrect` | `Spec => []SuccessImpliesCheckedIn` |
| `JobProofs!CheckedInWasPrintedOrForcedCorrect` | `Spec => []CheckedInWasPrintedOrForced` |
| `JobProofs!VendorIdIsOwnCorrect` | `Spec => []VendorIdIsOwn` |
| `RowProofs!ScanIdPublishedOnceCorrect` | `Spec => []ScanIdPublishedOnce` |
| `RowProofs!VendorIdSurvivesOverrideCorrect` | `Spec => VendorIdSurvivesOverride`, an action property |
| `RowProofs!StatusHasCauseCorrect` | `Spec => []StatusHasCause`, with overrides |
| `RowProofs!StatusIsVendorsWordCorrect` | `ASSUME AdminOps = {} PROVE Spec => []StatusIsVendorsWord` |
| `RowProofs!LifecycleRefinedCorrect` | `ASSUME AdminOps = {} PROVE Spec => LifecycleRefined`, the refinement |
| `StateProofs!DuplicateIsHonestCorrect` | `Spec => []DuplicateIsHonest` |
| `StateProofs!PendingIsRealCorrect` | `Spec => []PendingIsReal` |
| `PrintProofs!ScanAdvancesCorrect` | `Spec => ScanAdvances`, an action property |
| `PrintProofs!ScanWorkBounded` | `StepsLeft(s) \in 0..(2 * MaxRetries + 12)` for every scan, always |
| `PrintProofs!NoDoublePrintCorrect` | `ASSUME RedisUp PROVE UndisturbedSpec => []NoDoublePrint` |
| `KioskProofs!PollNeverOverstatesCorrect` | `KioskSpec => []PollNeverOverstates` |
| `KioskProofs!PollSeesOwnScanCorrect` | `KioskSpec => []PollSeesOwnScan` |
| `KioskProofs!PollStateHasGroundCorrect` | `KioskSpec => []PollStateHasGround` |
| `KioskProofs!SafeUnderPolls` | five of the invariants above, of `KioskSpec` |
| `LoopProofs!LoopTypeCorrect`, `SubmittedCorrect` | `LoopSpec => []LoopTypeOK`, `[]SubmittedIsAccepted` |
| `LoopProofs!SecondJobCorrect`, `RefusalCorrect` | `LoopSpec => []SecondJobNeedsMiss`, `[]RefusalLeavesNoJob` |
| `LoopProofs!LoopWithinBudgetCorrect` | `TimedSpec => []LoopWithinBudget` |

* **Types.** `TypeOK` is not inductive: `attempt` stays in `0..MaxRetries` because a loop
  that is sending or waiting has counted at least one attempt, and the id that
  `SaveVendorJobId` stores is a POST's because that step is reached with a submitted
  result only. `TypeInv` adds these two facts (`AttemptCounted`, `SavesWhenSubmitted`).
* **The claim.** `HoldsLock`: a scan between taking the lock and giving it back finds its own
  value in the key. Two scans of one attendee cannot both. It is kept because `SET NX` writes
  only into an empty key, only `FinallyDelete` empties it, and `NoAdminDelete` says that no override gets
  as far as the DELETE. `LeaseIntact` is what this needs: Redis has a client, locks do not
  expire under a working scan, no kiosk's name begins with `admin`. (A client is missing only if
  `from_url` raises, `redis_client.py` 24-35: after a failed `ping` the client stays, and a Redis that cannot be reached
  answers every scan LOCKED.) The kiosks' names may otherwise be prefixes of each other, or equal: the prefix test is
  harmless while no lock expires, because a scan about to DELETE still holds the key. The same two facts map each step to one of `AttendeeLock`: the steps of a scan
  that enter or leave its claim to `Enter` and `Leave`, the failures among them to `Orphan` and `Abandon`.
* **No lock left behind.** `LockHasWorker` needs no `LeaseIntact`: until the first failure a key in Redis
  is that of a scan in its claim. `WorkerInv` adds that without a client there are no keys at all: scans then
  enter and leave their claims without a command to Redis.
* **Check-ins.** `JobInv` follows a badge through the system. Its first part is `LoopInv`: a submitted
  result names a job that the vendor has. `VendorIdIsOwn`: so does a stored id, and
  it is the row's own scan's. `CallbackIsOwn`: a callback in progress is applied to the scan its
  vendor job was made for, and that job is finished. `OverrideIsOwn`: an override holds a
  job of its own target. With these `SuccessImpliesCheckedIn` and `CheckedInWasPrintedOrForced`
  are inductive. No assumption on locks, faults or TTLs is used: these hold without a Redis client too.
* **Rows.** `RowInv`: a scan that has come past its INSERT, and any POST the vendor has seen, has a row;
  rows of one scan_id are one row; callbacks and overrides hold rows that exist. The first two give
  `ScanIdPublishedOnce`, with a Redis client or without one. `VendorIdSurvivesOverride` follows from what
  `Flush` writes: an id can turn None only if the override loaded a row that had one.
* **Causes.** `StatusHasCause` is what is left of `StatusIsVendorsWord` when overrides write the same rows: a stale flush
  may carry a status, but never one for which nobody answers. `CauseInv` adds that a publish which gave up is over, and that only such a
  scan enters the failure path (`GaveUpIsFinal`), and that an audited override will not turn to another row (`AuditedHasBegun`).
* **Callbacks.** Without overrides (the assumption `AdminOps = {}`, under which the property is meant) a
  row's status is PENDING until its own callback or its own scan's failure path ends it, and a row
  that has an id is past the failure path; so FAILED beside an id is the vendor's own, and every step maps to a step of
  `CheckinLifecycle` or to a stutter.
* **The state key.** `StateInv`: PENDING stands for a row, SUCCESS for a check-in or a forced one that has not
  taken its commit or has failed in it (`Ground`). It rests on `Onward`: no step removes a row, changes when it
  was built, or takes back a badge or a ground. `PendingInv` follows the answer PENDING back to where it comes from:
  another scan's state key, or a publish of the scan's own that was accepted.
* **The loop in the service.** `LoopNextRefined` in `CheckinProofs` says that a step of the service is, for the loop's
  variables, one of `PublishLoop` or a stutter. This is so by the way the model is put together, and is a lemma: it makes
  `LoopInv` of `LoopProofs` available to the proofs about the service.
* **The end of a scan.** `StepsLeft` counts the steps a scan can still take: the awaits ahead of it and what is left of its
  loop. Each step of the scan, a fault and a crash too, brings it down, and no other step changes it. `LoopInv` is needed
  because the count of the loop is only right while `attempt` is in its range. That a step is
  eventually taken is the fairness which TLC checks (`ScanAnswered`).
* **One badge.** `NoDoublePrint` is no invariant of the code, as `double_print` shows. `Disturbance` names the steps that can
  cost a second badge, and `UndisturbedSpec` is `Spec` without them: (1) a step after which two scans of an attendee are in their
  claims, as after a lock ran out; (2) a scan that takes the lock although the state key is set, because it read the key too
  early or the read failed; (3) a fault at the SETEX of PENDING, which is swallowed, or at the commit after the vendor's
  acceptance, whose handler deletes the key; (4) an attempt given up that the vendor has accepted or still may; (5) an override
  that clears the key; (6) the key's TTL. Each alone is enough for a second badge: with any one of them let back in, TLC finds
  one. Everything else stays: scans overlap and read the key before the lock, locks expire between claims, processes die, all
  other calls fail, and any number of callbacks and overrides happen. `OneBadge` says why that is harmless: a scan whose POST
  the vendor has accepted or may accept (`Open`) leaves the attendee's key set (`StateKept`), and no other scan of the attendee
  is where it could POST or delete the key (`PrintingIsFirst`), since it must have taken the lock with the key empty; of the
  scan's attempts only the last can be open, as an attempt is repeated only after the vendor refused it (`LiveAttempt`).
* **Polls.** `TrueAnswer` says of each record, also of one half read, that what it holds is true
  of the present rows. `Onward` keeps it true, so a torn read can only be behind, never wrong.
  `LatestExists`, an invariant in place of an induction over the rows, says that `ORDER BY started_at
  DESC LIMIT 1` finds a row as soon as there is one. `KioskInv` includes the invariants of `Spec`,
  so all of them hold for the service with its pollers (`SafeUnderPolls`). `KioskSpec` does not imply `Spec` itself: a failure
  that strikes a poll counts in `faults` and changes nothing else, which no step of `Spec` does.
* **The publish loop.** `AnswerIsReal`: the vendor has the jobs whose ids it answers, and no others. `RefusedSoFar`: as long as
  `last_error` is unset, every earlier attempt was refused for now. A second job needs an earlier attempt that was not, hence
  `SecondJobNeedsMiss`; and the return after the last attempt looks at `last_error`, hence `RefusalLeavesNoJob`.
  `LoopWithinBudget` comes from a bound on `due`: what the
  attempts so far, and the phase in progress, may have taken since `began`.

Assumptions on constants are `TypesAssumption`, `FaultsAssumption`, `RedisAssumption`,
`VendorAssumption`, `QueueAssumption`, `WebhookAssumption`, `AdminAssumption`, `SystemAssumption`,
`KioskAssumption` and `TimingAssumption`; TLC
evaluates each on every run whose modules state it.

A note on form: the modules update a record with several fields by a record constructor,
not by several nested `EXCEPT` paths of fields of different types. The installed `tlapm` encodes the latter
unsoundly for SMT. Every leaf of the eight proof modules that is not a temporal step or part of a
SUFFICES or PICK was tried again with its goal replaced by FALSE; the only ones that then still pass
are in cases that are meant to be contradictory: an `UnlockDelete` that `NoAdminDelete` rules out, a scan or a
callback that would erase a vendor id, a scan that takes the lock with an empty key while the vendor has another's job, the
first attempt in a case that assumes an earlier one, and the last step of a proof by contradiction.

Only model-checked: what is temporal under fairness (`ScanAnswered`, `LockFreed`, `PublishEnds`,
`CallbackSettlesJob`), which is out of the prover's reach. Of its safety half, that a scan never goes back and has finitely many
steps, and that it leaves no lock behind, there are the theorems above.

## 7. What is not modelled

* The HTTP shell beyond the routes: validation, encoding (the 409 of section 5), health, CORS, the SSE stub.
* The TTLs of Redis as numbers: they may run out or may not. The publish loop has its durations, the rest
  of a scan has not.
* The connection pool (`app/database.py:29`). A scan holds a connection while it waits for Redis, but not
  while it waits for the vendor: the commit of `_log_audit` gives it back. Waiting too long for a connection raises and is a `Fault`.
* Database deadlocks between transactions: a commit that is chosen as victim raises and is a `Fault`.
* Code without callers (`set_job_failed`, `get_lock_info`, `WebhookEvent`), notifications (they only log),
  seed scripts, launchers, tests, and the empty `core` and `migrations`.

## 8. Running

    tlc -workers 2 -config Callbacks.cfg MCCheckinSystem
    tlc -workers 2 -config Status.cfg MCKioskSystem
    tlc -workers 2 -config Publish.cfg MCPublishLoop
    tlapm KioskProofs.tla

`PROJECT.json` lists the runs, the mutants, the lines each definition models, the hazards, the
findings and the theorems.

## 9. Plan

Done: types, Redis and publishing; the scan, the callback, the overrides and their composition; the timed
publish loop; the status endpoints; two abstract specifications and their refinements; proofs of
every safety property that the passing runs check.

What could still be added:

1. The lock's TTL as a number in the clock of `PublishTiming`, and leases in `AttendeeLock`, so that `LocksExpire` is derived.
2. A second fault in the composed runs where the state space allows it.
3. The connection pool as a component, should its size become a question.
