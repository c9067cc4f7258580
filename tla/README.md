# Verification of the rental platform

The repository is a holiday-rental platform: an ASP.NET Core API over
PostgreSQL (`RentalPlatform.API`, `.Business`, `.Data`, `.Shared`), a SQL schema
in `db/`, and a Next.js web application with four portals (`rental-platform`).
The modules here model the parts that are hard to get right: the booking
services, which any number of API replicas run concurrently over one database;
the finance services; the back office around them; and, in the browser, the
session of a tab, its query cache and the screens that sell a stay, those of the
separate storefront (`demo`) included.  The repository's tests (SQL checks of the
migrations, browser smoke tests, a check that the unit of work resolves) exercise
none of this concurrently.  TLC checks small instances, and TLAPS proves the main
results for every size.

## 1. Inventory

How a request runs: a controller calls a service; the service has its own Entity
Framework context (the unit of work), reads rows at READ COMMITTED, checks
them, changes tracked rows and calls `SaveChangesAsync`.  `Repository.Update`
marks *every* column of a row as modified, so a save without a concurrency token
overwrites what was committed since the read.  Only `bookings` carry a token
(`xmin`).  Some handlers open a transaction and take PostgreSQL advisory locks,
which live until commit or rollback.  Services interact through the tables,
through direct calls (approving a block drops leads and bookings; confirming
creates an invoice; converting a lead creates a booking), and through the nightly
job.  The browser meets them through one axios instance, which renews an expired
access token behind the screens' backs, and through the query cache, which shows
old answers until a hook says that they are stale.

| Component | State | Operations | Hard part | What makes it correct |
|---|---|---|---|---|
| Status rules (`BookingStatusTransitions`, enums) | none | transition table, status sets | sets used by different services must agree | used everywhere below |
| Bookings (`BookingService`, `GuestBookingService`) | `bookings`, first row of `booking_status_history` | create (admin, quick, storefront), edit while pending | the admin create and the edit take no lock; repeated submissions | no double storefront request, no duplicate row, dates frozen once Booked |
| Booking lifecycle (`BookingLifecycleService`) | `bookings`, `booking_status_history` | transition; confirmation in a transaction of its own | two validations of a row read earlier; unlocked moves beside a locked confirmation | no double confirmation, moves follow the table, the history is a chain |
| Auto-complete job | advisory lock | nightly sweep | every replica runs it; one conflict fails the whole save | guests who overstay are eventually checked out |
| Date blocks, admin (`DateBlockService`) | `date_blocks` | create, update, delete; no lock | full-row writes | a withdrawn block stays withdrawn |
| Date blocks, owner (`DateBlockApprovalService`) | `date_blocks`, and through calls `bookings`, `crm_leads` | request, approve or reject, withdraw | approval drops conflicting leads and bookings in one transaction | owner closures and guests' stays never share a night |
| CRM leads (`CrmLeadService`) | `crm_leads` | create, edit, status, convert | two locks in a conversion, none elsewhere | a lead becomes one booking; only a save that read it before reopens a settled lead |
| Availability and pricing (`UnitAvailabilityService`) | none | operational availability, price of a stay | inclusive blocks against half-open stays | part of the checks above |
| Units and clients (`UnitService`, `ClientService`) | `units`, `clients` (`deleted_at`, `is_active`) | edit, activate, soft-delete | full-row writes undo deletions; queries filter on `deleted_at` | seen through the calendar |
| Invoices (`InvoiceService`) | `invoices`, `invoice_items` | draft, adjust, issue, cancel, link, reissue | three locks and four unlocked writers | one active invoice; paid invoices are covered |
| Payments (`PaymentService`) | `payments` | create, mark paid, fail, cancel, link | check-then-write on sums | overpaid only when an invoice's total falls; received money stays on a live invoice |
| CRM assignments (`CrmAssignmentService`) | `crm_assignments`, and the parent's `assigned_admin_user_id` | assign, reassign, clear | one answer stored twice, no lock, other services save the same row | one active assignment; column and assignment agree |
| Reviews, moderation, summaries | `reviews`, `unit_review_summaries` | submit, edit, publish, reject, hide, recalculate | two saves in no transaction, no tokens | one moderation served alone puts the summary right |
| Unit of work, repositories, `AppDbContext` | the tracker, transactions | save, begin, lock, reload | tracked rows go stale | modelled under the stores |
| Browser session (`lib/api`, `lib/stores`, layouts, login pages, `middleware.ts`) and the tokens behind it (`AuthService`, `Program.cs`) | auth store, page, refresh queue; the cookie, shared by tabs; grants | send, refresh, queue, sign in and out, guard, redirect, reload | several 401s and one refresh; guards and effects that run again when the store changes; a request whose page has gone | a call settles once, nobody waits in vain, no page without a token |
| Query cache and hooks (`lib/hooks`, `query-provider.tsx`) | cached answers, fetches, mutations | mount, poll, refocus, invalidate, set, refetch | each hook lists by hand what its endpoint makes stale, in three key factories | the user sees his own finished writes; polled views catch up |
| Screens that sell a stay (booking page, conversion panel, quick-booking form; the storefront's widget and checkout) | the dates picked, answers on show, the step, requests sent | pick, continue, go back, submit, submit again, poll | dates, availability and price from different answers; the check-out day is no night; lost answers | only nights answered as free are sent, once; the price on the review is theirs; who is turned away wanted a taken night |
| Owner payouts | `owner_payouts` | snapshot, schedule, pay, cancel | unlocked full-row saves | not modelled, see section 6 |
| Notifications; roles and permissions; seasonal pricing | their tables | CRUD, dispatch | - | not modelled, see section 6 |
| Catalogue, reporting, HTTP layer, other pages | reference data; none | CRUD, queries, mapping | - | not modelled, see section 6 |

`PROJECT.json` lists the components with their sources, the hazards at the lines
where they bite, and the source lines each definition stands for.

## 2. Modules

Each part has a store, the operations of its services, a composition with the
properties, a module for TLC, and modules of proofs (in brackets).

```
StatusRules -> CalendarStore -> BookingOps -> DateBlockOps -> LeadOps -> AccountOps -> UnitCalendar
   NightClaims (refined by UnitCalendar)       UnitCalendar -> MCUnitCalendar -> MCCalendarScenes
   [UnitCalendarRows -> UnitCalendarPromises]

BillingStore -> PaymentOps -> InvoiceOps -> Billing -> MCBilling -> MCBillingScenes -> MCBackOffice
   Assignments, Reviews (instances in MCBackOffice)
   [BillingProofs]  [AssignmentsProofs -> BackOfficeProofs]

SessionState -> ApiClient -> PortalGuards -> WebSession -> MCWebSession
   ApiCalls (refined by WebSession)            [WebSessionProofs]

ConsoleKeys -> ConsoleQueries -> ConsoleHooks -> PortalHooks -> MCConsole
   QueryCache (extended by MCConsole)          [QueryCacheFresh]

StayCalendar -> StayForms -> MCScreens -> MCStays (with an instance of MCUnitCalendar)
             -> StorefrontStay (instance in MCScreens)
   [ScreensProofs]
```

### The calendar

* **StatusRules** - the status vocabularies, the two transition tables and the
  status sets the availability checks use.
* **CalendarStore** - the tables, the locks and the sessions.  `bookings`,
  `history`, `blocks`, `leads`, `unit`, `deletedClients` are the committed rows;
  `lock[u]`, `leadLock[l]`, `sweepLock` the advisory locks; `pc[w]`, `ask[w]`,
  `tracked[w]` where worker `w`'s request stands, its arguments and the rows in
  its change tracker, as read.  `version` is the row's `xmin`.  `XminMatches` and
  `SaveStatus` are the save of bookings; `Finish` ends a request and releases its
  locks, `Abort` is any exception.
* **BookingOps**, **DateBlockOps**, **LeadOps**, **AccountOps** - one action per step of
  a handler.  A step is what runs between two points at which other requests can
  change something the handler still relies on: a read with its checks is one
  step (`...Read`, `...Check`), taking a lock with the first read under it another
  (`...Lock`), the save with everything it writes the last (`...Save`, `...Commit`).
* **UnitCalendar** - the composition: `Request` starts an operation, `Proceed` goes on
  with it, `Surroundings` are the clock, the duplicate window, deletions.  `Traffic`
  selects the operations of an instance; the theorems hold for every `Traffic`
  unless they say otherwise.
* **NightClaims** - the abstract specification: a night of a unit is promised to one
  holder at a time, claimed in one step and never moved.  `UnitCalendar!NightsPromisedOnce`
  is its instance with the nights of guaranteed stays and of owner blocks.

### The finance services

* **BillingStore** - one booking's `invoices`, `items` (the sum of an invoice's lines),
  `payments`, three advisory locks, the row lock of an UPDATE in an open
  transaction, and the sessions.  Neither table has a concurrency token, so `seen[w]`
  holds the changed rows a save writes back whole (`Save`).
* **PaymentOps** - `PaymentService`: `PayRead`, `PayLock`, `PayInsert` are `CreateAsync`; the
  others read, check and go to `Save`.
* **InvoiceOps** - `InvoiceService`, and the invoice `ConfirmInternalAsync` creates: the draft
  and issue run in the confirmation's transaction and are committed by `ConfirmSave`.
  Two details are modelled as Entity Framework does them: a sum queried before
  `SaveChangesAsync` does not see rows changed in memory (`IssueRead`, `ConfirmIssue`),
  and `AddAsync` puts a new line into the tracked invoice's collection at once, so
  `AdjustRead` counts it twice.
* **Billing** - the composition and its properties.

### The back office

* **Assignments** - the answer to "who works on this" is the active row of
  `crm_assignments` and the parent's `assigned_admin_user_id`.  `Assign` and `Clear` read the
  parent; `AlreadyAssigned`, `FindOther` and `Deactivate` read the active rows, in the order
  of the code; `AssignSave` and `ClearSave` write both in one `SaveChangesAsync`.  `Edit` and
  `Move` are the other services' saves of a parent: an edit sets the column, a status
  change writes it back as it was read.  `TokenMatches` holds bookings to their `xmin`;
  leads have none.  An edit that leaves the assignee alone is `Edit` with the value
  it finds.  `synced` is a history variable: the assignment service, not an edit, set the
  column last.  Assigning the administrator who is already assigned returns before
  the column is written, so it does not repair a column that an edit has changed.
* **Reviews** - one unit's reviews and its summary.  A moderation is three steps: `Flush`
  saves the status, `Recompute` queries the published reviews, `Upsert` saves the
  summary; `Abort` between any two is the failure that nothing rolls back.  The
  summary is modelled by the set it was computed from, of which count and average
  are functions.  `met` and `settled` are history variables of the property.

### The browser session

* **SessionState** - one tab: the auth store, the page and the navigation under way, the
  API calls, the refresh queue; the refresh cookie, which the browser's tabs share;
  and the grants the server accepts.  A run of JavaScript up to its next await is one
  step.  `due` stands for a React effect that has to run, `StoreWatched` for its
  dependency on the store.
* **ApiClient** - the axios instance: `Send`, `Serve`, and for a call's first 401 `Enqueue` or
  `Lead`; `RefreshSucceeds` and `RefreshFails` release everyone who waits.
* **PortalGuards** - signing in and out, the effects of the layouts and the login pages,
  the guards' own refreshes (which do not go through the queue), the router and the
  middleware.  `Arrive` is a client-side navigation, `Load` a page load, which keeps only
  the persisted account type.
* **WebSession** - the composition.  A behaviour begins with a first visit or with a
  browser that returns with the cookie of an earlier session.
* **ApiCalls** - the abstract specification: every call settles exactly once, with an
  answer or an error, unless the page is unloaded.  `CallsSettleOnce` is its instance, with
  liveness.

### The query cache

* **ConsoleKeys**, **ConsoleQueries**, **ConsoleHooks**, **PortalHooks** - tables translated from the
  hook files: every key of the three factories, what each query reads and whether it
  polls, and for each mutation hook the rows its endpoint writes and the batches of
  cache operations its `onSuccess` performs.  `Covers` is the client library's partial
  match of keys.  `TabEffect` and `TabChanges` turn the tables into what every hook does to
  every query and what it ought to.
* **QueryCache** - TanStack Query under this application's defaults.  Entries of different
  queries never meet, so a behaviour follows one query, chosen at the start, with
  everything that can happen to it.  Fetches are asked, served and delivered, mutations
  sent, committed and answered, each at a moment of its own.  `owed` is a history
  variable: the newest of the tab's own finished writes that the view answers for.
* **MCConsole** - the tables put into the cache, and the pairs of hook and query the code
  leaves out: `LeftToThePoll` (a polled view is left to its interval) and `Forgotten` (no
  poll repairs it: the booking's payments after a confirmation, an issue or a reissue;
  the bookings list and the availability after a conversion; after the approval of a
  closure the unit's blocks, and the bookings, histories and leads it drops; the
  directory of administrators after a new one; the owner's summary after a payout).  The lists are exact in one direction: every pair *not* listed is
  checked.

### The screens that sell a stay

* **StayCalendar** - the other side of the network as a screen meets it: `nights` of one
  unit, the questions (`Firm` and `Unavailable` for the availability check, `Listed` for the
  list of available units), and the requests of a visit.  `Submit` sends one, `Judge` is
  the server's verdict (`Accepts`, and `Repeats` for the duplicate window), `GiveUp` a lost
  answer; `OthersMove` is everybody else.  What the services do inside an answer is
  UnitCalendar's subject; here a verdict is one step, which the unit's lock justifies.
  A night has one state, and a visit's own nights are not moved by others.
* **StayForms** - the platform's forms over the query cache.  An answer belongs to a key, and
  the three ways to ask about the same stay are three keys: `PanelKey` up to the check-out
  day, `StepKey` up to the last night, `WindowKey` for the calendar.  `Continue`, `FormOpen` and
  `BookNow` are the gates, `Pricing` the effect that hands the price to the page.
* **StorefrontStay** - the storefront has no cache: `Poll`, `PollAnswered` and `PollArrives` are
  three steps per slot, so answers overtake each other.  `Press`, `CheckAnswered`, and
  `TurnAway` or `Send` are the checkout's `submitBooking`.
* **MCScreens** - both together, a visit to one of them; `MCSpec` adds the fairness of the
  storefront's polls.
* **MCStays** - a visit, or the days after one: its *night* scene is UnitCalendar with
  guests who overstay, beside a form that nobody uses.

### Abstractions

Prices, guest counts, names, notes, numbering, dates of records, a client's
`is_active` and an admin's portfolio are data no property reads, and are left out
with the checks on them (they can only refuse a request, which `Abort` or not
asking covers).  Several queries that make up one check are read in one step, and
a lock is acquired together with the first read under it.  Calendar days are
`0..Horizon`; leads have both dates or none, and leads of unknown callers are told
apart by nothing.  The invoice number's own lock is always taken last and only
orders numbers.  In the calendar, a failing invoice at confirmation is `Abort`.
A lead's assignment is one more unlocked full-row write of the lead, like those in
`LeadOps`, and is modelled in Assignments only.  Two history fields are added: `origin` (which endpoint inserted a booking) and
`owned` (a block the owner requested and no admin edited).
In the browser, return URLs, splash screens and the refresh of the public booking
page are left out, and so are the callbacks of a `mutate` whose component has gone.
In StayForms a cache entry that nobody observes is forgotten at once instead of after
ten minutes; an entry that is found again is an old answer, and every answer on
show may be one.  A quick booking's unit is picked together with its dates.

## 3. Runs

`tlc -config <run>.cfg <module>`.  A run with *scenes* chooses one at the start: scenes
share the variables and the properties, and nothing else.

| Run | Module | Instance | Shows |
|---|---|---|---|
| Calendar | MCCalendarScenes | 2 workers, days 0..2; scenes *desk* (two bookings created, edited, moved, confirmed), *shop* (quick and storefront submissions of two guests), *owner* (owner blocks beside a qualified stay), *convert* (one lead for two units beside owner blocks), *pipeline* (one lead moved, edited, dropped by a closure and converted), *office* (leads, admin and owner blocks, conversion, accounts, one request at a time) (1.5 M states) | `TypeOK`, `NoDoubleConfirmed`, `StatusMovesAllowed`, `DatesFrozenOnceQualified`, `HistoryChain`, `NoStorefrontDoubleRequest`, `DuplicateSubmitOnce`, `OwnerBlockKeepsGuests`, `OwnerBlocksDisjoint`, `WithdrawnStaysWithdrawn`, `LeadConvertedOnce`, `OwnerBlockKeepsConverted`, `ReopenedByStaleSavesOnly`, the refinement `NightsPromisedOnce` |
| BackOffice | MCBackOffice | 2 workers; scenes *rush* (the finance operations that take locks, side by side), *till* (payments recorded and marked as paid, side by side), *books* (all finance operations, one request at a time), *desk* (assignments, edits and status changes of a booking and a lead), *reviews* (two reviews of a unit) (3.5 M states) | `TypeOK`, `OneActiveInvoice`, `RecordedWithinOwed`, `OverpaidByLoweringOnly`, `PaidInvoiceCovered`, `PaidMoneyOnActiveInvoice`, `OneActiveAssignment`, `AssigneeInSync`, `SummaryRepaired` |
| Session | WebSession | 2 calls, 2 account types, 2 grants, 1 guard refresh in flight | `TypeOK`, `QueueHasLeader`, `RetriedOnce`, the refinement `CallsSettleOnce`, `GuardedPageNeedsToken` |
| Console | MCConsole | every query with every hook, 2 mutations at once, 3 versions (1.6 M states) | `OwnWritesShown`, `PolledViewsCatchUp` |
| Stays | MCStays | scenes *visit* (days 1..3, 1 pick, 2 requests, 1 failed read, 1 change by others, 2 polls at once; the platform's three forms and the storefront as a guest and as a client) and *night* (2 replicas, days 0..3, two confirmed stays, moves, sweeps, the clock) (1.5 M states) | `ScreensTypeOK`, `OnlyFreeNightsSent`, `ReviewedIsThisStay`, `RefusalsJustified`, `NightsRequestedOnce`, `OfferedNightsGranted`; `CalendarSettles` and `OverdueStaysEnd` under fairness |
| StaleConversion | MCUnitCalendar | a conversion beside a move to Booked | finding 1 |
| ClientRevived | MCUnitCalendar | a client edit beside the client's deletion | finding 2 |
| FullDeposit | MCBilling | 1 worker; pay, mark paid, draft, issue | finding 3 |
| InvoiceRevived | MCBilling | 2 workers; draft, issue, cancel | finding 4 |
| SignedOut | MCWebSession | 1 administrator, sign-out while the API cannot be reached | finding 5 |
| LoginLoop | WebSession | 1 call, an owner and a client | finding 6 |
| Overpaid | MCBilling | 1 worker; pay, mark paid, draft, adjust; lines of 1 and 3 | finding 7 |

**Bounds.** Two workers, because every race here is between a check and one other
writer; the proofs remove this bound for the properties they cover.  Two
bookings of one unit are what an overlap needs; three days give stays that
overlap, touch and are disjoint, and `Horizon` 3 in Stays lets a guest overstay.
`MaxVersion` (5 or 6) lets a booking be created, walked to Confirmed (version 4) and
checked in and out; `MaxEdited` bounds edits.  These bounds sit in the guards of the
requests, never in the steps that follow.  In *pipeline* the lead has one stay on one unit:
there `LeadConvertedOnce` holds although a stale save can reopen the lead, because its own
booking refuses the second conversion; with the lead's dates or unit edited in between
a second booking is possible, which is why `ConvertedOnce` is proved under an assumption.  In the finance scenes three invoices
allow a draft, a reissue and a new draft; amounts 1 and 2 against a price of 2 give
partial, exact and excessive payments; `MaxLines` bounds an invoice's lines, and manual
lines of two amounts, 0 and 1, are the least with which the double count of the last
line lowers a total: a line smaller than the one before it.  `MaxSaves`
bounds the saves of a booking in the *desk* scene at three, one more than the two
that race.  Two grants are what a refresh, or a sign-in in another tab, needs after
the first session; two calls are a leader and one that waits.  In Console three
versions let another session write between two writes of the tab.
Three days are the least in which a stay has a night that is neither its first nor
the one after it, and in which asking one day too far or too short shows.  The
calendar starts with at most one night taken; one change by others and the visit's
own requests give the rest.  One pick changes the dates after an answer, since the
booking page can be opened at its address with any dates; two requests are one and its
repetition; two polls at once are what overtaking needs.
`CHECK_DEADLOCK FALSE` stands where a run really ends (all keys or grants used and
every request refused).  Symmetry permutes keys, workers and clients; it is off in
Session, Console and Stays, which check liveness.  In BackOffice sets that no two
scenes use at once share their members, which keeps the symmetry group small.  The
*desk*, *owner*, *convert*, *pipeline* and *night* scenes start from later states that the
services reach: qualified rows, open leads with dates or leads walked up to Booked, and
disjoint confirmed stays with the history that led there.  The *till* starts without an
invoice, or with the booking's first, drafted or issued.

**Mutants.** Every property has one: a lock not taken, a token not compared, a check
dropped, a status set with a hole, a queue not emptied, a time-out missing, a key not
invalidated, a query made too early.  They stand beside the definitions they change.
Dropping only the confirmation's lock leaves `NoDoubleConfirmed` true: the overlap
check counts *Booked* bookings as firm, so two overlapping Booked rows block each
other's confirmation until one is dropped by hand.  What the lock keeps out is an
owner's block, and it is `OwnerBlockKeepsGuests` that fails.

**Fairness.**

* *night* scene of Stays: `WF(Proceed \/ Abort)` per worker: a request in progress ends, by going on
  or by an exception or time-out; nothing forces a *successful* end.  `SF` of the sweep's
  read and of its commit: the job wakes every night on every replica, retries the
  night after a failure, and the conflicts that fail it come from admins moving the
  same bookings, which the transition table allows finitely often.  `WF(NextDay)`: days
  pass.  No client request is fair.
* WebSession: `WF` of each call's step (a request is answered or fails: the client has a
  time-out), of effects, navigations and the end of a sign-out; `SF` of a guard's answer,
  which a reload may take away and the next guard asks for again.  What the user, the
  other tabs and expiry do is not fair.  The refresh request itself has no time-out in the
  code; that it is answered or fails is an assumption, listed as a hazard.
* QueryCache: `WF(Poll)`: the interval fires in a window in the foreground.  `SF` of
  `Serve` and `Deliver`: of the fetches asked again and again, some get through, that is,
  the network does not fail for ever.  Mutations are not fair.
* MCScreens: `WF` of each of the storefront's polls, of its answer and of its arrival: the
  interval fires every minute and a poll under way ends; failures are bounded.  The
  visitor, the server's verdicts and other people are not fair, and nothing on the
  platform's forms is.

**Findings.**

1. *StaleConversion* - `CrmLeadService.cs:298-301` says a range that went stale is
   rejected atomically under the unit's lock.  A move to Booked takes no lock, so a
   conversion can still book over it.
2. *ClientRevived* - a client edit writes `deleted_at` back as it was read.  A deletion
   in between, which freed the client's nights, is undone after someone else was
   confirmed for them: two confirmed stays overlap (decision 0007, line 38).
3. *FullDeposit* - issuing an invoice links the unlinked payments and then asks the
   database for the sum of linked paid ones, before the links are saved.  An invoice
   that is fully paid by a deposit stays *issued*, and no operation but a reissue
   repairs it.
4. *InvoiceRevived* - an issue that overlaps the draft's cancellation and the creation of
   the next draft leaves two active invoices (decision 0008, line 89).
5. *SignedOut* - `useLogout.ts:22` clears the local state "fail-safe" when the sign-out
   request fails.  The cookie is still there, the page that is still mounted sees its
   token gone, refreshes with the cookie, and the tab is signed in again.
6. *LoginLoop* - `middleware.ts:39-41` leaves the redirect of signed-in users to the login
   pages.  The owners' login page sends a client to the owners' dashboard, whose layout
   sends him back to the login page, for ever.
7. *Overpaid* - `AddManualAdjustmentAsync` recalculates an invoice's total over a collection
   into which `AddAsync` has already put the new line, and adds that line once more
   (`InvoiceService.cs:205`, under the comment "Recalculate totals including new item").  The
   next line corrects this and so may lower the total below what was received in the
   meantime, although `PaymentService.cs:196` and `:278` say that overpayments are not allowed:
   one request at a time, a draft of 1 with a line of 3 has a total of 7, payments of 7
   are accepted, and a line of 1 makes the total 6.

Met on the way and listed as hazards: a link endpoint that overlaps a payment's
cancellation revives the payment (with failures and cancellations of payments in the
traffic, the money committed exceeds what is owed with two workers); a lead
reopened by a stale save (`ReopenedByStaleSavesOnly`) and given other dates can be converted
again; decision 0008, section 4 says a payment
of a draft invoice cannot be marked paid, while the code and its comment allow it; two
overlapping reassignments of a *lead* leave two active rows.

Met in the browser, read in the code and not made a run of their own:

* The owner's payout summary is not invalidated when a payout is marked paid, which
  `docs/Wave_4_Finance_Owners_Clients.md:456-459` asks for: its key starts with `owners`, the
  dialog's with `ownerPayouts`.  `Forgotten` in MCConsole lists it and its like.
* Approving a closure drops the leads and moves the bookings that conflict with it, with
  their histories (`DateBlockApprovalService.cs:258-286`); `useDateBlockApprovals.ts:35-48`
  invalidates blocks and approvals only.  Bookings, their histories, leads and the count of
  open leads on show stay as they were until the next refetch (`Forgotten`).
* `business_req.md:457-458` says that requested days become a soft hold and are shown to
  nobody else as available.  The platform's panel and first step read `isAvailable` only
  (`BookingStep1Details.tsx:97`), which soft holds do not affect
  (`UnitAvailabilityService.cs:98-122`), and the request is then rejected for the hold
  (`BookingService.cs:190-198`).  This is the exception in `OfferedNightsGranted`; the storefront
  reads `heldDates` and needs none.
* `UnitAvailabilityService.cs:37-38` says every caller passes the last night.  The conversion
  panel passes the check-out day (`ConvertToBookingPanel.tsx:100`; `PanelKey`), and refuses a
  lead whose stay ends on the day another one begins.
* `UnitService.cs:182` says its predicate mirrors the availability service's; the query at
  lines 199-204 lacks the filter on `deleted_at` (`Listed`), so a deleted block hides the unit
  from the list for those dates.
* Decision 0006 prices up to the day before `check_out_date`; the client's pages price a
  lead up to the check-out day (`ClientBookingsController.cs:291-295`, `337-341`), so its amount
  changes with the conversion.
* Continue on the booking page does not wait for the price, and nobody is left to receive
  it afterwards: the review says that it is loading (`app/units/[id]/book/page.tsx:194-205`;
  `reviewed = None` on the review page) until the guest goes back.
* After a lost answer the storefront's checkout finds the visitor's own hold and says that
  the dates are gone (`checkout/page.tsx:141-157`); the duplicate window of the server
  (`BookingService.cs:322-339`) would have answered with the booking already made.

## 4. Proofs

All for arbitrary sets of units, clients, keys and workers and arbitrary bounds;
the assumptions are those the stores name: bounds and amounts are naturals, `None` is
no key and no row, no booking and block share a key (`KeysAssumption`; they only name
the holders of nights), and no lead has the name of an endpoint (`LeadIdsAssumption`;
`origin` holds either).

**The calendar** (UnitCalendarRows, then UnitCalendarPromises)

* `TypeCorrect`: `TypeOK` alone is not inductive, because a step writes what an earlier
  step put into the arguments.  `AskFits` says which arguments a request carries at each
  step, `ConvertedExists` that a lead under conversion exists.
* `MovesAllowed`, `DatesFrozen`, `HistoryUnbroken`: what the token is for.
  `Snapshots` says a tracked row whose version is the committed one shows the
  committed status and dates; `Plans` says each pending write was validated against
  the tracked row.  It follows (`RowChange`) that a step changes a booking in one of four
  ways, and the three theorems read off these.
* `NeverDoubleConfirmed`, assuming `"profiles"` is not in the traffic:
  a worker past the re-check of a confirmation holds the unit's lock (`Held`), so no
  other stay of the unit becomes guaranteed until it commits and the check stays
  true (`Checked`).  `Secured` is `Guaranteed` without the unit's liveness, which a stale unit
  edit can restore; a client's cannot be restored without profile edits
  (`NoClientEdits`), and finding 2 shows that the assumption is needed.
* What the unit's lock is for.  Every argument has the same
  shape: the worker in the locked part of a transaction holds its unit (`UnitHeld`), so
  there is one such worker (`SoleHolder`); what it checked stays true until it commits,
  because everybody else who would place something on the unit needs the lock
  (`BlockChange`, `NewlyFirm`, `NewlyOwned`, `NewBooking`); and those who write without the lock can
  only take a promise away.  `OwnerClosuresDisjoint` and `SubmittedOnce` hold for any traffic.
  `ClosuresKeepGuests`, `ClosuresKeepConverted` and `RequestedOnce` assume that `"profiles"` is not in
  the traffic: a client edit can undo a deletion and bring a stay back that the check
  did not count (finding 2).  `WithdrawnForGood` assumes that `"blockedit"` is not: the admin's
  edit writes a row back that it read before the withdrawal.
* `PromisesImplemented` is the refinement of NightClaims, assuming that
  neither `"profiles"` nor `"accounts"` is in the traffic: a deleted unit or client that a stale
  edit brings back would claim nights in a step that checks nothing.  A confirmation's
  commit and the save of an owner's closure are the claims (`GuestClaimStep`,
  `OwnerClaimStep`: the nights are free by the theorems above); every other step gives up
  all nights of some holders or changes no promise (`OtherStep`), since neither the dates
  of a guaranteed stay nor those of a closure are ever edited.
* `ConvertedOnce`: the inductive invariant `LeadInv` says that a lead somebody has booked for
  is settled (`BookedLeadsSettled`) and that a conversion past its read holds the lead's lock
  and finds nothing booked for it (`LeadHeld`), so the second of two conversions reads a
  settled lead and stops.  An edit or status change that read the lead before the
  conversion puts it back into the pipeline and breaks this; the theorem therefore
  assumes that requests are served in turn (`OneAtATime`) or that these handlers are not in
  the traffic (`LeadsLeftAlone`).  The latter excludes the creation of leads as well, so
  `LeadSpec` starts with any leads, of any status, and nothing booked; it contains `Spec`'s own
  start.
* `ReopenedByStaleSaves`, for any number of workers and all traffic: lead edits and status
  changes take no lock and do reopen settled leads, but only by a save that read the
  lead before it was settled.  `OpenReads` says what a request that will write a lead's
  status read of it: a drop read an open lead, a conversion a booked one, a change of
  status one that the table lets change so.  If it read what the lead still is, the
  table leads nowhere from there.

**The finance services** (BillingProofs)

* `BillingTypeCorrect`: `Fits` says a reissue at its last step tracks a real
  invoice row and a confirmation or reissue carries a status to write.
* `OneInvoice`, for any number of workers, assuming `OrderlyTraffic`: a cancellation overlaps with no
  other operation that saves an invoice's row, and a reissue only with manual lines.  Each
  of the six pairs that this leaves out breaks the property in small instances (finding 4
  is one of them).  A worker about to insert a draft holds the draft lock and no
  invoice is active (`Drafting`); a worker in a reissue holds that invoice's lock and it is
  still active (`Reissuing`); the two exclude each other, and a reissue replaces the only
  active invoice.  The unlocked writers save whole rows, possibly stale ones: what they
  are about to save may replace the committed row at any moment, because it ends the
  invoice or because the invoice is active anyway (`Harmless`, `Tracking`).
* `RecordsWithinOwed`, `NeverOverpaid`, for any number of workers, assuming `PricedTraffic`:
  payments are neither failed nor cancelled and no manual line is added.  A stale save can
  bring a failed or cancelled payment back, and a line is added without the payment
  lock; either way what a payment was compared with is no longer so when it is
  saved.  `RecordedInv` says that all payments together fit within the price, that a worker
  about to record one holds the payment lock and it still fits (`Paying`), and that every
  tracked row has the amount of the committed one, whatever else is stale.
* `MoneyStaysOnActiveInvoice`, `PaidStaysCovered`, `OverpaidByLoweringInTurn`, for requests served
  in turn, of every kind and in any order, with manual lines of any amounts.  The
  properties hold between requests and are not enough for the next one: `BookInv` adds
  that what is received and linked to nothing fits within the price, so that a
  cancellation leaves no overpaid booking.  `Serving` says that a request about to save
  leaves such books (`Leaves`), in which money newly received fits (`Within`); so a step
  either keeps what is received within what is owed, or lowers a total, or leaves the
  booking as overpaid as it was (`Excused`).  That totals do fall is finding 7.
* What the services add up is a fold over a set.  Induction over data is out of the
  provers' reach, so a fold is compared with the number of elements of a set of pairs
  (`SumCounts`), to which the library's theorems on finite sets apply.

**The back office** (AssignmentsProofs, BackOfficeProofs)

* `OneAssignee`, `AssigneeAgrees`, assuming `NoneIsNoRow` (`None` is not an
  assignment), which the BackOffice run evaluates for its instance.  The inductive
  invariant `DeskInv` says of a request about to save that the rows it ends are its
  parent's (`OwnRows`), and that while the token it has read is still the booking's, so
  is the rest of what it has read: the active rows are among those it ends, and a
  status change writes the committed assignee back (`Current`).  A save that passes the
  token then ends every active row before it adds one; a save that another one
  overtook is refused.  The properties are about bookings: without the token the
  argument, and for leads the property, fails.
* `BookingKeepsOneAssignee`, `BookingShowsItsAssignee` carry these over to the specification the
  run checks: the composition with money and reviews takes no step on the desk's tables
  but those of Assignments (`DeskImplemented`).
* `ModerationRepairsSummary`: a moderation that has met no other one is the only one under way
  (`LonelyRequests`), so what it read when it recomputed is what the table still holds
  (`FreshReads`); and while the last moderation counts as settled, the summary is right
  unless a moderation is between its two saves (`SummaryRight`).

**The browser** (WebSessionProofs, QueryCacheFresh, ScreensProofs)

* `SessionTypeCorrect`, `NobodyWaitsInVain`, `NoRetryLoop`: `TypeOK` needs
  `TokenNamed` (a tab with a token knows whose it is), or a login page could redirect
  to nowhere.  `QueueInv` adds that calls in the queue and its leader are marked as
  retried (`HeldMarked`), so a released call is never released again.  For any number of
  calls, accounts and grants.
* `CacheTypeCorrect`, `FinishedWritesShown`: for any tables of queries and
  hooks in which every hook touches what it changes and is not known to leave alone
  (`EveryWriteHandled`), and any number of mutations at once.  `CacheInv` relates three
  ages: an answer under way was read after every write the view answers for
  (`AnswerOK`), and a view at rest shows them or is marked for the next mount (`ViewOK`).
  That this code's tables fulfil `EveryWriteHandled` is what the Console run checks.
* `ScreensHoldTypes`, `SendsFreeNightsOnly`, `ReviewShowsItsPrice`, `TurnsAwayWhatIsTaken`,
  `RequestsNightsOnce`, `GrantsWhatIsOffered`: all properties of a visit (`MCSpec`) but liveness, for any
  number of days, requests, polls, failures and changes by others, the forms and the
  storefront in one invariant (`ScreenInv`).  A stay is sent several steps after it was
  picked or answered for, so `FormView` and `ShopView` say what each page knows about its
  stay: past the first step it has nights and the price handed on is that of its dates.
  The verdict is the server's, on the nights of the moment.  While nobody has moved a
  night, and nothing of the visit is in the database that the screen would see
  (`Steady`), every answer a screen holds is the present one for its key.  That makes an
  offer good (`Granted` carries it to the request that is judged), and makes a refusal on
  the screen one that the server would give too: the night for which it turns a visitor
  away is one of the stay, and taken.

**Only model-checked.**  Liveness and what rests on fairness (`OverdueStaysEnd`,
`GuardedPageNeedsToken`, `PolledViewsCatchUp`, `CalendarSettles`), and the refinement of ApiCalls, which
states liveness: ENABLED and liveness are out of the provers' reach.  Everything else the
passing runs check is stated by a theorem.  Where a theorem restricts the traffic or serves
requests in turn, so does the scene that checks the property, or it checks less; more is
checked than proved only in the *till*, where payments are recorded and marked as paid
side by side and paid invoices stay covered.  In the *rush* scene no payment is marked as
paid.

## 5. What could come next

* The properties of Assignments for leads: without a token only requests served in turn keep
  them; what remains true of overlapping ones would take the form of `ReopenedByStaleSaves`.
* `RecordsWithinOwed` with failures and cancellations of payments and none of the link
  endpoints, whose stale saves are what brings such payments back: a weaker assumption
  than `PricedTraffic`.
* The properties of paid money with two workers: which pairs of writers break them has been
  separated for `OneInvoice` only (`OrderlyTraffic`).
* The safety half of ApiCalls as a refinement of its own.
* A failure model of the refresh request without a time-out.
* The owner's closing form and the deposit desk (a payment created and then not marked
  paid), the two remaining forms with more than one request.
* `CalculatePricingAsync` and the seasonal rules as operators against a reference.

## 6. Not modelled

* **Owner payouts** - guarded status changes of single rows.  The unlocked full-row saves
  can undo each other, and no comment or decision promises that they do not; they are a
  listed hazard without a property.
* **Notifications** - appended after the commits of the modelled services; dispatch is a
  stub that marks rows, which nothing modelled reads.
* **Roles, permissions, seasonal pricing, catalogue** - reference data, read once per
  request; edits of one row.
* **Notes and review replies** - rows that nothing else reads.
* **Reporting, controllers, migrations** - no state of their own.
* **In the screens that sell a stay**: guest counts and capacities; the form for a lead, which has
  the quick form's gate before another endpoint; the lead that the booking page sends for
  a visitor whose session ended in its last step; leaving a page while a request is
  under way; changes of prices.
* **Pages and components** other than those named above, and the demo's API client, which
  shares one refresh promise.  Most lines of TypeScript and
  JavaScript in the repository are layout, or tooling kept beside the code (the skills
  under `.github`): they hold no protocol, and the share of those lines that the map
  covers is accordingly small.  The services in C# are where the platform's rules are,
  and most of them are covered.
* **Queries nothing writes to** (reports, dashboards, the shop's catalogue).
