--------------------------- MODULE ConsoleQueries ---------------------------
(***************************************************************************)
(* The useQuery hooks of the portals, one table per hook file.  "reads"    *)
(* names the rows whose state the answer shows (names joined in from other *)
(* tables are left out), "polled" says that the hook sets refetchInterval. *)
(***************************************************************************)
EXTENDS ConsoleKeys, TLC

Read(key, reads)   == [key |-> key, reads |-> reads, polled |-> FALSE]
Polled(key, reads) == [Read(key, reads) EXCEPT !.polled = TRUE]

BookingQueries ==
  LET k == Keys.bookings IN
  [ bookingsList       |-> Read(k.list, {"booking", "newBooking", "assignee"}),
    bookingDetail      |-> Read(k.detail, {"booking", "assignee"}),
    statusHistory      |-> Read(k.statusHistory, {"history"}),
    bookingNotes       |-> Read(k.notes, {"bookingNote"}),
    bookingAssignment  |-> Read(k.assignment, {"assignee"}),
    bookingPayments    |-> Read(k.payments, {"payment", "paymentLink"}) ]

\* Mutant: the snapshot of a booking's money is not polled.
FinanceQueriesUnpolled ==
  [ financeSnapshot |->
      Read(Keys.bookings.financeSnapshot, {"paid", "invoice", "payout"}),
    invoiceDetail  |-> Polled(FinanceKeys.invoices.detail, {"invoice"}),
    invoiceBalance |-> Polled(FinanceKeys.invoices.balance, {"invoice", "paid"}),
    paymentsList   |->
      Polled(FinanceKeys.payments.list, {"payment", "paymentLink"}),
    paymentsOfBooking |->
      Polled(FinanceKeys.payments.ofBooking, {"payment", "paymentLink"}) ]

FinanceQueries ==
  LET k == FinanceKeys IN
  [ financeSnapshot |->
      Polled(Keys.bookings.financeSnapshot, {"paid", "invoice", "payout"}),
    invoiceDetail   |-> Polled(k.invoices.detail, {"invoice"}),
    invoiceBalance  |-> Polled(k.invoices.balance, {"invoice", "paid"}),
    paymentsList    |-> Polled(k.payments.list, {"payment", "paymentLink"}),
    paymentsOfBooking |->
      Polled(k.payments.ofBooking, {"payment", "paymentLink"}) ]

LeadQueries ==
  LET k == Keys.crm IN
  [ leadsPipeline  |-> Polled(k.leads, {"lead", "newLead", "leadAssignee"}),
    openLeadsCount |-> Read(k.openCount, {"lead", "newLead"}),
    leadDetail     |-> Read(k.leadDetail, {"lead", "leadAssignee"}),
    leadNotes      |-> Read(k.leadNotes, {"leadNote"}),
    leadAssignment |-> Read(k.leadAssignment, {"leadAssignee"}) ]

UnitQueries ==
  LET k == OldKeys.units IN
  [ unitsList       |-> Read(k.list, {"unit", "newUnit"}),
    unitDetail      |-> Read(k.detail, {"unit", "image", "unitAmenity"}),
    unitImages      |-> Read(k.images, {"image"}),
    unitAmenities   |-> Read(k.amenities, {"unitAmenity"}),
    unitDateBlocks  |-> Read(k.dateBlocks, {"block"}),
    seasonalPricing |-> Read(k.seasonalPricing, {"price"}),
    availability    |-> Read(k.availability, {"calendar"}) ]

ApprovalQueries ==
  \* each request is listed with the number of soft holds it conflicts with
  [ approvals |->
      Polled(PortalKeys.dateBlockApprovals.list, {"request", "softHold"}) ]

PayoutQueries ==
  [ ownerPayouts  |-> Read(PayoutKeys.byOwner, {"payout"}),
    payoutSummary |-> Read(PayoutKeys.summary, {"payout"}) ]

OwnerQueries ==
  LET k == OldKeys.owners IN
  [ ownersList       |-> Read(k.list, {"owner", "newOwner"}),
    ownerDetail      |-> Read(k.detail, {"owner"}),
    ownerFinancialSummary |-> Read(k.payoutSummary, {"payout"}) ]

ReviewQueries ==
  LET k == OldKeys.reviews IN
  [ reviewsList   |-> Read(k.moderation, {"review"}),
    reviewHistory |-> Read(k.statusHistory, {"review"}) ]

AdminQueries ==
  LET u == PeopleKeys.adminUsers
      s == PeopleKeys.security
  IN  [ adminUsers     |-> Read(u.list, {"admin", "newAdmin", "adminRole"}),
        adminDirectory |-> Read(u.directory, {"admin", "newAdmin", "adminRole"}),
        roleTemplates  |-> Read(s.roles, {"role", "newRole"}),
        userOverrides  |-> Read(s.userOverrides, {"override"}) ]

ClientQueries ==
  LET k == PeopleKeys.clients IN
  [ clientsList  |-> Read(k.list, {"client", "newClient"}),
    clientDetail |-> Read(k.detail, {"client"}) ]

ProjectQueries ==
  [ projectsList |-> Read(OldKeys.projects.listAll, {"project", "newProject"}),
    amenitiesList |-> Read(<<"amenities">>, {"amenity"}) ]

NotificationQueries ==
  LET k == PortalKeys.notifications IN
  [ inbox        |-> Read(k.adminInbox, {"inbox"}),
    inboxSummary |-> Polled(k.adminInboxSummary, {"inbox"}),
    preferences  |-> Read(k.adminPreferences, {"preference"}) ]

OwnerPortalQueries ==
  LET k == PortalKeys.ownerPortal IN
  [ ownerDateBlocks   |-> Read(k.dateBlocks, {"ownerBlock"}),
    ownerAvailability |-> Polled(k.unitAvailability, {"ownerBlock"}) ]

OwnerReviewQueries ==
  LET k == OldKeys.reviews IN
  [ unitReviews       |-> Read(k.publicByUnit, {"reply"}),
    unitReviewSummary |-> Read(k.publicSummary, {"publishedReview"}) ]

OwnerInboxQueries ==
  LET k == PortalKeys.notifications IN
  [ ownerInbox        |-> Read(k.ownerInbox, {"ownerInbox"}),
    ownerInboxSummary |-> Polled(k.ownerInboxSummary, {"ownerInbox"}),
    ownerPreferences  |-> Read(k.ownerPreferences, {"ownerPreference"}) ]

ClientInboxQueries ==
  LET k == PortalKeys.notifications IN
  [ clientInbox        |-> Read(k.clientInbox, {"clientInbox"}),
    clientInboxSummary |-> Polled(k.clientInboxSummary, {"clientInbox"}),
    clientPreferences  |-> Read(k.clientPreferences, {"clientPreference"}) ]

AccountQueries ==
  [ clientProfile  |-> Read(ClientKeys.profile, {"profile"}),
    clientBookings |-> Read(ClientKeys.bookings.list, {"clientBooking"}),
    bookingReview  |-> Read(ClientKeys.reviews.byBooking, {"clientReview"}) ]

\* The shop's check of the range the guest is about to request.
ShopQueries ==
  [ stayAvailability |-> Read(OldKeys.units.stay, {"stay"}) ]

ConsoleQuery ==
  BookingQueries @@ FinanceQueries @@ LeadQueries @@ UnitQueries
    @@ ApprovalQueries @@ PayoutQueries @@ OwnerQueries @@ ReviewQueries
    @@ AdminQueries @@ ClientQueries @@ ProjectQueries
    @@ NotificationQueries @@ OwnerPortalQueries

PortalQuery ==
  OwnerReviewQueries @@ OwnerInboxQueries @@ ClientInboxQueries
    @@ AccountQueries @@ ShopQueries

TabQuery == ConsoleQuery @@ PortalQuery
=============================================================================
