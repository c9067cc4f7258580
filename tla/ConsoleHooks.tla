---------------------------- MODULE ConsoleHooks ----------------------------
(***************************************************************************)
(* The useMutation hooks of the console, one table per hook file.  A hook  *)
(* "writes" the rows its endpoint changes and, when the answer is back,    *)
(* "does" its onSuccess: a sequence of batches of cache operations.  Every *)
(* await starts a new batch, and so does the onSuccess a component hands   *)
(* to mutate on top of the hook's own.                                     *)
(***************************************************************************)
EXTENDS ConsoleQueries

Invalidate(key) == [op |-> "invalidate", key |-> key]
Refetch(key)    == [op |-> "refetch", key |-> key]
Set(key)        == [op |-> "set", key |-> key]

Invalidations(keys) == {Invalidate(k) : k \in keys}
Hook(writes, batches) == [writes |-> writes, does |-> batches]
Refreshing(writes, keys) == Hook(writes, <<Invalidations(keys)>>)

\* Both namespaces' prefixes of the unit's availability views.
UnitAvailability ==
  { <<"units", "u", "availability">>, <<"ownerPortal", "unitAvailability", "u">> }

-----------------------------------------------------------------------------
(* useBookings.ts *)

BookingHooks ==
  LET k == Keys.bookings
      moved == {"booking", "history", "calendar"}
      \* leaves or enters the soft holds an owner's request would release
      qualified == moved \cup {"softHold"}
      \* the answer is the booking's new detail
      Moved(writes, more) ==
        Hook(writes, <<{Set(k.detail)}
                       \cup Invalidations(UnitAvailability
                              \cup {k.lists, k.statusHistory} \cup more)>>)
  IN
  [ quickCreate |-> Refreshing({"newBooking", "calendar", "softHold"},
                               UnitAvailability \cup {k.all}),
    confirm     |-> Moved(moved \cup {"invoice", "paymentLink"},
                      {k.financeSnapshot, FinanceKeys.invoices.all}),
    booked      |-> Moved(qualified, {}),
    relevant    |-> Moved(qualified, {}),
    noAnswer    |-> Moved(qualified, {}),
    notRelevant |-> Moved(qualified, {}),
    cancel      |-> Moved(moved, {k.financeSnapshot}),
    complete    |-> Moved(moved, {k.financeSnapshot}),
    checkIn     |-> Moved(moved, {k.financeSnapshot}),
    leftEarly   |-> Moved(moved, {k.financeSnapshot}) ]

BookingPaymentHooks ==
  LET k == Keys.bookings
      views == {k.payments, FinanceKeys.payments.ofBooking,
                k.financeSnapshot, k.detail}
  IN
  [ createPayment        |-> Refreshing({"payment"}, views),
    bookingPaymentPaid   |-> Refreshing({"payment", "paid", "invoice"}, views),
    bookingPaymentFailed |-> Refreshing({"payment"}, views),
    bookingPaymentCancelled |-> Refreshing({"payment"}, views) ]

InvoiceHooks ==
  LET k == FinanceKeys.invoices
      ofBooking == {Keys.bookings.financeSnapshot, Keys.bookings.detail}
      views == {k.detail, k.balance} \cup ofBooking
  IN
  [ createDraft   |-> Refreshing({"invoice"}, {k.all} \cup ofBooking),
    issue         |-> Hook({"invoice", "paymentLink"},
                        <<{Set(k.detail)}
                          \cup Invalidations({k.balance, k.all} \cup ofBooking)>>),
    cancelInvoice |-> Refreshing({"invoice"}, views),
    \* awaits the first two in turn, then sets the new invoice's detail,
    \* which is another query than the old invoice's
    reissue       |-> Hook({"invoice", "paymentLink"},
                        << {Invalidate(k.detail)}, {Invalidate(k.balance)},
                           Invalidations({k.all, FinanceKeys.payments.all}
                                         \cup ofBooking) >>),
    addAdjustment |-> Refreshing({"invoice"}, views) ]

BookingDeskHooks ==
  LET k == Keys.bookings
      noted == Refreshing({"bookingNote"}, {k.notes})
      assigned == Refreshing({"assignee"}, {k.assignment, k.detail, k.lists})
  IN
  [ addNote |-> noted, updateNote |-> noted, deleteNote |-> noted,
    assign |-> assigned, unassign |-> assigned ]

-----------------------------------------------------------------------------
(* usePayments.ts: the payments page *)

PaymentHooks ==
  LET all == {FinanceKeys.payments.all, Keys.bookings.all,
              FinanceKeys.invoices.all}
  IN
  [ markPaid     |-> Refreshing({"payment", "paid", "invoice"}, all),
    markFailed   |-> Refreshing({"payment"}, all),
    cancelPayment |-> Refreshing({"payment"}, all),
    linkPaid     |-> Refreshing({"paymentLink", "invoice"}, all) ]

-----------------------------------------------------------------------------
(* useCrm.ts and the pipeline board *)

LeadHooks ==
  LET k == Keys.crm
      noted == Refreshing({"leadNote"}, {k.leadNotes})
      assigned == Refreshing({"leadAssignee"},
                             {k.leadAssignment, k.leadDetail, k.leads})
  IN
  [ createLead   |-> Hook({"newLead", "softHold"},
                       <<{Refetch(k.leads), Invalidate(k.openCount)}>>),
    updateStatus |-> Refreshing({"lead", "softHold"}, {k.leadDetail, k.leads, k.openCount}),
    convert      |-> Refreshing({"lead", "newBooking", "calendar"},
                                {k.leadDetail, k.leads, k.openCount}),
    addLeadNote |-> noted, updateLeadNote |-> noted, deleteLeadNote |-> noted,
    assignLead |-> assigned, unassignLead |-> assigned ]

\* Mutant: the board forgets the view of the lead it moved.
DropLeadBoardOnly ==
  [ dropLead |-> Refreshing({"lead", "softHold"},
                            {Keys.crm.leads, Keys.crm.openCount}) ]

DropLead ==
  [ dropLead |-> Refreshing({"lead", "softHold"},
                            {Keys.crm.leads, Keys.crm.openCount,
                             Keys.crm.leadDetail}) ]

-----------------------------------------------------------------------------
(* useUnits.ts, useDateBlockApprovals.ts, useOwnerPortal.ts *)

UnitHooks ==
  LET k == OldKeys.units
      edited == Refreshing({"unit"}, {k.all, k.detail, k.publicDetail})
  IN
  [ createUnit |-> Refreshing({"newUnit"}, {k.all}),
    updateUnit |-> edited,
    deleteUnit |-> Refreshing({"unit"}, {k.all}),
    updateUnitStatus |-> edited,
    updateVisibility |-> edited ]

ImageHooks ==
  LET pictured == Refreshing({"image"},
                             {OldKeys.units.images, OldKeys.units.detail})
  IN
  [ addImage |-> pictured, reorderImages |-> pictured,
    setCoverImage |-> pictured, deleteImage |-> pictured,
    replaceAmenities |-> Refreshing({"unitAmenity"},
                           {OldKeys.units.amenities, OldKeys.units.detail}) ]

DateBlockHooks ==
  LET Blocked(writes) == Refreshing(writes,
                           UnitAvailability \cup {OldKeys.units.dateBlocks,
                                                  OldKeys.units.detail})
      \* the unit's list holds pending requests too
      edited == Blocked({"block", "request", "calendar"})
      priced == Refreshing({"price"}, {OldKeys.units.seasonalPricing})
  IN
  [ createBlock |-> Blocked({"block", "calendar"}),
    updateBlock |-> edited, deleteBlock |-> edited,
    createPrice |-> priced, updatePrice |-> priced, deletePrice |-> priced ]

\* An approval drops the leads and the bookings it conflicts with.
ApprovalHooks ==
  [ resolveBlock |-> Refreshing({"request", "block", "calendar", "lead",
                                 "booking", "history", "softHold"},
                       UnitAvailability
                         \cup {PortalKeys.dateBlockApprovals.all,
                               PortalKeys.ownerPortal.dateBlocks}) ]

OwnerBlockHooks ==
  LET blocked == Refreshing({"ownerBlock"},
                   UnitAvailability \cup {PortalKeys.ownerPortal.dateBlocks,
                                          PortalKeys.ownerPortal.unitDetail})
  IN
  [ createOwnerBlock |-> blocked, deleteOwnerBlock |-> blocked ]

-----------------------------------------------------------------------------
(* usePayouts.ts with the dialogs that call its hooks *)

SchedulePayout ==
  [ schedulePayout |-> Hook({"payout"},
      << {Invalidate(PayoutKeys.all)},
         Invalidations({PayoutKeys.byOwner, PayoutKeys.summary}) >>) ]

CancelPayout ==
  [ cancelPayout |-> Hook({"payout"},
      << {Invalidate(PayoutKeys.all)},
         Invalidations({PayoutKeys.byOwner, PayoutKeys.summary}) >>) ]

RecordPayout ==
  [ recordPayout |-> Hook({"payout"},
      << {Invalidate(PayoutKeys.all)},
         Invalidations({PayoutKeys.byOwner, PayoutKeys.summary,
                        PayoutKeys.all}) >>) ]

MarkPayoutPaid ==
  [ markPayoutPaid |-> Hook({"payout"},
      << {Invalidate(PayoutKeys.all)},
         Invalidations({PayoutKeys.byOwner, PayoutKeys.summary,
                        PayoutKeys.all}) >>) ]

-----------------------------------------------------------------------------
(* The back office: owners, clients, projects, reviews, administrators,    *)
(* notifications.                                                          *)

OwnerHooks ==
  LET k == OldKeys.owners
      edited == Refreshing({"owner"}, {k.detail, k.all})
  IN
  [ createOwner |-> Refreshing({"newOwner"}, {k.all}),
    updateOwner |-> edited, updateOwnerStatus |-> edited ]

ClientHooks ==
  LET k == PeopleKeys.clients
      edited == Refreshing({"client"}, {k.all, k.detail})
  IN
  [ createClient |-> Refreshing({"newClient"}, {k.all}),
    updateClientStatus |-> edited, resetClientPassword |-> edited ]

ProjectHooks ==
  LET k == OldKeys.projects
      edited == Refreshing({"project"}, {k.listAll, k.listActive, k.detail})
  IN
  [ createProject |-> Refreshing({"newProject"}, {k.all}),
    updateProject |-> edited, toggleProject |-> edited ]

AmenityHooks ==
  LET edited == Refreshing({"amenity"}, {<<"amenities">>}) IN
  [ createAmenity |-> edited, updateAmenity |-> edited,
    updateAmenityStatus |-> edited ]

ReviewHooks ==
  LET moderated == Refreshing({"review"}, {OldKeys.reviews.all,
                                           OldKeys.reviews.statusHistory})
  IN
  [ publishReview |-> moderated, rejectReview |-> moderated,
    hideReview |-> moderated ]

ReviewDrawerHooks ==
  LET moderated == Refreshing({"review"}, {OldKeys.reviews.all,
                                           OldKeys.reviews.statusHistory})
  IN
  [ drawerPublish |-> moderated, drawerReject |-> moderated,
    drawerHide |-> moderated ]

RoleHooks ==
  LET s == PeopleKeys.security
      u == PeopleKeys.adminUsers
  IN
  [ createRole |-> Refreshing({"newRole"}, {s.roles}),
    updateRole |-> Refreshing({"role", "adminRole"}, {s.roles, u.all}),
    deleteRole |-> Refreshing({"role"}, {s.roles}),
    updateOverrides |-> Refreshing({"override"}, {s.userOverrides, u.all}) ]

AdminUserHooks ==
  LET u == PeopleKeys.adminUsers IN
  [ changeAdminRole |-> Refreshing({"adminRole"}, {u.all}),
    toggleAdminStatus |-> Refreshing({"admin"}, {u.all}) ]

CreateAdminUser ==
  [ createAdminUser |-> Refreshing({"newAdmin"}, {PeopleKeys.adminUsers.lists}) ]

NotificationHooks ==
  LET k == PortalKeys.notifications
      read == Refreshing({"inbox"}, {k.adminInbox, k.adminInboxSummary})
  IN
  [ markRead |-> read, markAllRead |-> read,
    updatePreference |-> Refreshing({"preference"}, {k.adminPreferences}) ]

=============================================================================
