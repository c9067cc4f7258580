---------------------------- MODULE PortalHooks -----------------------------
(***************************************************************************)
(* The mutations of the owner's and the client's portal and of the shop,   *)
(* and the table of every hook.  What a client or an owner writes is told   *)
(* apart from the console's rows.                                          *)
(***************************************************************************)
EXTENDS ConsoleHooks

\* The panel's own invalidations follow the hook's.
ReplyHooks ==
  LET k == OldKeys.reviews
      replied == Hook({"reply"}, << Invalidations({k.reply, k.all}),
                   Invalidations({k.reply, k.publicByUnit, k.publicSummary}) >>)
  IN
  [ upsertReply |-> replied, deleteReply |-> replied,
    setReplyVisibility |-> replied ]

OwnerInboxHooks ==
  LET k == PortalKeys.notifications
      read == Refreshing({"ownerInbox"}, {k.ownerInbox, k.ownerInboxSummary})
  IN
  [ markOwnerRead |-> read, markAllOwnerRead |-> read,
    updateOwnerPreference |-> Refreshing({"ownerPreference"},
                                         {k.ownerPreferences}) ]

ClientInboxHooks ==
  LET k == PortalKeys.notifications
      read == Refreshing({"clientInbox"}, {k.clientInboxes, k.clientInboxSummary})
  IN
  [ markClientRead |-> read, markAllClientRead |-> read,
    updateClientPreference |-> Refreshing({"clientPreference"},
                                          {k.clientPreferences}) ]

UpdateProfile ==
  [ updateProfile |-> Refreshing({"profile"}, {ClientKeys.profile}) ]

\* The bookings page awaits the hook, or sends the edit itself, and then
\* invalidates the review.
BookingReviewHooks ==
  LET review == {Invalidate(ClientKeys.reviews.byBooking)} IN
  [ submitReview |-> Hook({"clientReview"},
      << Invalidations({ <<"bookings", "client">>, ClientKeys.bookings.all,
                         ClientKeys.reviews.all, OldKeys.reviews.all }), review >>),
    editReview   |-> Hook({"clientReview"}, <<review>>) ]

ReviewPageHooks ==
  [ saveReview |-> Refreshing({"clientReview"}, {ClientKeys.reviews.byBooking}) ]

ClientReviewHooks ==
  LET reviewed == Hook({"clientReview"},
        << Invalidations({ ClientKeys.bookings.all, ClientKeys.reviews.all,
                           Keys.bookings.all, OldKeys.reviews.all,
                           ClientKeys.reviews.byBooking }),
           {Invalidate(ClientKeys.reviews.byBooking)} >>)
  IN
  [ createClientReview |-> reviewed, updateClientReview |-> reviewed ]

\* A request from a guest becomes a lead, one from a client a booking.
ShopHooks ==
  LET stay == {ClientKeys.bookings.all, OldKeys.units.stay} IN
  [ submitBookingRequest |-> Refreshing({"stay"}, stay \cup {<<"crm">>}),
    createClientBooking  |-> Refreshing({"clientBooking", "stay"}, stay) ]

-----------------------------------------------------------------------------
ConsoleHook ==
  BookingHooks @@ BookingPaymentHooks @@ InvoiceHooks @@ BookingDeskHooks
    @@ PaymentHooks @@ LeadHooks @@ DropLead @@ UnitHooks @@ ImageHooks
    @@ DateBlockHooks @@ ApprovalHooks @@ OwnerBlockHooks
    @@ SchedulePayout @@ CancelPayout @@ RecordPayout @@ MarkPayoutPaid
    @@ OwnerHooks @@ ClientHooks @@ ProjectHooks @@ AmenityHooks
    @@ ReviewHooks @@ ReviewDrawerHooks
    @@ RoleHooks @@ AdminUserHooks @@ CreateAdminUser @@ NotificationHooks

PortalHook ==
  ReplyHooks @@ OwnerInboxHooks @@ ClientInboxHooks @@ UpdateProfile
    @@ BookingReviewHooks @@ ReviewPageHooks @@ ClientReviewHooks @@ ShopHooks

TabHook == ConsoleHook @@ PortalHook

\* The console's hooks and the portals' views are not used by one account.
Meet(h, q) == h \in DOMAIN ConsoleHook <=> q \in DOMAIN ConsoleQuery

\* What a hook's batches do to one query; a set needs the very key.
Applies(step, query) ==
    IF step.op = "set" THEN step.key = TabQuery[query].key
                       ELSE Covers(step.key, TabQuery[query].key)

TabEffect ==
  [ p \in (DOMAIN TabHook) \X (DOMAIN TabQuery) |->
      LET does == TabHook[p[1]].does
          Done(i) == {s \in does[i] : Meet(p[1], p[2]) /\ Applies(s, p[2])}
      IN  [ i \in DOMAIN does |-> {s.op : s \in Done(i)} ] ]

\* The queries whose answer a hook's endpoint changes.
TabChanges ==
  { p \in (DOMAIN TabHook) \X (DOMAIN TabQuery) :
      TabHook[p[1]].writes \cap TabQuery[p[2]].reads # {} }
=============================================================================
