---------------------------- MODULE ConsoleKeys ----------------------------
(***************************************************************************)
(* The query keys of the web console.  A key is a sequence of parts; a     *)
(* filter object is a part too.  Two factories are in use side by side:    *)
(* lib/utils/query-keys.ts (Keys) and lib/hooks/query-keys.ts (OldKeys);   *)
(* usePayouts.ts has a third of its own (PayoutKeys).  The identities that *)
(* appear in keys are one booking "b", lead "l", unit "u", invoice "i",    *)
(* owner "o", client "c", review "r", admin "a" and project "p".           *)
(***************************************************************************)
EXTENDS Naturals, Sequences

\* The filter objects that occur as parts of keys.
FilterObjects == {"{}", "{bookingId}", "{filters}", "{range}"}

\* partialMatchKey: a filter matches every key it is a prefix of; the empty
\* object matches any object.
Covers(filter, key) ==
    /\ Len(filter) <= Len(key)
    /\ \A i \in 1 .. Len(filter) :
          \/ filter[i] = key[i]
          \/ filter[i] = "{}" /\ key[i] \in FilterObjects

\* "list" is the list some page shows, "lists" the argument list({}) that
\* matches each of them.
Keys ==
  [ bookings |->
      [ all             |-> <<"bookings">>,
        list            |-> <<"bookings", "list", "{filters}">>,
        lists           |-> <<"bookings", "list", "{}">>,
        detail          |-> <<"bookings", "detail", "b">>,
        statusHistory   |-> <<"bookings", "b", "status-history">>,
        notes           |-> <<"bookings", "b", "notes">>,
        assignment      |-> <<"bookings", "b", "assignment">>,
        financeSnapshot |-> <<"bookings", "b", "finance-snapshot">>,
        payments        |-> <<"bookings", "b", "payments">> ],
    crm |->
      [ leads          |-> <<"crm", "leads", "{}">>,
        openCount      |-> <<"crm", "open-count">>,
        leadDetail     |-> <<"crm", "lead", "l">>,
        leadNotes      |-> <<"crm", "l", "notes">>,
        leadAssignment |-> <<"crm", "l", "assignment">> ] ]

FinanceKeys ==
  [ payments |->
      [ all       |-> <<"payments">>,
        list      |-> <<"payments", "list", "{filters}">>,
        ofBooking |-> <<"payments", "list", "{bookingId}">> ],
    invoices |->
      [ all     |-> <<"invoices">>,
        detail  |-> <<"invoices", "detail", "i">>,
        balance |-> <<"invoices", "i", "balance">> ] ]

PeopleKeys ==
  [ clients |->
      [ all    |-> <<"clients">>,
        list   |-> <<"clients", "list", "{filters}">>,
        detail |-> <<"clients", "detail", "c">> ],
    adminUsers |->
      [ all       |-> <<"admin-users">>,
        list      |-> <<"admin-users", "list", "{filters}">>,
        lists     |-> <<"admin-users", "list", "{}">>,
        directory |-> <<"admin-users", "directory">> ],
    security |->
      [ roles         |-> <<"security", "roles">>,
        userOverrides |-> <<"security", "users", "a", "overrides">> ] ]

OldKeys ==
  [ units |->
      [ all             |-> <<"units">>,
        list            |-> <<"units", "internal", "list", "{filters}">>,
        detail          |-> <<"units", "internal", "detail", "u">>,
        publicDetail    |-> <<"units", "public", "detail", "u">>,
        images          |-> <<"units", "u", "images">>,
        amenities       |-> <<"units", "u", "amenities">>,
        dateBlocks      |-> <<"units", "u", "dateBlocks">>,
        seasonalPricing |-> <<"units", "u", "seasonalPricing">>,
        availability    |-> <<"units", "u", "availability", "month", "year">>,
        \* lib/utils/query-keys.ts gives a range of dates instead
        stay            |-> <<"units", "u", "availability", "{range}">> ],
    projects |->
      [ all          |-> <<"projects">>,
        listAll      |-> <<"projects", "list", "{all}">>,
        listActive   |-> <<"projects", "list", "{active}">>,
        detail       |-> <<"projects", "detail", "p">> ],
    owners |->
      [ all           |-> <<"owners">>,
        list          |-> <<"owners", "list", "{filters}">>,
        detail        |-> <<"owners", "detail", "o">>,
        payoutSummary |-> <<"owners", "o", "payout-summary">> ],
    reviews |->
      [ all           |-> <<"reviews">>,
        moderation    |-> <<"reviews", "moderation", "{filters}">>,
        statusHistory |-> <<"reviews", "statusHistory", "r">>,
        reply         |-> <<"reviews", "reply", "r">>,
        publicByUnit  |-> <<"reviews", "public", "unit", "u">>,
        publicSummary |-> <<"reviews", "public", "summary", "u">> ] ]

PortalKeys ==
  [ notifications |->
      [ adminInbox        |-> <<"notifications", "admin", "inbox">>,
        adminInboxSummary |-> <<"notifications", "admin", "inbox", "summary">>,
        adminPreferences  |-> <<"notifications", "admin", "preferences">>,
        ownerInbox        |-> <<"notifications", "owner", "inbox">>,
        ownerInboxSummary |-> <<"notifications", "owner", "inbox", "summary">>,
        ownerPreferences  |-> <<"notifications", "owner", "preferences">>,
        clientInbox       |->
          <<"notifications", "client", "inbox", "{filters}">>,
        clientInboxes     |-> <<"notifications", "client", "inbox">>,
        clientInboxSummary |->
          <<"notifications", "client", "inbox", "summary">>,
        clientPreferences |-> <<"notifications", "client", "preferences">> ],
    ownerPortal |->
      [ unitDetail       |-> <<"ownerPortal", "units", "detail", "u">>,
        dateBlocks       |-> <<"ownerPortal", "units", "dateBlocks", "u">>,
        unitAvailability |->
          <<"ownerPortal", "unitAvailability", "u", "start", "end">> ],
    dateBlockApprovals |->
      [ all  |-> <<"dateBlockApprovals">>,
        list |-> <<"dateBlockApprovals", "list">> ] ]

ClientKeys ==
  [ bookings |->
      [ all  |-> <<"client-bookings">>,
        list |-> <<"client-bookings", "list", "{filters}">> ],
    profile |-> <<"client-profile", "detail">>,
    reviews |->
      [ all       |-> <<"client-reviews">>,
        byBooking |-> <<"client-reviews", "booking", "b">> ] ]

PayoutKeys ==
  [ all     |-> <<"ownerPayouts">>,
    byOwner |-> <<"ownerPayouts", "byOwner", "o">>,
    summary |-> <<"ownerPayouts", "summary", "o">> ]
=============================================================================
