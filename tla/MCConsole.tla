----------------------------- MODULE MCConsole ------------------------------
EXTENDS PortalHooks, QueryCache

MCQueries == DOMAIN TabQuery
MCHooks   == DOMAIN TabHook
MCPolls   == {q \in MCQueries : TabQuery[q].polled}

\* Writes a hook leaves to the next poll of the view.
LeftToThePoll ==
       ({"confirm", "issue"} \X {"paymentsList", "paymentsOfBooking"})
  \cup ({"createPayment", "bookingPaymentPaid", "bookingPaymentFailed",
         "bookingPaymentCancelled"} \X {"paymentsList"})
  \cup ({"bookingPaymentPaid"} \X {"invoiceDetail", "invoiceBalance"})
  \cup ({"schedulePayout", "cancelPayout", "recordPayout", "markPayoutPaid"}
         \X {"financeSnapshot"})
  \cup ({"quickCreate", "booked", "relevant", "noAnswer", "notRelevant",
         "createLead", "updateStatus", "dropLead", "updateBlock",
         "deleteBlock"} \X {"approvals"})
  \cup {<<"resolveBlock", "leadsPipeline">>}

\* Writes a hook forgets: the view goes on showing the old answer.
Forgotten ==
       ({"confirm", "issue", "reissue"} \X {"bookingPayments"})
  \cup ({"convert"} \X {"bookingsList", "availability"})
  \cup ({"resolveBlock"}
         \X {"unitDateBlocks", "bookingsList", "bookingDetail",
             "statusHistory", "leadDetail", "openLeadsCount"})
  \cup {<<"createAdminUser", "adminDirectory">>}
  \cup ({"schedulePayout", "cancelPayout", "recordPayout", "markPayoutPaid"}
         \X {"ownerFinancialSummary"})

MCLeft == LeftToThePoll \cup Forgotten

\* The views the team polls, by the comments beside them.
LiveViews ==
  { "financeSnapshot", "invoiceDetail", "invoiceBalance", "paymentsList",
    "paymentsOfBooking", "leadsPipeline", "approvals", "inboxSummary",
    "ownerAvailability", "ownerInboxSummary", "clientInboxSummary" }

\* A polled view left open in the foreground ends up showing the server's
\* state, whoever wrote last.
PolledViewsCatchUp ==
  query \in LiveViews /\ <>[](mounted /\ focused) => <>[](shown = now)
=============================================================================
