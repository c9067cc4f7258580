--------------------------- MODULE MCBillingScenes ---------------------------
(***************************************************************************)
(* Three scenes of Billing in one run: the operations that take locks,     *)
(* side by side ("rush"); payments recorded and marked as paid side by     *)
(* side, for a booking with an invoice or without ("till"); and all        *)
(* operations, one request at a time ("books").                            *)
(***************************************************************************)
EXTENDS MCBilling

VARIABLE scene

Rush == INSTANCE Billing WITH Traffic <- {"pay", "draft", "confirm", "link", "reissue", "drop"}
Till == INSTANCE Billing WITH Traffic <- {"pay", "markpaid"}

\* The booking's first invoice, as drafted or issued.
FirstInvoice ==
  \E i \in InvoiceIds, status \in {"draft", "issued"} :
    /\ invoices = [j \in InvoiceIds |->
         IF j = i THEN [status |-> status, total |-> FinalAmount] ELSE None]
    /\ items = [j \in InvoiceIds |-> IF j = i THEN FinalAmount ELSE 0]

SceneInit ==
  \/ scene \in {"rush", "till", "books"} /\ Init
  \/ scene = "till" /\ FirstInvoice /\ Quiet

In(s) == scene = s /\ UNCHANGED scene

\* No other request is being served.
Alone(w) == \A v \in Workers \ {w} : pc[v] = "idle"

SceneNext ==
  \/ \E w \in Workers :
       \/ In("rush") /\ Rush!Request(w)
       \/ In("rush") /\ Rush!Proceed(w)
       \/ In("till") /\ Till!Request(w)
       \/ In("till") /\ Till!Proceed(w)
       \/ In("books") /\ Alone(w) /\ Request(w)
       \/ In("books") /\ Alone(w) /\ Proceed(w)
       \/ UNCHANGED scene /\ Abort(w)
  \/ In("rush") /\ Rush!Lifecycle
  \/ In("books") /\ Lifecycle

SceneSpec == SceneInit /\ [][SceneNext]_<<vars, scene>>
=============================================================================
