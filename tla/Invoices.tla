------------------------------- MODULE Invoices -------------------------------
(***************************************************************************)
(* Invoices and their stored documents.                                    *)
(*                                                                         *)
(* The first reader of an invoice creates its row.  Every download renders *)
(* the order as it was read, and the first one stores the document in the  *)
(* object store under a key of the month, and the key in the row.  Between *)
(* two awaits of a request, orders move on, months end, and other requests *)
(* do the same work.  A document stands for the status it shows.           *)
(***************************************************************************)
EXTENDS Naturals, FiniteSets, OrderStatus

CONSTANTS
    Requests,    \* slots for requests in progress
    Orders,
    LastMonth,   \* bound: the last month of the clock
    Configured,  \* whether the object store is configured
    NoOrder,     \* the status of an order number not in use yet
    None         \* no row, no URL, no object

ASSUME InvoicesAssumption ==
    /\ LastMonth \in Nat
    /\ Configured \in BOOLEAN
    /\ NoOrder \notin OrderStatuses
    /\ None \notin OrderStatuses
    /\ None \notin Nat
    /\ None \notin Orders
    /\ None # NoOrder

\* dateFolder(): the folders of keys, one for each month.
Months == 0 .. LastMonth

VARIABLES
    status,   \* the status of each order
    month,    \* the month of the clock
    invoice,  \* the row of each order's invoice
    object,   \* the object store: the document of order o under month m
    job       \* the requests in progress

vars == <<status, month, invoice, object, job>>

\* An order's invoice row, as far as it changes.
InvoiceRows == [exists : BOOLEAN, url : Months \cup {None}]

NoRow == [exists |-> FALSE, url |-> None]

\* pc "find", "order", "create": in ensureInvoice; "upload": has rendered
\* shows and will store it; "record": has stored it under key.
\* alone: no other request on the order was under way at any time.
Idle == [pc |-> "idle", order |-> None, shows |-> None, key |-> None,
         pdf |-> FALSE, alone |-> TRUE]

Jobs ==
    [pc : {"idle", "find", "order", "create", "upload", "record"},
     order : Orders \cup {None}, shows : OrderStatuses \cup {None, NoOrder},
     key : Months \cup {None}, pdf : BOOLEAN, alone : BOOLEAN]

Init ==
    /\ status \in [Orders -> OrderStatuses \cup {NoOrder}]
    /\ month = 0
    /\ invoice = [o \in Orders |-> NoRow]
    /\ object = [o \in Orders |-> [m \in Months |-> None]]
    /\ job = [r \in Requests |-> Idle]

-------------------------------------------------------------------------------

At(r, pc) == job[r].pc = pc

Others(r, o) == {s \in Requests \ {r} : job[s].order = o}

\* findByInvoiceNumber, or generatePdf.
StartRead(r, o, pdf) ==
    /\ At(r, "idle")
    /\ job' = [s \in Requests |->
                IF s = r
                THEN [Idle EXCEPT !.pc = "find", !.order = o, !.pdf = pdf,
                                  !.alone = Others(r, o) = {}]
                ELSE IF job[s].order = o THEN [job[s] EXCEPT !.alone = FALSE]
                ELSE job[s]]
    /\ UNCHANGED <<status, month, invoice, object>>

\* Variant: stores the document again although the row has a URL.
RenderAlways(r, url) ==
    IF job[r].pdf /\ Configured
    THEN [job[r] EXCEPT !.pc = "upload", !.shows = status[job[r].order]]
    ELSE Idle

\* The row and its order are read together.  A view ends here, and so does a
\* download if the document is stored already or there is no store.
Rendered(r, url) ==
    IF job[r].pdf /\ Configured /\ url = None
    THEN [job[r] EXCEPT !.pc = "upload", !.shows = status[job[r].order]]
    ELSE Idle

FindInvoice(r) ==
    LET row == invoice[job[r].order] IN
    /\ At(r, "find")
    /\ job' = [job EXCEPT ![r] = IF ~row.exists THEN [@ EXCEPT !.pc = "order"]
                                 ELSE Rendered(r, row.url)]
    /\ UNCHANGED <<status, month, invoice, object>>

\* No such order: 404.  The invoice may have come with the order by now.
FindOrder(r) ==
    LET row == invoice[job[r].order] IN
    /\ At(r, "order")
    /\ job' = [job EXCEPT ![r] =
                IF status[job[r].order] = NoOrder THEN Idle
                ELSE IF ~row.exists THEN [@ EXCEPT !.pc = "create"]
                ELSE Rendered(r, row.url)]
    /\ UNCHANGED <<status, month, invoice, object>>

\* The order has a row by now, which is unique: the request fails.
Conflicts(r) == invoice[job[r].order].exists

CreateInvoice(r) ==
    /\ At(r, "create")
    /\ IF Conflicts(r)
       THEN /\ job' = [job EXCEPT ![r] = Idle]
            /\ UNCHANGED invoice
       ELSE /\ invoice' = [invoice EXCEPT ![job[r].order].exists = TRUE]
            /\ job' = [job EXCEPT ![r] = Rendered(r, None)]
    /\ UNCHANGED <<status, month, object>>

\* Variant: records the key before the document is there.
UploadLater(r) ==
    /\ At(r, "upload")
    /\ job' = [job EXCEPT ![r].pc = "record", ![r].key = month]
    /\ UNCHANGED <<status, month, invoice, object>>

\* The key is made of the month at the upload.
UploadDocument(r) ==
    /\ At(r, "upload")
    /\ object' = [object EXCEPT ![job[r].order][month] = job[r].shows]
    /\ job' = [job EXCEPT ![r].pc = "record", ![r].key = month]
    /\ UNCHANGED <<status, month, invoice>>

\* The store fails, or its answer does: the document is returned unstored.
UploadFails(r) ==
    /\ At(r, "upload")
    /\ object' \in {object,
                    [object EXCEPT ![job[r].order][month] = job[r].shows]}
    /\ job' = [job EXCEPT ![r] = Idle]
    /\ UNCHANGED <<status, month, invoice>>

RecordUrl(r) ==
    /\ At(r, "record")
    /\ invoice' = [invoice EXCEPT ![job[r].order].url = job[r].key]
    /\ job' = [job EXCEPT ![r] = Idle]
    /\ UNCHANGED <<status, month, object>>

\* A request ends at an await.
Abort(r) ==
    /\ ~At(r, "idle")
    /\ job' = [job EXCEPT ![r] = Idle]
    /\ UNCHANGED <<status, month, invoice, object>>

NextMonth ==
    /\ month < LastMonth
    /\ month' = month + 1
    /\ UNCHANGED <<status, invoice, object, job>>

\* Orders are placed and moved by other requests, and never removed.
MoveOrder(o, s) ==
    /\ status' = [status EXCEPT ![o] = s]
    /\ UNCHANGED <<month, invoice, object, job>>

Step(r) ==
    \/ \E o \in Orders, pdf \in BOOLEAN : StartRead(r, o, pdf)
    \/ FindInvoice(r)
    \/ FindOrder(r)
    \/ CreateInvoice(r)
    \/ UploadDocument(r)
    \/ UploadFails(r)
    \/ RecordUrl(r)
    \/ Abort(r)

Next ==
    \/ \E r \in Requests : Step(r)
    \/ NextMonth
    \/ \E o \in Orders, s \in OrderStatuses : MoveOrder(o, s)

Spec == Init /\ [][Next]_vars

-------------------------------------------------------------------------------
(* Properties *)

TypeOK ==
    /\ status \in [Orders -> OrderStatuses \cup {NoOrder}]
    /\ month \in Months
    /\ invoice \in [Orders -> InvoiceRows]
    /\ object \in [Orders -> [Months -> OrderStatuses \cup {None}]]
    /\ job \in [Requests -> Jobs]

\* The URL of an invoice names a document of its order, whatever uploads failed
\* or were repeated: getObject serves it, and it never shows less than an order.
StoredDocumentsExist ==
    \A o \in Orders :
        invoice[o].url # None =>
            object[o][invoice[o].url] \in OrderStatuses

\* A request that overlaps no other on its order finds the invoice's row unique,
\* and stores a document only where none is recorded: getObject says of the
\* documents that they are immutable.
LoneReadersSettleInvoices ==
    \A r \in Requests : job[r].alone =>
        /\ At(r, "create") => ~Conflicts(r)
        /\ At(r, "upload") \/ At(r, "record") => invoice[job[r].order].url = None

-------------------------------------------------------------------------------
(* The inductive invariant behind the theorems of FulfilmentProofs *)

InUse(o) == status[o] \in OrderStatuses

Stored(o, m) == object[o][m] \in OrderStatuses

RowInv(o) ==
    /\ invoice[o].exists => InUse(o)
    /\ ~invoice[o].exists => invoice[o].url = None
    /\ invoice[o].url # None => Stored(o, invoice[o].url)

\* What a request may still rely on when it goes on.
JobInv(r) ==
    LET o == job[r].order IN
    /\ ~At(r, "idle") => o \in Orders
    /\ At(r, "create") => InUse(o)
    /\ At(r, "upload") => invoice[o].exists /\ job[r].shows \in OrderStatuses
    /\ At(r, "record") => /\ invoice[o].exists
                          /\ job[r].key \in Months
                          /\ Stored(o, job[r].key)

\* A request that is alone has its order to itself.
AloneInv(r) ==
    LET o == job[r].order IN
    ~At(r, "idle") /\ job[r].alone =>
        /\ \A s \in Requests \ {r} : job[s].order # o
        /\ At(r, "create") => ~invoice[o].exists
        /\ At(r, "upload") \/ At(r, "record") => invoice[o].url = None

InvoicesInv ==
    /\ TypeOK
    /\ \A o \in Orders : RowInv(o)
    /\ \A r \in Requests : JobInv(r) /\ AloneInv(r)
===============================================================================
