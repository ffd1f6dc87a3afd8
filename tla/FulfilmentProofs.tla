--------------------------- MODULE FulfilmentProofs ---------------------------
(***************************************************************************)
(* Theorems about Invoices and Feed, alone and together in Fulfilment, for *)
(* any number of requests, orders, streams and months.                     *)
(*                                                                         *)
(* The inductive invariant is InvoicesInv for invoices, and FeedInv for    *)
(* what is told of orders: one lemma for each action.  Both are about the  *)
(* same orders; of the other's steps each needs only what they do to the   *)
(* status.  Of the requests that write or read one status to tell it, a    *)
(* step moves one; the others are as they were (TellsOn, OtherOrders).     *)
(***************************************************************************)
EXTENDS Fulfilment, FiniteSetTheorems, TLAPS

(***************************************************************************)
(* Invoices                                                                *)
(***************************************************************************)
LEMMA IdleType == Idle \in Jobs /\ Idle.pc = "idle" /\ Idle.order = None
BY DEF Idle, Jobs

(***************************************************************************)
(* What the step of one request may change: its own job, and the invoice   *)
(* and the documents of its order, neither of which it takes away.         *)
(***************************************************************************)
Keeps(r) ==
    /\ \A s \in Requests \ {r} : job'[s] = job[s]
    /\ job'[r].order \in {job[r].order, None}
    /\ \A o \in Orders : o # job[r].order => invoice'[o] = invoice[o]
    /\ \A o \in Orders : invoice[o].exists => invoice'[o].exists
    /\ \A o \in Orders, m \in Months : Stored(o, m) => Stored(o, m)'
    /\ status' = status

LEMMA OthersKept ==
    ASSUME InvoicesInv, NEW r \in Requests, Keeps(r), NEW s \in Requests \ {r}
    PROVE  JobInv(s)' /\ AloneInv(s)'
<1>1. JobInv(s) /\ AloneInv(s) /\ job'[s] = job[s] /\ None \notin Orders
    BY InvoicesAssumption DEF InvoicesInv, Keeps
<1>2. JobInv(s)'
    BY <1>1 DEF JobInv, Keeps, At, InUse
<1>3. AloneInv(s)'
    <2> SUFFICES ASSUME job[s].pc # "idle", job[s].alone
        PROVE  AloneInv(s)'
        BY <1>1 DEF AloneInv, At
    <2>1. job[s].order \in Orders /\ \A q \in Requests \ {s} : job[q].order # job[s].order
        BY <1>1 DEF AloneInv, JobInv, At
    <2>2. \A q \in Requests \ {s} : job'[q].order # job'[s].order
        BY <1>1, <2>1 DEF Keeps
    <2>3. invoice'[job[s].order] = invoice[job[s].order]
        BY <2>1 DEF Keeps
    <2> QED BY <1>1, <2>2, <2>3 DEF AloneInv, At
<1> QED BY <1>2, <1>3

\* A step that leaves the rows and the documents alone.
LEMMA RowsKept ==
    ASSUME InvoicesInv, UNCHANGED <<status, invoice, object>>
    PROVE  \A o \in Orders : RowInv(o)'
BY DEF InvoicesInv, RowInv, InUse, Stored

\* A request that ends, without having done anything.
LEMMA EndStep ==
    ASSUME InvoicesInv, NEW r \in Requests, job' = [job EXCEPT ![r] = Idle],
           UNCHANGED <<status, month, invoice, object>>
    PROVE  InvoicesInv'
<1>1. TypeOK' /\ job'[r] = Idle
    BY IdleType DEF InvoicesInv, TypeOK
<1>2. Keeps(r)
    BY IdleType, <1>1 DEF InvoicesInv, TypeOK, Keeps, Stored
<1>3. JobInv(r)' /\ AloneInv(r)'
    BY IdleType, <1>1 DEF JobInv, AloneInv, At
<1> QED BY <1>1, <1>2, <1>3, OthersKept, RowsKept DEF InvoicesInv

\* What a request becomes once it has its invoice's row.
LEMMA RenderedType ==
    ASSUME InvoicesInv, NEW r \in Requests, NEW url \in Months \cup {None},
           ~At(r, "idle"), InUse(job[r].order)
    PROVE  /\ Rendered(r, url) \in Jobs
           /\ Rendered(r, url).order \in {job[r].order, None}
           /\ \/ Rendered(r, url) = Idle
              \/ /\ Rendered(r, url).pc = "upload"
                 /\ Rendered(r, url).order = job[r].order
                 /\ Rendered(r, url).shows \in OrderStatuses
                 /\ Rendered(r, url).alone = job[r].alone
                 /\ url = None
<1>1. job[r] \in Jobs /\ status[job[r].order] \in OrderStatuses
    BY DEF InvoicesInv, TypeOK, InUse
<1> QED BY <1>1, IdleType DEF Rendered, Jobs, At

\* A request that finds its invoice's row, or has just made it.
LEMMA RenderStep ==
    ASSUME InvoicesInv, TypeOK', NEW r \in Requests, ~At(r, "idle"),
           InUse(job[r].order), Keeps(r),
           invoice'[job[r].order].exists,
           job'[r] = Rendered(r, invoice'[job[r].order].url)
    PROVE  JobInv(r)' /\ AloneInv(r)'
<1> DEFINE o == job[r].order
<1>1. o \in Orders /\ AloneInv(r)
    BY DEF InvoicesInv, JobInv
<1>2. invoice'[o].url \in Months \cup {None}
    BY <1>1 DEF TypeOK, InvoiceRows
<1>3. CASE job'[r] = Idle
    BY <1>3, IdleType DEF JobInv, AloneInv, At
<1>4. CASE /\ job'[r].pc = "upload"
           /\ job'[r].order = o
           /\ job'[r].shows \in OrderStatuses
           /\ job'[r].alone = job[r].alone
           /\ invoice'[o].url = None
    BY <1>1, <1>4 DEF JobInv, AloneInv, At, Keeps
<1> QED BY <1>2, <1>3, <1>4, RenderedType

-------------------------------------------------------------------------------
(* One lemma for each action                                               *)

LEMMA StartReadStep ==
    ASSUME InvoicesInv, NEW r \in Requests, NEW o \in Orders, NEW pdf \in BOOLEAN,
           StartRead(r, o, pdf)
    PROVE  InvoicesInv'
<1> DEFINE new == [Idle EXCEPT !.pc = "find", !.order = o, !.pdf = pdf,
                              !.alone = Others(r, o) = {}]
<1>1. /\ new \in Jobs /\ new.pc = "find" /\ new.order = o
      /\ new.alone => \A s \in Requests \ {r} : job[s].order # o
    BY DEF Idle, Jobs, Others
<1> HIDE DEF new
<1>2. job' = [s \in Requests |->
                IF s = r THEN new
                ELSE IF job[s].order = o THEN [job[s] EXCEPT !.alone = FALSE]
                ELSE job[s]]
    BY DEF StartRead, new
<1>3. \A s \in Requests \ {r} :
        /\ job'[s] \in Jobs
        /\ job'[s].pc = job[s].pc /\ job'[s].order = job[s].order
        /\ job'[s].shows = job[s].shows /\ job'[s].key = job[s].key
        /\ job'[s].alone => job[s].alone /\ job[s].order # o
    BY <1>2 DEF InvoicesInv, TypeOK, Jobs
<1>4. job'[r] = new /\ UNCHANGED <<status, month, invoice, object>>
    BY <1>2 DEF StartRead
<1>5. TypeOK'
    <2>1. job' \in [Requests -> Jobs]
        BY <1>1, <1>2, <1>3, <1>4
    <2> QED BY <2>1, <1>4 DEF InvoicesInv, TypeOK
<1>6. JobInv(r)' /\ AloneInv(r)'
    BY <1>1, <1>3, <1>4 DEF JobInv, AloneInv, At
<1>7. ASSUME NEW s \in Requests \ {r} PROVE JobInv(s)' /\ AloneInv(s)'
    <2>1. JobInv(s) /\ AloneInv(s)
        BY DEF InvoicesInv
    <2>2. JobInv(s)'
        BY <2>1, <1>3, <1>4 DEF JobInv, At, InUse, Stored
    <2>3. AloneInv(s)'
        BY <2>1, <1>1, <1>3, <1>4 DEF AloneInv, At
    <2> QED BY <2>2, <2>3
<1> QED BY <1>4, <1>5, <1>6, <1>7, RowsKept DEF InvoicesInv

LEMMA FindInvoiceStep ==
    ASSUME InvoicesInv, NEW r \in Requests, FindInvoice(r)
    PROVE  InvoicesInv'
<1> DEFINE o == job[r].order
<1>1. o \in Orders /\ RowInv(o) /\ JobInv(r) /\ AloneInv(r) /\ job[r] \in Jobs
    BY DEF FindInvoice, At, InvoicesInv, JobInv, TypeOK
<1>2. UNCHANGED <<status, month, invoice, object>>
    BY DEF FindInvoice
<1>3. CASE invoice[o].exists
    <2>1. InUse(o) /\ invoice[o].url \in Months \cup {None}
        BY <1>1, <1>3 DEF RowInv, InvoicesInv, TypeOK, InvoiceRows
    <2>2. Rendered(r, invoice[o].url) \in Jobs
          /\ Rendered(r, invoice[o].url).order \in {o, None}
        BY <2>1, RenderedType DEF FindInvoice, At
    <2>3. job' = [job EXCEPT ![r] = Rendered(r, invoice[o].url)]
        BY <1>3 DEF FindInvoice
    <2>4. TypeOK' /\ Keeps(r)
        BY <1>2, <2>2, <2>3 DEF InvoicesInv, TypeOK, Keeps, Stored
    <2>5. job'[r] = Rendered(r, invoice'[o].url) /\ invoice'[o].exists
        BY <1>2, <1>3, <2>3 DEF InvoicesInv, TypeOK
    <2>6. JobInv(r)' /\ AloneInv(r)'
        BY <2>1, <2>4, <2>5, RenderStep DEF FindInvoice, At
    <2> QED BY <1>2, <2>4, <2>6, OthersKept, RowsKept DEF InvoicesInv
<1>4. CASE ~invoice[o].exists
    <2> DEFINE new == [job[r] EXCEPT !.pc = "order"]
    <2>1. new \in Jobs /\ new.pc = "order" /\ new.order = o /\ new.alone = job[r].alone
        BY <1>1 DEF Jobs
    <2>2. job' = [job EXCEPT ![r] = new]
        BY <1>4 DEF FindInvoice
    <2> HIDE DEF new
    <2>3. TypeOK' /\ Keeps(r) /\ job'[r] = new
        BY <1>2, <2>1, <2>2 DEF InvoicesInv, TypeOK, Keeps, Stored
    <2>4. JobInv(r)' /\ AloneInv(r)'
        BY <1>1, <1>2, <2>1, <2>3 DEF JobInv, AloneInv, At, Keeps, FindInvoice
    <2> QED BY <1>2, <2>3, <2>4, OthersKept, RowsKept DEF InvoicesInv
<1> QED BY <1>3, <1>4

LEMMA FindOrderStep ==
    ASSUME InvoicesInv, NEW r \in Requests, FindOrder(r)
    PROVE  InvoicesInv'
<1> DEFINE o == job[r].order
<1>1. o \in Orders /\ RowInv(o) /\ JobInv(r) /\ AloneInv(r) /\ job[r] \in Jobs
    BY DEF FindOrder, At, InvoicesInv, JobInv, TypeOK
<1>2. UNCHANGED <<status, month, invoice, object>>
    BY DEF FindOrder
<1>3. CASE status[o] = NoOrder
    <2>1. job' = [job EXCEPT ![r] = Idle]
        BY <1>3 DEF FindOrder
    <2> QED BY <1>2, <2>1, EndStep
<1>4. CASE status[o] # NoOrder /\ invoice[o].exists
    <2>1. InUse(o) /\ invoice[o].url \in Months \cup {None}
        BY <1>1, <1>4 DEF RowInv, InvoicesInv, TypeOK, InvoiceRows
    <2>2. Rendered(r, invoice[o].url) \in Jobs
          /\ Rendered(r, invoice[o].url).order \in {o, None}
        BY <2>1, RenderedType DEF FindOrder, At
    <2>3. job' = [job EXCEPT ![r] = Rendered(r, invoice[o].url)]
        BY <1>4 DEF FindOrder
    <2>4. TypeOK' /\ Keeps(r)
        BY <1>2, <2>2, <2>3 DEF InvoicesInv, TypeOK, Keeps, Stored
    <2>5. job'[r] = Rendered(r, invoice'[o].url) /\ invoice'[o].exists
        BY <1>2, <1>4, <2>3 DEF InvoicesInv, TypeOK
    <2>6. JobInv(r)' /\ AloneInv(r)'
        BY <2>1, <2>4, <2>5, RenderStep DEF FindOrder, At
    <2> QED BY <1>2, <2>4, <2>6, OthersKept, RowsKept DEF InvoicesInv
<1>5. CASE status[o] # NoOrder /\ ~invoice[o].exists
    <2> DEFINE new == [job[r] EXCEPT !.pc = "create"]
    <2>1. new \in Jobs /\ new.pc = "create" /\ new.order = o /\ new.alone = job[r].alone
        BY <1>1 DEF Jobs
    <2>2. job' = [job EXCEPT ![r] = new]
        BY <1>5 DEF FindOrder
    <2> HIDE DEF new
    <2>3. TypeOK' /\ Keeps(r) /\ job'[r] = new
        BY <1>2, <2>1, <2>2 DEF InvoicesInv, TypeOK, Keeps, Stored
    <2>4. InUse(o)
        BY <1>1, <1>5 DEF InvoicesInv, TypeOK, InUse
    <2>5. JobInv(r)' /\ AloneInv(r)'
        BY <1>1, <1>2, <1>5, <2>1, <2>3, <2>4
        DEF JobInv, AloneInv, At, Keeps, FindOrder, InUse
    <2> QED BY <1>2, <2>3, <2>5, OthersKept, RowsKept DEF InvoicesInv
<1> QED BY <1>3, <1>4, <1>5

LEMMA CreateInvoiceStep ==
    ASSUME InvoicesInv, NEW r \in Requests, CreateInvoice(r)
    PROVE  InvoicesInv'
<1> DEFINE o == job[r].order
<1>1. o \in Orders /\ RowInv(o) /\ InUse(o) /\ AloneInv(r) /\ ~At(r, "idle")
    BY DEF CreateInvoice, At, InvoicesInv, JobInv
<1>2. UNCHANGED <<status, month, object>>
    BY DEF CreateInvoice
<1>3. CASE invoice[o].exists
    <2>1. job' = [job EXCEPT ![r] = Idle] /\ UNCHANGED invoice
        BY <1>3 DEF CreateInvoice, Conflicts
    <2> QED BY <1>2, <2>1, EndStep
<1>4. CASE ~invoice[o].exists
    <2>1. invoice' = [invoice EXCEPT ![o].exists = TRUE]
          /\ job' = [job EXCEPT ![r] = Rendered(r, None)]
        BY <1>4 DEF CreateInvoice, Conflicts
    <2>2. Rendered(r, None) \in Jobs /\ Rendered(r, None).order \in {o, None}
        BY <1>1, RenderedType
    <2>3. invoice[o] \in InvoiceRows /\ invoice[o].url = None
        BY <1>1, <1>4 DEF RowInv, InvoicesInv, TypeOK
    <2>4. invoice'[o] \in InvoiceRows /\ invoice'[o].exists /\ invoice'[o].url = None
        BY <1>1, <2>1, <2>3 DEF InvoicesInv, TypeOK, InvoiceRows
    <2>5. \A q \in Orders \ {o} : invoice'[q] = invoice[q]
        BY <2>1 DEF InvoicesInv, TypeOK
    <2>6. TypeOK'
        <3>1. invoice' \in [Orders -> InvoiceRows]
            BY <2>1, <2>4, <2>5 DEF InvoicesInv, TypeOK
        <3>2. job' \in [Requests -> Jobs]
            BY <2>1, <2>2 DEF InvoicesInv, TypeOK
        <3> QED BY <1>2, <3>1, <3>2 DEF InvoicesInv, TypeOK
    <2>7. job'[r] = Rendered(r, invoice'[o].url)
        BY <2>1, <2>4 DEF InvoicesInv, TypeOK
    <2>8. Keeps(r)
        BY <1>2, <2>1, <2>2, <2>4, <2>5, <2>7 DEF InvoicesInv, TypeOK, Keeps, Stored
    <2>9. JobInv(r)' /\ AloneInv(r)'
        BY <1>1, <2>4, <2>6, <2>7, <2>8, RenderStep
    <2>10. \A q \in Orders : RowInv(q)'
        BY <1>1, <1>2, <2>4, <2>5 DEF InvoicesInv, RowInv, InUse, Stored
    <2> QED BY <2>6, <2>8, <2>9, <2>10, OthersKept DEF InvoicesInv
<1> QED BY <1>3, <1>4

\* The document of an order under a key, stored in an upload.
LEMMA PutObject ==
    ASSUME InvoicesInv, NEW o \in Orders, NEW shows \in OrderStatuses,
           object' = [object EXCEPT ![o][month] = shows]
    PROVE  /\ object' \in [Orders -> [Months -> OrderStatuses \cup {None}]]
           /\ object'[o][month] = shows
           /\ \A q \in Orders, m \in Months : Stored(q, m) => Stored(q, m)'
BY DEF InvoicesInv, TypeOK, Stored

LEMMA UploadDocumentStep ==
    ASSUME InvoicesInv, NEW r \in Requests, UploadDocument(r)
    PROVE  InvoicesInv'
<1> DEFINE o == job[r].order
           new == [job[r] EXCEPT !.pc = "record", !.key = month]
<1>1. /\ o \in Orders /\ invoice[o].exists /\ job[r].shows \in OrderStatuses
      /\ AloneInv(r) /\ job[r] \in Jobs /\ month \in Months
    BY DEF UploadDocument, At, InvoicesInv, JobInv, TypeOK
<1>2. /\ new \in Jobs /\ new.pc = "record" /\ new.order = o /\ new.key = month
      /\ new.alone = job[r].alone
    BY <1>1 DEF Jobs
<1>3. job' = [job EXCEPT ![r] = new] /\ UNCHANGED <<status, month, invoice>>
    BY <1>1 DEF UploadDocument, InvoicesInv, TypeOK, Jobs
<1> HIDE DEF new
<1>4. /\ object' \in [Orders -> [Months -> OrderStatuses \cup {None}]]
      /\ object'[o][month] = job[r].shows
      /\ \A q \in Orders, m \in Months : Stored(q, m) => Stored(q, m)'
    BY <1>1, PutObject DEF UploadDocument
<1>5. TypeOK' /\ job'[r] = new /\ Keeps(r)
    BY <1>2, <1>3, <1>4 DEF InvoicesInv, TypeOK, Keeps
<1>6. JobInv(r)'
    BY <1>1, <1>2, <1>3, <1>4, <1>5 DEF JobInv, At, Stored
<1>7. AloneInv(r)'
    BY <1>1, <1>2, <1>3, <1>5 DEF AloneInv, At, Keeps, UploadDocument
<1>8. \A q \in Orders : RowInv(q)'
    BY <1>3, <1>4 DEF InvoicesInv, TypeOK, InvoiceRows, RowInv, InUse
<1> QED BY <1>5, <1>6, <1>7, <1>8, OthersKept DEF InvoicesInv

LEMMA UploadFailsStep ==
    ASSUME InvoicesInv, NEW r \in Requests, UploadFails(r)
    PROVE  InvoicesInv'
<1> DEFINE o == job[r].order
<1>1. o \in Orders /\ job[r].shows \in OrderStatuses /\ month \in Months
    BY DEF UploadFails, At, InvoicesInv, JobInv, TypeOK
<1>2. job' = [job EXCEPT ![r] = Idle] /\ UNCHANGED <<status, month, invoice>>
    BY DEF UploadFails
<1>3. /\ object' \in [Orders -> [Months -> OrderStatuses \cup {None}]]
      /\ \A q \in Orders, m \in Months : Stored(q, m) => Stored(q, m)'
    <2>1. CASE object' = object
        BY <2>1 DEF InvoicesInv, TypeOK, Stored
    <2>2. CASE object' = [object EXCEPT ![o][month] = job[r].shows]
        BY <1>1, <2>2, PutObject
    <2> QED BY <2>1, <2>2 DEF UploadFails
<1>4. TypeOK' /\ job'[r] = Idle /\ Keeps(r)
    BY <1>2, <1>3, IdleType DEF InvoicesInv, TypeOK, Keeps
<1>5. JobInv(r)' /\ AloneInv(r)'
    BY <1>4, IdleType DEF JobInv, AloneInv, At
<1>6. \A q \in Orders : RowInv(q)'
    BY <1>2, <1>3 DEF InvoicesInv, TypeOK, InvoiceRows, RowInv, InUse
<1> QED BY <1>4, <1>5, <1>6, OthersKept DEF InvoicesInv

LEMMA RecordUrlStep ==
    ASSUME InvoicesInv, NEW r \in Requests, RecordUrl(r)
    PROVE  InvoicesInv'
<1> DEFINE o == job[r].order
           key == job[r].key
<1>1. /\ o \in Orders /\ key \in Months /\ Stored(o, key) /\ invoice[o].exists
      /\ RowInv(o) /\ invoice[o] \in InvoiceRows
    BY DEF RecordUrl, At, InvoicesInv, JobInv, TypeOK
<1>2. /\ invoice' = [invoice EXCEPT ![o].url = key]
      /\ job' = [job EXCEPT ![r] = Idle]
      /\ UNCHANGED <<status, month, object>>
    BY DEF RecordUrl
<1>3. invoice'[o] \in InvoiceRows /\ invoice'[o].exists /\ invoice'[o].url = key
    BY <1>1, <1>2 DEF InvoicesInv, TypeOK, InvoiceRows
<1>4. \A q \in Orders \ {o} : invoice'[q] = invoice[q]
    BY <1>2 DEF InvoicesInv, TypeOK
<1>5. TypeOK'
    <2>1. invoice' \in [Orders -> InvoiceRows]
        BY <1>2, <1>3, <1>4 DEF InvoicesInv, TypeOK
    <2>2. job' \in [Requests -> Jobs]
        BY <1>2, IdleType DEF InvoicesInv, TypeOK
    <2> QED BY <1>2, <2>1, <2>2 DEF InvoicesInv, TypeOK
<1>6. job'[r] = Idle /\ Keeps(r)
    BY <1>2, <1>3, <1>4, IdleType DEF InvoicesInv, TypeOK, Keeps, Stored
<1>7. JobInv(r)' /\ AloneInv(r)'
    BY <1>6, IdleType DEF JobInv, AloneInv, At
<1>8. \A q \in Orders : RowInv(q)'
    BY <1>1, <1>2, <1>3, <1>4 DEF InvoicesInv, RowInv, InUse, Stored
<1> QED BY <1>5, <1>6, <1>7, <1>8, OthersKept DEF InvoicesInv

LEMMA NextMonthStep ==
    ASSUME InvoicesInv, NextMonth
    PROVE  InvoicesInv'
<1>1. TypeOK'
    BY InvoicesAssumption DEF InvoicesInv, TypeOK, NextMonth, Months
<1> QED BY <1>1 DEF InvoicesInv, NextMonth, RowInv, JobInv, AloneInv, At, InUse, Stored

LEMMA MoveOrderStep ==
    ASSUME InvoicesInv, NEW o \in Orders, NEW s \in OrderStatuses, MoveOrder(o, s)
    PROVE  InvoicesInv'
<1>1. TypeOK' /\ \A q \in Orders : InUse(q) => InUse(q)'
    BY DEF InvoicesInv, TypeOK, MoveOrder, InUse
<1>2. \A q \in Orders : RowInv(q)'
    BY <1>1 DEF InvoicesInv, MoveOrder, RowInv, Stored
<1>3. \A r \in Requests : JobInv(r)' /\ AloneInv(r)'
    BY <1>1 DEF InvoicesInv, MoveOrder, JobInv, AloneInv, At, Stored
<1> QED BY <1>1, <1>2, <1>3 DEF InvoicesInv

-------------------------------------------------------------------------------

LEMMA InitInv == Init => InvoicesInv
<1> SUFFICES ASSUME Init PROVE InvoicesInv
    OBVIOUS
<1>1. TypeOK
    BY InvoicesAssumption, IdleType DEF Init, TypeOK, NoRow, InvoiceRows, Months
<1> QED BY <1>1, IdleType DEF Init, InvoicesInv, RowInv, JobInv, AloneInv, At, NoRow

LEMMA StepInv == InvoicesInv /\ [Next]_vars => InvoicesInv'
<1> SUFFICES ASSUME InvoicesInv, [Next]_vars PROVE InvoicesInv'
    OBVIOUS
<1>1. ASSUME NEW r \in Requests, Step(r) PROVE InvoicesInv'
    <2>1. CASE Abort(r)
        BY <2>1, EndStep DEF Abort
    <2> QED BY <1>1, <2>1, StartReadStep, FindInvoiceStep, FindOrderStep, CreateInvoiceStep,
               UploadDocumentStep, UploadFailsStep, RecordUrlStep DEF Step
<1>2. CASE UNCHANGED vars
    BY <1>2 DEF vars, InvoicesInv, TypeOK, RowInv, JobInv, AloneInv, At, InUse, Stored
<1> QED BY <1>1, <1>2, NextMonthStep, MoveOrderStep DEF Next

\* InvoicesInv, what every request for an invoice may still rely on, holds in
\* every reachable state (ensureInvoice, persistPdfIfConfigured).
THEOREM Invariance == Spec => []InvoicesInv
BY InitInv, StepInv, PTL DEF Spec

\* Every variable of Invoices keeps its type (the rows of prisma.invoice).
THEOREM TypeCorrect == Spec => []TypeOK
<1>1. InvoicesInv => TypeOK
    BY DEF InvoicesInv
<1> QED BY Invariance, <1>1, PTL

\* The recorded URL of an invoice always names a stored document of its order
\* (persistPdfIfConfigured).
THEOREM DocumentSafety == Spec => []StoredDocumentsExist
<1>1. InvoicesInv => StoredDocumentsExist
    BY DEF InvoicesInv, RowInv, StoredDocumentsExist, Stored
<1> QED BY Invariance, <1>1, PTL

\* A request that overlaps no other on its order neither conflicts nor stores
\* over a recorded document (ensureInvoice, persistPdfIfConfigured).
THEOREM LoneReaderSafety == Spec => []LoneReadersSettleInvoices
<1>1. InvoicesInv => LoneReadersSettleInvoices
    BY DEF InvoicesInv, AloneInv, LoneReadersSettleInvoices, Conflicts, At
<1> QED BY Invariance, <1>1, PTL

-------------------------------------------------------------------------------

\* Feed has copies of its own of what it extends.
LEMMA SameCardinality == \A S : F!Cardinality(S) = Cardinality(S)
BY DEF F!Cardinality, Cardinality

LEMMA SameStatuses == F!OrderStatuses = OrderStatuses /\ F!ReadyForPickup = ReadyForPickup
BY DEF F!OrderStatuses, OrderStatuses, F!ReadyForPickup, ReadyForPickup

(***************************************************************************)
(* Feed.  A step of a request is about one order; of the others it changes *)
(* nothing, and it leaves the other requests as they are.                  *)
(***************************************************************************)
Told == {"code", "announce", "emit", "notify", "tell"}

Alone(r) == \A s \in Requests \ {r} : req'[s] = req[s]

OnlyAbout(r, o) ==
    /\ Alone(r)
    /\ req[r].pc \in Told => req[r].order = o
    /\ req'[r].pc \in Told => req'[r].order = o
    /\ \A p \in Orders \ {o} :
        /\ status'[p] = status[p]
        /\ owed'[p] = owed[p]
        /\ p \in disturbed' <=> p \in disturbed
        /\ p \in cutShort' <=> p \in cutShort
        /\ \A l \in F!Streams : /\ stream'[l].connected = stream[l].connected
                                /\ stream'[l].known[p] = stream[l].known[p]

\* The order keeps what FeedInv says of it.
KeepsOrder(o) == F!FollowInv(o)' /\ F!OwedInv(o)'

LEMMA OtherOrders ==
    ASSUME F!FeedInv, NEW r \in Requests, NEW o, OnlyAbout(r, o), NEW p \in Orders \ {o}
    PROVE  KeepsOrder(p)
<1>1. F!Telling(p)' = F!Telling(p)
    BY DEF OnlyAbout, Alone, Told, F!Telling
<1>2. F!Notifying(p)' = F!Notifying(p)
    BY DEF OnlyAbout, Alone, Told, F!Notifying
<1>3. F!FollowInv(p) /\ F!OwedInv(p)
    BY DEF F!FeedInv
<1>4. \A s \in F!Telling(p) : req'[s] = req[s]
    BY DEF OnlyAbout, Alone, Told, F!Telling
<1>5. F!FollowInv(p)'
    BY <1>1, <1>3, <1>4 DEF F!FollowInv, OnlyAbout
<1>6. F!OwedInv(p)'
    BY <1>2, <1>3 DEF F!OwedInv, OnlyAbout
<1> QED BY <1>5, <1>6 DEF KeepsOrder

\* Nobody begins or ends to tell, and of no order anything changes.
LEMMA NothingTold ==
    ASSUME F!FeedInv, NEW r \in Requests, Alone(r),
           req[r].pc \notin Told, req'[r].pc \notin Told,
           UNCHANGED <<status, stream, owed, cutShort, disturbed>>
    PROVE  \A o \in Orders : KeepsOrder(o)
<1> SUFFICES ASSUME NEW o \in Orders PROVE KeepsOrder(o)
    OBVIOUS
<1>1. F!Telling(o)' = F!Telling(o)
    BY DEF Alone, Told, F!Telling
<1>2. F!Notifying(o)' = F!Notifying(o)
    BY DEF Alone, Told, F!Notifying
<1>3. \A s \in F!Telling(o) : req'[s] = req[s]
    BY DEF Alone, Told, F!Telling
<1>4. F!FollowInv(o) /\ F!OwedInv(o)
    BY DEF F!FeedInv
<1> QED BY <1>1, <1>2, <1>3, <1>4 DEF KeepsOrder, F!FollowInv, F!OwedInv

LEMMA NoneIsNoStatus == None \notin OrderStatuses \cup {NoOrder}
BY InvoicesAssumption

(***************************************************************************)
(* What the requests become.                                               *)
(***************************************************************************)
LEMMA RequestUpdate ==
    ASSUME F!TypeOK, NEW r \in Requests, NEW new \in F!RequestStates,
           req' = [req EXCEPT ![r] = new]
    PROVE  /\ req' \in [Requests -> F!RequestStates]
           /\ req'[r] = new
           /\ Alone(r)
BY DEF F!TypeOK, Alone

LEMMA IdleRequest ==
    /\ F!Idle \in F!RequestStates
    /\ F!Idle.pc = "idle" /\ F!Idle.saw = None
BY DEF F!Idle, F!RequestStates, F!Known

\* One that ends.
LEMMA RequestEnds ==
    ASSUME F!TypeOK, NEW r \in Requests, req' = [req EXCEPT ![r] = F!Idle]
    PROVE  /\ req' \in [Requests -> F!RequestStates]
           /\ req'[r] = F!Idle
           /\ req'[r].pc = "idle" /\ req'[r].saw = None
           /\ Alone(r)
BY RequestUpdate, IdleRequest

\* One that begins.
LEMMA RequestBegins ==
    ASSUME F!TypeOK, NEW r \in Requests, NEW o \in Orders, NEW s \in F!Known,
           NEW pc \in {"move", "collect", "complete", "provider", "notify"},
           F!Begin(r, o, pc, s)
    PROVE  /\ req' \in [Requests -> F!RequestStates]
           /\ req'[r].pc = pc
           /\ req'[r].order = o
           /\ req'[r].status = s
           /\ req'[r].saw = None
           /\ req[r].pc = "idle"
           /\ Alone(r)
           /\ started' \in Nat
<1> DEFINE new == [F!Idle EXCEPT !.pc = pc, !.order = o, !.status = s]
<1>1. /\ new \in F!RequestStates
      /\ new.pc = pc /\ new.order = o /\ new.status = s /\ new.saw = None
    BY DEF F!Idle, F!RequestStates, F!Known
<1>2. req' = [req EXCEPT ![r] = new]
    BY DEF F!Begin
<1> HIDE DEF new
<1>3. started' \in Nat /\ req[r].pc = "idle"
    BY DEF F!Begin, F!TypeOK, F!At
<1> QED BY <1>1, <1>2, <1>3, RequestUpdate

\* One that goes on to pc.
LEMMA RequestGoesOn ==
    ASSUME F!TypeOK, NEW r \in Requests,
           NEW pc \in Told, req' = [req EXCEPT ![r].pc = pc]
    PROVE  /\ req' \in [Requests -> F!RequestStates]
           /\ req'[r].pc = pc
           /\ req'[r].order = req[r].order
           /\ req'[r].status = req[r].status
           /\ req'[r].saw = req[r].saw
           /\ Alone(r)
<1> DEFINE new == [req[r] EXCEPT !.pc = pc]
<1>1. /\ new \in F!RequestStates /\ new.pc = pc
      /\ new.order = req[r].order /\ new.status = req[r].status
      /\ new.saw = req[r].saw
    BY DEF F!TypeOK, F!RequestStates, Told
<1>2. req' = [req EXCEPT ![r] = new]
    OBVIOUS
<1> HIDE DEF new
<1> QED BY <1>1, <1>2, RequestUpdate

\* What holds of all requests, when one has taken a step.
LEMMA OtherRequests ==
    ASSUME F!FeedInv, NEW r \in Requests, Alone(r), F!RequestInv(r)',
           DOMAIN notes \subseteq DOMAIN notes'
    PROVE  \A s \in Requests : F!RequestInv(s)'
BY DEF F!FeedInv, F!RequestInv, F!At, Alone

(***************************************************************************)
(* What becomes of the order a step is about.                              *)
(***************************************************************************)
LEMMA NotifyingIsFinite ==
    ASSUME NEW o
    PROVE  /\ IsFiniteSet(F!Notifying(o))
           /\ F!Cardinality(F!Notifying(o)) \in Nat
<1>1. F!Notifying(o) \in SUBSET Requests
    BY DEF F!Notifying
<1> QED BY <1>1, SameCardinality, FulfilmentAssumption, FS_Subset, FS_CardinalityType

LEMMA WroteOrder ==
    ASSUME F!FeedInv, NEW r \in Requests, NEW o \in Orders, NEW s \in OrderStatuses,
           F!Write(r, o, s), Alone(r), req[r].pc \notin Told,
           req'[r].pc \in {"code", "notify"}, req'[r].order = o, req'[r].status = s,
           req'[r].pc = "code" => s # "PLACED", req'[r].saw = None,
           UNCHANGED <<stream, cutShort>>
    PROVE  /\ status' \in [Orders -> OrderStatuses \cup {NoOrder}]
           /\ owed' \in [Orders -> Nat]
           /\ disturbed' \in SUBSET Orders
           /\ \A p \in Orders : KeepsOrder(p)
<1>1. F!TypeOK /\ F!OwedInv(o)
    BY DEF F!FeedInv
<1>2. status' = [status EXCEPT ![o] = s] /\ status' \in [Orders -> OrderStatuses \cup {NoOrder}]
    BY <1>1, SameStatuses DEF F!Write, F!TypeOK
<1>3. /\ owed' \in [Orders -> Nat]
      /\ owed'[o] = IF s = "PLACED" THEN owed[o] + 1 ELSE owed[o]
      /\ \A p \in Orders \ {o} : owed'[p] = owed[p]
    BY <1>1 DEF F!Write, F!TypeOK
<1>4. /\ disturbed' \in SUBSET Orders
      /\ \A p \in Orders \ {o} : p \in disturbed' <=> p \in disturbed
      /\ o \notin disturbed' => F!Telling(o) \ {r} = {}
    BY <1>1 DEF F!Write, F!TypeOK
<1>5. \A p \in Orders \ {o} : KeepsOrder(p)
    <2>1. OnlyAbout(r, o)
        BY <1>1, <1>2, <1>3, <1>4 DEF OnlyAbout, F!TypeOK
    <2> QED BY <2>1, OtherOrders
<1>6. F!FollowInv(o)'
    <2> SUFFICES ASSUME o \notin disturbed'
                 PROVE  /\ \A q \in F!Telling(o)' :
                              {req'[q].status, req'[q].saw} \subseteq {status'[o], None}
                        /\ F!Telling(o)' # {}
        BY DEF F!FollowInv
    <2>1. F!Telling(o)' = {r}
        BY <1>4 DEF F!Telling, Alone, Told
    <2>2. status'[o] = s
        BY <1>1, <1>2 DEF F!TypeOK
    <2> QED BY <2>1, <2>2
<1>7. F!OwedInv(o)'
    <2>1. r \notin F!Notifying(o)
        BY DEF F!Notifying, Told
    <2>2. CASE s = "PLACED"
        <3>1. F!Notifying(o)' = F!Notifying(o) \cup {r}
            BY <2>2 DEF F!Notifying, Alone
        <3>2. F!Cardinality(F!Notifying(o)') = F!Cardinality(F!Notifying(o)) + 1
            BY <2>1, <3>1, NotifyingIsFinite, FS_AddElement, SameCardinality
        <3>3. owed[o] \in Nat /\ F!Cardinality(F!Notifying(o)) \in Nat
            BY <1>1, NotifyingIsFinite DEF F!TypeOK
        <3> QED BY <1>1, <1>3, <2>2, <3>2, <3>3 DEF F!OwedInv
    <2>3. CASE s # "PLACED"
        <3>1. F!Notifying(o)' = F!Notifying(o)
            BY <2>1, <2>3 DEF F!Notifying, Alone
        <3> QED BY <1>1, <1>3, <2>3, <3>1 DEF F!OwedInv
    <2> QED BY <2>2, <2>3
<1> QED BY <1>2, <1>3, <1>4, <1>5, <1>6, <1>7 DEF KeepsOrder

LEMMA WroteSilently ==
    ASSUME F!FeedInv, NEW r \in Requests, NEW o \in Orders, NEW s \in OrderStatuses,
           F!WriteSilently(o, s), Alone(r), req[r].pc \notin Told, req'[r].pc \notin Told,
           UNCHANGED <<stream, owed, cutShort>>
    PROVE  /\ status' \in [Orders -> OrderStatuses \cup {NoOrder}]
           /\ disturbed' \in SUBSET Orders
           /\ \A p \in Orders : KeepsOrder(p)
<1>1. F!TypeOK /\ F!OwedInv(o)
    BY DEF F!FeedInv
<1>2. /\ status' \in [Orders -> OrderStatuses \cup {NoOrder}]
      /\ \A p \in Orders \ {o} : status'[p] = status[p]
    BY <1>1, SameStatuses DEF F!WriteSilently, F!TypeOK
<1>3. disturbed' = disturbed \cup {o}
    BY DEF F!WriteSilently
<1>4. OnlyAbout(r, o)
    BY <1>2, <1>3 DEF OnlyAbout
<1>5. F!FollowInv(o)'
    BY <1>3 DEF F!FollowInv
<1>6. F!Notifying(o)' = F!Notifying(o)
    BY DEF F!Notifying, Alone, Told
<1>7. F!OwedInv(o)'
    BY <1>1, <1>6 DEF F!OwedInv
<1> QED BY <1>1, <1>2, <1>3, <1>4, <1>5, <1>7, OtherOrders DEF KeepsOrder, F!TypeOK

(***************************************************************************)
(* One lemma for each action of a request.                                 *)
(***************************************************************************)
LEMMA Assemble ==
    ASSUME F!FeedInv, NEW r \in Requests, Alone(r), F!TypeOK', F!RequestInv(r)',
           DOMAIN notes \subseteq DOMAIN notes', \A o \in Orders : KeepsOrder(o)
    PROVE  F!FeedInv'
BY OtherRequests DEF F!FeedInv, KeepsOrder

LEMMA CreateUnpaidStep ==
    ASSUME F!FeedInv, NEW r \in Requests, NEW o \in Orders, F!CreateUnpaid(r, o)
    PROVE  F!FeedInv'
<1>1. F!TypeOK /\ F!Begin(r, o, "notify", "PENDING_PAYMENT")
    BY DEF F!FeedInv, F!CreateUnpaid
<1>2. "PENDING_PAYMENT" \in OrderStatuses /\ "PENDING_PAYMENT" \in F!Known
    BY SameStatuses DEF OrderStatuses, F!Known
<1>3. /\ req' \in [Requests -> F!RequestStates]
      /\ req'[r].pc = "notify" /\ req'[r].order = o /\ req'[r].status = "PENDING_PAYMENT"
      /\ req'[r].saw = None /\ req[r].pc = "idle" /\ Alone(r) /\ started' \in Nat
    BY <1>1, <1>2, RequestBegins
<1>4. F!Write(r, o, "PENDING_PAYMENT") /\ UNCHANGED <<attached, notes, stream, cutShort>>
    BY DEF F!CreateUnpaid
<1>5. /\ status' \in [Orders -> OrderStatuses \cup {NoOrder}]
      /\ owed' \in [Orders -> Nat]
      /\ disturbed' \in SUBSET Orders
      /\ \A p \in Orders : KeepsOrder(p)
    BY <1>2, <1>3, <1>4, WroteOrder DEF Told
<1>6. F!TypeOK'
    BY <1>1, <1>3, <1>4, <1>5, SameStatuses DEF F!TypeOK
<1>7. F!RequestInv(r)'
    BY <1>2, <1>3, NoneIsNoStatus DEF F!RequestInv, F!At
<1> QED BY <1>3, <1>4, <1>5, <1>6, <1>7, Assemble

LEMMA CreatePaidStep ==
    ASSUME F!FeedInv, NEW r \in Requests, NEW o \in Orders, F!CreatePaid(r, o)
    PROVE  F!FeedInv'
<1>1. F!TypeOK /\ F!Begin(r, o, "collect", "PLACED")
    BY DEF F!FeedInv, F!CreatePaid
<1>2. "PENDING_PAYMENT" \in OrderStatuses /\ "PLACED" \in F!Known
    BY SameStatuses DEF OrderStatuses, F!Known
<1>3. /\ req' \in [Requests -> F!RequestStates]
      /\ req'[r].pc = "collect" /\ req'[r].order = o /\ req'[r].status = "PLACED"
      /\ req'[r].saw = None /\ req[r].pc = "idle" /\ Alone(r) /\ started' \in Nat
    BY <1>1, <1>2, RequestBegins
<1>4. /\ F!WriteSilently(o, "PENDING_PAYMENT")
      /\ UNCHANGED <<attached, notes, stream, owed, cutShort>>
    BY DEF F!CreatePaid
<1>5. /\ status' \in [Orders -> OrderStatuses \cup {NoOrder}]
      /\ disturbed' \in SUBSET Orders
      /\ \A p \in Orders : KeepsOrder(p)
    BY <1>2, <1>3, <1>4, WroteSilently DEF Told
<1>6. F!TypeOK'
    BY <1>1, <1>3, <1>4, <1>5, SameStatuses DEF F!TypeOK
<1>7. F!RequestInv(r)'
    BY <1>3 DEF F!RequestInv, F!At
<1> QED BY <1>3, <1>4, <1>5, <1>6, <1>7, Assemble

LEMMA StartCheckoutStep ==
    ASSUME F!FeedInv, NEW r \in Requests, NEW o \in Orders, F!StartCheckout(r, o)
    PROVE  F!FeedInv'
<1>1. F!TypeOK /\ F!Begin(r, o, "provider", "PENDING_PAYMENT")
    BY DEF F!FeedInv, F!StartCheckout
<1>2. "PENDING_PAYMENT" \in OrderStatuses /\ "PENDING_PAYMENT" \in F!Known
    BY SameStatuses DEF OrderStatuses, F!Known
<1>3. /\ req' \in [Requests -> F!RequestStates]
      /\ req'[r].pc = "provider" /\ req'[r].order = o
      /\ req'[r].saw = None /\ req[r].pc = "idle" /\ Alone(r) /\ started' \in Nat
    BY <1>1, <1>2, RequestBegins
<1>4. /\ F!WriteSilently(o, "PENDING_PAYMENT")
      /\ UNCHANGED <<attached, notes, stream, owed, cutShort>>
    BY DEF F!StartCheckout
<1>5. /\ status' \in [Orders -> OrderStatuses \cup {NoOrder}]
      /\ disturbed' \in SUBSET Orders
      /\ \A p \in Orders : KeepsOrder(p)
    BY <1>2, <1>3, <1>4, WroteSilently DEF Told
<1>6. F!TypeOK'
    BY <1>1, <1>3, <1>4, <1>5, SameStatuses DEF F!TypeOK
<1>7. F!RequestInv(r)'
    BY <1>3 DEF F!RequestInv, F!At
<1> QED BY <1>3, <1>4, <1>5, <1>6, <1>7, Assemble

LEMMA EndCheckoutStep ==
    ASSUME F!FeedInv, NEW r \in Requests, F!EndCheckout(r)
    PROVE  F!FeedInv'
<1>1. F!TypeOK /\ F!RequestInv(r)
    BY DEF F!FeedInv
<1>2. PICK o \in Orders : o = req[r].order
    BY <1>1 DEF F!EndCheckout, F!RequestInv, F!At
<1>3. PICK s \in OrderStatuses : F!WriteSilently(o, s)
    BY <1>2 DEF F!EndCheckout, OrderStatuses
<1>4. /\ req' \in [Requests -> F!RequestStates]
      /\ req'[r].pc = "idle" /\ req'[r].saw = None /\ req[r].pc = "provider" /\ Alone(r)
    BY <1>1, RequestEnds DEF F!EndCheckout, F!At
<1>5. /\ attached' \in SUBSET Orders
      /\ UNCHANGED <<notes, stream, started, owed, cutShort>>
    BY <1>1, <1>2 DEF F!EndCheckout, F!TypeOK
<1>6. /\ status' \in [Orders -> OrderStatuses \cup {NoOrder}]
      /\ disturbed' \in SUBSET Orders
      /\ \A p \in Orders : KeepsOrder(p)
    BY <1>3, <1>4, <1>5, WroteSilently DEF Told
<1>7. F!TypeOK'
    BY <1>1, <1>4, <1>5, <1>6, SameStatuses DEF F!TypeOK
<1>8. F!RequestInv(r)'
    BY <1>4 DEF F!RequestInv, F!At
<1> QED BY <1>4, <1>5, <1>6, <1>7, <1>8, Assemble

\* A request that commits the status it set out with, and goes on to tell it.
LEMMA CommitStep ==
    ASSUME F!FeedInv, NEW r \in Requests, NEW s \in OrderStatuses,
           F!Write(r, req[r].order, s), req[r].pc \in {"collect", "move", "complete"},
           NEW new \in F!RequestStates, req' = [req EXCEPT ![r] = new],
           new.pc \in {"code", "notify"}, new.order = req[r].order, new.status = s,
           new.pc = "code" => s \in ReadyForPickup, new.saw = None,
           UNCHANGED <<attached, notes, stream, started, cutShort>>
    PROVE  F!FeedInv'
<1>1. F!TypeOK /\ F!RequestInv(r)
    BY DEF F!FeedInv
<1>2. PICK o \in Orders : o = req[r].order
    BY <1>1 DEF F!RequestInv
<1>3. req' \in [Requests -> F!RequestStates] /\ req'[r] = new /\ Alone(r)
    BY <1>1, RequestUpdate
<1>7. new.pc = "code" => s # "PLACED"
    BY DEF ReadyForPickup
<1>4. /\ status' \in [Orders -> OrderStatuses \cup {NoOrder}]
      /\ owed' \in [Orders -> Nat]
      /\ disturbed' \in SUBSET Orders
      /\ \A p \in Orders : KeepsOrder(p)
    BY <1>2, <1>3, <1>7, WroteOrder DEF Told
<1>5. F!TypeOK'
    BY <1>1, <1>3, <1>4, SameStatuses DEF F!TypeOK
<1>6. F!RequestInv(r)'
    BY <1>2, <1>3, NoneIsNoStatus, SameStatuses DEF F!RequestInv, F!At
<1> QED BY <1>3, <1>4, <1>5, <1>6, Assemble

LEMMA MarkCounterOrderPlacedStep ==
    ASSUME F!FeedInv, NEW r \in Requests, F!MarkCounterOrderPlaced(r)
    PROVE  F!FeedInv'
<1> DEFINE new == [req[r] EXCEPT !.pc = "notify", !.lenient = TRUE]
<1>1. F!TypeOK /\ req[r].pc = "collect" /\ req[r].status = "PLACED" /\ req[r].saw = None
    BY DEF F!FeedInv, F!RequestInv, F!MarkCounterOrderPlaced, F!At
<1>2. /\ new \in F!RequestStates /\ new.pc = "notify"
      /\ new.order = req[r].order /\ new.status = "PLACED" /\ new.saw = None
    BY <1>1 DEF F!TypeOK, F!RequestStates
<1>3. req' = [req EXCEPT ![r] = new]
    BY <1>1 DEF F!MarkCounterOrderPlaced, F!TypeOK, F!RequestStates
<1>4. "PLACED" \in OrderStatuses
    BY DEF OrderStatuses
<1> HIDE DEF new
<1> QED BY <1>1, <1>2, <1>3, <1>4, CommitStep DEF F!MarkCounterOrderPlaced

LEMMA UpdateStatusStep ==
    ASSUME F!FeedInv, NEW r \in Requests, F!UpdateStatus(r)
    PROVE  F!FeedInv'
<1> DEFINE pc == IF req[r].status \in F!ReadyForPickup THEN "code" ELSE "notify"
           new == [req[r] EXCEPT !.pc = pc]
<1>1. F!TypeOK /\ req[r].pc = "move" /\ req[r].status \in OrderStatuses /\ req[r].saw = None
    BY SameStatuses DEF F!FeedInv, F!RequestInv, F!UpdateStatus, F!At
<1>2. /\ new \in F!RequestStates /\ new.pc \in {"code", "notify"}
      /\ new.order = req[r].order /\ new.status = req[r].status /\ new.saw = None
      /\ new.pc = "code" => req[r].status \in ReadyForPickup
    BY <1>1, SameStatuses DEF F!TypeOK, F!RequestStates
<1>3. req' = [req EXCEPT ![r] = new]
    BY DEF F!UpdateStatus
<1> HIDE DEF new
<1> QED BY <1>1, <1>2, <1>3, CommitStep DEF F!UpdateStatus

LEMMA CompletePickupStep ==
    ASSUME F!FeedInv, NEW r \in Requests, F!CompletePickup(r)
    PROVE  F!FeedInv'
<1> DEFINE new == [req[r] EXCEPT !.pc = "notify", !.carries = FALSE]
<1>1. F!TypeOK /\ req[r].pc = "complete" /\ req[r].status = "COMPLETED" /\ req[r].saw = None
    BY DEF F!FeedInv, F!RequestInv, F!CompletePickup, F!At
<1>2. /\ new \in F!RequestStates /\ new.pc = "notify"
      /\ new.order = req[r].order /\ new.status = "COMPLETED" /\ new.saw = None
    BY <1>1 DEF F!TypeOK, F!RequestStates
<1>3. req' = [req EXCEPT ![r] = new]
    BY <1>1 DEF F!CompletePickup, F!TypeOK, F!RequestStates
<1>4. "COMPLETED" \in OrderStatuses
    BY DEF OrderStatuses
<1> HIDE DEF new
<1> QED BY <1>1, <1>2, <1>3, <1>4, CommitStep DEF F!CompletePickup

LEMMA FinalizePaidOrderStep ==
    ASSUME F!FeedInv, NEW r \in Requests, NEW o \in Orders, F!FinalizePaidOrder(r, o)
    PROVE  F!FeedInv'
<1> DEFINE places == status[o] = "PENDING_PAYMENT"
           new == [F!Idle EXCEPT !.pc = IF places THEN "notify" ELSE "tell",
                                 !.order = o,
                                 !.status = IF places THEN "PLACED" ELSE status[o],
                                 !.lenient = TRUE]
<1>1. F!TypeOK /\ status[o] \in F!Known /\ "PLACED" \in F!Known
    BY SameStatuses DEF F!FeedInv, F!TypeOK, F!Known, OrderStatuses
<1>2. /\ new \in F!RequestStates /\ new.order = o /\ new.saw = None
      /\ places => new.pc = "notify" /\ new.status = "PLACED"
      /\ ~places => new.pc = "tell" /\ new.status = status[o]
    BY <1>1 DEF F!Idle, F!RequestStates, F!Known
<1>3. req' = [req EXCEPT ![r] = new] /\ req[r].pc = "idle"
    BY DEF F!FinalizePaidOrder, F!At
<1>4. UNCHANGED <<attached, notes, stream, cutShort>>
    BY DEF F!FinalizePaidOrder
<1>5. CASE places
    <2>1. F!Write(r, o, "PLACED") /\ started' \in Nat
        BY <1>1, <1>5 DEF F!FinalizePaidOrder, F!TypeOK
    <2> HIDE DEF new
    <2>2. req' \in [Requests -> F!RequestStates] /\ req'[r] = new /\ Alone(r)
        BY <1>1, <1>2, <1>3, RequestUpdate
    <2>3. "PLACED" \in OrderStatuses
        BY DEF OrderStatuses
    <2>4. /\ req'[r].pc = "notify" /\ req'[r].order = o
          /\ req'[r].status = "PLACED" /\ req'[r].saw = None
        BY <1>2, <1>5, <2>2
    <2>5. /\ status' \in [Orders -> OrderStatuses \cup {NoOrder}]
          /\ owed' \in [Orders -> Nat]
          /\ disturbed' \in SUBSET Orders
          /\ \A p \in Orders : KeepsOrder(p)
        BY <1>3, <1>4, <2>1, <2>2, <2>3, <2>4, WroteOrder DEF Told
    <2>6. F!TypeOK'
        BY <1>1, <1>4, <2>1, <2>2, <2>5, SameStatuses DEF F!TypeOK
    <2>7. F!RequestInv(r)'
        BY <2>3, <2>4, NoneIsNoStatus DEF F!RequestInv, F!At
    <2> QED BY <1>4, <2>2, <2>5, <2>6, <2>7, Assemble
<1>6. CASE ~places
    <2>1. UNCHANGED <<status, owed, disturbed, started>>
        BY <1>6 DEF F!FinalizePaidOrder
    <2> HIDE DEF new
    <2>2. req' \in [Requests -> F!RequestStates] /\ req'[r] = new /\ Alone(r)
        BY <1>1, <1>2, <1>3, RequestUpdate
    <2>3. /\ req'[r].pc = "tell" /\ req'[r].order = o
          /\ req'[r].status = status[o] /\ req'[r].saw = None
        BY <1>2, <1>6, <2>2
    <2>4. \A p \in Orders \ {o} : KeepsOrder(p)
        <3>1. OnlyAbout(r, o)
            BY <1>3, <1>4, <2>1, <2>2, <2>3 DEF OnlyAbout, Told
        <3> QED BY <3>1, OtherOrders
    <2>5. F!FollowInv(o)'
        <3>1. F!FollowInv(o)
            BY DEF F!FeedInv
        <3>2. F!Telling(o)' = F!Telling(o) \cup {r}
            BY <2>2, <2>3 DEF F!Telling, Alone
        <3>3. \A q \in F!Telling(o) \ {r} : req'[q] = req[q]
            BY <2>2 DEF F!Telling, Alone
        <3> QED BY <2>1, <2>3, <3>1, <3>2, <3>3 DEF F!FollowInv
    <2>6. F!OwedInv(o)'
        <3>1. F!OwedInv(o)
            BY DEF F!FeedInv
        <3>2. F!Notifying(o)' = F!Notifying(o)
            BY <1>3, <2>2, <2>3 DEF F!Notifying, Alone
        <3> QED BY <1>4, <2>1, <3>1, <3>2 DEF F!OwedInv
    <2>7. F!TypeOK'
        BY <1>1, <1>4, <2>1, <2>2, SameStatuses DEF F!TypeOK
    <2>8. F!RequestInv(r)'
        BY <1>1, <2>3, NoneIsNoStatus, SameStatuses DEF F!RequestInv, F!At, F!TypeOK
    <2>9. \A p \in Orders : KeepsOrder(p)
        BY <2>4, <2>5, <2>6 DEF KeepsOrder
    <2> QED BY <1>4, <2>2, <2>7, <2>8, <2>9, Assemble
<1> QED BY <1>5, <1>6

\* One that has read the order, and is about to write.
LEMMA SetsOut ==
    ASSUME F!FeedInv, NEW r \in Requests, NEW o \in Orders, NEW s \in OrderStatuses,
           NEW pc \in {"move", "complete"}, pc = "complete" => s = "COMPLETED",
           F!Begin(r, o, pc, s),
           UNCHANGED <<status, attached, notes, stream, owed, cutShort, disturbed>>
    PROVE  F!FeedInv'
<1>1. F!TypeOK /\ s \in F!Known
    BY SameStatuses DEF F!FeedInv, F!Known
<1>2. /\ req' \in [Requests -> F!RequestStates]
      /\ req'[r].pc = pc /\ req'[r].order = o /\ req'[r].status = s
      /\ req'[r].saw = None /\ req[r].pc = "idle" /\ Alone(r) /\ started' \in Nat
    BY <1>1, RequestBegins
<1>3. \A p \in Orders : KeepsOrder(p)
    BY <1>2, NothingTold DEF Told
<1>4. F!TypeOK'
    BY <1>1, <1>2 DEF F!TypeOK
<1>5. F!RequestInv(r)'
    BY <1>2, SameStatuses DEF F!RequestInv, F!At
<1> QED BY <1>2, <1>3, <1>4, <1>5, Assemble

LEMMA StartUpdateStep ==
    ASSUME F!FeedInv, NEW r \in Requests, NEW o \in Orders, NEW s \in F!OrderStatuses,
           F!StartUpdate(r, o, s)
    PROVE  F!FeedInv'
BY SetsOut, SameStatuses DEF F!StartUpdate

LEMMA StartPickupStep ==
    ASSUME F!FeedInv, NEW r \in Requests, NEW o \in Orders, F!StartPickup(r, o)
    PROVE  F!FeedInv'
<1>1. "COMPLETED" \in OrderStatuses
    BY DEF OrderStatuses
<1> QED BY <1>1, SetsOut DEF F!StartPickup

\* One that tells of o goes on to tell what it told before, or what o is.
LEMMA TellsOn ==
    ASSUME F!FeedInv, NEW r \in Requests, NEW o \in Orders,
           req[r].pc \in Told, req[r].order = o,
           Alone(r), req'[r].pc \in Told, req'[r].order = o,
           {req'[r].status, req'[r].saw} \subseteq
                {req[r].status, req[r].saw, status[o], None},
           UNCHANGED <<status, disturbed>>,
           \A p \in Orders \ {o} :
               /\ owed'[p] = owed[p]
               /\ p \in cutShort' <=> p \in cutShort
               /\ \A l \in F!Streams : /\ stream'[l].connected = stream[l].connected
                                       /\ stream'[l].known[p] = stream[l].known[p]
    PROVE  /\ \A p \in Orders \ {o} : KeepsOrder(p)
           /\ F!FollowInv(o)'
<1>1. OnlyAbout(r, o)
    BY DEF OnlyAbout
<1>2. F!FollowInv(o)'
    <2>1. F!FollowInv(o)
        BY DEF F!FeedInv
    <2>2. F!Telling(o)' = F!Telling(o) /\ r \in F!Telling(o)
        BY DEF F!Telling, Alone, Told
    <2>3. \A q \in F!Telling(o) \ {r} : req'[q] = req[q]
        BY DEF F!Telling, Alone
    <2> QED BY <2>1, <2>2, <2>3 DEF F!FollowInv
<1> QED BY <1>1, <1>2, OtherOrders

\* Requests that owe a notification of o are the same: r is not one of them.
LEMMA SameNotifying ==
    ASSUME F!FeedInv, NEW r \in Requests, NEW o \in Orders, Alone(r),
           r \notin F!Notifying(o), r \notin F!Notifying(o)',
           owed'[o] = owed[o], o \in cutShort' <=> o \in cutShort
    PROVE  F!OwedInv(o)'
<1>1. F!Notifying(o)' = F!Notifying(o)
    BY DEF F!Notifying, Alone
<1>2. F!OwedInv(o)
    BY DEF F!FeedInv
<1> QED BY <1>1, <1>2 DEF F!OwedInv

\* One that has notified, or could not, has still to emit the status.
LEMMA GoesOnToTell ==
    ASSUME F!FeedInv, NEW r \in Requests, req[r].pc = "notify",
           req' = [req EXCEPT ![r].pc = "tell"], UNCHANGED <<status, disturbed>>,
           \A p \in Orders \ {req[r].order} :
               /\ owed'[p] = owed[p]
               /\ p \in cutShort' <=> p \in cutShort
               /\ \A l \in F!Streams : /\ stream'[l].connected = stream[l].connected
                                       /\ stream'[l].known[p] = stream[l].known[p]
    PROVE  /\ req[r].order \in Orders
           /\ req' \in [Requests -> F!RequestStates]
           /\ Alone(r)
           /\ F!RequestInv(r)'
           /\ req'[r].pc = "tell" /\ req'[r].order = req[r].order
           /\ req'[r].status = req[r].status
           /\ \A p \in Orders \ {req[r].order} : KeepsOrder(p)
           /\ F!FollowInv(req[r].order)'
<1>1. F!TypeOK /\ F!RequestInv(r)
    BY DEF F!FeedInv
<1>2. PICK o \in Orders : o = req[r].order
    BY <1>1 DEF F!RequestInv
<1>3. /\ req' \in [Requests -> F!RequestStates]
      /\ req'[r].pc = "tell" /\ req'[r].order = req[r].order
      /\ req'[r].status = req[r].status /\ req'[r].saw = req[r].saw
      /\ Alone(r)
    BY <1>1, RequestGoesOn DEF Told
<1>4. F!RequestInv(r)'
    BY <1>1, <1>2, <1>3 DEF F!RequestInv, F!At
<1>5. (\A p \in Orders \ {o} : KeepsOrder(p)) /\ F!FollowInv(o)'
    BY <1>2, <1>3, TellsOn DEF Told
<1> QED BY <1>2, <1>3, <1>4, <1>5

LEMMA GenerateCodeStep ==
    ASSUME F!FeedInv, NEW r \in Requests, F!GenerateCode(r)
    PROVE  F!FeedInv'
<1> PICK o \in Orders : o = req[r].order
    BY DEF F!FeedInv, F!RequestInv, F!GenerateCode, F!At
<1> DEFINE new == [req[r] EXCEPT !.pc = "announce", !.saw = status[o]]
<1>1. /\ F!TypeOK /\ F!RequestInv(r) /\ req[r] \in F!RequestStates
      /\ req[r].pc = "code"
    BY DEF F!FeedInv, F!TypeOK, F!GenerateCode, F!At
<1>2. /\ status[o] \in F!ReadyForPickup
      /\ req' = [req EXCEPT ![r] = new]
      /\ UNCHANGED <<status, attached, notes, stream, started, owed, cutShort, disturbed>>
    BY DEF F!GenerateCode
<1>3. status[o] \in F!Known
    BY <1>1 DEF F!TypeOK, F!Known
<1>4. /\ new \in F!RequestStates /\ new.pc = "announce" /\ new.order = o
      /\ new.status = req[r].status /\ new.saw = status[o]
    BY <1>1, <1>3 DEF F!RequestStates
<1> HIDE DEF new
<1>5. /\ req' \in [Requests -> F!RequestStates]
      /\ req'[r] = new
      /\ Alone(r)
    BY <1>1, <1>2, <1>4, RequestUpdate
<1>6. (\A p \in Orders \ {o} : KeepsOrder(p)) /\ F!FollowInv(o)'
    BY <1>1, <1>2, <1>4, <1>5, TellsOn DEF Told
<1>7. F!OwedInv(o)'
    BY <1>1, <1>2, <1>4, <1>5, SameNotifying DEF F!Notifying, F!At
<1>8. F!TypeOK'
    BY <1>1, <1>2, <1>5 DEF F!TypeOK
<1>9. F!RequestInv(r)'
    BY <1>1, <1>2, <1>4, <1>5 DEF F!RequestInv, F!At
<1>10. \A p \in Orders : KeepsOrder(p)
    BY <1>6, <1>7 DEF KeepsOrder
<1> QED BY <1>2, <1>5, <1>8, <1>9, <1>10, Assemble

\* What it set out to tell is no longer so, for another has written the order.
LEMMA RefuseCodeStep ==
    ASSUME F!FeedInv, NEW r \in Requests, F!RefuseCode(r)
    PROVE  F!FeedInv'
<1> PICK o \in Orders : o = req[r].order
    BY DEF F!FeedInv, F!RequestInv, F!RefuseCode, F!At
<1>1. /\ F!TypeOK /\ req[r].pc = "code"
      /\ req[r].status \in F!ReadyForPickup
    BY DEF F!FeedInv, F!RequestInv, F!RefuseCode, F!At
<1>2. /\ status[o] \notin F!ReadyForPickup
      /\ req' = [req EXCEPT ![r] = F!Idle]
      /\ UNCHANGED <<status, attached, notes, stream, started, owed, cutShort, disturbed>>
    BY DEF F!RefuseCode
<1>3. /\ req' \in [Requests -> F!RequestStates]
      /\ req'[r].pc = "idle" /\ req'[r].saw = None /\ Alone(r)
    BY <1>1, <1>2, RequestEnds
<1>4. o \in disturbed
    <2>1. r \in F!Telling(o)
        BY <1>1 DEF F!Telling
    <2>2. req[r].status # None
        BY <1>1, NoneIsNoStatus, SameStatuses DEF ReadyForPickup, OrderStatuses
    <2> QED BY <1>1, <1>2, <2>1, <2>2 DEF F!FeedInv, F!FollowInv
<1>5. F!FollowInv(o)'
    BY <1>2, <1>4 DEF F!FollowInv
<1>6. \A p \in Orders \ {o} : KeepsOrder(p)
    <2>1. OnlyAbout(r, o)
        BY <1>2, <1>3 DEF OnlyAbout, Told
    <2> QED BY <2>1, OtherOrders
<1>7. F!OwedInv(o)'
    BY <1>1, <1>2, <1>3, SameNotifying DEF F!Notifying, F!At
<1>8. F!TypeOK'
    BY <1>1, <1>2, <1>3 DEF F!TypeOK
<1>9. F!RequestInv(r)'
    BY <1>3 DEF F!RequestInv, F!At
<1>10. \A p \in Orders : KeepsOrder(p)
    BY <1>5, <1>6, <1>7 DEF KeepsOrder
<1> QED BY <1>2, <1>3, <1>8, <1>9, <1>10, Assemble

LEMMA RefreshCodeStep ==
    ASSUME F!FeedInv, NEW r \in Requests, NEW o \in Orders, F!RefreshCode(r, o)
    PROVE  F!FeedInv'
<1> DEFINE new == [F!Idle EXCEPT !.pc = "announce", !.order = o, !.saw = status[o]]
<1>1. F!TypeOK /\ status[o] \in F!Known
    BY DEF F!FeedInv, F!TypeOK, F!Known
<1>2. /\ new \in F!RequestStates /\ new.pc = "announce" /\ new.order = o
      /\ new.status = None /\ new.saw = status[o]
    BY <1>1 DEF F!Idle, F!RequestStates, F!Known
<1>3. /\ status[o] \in F!ReadyForPickup /\ req[r].pc = "idle" /\ started' \in Nat
      /\ req' = [req EXCEPT ![r] = new]
      /\ UNCHANGED <<status, attached, notes, stream, owed, cutShort, disturbed>>
    BY <1>1 DEF F!RefreshCode, F!At, F!TypeOK
<1> HIDE DEF new
<1>4. /\ req' \in [Requests -> F!RequestStates]
      /\ req'[r] = new
      /\ Alone(r)
    BY <1>1, <1>2, <1>3, RequestUpdate
<1>5. \A p \in Orders \ {o} : KeepsOrder(p)
    <2>1. OnlyAbout(r, o)
        BY <1>2, <1>3, <1>4 DEF OnlyAbout, Told
    <2> QED BY <2>1, OtherOrders
<1>6. F!FollowInv(o)'
    <2>1. F!FollowInv(o)
        BY DEF F!FeedInv
    <2>2. F!Telling(o)' = F!Telling(o) \cup {r}
        BY <1>2, <1>4 DEF F!Telling, Alone
    <2>3. \A q \in F!Telling(o) \ {r} : req'[q] = req[q]
        BY <1>4 DEF F!Telling, Alone
    <2>4. {req'[r].status, req'[r].saw} \subseteq {status[o], None}
        BY <1>2, <1>4
    <2> QED BY <1>3, <2>1, <2>2, <2>3, <2>4 DEF F!FollowInv
<1>7. F!OwedInv(o)'
    BY <1>2, <1>3, <1>4, SameNotifying DEF F!Notifying, F!At
<1>8. F!TypeOK'
    BY <1>1, <1>3, <1>4 DEF F!TypeOK
<1>9. F!RequestInv(r)'
    BY <1>2, <1>3, <1>4 DEF F!RequestInv, F!At
<1>10. \A p \in Orders : KeepsOrder(p)
    BY <1>5, <1>6, <1>7 DEF KeepsOrder
<1> QED BY <1>3, <1>4, <1>8, <1>9, <1>10, Assemble

LEMMA AnnounceCodeStep ==
    ASSUME F!FeedInv, NEW r \in Requests, F!AnnounceCode(r)
    PROVE  F!FeedInv'
<1>1. F!TypeOK /\ F!RequestInv(r) /\ req[r] \in F!RequestStates
    BY DEF F!FeedInv, F!TypeOK
<1>2. /\ req[r].pc = "announce" /\ req' = [req EXCEPT ![r].pc = "emit"]
      /\ UNCHANGED <<status, attached, started, owed, cutShort, disturbed>>
    BY DEF F!AnnounceCode, F!At
<1>3. PICK o \in Orders : o = req[r].order
    BY <1>1, <1>2 DEF F!RequestInv
<1>4. PICK s \in F!Known : s = req[r].saw
    BY <1>1 DEF F!RequestStates
<1>5. notes' = Append(notes, [order |-> o, status |-> s, readAt |-> None])
    BY <1>3, <1>4 DEF F!AnnounceCode
<1>6. /\ notes' \in Seq([order : Orders, status : F!Known, readAt : Requests \cup {None}])
      /\ DOMAIN notes \subseteq DOMAIN notes'
    BY <1>1, <1>5 DEF F!TypeOK
<1>7. /\ stream' \in [F!Streams -> [connected : BOOLEAN, known : [Orders -> F!Known]]]
      /\ \A p \in Orders \ {o}, l \in F!Streams :
            /\ stream'[l].connected = stream[l].connected
            /\ stream'[l].known[p] = stream[l].known[p]
    BY <1>1, <1>3, <1>4 DEF F!AnnounceCode, F!Hears, F!TypeOK
<1>8. /\ req' \in [Requests -> F!RequestStates]
      /\ req'[r].pc = "emit" /\ req'[r].order = o
      /\ req'[r].status = req[r].status /\ req'[r].saw = req[r].saw
      /\ Alone(r)
    BY <1>1, <1>2, <1>3, RequestGoesOn DEF Told
<1>9. (\A p \in Orders \ {o} : KeepsOrder(p)) /\ F!FollowInv(o)'
    BY <1>2, <1>3, <1>7, <1>8, TellsOn DEF Told
<1>10. F!OwedInv(o)'
    BY <1>2, <1>8, SameNotifying DEF F!Notifying, F!At
<1>11. F!TypeOK'
    BY <1>1, <1>2, <1>6, <1>7, <1>8 DEF F!TypeOK
<1>12. F!RequestInv(r)'
    BY <1>1, <1>2, <1>8 DEF F!RequestInv, F!At
<1>13. \A p \in Orders : KeepsOrder(p)
    BY <1>9, <1>10 DEF KeepsOrder
<1> QED BY <1>6, <1>8, <1>11, <1>12, <1>13, Assemble

\* A request fewer that owes a notification.
LEMMA NotifiedByOneLess ==
    ASSUME F!FeedInv, NEW r \in Requests, NEW o \in Orders, Alone(r),
           r \in F!Notifying(o), r \notin F!Notifying(o)'
    PROVE  /\ F!Cardinality(F!Notifying(o)') \in Nat
           /\ F!Cardinality(F!Notifying(o)) = F!Cardinality(F!Notifying(o)') + 1
<1>1. F!Notifying(o)' = F!Notifying(o) \ {r}
    BY DEF F!Notifying, Alone
<1>2. IsFiniteSet(F!Notifying(o)) /\ IsFiniteSet(F!Notifying(o) \ {r})
    BY NotifyingIsFinite, FS_RemoveElement
<1>3. /\ Cardinality(F!Notifying(o)) \in Nat
      /\ Cardinality(F!Notifying(o) \ {r}) \in Nat
      /\ Cardinality(F!Notifying(o) \ {r}) = Cardinality(F!Notifying(o)) - 1
    BY <1>2, FS_RemoveElement, FS_CardinalityType
<1> QED BY <1>1, <1>3, SameCardinality

LEMMA CreateNotificationStep ==
    ASSUME F!FeedInv, NEW r \in Requests, F!CreateNotification(r)
    PROVE  F!FeedInv'
<1>1. F!TypeOK /\ F!RequestInv(r) /\ req[r] \in F!RequestStates
    BY DEF F!FeedInv, F!TypeOK
<1>2. /\ req[r].pc = "notify" /\ req' = [req EXCEPT ![r].pc = "tell"]
      /\ UNCHANGED <<status, attached, started, cutShort, disturbed>>
    BY DEF F!CreateNotification, F!At
<1>3. PICK o \in Orders : o = req[r].order
    BY <1>1, <1>2 DEF F!RequestInv
<1>4. PICK s \in F!Known : s = req[r].status
    BY <1>1 DEF F!RequestStates
<1>5. /\ owed' \in [Orders -> Int]
      /\ owed'[o] = IF s = "PLACED" THEN owed[o] - 1 ELSE owed[o]
      /\ \A p \in Orders \ {o} : owed'[p] = owed[p]
    BY <1>1, <1>3, <1>4 DEF F!CreateNotification, F!TypeOK
<1>6. notes' = Append(notes, [order |-> o, status |-> s, readAt |-> None])
    BY <1>3, <1>4 DEF F!CreateNotification
<1>7. /\ notes' \in Seq([order : Orders, status : F!Known, readAt : Requests \cup {None}])
      /\ DOMAIN notes \subseteq DOMAIN notes'
    BY <1>1, <1>6 DEF F!TypeOK
<1>8. /\ stream' \in [F!Streams -> [connected : BOOLEAN, known : [Orders -> F!Known]]]
      /\ \A p \in Orders \ {o}, l \in F!Streams :
            /\ stream'[l].connected = stream[l].connected
            /\ stream'[l].known[p] = stream[l].known[p]
    BY <1>1, <1>3, <1>4 DEF F!CreateNotification, F!Hears, F!TypeOK
<1>9. /\ req' \in [Requests -> F!RequestStates]
      /\ Alone(r)
      /\ F!RequestInv(r)'
      /\ req'[r].pc = "tell" /\ req'[r].order = o
      /\ req'[r].status = s
      /\ \A p \in Orders \ {o} : KeepsOrder(p)
      /\ F!FollowInv(o)'
    BY <1>2, <1>3, <1>4, <1>5, <1>8, GoesOnToTell
<1>10. F!OwedInv(o)' /\ owed'[o] \in Nat
    <2>1. F!OwedInv(o) /\ owed[o] \in Nat
        BY <1>1 DEF F!FeedInv, F!TypeOK
    <2>2. r \notin F!Notifying(o)'
        BY <1>9 DEF F!Notifying
    <2>3. CASE s = "PLACED"
        <3>1. r \in F!Notifying(o)
            BY <1>2, <1>3, <1>4, <2>3 DEF F!Notifying
        <3>2. /\ F!Cardinality(F!Notifying(o)') \in Nat
              /\ F!Cardinality(F!Notifying(o)) = F!Cardinality(F!Notifying(o)') + 1
            BY <1>9, <2>2, <3>1, NotifiedByOneLess
        <3> QED BY <1>2, <1>5, <2>1, <2>3, <3>2 DEF F!OwedInv
    <2>4. CASE s # "PLACED"
        <3>1. F!Notifying(o)' = F!Notifying(o)
            BY <1>4, <1>9, <2>4 DEF F!Notifying, Alone
        <3> QED BY <1>2, <1>5, <2>1, <2>4, <3>1 DEF F!OwedInv
    <2> QED BY <2>3, <2>4
<1>11. owed' \in [Orders -> Nat]
    BY <1>1, <1>5, <1>10 DEF F!TypeOK
<1>12. F!TypeOK'
    BY <1>1, <1>2, <1>7, <1>8, <1>9, <1>11 DEF F!TypeOK
<1>13. \A p \in Orders : KeepsOrder(p)
    BY <1>9, <1>10 DEF KeepsOrder
<1> QED BY <1>7, <1>9, <1>12, <1>13, Assemble

\* Requests that owe a notification are no more than there were.
LEMMA NotifiedByNoMore ==
    ASSUME F!FeedInv, NEW o \in Orders, F!Notifying(o)' \subseteq F!Notifying(o),
           owed'[o] = owed[o], o \in cutShort'
    PROVE  F!OwedInv(o)'
<1>1. Cardinality(F!Notifying(o)') <= Cardinality(F!Notifying(o))
    BY NotifyingIsFinite, FS_Subset
<1>2. Cardinality(F!Notifying(o)') \in Nat /\ Cardinality(F!Notifying(o)) \in Nat
    <2>1. IsFiniteSet(F!Notifying(o)')
        BY NotifyingIsFinite, FS_Subset
    <2> QED BY <2>1, NotifyingIsFinite, FS_CardinalityType
<1>3. F!OwedInv(o) /\ owed[o] \in Nat
    BY DEF F!FeedInv, F!TypeOK
<1> QED BY <1>1, <1>2, <1>3, SameCardinality DEF F!OwedInv

LEMMA LoseNotificationStep ==
    ASSUME F!FeedInv, NEW r \in Requests, F!LoseNotification(r)
    PROVE  F!FeedInv'
<1>1. F!TypeOK /\ F!RequestInv(r)
    BY DEF F!FeedInv
<1>2. /\ req[r].pc = "notify" /\ req' = [req EXCEPT ![r].pc = "tell"]
      /\ cutShort' = cutShort \cup {req[r].order}
      /\ UNCHANGED <<status, attached, notes, stream, started, owed, disturbed>>
    BY DEF F!LoseNotification, F!At
<1>3. PICK o \in Orders : o = req[r].order
    BY <1>1, <1>2 DEF F!RequestInv
<1>4. /\ req' \in [Requests -> F!RequestStates]
      /\ Alone(r)
      /\ F!RequestInv(r)'
      /\ req'[r].pc = "tell" /\ req'[r].order = o
      /\ \A p \in Orders \ {o} : KeepsOrder(p)
      /\ F!FollowInv(o)'
    BY <1>2, <1>3, GoesOnToTell
<1>5. F!Notifying(o)' \subseteq F!Notifying(o)
    BY <1>4 DEF F!Notifying, Alone
<1>6. F!OwedInv(o)'
    BY <1>2, <1>3, <1>5, NotifiedByNoMore
<1>7. F!TypeOK'
    BY <1>1, <1>2, <1>3, <1>4 DEF F!TypeOK
<1>8. \A p \in Orders : KeepsOrder(p)
    BY <1>4, <1>6 DEF KeepsOrder
<1> QED BY <1>2, <1>4, <1>7, <1>8, Assemble

\* The streams when all of them hear that o is s.
LEMMA AllHear ==
    ASSUME F!TypeOK, NEW o \in Orders, NEW s \in F!Known,
           stream' = F!Hears(F!Streams, o, s)
    PROVE  /\ stream' \in [F!Streams -> [connected : BOOLEAN, known : [Orders -> F!Known]]]
           /\ \A p \in Orders \ {o}, l \in F!Streams :
                /\ stream'[l].connected = stream[l].connected
                /\ stream'[l].known[p] = stream[l].known[p]
           /\ \A l \in F!Streams : stream'[l].connected => stream'[l].known[o] = s
BY DEF F!Hears, F!TypeOK

\* One that tells of o has told all streams a status it wrote or read, and ends.
LEMMA SaidLast ==
    ASSUME F!FeedInv, NEW r \in Requests, req[r].pc \in {"emit", "tell"},
           NEW s \in {req[r].status, req[r].saw}, s # None,
           stream' = F!Hears(F!Streams, req[r].order, s),
           req' = [req EXCEPT ![r] = F!Idle],
           UNCHANGED <<status, attached, notes, started, owed, cutShort, disturbed>>
    PROVE  F!FeedInv'
<1>1. F!TypeOK /\ F!RequestInv(r) /\ req[r] \in F!RequestStates
    BY DEF F!FeedInv, F!TypeOK
<1>2. PICK o \in Orders : o = req[r].order
    BY <1>1 DEF F!RequestInv
<1>3. s \in F!Known
    BY <1>1 DEF F!RequestStates
<1>4. /\ req' \in [Requests -> F!RequestStates]
      /\ req'[r].pc = "idle" /\ req'[r].saw = None /\ Alone(r)
    BY <1>1, RequestEnds
<1>5. /\ stream' \in [F!Streams -> [connected : BOOLEAN, known : [Orders -> F!Known]]]
      /\ \A p \in Orders \ {o}, l \in F!Streams :
            /\ stream'[l].connected = stream[l].connected
            /\ stream'[l].known[p] = stream[l].known[p]
      /\ \A l \in F!Streams : stream'[l].connected => stream'[l].known[o] = s
    BY <1>1, <1>2, <1>3, AllHear
<1>6. \A p \in Orders \ {o} : KeepsOrder(p)
    <2>1. OnlyAbout(r, o)
        BY <1>2, <1>4, <1>5 DEF OnlyAbout, Told
    <2> QED BY <2>1, OtherOrders
<1>7. F!FollowInv(o)'
    <2>1. F!FollowInv(o)
        BY DEF F!FeedInv
    <2>2. r \in F!Telling(o) /\ F!Telling(o)' \subseteq F!Telling(o)
        BY <1>2, <1>4 DEF F!Telling, Alone
    <2>3. \A q \in F!Telling(o)' : req'[q] = req[q]
        BY <1>4 DEF F!Telling, Alone
    <2>4. o \notin disturbed => s = status[o]
        BY <2>1, <2>2 DEF F!FollowInv
    <2> QED BY <1>5, <2>1, <2>2, <2>3, <2>4 DEF F!FollowInv
<1>8. F!OwedInv(o)'
    BY <1>4, SameNotifying DEF F!Notifying, F!At
<1>9. F!TypeOK'
    BY <1>1, <1>4, <1>5 DEF F!TypeOK
<1>10. F!RequestInv(r)'
    BY <1>4 DEF F!RequestInv, F!At
<1>11. \A p \in Orders : KeepsOrder(p)
    BY <1>6, <1>7, <1>8 DEF KeepsOrder
<1> QED BY <1>4, <1>9, <1>10, <1>11, Assemble

LEMMA EmitOrderUpdatedStep ==
    ASSUME F!FeedInv, NEW r \in Requests, F!EmitOrderUpdated(r)
    PROVE  F!FeedInv'
<1>1. req[r].pc = "tell" /\ req[r].status # None
    BY DEF F!FeedInv, F!RequestInv, F!EmitOrderUpdated, F!At
<1> QED BY <1>1, SaidLast DEF F!EmitOrderUpdated

LEMMA EmitCodeStep ==
    ASSUME F!FeedInv, NEW r \in Requests, F!EmitCode(r)
    PROVE  F!FeedInv'
<1>1. /\ F!TypeOK /\ F!RequestInv(r) /\ req[r] \in F!RequestStates
      /\ req[r].pc = "emit"
    BY DEF F!FeedInv, F!TypeOK, F!EmitCode, F!At
<1>2. /\ stream' = F!Hears(F!Streams, req[r].order, req[r].saw)
      /\ UNCHANGED <<status, attached, notes, started, owed, cutShort, disturbed>>
    BY DEF F!EmitCode
<1>3. PICK o \in Orders : o = req[r].order
    BY <1>1 DEF F!RequestInv
<1>4. req[r].saw # None /\ req[r].saw \in F!Known
    BY <1>1, NoneIsNoStatus, SameStatuses
    DEF F!RequestInv, F!RequestStates, ReadyForPickup, OrderStatuses
<1>5. CASE req[r].status = None
    BY <1>1, <1>2, <1>4, <1>5, SaidLast DEF F!EmitCode
<1>6. CASE req[r].status # None
    <2> DEFINE new == [req[r] EXCEPT !.pc = "notify", !.saw = None]
    <2>1. req' = [req EXCEPT ![r] = new]
        BY <1>6 DEF F!EmitCode
    <2>2. /\ new \in F!RequestStates /\ new.pc = "notify" /\ new.order = o
          /\ new.status = req[r].status /\ new.saw = None
        BY <1>1, <1>3 DEF F!RequestStates, F!Known
    <2> HIDE DEF new
    <2>3. /\ req' \in [Requests -> F!RequestStates]
          /\ req'[r] = new
          /\ Alone(r)
        BY <1>1, <2>1, <2>2, RequestUpdate
    <2>4. /\ stream' \in [F!Streams -> [connected : BOOLEAN, known : [Orders -> F!Known]]]
          /\ \A p \in Orders \ {o}, l \in F!Streams :
                /\ stream'[l].connected = stream[l].connected
                /\ stream'[l].known[p] = stream[l].known[p]
        BY <1>1, <1>2, <1>3, <1>4, AllHear
    <2>5. (\A p \in Orders \ {o} : KeepsOrder(p)) /\ F!FollowInv(o)'
        BY <1>1, <1>2, <1>3, <2>2, <2>3, <2>4, TellsOn DEF Told
    <2>6. F!OwedInv(o)'
        <3>1. req[r].status # "PLACED"
            BY <1>1, <1>6, SameStatuses DEF F!RequestInv, ReadyForPickup
        <3> QED BY <1>1, <1>2, <2>2, <2>3, <3>1, SameNotifying DEF F!Notifying, F!At
    <2>7. F!TypeOK'
        BY <1>1, <1>2, <2>3, <2>4 DEF F!TypeOK
    <2>8. F!RequestInv(r)'
        BY <1>3, <1>6, <2>2, <2>3 DEF F!RequestInv, F!At
    <2>9. \A p \in Orders : KeepsOrder(p)
        BY <2>5, <2>6 DEF KeepsOrder
    <2> QED BY <1>2, <2>3, <2>7, <2>8, <2>9, Assemble
<1> QED BY <1>5, <1>6

LEMMA AbortStep ==
    ASSUME F!FeedInv, NEW r \in Requests, F!Abort(r)
    PROVE  F!FeedInv'
<1> DEFINE cut == {o \in Orders : r \in F!Telling(o)}
<1>1. F!TypeOK /\ F!RequestInv(r)
    BY DEF F!FeedInv
<1>2. /\ cutShort' = cutShort \cup cut /\ disturbed' = disturbed \cup cut
      /\ UNCHANGED <<status, attached, notes, stream, started, owed>>
    BY DEF F!Abort
<1>3. /\ req' \in [Requests -> F!RequestStates]
      /\ req'[r].pc = "idle" /\ req'[r].saw = None /\ Alone(r)
    BY <1>1, RequestEnds DEF F!Abort
<1>4. F!TypeOK'
    BY <1>1, <1>2, <1>3 DEF F!TypeOK
<1>5. F!RequestInv(r)'
    BY <1>3 DEF F!RequestInv, F!At
<1>6. CASE req[r].pc \in Told
    <2>1. PICK o \in Orders : o = req[r].order
        BY <1>1, <1>6 DEF F!RequestInv, Told
    <2>2. cut = {o}
        BY <1>6, <2>1 DEF F!Telling, Told
    <2> HIDE DEF cut
    <2>3. OnlyAbout(r, o)
        BY <1>2, <1>3, <2>1, <2>2 DEF OnlyAbout, Told
    <2>4. F!FollowInv(o)'
        BY <1>2, <2>2 DEF F!FollowInv
    <2>5. F!Notifying(o)' \subseteq F!Notifying(o)
        BY <1>3 DEF F!Notifying, Alone
    <2>6. F!OwedInv(o)'
        BY <1>2, <2>2, <2>5, NotifiedByNoMore
    <2>7. \A p \in Orders : KeepsOrder(p)
        BY <2>3, <2>4, <2>6, OtherOrders DEF KeepsOrder
    <2> QED BY <1>2, <1>3, <1>4, <1>5, <2>7, Assemble
<1>7. CASE req[r].pc \notin Told
    <2>1. cut = {}
        BY <1>7 DEF F!Telling, Told
    <2>2. \A p \in Orders : KeepsOrder(p)
        BY <1>2, <1>3, <1>7, <2>1, NothingTold DEF Told
    <2> QED BY <1>2, <1>3, <1>4, <1>5, <2>2, Assemble
<1> QED BY <1>6, <1>7

\* The rows of notifications.
NoteRows == [order : Orders, status : F!Known, readAt : Requests \cup {None}]

LEMMA NotesAreRows ==
    ASSUME F!TypeOK
    PROVE  /\ notes \in Seq(NoteRows)
           /\ Len(notes) \in Nat /\ DOMAIN notes = 1 .. Len(notes)
           /\ \A i \in DOMAIN notes :
                /\ i \in Nat
                /\ notes[i] \in NoteRows
                /\ notes[i].readAt \in Requests \cup {None}
<1>1. notes \in Seq(NoteRows)
    BY DEF F!TypeOK, NoteRows
<1>2. /\ Len(notes) \in Nat /\ DOMAIN notes = 1 .. Len(notes)
      /\ \A i \in DOMAIN notes : notes[i] \in NoteRows
    BY <1>1
<1> QED BY <1>1, <1>2 DEF NoteRows

LEMMA FindNotificationStep ==
    ASSUME F!FeedInv, NEW r \in Requests, NEW i \in DOMAIN notes, F!FindNotification(r, i)
    PROVE  F!FeedInv'
<1> DEFINE new == [F!Idle EXCEPT !.pc = "mark", !.note = i, !.readAt = notes[i].readAt]
<1>1. F!TypeOK
    BY DEF F!FeedInv
<1>2. i \in Nat /\ notes[i].readAt \in Requests \cup {None}
    BY <1>1, NotesAreRows
<1>3. new \in F!RequestStates /\ new.pc = "mark" /\ new.note = i /\ new.saw = None
    BY <1>2 DEF F!Idle, F!RequestStates, F!Known
<1>4. /\ req[r].pc = "idle" /\ req' = [req EXCEPT ![r] = new] /\ started' \in Nat
      /\ UNCHANGED <<status, attached, notes, stream, owed, cutShort, disturbed>>
    BY <1>1 DEF F!FindNotification, F!At, F!TypeOK
<1> HIDE DEF new
<1>5. /\ req' \in [Requests -> F!RequestStates]
      /\ req'[r].pc = "mark" /\ req'[r].note = i /\ req'[r].saw = None /\ Alone(r)
    BY <1>1, <1>3, <1>4, RequestUpdate
<1>6. \A p \in Orders : KeepsOrder(p)
    BY <1>4, <1>5, NothingTold DEF Told
<1>7. F!TypeOK'
    BY <1>1, <1>4, <1>5 DEF F!TypeOK
<1>8. F!RequestInv(r)'
    BY <1>4, <1>5 DEF F!RequestInv, F!At
<1> QED BY <1>4, <1>5, <1>6, <1>7, <1>8, Assemble

\* The time a row was read is stamped; no row is added or taken away.
LEMMA NotesStamped ==
    ASSUME F!TypeOK, NEW stamped,
           \A i \in DOMAIN notes : stamped[i] \in Requests \cup {None},
           notes' = [i \in DOMAIN notes |-> [notes[i] EXCEPT !.readAt = stamped[i]]]
    PROVE  /\ notes' \in Seq(NoteRows)
           /\ DOMAIN notes' = DOMAIN notes
<1>1. /\ Len(notes) \in Nat /\ DOMAIN notes = 1 .. Len(notes)
      /\ \A i \in DOMAIN notes : notes[i] \in NoteRows
    BY NotesAreRows
<1>2. \A i \in 1 .. Len(notes) : [notes[i] EXCEPT !.readAt = stamped[i]] \in NoteRows
    BY <1>1 DEF NoteRows
<1>3. notes' \in [1 .. Len(notes) -> NoteRows]
    BY <1>1, <1>2
<1>4. notes' \in Seq(NoteRows)
    BY <1>1, <1>3
<1> QED BY <1>1, <1>3, <1>4

LEMMA MarkReadStep ==
    ASSUME F!FeedInv, NEW r \in Requests, F!MarkRead(r)
    PROVE  F!FeedInv'
<1> DEFINE at == IF req[r].readAt = None THEN r ELSE req[r].readAt
           stamped == [i \in DOMAIN notes |->
                        IF i = req[r].note THEN at ELSE notes[i].readAt]
<1>1. F!TypeOK /\ req[r] \in F!RequestStates
    BY DEF F!FeedInv, F!TypeOK
<1>2. /\ req[r].pc = "mark" /\ req' = [req EXCEPT ![r] = F!Idle]
      /\ notes' = [notes EXCEPT ![req[r].note].readAt = at]
      /\ UNCHANGED <<status, attached, stream, started, owed, cutShort, disturbed>>
    BY DEF F!MarkRead, F!At
<1>3. at \in Requests \cup {None}
    BY <1>1 DEF F!RequestStates
<1>4. \A i \in DOMAIN notes : notes[i] = [notes[i] EXCEPT !.readAt = notes[i].readAt]
    BY <1>1, NotesAreRows DEF NoteRows
<1>5. \A i \in DOMAIN notes : notes[i].readAt \in Requests \cup {None}
    BY <1>1, NotesAreRows
<1> HIDE DEF at
<1>6. \A i \in DOMAIN notes : stamped[i] \in Requests \cup {None}
    BY <1>3, <1>5
<1>7. notes' = [i \in DOMAIN notes |-> [notes[i] EXCEPT !.readAt = stamped[i]]]
    <2>1. notes = [i \in DOMAIN notes |-> notes[i]]
        BY <1>1, NotesAreRows
    <2> QED BY <1>2, <1>4, <2>1
<1> HIDE DEF stamped
<1>8. /\ notes' \in Seq(NoteRows)
      /\ DOMAIN notes' = DOMAIN notes
    BY <1>1, <1>6, <1>7, NotesStamped
<1>9. /\ req' \in [Requests -> F!RequestStates]
      /\ req'[r].pc = "idle" /\ req'[r].saw = None /\ Alone(r)
    BY <1>1, <1>2, RequestEnds
<1>10. \A p \in Orders : KeepsOrder(p)
    BY <1>2, <1>9, NothingTold DEF Told
<1>11. F!TypeOK'
    BY <1>1, <1>2, <1>8, <1>9 DEF F!TypeOK, NoteRows
<1>12. F!RequestInv(r)'
    BY <1>9 DEF F!RequestInv, F!At
<1> QED BY <1>8, <1>9, <1>10, <1>11, <1>12, Assemble

LEMMA MarkAllReadStep ==
    ASSUME F!FeedInv, NEW r \in Requests, F!MarkAllRead(r)
    PROVE  F!FeedInv'
<1> DEFINE stamped == [i \in DOMAIN notes |->
                        IF notes[i].readAt = None THEN r ELSE notes[i].readAt]
<1>1. F!TypeOK
    BY DEF F!FeedInv
<1>2. /\ req[r].pc = "idle" /\ started' \in Nat
      /\ notes' = [i \in DOMAIN notes |->
                    IF notes[i].readAt = None THEN [notes[i] EXCEPT !.readAt = r]
                    ELSE notes[i]]
      /\ UNCHANGED <<status, attached, stream, req, owed, cutShort, disturbed>>
    BY <1>1 DEF F!MarkAllRead, F!At, F!TypeOK
<1>3. \A i \in DOMAIN notes : /\ notes[i] = [notes[i] EXCEPT !.readAt = notes[i].readAt]
                              /\ notes[i].readAt \in Requests \cup {None}
    BY <1>1, NotesAreRows DEF NoteRows
<1>4. \A i \in DOMAIN notes : stamped[i] \in Requests \cup {None}
    BY <1>3
<1>5. notes' = [i \in DOMAIN notes |-> [notes[i] EXCEPT !.readAt = stamped[i]]]
    BY <1>2, <1>3
<1> HIDE DEF stamped
<1>6. /\ notes' \in Seq(NoteRows)
      /\ DOMAIN notes' = DOMAIN notes
    BY <1>1, <1>4, <1>5, NotesStamped
<1>7. Alone(r)
    BY <1>2 DEF Alone
<1>8. \A p \in Orders : KeepsOrder(p)
    BY <1>2, <1>7, NothingTold DEF Told
<1>9. F!TypeOK'
    BY <1>1, <1>2, <1>6 DEF F!TypeOK, NoteRows
<1>10. F!RequestInv(r)'
    BY <1>2, <1>6 DEF F!FeedInv, F!RequestInv, F!At
<1> QED BY <1>6, <1>7, <1>8, <1>9, <1>10, Assemble

LEMMA RequestStep ==
    ASSUME F!FeedInv, NEW r \in Requests, F!Step(r)
    PROVE  F!FeedInv'
BY CreateUnpaidStep, CreatePaidStep, StartCheckoutStep, FinalizePaidOrderStep,
   StartUpdateStep, StartPickupStep, MarkCounterOrderPlacedStep, EndCheckoutStep,
   UpdateStatusStep, GenerateCodeStep, RefuseCodeStep, RefreshCodeStep,
   AnnounceCodeStep, EmitCodeStep, CompletePickupStep, CreateNotificationStep,
   LoseNotificationStep, EmitOrderUpdatedStep, AbortStep, FindNotificationStep,
   MarkReadStep, MarkAllReadStep
DEF F!Step

(***************************************************************************)
(* The other steps of Feed.                                                *)
(***************************************************************************)
LEMMA SameRequests ==
    ASSUME F!FeedInv, F!TypeOK',
           UNCHANGED <<status, notes, req, owed, cutShort, disturbed>>,
           \A o \in Orders : F!FollowInv(o)'
    PROVE  F!FeedInv'
<1>1. \A r \in Requests : F!RequestInv(r)'
    BY DEF F!FeedInv, F!RequestInv, F!At
<1>2. \A o \in Orders : F!OwedInv(o)'
    BY DEF F!FeedInv, F!OwedInv, F!Notifying
<1> QED BY <1>1, <1>2 DEF F!FeedInv

LEMMA ConnectStep ==
    ASSUME F!FeedInv, NEW l \in F!Streams, F!Connect(l)
    PROVE  F!FeedInv'
<1> DEFINE new == [connected |-> TRUE, known |-> status]
<1>1. F!TypeOK
    BY DEF F!FeedInv
<1>2. /\ stream' = [stream EXCEPT ![l] = new]
      /\ UNCHANGED <<status, attached, notes, req, started, owed, cutShort, disturbed>>
    BY DEF F!Connect
<1>3. /\ new \in [connected : BOOLEAN, known : [Orders -> F!Known]]
      /\ new.known = status
    BY <1>1 DEF F!TypeOK, F!Known
<1> HIDE DEF new
<1>4. /\ stream' \in [F!Streams -> [connected : BOOLEAN, known : [Orders -> F!Known]]]
      /\ stream'[l].known = status
      /\ \A k \in F!Streams \ {l} : stream'[k] = stream[k]
    BY <1>1, <1>2, <1>3 DEF F!TypeOK
<1>5. F!TypeOK'
    BY <1>1, <1>2, <1>4 DEF F!TypeOK
<1>6. ASSUME NEW o \in Orders PROVE F!FollowInv(o)'
    <2>1. F!FollowInv(o) /\ F!Telling(o)' = F!Telling(o)
        BY <1>2 DEF F!FeedInv, F!Telling
    <2> QED BY <1>2, <1>4, <2>1 DEF F!FollowInv
<1> QED BY <1>2, <1>5, <1>6, SameRequests

LEMMA ClosedType ==
    /\ F!Closed \in [connected : BOOLEAN, known : [Orders -> F!Known]]
    /\ F!Closed.connected = FALSE
BY DEF F!Closed, F!Known

LEMMA DisconnectStep ==
    ASSUME F!FeedInv, NEW l \in F!Streams, F!Disconnect(l)
    PROVE  F!FeedInv'
<1>1. F!TypeOK
    BY DEF F!FeedInv
<1>2. /\ stream' = [stream EXCEPT ![l] = F!Closed]
      /\ UNCHANGED <<status, attached, notes, req, started, owed, cutShort, disturbed>>
    BY DEF F!Disconnect
<1>3. /\ stream' \in [F!Streams -> [connected : BOOLEAN, known : [Orders -> F!Known]]]
      /\ ~stream'[l].connected
      /\ \A k \in F!Streams \ {l} : stream'[k] = stream[k]
    BY <1>1, <1>2, ClosedType DEF F!TypeOK
<1>4. F!TypeOK'
    BY <1>1, <1>2, <1>3 DEF F!TypeOK
<1>5. ASSUME NEW o \in Orders PROVE F!FollowInv(o)'
    <2>1. F!FollowInv(o) /\ F!Telling(o)' = F!Telling(o)
        BY <1>2 DEF F!FeedInv, F!Telling
    <2> QED BY <1>2, <1>3, <2>1 DEF F!FollowInv
<1> QED BY <1>2, <1>4, <1>5, SameRequests

LEMMA FeedRestartStep ==
    ASSUME F!FeedInv, F!Restart
    PROVE  F!FeedInv'
<1> DEFINE cut == {o \in Orders : F!Telling(o) # {}}
<1>1. F!TypeOK
    BY DEF F!FeedInv
<1>2. /\ req' = [r \in Requests |-> F!Idle]
      /\ stream' = [l \in F!Streams |-> F!Closed]
      /\ cutShort' = cutShort \cup cut /\ disturbed' = disturbed \cup cut
      /\ UNCHANGED <<status, attached, notes, started, owed>>
    BY DEF F!Restart
<1>3. /\ req' \in [Requests -> F!RequestStates]
      /\ \A r \in Requests : req'[r].pc = "idle" /\ req'[r].saw = None
    BY <1>2, IdleRequest
<1>4. /\ stream' \in [F!Streams -> [connected : BOOLEAN, known : [Orders -> F!Known]]]
      /\ \A l \in F!Streams : ~stream'[l].connected
    BY <1>2, ClosedType
<1>5. F!TypeOK'
    BY <1>1, <1>2, <1>3, <1>4 DEF F!TypeOK
<1>6. \A r \in Requests : F!RequestInv(r)'
    BY <1>3 DEF F!RequestInv, F!At
<1>7. ASSUME NEW o \in Orders PROVE F!FollowInv(o)' /\ F!OwedInv(o)'
    <2>1. F!Telling(o)' = {} /\ F!Notifying(o)' = {}
        BY <1>3 DEF F!Telling, F!Notifying
    <2>2. F!FollowInv(o)'
        BY <1>4, <2>1 DEF F!FollowInv
    <2>3. owed'[o] = owed[o] /\ F!Notifying(o)' \subseteq F!Notifying(o)
        BY <1>2, <2>1
    <2>4. CASE o \in cut
        <3>1. o \in cutShort'
            BY <1>2, <2>4
        <3> QED BY <2>2, <2>3, <3>1, NotifiedByNoMore
    <2>5. CASE o \notin cut
        <3>1. F!Notifying(o) = {}
            BY <2>5 DEF F!Notifying, F!Telling
        <3>2. F!OwedInv(o)
            BY DEF F!FeedInv
        <3>3. o \in cutShort' <=> o \in cutShort
            BY <1>2, <2>5
        <3>4. F!Notifying(o)' = F!Notifying(o)
            BY <2>1, <3>1
        <3> HIDE DEF cut
        <3> QED BY <2>2, <2>3, <3>2, <3>3, <3>4 DEF F!OwedInv
    <2> QED BY <2>2, <2>4, <2>5
<1> QED BY <1>5, <1>6, <1>7 DEF F!FeedInv

LEMMA FeedInitInv == F!Init => F!FeedInv
<1> SUFFICES ASSUME F!Init PROVE F!FeedInv
    OBVIOUS
<1>1. /\ status \in [Orders -> FirstStatuses] /\ attached \in SUBSET Orders
      /\ notes = <<>> /\ stream = [l \in F!Streams |-> F!Closed]
      /\ req = [r \in Requests |-> F!Idle] /\ started = 0
      /\ owed = [o \in Orders |-> 0] /\ cutShort = {} /\ disturbed = {}
    BY DEF F!Init
<1>2. /\ req \in [Requests -> F!RequestStates]
      /\ \A r \in Requests : req[r].pc = "idle" /\ req[r].saw = None
    BY <1>1, IdleRequest
<1>3. /\ stream \in [F!Streams -> [connected : BOOLEAN, known : [Orders -> F!Known]]]
      /\ \A l \in F!Streams : ~stream[l].connected
    BY <1>1, ClosedType
<1>4. status \in [Orders -> F!OrderStatuses \cup {NoOrder}]
    BY <1>1, FulfilmentAssumption, SameStatuses
<1>5. F!TypeOK
    BY <1>1, <1>2, <1>3, <1>4 DEF F!TypeOK
<1>6. \A r \in Requests : F!RequestInv(r)
    BY <1>2 DEF F!RequestInv, F!At
<1>7. ASSUME NEW o \in Orders PROVE F!FollowInv(o) /\ F!OwedInv(o)
    <2>1. F!Telling(o) = {} /\ F!Notifying(o) = {}
        BY <1>2 DEF F!Telling, F!Notifying
    <2>2. F!Cardinality({}) = 0
        BY SameCardinality, FS_EmptySet
    <2> QED BY <1>1, <1>3, <2>1, <2>2 DEF F!FollowInv, F!OwedInv
<1> QED BY <1>5, <1>6, <1>7 DEF F!FeedInv

(***************************************************************************)
(* The steps of the two together.                                          *)
(***************************************************************************)
LEMMA StatusWrites ==
    ASSUME F!FeedInv, NEW r \in Requests, F!Step(r)
    PROVE  \/ status' = status
           \/ \E o \in Orders, s \in OrderStatuses : status' = [status EXCEPT ![o] = s]
<1>1. F!RequestInv(r)
    BY DEF F!FeedInv
<1>2. {"PENDING_PAYMENT", "PLACED", "CANCELLED", "COMPLETED"} \subseteq OrderStatuses
    BY DEF OrderStatuses
<1>3. ASSUME NEW o \in Orders, NEW s \in OrderStatuses,
             F!Write(r, o, s) \/ F!WriteSilently(o, s)
      PROVE  \E p \in Orders, t \in OrderStatuses : status' = [status EXCEPT ![p] = t]
    BY <1>3 DEF F!Write, F!WriteSilently
<1>4. ASSUME NEW o \in Orders,
             \/ F!CreateUnpaid(r, o) \/ F!CreatePaid(r, o) \/ F!StartCheckout(r, o)
             \/ F!FinalizePaidOrder(r, o)
      PROVE  \/ status' = status
             \/ \E p \in Orders, t \in OrderStatuses : status' = [status EXCEPT ![p] = t]
    BY <1>2, <1>3, <1>4
    DEF F!CreateUnpaid, F!CreatePaid, F!StartCheckout, F!FinalizePaidOrder
<1>5. ASSUME F!MarkCounterOrderPlaced(r) \/ F!EndCheckout(r) \/ F!UpdateStatus(r)
             \/ F!CompletePickup(r)
      PROVE  \E p \in Orders, t \in OrderStatuses : status' = [status EXCEPT ![p] = t]
    <2>1. req[r].order \in Orders
        BY <1>1, <1>5
        DEF F!RequestInv, F!MarkCounterOrderPlaced, F!EndCheckout, F!UpdateStatus,
            F!CompletePickup, F!At
    <2>2. CASE F!MarkCounterOrderPlaced(r)
        BY <1>2, <1>3, <2>1, <2>2 DEF F!MarkCounterOrderPlaced
    <2>3. CASE F!EndCheckout(r)
        BY <1>2, <1>3, <2>1, <2>3 DEF F!EndCheckout
    <2>4. CASE F!UpdateStatus(r)
        BY <1>1, <1>3, <2>1, <2>4, SameStatuses DEF F!RequestInv, F!UpdateStatus
    <2>5. CASE F!CompletePickup(r)
        BY <1>2, <1>3, <2>1, <2>5 DEF F!CompletePickup
    <2> QED BY <1>5, <2>2, <2>3, <2>4, <2>5
<1> QED
    BY <1>4, <1>5
    DEF F!Step, F!StartUpdate, F!StartPickup, F!GenerateCode, F!RefuseCode,
        F!RefreshCode, F!AnnounceCode, F!EmitCode, F!CreateNotification,
        F!LoseNotification, F!EmitOrderUpdated, F!Abort, F!FindNotification, F!MarkRead,
        F!MarkAllRead

\* Invoices, when a request of Feed takes a step: an order may move on.
LEMMA FeedKeepsInvoices ==
    ASSUME F!FeedInv, InvoicesInv, NEW r \in Requests, F!Step(r),
           UNCHANGED <<month, invoice, object, job>>
    PROVE  InvoicesInv'
<1>1. CASE status' = status
    BY <1>1 DEF InvoicesInv, TypeOK, RowInv, JobInv, AloneInv, At, InUse, Stored
<1>2. ASSUME NEW o \in Orders, NEW s \in OrderStatuses,
             status' = [status EXCEPT ![o] = s]
      PROVE  InvoicesInv'
    BY <1>2, MoveOrderStep DEF MoveOrder
<1> QED BY <1>1, <1>2, StatusWrites

\* All requests end.
LEMMA InvoicesRestartStep ==
    ASSUME InvoicesInv, job' = [r \in Requests |-> Idle],
           UNCHANGED <<status, month, invoice, object>>
    PROVE  InvoicesInv'
<1>1. TypeOK' /\ \A r \in Requests : job'[r] = Idle
    BY IdleType DEF InvoicesInv, TypeOK
<1>2. \A r \in Requests : JobInv(r)' /\ AloneInv(r)'
    BY <1>1, IdleType DEF JobInv, AloneInv, At
<1> QED BY <1>1, <1>2, RowsKept DEF InvoicesInv

\* Feed, when only its bound moves.
LEMMA InvoicesKeepFeed ==
    ASSUME F!FeedInv, UNCHANGED <<status, feedVars>>, started' \in Nat
    PROVE  F!FeedInv'
<1>1. UNCHANGED <<status, attached, notes, stream, req, owed, cutShort, disturbed>>
    BY DEF feedVars
<1>2. F!TypeOK'
    BY <1>1 DEF F!FeedInv, F!TypeOK
<1>3. \A o \in Orders : F!FollowInv(o)'
    BY <1>1 DEF F!FeedInv, F!FollowInv, F!Telling
<1> QED BY <1>1, <1>2, <1>3, SameRequests

FulfilmentInv == F!FeedInv /\ InvoicesInv

LEMMA FulfilmentInitInv == FulfilmentInit => FulfilmentInv
BY FeedInitInv, InitInv DEF FulfilmentInit, FulfilmentInv

LEMMA FulfilmentStepInv ==
    FulfilmentInv /\ [FulfilmentNext]_<<vars, feedVars, started>> => FulfilmentInv'
<1> SUFFICES ASSUME FulfilmentInv, [FulfilmentNext]_<<vars, feedVars, started>>
             PROVE  FulfilmentInv'
    OBVIOUS
<1>1. F!FeedInv /\ InvoicesInv /\ started \in Nat
    BY DEF FulfilmentInv, F!FeedInv, F!TypeOK
<1>2. ASSUME NEW r \in Requests, FeedStep(r) PROVE FulfilmentInv'
    BY <1>1, <1>2, RequestStep, FeedKeepsInvoices DEF FeedStep, FulfilmentInv
<1>3. ASSUME NEW r \in Requests, InvoiceStep(r) PROVE FulfilmentInv'
    <2>1. started' \in Nat /\ Step(r) /\ UNCHANGED feedVars
        BY <1>1, <1>3 DEF InvoiceStep
    <2>2. status' = status
        BY <2>1 DEF Step, StartRead, FindInvoice, FindOrder, CreateInvoice, UploadDocument,
                    UploadFails, RecordUrl, Abort
    <2>3. InvoicesInv'
        BY <1>1, <2>1, StepInv DEF Next
    <2> QED BY <1>1, <2>1, <2>2, <2>3, InvoicesKeepFeed DEF FulfilmentInv
<1>4. CASE Streaming
    <2>1. F!FeedInv'
        BY <1>1, <1>4, ConnectStep, DisconnectStep DEF Streaming
    <2>2. UNCHANGED vars
        BY <1>4 DEF Streaming, vars, F!Connect, F!Disconnect
    <2> QED BY <1>1, <2>1, <2>2, StepInv DEF FulfilmentInv
<1>5. CASE MonthEnds
    <2>1. F!FeedInv'
        BY <1>1, <1>5, InvoicesKeepFeed DEF MonthEnds, NextMonth
    <2> QED BY <1>1, <1>5, <2>1, NextMonthStep DEF MonthEnds, FulfilmentInv
<1>6. CASE Restart
    BY <1>1, <1>6, FeedRestartStep, InvoicesRestartStep DEF Restart, F!Restart, FulfilmentInv
<1>7. CASE UNCHANGED <<vars, feedVars, started>>
    <2>1. status' = status
        BY <1>7 DEF vars
    <2> QED BY <1>1, <1>7, <2>1, StepInv, InvoicesKeepFeed DEF FulfilmentInv
<1> QED BY <1>2, <1>3, <1>4, <1>5, <1>6, <1>7 DEF FulfilmentNext

\* The time of a notification that was read, when a request takes a step.
LEMMA ReadTimesStep ==
    ASSUME F!FeedInv, NEW r \in Requests, F!Step(r), NEW i \in DOMAIN notes,
           notes[i].readAt # None, notes'[i].readAt # notes[i].readAt
    PROVE  \E q \in Requests : F!At(q, "mark") /\ req[q].readAt # notes[i].readAt
                                 /\ req'[q] = F!Idle
<1>1. F!TypeOK /\ notes' # notes
    BY DEF F!FeedInv
<1>2. CASE F!CreateNotification(r) \/ F!AnnounceCode(r)
    <2>1. notes \in Seq(NoteRows) /\ i \in 1 .. Len(notes)
        BY <1>1, NotesAreRows
    <2>2. PICK row : notes' = Append(notes, row)
        BY <1>2 DEF F!CreateNotification, F!AnnounceCode
    <2>3. notes'[i] = notes[i]
        BY <2>1, <2>2
    <2> QED BY <2>3
<1>3. CASE F!MarkAllRead(r)
    BY <1>3 DEF F!MarkAllRead
<1>4. CASE F!MarkRead(r)
    <2> DEFINE at == IF req[r].readAt = None THEN r ELSE req[r].readAt
    <2>1. /\ notes' = [notes EXCEPT ![req[r].note].readAt = at]
          /\ req'[r] = F!Idle /\ F!At(r, "mark")
        BY <1>1, <1>4 DEF F!MarkRead, F!TypeOK
    <2>2. req[r].readAt # notes[i].readAt
        <3>1. CASE i = req[r].note
            <4>1. notes'[i].readAt = at
                BY <1>1, <2>1, <3>1, NotesAreRows DEF NoteRows
            <4> QED BY <4>1
        <3>2. CASE i # req[r].note
            BY <2>1, <3>2
        <3> QED BY <3>1, <3>2
    <2> QED BY <2>1, <2>2
<1> QED
    BY <1>1, <1>2, <1>3, <1>4
    DEF F!Step, F!CreateUnpaid, F!CreatePaid, F!StartCheckout, F!FinalizePaidOrder,
        F!StartUpdate, F!StartPickup, F!MarkCounterOrderPlaced, F!EndCheckout,
        F!UpdateStatus, F!GenerateCode, F!RefuseCode, F!RefreshCode, F!EmitCode,
        F!CompletePickup, F!LoseNotification,
        F!EmitOrderUpdated, F!Abort, F!FindNotification

-------------------------------------------------------------------------------

\* In every reachable state of Fulfilment, both invariants hold: what requests
\* may still rely on, whatever the others and a restart did in between
\* (orders, notifications and invoices over the same rows).
THEOREM FulfilmentInvariance == FulfilmentSpec => []FulfilmentInv
BY FulfilmentInitInv, FulfilmentStepInv, PTL DEF FulfilmentSpec

\* Every variable of Feed keeps its type (prisma.notification, NotificationEventsService).
THEOREM FeedTypeCorrect == FulfilmentSpec => []F!TypeOK
<1>1. FulfilmentInv => F!TypeOK
    BY DEF FulfilmentInv, F!FeedInv
<1> QED BY FulfilmentInvariance, <1>1, PTL

\* Who follows a live stream knows the present status of every order that
\* nobody is about to tell of, unless it was last written silently, while another
\* request was telling a status it had written or read for a code, or by one that
\* failed (updateStatus, generateForOrderNumber, emitOrderUpdated).
THEOREM StreamsSafety == FulfilmentSpec => []StreamsKeepUp
<1>1. FulfilmentInv => StreamsKeepUp
    BY DEF FulfilmentInv, F!FeedInv, F!FollowInv, StreamsKeepUp, F!StreamsKeepUp
<1> QED BY FulfilmentInvariance, <1>1, PTL

\* Each placing of an order is notified exactly once, or its request was cut
\* short (finalizePaidOrder, sendOrderPlacedNotification, updateStatus).
THEOREM NotificationSafety == FulfilmentSpec => []PlacedOrdersAreNotifiedOnce
<1>1. FulfilmentInv => PlacedOrdersAreNotifiedOnce
    BY DEF FulfilmentInv, F!FeedInv, F!OwedInv, PlacedOrdersAreNotifiedOnce,
           F!PlacedOrdersAreNotifiedOnce
<1> QED BY FulfilmentInvariance, <1>1, PTL

\* Of the requests, only a markRead that found the row otherwise changes the
\* time it was read (markRead, markAllRead).
THEOREM ReadTimes == FulfilmentSpec => ReadTimesNeedOverlap
<1> DEFINE Overlap ==
        \A i \in DOMAIN notes :
            notes[i].readAt # None /\ notes'[i].readAt # notes[i].readAt =>
                \E r \in Requests : F!At(r, "mark") /\ req[r].readAt # notes[i].readAt
                                     /\ req'[r] = F!Idle
<1>1. FulfilmentInv /\ [FulfilmentNext]_<<vars, feedVars, started>> => [Overlap]_notes
    <2> SUFFICES ASSUME FulfilmentInv, FulfilmentNext, notes' # notes PROVE Overlap
        BY DEF feedVars
    <2>1. PICK r \in Requests : F!Step(r)
        BY DEF FulfilmentNext, FeedStep, InvoiceStep, Streaming, MonthEnds, Restart, feedVars,
               F!Connect, F!Disconnect, F!Restart
    <2> QED BY <2>1, ReadTimesStep DEF FulfilmentInv
<1>2. FulfilmentSpec => [][Overlap]_notes
    BY FulfilmentInvariance, <1>1, PTL DEF FulfilmentSpec
<1> QED BY <1>2 DEF ReadTimesNeedOverlap, F!ReadTimesNeedOverlap

\* With orders moved by the requests that move them, and restarts, the recorded
\* URL of an invoice still names a stored document (persistPdfIfConfigured).
THEOREM FulfilmentDocumentSafety == FulfilmentSpec => []StoredDocumentsExist
<1>1. FulfilmentInv => StoredDocumentsExist
    BY DEF FulfilmentInv, InvoicesInv, RowInv, StoredDocumentsExist, Stored
<1> QED BY FulfilmentInvariance, <1>1, PTL

\* And a request that overlaps no other on its order still neither conflicts
\* nor stores over a recorded document (ensureInvoice, persistPdfIfConfigured).
THEOREM FulfilmentLoneReaderSafety == FulfilmentSpec => []LoneReadersSettleInvoices
<1>1. FulfilmentInv => LoneReadersSettleInvoices
    BY DEF FulfilmentInv, InvoicesInv, AloneInv, LoneReadersSettleInvoices, Conflicts, At
<1> QED BY FulfilmentInvariance, <1>1, PTL
===============================================================================
