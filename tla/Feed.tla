--------------------------------- MODULE Feed ---------------------------------
(***************************************************************************)
(* What the customer and the staff hear of orders: notification rows, and  *)
(* the events of the live streams.                                         *)
(*                                                                         *)
(* A request that writes the status of an order commits first and tells    *)
(* afterwards, with awaits in between: it stores a notification row, whose *)
(* event goes to the customer, and it emits the new status, to the         *)
(* customer's streams and to the staff's.  A pickup code is told in the    *)
(* same way, with the status that was read for it: before the status of an *)
(* order made ready, and alone when the code is only refreshed.            *)
(* The streams are an in-process Subject: who is not connected hears       *)
(* nothing, and nothing is repeated.  Online checkout writes the status    *)
(* and tells nobody.                                                       *)
(*                                                                         *)
(* Payments are abstracted to whether the order has one that may be        *)
(* captured; Orders has the whole of them.  All orders are of one customer. *)
(***************************************************************************)
EXTENDS Naturals, Sequences, FiniteSets, OrderStatus

CONSTANTS
    Requests,         \* slots for requests in progress
    Orders,
    CustomerStreams,  \* the live streams of the customer
    StaffStreams,     \* the live streams of the staff
    FirstStatuses,    \* bound: the statuses orders begin with
    MaxStarts,        \* bound: requests that write something
    NoOrder,          \* the status of an order number not in use yet
    None              \* nothing known, not read

VARIABLES
    status,     \* the status of each order
    attached,   \* the orders that have a provider order to pay
    notes,      \* the notification rows, oldest first
    stream,     \* the streams, and what those who follow them know of orders
    req,        \* the requests in progress
    started,    \* bound: the requests started that write something
    owed,       \* history: times an order was placed less notifications of it
    cutShort,   \* history: orders of which a request ended before it told
    disturbed   \* history: orders written silently, or while one told of them

vars == <<status, attached, notes, stream, req, started, owed, cutShort, disturbed>>

Streams == CustomerStreams \cup StaffStreams

Closed == [connected |-> FALSE, known |-> [o \in Orders |-> None]]

\* pc "move", "collect", "complete": about to write the status;
\* "provider": waiting for the payment provider;
\* "code": committed, and about to generate a code;
\* "announce", "emit": has generated one, for an order it read;
\* "notify", "tell": committed, and still to do the rest;
\* "mark": has found a notification.
\* status: the status it writes, None if it only refreshes the code; saw: the
\* status it read for the code; carries: the notification names the status;
\* lenient: it may fail.
Idle == [pc |-> "idle", order |-> None, status |-> None, saw |-> None,
         lenient |-> FALSE, carries |-> TRUE, note |-> 0, readAt |-> None]

\* Any orders may be there already, of which nobody is being told.
Init ==
    /\ status \in [Orders -> FirstStatuses]
    /\ attached \in SUBSET {o \in Orders : status[o] # NoOrder}
    /\ notes = <<>>
    /\ stream = [l \in Streams |-> Closed]
    /\ req = [r \in Requests |-> Idle]
    /\ started = 0
    /\ owed = [o \in Orders |-> 0]
    /\ cutShort = {}
    /\ disturbed = {}

-------------------------------------------------------------------------------

At(r, pc) == req[r].pc = pc

\* Requests that have committed or read a status of o they will tell.
Telling(o) ==
    {r \in Requests : /\ req[r].order = o
                      /\ req[r].pc \in {"code", "announce", "emit", "notify", "tell"}}

\* r begins; the bound keeps the rows few.
Begin(r, o, pc, s) ==
    /\ At(r, "idle")
    /\ started < MaxStarts
    /\ started' = started + 1
    /\ req' = [req EXCEPT ![r] = [Idle EXCEPT !.pc = pc, !.order = o, !.status = s]]

\* Order o becomes s in the database, and r goes on to tell it.  Whoever is
\* still telling of an earlier status may be heard last.
Write(r, o, s) ==
    /\ status' = [status EXCEPT ![o] = s]
    /\ owed' = [owed EXCEPT ![o] = IF s = "PLACED" THEN @ + 1 ELSE @]
    /\ disturbed' = IF Telling(o) \ {r} = {} THEN disturbed \ {o}
                                             ELSE disturbed \cup {o}

\* Order o becomes s, and nobody is told.
WriteSilently(o, s) ==
    /\ status' = [status EXCEPT ![o] = s]
    /\ disturbed' = disturbed \cup {o}

-------------------------------------------------------------------------------
(* Requests that write the status *)

\* createCashCheckoutOrder, or createAdminCounterOrder of an unpaid order.
CreateUnpaid(r, o) ==
    /\ status[o] = NoOrder
    /\ Begin(r, o, "notify", "PENDING_PAYMENT")
    /\ Write(r, o, "PENDING_PAYMENT")
    /\ UNCHANGED <<attached, notes, stream, cutShort>>

\* createAdminCounterOrder of a paid order, up to the row.
CreatePaid(r, o) ==
    /\ status[o] = NoOrder
    /\ Begin(r, o, "collect", "PLACED")
    /\ WriteSilently(o, "PENDING_PAYMENT")
    /\ UNCHANGED <<attached, notes, stream, owed, cutShort>>

\* markCounterOrderPlaced, by the id of the order.
MarkCounterOrderPlaced(r) ==
    /\ At(r, "collect")
    /\ Write(r, req[r].order, "PLACED")
    /\ req' = [req EXCEPT ![r].pc = "notify", ![r].lenient = TRUE]
    /\ UNCHANGED <<attached, notes, stream, started, cutShort>>

\* startCheckoutOrder creates the order, finds it pending, or revives it.
StartCheckout(r, o) ==
    /\ status[o] \in {NoOrder, "PENDING_PAYMENT", "CANCELLED"}
    /\ o \notin attached
    /\ Begin(r, o, "provider", "PENDING_PAYMENT")
    /\ WriteSilently(o, "PENDING_PAYMENT")
    /\ UNCHANGED <<attached, notes, stream, owed, cutShort>>

\* The provider's answer is attached, or the order is cancelled, by its id.
EndCheckout(r) ==
    LET o == req[r].order IN
    /\ At(r, "provider")
    /\ \/ /\ attached' = attached \cup {o}
          /\ WriteSilently(o, "PENDING_PAYMENT")
       \/ /\ attached' = attached
          /\ WriteSilently(o, "CANCELLED")
    /\ req' = [req EXCEPT ![r] = Idle]
    /\ UNCHANGED <<notes, stream, started, owed, cutShort>>

\* Variant: every settlement notifies.
SettleAndNotify(r, o) ==
    /\ o \in attached
    /\ Begin(r, o, "notify",
             IF status[o] = "PENDING_PAYMENT" THEN "PLACED" ELSE status[o])
    /\ IF status[o] = "PENDING_PAYMENT"
       THEN Write(r, o, "PLACED")
       ELSE UNCHANGED <<status, owed, disturbed>>
    /\ UNCHANGED <<attached, notes, stream, cutShort>>

\* finalizePaidOrder: a confirmation, a read or one of several deliveries of
\* the webhook.  Only the one that places the order notifies; all tell.
FinalizePaidOrder(r, o) ==
    LET places == status[o] = "PENDING_PAYMENT"
        seen == IF places THEN "PLACED" ELSE status[o]
    IN
    /\ o \in attached
    /\ At(r, "idle")
    /\ req' = [req EXCEPT ![r] =
                [Idle EXCEPT !.pc = IF places THEN "notify" ELSE "tell",
                             !.order = o, !.status = seen, !.lenient = TRUE]]
    /\ IF places
       THEN /\ started < MaxStarts
            /\ started' = started + 1
            /\ Write(r, o, "PLACED")
       ELSE UNCHANGED <<status, owed, disturbed, started>>
    /\ UNCHANGED <<attached, notes, stream, cutShort>>

\* updateStatus reads the order and checks the move.
StartUpdate(r, o, s) ==
    /\ status[o] # NoOrder
    /\ s \in AllowedStatusUpdates(status[o])
    /\ Begin(r, o, "move", s)
    /\ UNCHANGED <<status, attached, notes, stream, owed, cutShort, disturbed>>

\* It writes the order by its id.
UpdateStatus(r) ==
    /\ At(r, "move")
    /\ Write(r, req[r].order, req[r].status)
    /\ req' = [req EXCEPT ![r].pc = IF req[r].status \in ReadyForPickup
                                    THEN "code" ELSE "notify"]
    /\ UNCHANGED <<attached, notes, stream, started, cutShort>>

\* generateForOrderNumber reads the order again, and makes a code.
GenerateCode(r) ==
    LET o == req[r].order IN
    /\ At(r, "code")
    /\ status[o] \in ReadyForPickup
    /\ req' = [req EXCEPT ![r].pc = "announce", ![r].saw = status[o]]
    /\ UNCHANGED <<status, attached, notes, stream, started, owed, cutShort, disturbed>>

\* It refuses an order that is no longer ready, and updateStatus ends there.
RefuseCode(r) ==
    /\ At(r, "code")
    /\ status[req[r].order] \notin ReadyForPickup
    /\ req' = [req EXCEPT ![r] = Idle]
    /\ UNCHANGED <<status, attached, notes, stream, started, owed, cutShort, disturbed>>

\* The staff refresh the code, or a verification finds it expired:
\* generateForOrderNumber, by itself, has read the order.
RefreshCode(r, o) ==
    /\ status[o] \in ReadyForPickup
    /\ At(r, "idle")
    /\ started < MaxStarts
    /\ started' = started + 1
    /\ req' = [req EXCEPT ![r] = [Idle EXCEPT !.pc = "announce", !.order = o,
                                              !.saw = status[o]]]
    /\ UNCHANGED <<status, attached, notes, stream, owed, cutShort, disturbed>>

\* verifyForOrderNumber has found the order ready and the code right.
StartPickup(r, o) ==
    /\ status[o] \in ReadyForPickup
    /\ Begin(r, o, "complete", "COMPLETED")
    /\ UNCHANGED <<status, attached, notes, stream, owed, cutShort, disturbed>>

\* The metadata of its notification is the time, not the status.
CompletePickup(r) ==
    /\ At(r, "complete")
    /\ Write(r, req[r].order, "COMPLETED")
    /\ req' = [req EXCEPT ![r].pc = "notify", ![r].carries = FALSE]
    /\ UNCHANGED <<attached, notes, stream, started, cutShort>>

-------------------------------------------------------------------------------
(* What follows the commit *)

\* The streams when s of o is emitted to ls.
Hears(ls, o, s) ==
    [l \in Streams |-> IF l \in ls /\ stream[l].connected
                       THEN [stream[l] EXCEPT !.known[o] = s] ELSE stream[l]]

\* The notification of a code, with the status that was read for it.
AnnounceCode(r) ==
    LET o == req[r].order
        s == req[r].saw
    IN
    /\ At(r, "announce")
    /\ notes' = Append(notes, [order |-> o, status |-> s, readAt |-> None])
    /\ stream' = Hears(CustomerStreams, o, s)
    /\ req' = [req EXCEPT ![r].pc = "emit"]
    /\ UNCHANGED <<status, attached, started, owed, cutShort, disturbed>>

\* generateForOrderNumber emits that status; updateStatus goes on.
EmitCode(r) ==
    /\ At(r, "emit")
    /\ stream' = Hears(Streams, req[r].order, req[r].saw)
    /\ req' = [req EXCEPT ![r] = IF req[r].status = None THEN Idle
                    ELSE [req[r] EXCEPT !.pc = "notify", !.saw = None]]
    /\ UNCHANGED <<status, attached, notes, started, owed, cutShort, disturbed>>

\* notificationsService.create, and its event if the insert succeeds.
CreateNotification(r) ==
    LET o == req[r].order
        s == req[r].status
    IN
    /\ At(r, "notify")
    /\ notes' = Append(notes, [order |-> o, status |-> s, readAt |-> None])
    /\ stream' = IF req[r].carries THEN Hears(CustomerStreams, o, s) ELSE stream
    /\ owed' = [owed EXCEPT ![o] = IF s = "PLACED" THEN @ - 1 ELSE @]
    /\ req' = [req EXCEPT ![r].pc = "tell"]
    /\ UNCHANGED <<status, attached, started, cutShort, disturbed>>

\* sendOrderPlacedNotification goes on without the notification.
LoseNotification(r) ==
    /\ At(r, "notify")
    /\ req[r].lenient
    /\ req' = [req EXCEPT ![r].pc = "tell"]
    /\ cutShort' = cutShort \cup {req[r].order}
    /\ UNCHANGED <<status, attached, notes, stream, started, owed, disturbed>>

\* Variant: tells what the order is now only to the customer.
TellCustomerOnly(r) ==
    /\ At(r, "tell")
    /\ stream' = Hears(CustomerStreams, req[r].order, req[r].status)
    /\ req' = [req EXCEPT ![r] = Idle]
    /\ UNCHANGED <<status, attached, notes, started, owed, cutShort, disturbed>>

\* emitOrderUpdated
EmitOrderUpdated(r) ==
    /\ At(r, "tell")
    /\ stream' = Hears(Streams, req[r].order, req[r].status)
    /\ req' = [req EXCEPT ![r] = Idle]
    /\ UNCHANGED <<status, attached, notes, started, owed, cutShort, disturbed>>

\* A request ends at an await: a query failed.
Abort(r) ==
    /\ ~At(r, "idle")
    /\ req' = [req EXCEPT ![r] = Idle]
    /\ LET cut == {o \in Orders : r \in Telling(o)} IN
        /\ cutShort' = cutShort \cup cut
        /\ disturbed' = disturbed \cup cut
    /\ UNCHANGED <<status, attached, notes, stream, started, owed>>

\* The process dies: its requests end and its streams close.
Restart ==
    /\ req' = [r \in Requests |-> Idle]
    /\ stream' = [l \in Streams |-> Closed]
    /\ LET cut == {o \in Orders : Telling(o) # {}} IN
        /\ cutShort' = cutShort \cup cut
        /\ disturbed' = disturbed \cup cut
    /\ UNCHANGED <<status, attached, notes, started, owed>>

-------------------------------------------------------------------------------
(* The readers *)

\* customerEvents, adminEvents: a stream says "connected", and of no order; who
\* follows it reads the orders as they are.
Connect(l) ==
    /\ ~stream[l].connected
    /\ stream' = [stream EXCEPT ![l] = [connected |-> TRUE, known |-> status]]
    /\ UNCHANGED <<status, attached, notes, req, started, owed, cutShort, disturbed>>

Disconnect(l) ==
    /\ stream[l].connected
    /\ stream' = [stream EXCEPT ![l] = Closed]
    /\ UNCHANGED <<status, attached, notes, req, started, owed, cutShort, disturbed>>

\* markRead finds the row.
FindNotification(r, i) ==
    /\ At(r, "idle")
    /\ started < MaxStarts
    /\ started' = started + 1
    /\ req' = [req EXCEPT ![r] = [Idle EXCEPT !.pc = "mark", !.note = i,
                                              !.readAt = notes[i].readAt]]
    /\ UNCHANGED <<status, attached, notes, stream, owed, cutShort, disturbed>>

\* Variant: stamps the row again.
MarkAgain(r) ==
    /\ At(r, "mark")
    /\ notes' = [notes EXCEPT ![req[r].note].readAt = r]
    /\ req' = [req EXCEPT ![r] = Idle]
    /\ UNCHANGED <<status, attached, stream, started, owed, cutShort, disturbed>>

\* It keeps the time it read, or stamps the row: a time is known by the
\* request that took it.
MarkRead(r) ==
    /\ At(r, "mark")
    /\ notes' = [notes EXCEPT ![req[r].note].readAt =
                    IF req[r].readAt = None THEN r ELSE req[r].readAt]
    /\ req' = [req EXCEPT ![r] = Idle]
    /\ UNCHANGED <<status, attached, stream, started, owed, cutShort, disturbed>>

\* updateMany stamps the rows without a time.
MarkAllRead(r) ==
    /\ At(r, "idle")
    /\ started < MaxStarts
    /\ started' = started + 1
    /\ notes' = [i \in DOMAIN notes |->
                    IF notes[i].readAt = None THEN [notes[i] EXCEPT !.readAt = r]
                    ELSE notes[i]]
    /\ UNCHANGED <<status, attached, stream, req, owed, cutShort, disturbed>>

-------------------------------------------------------------------------------

Step(r) ==
    \/ \E o \in Orders :
        \/ CreateUnpaid(r, o)
        \/ CreatePaid(r, o)
        \/ StartCheckout(r, o)
        \/ FinalizePaidOrder(r, o)
        \/ \E s \in OrderStatuses : StartUpdate(r, o, s)
        \/ RefreshCode(r, o)
        \/ StartPickup(r, o)
    \/ MarkCounterOrderPlaced(r)
    \/ EndCheckout(r)
    \/ UpdateStatus(r)
    \/ GenerateCode(r)
    \/ RefuseCode(r)
    \/ AnnounceCode(r)
    \/ EmitCode(r)
    \/ CompletePickup(r)
    \/ CreateNotification(r)
    \/ LoseNotification(r)
    \/ EmitOrderUpdated(r)
    \/ Abort(r)
    \/ \E i \in DOMAIN notes : FindNotification(r, i)
    \/ MarkRead(r)
    \/ MarkAllRead(r)

Next ==
    \/ \E r \in Requests : Step(r)
    \/ \E l \in Streams : Connect(l) \/ Disconnect(l)
    \/ Restart

Spec == Init /\ [][Next]_vars

-------------------------------------------------------------------------------
(* Properties *)

Known == OrderStatuses \cup {NoOrder, None}

RequestStates ==
    [pc : {"idle", "move", "collect", "complete", "provider", "code",
           "announce", "emit", "notify", "tell", "mark"},
     order : Orders \cup {None}, status : Known, saw : Known, lenient : BOOLEAN,
     carries : BOOLEAN, note : Nat, readAt : Requests \cup {None}]

TypeOK ==
    /\ status \in [Orders -> OrderStatuses \cup {NoOrder}]
    /\ attached \in SUBSET Orders
    /\ notes \in Seq([order : Orders, status : Known, readAt : Requests \cup {None}])
    /\ stream \in [Streams -> [connected : BOOLEAN, known : [Orders -> Known]]]
    /\ req \in [Requests -> RequestStates]
    /\ started \in Nat
    /\ owed \in [Orders -> Nat]
    /\ cutShort \in SUBSET Orders
    /\ disturbed \in SUBSET Orders

\* Who follows a stream knows the present status of an order when nobody is
\* about to tell: unless the status was last written by online checkout, while
\* another request was still telling a status it had written or read (for a
\* pickup code it refreshed), or by a request that failed.
StreamsKeepUp ==
    \A l \in Streams, o \in Orders :
        stream[l].connected /\ Telling(o) = {} /\ o \notin disturbed =>
            stream[l].known[o] = status[o]

\* Requests that placed o and have yet to notify.
Notifying(o) == {r \in Requests : /\ req[r].order = o
                                  /\ req[r].status = "PLACED"
                                  /\ req[r].pc = "notify"}

\* Each time an order is placed there is one notification of it, however many
\* settlements there are: never two, and none only if the request that placed
\* it ended, or could not store it.
PlacedOrdersAreNotifiedOnce ==
    \A o \in Orders :
        /\ owed[o] >= Cardinality(Notifying(o))
        /\ o \notin cutShort => owed[o] = Cardinality(Notifying(o))

\* The time a notification was read changes only through a reader who found
\* another: without overlapping readers it is the time of the first, for ever.
ReadTimesNeedOverlap ==
    [][\A i \in DOMAIN notes :
        notes[i].readAt # None /\ notes'[i].readAt # notes[i].readAt =>
            \E r \in Requests : At(r, "mark") /\ req[r].readAt # notes[i].readAt
                                 /\ req'[r] = Idle
      ]_notes

-------------------------------------------------------------------------------
(* The inductive invariant behind the theorems of FulfilmentProofs *)

\* What a request goes on with.
RequestInv(r) ==
    /\ req[r].pc \notin {"idle", "mark"} => req[r].order \in Orders
    /\ At(r, "collect") => req[r].status = "PLACED"
    /\ At(r, "complete") => req[r].status = "COMPLETED"
    /\ At(r, "move") => req[r].status \in OrderStatuses
    /\ At(r, "code") => req[r].status \in ReadyForPickup
    /\ req[r].pc \in {"announce", "emit"} =>
            /\ req[r].saw \in ReadyForPickup
            /\ req[r].status \in ReadyForPickup \cup {None}
    /\ req[r].pc \notin {"announce", "emit"} => req[r].saw = None
    /\ req[r].pc \in {"notify", "tell"} => req[r].status # None
    /\ At(r, "mark") => req[r].note \in DOMAIN notes

\* Whoever is about to tell of o tells what it is, and followers know it once
\* nobody is.
FollowInv(o) ==
    o \notin disturbed =>
        /\ \A r \in Telling(o) : {req[r].status, req[r].saw} \subseteq {status[o], None}
        /\ Telling(o) = {} => \A l \in Streams :
                stream[l].connected => stream[l].known[o] = status[o]

OwedInv(o) ==
    /\ owed[o] >= Cardinality(Notifying(o))
    /\ o \notin cutShort => owed[o] = Cardinality(Notifying(o))

FeedInv ==
    /\ TypeOK
    /\ \A r \in Requests : RequestInv(r)
    /\ \A o \in Orders : FollowInv(o) /\ OwedInv(o)
===============================================================================
