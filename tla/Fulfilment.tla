------------------------------ MODULE Fulfilment ------------------------------
(***************************************************************************)
(* Invoices and Feed together, over the same orders: a request is one of   *)
(* either, what Feed writes is what invoices render, and a restart ends    *)
(* both.                                                                   *)
(***************************************************************************)
EXTENDS Invoices, Sequences

CONSTANTS CustomerStreams, StaffStreams, FirstStatuses, MaxStarts

ASSUME FulfilmentAssumption ==
    /\ FirstStatuses \subseteq OrderStatuses \cup {NoOrder}
    /\ IsFiniteSet(Requests)

VARIABLES attached, notes, stream, req, started, owed, cutShort, disturbed

F == INSTANCE Feed

feedVars == <<attached, notes, stream, req, owed, cutShort, disturbed>>

FulfilmentInit == F!Init /\ Init

\* A request that writes the status, tells of it, or reads notifications.
FeedStep(r) ==
    /\ At(r, "idle")
    /\ F!Step(r)
    /\ UNCHANGED <<month, invoice, object, job>>

\* A request for an invoice; the bound on requests is for both.
InvoiceStep(r) ==
    /\ F!At(r, "idle")
    /\ IF At(r, "idle")
       THEN started < MaxStarts /\ started' = started + 1
       ELSE UNCHANGED started
    /\ Step(r)
    /\ UNCHANGED feedVars

Streaming ==
    /\ \E l \in F!Streams : F!Connect(l) \/ F!Disconnect(l)
    /\ UNCHANGED <<month, invoice, object, job>>

MonthEnds == NextMonth /\ UNCHANGED <<feedVars, started>>

Restart ==
    /\ F!Restart
    /\ job' = [r \in Requests |-> Idle]
    /\ UNCHANGED <<month, invoice, object>>

FulfilmentNext ==
    \/ \E r \in Requests : FeedStep(r) \/ InvoiceStep(r)
    \/ Streaming
    \/ MonthEnds
    \/ Restart

FulfilmentSpec == FulfilmentInit /\ [][FulfilmentNext]_<<vars, feedVars, started>>

-------------------------------------------------------------------------------
(* Properties: see also Invoices.                                          *)

\* Feed: a stream that stays connected is told of every write.
StreamsKeepUp == F!StreamsKeepUp

\* Feed: a placed order has one notification, unless its request was cut short.
PlacedOrdersAreNotifiedOnce == F!PlacedOrdersAreNotifiedOnce

\* Feed: only requests that overlap change the time a notification was read.
ReadTimesNeedOverlap == F!ReadTimesNeedOverlap
===============================================================================
