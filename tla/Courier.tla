------------------------------ MODULE Courier ------------------------------
(***************************************************************************)
(* Delivery by a connected courier: CourierService, CourierAccountService, *)
(* the tracking cron and the provider adapters, for one seller order and   *)
(* one return of it.  Every provider call happens outside a transaction,   *)
(* and a write to the provider is never retried, because one that timed    *)
(* out may have succeeded.  What a call returns is stored in another step; *)
(* scans come back as webhooks in any order, and repeatedly.               *)
(*                                                                         *)
(* Stock (OrderStock), money (Returns), rates (Pricing) and the contents   *)
(* of requests are left out, and so is the cached login token: a call that *)
(* needs it may fail, and a failed call is one that never answers.         *)
(***************************************************************************)
EXTENDS Integers, FiniteSets

CONSTANTS
  Couriers,    \* requests, webhooks and polls handled at the same time
  MaxParcels,  \* bound: shipments the provider opens
  MaxScans,    \* bound: events the provider posts
  MaxMishaps   \* bound: crashes and lost answers

ASSUME CourierConstantsOK == /\ IsFiniteSet(Couriers)
                             /\ MaxParcels \in Nat /\ MaxScans \in Nat /\ MaxMishaps \in Nat

Parcels == 1 .. MaxParcels

VARIABLES
  stage,    \* SellerOrder.status
  booked,   \* SellerOrder.shipmentId, with its providerOrderId; 0 when null
  awb,      \* SellerOrder.awbCode, the parcel it names; 0 when null
  pickup,   \* ReturnRequest.status while the goods come back
  backAwb,  \* ReturnRequest.reverseAwb, the parcel it names; 0 when null
  parcel,   \* the provider's record of a parcel: its purpose, AWB and status
  scans,    \* the provider's events; each may be posted at any time, and again
  scanLog,  \* CourierWebhookLog: the events accepted
  flagged,  \* SellerOrder.metadata.ndr, and its alert in the outbox
  account,  \* CourierAccount.isEnabled; a webhook secret is configured
  ctask,    \* what each handler is about to do
  excused,  \* history: parcels a lost answer or an overlapping call explains
  mishaps

sliceVars   == <<stage, booked, awb>>
returnBack  == <<pickup, backAwb>>
providerVars == <<parcel, scans>>
courierVars == <<sliceVars, returnBack, providerVars, scanLog, flagged, account, ctask,
                 excused, mishaps>>

Stages    == {"PENDING", "CONFIRMED", "PACKED", "SHIPPED", "DELIVERED", "CANCELLED"}
Scan      == {"PICKED_UP", "DELIVERED", "CANCELLED", "NDR"}
Resting   == [do |-> "idle", parcel |-> 0, status |-> "none"]
NoParcel  == [for |-> "none", awb |-> FALSE, at |-> "new"]

CourierTask == [do : {"idle", "push", "read", "create", "store", "book", "assign", "ship", "stamp",
                      "write", "alarm", "collect", "return", "login"},
                parcel : 0 .. MaxParcels, status : Scan \cup Stages \cup {"none"}]

CourierInit ==
  /\ stage = "PENDING" /\ booked = 0 /\ awb = 0
  /\ pickup = "APPROVED" /\ backAwb = 0
  /\ parcel = [n \in Parcels |-> NoParcel]
  /\ scans = {} /\ scanLog = {}
  /\ flagged = FALSE
  /\ account = TRUE
  /\ ctask = [w \in Couriers |-> Resting]
  /\ excused = 0 /\ mishaps = 0

Rest(w)      == ctask' = [ctask EXCEPT ![w] = Resting]
Do(w, d, n, s) == ctask' = [ctask EXCEPT ![w] = [do |-> d, parcel |-> n, status |-> s]]
Doing(w, d)  == ctask[w].do = d

(***************************************************************************)
(* The seller's moves, as far as the courier is concerned.                 *)
(***************************************************************************)
NextStage(from) ==
  CASE from = "PENDING"   -> {"CONFIRMED", "CANCELLED"}
    [] from = "CONFIRMED" -> {"PACKED", "CANCELLED"}
    [] from = "PACKED"    -> {"SHIPPED", "CANCELLED"}
    [] from = "SHIPPED"   -> {"DELIVERED"}
    [] OTHER              -> {}

\* updateStatus; a confirmation pushes the order to the courier, unawaited.
SellerMoves(w, to) ==
  /\ to \in NextStage(stage) /\ to # "SHIPPED" /\ to # "DELIVERED"
  /\ stage' = to
  /\ IF to = "CONFIRMED" THEN Doing(w, "idle") /\ Do(w, "push", 0, "none") ELSE UNCHANGED ctask
  /\ UNCHANGED <<booked, awb, returnBack, providerVars, scanLog, flagged, account, excused,
                 mishaps>>

(***************************************************************************)
(* A shipment is opened at the provider when the seller confirms, or when  *)
(* it is shipped if that did not happen; then its number is stored.        *)
(***************************************************************************)
Opening == {w \in Couriers : ctask[w].do \in {"create", "store"}}

\* A reader that finds no shipment while another call opens one will open a second.
Overlap(w) == excused' = IF Opening \ {w} = {} THEN excused ELSE excused + 1

\* Slip: the shipment already pushed is not looked for.
NeverOpened == TRUE

NotOpened == booked = 0

\* createOrderAtConfirm reads the slice and the account.
PushRead(w) ==
  /\ Doing(w, "push")
  /\ \/ ~(NotOpened /\ account) /\ Rest(w) /\ UNCHANGED excused
     \/ NotOpened /\ account /\ Do(w, "create", 0, "none") /\ Overlap(w)
  /\ UNCHANGED <<sliceVars, returnBack, providerVars, scanLog, flagged, account, mishaps>>

\* shipViaCourier reads them; it goes on with the shipment it finds.
ShipRead(w) ==
  /\ Doing(w, "idle") /\ stage = "PACKED" /\ account
  /\ \/ NotOpened /\ Do(w, "create", 0, "PACKED") /\ Overlap(w)
     \/ ~NotOpened /\ Do(w, "assign", booked, "PACKED") /\ UNCHANGED excused
  /\ UNCHANGED <<sliceVars, returnBack, providerVars, scanLog, flagged, account, mishaps>>

Fresh(n) == parcel[n] = NoParcel /\ \A p \in Parcels : p < n => parcel[p] # NoParcel

\* createShipment and createReturnShipment: the parcel exists whether or not the
\* answer arrives.
OpenParcel(w, n, for) ==
  /\ Fresh(n)
  /\ parcel' = [parcel EXCEPT ![n].for = for]

Answered(w, next, n) ==
  /\ Do(w, next, n, ctask[w].status)
  /\ UNCHANGED <<excused, mishaps>>

Lost(w) ==
  /\ mishaps < MaxMishaps /\ mishaps' = mishaps + 1
  /\ excused' = excused + 1
  /\ Rest(w)

CreateShipment(w) ==
  /\ Doing(w, "create")
  /\ \E n \in Parcels : OpenParcel(w, n, "order") /\ (Answered(w, "store", n) \/ Lost(w))
  /\ UNCHANGED <<sliceVars, returnBack, scans, scanLog, flagged, account>>

StoreShipment(w) ==
  /\ Doing(w, "store")
  /\ booked' = ctask[w].parcel
  /\ IF ctask[w].status = "PACKED" THEN Do(w, "assign", ctask[w].parcel, "PACKED") ELSE Rest(w)
  /\ UNCHANGED <<stage, awb, returnBack, providerVars, scanLog, flagged, account, excused,
                 mishaps>>

\* assignAwb; the pickup and the label after it are best effort.
AssignAwb(w) ==
  /\ Doing(w, "assign")
  /\ parcel' = [parcel EXCEPT ![ctask[w].parcel].awb = TRUE]
  /\ Do(w, "ship", ctask[w].parcel, "PACKED")
  /\ UNCHANGED <<sliceVars, returnBack, scans, scanLog, flagged, account, excused, mishaps>>

\* markShippedFromCourier: updateStatus refuses a slice that has left PACKED, in a
\* transaction of its own; the AWB is stamped after it.
MarkShipped(w) ==
  /\ Doing(w, "ship")
  /\ IF stage = "PACKED" THEN stage' = "SHIPPED" /\ Do(w, "stamp", ctask[w].parcel, "none")
                         ELSE stage' = stage /\ Rest(w)
  /\ UNCHANGED <<booked, awb, returnBack, providerVars, scanLog, flagged, account, excused,
                 mishaps>>

StampAwb(w) ==
  /\ Doing(w, "stamp")
  /\ awb' = ctask[w].parcel /\ booked' = ctask[w].parcel
  /\ Rest(w)
  /\ UNCHANGED <<stage, returnBack, providerVars, scanLog, flagged, account, excused, mishaps>>

(***************************************************************************)
(* A return is collected: scheduleReturnPickup with createReturnShipment.  *)
(***************************************************************************)
CollectRead(w) ==
  /\ Doing(w, "idle") /\ pickup = "APPROVED" /\ stage = "DELIVERED"
  /\ \/ account /\ Do(w, "collect", 0, "none")
     \/ ~account /\ Do(w, "return", 0, "none")
  /\ UNCHANGED <<sliceVars, returnBack, providerVars, scanLog, flagged, account, excused,
                 mishaps>>

\* Its AWB may not be assigned: that failure is only logged.
CreateReturn(w) ==
  /\ Doing(w, "collect")
  /\ \E n \in Parcels, ok \in BOOLEAN :
       /\ Fresh(n)
       /\ parcel' = [parcel EXCEPT ![n] = [for |-> "return", awb |-> ok, at |-> "new"]]
       /\ Do(w, "return", IF ok THEN n ELSE 0, "none")
  /\ UNCHANGED <<sliceVars, returnBack, scans, scanLog, flagged, account, excused, mishaps>>

\* The loser of two schedules leaves its parcel behind.
SchedulePickupBack(w) ==
  /\ Doing(w, "return")
  /\ IF pickup = "APPROVED" THEN pickup' = "PICKUP_SCHEDULED" /\ backAwb' = ctask[w].parcel
                            ELSE UNCHANGED returnBack
  /\ Rest(w)
  /\ UNCHANGED <<sliceVars, providerVars, scanLog, flagged, account, excused, mishaps>>

ReceiveByHand ==
  /\ pickup \in {"PICKUP_SCHEDULED", "IN_TRANSIT"}
  /\ pickup' = "RECEIVED"
  /\ UNCHANGED <<sliceVars, backAwb, providerVars, scanLog, flagged, account, ctask, excused,
                 mishaps>>

(***************************************************************************)
(* The provider moves a parcel and posts what happened, then or later.     *)
(***************************************************************************)
After(at) == CASE at = "new" -> {"PICKED_UP", "CANCELLED"}
               [] at \in {"PICKED_UP", "NDR"} -> {"DELIVERED", "NDR"} \ {at}
               [] OTHER -> {}

ParcelMoves(n, to) ==
  /\ parcel[n].awb /\ to \in After(parcel[n].at) /\ Cardinality(scans) < MaxScans
  /\ parcel' = [parcel EXCEPT ![n].at = to]
  /\ scans' = scans \cup {<<n, to>>}
  /\ UNCHANGED <<sliceVars, returnBack, scanLog, flagged, account, ctask, excused, mishaps>>

\* applyStatus and applyCourierStatus: the slice is read, then written without a
\* condition.
Target(status) == IF status = "PICKED_UP" THEN "SHIPPED" ELSE status

ApplyStatus(w, n, status) ==
  CASE status = "NDR" /\ ~flagged -> Do(w, "alarm", n, status)
    [] status # "NDR" /\ Target(status) \in NextStage(stage) -> Do(w, "write", n, Target(status))
    [] OTHER -> Rest(w)

\* handleWebhook: a scan is matched by AWB or provider order, its key is checked, and it
\* is logged once before it is applied.
Matches(n) == n \in {awb, booked}

Webhook(w, n, status) ==
  /\ Doing(w, "idle") /\ account
  /\ <<n, status>> \in scans \ scanLog
  /\ scanLog' = scanLog \cup {<<n, status>>}
  /\ \/ Matches(n) /\ ApplyStatus(w, n, status)
     \/ ~Matches(n) /\ n = backAwb /\ Do(w, "book", n, status)
  /\ UNCHANGED <<sliceVars, returnBack, providerVars, flagged, account, excused, mishaps>>

\* tryReverseReturnWebhook and advanceFromReverseScan, a conditional update.
ApplyReverse(w) ==
  /\ Doing(w, "book")
  /\ pickup' = CASE ctask[w].status = "PICKED_UP" /\ pickup = "PICKUP_SCHEDULED" -> "IN_TRANSIT"
                 [] ctask[w].status = "DELIVERED" /\ pickup \in {"PICKUP_SCHEDULED", "IN_TRANSIT"}
                      -> "RECEIVED"
                 [] OTHER -> pickup
  /\ Rest(w)
  /\ UNCHANGED <<sliceVars, backAwb, providerVars, scanLog, flagged, account, excused, mishaps>>

\* The daily poll asks for the status of a shipped slice's AWB.
Poll(w) ==
  /\ Doing(w, "idle") /\ stage = "SHIPPED" /\ awb # 0 /\ account
  /\ parcel[awb].at # "new"
  /\ ApplyStatus(w, awb, parcel[awb].at)
  /\ UNCHANGED <<sliceVars, returnBack, providerVars, scanLog, flagged, account, excused,
                 mishaps>>

ApplyWrite(w) ==
  /\ Doing(w, "write")
  /\ stage' = ctask[w].status
  /\ Rest(w)
  /\ UNCHANGED <<booked, awb, returnBack, providerVars, scanLog, flagged, account, excused,
                 mishaps>>

\* applyCourierExceptionStatus: the flag and the outbox event share a transaction.
FlagException(w) ==
  /\ Doing(w, "alarm")
  /\ flagged' = TRUE
  /\ Rest(w)
  /\ UNCHANGED <<sliceVars, returnBack, providerVars, scanLog, account, excused, mishaps>>

(***************************************************************************)
(* The courier account.                                                    *)
(***************************************************************************)
SetAccount(a) ==
  /\ account' = a
  /\ UNCHANGED <<sliceVars, returnBack, providerVars, scanLog, flagged, excused, mishaps>>

\* connect disables the account, then logs in.
ConnectReset(w) ==
  /\ Doing(w, "idle") /\ Do(w, "login", 0, "none")
  /\ SetAccount(FALSE)
ConnectLogin(w) ==
  /\ Doing(w, "login") /\ Rest(w)
  /\ \E ok \in BOOLEAN : SetAccount(ok)
SetEnabled(on) == SetAccount(on) /\ UNCHANGED ctask

\* A crash, or a call that throws, at any step of any handler.
CourierCrash(w) ==
  /\ ctask[w] # Resting /\ mishaps < MaxMishaps /\ mishaps' = mishaps + 1
  /\ excused' = IF Doing(w, "store") THEN excused + 1 ELSE excused
  /\ Rest(w)
  /\ UNCHANGED <<sliceVars, returnBack, providerVars, scanLog, flagged, account>>

-----------------------------------------------------------------------------
Shipping(w) ==
  \/ \E to \in Stages : SellerMoves(w, to)
  \/ PushRead(w) \/ ShipRead(w) \/ CreateShipment(w) \/ StoreShipment(w) \/ AssignAwb(w)
  \/ MarkShipped(w) \/ StampAwb(w)
Collecting(w) == CollectRead(w) \/ CreateReturn(w) \/ SchedulePickupBack(w)
Tracking(w) ==
  \/ \E n \in Parcels, s \in Scan : Webhook(w, n, s)
  \/ ApplyReverse(w) \/ Poll(w) \/ ApplyWrite(w) \/ FlagException(w)
Connecting(w) == ConnectReset(w) \/ ConnectLogin(w)
Settings == \E b \in BOOLEAN : SetEnabled(b)

CourierNext ==
  \/ \E w \in Couriers : Shipping(w) \/ Collecting(w) \/ Tracking(w) \/ Connecting(w)
                           \/ CourierCrash(w)
  \/ ReceiveByHand \/ Settings
  \/ \E n \in Parcels, to \in Scan : ParcelMoves(n, to)

CourierSpec == CourierInit /\ [][CourierNext]_courierVars

-----------------------------------------------------------------------------
\* Every variable has its type.
CourierTypeOK ==
  /\ stage \in Stages /\ booked \in 0 .. MaxParcels /\ awb \in 0 .. MaxParcels
  /\ pickup \in {"APPROVED", "PICKUP_SCHEDULED", "IN_TRANSIT", "RECEIVED"}
  /\ backAwb \in 0 .. MaxParcels
  /\ parcel \in [Parcels -> [for : {"none", "order", "return"}, awb : BOOLEAN,
                             at : Scan \cup {"new"}]]
  /\ scans \subseteq Parcels \X Scan /\ scanLog \subseteq scans
  /\ flagged \in BOOLEAN
  /\ account \in BOOLEAN
  /\ ctask \in [Couriers -> CourierTask]
  /\ excused \in Nat /\ mishaps \in Nat

\* "Fire-and-forget, idempotent": one order is one parcel at the provider.  A second is
\* opened only after an answer was lost or while another call was opening one.
ParcelsExplained == Cardinality({n \in Parcels : parcel[n].for = "order"}) =< 1 + excused
=============================================================================
