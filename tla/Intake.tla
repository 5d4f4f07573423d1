------------------------------- MODULE Intake -------------------------------
(***************************************************************************)
(* One call from outside to its end: a notification, a scan or a run asks  *)
(* Mercado Libre for an order and its shipment, and process_order maps     *)
(* them, locates the address, claims the order and posts the visit.        *)
(*                                                                         *)
(* app/ml/webhooks.py, app/scheduler/routes.py, app/ml/flex_label.py,      *)
(* app/scheduler/ondemand.py, the fetching of app/ml/orders.py and, for    *)
(* one call, app/scheduler/processor.py.  Several calls at once, and what  *)
(* SimpliRoute then has, are Processor; what locating does is GeocodeCache. *)
(***************************************************************************)
EXTENDS Mapping

CONSTANTS
    Shops,   \* what Mercado Libre may know: orders and shipments by their ids
    Labels,  \* the labels that may be scanned
    Ids,     \* the numbers a notification or a scan may name
    NoId     \* no number

ASSUME IdsAssumption == NoId \notin Ids

\* Mercado Libre's data refer to each other, as far as they refer to anything,
\* and an order or a shipment is read under its own id.
IsOrder(o, id, s) ==
    /\ o.id = id
    /\ o.shipment \in DOMAIN s.shipments \cup {NoId}
    /\ IsText(o.first_name) /\ IsText(o.last_name) /\ IsPhone(o.phone)
    /\ IsAddress(o.address)
IsShipment(p, s) ==
    /\ p.flex \in BOOLEAN
    /\ p.order_id \in DOMAIN s.orders \cup {NoId}
    /\ p.orders \in Seq(DOMAIN s.orders)
    /\ IsAddress(p.address)
IsShop(s) ==
    /\ DOMAIN s.orders \subseteq Ids /\ DOMAIN s.shipments \subseteq Ids
    /\ \A id \in DOMAIN s.orders : IsOrder(s.orders[id], id, s)
    /\ \A id \in DOMAIN s.shipments : IsShipment(s.shipments[id], s)

ASSUME ShopsAssumption == \A s \in Shops : IsShop(s)

VARIABLES
    shop,    \* Mercado Libre's orders and shipments
    seller,  \* whether settings.ml_seller_id is configured
    call     \* the call under way

vars == <<shop, seller, call>>

-----------------------------------------------------------------------------
(* A label is what its text holds: `digits`, the number it is when it is   *)
(* nothing else, `runs`, its runs of six digits or more, and for an object *)
(* the digits under each of the three keys.  `shipment` is the one it      *)
(* sticks on, which the code cannot see.                                   *)

Keyed(label) ==
    IF label.id # NoId               THEN label.id
    ELSE IF label.shipment_id # NoId THEN label.shipment_id
    ELSE label.shipping_id

\* parse_flex_qr: the digits alone, the first key that has some, the first run.
ParseFlexQr(label) ==
    IF label.form = "none"                              THEN NoId
    ELSE IF label.form = "digits"                       THEN label.digits
    ELSE IF label.form = "object" /\ Keyed(label) # NoId THEN Keyed(label)
    ELSE IF label.runs # <<>>                           THEN Head(label.runs)
    ELSE NoId

NoLabel == [form |-> "none", digits |-> NoId, id |-> NoId, shipment_id |-> NoId,
            shipping_id |-> NoId, runs |-> <<>>, shipment |-> NoId]

\* flex_label.py: its keys, "in observed Flex QR payloads, hold the shipment id";
\* nothing is known of the other numbers on a label.
IsLabel(label) ==
    /\ label.digits \in IF label.form = "digits" THEN Ids ELSE {NoId}
    /\ {label.id, label.shipment_id, label.shipping_id} \subseteq
          IF label.form = "object" THEN {label.shipment, NoId} ELSE {NoId}
    /\ label.runs \in Seq(Ids)
    /\ label # NoLabel => \A s \in Shops : label.shipment \in DOMAIN s.shipments

ASSUME LabelsAssumption == \A label \in Labels : IsLabel(label)

-----------------------------------------------------------------------------
Nothing == [kind |-> "none"]

\* Where a call is; before "done" it has been started and can be lost.
Pcs == {"idle", "accepted", "fetch", "shipment", "order", "map", "locate", "claim", "find",
        "send", "answer", "flag", "alert", "done"}

\* How a call ends: in process_order, whose outcomes are judgements of the order,
\* or before it; by an exception, or by a stop of the process.
Judgements == {"completed", "recovered", "skipped_duplicate", "manual_review",
               "permanent_failed", "transient_failed"}
Results == Judgements \cup {"none", "ignored", "skipped", "no_id", "not_found", "raised", "lost"}

DataReasons   == {"missing_address", "missing_street_number", "missing_receiver_name",
                  "empty_items"}
LocateReasons == {"geocode_failed", "geocode_low_confidence"}
PermanentReason == "simpliroute_permanent_error"

\* Who an exception comes from: this code itself, or who failed.
Faults == {"none", "settings", "mercado_libre", "unknown_id", "geocoder", "simpliroute",
           "database"}

\* `row` is the order's row of processed_orders as the call last read or wrote
\* it, `reason` what its review was flagged for, `body` what was posted.
NoCall == [pc |-> "idle", via |-> "none", kind |-> "none", id |-> NoId, label |-> NoLabel,
           fetched |-> Nothing, visit |-> Nothing, body |-> Nothing, row |-> "none",
           result |-> "none", reason |-> "none", fault |-> "none"]

\* The type of the state; a call that has flagged its order only alerts and ends,
\* and what is posted has been claimed before.
TypeOK ==
    /\ shop \in Shops
    /\ seller \in BOOLEAN
    /\ DOMAIN call = DOMAIN NoCall
    /\ call.pc \in Pcs
    /\ call.via \in {"none", "notification", "scan", "run"}
    /\ call.kind \in {"none", "order", "shipment"}
    /\ call.id \in Ids \cup {NoId}
    /\ call.label \in Labels \cup {NoLabel}
    /\ call.row \in {"none", "pending", "failed", "completed"}
    /\ call.result \in Results /\ ((call.result = "none") <=> (call.pc # "done"))
    /\ call.reason \in DataReasons \cup LocateReasons
                          \cup {"none", "no_shipment", PermanentReason}
    /\ call.reason # "none" => call.pc \in {"alert", "done"}
    /\ call.body # Nothing => call.row # "none"
    /\ call.fault \in Faults

Init ==
    /\ shop \in Shops
    /\ seller \in BOOLEAN
    /\ call = NoCall

At(p) == call.pc = p
Becomes(c)  == call' = c /\ UNCHANGED <<shop, seller>>
Goto(p)     == Becomes([call EXCEPT !.pc = p])
End(result) == Becomes([call EXCEPT !.pc = "done", !.result = result])
Flag(reason) == Becomes([call EXCEPT !.pc = "alert", !.reason = reason])
Raise(fault) ==
    Becomes([call EXCEPT !.pc = "done", !.result = "raised", !.fault = fault])

Began(via, kind, id) == [NoCall EXCEPT !.via = via, !.kind = kind, !.id = id]

-----------------------------------------------------------------------------
(* Entry points *)

\* A notification of somebody else's, when a seller is configured.
NotifyIgnored(kind, id) ==
    /\ At("idle")
    /\ seller
    /\ Becomes([Began("notification", kind, id) EXCEPT !.pc = "done", !.result = "ignored"])

\* Another topic (the kind "none"), or no resource.
NotifySkipped(kind, id) ==
    /\ At("idle")
    /\ kind = "none" \/ id = NoId
    /\ Becomes([Began("notification", kind, id) EXCEPT !.pc = "done", !.result = "skipped"])

\* The answer goes out first, then the background task starts.
NotifyAccepted(kind, id) ==
    /\ At("idle")
    /\ kind # "none" /\ id # NoId
    /\ Becomes([Began("notification", kind, id) EXCEPT !.pc = "accepted"])

StartTask == At("accepted") /\ Goto("fetch")

\* The body has a shipment's number, or the text of a label, or neither.
Scan(shipping_id, label) ==
    LET id == IF shipping_id # NoId THEN shipping_id ELSE ParseFlexQr(label)
        c  == [Began("scan", "shipment", id) EXCEPT
                  !.label = IF shipping_id # NoId THEN NoLabel ELSE label]
    IN  /\ At("idle")
        /\ Becomes(IF id = NoId THEN [c EXCEPT !.pc = "done", !.result = "no_id"]
                                ELSE [c EXCEPT !.pc = "fetch"])

\* fetch_new_orders needs the seller, and comes to order o of the listing.
RunUnconfigured ==
    /\ At("idle")
    /\ ~seller
    /\ Becomes([Began("run", "none", NoId) EXCEPT
                   !.pc = "done", !.result = "raised", !.fault = "settings"])

RunLists(o) ==
    /\ At("idle")
    /\ seller
    /\ Becomes([Began("run", "order", o) EXCEPT !.pc = "fetch"])

-----------------------------------------------------------------------------
(* Fetching.  The listing already holds the order a run comes to.  A review *)
(* is committed, or found to be there, before the alert goes out: Flag.      *)

Order    == shop.orders[call.id]
Shipment == shop.shipments[call.id]

\* An order without a shipment: the run flags it, the other paths drop it.
FetchOrder ==
    /\ At("fetch") /\ call.kind = "order"
    /\ call.id \in DOMAIN shop.orders
    /\ \/ Order.shipment # NoId /\ Goto("shipment")
       \/ Order.shipment = NoId /\ call.via = "run" /\ Flag("no_shipment")
       \/ Order.shipment = NoId /\ call.via # "run" /\ End("not_found")

\* _build_flex_order, and the loop of fetch_new_orders.
FetchItsShipment ==
    /\ At("shipment")
    /\ LET shipment == shop.shipments[Order.shipment]
       IN  IF shipment.flex
           THEN Becomes([call EXCEPT !.pc = "map",
                            !.fetched = [order |-> Order, shipment |-> shipment]])
           ELSE End("not_found")

\* The order of a shipment: its order_id, or the first of its orders.
OrderId(shipment) ==
    IF shipment.order_id # NoId     THEN shipment.order_id
    ELSE IF shipment.orders # <<>>  THEN Head(shipment.orders)
    ELSE NoId

FetchShipment ==
    /\ At("fetch") /\ call.kind = "shipment"
    /\ call.id \in DOMAIN shop.shipments
    /\ IF Shipment.flex /\ OrderId(Shipment) # NoId THEN Goto("order") ELSE End("not_found")

FetchItsOrder ==
    /\ At("order")
    /\ Becomes([call EXCEPT !.pc = "map",
                   !.fetched = [order    |-> shop.orders[OrderId(Shipment)],
                                shipment |-> Shipment]])

\* Mercado Libre knows no such number; or it refuses, does not answer, or has
\* given no token: MLClient.get raises.
FetchUnknown ==
    /\ At("fetch")
    /\ call.id \notin IF call.kind = "order" THEN DOMAIN shop.orders ELSE DOMAIN shop.shipments
    /\ Raise("unknown_id")

FetchFails ==
    /\ call.pc \in {"fetch", "shipment", "order"}
    /\ ~(call.via = "run" /\ At("fetch"))
    /\ Raise("mercado_libre")

\* The token is read, and written when it is refreshed, before every request.
TokenRaises ==
    /\ call.pc \in {"fetch", "shipment", "order"}
    /\ ~(call.via = "run" /\ At("fetch"))
    /\ Raise("database")

-----------------------------------------------------------------------------
(* process_order *)

Mapped == MapOrderToVisit(call.fetched)

\* normalize_address raises, and so do map_order_to_visit and process_order.
MapRaises == At("map") /\ Unreadable(AddressSource(call.fetched)) /\ Raise("none")

MapReview ==
    /\ At("map")
    /\ ~Unreadable(AddressSource(call.fetched))
    /\ Mapped.kind = "review"
    /\ Flag(Mapped.reason)

NeedsLocatingBothGone(visit) ==   \* mutant: one coordinate is enough
    visit.latitude = "" /\ visit.longitude = ""
NeedsLocating(visit) == visit.latitude = "" \/ visit.longitude = ""

MapVisit ==
    /\ At("map")
    /\ ~Unreadable(AddressSource(call.fetched))
    /\ Mapped.kind = "visit"
    /\ Becomes([call EXCEPT !.visit = Mapped,
                            !.pc = IF NeedsLocating(Mapped) THEN "locate" ELSE "claim"])

\* _resolve_coordinates sets both coordinates, or names the reason.
Located ==
    /\ At("locate")
    /\ Becomes([call EXCEPT !.pc = "claim", !.visit.latitude = "found lat",
                            !.visit.longitude = "found lng"])

NotLocatedGoesOn(reason) ==   \* mutant: the reason is noted and the visit sent
    At("locate") /\ Becomes([call EXCEPT !.pc = "claim", !.reason = reason])
NotLocated(reason) == At("locate") /\ Flag(reason)

\* The backend raises: no answer, or no key to ask with.
LocateRaises == At("locate") /\ Raise("geocoder")

\* So does this service's own cache: another session has written the address
\* meanwhile, or is waited for in turn.
CacheRaises == At("locate") /\ Raise("database")

-----------------------------------------------------------------------------
(* process_order, from the claim on *)

AlreadySent ==
    /\ At("claim")
    /\ Becomes([call EXCEPT !.pc = "done", !.result = "skipped_duplicate",
                            !.row = "completed"])
ClaimNew == At("claim") /\ Becomes([call EXCEPT !.pc = "send", !.row = "pending"])

\* The row is left as it is found.
ClaimRetry(status) == At("claim") /\ Becomes([call EXCEPT !.pc = "find", !.row = status])

\* find_visit_by_reference has a visit; or it has none, or fails for now.
Recovered ==
    /\ At("find")
    /\ Becomes([call EXCEPT !.pc = "done", !.result = "recovered", !.row = "completed"])
FindNone == At("find") /\ Goto("send")

\* create_visit, all its attempts.
Post == At("send") /\ Becomes([call EXCEPT !.pc = "answer", !.body = Render(call.visit)])

Completed ==
    /\ At("answer")
    /\ Becomes([call EXCEPT !.pc = "done", !.result = "completed", !.row = "completed"])

ExhaustedUnclaimed ==   \* mutant: the claim is given back
    At("answer") /\ Becomes([call EXCEPT !.pc = "alert", !.row = "none", !.body = Nothing])

\* The attempts are used up.
Exhausted == At("answer") /\ Becomes([call EXCEPT !.pc = "alert", !.row = "failed"])

\* A permanent error fails the row, and then flags the order.
Rejected     == At("answer") /\ Becomes([call EXCEPT !.pc = "flag", !.row = "failed"])
FlagRejected == At("flag") /\ Flag(PermanentReason)

\* The alert, and the outcome that is returned.
AlertSent ==
    /\ At("alert")
    /\ End(IF call.reason = "none"               THEN "transient_failed"
           ELSE IF call.reason = PermanentReason THEN "permanent_failed"
           ELSE "manual_review")

\* SimpliRoute refuses the lookup, or an answer of its cannot be read.
SimpliRouteRaises == call.pc \in {"find", "answer"} /\ Raise("simpliroute")

\* A row, a review or an alert cannot be read or written: what was committed
\* before stays.
RecordRaises ==
    /\ \/ call.pc \in {"claim", "find", "answer", "flag", "alert"}
       \/ At("fetch") /\ call.via = "run" /\ Order.shipment = NoId
       \/ At("map") /\ ~Unreadable(AddressSource(call.fetched)) /\ Mapped.kind = "review"
       \/ At("locate")
    /\ Raise("database")

\* The process stops: a task that was accepted is not started again, and what
\* is committed stays.
Crash == call.pc \notin {"idle", "done"} /\ End("lost")

\* One call per behaviour.
Finished == At("done") /\ UNCHANGED vars

Next ==
    \/ \E kind \in {"none", "order", "shipment"}, id \in Ids \cup {NoId} :
          NotifyIgnored(kind, id) \/ NotifySkipped(kind, id) \/ NotifyAccepted(kind, id)
    \/ \E id \in Ids \cup {NoId}, label \in Labels : Scan(id, label)
    \/ RunUnconfigured
    \/ \E o \in DOMAIN shop.orders : RunLists(o)
    \/ StartTask
    \/ FetchOrder \/ FetchItsShipment \/ FetchShipment \/ FetchItsOrder
    \/ FetchUnknown \/ FetchFails \/ TokenRaises
    \/ MapRaises \/ MapReview \/ MapVisit
    \/ Located \/ (\E reason \in LocateReasons : NotLocated(reason))
    \/ LocateRaises \/ CacheRaises
    \/ AlreadySent \/ ClaimNew \/ (\E status \in {"pending", "failed"} : ClaimRetry(status))
    \/ Recovered \/ FindNone \/ Post
    \/ Completed \/ Exhausted \/ Rejected \/ FlagRejected \/ AlertSent
    \/ SimpliRouteRaises \/ RecordRaises
    \/ Crash
    \/ Finished

Spec == Init /\ [][Next]_vars
-----------------------------------------------------------------------------
(* What a call promises, said of Mercado Libre's data as it comes *)

Source == AddressSource(call.fetched)
Blank(text) == text.form \in {"absent", "blank"}
NoPhone(phone) == phone.form = "alien" \/ (Blank(phone.area) /\ Blank(phone.number))

\* What is wrong with an order and its shipment.
Defects(order, shipment) ==
    LET a == IF shipment.address.given THEN shipment.address ELSE order.address
        Wrong(reason) ==
           CASE reason = "missing_address" ->
                   ~a.given \/ (Blank(a.street_name) /\ Blank(a.address_line))
             [] reason = "missing_street_number" -> a.given /\ Blank(a.street_number)
             [] reason = "missing_receiver_name" ->
                   /\ Blank(order.first_name) /\ Blank(order.last_name)
                   /\ ~a.given \/ Blank(a.receiver_name)
             [] reason = "empty_items" -> order.items = 0
    IN  {reason \in DataReasons : Wrong(reason)}

\* The body that is posted can be driven to: a street and a number, both
\* coordinates of one origin and never one of each, somebody to ask for, and
\* the note "[sin tel]" exactly when no telephone is known.
SentIsDeliverable ==
    call.body # Nothing =>
        LET body == call.body
        IN  /\ body.address[1][2] # "" /\ body.address[2] = <<"", Source.street_number.word>>
            /\ <<body.latitude, body.longitude>> \in
                  {<<"found lat", "found lng">>,
                   <<Source.latitude.word, Source.longitude.word>>}
            /\ "" \notin {body.latitude, body.longitude}
            /\ body.contact_name # <<>>
            /\ body.notes.sin_tel <=>
                  NoPhone(Source.receiver_phone) /\ NoPhone(call.fetched.order.phone)

\* The label has none of the three keys, and its number, the only one or the
\* first long one, is not that of the shipment it sticks on.
Misread ==
    /\ call.label # NoLabel
    /\ Keyed(call.label) = NoId
    /\ IF call.label.form = "digits" THEN call.label.digits # call.label.shipment
       ELSE call.label.runs # <<>> => Head(call.label.runs) # call.label.shipment

\* What is posted is what was asked for: the order of the notification or of the
\* listing, or an order of the shipment that was named, by its label even;
\* it is a Flex shipment; and the visit goes to the shipment's own address.
AskedIsDelivered ==
    call.body # Nothing =>
        LET o == shop.orders[call.body.reference]
            Goes(s) ==
               LET a == IF s.address.given THEN s.address ELSE o.address
               IN  s.flex /\ call.body.address[1][2] \in {a.street_name.word, a.address_line.word}
        IN  IF call.kind = "order"
            THEN o.id = call.id /\ Goes(shop.shipments[o.shipment])
            ELSE LET s == shop.shipments[call.id]
                 IN  /\ o.id \in {s.order_id} \cup {s.orders[i] : i \in DOMAIN s.orders}
                     /\ Goes(s)
                     /\ call.label # NoLabel => call.id = call.label.shipment \/ Misread

\* An order is flagged for a defect it has, and one that is claimed has none; an
\* order is looked up, or flagged as not found on the map, only if a coordinate
\* is missing.  transform.py: "bad data must be routed to manual_review".
ReviewFits ==
    /\ call.reason \in DataReasons =>
          call.reason \in Defects(call.fetched.order, call.fetched.shipment)
    /\ call.reason \in LocateReasons =>
          {Source.latitude.form, Source.longitude.form} # {"plain"}
    /\ call.reason = "no_shipment" => Order.shipment = NoId
    /\ call.row # "none" =>
          Defects(call.fetched.order, call.fetched.shipment) = {}

\* A call that ends with neither a row nor a review of the order on record has
\* not got as far as a judgement of it, nor posted anything.  It was for another
\* seller, or of no order; the label holds no number; the order has no Flex
\* shipment; or it stopped before the claim was committed: with the process, or by
\* an exception of the database (this service's own cache included) or of Mercado
\* Libre, or one whose cause is in the settings, a number that was misread or is
\* unknown, a coordinate that was missing, or an address text that is no string.
UnrecordedHasCause ==
    call.pc = "done" /\ call.row = "none" /\ call.reason = "none" =>
    /\ call.body = Nothing
    /\ CASE call.result = "ignored"   -> seller
        [] call.result = "skipped"   -> call.kind = "none" \/ call.id = NoId
        [] call.result = "no_id"     ->
              call.label.form # "none" =>
                 call.label.form # "digits" /\ call.label.runs = <<>> /\ Keyed(call.label) = NoId
        [] call.result = "not_found" ->
              IF call.kind = "order"
              THEN Order.shipment = NoId \/ ~shop.shipments[Order.shipment].flex
              ELSE ~Shipment.flex \/ (Shipment.order_id = NoId /\ Shipment.orders = <<>>)
        [] call.result = "raised" ->
              CASE call.fault = "settings"   -> call.via = "run" /\ ~seller
                [] call.fault = "unknown_id" -> call.label # NoLabel => Misread
                [] call.fault = "geocoder"   ->
                      {Source.latitude.form, Source.longitude.form} # {"plain"}
                [] call.fault = "none"       ->
                      \E f \in DOMAIN Source \ {"given", "street_number", "latitude",
                                   "longitude", "receiver_name", "receiver_phone"} :
                         Source[f].form = "alien"
                [] OTHER -> call.fault \in {"mercado_libre", "database"}
        [] OTHER -> call.result = "lost"
=============================================================================
