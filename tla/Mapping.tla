------------------------------ MODULE Mapping ------------------------------
(***************************************************************************)
(* From Mercado Libre's order and shipment to a visit, as operators:       *)
(* app/core/address.py, app/core/transform.py and the rendering in         *)
(* app/simpliroute/client.py.                                              *)
(*                                                                         *)
(* A text of the payload is a record of its word and of the form it comes  *)
(* in; cleaning gives the word, or "" for None and for nothing.  The word  *)
(* stands for the text up to what cleaning removes: spacing, letter forms  *)
(* and abbreviations.  A line of text is the sequence of its parts.        *)
(***************************************************************************)
EXTENDS Naturals, Sequences, FiniteSets

\* "alien" is a JSON value that is not a string, nor the object with a name
\* that a city, a state and a country should be.
Forms == {"absent", "blank", "plain", "alien"}

Absent == [form |-> "absent", word |-> ""]
Text(form, word) == [form |-> form, word |-> word]

\* Nothing is left of a text that is missing or blank, and something of any other.
IsText(text) ==
    /\ text \in [form : Forms, word : STRING]
    /\ text.word = "" <=> text.form \in {"absent", "blank"}
IsPhone(phone) == phone.form = "alien" \/ (IsText(phone.area) /\ IsText(phone.number))

-----------------------------------------------------------------------------
(* address.py.  A raw address is a record: `given` (not None and not empty) *)
(* and its fields.  What a comment says of floor and apartment is in two    *)
(* fields of its own, `piso` and `depto`, in the form of the comment.       *)

TextFields == {"street_name", "street_number", "address_line", "floor", "apartment",
               "comment", "piso", "depto", "city", "state", "zip_code", "country",
               "latitude", "longitude", "receiver_name"}
IsAddress(raw) ==
    /\ DOMAIN raw = TextFields \cup {"given", "receiver_phone"}
    /\ raw.given \in BOOLEAN
    /\ raw.given => (\A f \in TextFields : IsText(raw[f])) /\ IsPhone(raw.receiver_phone)

\* _clean_text on a string; on anything else it raises, see Unreadable.
CleanText(text) == IF text.form \in {"absent", "blank"} THEN "" ELSE text.word

\* Python's `or` over cleaned texts.
Or(word, other) == IF word # "" THEN word ELSE other

\* _float.
Coordinate(text) == IF text.form \in {"absent", "blank", "alien"} THEN "" ELSE text.word

\* normalize_address; a street number that is no string is made one.
NormalizeNoFallback(raw) ==   \* mutant: address_line is not looked at
    [street_name   |-> CleanText(raw.street_name),
     street_number |-> CleanText(raw.street_number),
     floor |-> CleanText(raw.floor), apartment |-> CleanText(raw.apartment),
     city |-> CleanText(raw.city), state |-> CleanText(raw.state),
     zip_code |-> CleanText(raw.zip_code), country |-> CleanText(raw.country),
     latitude |-> Coordinate(raw.latitude), longitude |-> Coordinate(raw.longitude)]

Normalize(raw) ==
    [street_name   |-> Or(CleanText(raw.street_name), CleanText(raw.address_line)),
     street_number |-> CleanText(raw.street_number),
     floor         |-> Or(CleanText(raw.piso), CleanText(raw.floor)),
     apartment     |-> Or(CleanText(raw.depto), CleanText(raw.apartment)),
     city          |-> CleanText(raw.city),
     state         |-> CleanText(raw.state),
     zip_code      |-> CleanText(raw.zip_code),
     country       |-> CleanText(raw.country),
     latitude      |-> Coordinate(raw.latitude),
     longitude     |-> Coordinate(raw.longitude)]

\* The fields normalize_address cleans, given what it has found before.
FieldsRead(raw) ==
    {"street_name", "comment", "city", "state", "country", "zip_code"}
    \cup (IF CleanText(raw.piso) = "" THEN {"floor"} ELSE {})
    \cup (IF CleanText(raw.depto) = "" THEN {"apartment"} ELSE {})
    \cup (IF CleanText(raw.street_name) = "" THEN {"address_line"} ELSE {})

\* unicodedata.normalize raises a TypeError, or .get an AttributeError.
Unreadable(raw) == raw.given /\ \E f \in FieldsRead(raw) : raw[f].form = "alien"

\* A part of a line, with its label; a part that is missing is left out.
Part(label, word) == IF word = "" THEN <<>> ELSE << <<label, word>> >>

\* address_line and full_line; city, state and country stand without a label.
FullLine(n) ==
    Part("", n.street_name) \o Part("", n.street_number)
    \o Part("piso", n.floor) \o Part("depto", n.apartment)
    \o Part("", n.city) \o Part("", n.state) \o Part("CP", n.zip_code) \o Part("", n.country)

-----------------------------------------------------------------------------
(* transform.py.  fetched.order: id, address, first_name, last_name, phone, *)
(* items (their number); fetched.shipment: address, date, offset.  Nobody   *)
(* fills in the buyer profile.                                              *)

\* _clean, which makes a string of anything.
Clean(text) == IF text.form \in {"absent", "blank"} THEN "" ELSE text.word

\* The words of two texts, without those that are empty.
Words(one, two) ==
    (IF Clean(one) = "" THEN <<>> ELSE <<Clean(one)>>)
    \o (IF Clean(two) = "" THEN <<>> ELSE <<Clean(two)>>)

AddressSourceOfOrder(fetched) ==   \* mutant: the order's address comes first
    IF fetched.order.address.given THEN fetched.order.address ELSE fetched.shipment.address

AddressSource(fetched) ==
    IF fetched.shipment.address.given THEN fetched.shipment.address ELSE fetched.order.address

\* _receiver_name and _buyer_full_name.
ReceiverName(fetched) ==
    LET named == Clean(AddressSource(fetched).receiver_name)
    IN  IF AddressSource(fetched).given /\ named # "" THEN <<named>>
        ELSE Words(fetched.order.first_name, fetched.order.last_name)

\* _extract_phone: a string, or an object with an area code and a number; a
\* number is neither.
PhoneWords(phone) ==
    IF phone.form = "alien" THEN <<>> ELSE Words(phone.area, phone.number)

\* _phone_or_placeholder: the receiver's, or else the buyer's.
Placeholder == <<"0000000000">>
Phone(fetched) ==
    LET named == PhoneWords(AddressSource(fetched).receiver_phone)
    IN  IF AddressSource(fetched).given /\ named # <<>> THEN named
        ELSE PhoneWords(fetched.order.phone)

\* _items_summary: five titles, and how many more there are.
ItemsSummary(n) == [listed |-> IF n > 5 THEN 5 ELSE n, more |-> IF n > 5 THEN n - 5 ELSE 0]

\* _shipment_window: the end is never known.
WindowStart(shipment) ==
    IF "absent" \in {shipment.date.form, shipment.offset.form} THEN "" ELSE shipment.date.word

Review(reason) == [kind |-> "review", reason |-> reason]

VisitPayload(fetched, n) ==
    [kind |-> "visit", reference |-> fetched.order.id, address |-> FullLine(n),
     latitude |-> n.latitude, longitude |-> n.longitude,
     contact_name |-> ReceiverName(fetched),
     contact_phone |-> IF Phone(fetched) = <<>> THEN Placeholder ELSE Phone(fetched),
     notes |-> [items   |-> ItemsSummary(fetched.order.items),
                sin_tel |-> Phone(fetched) = <<>>,
                ref     |-> Clean(AddressSource(fetched).comment)],
     window_start |-> WindowStart(fetched.shipment)]

\* map_order_to_visit, where normalize_address does not raise.
MapOrderToVisit(fetched) ==
    LET source == AddressSource(fetched)
        n      == Normalize(source)
    IN  IF ~source.given \/ n.street_name = "" THEN Review("missing_address")
        ELSE IF n.street_number = ""           THEN Review("missing_street_number")
        ELSE IF ReceiverName(fetched) = <<>>   THEN Review("missing_receiver_name")
        ELSE IF fetched.order.items = 0        THEN Review("empty_items")
        ELSE VisitPayload(fetched, n)

-----------------------------------------------------------------------------
(* client.py *)

\* _render_visit_payload: the coordinates go together or not at all.
Render(visit) ==
    LET both == visit.latitude # "" /\ visit.longitude # ""
    IN  [reference |-> visit.reference, address |-> visit.address,
         latitude  |-> IF both THEN visit.latitude ELSE "",
         longitude |-> IF both THEN visit.longitude ELSE "",
         contact_name |-> visit.contact_name, contact_phone |-> visit.contact_phone,
         notes |-> visit.notes, window_start |-> visit.window_start]
=============================================================================
