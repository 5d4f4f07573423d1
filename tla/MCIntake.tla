------------------------------ MODULE MCIntake ------------------------------
(***************************************************************************)
(* A small instance of Intake for TLC: two orders, two shipments, a number *)
(* nobody has; the structure and the data of the payloads vary in turn.    *)
(***************************************************************************)
EXTENDS Intake, TLC

Plain(word) == Text("plain", word)
Blanks   == {Absent, Text("blank", "")}
Aliens   == {Text("alien", "12")}

NoPhoneGiven == [form |-> "absent", area |-> Absent, number |-> Absent]
APhone == [form |-> "object", area |-> Plain("11"), number |-> Plain("5555")]

Address(street) ==
    [given |-> TRUE, street_name |-> Plain(street), street_number |-> Plain("1234"),
     address_line |-> Plain(street \o " 1234"), floor |-> Plain("3"), apartment |-> Absent,
     comment |-> Absent, piso |-> Absent, depto |-> Absent,
     city |-> Plain("Rosario"), state |-> Plain("Santa Fe"), zip_code |-> Plain("2000"),
     country |-> Plain("Argentina"), latitude |-> Plain("-32.9"), longitude |-> Plain("-60.6"),
     receiver_name |-> Plain("Ana Paz"), receiver_phone |-> APhone]
NoAddress == [Address("") EXCEPT !.given = FALSE]

AnOrder(id, shipment, address) ==
    [id |-> id, shipment |-> shipment, address |-> address, first_name |-> Plain("Ana"),
     last_name |-> Plain("Paz"), phone |-> APhone, items |-> 1]
AShipment(order_id, address) ==
    [flex |-> TRUE, order_id |-> order_id, orders |-> <<>>, address |-> address,
     date |-> Plain("monday"), offset |-> Absent]

Shop(order1, shipment1) ==
    [orders    |-> 1 :> order1 @@ 2 :> AnOrder(2, 0, NoAddress),
     shipments |-> 11 :> shipment1 @@ 12 :> AShipment(2, Address("Mitre"))]
Order1    == AnOrder(1, 11, Address("Salta"))
Shipment1 == AShipment(1, Address("Corrientes"))

\* Who refers to whom, who carries it, and which of the two has an address.
Structures ==
    {[orders |-> 1 :> [Order1 EXCEPT !.shipment = s1, !.address = a1]
              @@ 2 :> [Order1 EXCEPT !.id = 2, !.shipment = s2],
      shipments |-> 11 :> [Shipment1 EXCEPT !.flex = flex, !.order_id = oid,
                                            !.orders = os, !.address = a11]
                 @@ 12 :> AShipment(2, Address("Mitre"))] :
        s1 \in {0, 11}, s2 \in {0, 11, 12}, a1 \in {Address("Salta"), NoAddress},
        flex \in BOOLEAN, oid \in {0, 1}, os \in {<<>>, <<1, 2>>, <<2, 1>>},
        a11 \in {Address("Corrientes"), NoAddress}}

Values == Blanks \cup Aliens \cup {Plain("value")}
OneField(a) ==
    UNION {{[a EXCEPT ![f] = v] : v \in Values} :
             f \in DOMAIN a \ {"given", "receiver_phone"}}
TwoFields(a, f, g) == {[a EXCEPT ![f] = v, ![g] = w] : v, w \in Values}

Addresses == LET a == Address("Corrientes") IN
    OneField(a) \cup TwoFields(a, "street_name", "address_line")
    \cup TwoFields(a, "latitude", "longitude")
    \cup UNION {TwoFields([a EXCEPT !.comment = Plain("ring")], "piso", "floor"),
                TwoFields([a EXCEPT !.comment = Plain("ring")], "depto", "apartment")}
    \cup {[a EXCEPT !.receiver_phone = NoPhoneGiven],
          [a EXCEPT !.receiver_phone.form = "alien"]}

Payloads ==
    {Shop(Order1, [Shipment1 EXCEPT !.address = a]) : a \in Addresses}
    \cup {Shop([Order1 EXCEPT !.items = n], Shipment1) : n \in {0, 5, 6}}
    \cup {Shop([Order1 EXCEPT !.first_name = f, !.last_name = l, !.phone = p],
               [Shipment1 EXCEPT !.address.receiver_name = r,
                                 !.address.receiver_phone = NoPhoneGiven,
                                 !.offset = Plain("0")]) :
             f, l, r \in Blanks \cup {Plain("Luz")}, p \in {APhone, NoPhoneGiven}}

SomeShops == Structures \cup Payloads

\* All of them stick on shipment 11; 99 is the sender's number.
ALabel(form, runs) == [NoLabel EXCEPT !.form = form, !.runs = runs, !.shipment = 11]
Digits(runs) == [ALabel("digits", runs) EXCEPT !.digits = 11]
SomeLabels ==
    {NoLabel, Digits(<<11>>), Digits(<<>>), ALabel("text", <<>>), ALabel("text", <<11>>),
     ALabel("text", <<99, 11>>), ALabel("object", <<99>>), ALabel("object", <<>>),
     [ALabel("object", <<99, 11>>) EXCEPT !.id = 11],
     [ALabel("object", <<99, 11>>) EXCEPT !.shipping_id = 11],
     [ALabel("object", <<>>) EXCEPT !.shipment_id = 11]}
=============================================================================
