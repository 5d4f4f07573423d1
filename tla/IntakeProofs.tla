---------------------------- MODULE IntakeProofs ----------------------------
(***************************************************************************)
(* Theorems about Intake: whatever Mercado Libre's data, a call sends what *)
(* can be delivered and was asked for, and ends without a visit only for a *)
(* reason.  First the operators of Mapping, then the call.                 *)
(***************************************************************************)
EXTENDS Intake, Integers, SequenceTheorems, TLAPS

-----------------------------------------------------------------------------
(* Lines and words *)

LEMMA PartType ==
    ASSUME NEW P, NEW label, NEW word, <<label, word>> \in P
    PROVE  /\ Part(label, word) \in Seq(P)
           /\ word # "" => Part(label, word) = << <<label, word>> >>
<1> DEFINE p == <<label, word>>
<1> HIDE DEF p
<1>1. <<p>> \in Seq(P) /\ <<>> \in Seq(P)
  BY DEF p
<1> QED BY <1>1 DEF Part, p

\* A line begins with a and b, and so it does when a part is added at its end.
Begins(l, P, a, b) == l \in Seq(P) /\ Len(l) >= 2 /\ l[1] = a /\ l[2] = b

LEMMA TwoParts ==
    ASSUME NEW P, NEW a \in P, NEW b \in P
    PROVE  Begins(<<a>> \o <<b>>, P, a, b)
<1>1. /\ <<a>> \in Seq(P) /\ <<b>> \in Seq(P) /\ Len(<<a>>) = 1 /\ Len(<<b>>) = 1
      /\ <<a>>[1] = a /\ <<b>>[1] = b
  OBVIOUS
<1> QED BY <1>1, ConcatProperties DEF Begins

LEMMA BeginningKept ==
    ASSUME NEW P, NEW a, NEW b, NEW s, NEW t \in Seq(P), Begins(s, P, a, b)
    PROVE  Begins(s \o t, P, a, b)
<1>1. Len(s) \in Nat /\ Len(t) \in Nat /\ s \in Seq(P) /\ Len(s) >= 2
  BY LenProperties DEF Begins
<1>2. /\ s \o t \in Seq(P) /\ Len(s \o t) = Len(s) + Len(t)
      /\ \A i \in 1..Len(s) + Len(t) : (s \o t)[i] = IF i <= Len(s) THEN s[i] ELSE t[i - Len(s)]
  BY <1>1, ConcatProperties
<1>3. (s \o t)[1] = s[1] /\ (s \o t)[2] = s[2]
  BY <1>1, <1>2
<1> QED BY <1>1, <1>2, <1>3 DEF Begins

\* A line begins with the street and its number.
LEMMA FullLineBegins ==
    ASSUME NEW n, n.street_name # "", n.street_number # ""
    PROVE  FullLine(n)[1] = <<"", n.street_name>> /\ FullLine(n)[2] = <<"", n.street_number>>
<1> DEFINE a == <<"", n.street_name>>
           b == <<"", n.street_number>>
           P == {a, b, <<"piso", n.floor>>, <<"depto", n.apartment>>, <<"", n.city>>,
                 <<"", n.state>>, <<"CP", n.zip_code>>, <<"", n.country>>}
           l2 == Part("", n.street_name) \o Part("", n.street_number)
           l3 == l2 \o Part("piso", n.floor)
           l4 == l3 \o Part("depto", n.apartment)
           l5 == l4 \o Part("", n.city)
           l6 == l5 \o Part("", n.state)
           l7 == l6 \o Part("CP", n.zip_code)
<1>1. Part("", n.street_name) = <<a>> /\ Part("", n.street_number) = <<b>>
  BY DEF Part
<1>2. /\ Part("piso", n.floor) \in Seq(P) /\ Part("depto", n.apartment) \in Seq(P)
      /\ Part("", n.city) \in Seq(P) /\ Part("", n.state) \in Seq(P)
      /\ Part("CP", n.zip_code) \in Seq(P) /\ Part("", n.country) \in Seq(P)
  <2> DEFINE T(label, word) == <<label, word>> \in P
  <2>1. /\ T("piso", n.floor) /\ T("depto", n.apartment) /\ T("", n.city)
        /\ T("", n.state) /\ T("CP", n.zip_code) /\ T("", n.country)
    OBVIOUS
  <2> HIDE DEF P
  <2> QED BY <2>1, PartType
<1>3. a \in P /\ b \in P
  OBVIOUS
<1> HIDE DEF a, b, P
<1>4. Begins(l2, P, a, b)
  BY <1>1, <1>3, TwoParts
<1> HIDE DEF l2
<1>5. Begins(l3, P, a, b)
  BY <1>2, <1>4, BeginningKept
<1> HIDE DEF l3
<1>6. Begins(l4, P, a, b)
  BY <1>2, <1>5, BeginningKept
<1> HIDE DEF l4
<1>7. Begins(l5, P, a, b)
  BY <1>2, <1>6, BeginningKept
<1> HIDE DEF l5
<1>8. Begins(l6, P, a, b)
  BY <1>2, <1>7, BeginningKept
<1> HIDE DEF l6
<1>9. Begins(l7, P, a, b)
  BY <1>2, <1>8, BeginningKept
<1> HIDE DEF l7
<1>10. Begins(l7 \o Part("", n.country), P, a, b)
  BY <1>2, <1>9, BeginningKept
<1>11. FullLine(n) = l7 \o Part("", n.country)
  BY DEF FullLine, l7, l6, l5, l4, l3, l2
<1> QED BY <1>10, <1>11 DEF Begins, a, b

\* Cleaning leaves nothing of a text exactly when it is missing or blank.
LEMMA Cleaned ==
    ASSUME NEW text, IsText(text)
    PROVE  /\ Clean(text) = text.word /\ CleanText(text) = text.word
           /\ (text.word = "") <=> Blank(text)
           /\ (Coordinate(text) = "") <=> (text.form # "plain")
           /\ Coordinate(text) # "" => Coordinate(text) = text.word
<1>1. text.form \in Forms /\ (text.word = "" <=> Blank(text))
  BY DEF IsText, Blank
<1>2. Clean(text) = text.word /\ CleanText(text) = text.word
  BY <1>1 DEF Clean, CleanText, Blank
<1> QED BY <1>1, <1>2 DEF Coordinate, Forms, Blank

LEMMA WordsOfTwo ==
    ASSUME NEW one, NEW two, IsText(one), IsText(two)
    PROVE  (Words(one, two) = <<>>) <=> (Blank(one) /\ Blank(two))
<1> DEFINE S == {Clean(one), Clean(two)}
           a == IF Clean(one) = "" THEN <<>> ELSE <<Clean(one)>>
           b == IF Clean(two) = "" THEN <<>> ELSE <<Clean(two)>>
<1>1. a \in Seq(S) /\ b \in Seq(S)
  <2>1. /\ <<>> \in Seq(S) /\ <<Clean(one)>> \in Seq(S)
        /\ <<Clean(two)>> \in Seq(S)
    OBVIOUS
  <2> QED BY <2>1
<1>2. (a = <<>> <=> Clean(one) = "") /\ (b = <<>> <=> Clean(two) = "")
  OBVIOUS
<1>3. (a = <<>> <=> Blank(one)) /\ (b = <<>> <=> Blank(two))
  BY <1>2, Cleaned
<1> HIDE DEF a, b, S
<1>4. a \o b = <<>> <=> a = <<>> /\ b = <<>>
  BY <1>1, ConcatEqualIffEmpty
<1> QED BY <1>3, <1>4 DEF Words, a, b

LEMMA PhoneKnown ==
    ASSUME NEW phone, IsPhone(phone)
    PROVE  (PhoneWords(phone) = <<>>) <=> NoPhone(phone)
BY WordsOfTwo DEF IsPhone, PhoneWords, NoPhone

-----------------------------------------------------------------------------
(* What is mapped.  A fetched pair is of an order and a shipment as they come. *)

IsFetched(f) ==
    /\ IsAddress(f.order.address) /\ IsAddress(f.shipment.address)
    /\ IsText(f.order.first_name) /\ IsText(f.order.last_name) /\ IsPhone(f.order.phone)

LEMMA SourceIsAddress ==
    ASSUME NEW f, IsFetched(f)
    PROVE  IsAddress(AddressSource(f))
BY DEF IsFetched, AddressSource

\* What is left of an address, said of its texts.
LEMMA Normalized ==
    ASSUME NEW a, IsAddress(a), a.given
    PROVE  LET n == Normalize(a)
           IN  /\ n.street_number = a.street_number.word
               /\ (n.street_number = "") <=> Blank(a.street_number)
               /\ (n.street_name = "") <=> (Blank(a.street_name) /\ Blank(a.address_line))
               /\ n.street_name \in {a.street_name.word, a.address_line.word}
               /\ n.latitude = Coordinate(a.latitude)
               /\ n.longitude = Coordinate(a.longitude)
<1>1. IsText(a.street_number) /\ IsText(a.street_name) /\ IsText(a.address_line)
  BY DEF IsAddress, TextFields
<1>2. /\ Normalize(a).street_number = CleanText(a.street_number)
      /\ Normalize(a).street_name = Or(CleanText(a.street_name), CleanText(a.address_line))
      /\ Normalize(a).latitude = Coordinate(a.latitude)
      /\ Normalize(a).longitude = Coordinate(a.longitude)
  BY DEF Normalize
<1>3. /\ CleanText(a.street_number) = a.street_number.word
      /\ CleanText(a.street_name) = a.street_name.word
      /\ CleanText(a.address_line) = a.address_line.word
      /\ (a.street_number.word = "") <=> Blank(a.street_number)
      /\ (a.street_name.word = "") <=> Blank(a.street_name)
      /\ (a.address_line.word = "") <=> Blank(a.address_line)
  BY <1>1, Cleaned
<1> QED BY <1>2, <1>3 DEF Or

\* Nobody to ask for: no name of the buyer's, and none on the address.
LEMMA Nameless ==
    ASSUME NEW f, IsFetched(f)
    PROVE  (ReceiverName(f) = <<>>) <=>
              /\ Blank(f.order.first_name) /\ Blank(f.order.last_name)
              /\ ~AddressSource(f).given \/ Blank(AddressSource(f).receiver_name)
<1>1. (Words(f.order.first_name, f.order.last_name) = <<>>) <=>
         (Blank(f.order.first_name) /\ Blank(f.order.last_name))
  BY WordsOfTwo DEF IsFetched
<1>2. ASSUME AddressSource(f).given
      PROVE  (Clean(AddressSource(f).receiver_name) = "") <=>
                Blank(AddressSource(f).receiver_name)
  <2>1. IsText(AddressSource(f).receiver_name)
    BY <1>2, SourceIsAddress DEF IsAddress, TextFields
  <2> QED BY <2>1, Cleaned
<1>3. CASE AddressSource(f).given /\ Clean(AddressSource(f).receiver_name) # ""
  BY <1>2, <1>3 DEF ReceiverName
<1>4. CASE ~(AddressSource(f).given /\ Clean(AddressSource(f).receiver_name) # "")
  <2>1. ReceiverName(f) = Words(f.order.first_name, f.order.last_name)
    BY <1>4 DEF ReceiverName
  <2> QED BY <1>1, <1>2, <1>4, <2>1
<1> QED BY <1>3, <1>4

\* No telephone: neither the receiver has one nor the buyer.
LEMMA Phoneless ==
    ASSUME NEW f, IsFetched(f), AddressSource(f).given
    PROVE  (Phone(f) = <<>>) <=>
              (NoPhone(AddressSource(f).receiver_phone) /\ NoPhone(f.order.phone))
<1>1. IsPhone(AddressSource(f).receiver_phone) /\ IsPhone(f.order.phone)
  BY SourceIsAddress DEF IsAddress, IsFetched
<1> QED BY <1>1, PhoneKnown DEF Phone

\* The four reasons for a review, and what they say of the data as they come.
Wants(f, reason) == reason \in Defects(f.order, f.shipment)

LEMMA DefectsOf ==
    ASSUME NEW f, IsFetched(f)
    PROVE  LET a == AddressSource(f)
               n == Normalize(a)
           IN  /\ Defects(f.order, f.shipment) \subseteq DataReasons
               /\ Wants(f, "missing_address") <=> (~a.given \/ n.street_name = "")
               /\ Wants(f, "missing_street_number") <=> (a.given /\ n.street_number = "")
               /\ Wants(f, "missing_receiver_name") <=> (ReceiverName(f) = <<>>)
               /\ Wants(f, "empty_items") <=> (f.order.items = 0)
<1> DEFINE a == AddressSource(f)
           n == Normalize(a)
<1>1. a = IF f.shipment.address.given THEN f.shipment.address ELSE f.order.address
  BY DEF AddressSource
<1>2. a.given => /\ (n.street_number = "") <=> Blank(a.street_number)
                 /\ (n.street_name = "") <=> (Blank(a.street_name) /\ Blank(a.address_line))
  BY SourceIsAddress, Normalized
<1>3. (ReceiverName(f) = <<>>) <=>
              /\ Blank(f.order.first_name) /\ Blank(f.order.last_name)
              /\ ~a.given \/ Blank(a.receiver_name)
  BY Nameless
<1> HIDE DEF a, n
<1>4. /\ Defects(f.order, f.shipment) \subseteq DataReasons
      /\ Wants(f, "missing_address") <=>
            (~a.given \/ (Blank(a.street_name) /\ Blank(a.address_line)))
      /\ Wants(f, "missing_street_number") <=> (a.given /\ Blank(a.street_number))
      /\ Wants(f, "missing_receiver_name") <=>
              /\ Blank(f.order.first_name) /\ Blank(f.order.last_name)
              /\ ~a.given \/ Blank(a.receiver_name)
      /\ Wants(f, "empty_items") <=> (f.order.items = 0)
  BY <1>1 DEF Defects, Wants, DataReasons
<1> QED BY <1>2, <1>3, <1>4 DEF a, n

\* A review names a defect, and a visit is of an order that has none.
LEMMA MappedTo ==
    ASSUME NEW f, IsFetched(f)
    PROVE  LET v == MapOrderToVisit(f)
           IN  /\ v.kind \in {"review", "visit"}
               /\ v.kind = "review" => v.reason \in Defects(f.order, f.shipment)
               /\ v.kind = "visit" => /\ v = VisitPayload(f, Normalize(AddressSource(f)))
                                      /\ Defects(f.order, f.shipment) = {}
<1> DEFINE a == AddressSource(f)
           n == Normalize(a)
<1>1. MapOrderToVisit(f) =
        IF ~a.given \/ n.street_name = "" THEN Review("missing_address")
        ELSE IF n.street_number = ""      THEN Review("missing_street_number")
        ELSE IF ReceiverName(f) = <<>>    THEN Review("missing_receiver_name")
        ELSE IF f.order.items = 0         THEN Review("empty_items")
        ELSE VisitPayload(f, n)
  BY DEF MapOrderToVisit
<1>2. /\ Defects(f.order, f.shipment) \subseteq DataReasons
      /\ Wants(f, "missing_address") <=> (~a.given \/ n.street_name = "")
      /\ Wants(f, "missing_street_number") <=> (a.given /\ n.street_number = "")
      /\ Wants(f, "missing_receiver_name") <=> (ReceiverName(f) = <<>>)
      /\ Wants(f, "empty_items") <=> (f.order.items = 0)
  BY DefectsOf
<1>3. \A reason : Review(reason).kind = "review" /\ Review(reason).reason = reason
  BY DEF Review
<1>4. VisitPayload(f, n).kind = "visit"
  BY DEF VisitPayload
<1> HIDE DEF a, n
<1>5. CASE ~a.given \/ n.street_name = ""
  <2>1. MapOrderToVisit(f) = Review("missing_address")
    BY <1>1, <1>5
  <2> QED BY <1>2, <1>3, <1>5, <2>1 DEF Wants
<1>6. CASE ~(~a.given \/ n.street_name = "")
  <2>1. CASE n.street_number = ""
    <3>1. MapOrderToVisit(f) = Review("missing_street_number")
      BY <1>1, <1>6, <2>1
    <3> QED BY <1>2, <1>3, <1>6, <2>1, <3>1 DEF Wants
  <2>2. CASE n.street_number # "" /\ ReceiverName(f) = <<>>
    <3>1. MapOrderToVisit(f) = Review("missing_receiver_name")
      BY <1>1, <1>6, <2>2
    <3> QED BY <1>2, <1>3, <2>2, <3>1 DEF Wants
  <2>3. CASE n.street_number # "" /\ ReceiverName(f) # <<>> /\ f.order.items = 0
    <3>1. MapOrderToVisit(f) = Review("empty_items")
      BY <1>1, <1>6, <2>3
    <3> QED BY <1>2, <1>3, <2>3, <3>1 DEF Wants
  <2>4. CASE n.street_number # "" /\ ReceiverName(f) # <<>> /\ f.order.items # 0
    <3>1. MapOrderToVisit(f) = VisitPayload(f, n)
      BY <1>1, <1>6, <2>4
    <3>2. \A reason \in DataReasons : ~Wants(f, reason)
      BY <1>2, <1>6, <2>4 DEF DataReasons
    <3>3. Defects(f.order, f.shipment) = {}
      BY <1>2, <3>2 DEF Wants
    <3> QED BY <1>4, <3>1, <3>3 DEF a, n
  <2> QED BY <2>1, <2>2, <2>3, <2>4
<1> QED BY <1>5, <1>6

-----------------------------------------------------------------------------
(* What a step does to the call *)

Fields == {"pc", "via", "kind", "id", "label", "fetched", "visit", "body", "row",
           "result", "reason", "fault"}

LEMMA FieldsOfCall == DOMAIN NoCall = Fields
BY DEF NoCall, Fields

\* What a call was asked, and what it has found out, by the end of a step.
AsksTheSame  == /\ UNCHANGED <<shop, seller>>
                /\ call'.via = call.via /\ call'.kind = call.kind
                /\ call'.id = call.id /\ call'.label = call.label
KnowsTheSame == call'.fetched = call.fetched /\ call'.visit = call.visit
EndsTheSame  == /\ call'.row = call.row /\ call'.body = call.body
                /\ call'.result = call.result
                /\ call'.reason = call.reason /\ call'.fault = call.fault

\* A call that goes on, or ends, with what it has found out.
Moves(p, row, body, result, reason, fault) ==
    /\ DOMAIN call' = Fields /\ call'.pc = p
    /\ AsksTheSame /\ KnowsTheSame
    /\ call'.row = row /\ call'.body = body
    /\ call'.result = result /\ call'.reason = reason /\ call'.fault = fault

LEMMA Goes ==
    ASSUME DOMAIN call = Fields, NEW p, Goto(p)
    PROVE  Moves(p, call.row, call.body, call.result, call.reason, call.fault)
BY DEF Goto, Becomes, Fields, AsksTheSame, KnowsTheSame, Moves

LEMMA Ends ==
    ASSUME DOMAIN call = Fields, NEW result, End(result)
    PROVE  Moves("done", call.row, call.body, result, call.reason, call.fault)
BY DEF End, Becomes, Fields, AsksTheSame, KnowsTheSame, Moves

LEMMA Flags ==
    ASSUME DOMAIN call = Fields, NEW reason, Flag(reason)
    PROVE  Moves("alert", call.row, call.body, call.result, reason, call.fault)
BY DEF Flag, Becomes, Fields, AsksTheSame, KnowsTheSame, Moves

LEMMA Raises ==
    ASSUME DOMAIN call = Fields, NEW fault, Raise(fault)
    PROVE  Moves("done", call.row, call.body, "raised", call.reason, fault)
BY DEF Raise, Becomes, Fields, AsksTheSame, KnowsTheSame, Moves

\* The steps from the claim on that write the order's row, or post.
LEMMA Writes ==
    ASSUME DOMAIN call = Fields
    PROVE  /\ AlreadySent => Moves("done", "completed", call.body, "skipped_duplicate",
                                   call.reason, call.fault)
           /\ ClaimNew => Moves("send", "pending", call.body, call.result, call.reason,
                                call.fault)
           /\ \A status : ClaimRetry(status) =>
                 Moves("find", status, call.body, call.result, call.reason, call.fault)
           /\ Recovered => Moves("done", "completed", call.body, "recovered", call.reason,
                                 call.fault)
           /\ Post => Moves("answer", call.row, Render(call.visit), call.result, call.reason,
                            call.fault)
           /\ Completed => Moves("done", "completed", call.body, "completed", call.reason,
                                 call.fault)
           /\ Exhausted => Moves("alert", "failed", call.body, call.result, call.reason,
                                 call.fault)
           /\ Rejected => Moves("flag", "failed", call.body, call.result, call.reason,
                                call.fault)
<1> USE DEF Becomes, Fields, AsksTheSame, KnowsTheSame, Moves
<1>1. ASSUME AlreadySent
      PROVE  Moves("done", "completed", call.body, "skipped_duplicate", call.reason, call.fault)
  BY <1>1 DEF AlreadySent
<1>2. ASSUME ClaimNew
      PROVE  Moves("send", "pending", call.body, call.result, call.reason, call.fault)
  BY <1>2 DEF ClaimNew
<1>3. ASSUME NEW status, ClaimRetry(status)
      PROVE  Moves("find", status, call.body, call.result, call.reason, call.fault)
  BY <1>3 DEF ClaimRetry
<1>4. ASSUME Recovered
      PROVE  Moves("done", "completed", call.body, "recovered", call.reason, call.fault)
  BY <1>4 DEF Recovered
<1>5. ASSUME Post
      PROVE  Moves("answer", call.row, Render(call.visit), call.result, call.reason, call.fault)
  BY <1>5 DEF Post
<1>6. ASSUME Completed
      PROVE  Moves("done", "completed", call.body, "completed", call.reason, call.fault)
  BY <1>6 DEF Completed
<1>7. ASSUME Exhausted
      PROVE  Moves("alert", "failed", call.body, call.result, call.reason, call.fault)
  BY <1>7 DEF Exhausted
<1>8. ASSUME Rejected
      PROVE  Moves("flag", "failed", call.body, call.result, call.reason, call.fault)
  BY <1>8 DEF Rejected
<1> HIDE DEF Moves
<1> QED BY <1>1, <1>2, <1>3, <1>4, <1>5, <1>6, <1>7, <1>8

\* A call begins with a question, nothing known, and ends there or goes on.
Opens(via, kind, id, label, p, result, fault) ==
    /\ UNCHANGED <<shop, seller>>
    /\ DOMAIN call' = Fields /\ call'.pc = p
    /\ call'.via = via /\ call'.kind = kind /\ call'.id = id /\ call'.label = label
    /\ call'.fetched = Nothing /\ call'.visit = Nothing /\ call'.body = Nothing
    /\ call'.row = "none"
    /\ call'.result = result /\ call'.reason = "none" /\ call'.fault = fault

LEMMA Opening ==
    /\ \A kind, id : NotifyIgnored(kind, id) =>
          Opens("notification", kind, id, NoLabel, "done", "ignored", "none")
    /\ \A kind, id : NotifySkipped(kind, id) =>
          Opens("notification", kind, id, NoLabel, "done", "skipped", "none")
    /\ \A kind, id : NotifyAccepted(kind, id) =>
          Opens("notification", kind, id, NoLabel, "accepted", "none", "none")
    /\ RunUnconfigured => Opens("run", "none", NoId, NoLabel, "done", "raised", "settings")
    /\ \A o : RunLists(o) => Opens("run", "order", o, NoLabel, "fetch", "none", "none")
<1> USE DEF Becomes, Began, NoCall, Fields, Opens
<1>1. ASSUME NEW kind, NEW id, NotifyIgnored(kind, id)
      PROVE  Opens("notification", kind, id, NoLabel, "done", "ignored", "none")
  BY <1>1 DEF NotifyIgnored
<1>2. ASSUME NEW kind, NEW id, NotifySkipped(kind, id)
      PROVE  Opens("notification", kind, id, NoLabel, "done", "skipped", "none")
  BY <1>2 DEF NotifySkipped
<1>3. ASSUME NEW kind, NEW id, NotifyAccepted(kind, id)
      PROVE  Opens("notification", kind, id, NoLabel, "accepted", "none", "none")
  BY <1>3 DEF NotifyAccepted
<1>4. ASSUME RunUnconfigured
      PROVE  Opens("run", "none", NoId, NoLabel, "done", "raised", "settings")
  BY <1>4 DEF RunUnconfigured
<1>5. ASSUME NEW o, RunLists(o)
      PROVE  Opens("run", "order", o, NoLabel, "fetch", "none", "none")
  BY <1>5 DEF RunLists
<1> HIDE DEF Opens
<1> QED BY <1>1, <1>2, <1>3, <1>4, <1>5

\* A scan opens with the number it was given, or with the one on its label.
LEMMA Scanning ==
    ASSUME NEW id \in Ids \cup {NoId}, NEW label \in Labels, Scan(id, label)
    PROVE  \/ /\ id # NoId
              /\ Opens("scan", "shipment", id, NoLabel, "fetch", "none", "none")
           \/ /\ ParseFlexQr(label) # NoId
              /\ Opens("scan", "shipment", ParseFlexQr(label), label, "fetch", "none", "none")
           \/ /\ ParseFlexQr(label) = NoId
              /\ Opens("scan", "shipment", NoId, label, "done", "no_id", "none")
<1> USE DEF Becomes, Began, NoCall, Fields, Opens
<1>1. CASE id # NoId
  BY <1>1 DEF Scan
<1>2. CASE id = NoId /\ ParseFlexQr(label) # NoId
  BY <1>2 DEF Scan
<1>3. CASE id = NoId /\ ParseFlexQr(label) = NoId
  BY <1>3 DEF Scan
<1> QED BY <1>1, <1>2, <1>3

LEMMA NumberOfLabel ==
    ASSUME NEW label \in Labels, Shops # {}
    PROVE  ParseFlexQr(label) \in Ids \cup {NoId}
<1>1. /\ label.digits \in (IF label.form = "digits" THEN Ids ELSE {NoId})
      /\ {label.id, label.shipment_id, label.shipping_id} \subseteq
            (IF label.form = "object" THEN {label.shipment, NoId} ELSE {NoId})
      /\ label.runs \in Seq(Ids)
      /\ label # NoLabel => \A s \in Shops : label.shipment \in DOMAIN s.shipments
  BY LabelsAssumption DEF IsLabel
<1>2. CASE label.form = "none"
  BY <1>2 DEF ParseFlexQr
<1>3. CASE label.form # "none"
  <2>1. label # NoLabel
    BY <1>3 DEF NoLabel
  <2>2. label.shipment \in Ids
    BY <1>1, <2>1, ShopsAssumption DEF IsShop
  <2>3. Keyed(label) \in Ids \cup {NoId}
    BY <1>1, <2>2 DEF Keyed
  <2>4. label.runs # <<>> => Head(label.runs) \in Ids
    BY <1>1
  <2> QED BY <1>1, <2>3, <2>4 DEF ParseFlexQr
<1> QED BY <1>2, <1>3

-----------------------------------------------------------------------------
(* The inductive invariant: what a call is after, has fetched and carries *)

Rows    == {"none", "pending", "failed", "completed"}
Reasons == DataReasons \cup LocateReasons \cup {"none", "no_shipment", PermanentReason}

\* A scanned label gave the number.
Scanned ==
    call.label # NoLabel => call.kind = "shipment" /\ call.id = ParseFlexQr(call.label)

\* What is still asked for exists, and leads on.
MayGo(p) ==
    /\ p \in {"accepted", "fetch"} => call.kind \in {"order", "shipment"} /\ call.id # NoId
    /\ p = "shipment" => /\ call.kind = "order" /\ call.id \in DOMAIN shop.orders
                         /\ Order.shipment # NoId
    /\ p = "order" => /\ call.kind = "shipment" /\ call.id \in DOMAIN shop.shipments
                      /\ Shipment.flex /\ OrderId(Shipment) # NoId

\* What is fetched is the order that was asked for and its shipment, or the
\* shipment and its order, as Mercado Libre has them.
Resolved ==
    \/ /\ call.kind = "order" /\ call.id \in DOMAIN shop.orders /\ Order.shipment # NoId
       /\ call.fetched.order = Order
       /\ call.fetched.shipment = shop.shipments[Order.shipment]
       /\ call.fetched.shipment.flex
    \/ /\ call.kind = "shipment" /\ call.id \in DOMAIN shop.shipments
       /\ OrderId(Shipment) # NoId
       /\ call.fetched.order = shop.orders[OrderId(Shipment)]
       /\ call.fetched.shipment = Shipment
       /\ call.fetched.shipment.flex

\* A visit that may be sent: located, or with coordinates of its own.
Found(visit) == [visit EXCEPT !.latitude = "found lat", !.longitude = "found lng"]
Ready(visit) == visit = Found(Mapped) \/ (visit = Mapped /\ ~NeedsLocating(Mapped))

\* A call that is at p, or has ended so, has a visit, or looks for its place.
HasVisit(p, row, reason, fault) ==
    \/ p \in {"locate", "claim", "find", "send", "answer", "flag"} \/ row # "none"
    \/ reason \in LocateReasons \/ fault = "geocoder"
Looks(p, reason, fault) == p = "locate" \/ reason \in LocateReasons \/ fault = "geocoder"

Carried(p, row, body, result, reason, fault) ==
    /\ HasVisit(p, row, reason, fault) => Resolved /\ Mapped.kind = "visit"
    /\ p = "map" => Resolved
    /\ p = "locate" => call.visit = Mapped
    /\ Looks(p, reason, fault) => NeedsLocating(Mapped)
    /\ p \in {"claim", "find", "send"} => Ready(call.visit)
    /\ body # Nothing => body = Render(call.visit) /\ Ready(call.visit)
    /\ reason \in DataReasons =>
          Resolved /\ reason \in Defects(call.fetched.order, call.fetched.shipment)
    /\ reason = "no_shipment" => Order.shipment = NoId

\* What is on record, step for step.
Recorded(p, row, result, reason, fault) ==
    /\ p # "done" => fault = "none"
    /\ p \in {"idle", "accepted", "fetch", "shipment", "order", "map", "locate", "claim"} =>
          row = "none"
    /\ p \in {"find", "send", "answer", "flag"} => row # "none"
    /\ p = "alert" \/ result \in Judgements \/ fault = "simpliroute" =>
          row # "none" \/ reason # "none"

\* The other ends, and what they say of what was asked and of the data.
Excused(result, fault) ==
    /\ result = "ignored" => seller
    /\ result = "skipped" => call.kind = "none" \/ call.id = NoId
    /\ result = "no_id" /\ call.label.form # "none" =>
          call.label.form # "digits" /\ call.label.runs = <<>> /\ Keyed(call.label) = NoId
    /\ result = "not_found" =>
          IF call.kind = "order"
          THEN Order.shipment = NoId \/ ~shop.shipments[Order.shipment].flex
          ELSE ~Shipment.flex \/ (Shipment.order_id = NoId /\ Shipment.orders = <<>>)
    /\ result = "raised" =>
          \/ fault \in {"mercado_libre", "geocoder", "simpliroute", "database"}
          \/ fault = "settings" /\ call.via = "run" /\ ~seller
          \/ fault = "unknown_id" /\ (call.label # NoLabel => Misread)
          \/ fault = "none" /\ Resolved /\ Unreadable(Source)

Fits(p, row, body, result, reason, fault) ==
    /\ Carried(p, row, body, result, reason, fault)
    /\ Recorded(p, row, result, reason, fault)
    /\ Excused(result, fault)

IInv ==
    /\ TypeOK /\ Scanned /\ MayGo(call.pc)
    /\ Fits(call.pc, call.row, call.body, call.result, call.reason, call.fault)

-----------------------------------------------------------------------------
(* What keeps it *)

LEMMA TypeInit == Init => TypeOK
BY DEF Init, TypeOK, NoCall, Pcs, Results, Faults, DataReasons, LocateReasons

LEMMA Initially == Init => IInv
<1> SUFFICES ASSUME Init PROVE IInv
  OBVIOUS
<1>1. /\ call.pc = "idle" /\ call.label = NoLabel /\ call.result = "none"
      /\ call.reason = "none" /\ call.row = "none" /\ call.body = Nothing
      /\ call.fault = "none"
  BY DEF Init, NoCall
<1>2. Scanned /\ MayGo(call.pc)
  BY <1>1 DEF Scanned, MayGo
<1>3. Fits("idle", "none", Nothing, "none", "none", "none")
  BY DEF Fits, Carried, HasVisit, Looks, Recorded, Excused, Judgements, DataReasons,
         LocateReasons
<1> QED BY <1>1, <1>2, <1>3, TypeInit DEF IInv

LEMMA SameQuestion ==
    ASSUME AsksTheSame
    PROVE  /\ Order' = Order /\ Shipment' = Shipment
           /\ Misread' <=> Misread
           /\ Scanned => Scanned'
           /\ \A p : MayGo(p) => MayGo(p)'
           /\ \A result, fault : fault # "none" \/ result # "raised" =>
                 (Excused(result, fault) => Excused(result, fault)')
<1>1. Order' = Order /\ Shipment' = Shipment /\ (Misread' <=> Misread) /\ (Scanned => Scanned')
  BY DEF AsksTheSame, Order, Shipment, Misread, Scanned
<1>2. \A p : MayGo(p) => MayGo(p)'
  BY <1>1 DEF AsksTheSame, MayGo
<1>3. ASSUME NEW result, NEW fault, fault # "none" \/ result # "raised", Excused(result, fault)
      PROVE  Excused(result, fault)'
  BY <1>1, <1>3 DEF AsksTheSame, Excused
<1> QED BY <1>1, <1>2, <1>3

LEMMA SameFetched ==
    ASSUME AsksTheSame, call'.fetched = call.fetched
    PROVE  /\ Mapped' = Mapped /\ Source' = Source
           /\ Resolved => Resolved'
           /\ \A v : Ready(v) => Ready(v)'
<1>1. Mapped' = Mapped /\ Source' = Source
  BY DEF Mapped, Source
<1>2. Resolved => Resolved'
  BY SameQuestion DEF Resolved, AsksTheSame
<1>3. \A v : Ready(v) => Ready(v)'
  BY <1>1 DEF Ready
<1> QED BY <1>1, <1>2, <1>3

LEMMA CallFields == ASSUME IInv PROVE DOMAIN call = Fields
BY FieldsOfCall DEF IInv, TypeOK

\* Before it ends a call has no result and no fault, no reason before it has
\* flagged its order, and neither row nor body before it has claimed it.
LEMMA UnderWay ==
    ASSUME IInv, call.pc # "done"
    PROVE  /\ call.result = "none" /\ call.fault = "none"
           /\ call.pc # "alert" => call.reason = "none"
           /\ call.pc \in {"idle", "accepted", "fetch", "shipment", "order", "map", "locate",
                           "claim"} => call.row = "none" /\ call.body = Nothing
BY DEF IInv, TypeOK, Fits, Recorded

\* A call that has been asked for, or that ends with its question.
LEMMA OpensKeeps ==
    ASSUME IInv, NEW via \in {"notification", "scan", "run"},
           NEW kind \in {"none", "order", "shipment"}, NEW id \in Ids \cup {NoId},
           NEW label \in Labels \cup {NoLabel}, NEW p \in {"accepted", "fetch", "done"},
           NEW result \in {"none", "ignored", "skipped", "no_id", "raised"},
           NEW fault \in {"none", "settings"},
           Opens(via, kind, id, label, p, result, fault),
           (result = "none") <=> (p # "done"),
           p # "done" => kind \in {"order", "shipment"} /\ id # NoId /\ fault = "none",
           result = "raised" => fault = "settings" /\ via = "run" /\ ~seller,
           result = "ignored" => seller,
           result = "skipped" => kind = "none" \/ id = NoId,
           label # NoLabel => kind = "shipment" /\ id = ParseFlexQr(label),
           result = "no_id" => id = NoId /\ label \in Labels /\ ParseFlexQr(label) = NoId
    PROVE  IInv'
<1>1. /\ call'.pc = p /\ call'.kind = kind /\ call'.id = id /\ call'.label = label
      /\ call'.via = via /\ seller' = seller /\ call'.row = "none" /\ call'.body = Nothing
      /\ call'.result = result /\ call'.reason = "none" /\ call'.fault = fault
  BY DEF Opens
<1>2. TypeOK'
  BY FieldsOfCall DEF IInv, TypeOK, Opens, Pcs, Results, Faults, DataReasons, LocateReasons
<1>3. Scanned' /\ MayGo(call.pc)'
  BY <1>1 DEF Scanned, MayGo
<1>4. /\ Carried(call.pc, call.row, call.body, call.result, call.reason, call.fault)'
      /\ Recorded(call.pc, call.row, call.result, call.reason, call.fault)'
  BY <1>1 DEF Carried, HasVisit, Looks, Recorded, Judgements, DataReasons, LocateReasons
<1>5. ASSUME result = "no_id", label.form # "none"
      PROVE  label.form # "digits" /\ label.runs = <<>> /\ Keyed(label) = NoId
  <2>1. label \in Labels /\ ParseFlexQr(label) = NoId
    BY <1>5
  <2>2. /\ label.digits \in (IF label.form = "digits" THEN Ids ELSE {NoId})
        /\ {label.id, label.shipment_id, label.shipping_id} \subseteq
              (IF label.form = "object" THEN {label.shipment, NoId} ELSE {NoId})
        /\ label.runs \in Seq(Ids)
    BY <2>1, LabelsAssumption DEF IsLabel
  <2>3. label.runs # <<>> => Head(label.runs) # NoId
    BY <2>2, IdsAssumption
  <2>4. label.form # "digits"
    BY <1>5, <2>1, <2>2, IdsAssumption DEF ParseFlexQr
  <2> QED BY <1>5, <2>1, <2>2, <2>3, <2>4 DEF ParseFlexQr, Keyed
<1>6. Excused(call.result, call.fault)'
  BY <1>1, <1>5 DEF Excused
<1> QED BY <1>2, <1>3, <1>4, <1>6 DEF IInv, Fits

\* A step that leaves what was fetched, to a place and an end that fit it.
LEMMA MovesKeeps ==
    ASSUME IInv, NEW p \in Pcs, NEW row \in Rows, NEW body, NEW result \in Results,
           NEW reason \in Reasons, NEW fault \in Faults,
           Moves(p, row, body, result, reason, fault),
           (result = "none") <=> (p # "done"),
           reason # "none" => p \in {"alert", "done"},
           body # Nothing => row # "none",
           MayGo(p),
           Fits(p, row, body, result, reason, fault)
    PROVE  IInv'
<1>1. /\ call'.pc = p /\ AsksTheSame /\ call'.row = row /\ call'.body = body
      /\ call'.result = result /\ call'.reason = reason /\ call'.fault = fault
      /\ call'.fetched = call.fetched /\ call'.visit = call.visit
  BY DEF Moves, KnowsTheSame
<1>2. TypeOK'
  BY FieldsOfCall DEF IInv, TypeOK, Moves, AsksTheSame, Rows, Reasons
<1>3. Scanned' /\ MayGo(call.pc)'
  BY <1>1, SameQuestion DEF IInv
<1>4. Mapped' = Mapped /\ Source' = Source /\ (Resolved => Resolved')
      /\ (Ready(call.visit) => Ready(call.visit)')
  <2>1. \A v : Ready(v) => Ready(v)'
    BY <1>1, SameFetched
  <2>2. Mapped' = Mapped
    BY <1>1, SameFetched
  <2>3. Ready(call.visit) => Ready(call.visit)'
    BY <1>1, <2>2 DEF Ready
  <2> QED BY <1>1, <2>3, SameFetched
<1>5. /\ Order' = Order /\ Shipment' = Shipment /\ (Misread' <=> Misread) /\ shop' = shop
      /\ seller' = seller /\ call'.via = call.via /\ call'.kind = call.kind
      /\ call'.id = call.id /\ call'.label = call.label
  BY <1>1, SameQuestion DEF AsksTheSame
<1>6. Carried(call.pc, call.row, call.body, call.result, call.reason, call.fault)'
  BY <1>1, <1>4, <1>5 DEF Fits, Carried, HasVisit, Looks
<1>7. Recorded(call.pc, call.row, call.result, call.reason, call.fault)'
  BY <1>1 DEF Fits, Recorded
<1>8. Excused(call.result, call.fault)'
  BY <1>1, <1>4, <1>5 DEF Fits, Excused
<1> QED BY <1>2, <1>3, <1>6, <1>7, <1>8 DEF IInv, Fits

\* A call that goes on to ask something else.
LEMMA GoesKeeps ==
    ASSUME IInv, NEW p \in {"fetch", "shipment", "order", "send"}, Goto(p), MayGo(p),
           \/ p # "send" /\ call.pc \in {"accepted", "fetch"}
           \/ p = "send" /\ call.pc = "find"
    PROVE  IInv'
<1>1. Moves(p, call.row, call.body, call.result, call.reason, call.fault)
  BY CallFields, Goes
<1>2. /\ call.result = "none" /\ call.fault = "none" /\ call.reason = "none"
      /\ call.row \in Rows
      /\ call.body # Nothing => call.row # "none"
  BY UnderWay DEF IInv, TypeOK, Rows
<1>3. Fits(p, call.row, call.body, call.result, call.reason, call.fault)
  BY <1>2, UnderWay
     DEF IInv, Fits, Carried, HasVisit, Looks, Recorded, Excused, Judgements, DataReasons,
         LocateReasons
<1>4. p \in Pcs /\ "none" \in Results /\ "none" \in Reasons /\ "none" \in Faults
  BY DEF Pcs, Results, Reasons, Faults
<1> QED BY <1>1, <1>2, <1>3, <1>4, MovesKeeps

\* A call that flags its order: there is a reason to.
LEMMA FlagsKeeps ==
    ASSUME IInv, call.pc \in {"fetch", "map", "locate", "flag"},
           NEW reason \in Reasons \ {"none"}, Flag(reason),
           reason \in DataReasons =>
              Resolved /\ reason \in Defects(call.fetched.order, call.fetched.shipment),
           reason \in LocateReasons => call.pc = "locate",
           reason = "no_shipment" => Order.shipment = NoId
    PROVE  IInv'
<1>1. Moves("alert", call.row, call.body, call.result, reason, call.fault)
  BY CallFields, Flags
<1>2. /\ call.result = "none" /\ call.fault = "none" /\ call.row \in Rows
      /\ call.body # Nothing => call.row # "none"
  BY UnderWay DEF IInv, TypeOK, Rows
<1>3. Fits("alert", call.row, call.body, call.result, reason, call.fault)
  BY <1>2 DEF IInv, Fits, Carried, HasVisit, Looks, Recorded, Excused, Judgements
<1>4. "alert" \in Pcs /\ "none" \in Results /\ "none" \in Faults /\ MayGo("alert")
  BY DEF Pcs, Results, Faults, MayGo
<1> QED BY <1>1, <1>2, <1>3, <1>4, MovesKeeps

\* A call that ends without an exception, and says why.
LEMMA EndsKeeps ==
    ASSUME IInv, call.pc # "done", NEW result \in Results \ {"none", "raised"}, End(result),
           result \in Judgements => call.pc = "alert",
           result \notin {"ignored", "skipped", "no_id"},
           result = "not_found" =>
             IF call.kind = "order"
             THEN Order.shipment = NoId \/ ~shop.shipments[Order.shipment].flex
             ELSE ~Shipment.flex \/ (Shipment.order_id = NoId /\ Shipment.orders = <<>>)
    PROVE  IInv'
<1>1. Moves("done", call.row, call.body, result, call.reason, call.fault)
  BY CallFields, Ends
<1>2. /\ call.fault = "none" /\ call.row \in Rows /\ call.reason \in Reasons
      /\ call.body # Nothing => call.row # "none"
  BY UnderWay DEF IInv, TypeOK, Rows, Reasons
<1>3. Fits("done", call.row, call.body, result, call.reason, call.fault)
  BY <1>2 DEF IInv, Fits, Carried, HasVisit, Looks, Recorded, Excused
<1>4. "done" \in Pcs /\ "none" \in Faults /\ MayGo("done")
  BY DEF Pcs, Faults, MayGo
<1> QED BY <1>1, <1>2, <1>3, <1>4, MovesKeeps

\* A call that raises, and from where.
LEMMA RaisesKeeps ==
    ASSUME IInv, call.pc # "done", NEW fault \in Faults \ {"settings"}, Raise(fault),
           fault = "geocoder" => call.pc = "locate",
           fault = "simpliroute" => call.pc \in {"find", "answer"},
           fault = "unknown_id" => (call.label # NoLabel => Misread),
           fault = "none" => Resolved /\ Unreadable(Source)
    PROVE  IInv'
<1>1. Moves("done", call.row, call.body, "raised", call.reason, fault)
  BY CallFields, Raises
<1>2. /\ call.row \in Rows /\ call.reason \in Reasons
      /\ call.body # Nothing => call.row # "none"
  BY DEF IInv, TypeOK, Rows, Reasons
<1>3. Carried("done", call.row, call.body, "raised", call.reason, fault)
  BY DEF IInv, Fits, Carried, HasVisit, Looks
<1>4. Recorded("done", call.row, "raised", call.reason, fault)
  BY DEF IInv, Fits, Recorded, Judgements
<1>5. Excused("raised", fault)
  BY DEF Excused, Faults
<1>6. "done" \in Pcs /\ "raised" \in Results /\ MayGo("done")
  BY DEF Pcs, Results, MayGo
<1> QED BY <1>1, <1>2, <1>3, <1>4, <1>5, <1>6, MovesKeeps DEF Fits

\* What a lookup finds is an order and a shipment as Mercado Libre has them.
LEMMA OrderOfShipment ==
    ASSUME TypeOK, call.id \in DOMAIN shop.shipments, OrderId(Shipment) # NoId
    PROVE  /\ OrderId(Shipment) \in DOMAIN shop.orders
           /\ OrderId(Shipment) \in
                 {Shipment.order_id} \cup {Shipment.orders[i] : i \in DOMAIN Shipment.orders}
<1>1. /\ Shipment.order_id \in DOMAIN shop.orders \cup {NoId}
      /\ Shipment.orders \in Seq(DOMAIN shop.orders)
  BY ShopsAssumption DEF TypeOK, IsShop, IsShipment, Shipment
<1>2. CASE Shipment.order_id # NoId
  BY <1>1, <1>2 DEF OrderId
<1>3. CASE Shipment.order_id = NoId
  <2>1. Shipment.orders # <<>> /\ OrderId(Shipment) = Head(Shipment.orders)
    BY <1>3 DEF OrderId
  <2>2. /\ Head(Shipment.orders) = Shipment.orders[1]
        /\ Head(Shipment.orders) \in DOMAIN shop.orders
        /\ 1 \in DOMAIN Shipment.orders
    BY <1>1, <2>1
  <2> QED BY <2>1, <2>2
<1> QED BY <1>2, <1>3

LEMMA ResolvedIsFetched ==
    ASSUME TypeOK, Resolved
    PROVE  IsFetched(call.fetched)
<1>1. /\ \A id \in DOMAIN shop.orders : IsOrder(shop.orders[id], id, shop)
      /\ \A id \in DOMAIN shop.shipments : IsShipment(shop.shipments[id], shop)
  BY ShopsAssumption DEF TypeOK, IsShop
<1>2. CASE /\ call.kind = "order" /\ call.id \in DOMAIN shop.orders /\ Order.shipment # NoId
           /\ call.fetched.order = Order
           /\ call.fetched.shipment = shop.shipments[Order.shipment]
  <2>1. IsOrder(Order, call.id, shop)
    BY <1>1, <1>2 DEF Order
  <2>2. IsShipment(shop.shipments[Order.shipment], shop)
    BY <1>1, <1>2, <2>1 DEF IsOrder
  <2> QED BY <1>2, <2>1, <2>2 DEF IsOrder, IsShipment, IsFetched
<1>3. CASE /\ call.kind = "shipment" /\ call.id \in DOMAIN shop.shipments
           /\ OrderId(Shipment) # NoId
           /\ call.fetched.order = shop.orders[OrderId(Shipment)]
           /\ call.fetched.shipment = Shipment
  <2>1. IsShipment(Shipment, shop)
    BY <1>1, <1>3 DEF Shipment
  <2>2. IsOrder(shop.orders[OrderId(Shipment)], OrderId(Shipment), shop)
    BY <1>1, <1>3, OrderOfShipment
  <2> QED BY <1>3, <2>1, <2>2 DEF IsOrder, IsShipment, IsFetched
<1> QED BY <1>2, <1>3 DEF Resolved

\* A label whose key was read names the shipment it sticks on.
LEMMA LabelRead ==
    ASSUME IInv, call.label # NoLabel, call.id \in Ids
    PROVE  call.id = call.label.shipment \/ Misread
<1>1. /\ {call.label.id, call.label.shipment_id, call.label.shipping_id} \subseteq
            (IF call.label.form = "object" THEN {call.label.shipment, NoId} ELSE {NoId})
  BY LabelsAssumption DEF IInv, TypeOK, IsLabel
<1>2. call.id = ParseFlexQr(call.label) /\ call.id # NoId
  BY IdsAssumption DEF IInv, Scanned
<1>3. CASE Keyed(call.label) # NoId
  <2>1. call.label.form = "object" /\ Keyed(call.label) = call.label.shipment
    BY <1>1, <1>3 DEF Keyed
  <2> QED BY <1>2, <1>3, <2>1 DEF ParseFlexQr
<1>4. CASE Keyed(call.label) = NoId
  <2>1. call.id = IF call.label.form = "digits" THEN call.label.digits
                  ELSE Head(call.label.runs)
    BY <1>2, <1>4 DEF ParseFlexQr
  <2> QED BY <1>4, <2>1 DEF Misread
<1> QED BY <1>3, <1>4

\* A label that names its shipment never names one Mercado Libre does not know.
LEMMA UnknownIsMisread ==
    ASSUME IInv, FetchUnknown, call.label # NoLabel
    PROVE  Misread
<1>1. call.kind = "shipment" /\ call.id \notin DOMAIN shop.shipments /\ call.id # NoId
  BY DEF FetchUnknown, At, IInv, Scanned, MayGo
<1>2. call.label \in Labels /\ shop \in Shops /\ call.id \in Ids
  BY <1>1 DEF IInv, TypeOK
<1>3. call.label.shipment \in DOMAIN shop.shipments
  BY <1>2, LabelsAssumption DEF IsLabel
<1> QED BY <1>1, <1>2, <1>3, LabelRead

-----------------------------------------------------------------------------
(* The steps that bring what is fetched, and the visit *)

\* The order and the shipment that are brought are the ones Mercado Libre has.
Brings(order, shipment) ==
    /\ DOMAIN call' = Fields /\ call'.pc = "map"
    /\ AsksTheSame /\ EndsTheSame
    /\ call'.fetched = [order |-> order, shipment |-> shipment]

LEMMA Bringing ==
    ASSUME DOMAIN call = Fields
    PROVE  /\ FetchItsShipment =>
                \/ /\ shop.shipments[Order.shipment].flex
                   /\ Brings(Order, shop.shipments[Order.shipment])
                \/ ~shop.shipments[Order.shipment].flex /\ End("not_found")
           /\ FetchItsOrder => Brings(shop.orders[OrderId(Shipment)], Shipment)
<1> USE DEF Becomes, Fields, Brings, AsksTheSame, EndsTheSame
<1>1. ASSUME FetchItsShipment, shop.shipments[Order.shipment].flex
      PROVE  Brings(Order, shop.shipments[Order.shipment])
  BY <1>1 DEF FetchItsShipment
<1>2. ASSUME FetchItsShipment, ~shop.shipments[Order.shipment].flex
      PROVE  End("not_found")
  BY <1>2 DEF FetchItsShipment
<1>3. ASSUME FetchItsOrder
      PROVE  Brings(shop.orders[OrderId(Shipment)], Shipment)
  BY <1>3 DEF FetchItsOrder
<1> HIDE DEF Brings
<1> QED BY <1>1, <1>2, <1>3

\* The visit as it is mapped, and as it goes on to be claimed.
Carries(visit, p) ==
    /\ DOMAIN call' = Fields /\ call'.pc = p
    /\ AsksTheSame /\ EndsTheSame
    /\ call'.fetched = call.fetched /\ call'.visit = visit

LEMMA Carrying ==
    ASSUME DOMAIN call = Fields
    PROVE  /\ MapVisit => Carries(Mapped, IF NeedsLocating(Mapped) THEN "locate" ELSE "claim")
           /\ Located  => Carries(Found(call.visit), "claim")
<1> USE DEF Becomes, Fields, Carries, AsksTheSame, EndsTheSame
<1>1. ASSUME MapVisit
      PROVE  Carries(Mapped, IF NeedsLocating(Mapped) THEN "locate" ELSE "claim")
  BY <1>1 DEF MapVisit
<1>2. ASSUME Located
      PROVE  Carries(Found(call.visit), "claim")
  BY <1>2 DEF Located, Found
<1> HIDE DEF Carries
<1> QED BY <1>1, <1>2

\* A step that lets the call go on, before it has claimed its order.
LEMMA GoesOn ==
    ASSUME IInv, call.pc \in {"shipment", "order", "map", "locate"}, NEW p,
           p \in {"map", "locate", "claim"},
           DOMAIN call' = Fields, call'.pc = p, AsksTheSame, EndsTheSame
    PROVE  /\ TypeOK' /\ Scanned' /\ MayGo(call.pc)'
           /\ call'.result = "none" /\ call'.fault = "none" /\ call'.reason = "none"
           /\ call'.row = "none" /\ call'.body = Nothing
           /\ Recorded(call.pc, call.row, call.result, call.reason, call.fault)'
           /\ Excused(call.result, call.fault)'
<1>1. /\ call'.result = "none" /\ call'.fault = "none" /\ call'.reason = "none"
      /\ call'.row = "none" /\ call'.body = Nothing
  BY UnderWay DEF EndsTheSame
<1>2. TypeOK'
  BY <1>1, FieldsOfCall DEF IInv, TypeOK, AsksTheSame, Pcs, Results, Faults
<1>3. Scanned' /\ MayGo(call.pc)'
  <2>1. Scanned'
    BY SameQuestion DEF IInv
  <2>2. MayGo(call.pc)'
    BY DEF MayGo
  <2> QED BY <2>1, <2>2
<1>4. /\ Recorded(call.pc, call.row, call.result, call.reason, call.fault)'
      /\ Excused(call.result, call.fault)'
  BY <1>1 DEF Recorded, Excused, Judgements
<1> QED BY <1>1, <1>2, <1>3, <1>4

\* The order and the shipment have come.
LEMMA BringsKeeps ==
    ASSUME IInv, call.pc \in {"shipment", "order"}, NEW order, NEW shipment,
           Brings(order, shipment), shipment.flex,
           \/ /\ call.kind = "order" /\ call.id \in DOMAIN shop.orders /\ Order.shipment # NoId
              /\ order = Order /\ shipment = shop.shipments[Order.shipment]
           \/ /\ call.kind = "shipment" /\ call.id \in DOMAIN shop.shipments
              /\ OrderId(Shipment) # NoId
              /\ order = shop.orders[OrderId(Shipment)] /\ shipment = Shipment
    PROVE  IInv'
<1>1. /\ DOMAIN call' = Fields /\ call'.pc = "map" /\ AsksTheSame /\ EndsTheSame
      /\ call'.fetched.order = order /\ call'.fetched.shipment = shipment
  BY DEF Brings
<1>2. /\ TypeOK' /\ Scanned' /\ MayGo(call.pc)'
      /\ call'.result = "none" /\ call'.fault = "none" /\ call'.reason = "none"
      /\ call'.row = "none" /\ call'.body = Nothing
      /\ Recorded(call.pc, call.row, call.result, call.reason, call.fault)'
      /\ Excused(call.result, call.fault)'
  BY <1>1, GoesOn
<1>3. /\ Order' = Order /\ Shipment' = Shipment
      /\ call'.kind = call.kind /\ call'.id = call.id /\ shop' = shop
  BY <1>1, SameQuestion DEF AsksTheSame
<1>4. Resolved'
  BY <1>1, <1>3 DEF Resolved
<1>5. Carried(call.pc, call.row, call.body, call.result, call.reason, call.fault)'
  BY <1>1, <1>2, <1>4 DEF Carried, HasVisit, Looks, DataReasons, LocateReasons
<1> QED BY <1>2, <1>5 DEF IInv, Fits

\* The visit goes on, to be located or to be claimed.
LEMMA CarriesKeeps ==
    ASSUME IInv, call.pc \in {"map", "locate"}, Mapped.kind = "visit", Resolved,
           NEW visit, NEW p, p \in {"locate", "claim"}, Carries(visit, p),
           p = "locate" => visit = Mapped /\ NeedsLocating(Mapped),
           p = "claim" => Ready(visit)
    PROVE  IInv'
<1>1. /\ DOMAIN call' = Fields /\ call'.pc = p /\ AsksTheSame /\ EndsTheSame
      /\ call'.fetched = call.fetched /\ call'.visit = visit
  BY DEF Carries
<1>2. /\ TypeOK' /\ Scanned' /\ MayGo(call.pc)'
      /\ call'.result = "none" /\ call'.fault = "none" /\ call'.reason = "none"
      /\ call'.row = "none" /\ call'.body = Nothing
      /\ Recorded(call.pc, call.row, call.result, call.reason, call.fault)'
      /\ Excused(call.result, call.fault)'
  BY <1>1, GoesOn
<1>3. Mapped' = Mapped /\ Resolved'
  BY <1>1, SameFetched
<1>4. Ready(visit) => Ready(call.visit)'
  BY <1>1, <1>3 DEF Ready
<1>5. Carried(call.pc, call.row, call.body, call.result, call.reason, call.fault)'
  BY <1>1, <1>2, <1>3, <1>4 DEF Carried, HasVisit, Looks, DataReasons, LocateReasons
<1> QED BY <1>2, <1>5 DEF IInv, Fits

-----------------------------------------------------------------------------
(* Every step keeps the invariant *)

LEMMA EntryStep ==
    ASSUME IInv,
           \/ \E kind \in {"none", "order", "shipment"}, id \in Ids \cup {NoId} :
                 NotifyIgnored(kind, id) \/ NotifySkipped(kind, id) \/ NotifyAccepted(kind, id)
           \/ \E id \in Ids \cup {NoId}, label \in Labels : Scan(id, label)
           \/ RunUnconfigured
           \/ \E o \in DOMAIN shop.orders : RunLists(o)
    PROVE  IInv'
<1>1. ASSUME NEW kind \in {"none", "order", "shipment"}, NEW id \in Ids \cup {NoId},
             NotifyIgnored(kind, id) \/ NotifySkipped(kind, id) \/ NotifyAccepted(kind, id)
      PROVE  IInv'
  <2>1. CASE NotifyIgnored(kind, id)
    <3>1. Opens("notification", kind, id, NoLabel, "done", "ignored", "none")
      BY <2>1, Opening
    <3>2. seller
      BY <2>1 DEF NotifyIgnored
    <3> QED BY <3>1, <3>2, OpensKeeps
  <2>2. CASE NotifySkipped(kind, id)
    <3>1. Opens("notification", kind, id, NoLabel, "done", "skipped", "none")
      BY <2>2, Opening
    <3>2. kind = "none" \/ id = NoId
      BY <2>2 DEF NotifySkipped
    <3> QED BY <3>1, <3>2, OpensKeeps
  <2>3. CASE NotifyAccepted(kind, id)
    <3>1. Opens("notification", kind, id, NoLabel, "accepted", "none", "none")
      BY <2>3, Opening
    <3>2. kind \in {"order", "shipment"} /\ id # NoId
      BY <2>3 DEF NotifyAccepted
    <3> QED BY <3>1, <3>2, OpensKeeps
  <2> QED BY <1>1, <2>1, <2>2, <2>3
<1>2. ASSUME NEW id \in Ids \cup {NoId}, NEW label \in Labels, Scan(id, label)
      PROVE  IInv'
  <2>1. ParseFlexQr(label) \in Ids \cup {NoId}
    BY NumberOfLabel DEF IInv, TypeOK
  <2>2. CASE id # NoId /\ Opens("scan", "shipment", id, NoLabel, "fetch", "none", "none")
    BY <2>2, OpensKeeps
  <2>3. CASE /\ ParseFlexQr(label) # NoId
             /\ Opens("scan", "shipment", ParseFlexQr(label), label, "fetch", "none", "none")
    <3> DEFINE n == ParseFlexQr(label)
    <3>1. /\ n \in Ids \cup {NoId} /\ n # NoId
          /\ Opens("scan", "shipment", n, label, "fetch", "none", "none")
      BY <2>1, <2>3
    <3> QED BY <3>1, OpensKeeps
  <2>4. CASE /\ ParseFlexQr(label) = NoId
             /\ Opens("scan", "shipment", NoId, label, "done", "no_id", "none")
    BY <2>4, OpensKeeps
  <2> QED BY <1>2, <2>2, <2>3, <2>4, Scanning
<1>3. CASE RunUnconfigured
  <2>1. Opens("run", "none", NoId, NoLabel, "done", "raised", "settings")
    BY <1>3, Opening
  <2>2. ~seller
    BY <1>3 DEF RunUnconfigured
  <2> QED BY <2>1, <2>2, OpensKeeps
<1>4. ASSUME NEW o \in DOMAIN shop.orders, RunLists(o) PROVE IInv'
  <2>1. Opens("run", "order", o, NoLabel, "fetch", "none", "none")
    BY <1>4, Opening
  <2>2. o \in Ids /\ o # NoId
    BY ShopsAssumption, IdsAssumption DEF IInv, TypeOK, IsShop
  <2> QED BY <2>1, <2>2, OpensKeeps
<1> QED BY <1>1, <1>2, <1>3, <1>4

LEMMA FetchStep ==
    ASSUME IInv,
           StartTask \/ FetchOrder \/ FetchItsShipment \/ FetchShipment \/ FetchItsOrder
    PROVE  IInv'
<1>1. DOMAIN call = Fields
  BY CallFields
<1>2. CASE StartTask
  BY <1>2, GoesKeeps DEF StartTask, At, IInv, MayGo
<1>3. CASE FetchOrder
  <2>1. call.pc = "fetch" /\ call.kind = "order" /\ call.id \in DOMAIN shop.orders
    BY <1>3 DEF FetchOrder, At
  <2>2. CASE Order.shipment # NoId /\ Goto("shipment")
    BY <2>1, <2>2, GoesKeeps DEF MayGo
  <2>3. CASE Order.shipment = NoId /\ Flag("no_shipment")
    <3>1. "no_shipment" \in Reasons \ {"none"}
          /\ "no_shipment" \notin DataReasons \cup LocateReasons
      BY DEF Reasons, DataReasons, LocateReasons
    <3> QED BY <2>1, <2>3, <3>1, FlagsKeeps
  <2>4. CASE Order.shipment = NoId /\ End("not_found")
    BY <2>1, <2>4, EndsKeeps DEF Results, Judgements
  <2> QED BY <1>3, <2>2, <2>3, <2>4 DEF FetchOrder
<1>4. CASE FetchShipment
  <2>1. call.pc = "fetch" /\ call.kind = "shipment" /\ call.id \in DOMAIN shop.shipments
    BY <1>4 DEF FetchShipment, At
  <2>2. CASE Shipment.flex /\ OrderId(Shipment) # NoId /\ Goto("order")
    BY <2>1, <2>2, GoesKeeps DEF MayGo
  <2>3. CASE ~(Shipment.flex /\ OrderId(Shipment) # NoId) /\ End("not_found")
    <3>1. /\ Shipment.orders \in Seq(DOMAIN shop.orders)
          /\ DOMAIN shop.orders \subseteq Ids
      BY <2>1, ShopsAssumption DEF IInv, TypeOK, IsShop, IsShipment, Shipment
    <3>2. Shipment.orders # <<>> => Head(Shipment.orders) # NoId
      BY <3>1, IdsAssumption
    <3>3. ~Shipment.flex \/ (Shipment.order_id = NoId /\ Shipment.orders = <<>>)
      BY <2>3, <3>2 DEF OrderId
    <3> QED BY <2>1, <2>3, <3>3, EndsKeeps DEF Results, Judgements
  <2> QED BY <1>4, <2>2, <2>3 DEF FetchShipment
<1>5. CASE FetchItsShipment
  <2>1. /\ call.pc = "shipment" /\ call.kind = "order" /\ call.id \in DOMAIN shop.orders
        /\ Order.shipment # NoId
    BY <1>5 DEF FetchItsShipment, At, IInv, MayGo
  <2>2. CASE /\ shop.shipments[Order.shipment].flex
             /\ Brings(Order, shop.shipments[Order.shipment])
    BY <2>1, <2>2, BringsKeeps
  <2>3. CASE ~shop.shipments[Order.shipment].flex /\ End("not_found")
    BY <2>1, <2>3, EndsKeeps DEF Results, Judgements
  <2> QED BY <1>1, <1>5, <2>2, <2>3, Bringing
<1>6. CASE FetchItsOrder
  <2>1. /\ call.pc = "order" /\ call.kind = "shipment" /\ call.id \in DOMAIN shop.shipments
        /\ Shipment.flex /\ OrderId(Shipment) # NoId
    BY <1>6 DEF FetchItsOrder, At, IInv, MayGo
  <2>2. Brings(shop.orders[OrderId(Shipment)], Shipment)
    BY <1>1, <1>6, Bringing
  <2> QED BY <2>1, <2>2, BringsKeeps
<1> QED BY <1>2, <1>3, <1>4, <1>5, <1>6

LEMMA RaiseStep ==
    ASSUME IInv,
           \/ FetchUnknown \/ FetchFails \/ TokenRaises \/ MapRaises
           \/ LocateRaises \/ CacheRaises \/ SimpliRouteRaises \/ RecordRaises
    PROVE  IInv'
<1>1. {"none", "unknown_id", "mercado_libre", "geocoder", "simpliroute", "database"}
         \subseteq Faults \ {"settings"}
  BY DEF Faults
<1>2. CASE FetchUnknown
  <2>1. call.label # NoLabel => Misread
    BY <1>2, UnknownIsMisread
  <2> QED BY <1>1, <1>2, <2>1, RaisesKeeps DEF FetchUnknown, At
<1>3. CASE FetchFails
  BY <1>1, <1>3, RaisesKeeps DEF FetchFails
<1>4. CASE TokenRaises
  BY <1>1, <1>4, RaisesKeeps DEF TokenRaises
<1>5. CASE MapRaises
  <2>1. call.pc = "map" /\ Raise("none") /\ Unreadable(Source)
    BY <1>5 DEF MapRaises, At, Source
  <2>2. Resolved
    BY <2>1 DEF IInv, Fits, Carried
  <2> QED BY <1>1, <2>1, <2>2, RaisesKeeps
<1>6. CASE LocateRaises
  BY <1>1, <1>6, RaisesKeeps DEF LocateRaises, At
<1>7. CASE CacheRaises
  BY <1>1, <1>7, RaisesKeeps DEF CacheRaises, At
<1>8. CASE SimpliRouteRaises
  BY <1>1, <1>8, RaisesKeeps DEF SimpliRouteRaises
<1>9. CASE RecordRaises
  BY <1>1, <1>9, RaisesKeeps DEF RecordRaises, At
<1> QED BY <1>2, <1>3, <1>4, <1>5, <1>6, <1>7, <1>8, <1>9

LEMMA MapStep ==
    ASSUME IInv,
           \/ MapReview \/ MapVisit \/ Located
           \/ \E reason \in LocateReasons : NotLocated(reason)
    PROVE  IInv'
<1>1. DOMAIN call = Fields
  BY CallFields
<1>2. call.pc \in {"map", "locate"} /\ Resolved /\ IsFetched(call.fetched)
  <2>1. call.pc \in {"map", "locate"}
    BY DEF MapReview, MapVisit, Located, NotLocated, At
  <2>2. Resolved
    BY <2>1 DEF IInv, Fits, Carried, HasVisit
  <2> QED BY <2>1, <2>2, ResolvedIsFetched DEF IInv
<1>3. CASE MapReview
  <2>1. call.pc = "map" /\ Flag(Mapped.reason) /\ Mapped.kind = "review"
    BY <1>3 DEF MapReview, At
  <2>2. Mapped.reason \in Defects(call.fetched.order, call.fetched.shipment)
    BY <1>2, <2>1, MappedTo DEF Mapped
  <2>3. Mapped.reason \in DataReasons
    BY <1>2, <2>2, DefectsOf
  <2> DEFINE reason == Mapped.reason
  <2>4. /\ reason \in Reasons \ {"none"} /\ reason \notin LocateReasons
        /\ reason # "no_shipment"
    BY <2>3 DEF Reasons, DataReasons, LocateReasons
  <2>5. Flag(reason) /\ reason \in Defects(call.fetched.order, call.fetched.shipment)
    BY <2>1, <2>2
  <2> HIDE DEF reason
  <2> QED BY <1>2, <2>1, <2>4, <2>5, FlagsKeeps
<1>4. CASE MapVisit
  <2>1. /\ Mapped.kind = "visit"
        /\ Carries(Mapped, IF NeedsLocating(Mapped) THEN "locate" ELSE "claim")
    BY <1>1, <1>4, Carrying DEF MapVisit
  <2>2. CASE NeedsLocating(Mapped)
    <3>1. Carries(Mapped, "locate")
      BY <2>1, <2>2
    <3> QED BY <1>2, <2>1, <2>2, <3>1, CarriesKeeps
  <2>3. CASE ~NeedsLocating(Mapped)
    <3>1. Carries(Mapped, "claim") /\ Ready(Mapped)
      BY <2>1, <2>3 DEF Ready
    <3> QED BY <1>2, <2>1, <3>1, CarriesKeeps
  <2> QED BY <2>2, <2>3
<1>5. CASE Located
  <2>1. Mapped.kind = "visit" /\ call.visit = Mapped
    BY <1>5 DEF Located, At, IInv, Fits, Carried, HasVisit
  <2>2. Carries(Found(Mapped), "claim") /\ Ready(Found(Mapped))
    BY <1>1, <1>5, <2>1, Carrying DEF Ready
  <2> QED BY <1>2, <2>1, <2>2, CarriesKeeps
<1>6. ASSUME NEW reason \in LocateReasons, NotLocated(reason)
      PROVE  IInv'
  <2>1. call.pc = "locate" /\ Flag(reason)
    BY <1>6 DEF NotLocated, At
  <2>2. /\ reason \in Reasons \ {"none"} /\ reason \notin DataReasons
        /\ reason # "no_shipment"
    BY DEF Reasons, DataReasons, LocateReasons
  <2> QED BY <2>1, <2>2, FlagsKeeps
<1> QED BY <1>3, <1>4, <1>5, <1>6

\* From the claim on: the visit and what is known of it stay.
LEMMA ClaimStep ==
    ASSUME IInv,
           \/ AlreadySent \/ ClaimNew \/ \E status \in {"pending", "failed"} : ClaimRetry(status)
           \/ Recovered \/ FindNone \/ Post
    PROVE  IInv'
<1>1. DOMAIN call = Fields
  BY CallFields
<1>2. call.pc \in {"claim", "find", "send"}
  BY DEF AlreadySent, ClaimNew, ClaimRetry, Recovered, FindNone, Post, At
<1>3. /\ call.result = "none" /\ call.fault = "none" /\ call.reason = "none"
      /\ call.row \in Rows /\ (call.body # Nothing => call.row # "none")
      /\ call.pc # "claim" => call.row # "none"
      /\ Resolved /\ Mapped.kind = "visit" /\ Ready(call.visit)
      /\ call.body # Nothing => call.body = Render(call.visit)
  BY <1>2, UnderWay DEF IInv, TypeOK, Rows, Fits, Carried, HasVisit, Recorded
<1> USE DEF Fits, Carried, HasVisit, Looks, Recorded, Excused, MayGo
<1> DEFINE Keeps(p, row, body, result) ==
              /\ p \in Pcs /\ row \in Rows /\ result \in Results
              /\ (result = "none") <=> (p # "done")
              /\ body # Nothing => row # "none"
              /\ MayGo(p) /\ Fits(p, row, body, result, "none", "none")
<1>4. "none" \in Reasons /\ "none" \in Faults
  BY DEF Reasons, Faults
<1>5. ASSUME NEW p, NEW row, NEW body, NEW result, Keeps(p, row, body, result),
             Moves(p, row, body, result, call.reason, call.fault)
      PROVE  IInv'
  <2> HIDE DEF Fits, MayGo
  <2> QED BY <1>3, <1>4, <1>5, MovesKeeps
<1>6. /\ "none" \notin DataReasons \cup LocateReasons \cup Judgements
      /\ {"send", "find", "answer", "done"} \subseteq Pcs
      /\ {"pending", "failed", "completed"} \subseteq Rows
      /\ {"none", "recovered", "skipped_duplicate"} \subseteq Results
  BY DEF DataReasons, LocateReasons, Judgements, Pcs, Rows, Results
<1>7. CASE AlreadySent
  <2>1. Keeps("done", "completed", call.body, "skipped_duplicate")
    BY <1>3, <1>6
  <2> HIDE DEF Keeps
  <2> QED BY <1>1, <1>5, <1>7, <2>1, Writes
<1>8. CASE ClaimNew
  <2>1. Keeps("send", "pending", call.body, call.result)
    BY <1>3, <1>6
  <2> HIDE DEF Keeps
  <2> QED BY <1>1, <1>5, <1>8, <2>1, Writes
<1>9. ASSUME NEW status \in {"pending", "failed"}, ClaimRetry(status) PROVE IInv'
  <2>1. Keeps("find", status, call.body, call.result)
    BY <1>3, <1>6
  <2> HIDE DEF Keeps
  <2> QED BY <1>1, <1>5, <1>9, <2>1, Writes
<1>10. CASE Recovered
  <2>1. Keeps("done", "completed", call.body, "recovered")
    BY <1>3, <1>6
  <2> HIDE DEF Keeps
  <2> QED BY <1>1, <1>5, <1>10, <2>1, Writes
<1>11. CASE FindNone
  BY <1>11, GoesKeeps DEF FindNone, At
<1>12. CASE Post
  <2>1. call.pc = "send" /\ call.row # "none"
    BY <1>3, <1>12 DEF Post, At
  <2>2. Keeps("answer", call.row, Render(call.visit), call.result)
    BY <1>3, <1>6, <2>1
  <2> HIDE DEF Keeps
  <2> QED BY <1>1, <1>5, <1>12, <2>2, Writes
<1> QED BY <1>7, <1>8, <1>9, <1>10, <1>11, <1>12

\* From the answer on.
LEMMA AnswerStep ==
    ASSUME IInv, Completed \/ Exhausted \/ Rejected \/ FlagRejected \/ AlertSent \/ Crash
    PROVE  IInv'
<1>1. DOMAIN call = Fields
  BY CallFields
<1>2. CASE Completed \/ Exhausted \/ Rejected
  <2>1. call.pc = "answer"
    BY <1>2 DEF Completed, Exhausted, Rejected, At
  <2>2. /\ call.result = "none" /\ call.fault = "none" /\ call.reason = "none"
        /\ Resolved /\ Mapped.kind = "visit"
        /\ call.body # Nothing => call.body = Render(call.visit) /\ Ready(call.visit)
    BY <2>1, UnderWay DEF IInv, Fits, Carried, HasVisit
  <2>3. ASSUME NEW p, NEW row, NEW result,
               \/ p = "done" /\ row = "completed" /\ result = "completed"
               \/ p \in {"alert", "flag"} /\ row = "failed" /\ result = "none"
        PROVE  /\ Fits(p, row, call.body, result, "none", "none") /\ MayGo(p)
               /\ p \in Pcs /\ row \in Rows \ {"none"} /\ result \in Results
               /\ (result = "none") <=> (p # "done")
    <3>1. /\ p \in Pcs /\ row \in Rows \ {"none"} /\ result \in Results
          /\ (result = "none") <=> (p # "done")
      BY <2>3 DEF Pcs, Rows, Results, Judgements
    <3>2. MayGo(p)
      BY <2>3 DEF MayGo
    <3>3. Carried(p, row, call.body, result, "none", "none")
      BY <2>2, <2>3 DEF Carried, HasVisit, Looks, DataReasons, LocateReasons
    <3>4. Recorded(p, row, result, "none", "none") /\ Excused(result, "none")
      BY <2>3 DEF Recorded, Excused
    <3> QED BY <3>1, <3>2, <3>3, <3>4 DEF Fits
  <2>4. "none" \in Reasons /\ "none" \in Faults
    BY DEF Reasons, Faults
  <2>5. CASE Completed
    <3>1. Moves("done", "completed", call.body, "completed", "none", "none")
      BY <1>1, <2>2, <2>5, Writes
    <3> QED BY <2>3, <2>4, <3>1, MovesKeeps
  <2>6. CASE Exhausted
    <3>1. Moves("alert", "failed", call.body, "none", "none", "none")
      BY <1>1, <2>2, <2>6, Writes
    <3> QED BY <2>3, <2>4, <3>1, MovesKeeps
  <2>7. CASE Rejected
    <3>1. Moves("flag", "failed", call.body, "none", "none", "none")
      BY <1>1, <2>2, <2>7, Writes
    <3> QED BY <2>3, <2>4, <3>1, MovesKeeps
  <2> QED BY <1>2, <2>5, <2>6, <2>7
<1>3. CASE FlagRejected
  <2>1. call.pc = "flag" /\ Flag(PermanentReason)
    BY <1>3 DEF FlagRejected, At
  <2>2. /\ PermanentReason \in Reasons \ {"none"} /\ PermanentReason # "no_shipment"
        /\ PermanentReason \notin DataReasons \cup LocateReasons
    BY DEF Reasons, PermanentReason, DataReasons, LocateReasons
  <2> HIDE DEF PermanentReason
  <2> QED BY <2>1, <2>2, FlagsKeeps
<1>4. CASE AlertSent
  <2> DEFINE r == IF call.reason = "none"               THEN "transient_failed"
                  ELSE IF call.reason = PermanentReason THEN "permanent_failed"
                  ELSE "manual_review"
  <2>1. call.pc = "alert" /\ End(r)
    BY <1>4 DEF AlertSent, At
  <2>2. /\ r \in Results \ {"none", "raised"}
        /\ r \notin {"ignored", "skipped", "no_id", "not_found"}
    BY DEF Results, Judgements
  <2> HIDE DEF r
  <2> QED BY <2>1, <2>2, EndsKeeps
<1>5. CASE Crash
  BY <1>5, EndsKeeps DEF Crash, Results, Judgements
<1> QED BY <1>2, <1>3, <1>4, <1>5

LEMMA Idle == ASSUME IInv, UNCHANGED vars PROVE IInv'
<1>1. shop' = shop /\ seller' = seller /\ call' = call
  BY DEF vars
<1> QED BY <1>1 DEF IInv, TypeOK, Scanned, MayGo, Fits, Carried, Recorded, Excused, Resolved,
            Order, Shipment, Misread, Mapped, Source, Ready

LEMMA Step == IInv /\ [Next]_vars => IInv'
<1> SUFFICES ASSUME IInv, [Next]_vars PROVE IInv'
  OBVIOUS
<1>1. CASE UNCHANGED vars \/ Finished
  BY <1>1, Idle DEF Finished
<1>2. CASE \/ \E kind \in {"none", "order", "shipment"}, id \in Ids \cup {NoId} :
                 NotifyIgnored(kind, id) \/ NotifySkipped(kind, id) \/ NotifyAccepted(kind, id)
           \/ \E id \in Ids \cup {NoId}, label \in Labels : Scan(id, label)
           \/ RunUnconfigured
           \/ \E o \in DOMAIN shop.orders : RunLists(o)
  BY <1>2, EntryStep
<1>3. CASE StartTask \/ FetchOrder \/ FetchItsShipment \/ FetchShipment \/ FetchItsOrder
  BY <1>3, FetchStep
<1>4. CASE \/ FetchUnknown \/ FetchFails \/ TokenRaises \/ MapRaises
           \/ LocateRaises \/ CacheRaises \/ SimpliRouteRaises \/ RecordRaises
  BY <1>4, RaiseStep
<1>5. CASE \/ MapReview \/ MapVisit \/ Located
           \/ \E reason \in LocateReasons : NotLocated(reason)
  BY <1>5, MapStep
<1>6. CASE \/ AlreadySent \/ ClaimNew
           \/ \E status \in {"pending", "failed"} : ClaimRetry(status)
           \/ Recovered \/ FindNone \/ Post
  BY <1>6, ClaimStep
<1>7. CASE Completed \/ Exhausted \/ Rejected \/ FlagRejected \/ AlertSent \/ Crash
  BY <1>7, AnswerStep
<1> QED BY <1>1, <1>2, <1>3, <1>4, <1>5, <1>6, <1>7 DEF Next

\* Whatever a call has fetched is Mercado Libre's and belongs together; what it
\* carries is that as map_order_to_visit maps it, with coordinates before it is
\* claimed; and nothing is asked of SimpliRoute that is not on record.
THEOREM Invariance == Spec => []IInv
<1>1. Init => IInv
  BY Initially
<1>2. IInv /\ [Next]_vars => IInv'
  BY Step
<1> QED BY <1>1, <1>2, PTL DEF Spec

-----------------------------------------------------------------------------
(* What a call promises *)

\* An order that has been claimed, or was found to be.
LEMMA SentState ==
    ASSUME IInv, call.row # "none"
    PROVE  /\ IsFetched(call.fetched) /\ Resolved
           /\ Source.given
           /\ Mapped = VisitPayload(call.fetched, Normalize(Source))
           /\ Defects(call.fetched.order, call.fetched.shipment) = {}
           /\ Normalize(Source).street_name # "" /\ Normalize(Source).street_number # ""
           /\ ReceiverName(call.fetched) # <<>>
<1>1. Resolved /\ Mapped.kind = "visit"
  BY DEF IInv, Fits, Carried, HasVisit
<1>2. IsFetched(call.fetched)
  BY <1>1, ResolvedIsFetched DEF IInv
<1>3. /\ Mapped = VisitPayload(call.fetched, Normalize(Source))
      /\ Defects(call.fetched.order, call.fetched.shipment) = {}
  BY <1>1, <1>2, MappedTo DEF Mapped, Source
<1>4. /\ ~(~Source.given \/ Normalize(Source).street_name = "")
      /\ ~(Source.given /\ Normalize(Source).street_number = "")
      /\ ReceiverName(call.fetched) # <<>>
  BY <1>2, <1>3, DefectsOf DEF Wants, Source
<1> QED BY <1>1, <1>2, <1>3, <1>4

\* What is posted is the mapped visit, with its own coordinates or the found ones.
LEMMA SentBody ==
    ASSUME IInv, call.body # Nothing
    PROVE  LET body == call.body
           IN  /\ call.row # "none"
               /\ body.reference = call.fetched.order.id
               /\ body.address = FullLine(Normalize(Source))
               /\ body.contact_name = ReceiverName(call.fetched)
               /\ body.notes.sin_tel <=> (Phone(call.fetched) = <<>>)
               /\ \/ body.latitude = "found lat" /\ body.longitude = "found lng"
                  \/ /\ body.latitude = Normalize(Source).latitude
                     /\ body.longitude = Normalize(Source).longitude
                     /\ body.latitude # "" /\ body.longitude # ""
<1>1. call.row # "none" /\ call.body = Render(call.visit) /\ Ready(call.visit)
  BY DEF IInv, TypeOK, Fits, Carried
<1>2. Mapped = VisitPayload(call.fetched, Normalize(Source))
  BY <1>1, SentState
<1>3. /\ Mapped.reference = call.fetched.order.id
      /\ Mapped.address = FullLine(Normalize(Source))
      /\ Mapped.contact_name = ReceiverName(call.fetched)
      /\ Mapped.notes.sin_tel <=> (Phone(call.fetched) = <<>>)
      /\ Mapped.latitude = Normalize(Source).latitude
      /\ Mapped.longitude = Normalize(Source).longitude
      /\ DOMAIN Mapped = {"kind", "reference", "address", "latitude", "longitude",
                          "contact_name", "contact_phone", "notes", "window_start"}
  BY <1>2 DEF VisitPayload
<1>4. /\ Render(call.visit).reference = call.visit.reference
      /\ Render(call.visit).address = call.visit.address
      /\ Render(call.visit).contact_name = call.visit.contact_name
      /\ Render(call.visit).notes = call.visit.notes
      /\ call.visit.latitude # "" /\ call.visit.longitude # "" =>
            /\ Render(call.visit).latitude = call.visit.latitude
            /\ Render(call.visit).longitude = call.visit.longitude
  BY DEF Render
<1>5. CASE call.visit = Found(Mapped)
  <2>1. /\ call.visit.reference = Mapped.reference /\ call.visit.address = Mapped.address
        /\ call.visit.contact_name = Mapped.contact_name /\ call.visit.notes = Mapped.notes
        /\ call.visit.latitude = "found lat" /\ call.visit.longitude = "found lng"
    BY <1>3, <1>5 DEF Found
  <2> QED BY <1>1, <1>3, <1>4, <2>1
<1>6. CASE call.visit = Mapped /\ ~NeedsLocating(Mapped)
  <2>1. Mapped.latitude # "" /\ Mapped.longitude # ""
    BY <1>6 DEF NeedsLocating
  <2> QED BY <1>1, <1>3, <1>4, <1>6, <2>1
<1> QED BY <1>1, <1>5, <1>6 DEF Ready

LEMMA DeliverableIsInvariant == IInv => SentIsDeliverable
<1> SUFFICES ASSUME IInv, call.body # Nothing
             PROVE  LET body == call.body
                    IN  /\ body.address[1][2] # ""
                        /\ body.address[2] = <<"", Source.street_number.word>>
                        /\ <<body.latitude, body.longitude>> \in
                              {<<"found lat", "found lng">>,
                               <<Source.latitude.word, Source.longitude.word>>}
                        /\ "" \notin {body.latitude, body.longitude}
                        /\ body.contact_name # <<>>
                        /\ body.notes.sin_tel <=>
                              NoPhone(Source.receiver_phone) /\ NoPhone(call.fetched.order.phone)
  BY DEF SentIsDeliverable
<1> DEFINE n == Normalize(Source)
<1>1. /\ call.row # "none"
      /\ call.body.address = FullLine(n)
      /\ call.body.contact_name = ReceiverName(call.fetched)
      /\ call.body.notes.sin_tel <=> (Phone(call.fetched) = <<>>)
      /\ \/ call.body.latitude = "found lat" /\ call.body.longitude = "found lng"
         \/ /\ call.body.latitude = n.latitude /\ call.body.longitude = n.longitude
            /\ call.body.latitude # "" /\ call.body.longitude # ""
  BY SentBody
<1>2. /\ IsFetched(call.fetched) /\ Source.given
      /\ n.street_name # "" /\ n.street_number # "" /\ ReceiverName(call.fetched) # <<>>
  BY <1>1, SentState
<1>3. IsAddress(Source)
  BY <1>2, SourceIsAddress DEF Source
<1>4. /\ n.street_number = Source.street_number.word
      /\ n.latitude = Coordinate(Source.latitude) /\ n.longitude = Coordinate(Source.longitude)
  BY <1>2, <1>3, Normalized
<1>5. /\ Coordinate(Source.latitude) # "" => Coordinate(Source.latitude) = Source.latitude.word
      /\ Coordinate(Source.longitude) # "" => Coordinate(Source.longitude) = Source.longitude.word
  BY <1>2, <1>3, Cleaned DEF IsAddress, TextFields
<1>6. (Phone(call.fetched) = <<>>) <=>
         (NoPhone(Source.receiver_phone) /\ NoPhone(call.fetched.order.phone))
  BY <1>2, Phoneless DEF Source
<1> HIDE DEF n
<1>7. call.body.address[1] = <<"", n.street_name>> /\ call.body.address[2] = <<"", n.street_number>>
  BY <1>1, <1>2, FullLineBegins
<1>8. /\ <<call.body.latitude, call.body.longitude>> \in
            {<<"found lat", "found lng">>, <<Source.latitude.word, Source.longitude.word>>}
      /\ "" \notin {call.body.latitude, call.body.longitude}
  BY <1>1, <1>4, <1>5
<1>9. call.body.address[1][2] # ""
  <2>1. <<"", n.street_name>>[2] = n.street_name
    OBVIOUS
  <2> QED BY <1>2, <1>7, <2>1
<1>10. call.body.address[2] = <<"", Source.street_number.word>>
  BY <1>4, <1>7
<1>11. /\ call.body.contact_name # <<>>
       /\ call.body.notes.sin_tel <=>
             NoPhone(Source.receiver_phone) /\ NoPhone(call.fetched.order.phone)
  BY <1>1, <1>2, <1>6
<1> QED BY <1>8, <1>9, <1>10, <1>11

LEMMA AskedIsInvariant == IInv => AskedIsDelivered
<1> SUFFICES ASSUME IInv, call.body # Nothing
             PROVE  AskedIsDelivered
  BY DEF AskedIsDelivered
<1> DEFINE n == Normalize(Source)
           o == shop.orders[call.body.reference]
           a(s) == IF s.address.given THEN s.address ELSE o.address
           To(s) == s.flex /\ call.body.address[1][2]
                               \in {a(s).street_name.word, a(s).address_line.word}
<1>1. /\ call.row # "none" /\ call.body.address = FullLine(n)
      /\ call.body.reference = call.fetched.order.id
  BY SentBody
<1>2. /\ IsFetched(call.fetched) /\ Resolved /\ Source.given
      /\ n.street_name # "" /\ n.street_number # ""
  BY <1>1, SentState
<1>3. n.street_name \in {Source.street_name.word, Source.address_line.word}
  BY <1>2, SourceIsAddress, Normalized DEF Source
<1> HIDE DEF n
<1>4. call.body.address[1][2] = n.street_name
  <2>1. call.body.address[1] = <<"", n.street_name>>
    BY <1>1, <1>2, FullLineBegins
  <2>2. <<"", n.street_name>>[2] = n.street_name
    OBVIOUS
  <2> QED BY <2>1, <2>2
<1>5. ASSUME call.fetched.shipment.flex, o = call.fetched.order
      PROVE  To(call.fetched.shipment)
  BY <1>3, <1>4, <1>5 DEF Source, AddressSource
<1>6. /\ TypeOK /\ \A id \in DOMAIN shop.orders : shop.orders[id].id = id
      /\ DOMAIN shop.shipments \subseteq Ids
  BY ShopsAssumption DEF IInv, TypeOK, IsShop, IsOrder
<1> HIDE DEF To
<1>7. CASE /\ call.kind = "order" /\ call.id \in DOMAIN shop.orders
           /\ call.fetched.order = Order
           /\ call.fetched.shipment = shop.shipments[Order.shipment]
           /\ call.fetched.shipment.flex
  <2>1. o = Order /\ o.id = call.id
    BY <1>1, <1>6, <1>7 DEF Order
  <2>2. To(shop.shipments[o.shipment])
    BY <1>5, <1>7, <2>1
  <2> QED BY <1>7, <2>1, <2>2 DEF AskedIsDelivered, To
<1>8. CASE /\ call.kind = "shipment" /\ call.id \in DOMAIN shop.shipments
           /\ OrderId(Shipment) # NoId
           /\ call.fetched.order = shop.orders[OrderId(Shipment)]
           /\ call.fetched.shipment = Shipment
           /\ call.fetched.shipment.flex
  <2>1. /\ OrderId(Shipment) \in DOMAIN shop.orders
        /\ OrderId(Shipment) \in
              {Shipment.order_id} \cup {Shipment.orders[i] : i \in DOMAIN Shipment.orders}
    BY <1>6, <1>8, OrderOfShipment
  <2>2. o = call.fetched.order /\ o.id = OrderId(Shipment)
    BY <1>1, <1>6, <1>8, <2>1
  <2>3. To(Shipment)
    BY <1>5, <1>8, <2>2
  <2>4. call.label # NoLabel => call.id = call.label.shipment \/ Misread
    BY <1>6, <1>8, LabelRead
  <2> QED BY <1>8, <2>1, <2>2, <2>3, <2>4 DEF AskedIsDelivered, To, Shipment
<1> QED BY <1>2, <1>7, <1>8 DEF Resolved

\* A visit that wants for a place lacks a coordinate in the data.
LEMMA CoordinateMissing ==
    ASSUME IInv, Resolved, Mapped.kind = "visit", NeedsLocating(Mapped)
    PROVE  {Source.latitude.form, Source.longitude.form} # {"plain"}
<1>1. IsFetched(call.fetched)
  BY ResolvedIsFetched DEF IInv
<1>2. /\ Mapped = VisitPayload(call.fetched, Normalize(Source))
      /\ Defects(call.fetched.order, call.fetched.shipment) = {}
  BY <1>1, MappedTo DEF Mapped, Source
<1>3. Source.given
  BY <1>1, <1>2, DefectsOf DEF Wants, Source
<1>4. IsAddress(Source)
  BY <1>1, SourceIsAddress DEF Source
<1>5. /\ Mapped.latitude = Coordinate(Source.latitude)
      /\ Mapped.longitude = Coordinate(Source.longitude)
  BY <1>2, <1>3, <1>4, Normalized DEF VisitPayload
<1>6. /\ (Coordinate(Source.latitude) = "") <=> (Source.latitude.form # "plain")
      /\ (Coordinate(Source.longitude) = "") <=> (Source.longitude.form # "plain")
  BY <1>3, <1>4, Cleaned DEF IsAddress, TextFields
<1> QED BY <1>5, <1>6 DEF NeedsLocating

LEMMA ReviewsAreInvariant == IInv => ReviewFits
<1> SUFFICES ASSUME IInv PROVE ReviewFits
  OBVIOUS
<1>1. ASSUME call.reason \in LocateReasons
      PROVE  {Source.latitude.form, Source.longitude.form} # {"plain"}
  BY <1>1, CoordinateMissing DEF IInv, Fits, Carried, HasVisit, Looks
<1>2. call.row # "none" => Defects(call.fetched.order, call.fetched.shipment) = {}
  BY SentState
<1>3. /\ call.reason \in DataReasons =>
            call.reason \in Defects(call.fetched.order, call.fetched.shipment)
      /\ call.reason = "no_shipment" => Order.shipment = NoId
  BY DEF IInv, Fits, Carried
<1> QED BY <1>1, <1>2, <1>3 DEF ReviewFits

LEMMA EndsAreInvariant == IInv => UnrecordedHasCause
<1> SUFFICES ASSUME IInv, call.pc = "done", call.row = "none", call.reason = "none"
             PROVE  UnrecordedHasCause
  BY DEF UnrecordedHasCause
<1> DEFINE Aside == {"given", "street_number", "latitude", "longitude",
                     "receiver_name", "receiver_phone"}
<1>1. call.result \in {"ignored", "skipped", "no_id", "not_found", "raised", "lost"}
  BY DEF IInv, TypeOK, Results, Fits, Recorded
<1>2. Excused(call.result, call.fault) /\ call.fault # "simpliroute"
  BY DEF IInv, Fits, Recorded
<1>3. ASSUME call.result = "raised", call.fault = "none"
      PROVE  \E f \in DOMAIN Source \ Aside : Source[f].form = "alien"
  <2>1. Resolved /\ Unreadable(Source)
    BY <1>2, <1>3 DEF Excused
  <2>2. IsAddress(Source)
    BY <2>1, ResolvedIsFetched, SourceIsAddress DEF IInv, Source
  <2>3. FieldsRead(Source) \subseteq DOMAIN Source \ Aside
    BY <2>2 DEF FieldsRead, IsAddress, TextFields
  <2> QED BY <2>1, <2>3 DEF Unreadable
<1>4. ASSUME call.fault = "geocoder"
      PROVE  {Source.latitude.form, Source.longitude.form} # {"plain"}
  BY <1>4, CoordinateMissing DEF IInv, Fits, Carried, HasVisit, Looks
<1>0. call.body = Nothing
  BY DEF IInv, TypeOK
<1>5. CASE call.result = "raised"
  <2>1. \/ call.fault \in {"mercado_libre", "geocoder", "database"}
        \/ call.fault = "settings" /\ call.via = "run" /\ ~seller
        \/ call.fault = "unknown_id" /\ (call.label # NoLabel => Misread)
        \/ call.fault = "none"
    BY <1>2, <1>5 DEF Excused
  <2> QED BY <1>0, <1>3, <1>4, <1>5, <2>1 DEF UnrecordedHasCause
<1>6. CASE call.result # "raised"
  BY <1>0, <1>1, <1>2, <1>6 DEF Excused, UnrecordedHasCause
<1> QED BY <1>5, <1>6

-----------------------------------------------------------------------------
(* The theorems *)

\* The state has its type, a call that has flagged its order only alerts and
\* ends, and nothing is posted for an order without a row, whatever Mercado Libre
\* has and whatever is asked for.
THEOREM TypeCorrect == Spec => []TypeOK
<1>1. IInv => TypeOK
  BY DEF IInv
<1> QED BY <1>1, Invariance, PTL

\* No path through map_order_to_visit, _resolve_coordinates and
\* _render_visit_payload posts a visit without a street, a number, both
\* coordinates or a name, nor one that says wrongly whether a telephone is known.
THEOREM SentCanBeDelivered == Spec => []SentIsDeliverable
BY Invariance, DeliverableIsInvariant, PTL

\* The order that is posted is the one the notification, the listing, the scan or
\* the label named, at its own shipment's address, and that shipment is Flex.
THEOREM AskedWasDelivered == Spec => []AskedIsDelivered
BY Invariance, AskedIsInvariant, PTL

\* map_order_to_visit flags an order for a defect its data have and passes one
\* only if they have none; the geocoder is asked only for want of a coordinate.
THEOREM ReviewsFit == Spec => []ReviewFits
BY Invariance, ReviewsAreInvariant, PTL

\* A call whose order has neither a row nor a review when it ends stopped before
\* it was judged and before SimpliRoute was asked: as another's or nobody's
\* notification, without a number, without a Flex shipment, by an exception whose
\* cause is in what it was given or in a service or database it asked, or with
\* the process.
THEOREM UnrecordedHaveCauses == Spec => []UnrecordedHasCause
BY Invariance, EndsAreInvariant, PTL
-----------------------------------------------------------------------------
(* The length of a call *)

\* How far a call has come.
Stage(p) ==
    CASE p = "idle"                  -> 0
      [] p = "accepted"              -> 1
      [] p = "fetch"                 -> 2
      [] p \in {"shipment", "order"} -> 3
      [] p = "map"                   -> 4
      [] p = "locate"                -> 5
      [] p = "claim"                 -> 6
      [] p = "find"                  -> 7
      [] p = "send"                  -> 8
      [] p = "answer"                -> 9
      [] p = "flag"                  -> 10
      [] p = "alert"                 -> 11
      [] p = "done"                  -> 12

\* The table, in the form the steps use it.
LEMMA StageAt ==
    ASSUME NEW p
    PROVE  /\ p = "idle"     => Stage(p) = 0
           /\ p = "accepted" => Stage(p) = 1
           /\ p = "fetch"    => Stage(p) = 2
           /\ p \in {"shipment", "order"} => Stage(p) = 3
           /\ p = "map"      => Stage(p) = 4
           /\ p = "locate"   => Stage(p) = 5
           /\ p = "claim"    => Stage(p) = 6
           /\ p = "find"     => Stage(p) = 7
           /\ p = "send"     => Stage(p) = 8
           /\ p = "answer"   => Stage(p) = 9
           /\ p = "flag"     => Stage(p) = 10
           /\ p = "alert"    => Stage(p) = 11
           /\ p = "done"     => Stage(p) = 12
BY DEF Stage

\* Where the steps of a call that is under way lead.
Leads ==
    \/ call'.pc = "done"
    \/ call'.pc = "alert" /\ call.pc \notin {"accepted", "alert"}
    \/ call.pc = "accepted" /\ call'.pc = "fetch"
    \/ call.pc = "fetch" /\ call'.pc \in {"shipment", "order"}
    \/ call.pc \in {"shipment", "order"} /\ call'.pc = "map"
    \/ call.pc = "map" /\ call'.pc \in {"locate", "claim"}
    \/ call.pc = "locate" /\ call'.pc = "claim"
    \/ call.pc = "claim" /\ call'.pc \in {"find", "send"}
    \/ call.pc = "find" /\ call'.pc = "send"
    \/ call.pc = "send" /\ call'.pc = "answer"
    \/ call.pc = "answer" /\ call'.pc = "flag"

LEMMA WhereItLeads ==
    ASSUME DOMAIN call = Fields, call.pc \notin {"idle", "done"}, Next
    PROVE  Leads
<1>1. /\ \A p : Goto(p) => call'.pc = p
      /\ \A result : End(result) => call'.pc = "done"
      /\ \A reason : Flag(reason) => call'.pc = "alert"
      /\ \A fault : Raise(fault) => call'.pc = "done"
  BY Goes, Ends, Flags, Raises DEF Moves
<1> USE DEF Leads, At
<1>2. CASE StartTask \/ FetchOrder \/ FetchShipment
  BY <1>1, <1>2 DEF StartTask, FetchOrder, FetchShipment
<1>3. CASE FetchItsShipment \/ FetchItsOrder
  BY <1>1, <1>3, Bringing DEF FetchItsShipment, FetchItsOrder, Brings
<1>4. CASE MapVisit \/ Located
  BY <1>4, Carrying DEF MapVisit, Located, Carries
<1>5. CASE FetchUnknown \/ FetchFails \/ TokenRaises \/ MapRaises \/ LocateRaises
           \/ CacheRaises \/ SimpliRouteRaises \/ RecordRaises
  BY <1>1, <1>5 DEF FetchUnknown, FetchFails, TokenRaises, MapRaises, LocateRaises,
                    CacheRaises, SimpliRouteRaises, RecordRaises
<1>6. CASE MapReview \/ FlagRejected \/ \E reason \in LocateReasons : NotLocated(reason)
  BY <1>1, <1>6 DEF MapReview, FlagRejected, NotLocated
<1>7. CASE AlertSent \/ Crash \/ FindNone
  BY <1>1, <1>7 DEF AlertSent, Crash, FindNone
<1>8. CASE AlreadySent \/ Recovered \/ Completed
  BY <1>8, Writes DEF Moves
<1>9. CASE ClaimNew \/ \E status \in {"pending", "failed"} : ClaimRetry(status)
  <2>1. call.pc = "claim"
    BY <1>9 DEF ClaimNew, ClaimRetry
  <2>2. call'.pc \in {"find", "send"}
    BY <1>9, Writes DEF Moves
  <2> QED BY <2>1, <2>2
<1>10. CASE Post \/ Exhausted \/ Rejected
  <2>1. \/ call.pc = "send" /\ call'.pc = "answer"
        \/ call.pc = "answer" /\ call'.pc \in {"alert", "flag"}
    BY <1>10, Writes DEF Moves, Post, Exhausted, Rejected
  <2> QED BY <2>1
<1>11. ~At("idle") /\ ~At("done")
  OBVIOUS
<1> QED
  BY <1>2, <1>3, <1>4, <1>5, <1>6, <1>7, <1>8, <1>9, <1>10, <1>11
     DEF Next, NotifyIgnored, NotifySkipped, NotifyAccepted, Scan, RunUnconfigured, RunLists,
         Finished

\* From where each step starts.
LEMMA FromIdle ==
    ASSUME call.pc = "idle", Next
    PROVE  call'.pc \in {"accepted", "fetch", "done"}
<1>1. CASE \E kind, id : NotifyIgnored(kind, id) \/ NotifySkipped(kind, id)
                         \/ NotifyAccepted(kind, id)
  BY <1>1, Opening DEF Opens
<1>2. CASE \E id \in Ids \cup {NoId}, label \in Labels : Scan(id, label)
  BY <1>2, Scanning DEF Opens
<1>3. CASE RunUnconfigured \/ \E o : RunLists(o)
  BY <1>3, Opening DEF Opens
<1> QED
  BY <1>1, <1>2, <1>3
     DEF Next, StartTask, FetchOrder, FetchItsShipment, FetchShipment, FetchItsOrder,
         FetchUnknown, FetchFails, TokenRaises, MapRaises, MapReview, MapVisit, Located,
         NotLocated, LocateRaises, CacheRaises, AlreadySent, ClaimNew, ClaimRetry, Recovered,
         FindNone, Post, Completed, Exhausted, Rejected, FlagRejected, AlertSent,
         SimpliRouteRaises, RecordRaises, Crash, Finished, At

LEMMA FromDone == ASSUME call.pc = "done", Next PROVE UNCHANGED vars
BY DEF Next, NotifyIgnored, NotifySkipped, NotifyAccepted, Scan, RunUnconfigured, RunLists,
       StartTask, FetchOrder, FetchItsShipment, FetchShipment, FetchItsOrder,
       FetchUnknown, FetchFails, TokenRaises, MapRaises, MapReview, MapVisit, Located,
       NotLocated, LocateRaises, CacheRaises, AlreadySent, ClaimNew, ClaimRetry, Recovered,
       FindNone, Post, Completed, Exhausted, Rejected, FlagRejected, AlertSent,
       SimpliRouteRaises, RecordRaises, Crash, Finished, At

\* A call only ever goes forward, to its end in twelve steps at most: no answer of
\* Mercado Libre, the geocoder or SimpliRoute sends it back to a step it has made,
\* and nothing follows its end.  No liveness property is stated of Intake for that.
THEOREM CallsGoForward ==
    Spec => [](Stage(call.pc) \in 0..12) /\ [][Stage(call'.pc) > Stage(call.pc)]_vars
<1>1. IInv => Stage(call.pc) \in 0..12
  BY StageAt DEF IInv, TypeOK, Pcs
<1>2. IInv /\ IInv' /\ [Next]_vars => [Stage(call'.pc) > Stage(call.pc)]_vars
  <2> SUFFICES ASSUME IInv, IInv', Next, vars' # vars
               PROVE  Stage(call'.pc) > Stage(call.pc)
    OBVIOUS
  <2>1. call.pc \in Pcs /\ call'.pc \in Pcs
    BY DEF IInv, TypeOK
  <2>2. CASE call.pc = "idle"
    <3>1. call'.pc \in {"accepted", "fetch", "done"}
      BY <2>2, FromIdle
    <3> QED BY <2>2, <3>1, StageAt
  <2>3. CASE call.pc \notin {"idle", "done"}
    <3> DEFINE m == Stage(call.pc)
               n == Stage(call'.pc)
    <3>1. Leads /\ (call.pc = "accepted" => m = 1)
      BY <2>3, WhereItLeads, CallFields, StageAt
    <3>2. \/ m \in 1..11 /\ n = 12
          \/ m \in 2..10 /\ n = 11
          \/ m = 1 /\ n = 2
          \/ m = 2 /\ n = 3
          \/ m = 3 /\ n = 4
          \/ m = 4 /\ n \in {5, 6}
          \/ m = 5 /\ n = 6
          \/ m = 6 /\ n \in {7, 8}
          \/ m = 7 /\ n = 8
          \/ m = 8 /\ n = 9
          \/ m = 9 /\ n = 10
      BY <2>1, <2>3, <3>1, StageAt DEF Pcs, Leads
    <3> HIDE DEF m, n
    <3>3. n > m
      BY <3>2
    <3> QED BY <3>3 DEF m, n
  <2>4. CASE call.pc = "done"
    BY <2>4, FromDone
  <2> QED BY <2>2, <2>3, <2>4
<1> QED BY <1>1, <1>2, Invariance, PTL DEF Spec
=============================================================================
