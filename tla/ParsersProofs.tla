---------------------------- MODULE ParsersProofs ----------------------------
(* Proofs about Parsers, for any names, nets, places and files of any length. *)
EXTENDS Parsers, GeometryProofs

-----------------------------------------------------------------------------
(* Sequences and the lists of a net *)

LEMMA Longer ==
    ASSUME NEW S, NEW s \in Seq(S), NEW x \in S
    PROVE  /\ Append(s, x) \in Seq(S)
           /\ Len(Append(s, x)) = Len(s) + 1
           /\ DOMAIN s = 1 .. Len(s)
           /\ DOMAIN Append(s, x) = 1 .. (Len(s) + 1)
           /\ DOMAIN Append(s, x) = DOMAIN s \cup {Len(s) + 1}
           /\ \A i \in DOMAIN s : Append(s, x)[i] = s[i]
           /\ Append(s, x)[Len(s) + 1] = x
           /\ Len(s) \in Nat
OBVIOUS

LEMMA NothingListed ==
    ASSUME NEW S, NEW s \in Seq(S), s = <<>>
    PROVE  {s[i] : i \in DOMAIN s} = {}
<1>1. DOMAIN s = 1 .. Len(s) /\ Len(s) = 0
    OBVIOUS
<1>2. DOMAIN s = {}
    BY <1>1
<1> QED BY <1>2

LEMMA ListedMore ==
    ASSUME NEW S, NEW s \in Seq(S), NEW x \in S
    PROVE  {Append(s, x)[i] : i \in DOMAIN Append(s, x)} = {s[i] : i \in DOMAIN s} \cup {x}
BY Longer

LEMMA IdsOfMore ==
    ASSUME NEW S, NEW s \in Seq(S), NEW x \in S, NEW key
    PROVE  Ids(Append(s, x), key) = Ids(s, key) \cup (IF x.key = key THEN {x.id} ELSE {})
<1> DEFINE a == Append(s, x)
<1>1. \A i \in DOMAIN s : i \in DOMAIN a /\ a[i] = s[i]
    BY Longer
<1>2. Len(s) + 1 \in DOMAIN a /\ a[Len(s) + 1] = x
    BY Longer
<1>3. \A i \in DOMAIN a : i \in DOMAIN s \/ i = Len(s) + 1
    BY Longer
<1> HIDE DEF a
<1>4. Ids(a, key) \subseteq Ids(s, key) \cup (IF x.key = key THEN {x.id} ELSE {})
    BY <1>1, <1>2, <1>3 DEF Ids
<1>5. Ids(s, key) \subseteq Ids(a, key)
    BY <1>1 DEF Ids
<1>6. x.key = key => x.id \in Ids(a, key)
    BY <1>2 DEF Ids
<1> QED
    BY <1>4, <1>5, <1>6 DEF a

NoNet(id) == [id |-> id, pins |-> <<>>, nails |-> <<>>]
NetOf(m, key, id) == IF key \in DOMAIN m THEN m[key] ELSE NoNet(id)

LEMMA NoNetType ==
    ASSUME NEW m, m \in [DOMAIN m -> Net], NEW key, NEW id \in NetId
    PROVE  NetOf(m, key, id) \in Net
BY DEF NetOf, NoNet, Net

ListsPin(m, l, key, id, item) ==
    /\ l \in [DOMAIN m \cup {key} -> Net]
    /\ \A k \in DOMAIN m \ {key} : l[k] = m[k]
    /\ l[key].pins = Append(NetOf(m, key, id).pins, item)
    /\ l[key].nails = NetOf(m, key, id).nails
    /\ l[key].id = NetOf(m, key, id).id

LEMMA ListPin ==
    ASSUME NEW m, m \in [DOMAIN m -> Net],
           NEW key \in NetName, NEW id \in NetId, NEW item \in PinId,
           NEW l, l = Listing(m, key, id, "pins", item)
    PROVE  ListsPin(m, l, key, id, item)
<1> DEFINE net == NetOf(m, key, id)
           new == [net EXCEPT !.pins = Append(@, item)]
<1>1. net \in Net
    BY NoNetType
<1>2. /\ new \in Net /\ new.pins = Append(net.pins, item)
      /\ new.nails = net.nails /\ new.id = net.id
    <2> HIDE DEF net
    <2>1. Append(net.pins, item) \in Seq(PinId)
        BY <1>1, Longer DEF Net
    <2> QED BY <1>1, <2>1 DEF Net
<1>3. Listing(m, key, id, "pins", item)
        = [k \in DOMAIN m \cup {key} |-> IF k = key THEN new ELSE m[k]]
    BY NetAssumption DEF Listing, NetOf, NoNet
<1> HIDE DEF new, net
<1> QED BY <1>2, <1>3 DEF net, ListsPin

ListsNail(m, l, key, id, item) ==
    /\ l \in [DOMAIN m \cup {key} -> Net]
    /\ \A k \in DOMAIN m \ {key} : l[k] = m[k]
    /\ l[key].pins = NetOf(m, key, id).pins
    /\ l[key].nails = Append(NetOf(m, key, id).nails, item)
    /\ l[key].id = NetOf(m, key, id).id

LEMMA ListNail ==
    ASSUME NEW m, m \in [DOMAIN m -> Net],
           NEW key \in NetName, NEW id \in NetId, NEW item \in NailId,
           NEW l, l = Listing(m, key, id, "nails", item)
    PROVE  ListsNail(m, l, key, id, item)
<1> DEFINE net == NetOf(m, key, id)
           new == [net EXCEPT !.nails = Append(@, item)]
<1>1. net \in Net
    BY NoNetType
<1>2. /\ new \in Net /\ new.nails = Append(net.nails, item)
      /\ new.pins = net.pins /\ new.id = net.id
    <2> HIDE DEF net
    <2>1. Append(net.nails, item) \in Seq(NailId)
        BY <1>1, Longer DEF Net
    <2> QED BY <1>1, <2>1 DEF Net
<1>3. Listing(m, key, id, "nails", item)
        = [k \in DOMAIN m \cup {key} |-> IF k = key THEN new ELSE m[k]]
    BY NetAssumption DEF Listing, NetOf, NoNet
<1> HIDE DEF new, net
<1> QED BY <1>2, <1>3 DEF net, ListsNail

-----------------------------------------------------------------------------
(* The invariant of types, without boxes and dimensions *)

Boxes(B) == [id : Name, bounds : B]

AreParts(s) == \E B : s \in Seq(Boxes(B))
NetsTyped ==
    /\ nets \in [DOMAIN nets -> Net]
    /\ DOMAIN nets \subseteq NetName /\ IsFiniteSet(DOMAIN nets)
ListsTyped == pins \in Seq(PinRecord) /\ nails \in Seq(NailRecord) /\ NetsTyped
RowsTyped ==
    /\ rows \in [parts : Seq(RawPart), pins : Seq(RawPin), nails : Seq(RawNail)]
    /\ taken \in Nat

Typed ==
    /\ format \in Format /\ lines \in Nat
    /\ phase \in {"lines", "assembly", "done", "failed"}
    /\ phase = "assembly" => format = "brd_landrex"
    /\ AreParts(parts) /\ ListsTyped /\ RowsTyped

-----------------------------------------------------------------------------
(* What a step does to the connections: nothing, or one more pin, or one more  *)
(* nail, listed by its net.                                                    *)

\* The id that a pin or nail of a Landrex file records is the one its net has now.
Files(key, net) ==
    format = "brd_landrex" /\ key # "" => key \in DOMAIN nets' /\ net = nets'[key].id

\* The ids of a Landrex file.
Numbers(key) ==
    format = "brd_landrex" /\ key # "" =>
        \/ nets'[key].id = NetOf(nets, key, MadeUp).id
        \/ nets'[key].id \in {""} \X Int

\* The part that a pin is added to has its name; in text .bv files there may be none.
Lodged(part, of) ==
    IF format = "brd_landrex"
    THEN of \in DOMAIN rows.parts /\ part = rows.parts[of].id
    ELSE /\ of = 0 \/ (of \in DOMAIN parts' /\ parts'[of].id = part)
         /\ format \in {"brd2", "bv_mdb"} /\ part # "" => of # 0

\* The net of key changes, and that only by what is added to its lists.
Touches(key) ==
    /\ key \in NetName \cup {""}
    /\ key = "" => nets' = nets
    /\ key # "" =>
        /\ nets' \in [DOMAIN nets \cup {key} -> Net]
        /\ \A k \in DOMAIN nets \ {key} : nets'[k] = nets[k]

MorePins(x) ==
    /\ x \in PinRecord /\ pins' = Append(pins, x) /\ nails' = nails
    /\ format = "brd_landrex" => x.id[2] = Len(pins)
    /\ Lodged(x.part, x.of)
    /\ Touches(x.key) /\ Files(x.key, x.net) /\ Numbers(x.key)
    /\ x.key # "" =>
        /\ nets'[x.key].pins = Append(NetOf(nets, x.key, "").pins, x.id)
        /\ nets'[x.key].nails = NetOf(nets, x.key, "").nails

MoreNails(x) ==
    /\ x \in NailRecord /\ nails' = Append(nails, x) /\ pins' = pins
    /\ Touches(x.key) /\ Files(x.key, x.net) /\ Numbers(x.key)
    /\ x.key # "" =>
        /\ nets'[x.key].pins = NetOf(nets, x.key, "").pins
        /\ nets'[x.key].nails = Append(NetOf(nets, x.key, "").nails, x.id)

Connects ==
    \/ UNCHANGED <<pins, nails, nets>>
    \/ \E x \in PinRecord : MorePins(x)
    \/ \E x \in NailRecord : MoreNails(x)

LEMMA NetOfLists ==
    ASSUME NEW m, NEW key, NEW id
    PROVE  /\ NetOf(m, key, id).pins = NetOf(m, key, "").pins
           /\ NetOf(m, key, id).nails = NetOf(m, key, "").nails
BY DEF NetOf, NoNet

\* Spellings are translated to keys of net_map.
LEMMA Keys ==
    ASSUME NEW n \in NetName
    PROVE  /\ Brd2Net(n) \in NetName \cup {""}
           /\ BvNet(n) \in NetName \cup {""}
           /\ LandrexNet(n) \in NetName \cup {""}
BY NetAssumption DEF Brd2Net, BvNet, LandrexNet

LEMMA AddPinConnects ==
    ASSUME Typed, format # "brd_landrex",
           NEW part \in Name \cup {""}, NEW name \in PinName, NEW key \in NetName \cup {""},
           NEW p \in Place, NEW of \in Nat, Lodged(part, of),
           AddPin(<<part, name>>, part, key, p, of), nails' = nails
    PROVE  Connects
<1> DEFINE x == [id |-> <<part, name>>, part |-> part, key |-> key, net |-> key,
                 at |-> p, of |-> of]
<1>1. x.id \in PinId
    BY DEF PinId
<1>2. x \in PinRecord
    BY <1>1 DEF PinRecord, NetId
<1>3. Touches(key) /\ (key # "" =>
        /\ nets'[key].pins = Append(NetOf(nets, key, "").pins, x.id)
        /\ nets'[key].nails = NetOf(nets, key, "").nails
        /\ nets'[key].id = NetOf(nets, key, key).id)
    <2>1. CASE key = ""
        BY <2>1 DEF AddPin, Listing, Touches
    <2>2. CASE key # ""
        <3>1. key \in NetName /\ key \in NetId
            BY <2>2 DEF NetId
        <3>2. nets' = Listing(nets, key, key, "pins", x.id)
            BY DEF AddPin
        <3> HIDE DEF x
        <3>3. nets \in [DOMAIN nets -> Net] /\ DOMAIN nets \in SUBSET NetName
            BY DEF Typed, ListsTyped, NetsTyped
        <3>4. ListsPin(nets, nets', key, key, x.id)
            BY <1>1, <3>1, <3>2, <3>3, ListPin
        <3> QED BY <2>2, <3>1, <3>4, NetOfLists DEF Touches, ListsPin
    <2> QED BY <2>1, <2>2
<1>4. pins' = Append(pins, x)
    BY DEF AddPin
<1>5. x.key = key /\ x.net = key /\ x.part = part /\ x.of = of
    OBVIOUS
<1> HIDE DEF x
<1>6. MorePins(x)
    BY <1>2, <1>3, <1>4, <1>5 DEF MorePins, Files, Numbers
<1> QED BY <1>2, <1>6 DEF Connects

LEMMA AddNailConnects ==
    ASSUME Typed, format # "brd_landrex",
           NEW id \in NailId, NEW key \in NetName \cup {""},
           AddNail(id, key), pins' = pins
    PROVE  Connects
<1> DEFINE x == [id |-> id, key |-> key, net |-> key]
<1>2. x \in NailRecord
    BY DEF NailRecord, NetId
<1>3. Touches(key) /\ (key # "" =>
        /\ nets'[key].pins = NetOf(nets, key, "").pins
        /\ nets'[key].nails = Append(NetOf(nets, key, "").nails, id)
        /\ nets'[key].id = NetOf(nets, key, key).id)
    <2>1. CASE key = ""
        BY <2>1 DEF AddNail, Listing, Touches
    <2>2. CASE key # ""
        <3>1. key \in NetName /\ key \in NetId
            BY <2>2 DEF NetId
        <3>2. nets' = Listing(nets, key, key, "nails", id)
            BY DEF AddNail
        <3>3. nets \in [DOMAIN nets -> Net] /\ DOMAIN nets \in SUBSET NetName
            BY DEF Typed, ListsTyped, NetsTyped
        <3>4. ListsNail(nets, nets', key, key, id)
            BY <3>1, <3>2, <3>3, ListNail
        <3> QED BY <2>2, <3>1, <3>4, NetOfLists DEF Touches, ListsNail
    <2> QED BY <2>1, <2>2
<1>4. nails' = Append(nails, x)
    BY DEF AddNail
<1>5. x.id = id /\ x.key = key /\ x.net = key
    OBVIOUS
<1> HIDE DEF x
<1>6. MoreNails(x)
    BY <1>2, <1>3, <1>4, <1>5 DEF MoreNails, Files, Numbers
<1> QED BY <1>2, <1>6 DEF Connects

\* A net of a Landrex file has its number, or the id it had.
Renames(l, m, key) ==
    /\ m \in [DOMAIN nets \cup {key} -> Net]
    /\ \A k \in DOMAIN nets \ {key} : m[k] = l[k]
    /\ m[key].pins = l[key].pins /\ m[key].nails = l[key].nails
    /\ m[key].id = l[key].id \/ m[key].id \in {""} \X Int

LEMMA NumberedIs ==
    ASSUME Typed, NEW key \in NetName, NEW number \in Int, NEW f, NEW item,
           NEW l, l = Listing(nets, key, MadeUp, f, item),
           l \in [DOMAIN nets \cup {key} -> Net]
    PROVE  Renames(l, Numbered(key, number, f, item), key)
<1>1. key # ""
    BY NetAssumption
<1>2. CASE number > 0
    <2>1. Numbered(key, number, f, item) = [l EXCEPT ![key].id = <<"", number>>]
        BY <1>1, <1>2 DEF Numbered
    <2>2. <<"", number>> \in NetId /\ <<"", number>> \in {""} \X Int
        BY DEF NetId
    <2>3. l[key] \in Net
        OBVIOUS
    <2>4. [l[key] EXCEPT !.id = <<"", number>>] \in Net
        BY <2>2, <2>3 DEF Net
    <2>5. /\ [l[key] EXCEPT !.id = <<"", number>>].pins = l[key].pins
          /\ [l[key] EXCEPT !.id = <<"", number>>].nails = l[key].nails
          /\ [l[key] EXCEPT !.id = <<"", number>>].id = <<"", number>>
        BY <2>3 DEF Net
    <2>6. [l EXCEPT ![key].id = <<"", number>>]
            = [l EXCEPT ![key] = [l[key] EXCEPT !.id = <<"", number>>]]
        OBVIOUS
    <2>7. DOMAIN l = DOMAIN nets \cup {key}
        OBVIOUS
    <2> DEFINE new == [l[key] EXCEPT !.id = <<"", number>>]
    <2> HIDE DEF new
    <2>8. /\ [l EXCEPT ![key] = new] \in [DOMAIN nets \cup {key} -> Net]
          /\ \A k \in DOMAIN nets \ {key} : [l EXCEPT ![key] = new][k] = l[k]
          /\ [l EXCEPT ![key] = new][key] = new
        BY <2>4, <2>7 DEF new
    <2> QED BY <2>1, <2>2, <2>5, <2>6, <2>8 DEF new, Renames
<1>3. CASE ~(number > 0)
    BY <1>3 DEF Numbered, Renames
<1> QED BY <1>2, <1>3

LEMMA MadeUpType ==
    ASSUME Typed
    PROVE  MadeUp \in NetId /\ Cardinality(DOMAIN nets) \in Nat
<1>1. Cardinality(DOMAIN nets) \in Nat
    BY FS_CardinalityType DEF Typed, ListsTyped, NetsTyped
<1> QED BY <1>1 DEF MadeUp, NetId

\* The pin row that TakePin takes exists.
LEMMA RowExists ==
    ASSUME Typed, Current <= Len(rows.parts), ShareStart(Current) + taken <= ShareEnd(Current)
    PROVE  /\ Current \in DOMAIN rows.parts /\ rows.parts[Current] \in RawPart
           /\ ShareStart(Current) + taken \in DOMAIN rows.pins
           /\ rows.pins[ShareStart(Current) + taken] \in RawPin
           /\ Current \in Nat
<1>1. /\ rows.parts \in Seq(RawPart) /\ rows.pins \in Seq(RawPin) /\ taken \in Nat
    BY DEF Typed, RowsTyped
<1>2. Len(parts) \in Nat
    <2>1. PICK B : parts \in Seq(Boxes(B))
        BY DEF Typed, AreParts
    <2> QED BY <2>1
<1>3. Current \in Nat /\ Current >= 1
    BY <1>2 DEF Current
<1>4. \A k \in DOMAIN rows.parts : rows.parts[k] \in RawPart /\ rows.parts[k].end \in Nat
    <2>1. \A k \in DOMAIN rows.parts : rows.parts[k] \in RawPart
        BY <1>1
    <2> QED BY <2>1, LandrexAssumption DEF RawPart
<1>5. Current \in DOMAIN rows.parts
    BY <1>1, <1>3
<1>6. ShareStart(Current) \in Nat /\ ShareStart(Current) >= 1
    <2>1. CASE Current = 1
        BY <2>1 DEF ShareStart
    <2>2. CASE Current # 1
        <3>1. Current - 1 \in DOMAIN rows.parts
            BY <1>1, <1>3, <1>5, <2>2
        <3>2. rows.parts[Current - 1].end \in Nat
            BY <3>1, <1>4
        <3> QED BY <2>2, <3>2 DEF ShareStart
    <2> QED BY <2>1, <2>2
<1>7. ShareEnd(Current) \in Nat /\ ShareEnd(Current) <= Len(rows.pins)
    <2>1. rows.parts[Current].end \in Nat /\ Len(rows.pins) \in Nat
        BY <1>1, <1>4, <1>5
    <2> QED BY <2>1 DEF ShareEnd
<1>8. ShareStart(Current) + taken \in 1 .. Len(rows.pins)
    <2>1. Len(rows.pins) \in Nat
        BY <1>1
    <2> HIDE DEF Current
    <2> QED BY <1>1, <1>6, <1>7, <2>1
<1>9. ShareStart(Current) + taken \in DOMAIN rows.pins
    BY <1>1, <1>8
<1> QED BY <1>1, <1>3, <1>4, <1>5, <1>9

LEMMA TakePinConnects ==
    ASSUME Typed, format = "brd_landrex", TakePin
    PROVE  Connects
<1> DEFINE row == rows.pins[ShareStart(Current) + taken]
           part == rows.parts[Current].id
           id == PinIdOf(part)
           key == LandrexNet(row.net)
           x == [id |-> id, part |-> part, key |-> key,
                 net |-> IdOf(nets', key), at |-> row.at, of |-> Current]
<1>1. row \in RawPin /\ part \in Name /\ Current \in Nat
    BY RowExists DEF TakePin, RawPart
<1>2. /\ nets' = Numbered(key, row.number, "pins", id)
      /\ pins' = Append(pins, x) /\ nails' = nails
    BY DEF TakePin
<1>3. key \in NetName \cup {""} /\ row.at \in Place /\ row.number \in Int
    BY <1>1, Keys, LandrexAssumption DEF RawPin
<1>4. id \in PinId /\ id[2] = Len(pins)
    <2>1. Len(pins) \in Nat
        BY Longer DEF Typed, ListsTyped
    <2> QED BY <1>1, <2>1 DEF PinIdOf, PinId
<1>5. /\ x.id = id /\ x.key = key /\ x.net = IdOf(nets', key)
      /\ x.part = part /\ x.of = Current
    OBVIOUS
<1>6. x = [id |-> id, part |-> part, key |-> key,
           net |-> IdOf(nets', key), at |-> row.at, of |-> Current]
    OBVIOUS
<1> HIDE DEF row, part, id, key, x
<1>7. /\ Touches(key) /\ Numbers(key) /\ IdOf(nets', key) \in NetId \cup {""}
      /\ key # "" => /\ nets'[key].pins = Append(NetOf(nets, key, "").pins, id)
                     /\ nets'[key].nails = NetOf(nets, key, "").nails
    <2>1. CASE key = ""
        BY <1>2, <2>1 DEF Touches, Numbers, IdOf, Numbered, Listing
    <2>2. CASE key # ""
        <3> DEFINE l == Listing(nets, key, MadeUp, "pins", id)
        <3>1. key \in NetName /\ MadeUp \in NetId
            BY <1>3, <2>2, MadeUpType
        <3>2. nets \in [DOMAIN nets -> Net]
            BY DEF Typed, ListsTyped, NetsTyped
        <3>3. l = Listing(nets, key, MadeUp, "pins", id)
            OBVIOUS
        <3> HIDE DEF l
        <3>4. ListsPin(nets, l, key, MadeUp, id)
            BY <1>4, <3>1, <3>2, <3>3, ListPin
        <3>5. l \in [DOMAIN nets \cup {key} -> Net]
            BY <3>4 DEF ListsPin
        <3>6. Renames(l, nets', key)
            BY <1>2, <1>3, <3>1, <3>3, <3>5, NumberedIs
        <3>7. nets'[key].id \in NetId
            BY <3>6 DEF Net, Renames
        <3> QED BY <2>2, <3>1, <3>4, <3>6, <3>7, NetOfLists
                DEF Touches, Numbers, IdOf, ListsPin, Renames
    <2> QED BY <2>1, <2>2
<1>8. x \in PinRecord
    BY <1>1, <1>3, <1>4, <1>6, <1>7 DEF PinRecord
<1>9. Lodged(part, Current)
    BY RowExists DEF TakePin, Lodged, part
<1>10. MorePins(x)
    BY <1>2, <1>4, <1>5, <1>7, <1>8, <1>9 DEF MorePins, Files, IdOf, Touches
<1> QED BY <1>8, <1>10 DEF Connects

LEMMA TakeNailConnects ==
    ASSUME Typed, format = "brd_landrex", TakeNail
    PROVE  Connects
<1> DEFINE row == rows.nails[Len(nails) + 1]
           id == <<"nail", row.probe, Len(nails)>>
           key == LandrexNet(row.net)
           x == [id |-> id, key |-> key, net |-> IdOf(nets', key)]
<1>1. row \in RawNail /\ Len(nails) \in Nat
    BY DEF TakeNail, Typed, ListsTyped, RowsTyped
<1>2. /\ nets' = Numbered(key, -1, "nails", id)
      /\ nails' = Append(nails, x) /\ pins' = pins
    BY DEF TakeNail
<1>3. key \in NetName \cup {""} /\ row.probe \in Probe
    BY <1>1, Keys DEF RawNail
<1>4. id \in NailId
    BY <1>1, <1>3 DEF NailId
<1>5. x.id = id /\ x.key = key /\ x.net = IdOf(nets', key)
    OBVIOUS
<1>6. x = [id |-> id, key |-> key, net |-> IdOf(nets', key)]
    OBVIOUS
<1> HIDE DEF row, id, key, x
<1>7. /\ Touches(key) /\ Numbers(key) /\ IdOf(nets', key) \in NetId \cup {""}
      /\ key # "" => /\ nets'[key].pins = NetOf(nets, key, "").pins
                     /\ nets'[key].nails = Append(NetOf(nets, key, "").nails, id)
    <2>1. CASE key = ""
        BY <1>2, <2>1 DEF Touches, Numbers, IdOf, Numbered, Listing
    <2>2. CASE key # ""
        <3> DEFINE l == Listing(nets, key, MadeUp, "nails", id)
        <3>1. key \in NetName /\ MadeUp \in NetId
            BY <1>3, <2>2, MadeUpType
        <3>2. nets \in [DOMAIN nets -> Net]
            BY DEF Typed, ListsTyped, NetsTyped
        <3>3. l = Listing(nets, key, MadeUp, "nails", id)
            OBVIOUS
        <3> HIDE DEF l
        <3>4. ListsNail(nets, l, key, MadeUp, id)
            BY <1>4, <3>1, <3>2, <3>3, ListNail
        <3>5. l \in [DOMAIN nets \cup {key} -> Net]
            BY <3>4 DEF ListsNail
        <3>6. Renames(l, nets', key)
            <4> DEFINE number == -1
            <4>1. number \in Int
                OBVIOUS
            <4>2. nets' = Numbered(key, number, "nails", id)
                BY <1>2
            <4> HIDE DEF number
            <4> QED BY <3>1, <3>3, <3>5, <4>1, <4>2, NumberedIs
        <3>7. nets'[key].id \in NetId
            BY <3>6 DEF Net, Renames
        <3> QED BY ZenonT(60), <2>2, <3>1, <3>4, <3>6, <3>7, NetOfLists
                DEF Touches, Numbers, IdOf, ListsNail, Renames
    <2> QED BY <2>1, <2>2
<1>8. x \in NailRecord
    BY <1>4, <1>3, <1>6, <1>7 DEF NailRecord
<1>9. MoreNails(x)
    BY <1>2, <1>5, <1>7, <1>8 DEF MoreNails, Files, IdOf, Touches
<1> QED BY <1>8, <1>9 DEF Connects

-----------------------------------------------------------------------------
(* What a step does to the parts: they keep their ids, and their places        *)

KeepsIds(s, t) ==
    /\ AreParts(t) /\ DOMAIN s \subseteq DOMAIN t
    /\ \A i \in DOMAIN s : t[i].id = s[i].id

LEMMA PartLists ==
    ASSUME NEW s, AreParts(s)
    PROVE  /\ Len(s) \in Nat /\ DOMAIN s = 1 .. Len(s)
           /\ \A i \in DOMAIN s : s[i].id \in Name
<1>1. PICK B : s \in Seq(Boxes(B))
    BY DEF AreParts
<1>2. \A i \in DOMAIN s : s[i] \in Boxes(B)
    BY <1>1
<1>3. Len(s) \in Nat /\ DOMAIN s = 1 .. Len(s)
    BY <1>1
<1> QED BY <1>2, <1>3 DEF Boxes

LEMMA PartPlaces ==
    ASSUME NEW s, AreParts(s), NEW i \in DOMAIN s
    PROVE  i \in Nat /\ i # 0
<1>1. Len(s) \in Nat /\ DOMAIN s = 1 .. Len(s)
    BY PartLists
<1> DEFINE n == Len(s)
<1>2. n \in Nat /\ i \in 1 .. n
    BY <1>1
<1> HIDE DEF n
<1> QED BY <1>2

LEMMA BoxChanges ==
    ASSUME NEW s, AreParts(s), NEW i \in DOMAIN s, NEW b,
           NEW t, t = [s EXCEPT ![i].bounds = b]
    PROVE  KeepsIds(s, t) /\ Len(t) = Len(s)
<1>1. PICK B : s \in Seq(Boxes(B))
    BY DEF AreParts
<1>2. \A j \in DOMAIN s : s[j] \in Boxes(B)
    BY <1>1
<1>3. Len(s) \in Nat /\ DOMAIN s = 1 .. Len(s)
    BY <1>1
<1> DEFINE C == B \cup {b}
           new == [s[i] EXCEPT !.bounds = b]
<1>4. new \in Boxes(C) /\ new.id = s[i].id
    BY <1>2 DEF Boxes
<1>5. \A j \in DOMAIN s : s[j] \in Boxes(C)
    BY <1>2 DEF Boxes
<1>6. t = [s EXCEPT ![i] = new]
    OBVIOUS
<1> HIDE DEF C, new
<1>7. s \in Seq(Boxes(C))
    <2>1. s \in [1 .. Len(s) -> Boxes(C)]
        BY <1>1, <1>3, <1>5
    <2> QED BY <1>3, <2>1
<1>8. t \in Seq(Boxes(C)) /\ Len(t) = Len(s) /\ DOMAIN t = DOMAIN s
    BY <1>4, <1>6, <1>7
<1>9. \A j \in DOMAIN s : t[j].id = s[j].id
    BY <1>4, <1>6, <1>7
<1> QED BY <1>3, <1>8, <1>9 DEF KeepsIds, AreParts

Gains(s, t, id) ==
    /\ KeepsIds(s, t) /\ Len(t) = Len(s) + 1
    /\ Len(t) \in DOMAIN t /\ t[Len(t)].id = id

LEMMA PartComes ==
    ASSUME NEW s, AreParts(s), NEW id \in Name, NEW b,
           NEW t, t = Append(s, [id |-> id, bounds |-> b])
    PROVE  Gains(s, t, id)
<1>1. PICK B : s \in Seq(Boxes(B))
    BY DEF AreParts
<1> DEFINE C == B \cup {b}
           new == [id |-> id, bounds |-> b]
<1>2. new \in Boxes(C) /\ new.id = id
    BY DEF Boxes
<1>3. \A j \in DOMAIN s : s[j] \in Boxes(B)
    BY <1>1
<1>4. \A j \in DOMAIN s : s[j] \in Boxes(C)
    BY <1>3 DEF Boxes
<1>5. t = Append(s, new)
    OBVIOUS
<1> HIDE DEF C, new
<1>6. s \in Seq(Boxes(C))
    <2>1. Len(s) \in Nat /\ s \in [1 .. Len(s) -> Boxes(C)]
        BY <1>1, <1>4
    <2> QED BY <2>1
<1>7. /\ t \in Seq(Boxes(C)) /\ Len(t) = Len(s) + 1 /\ Len(s) \in Nat
      /\ DOMAIN t = DOMAIN s \cup {Len(s) + 1}
      /\ \A j \in DOMAIN s : t[j] = s[j]
      /\ t[Len(s) + 1] = new
    BY <1>2, <1>5, <1>6, Longer
<1> QED BY <1>2, <1>7 DEF Gains, KeepsIds, AreParts

LEMMA LastOfName ==
    ASSUME NEW id, AreParts(parts), PartsNamed(id) # {}
    PROVE  /\ Greatest(PartsNamed(id)) \in DOMAIN parts
           /\ parts[Greatest(PartsNamed(id))].id = id
<1>1. Len(parts) \in Nat /\ PartsNamed(id) \in SUBSET (1 .. Len(parts))
    BY PartLists DEF PartsNamed
<1>2. Greatest(PartsNamed(id)) \in PartsNamed(id)
    <2>1. PICK n \in Int : n = Len(parts)
        BY <1>1
    <2>2. PartsNamed(id) \in SUBSET Int /\ \A i \in PartsNamed(id) : i <= n
        BY <1>1, <2>1
    <2> QED BY <2>1, <2>2, GreatestIs
<1> QED BY <1>2 DEF PartsNamed

LEMMA PinParts ==
    ASSUME Typed, format = "brd2",
           NEW name \in PinName, NEW n \in NetName, NEW p \in Place, Pin(name, n, p)
    PROVE  /\ KeepsIds(parts, parts') /\ Len(parts) \in Nat
           /\ parts[Len(parts)].id \in Name
           /\ Lodged(parts[Len(parts)].id, Len(parts))
<1>1. AreParts(parts)
    BY DEF Typed
<1>2. Len(parts) \in DOMAIN parts /\ Len(parts) \in Nat /\ Len(parts) # 0
    <2>1. parts # <<>>
        BY DEF Pin
    <2>2. PICK B : parts \in Seq(Boxes(B))
        BY <1>1 DEF AreParts
    <2> QED BY <2>1, <2>2
<1>3. parts[Len(parts)].id \in Name
    BY <1>1, <1>2, PartLists
<1> DEFINE b == Brd2Expand(parts[Len(parts)].bounds, p)
<1>4. parts' = [parts EXCEPT ![Len(parts)].bounds = b]
    BY DEF Pin
<1> HIDE DEF b
<1>5. KeepsIds(parts, parts')
    BY <1>1, <1>2, <1>4, BoxChanges
<1>6. Lodged(parts[Len(parts)].id, Len(parts))
    BY <1>2, <1>5 DEF Lodged, KeepsIds
<1> QED BY <1>2, <1>3, <1>5, <1>6

LEMMA KeepsItself ==
    ASSUME NEW s, AreParts(s)
    PROVE  KeepsIds(s, s)
BY DEF KeepsIds

LEMMA BvPinParts ==
    ASSUME Typed, format = "bv",
           NEW id \in Name, NEW name \in PinName, NEW n \in NetName, NEW p \in Place,
           BvPin(id, name, n, p)
    PROVE  /\ KeepsIds(parts, parts') /\ Indexed(id) \in Nat
           /\ Lodged(id, Indexed(id))
<1>1. AreParts(parts)
    BY DEF Typed
<1>2. CASE Indexed(id) = 0
    <2>1. parts' = parts
        BY <1>2 DEF BvPin
    <2> QED BY <1>1, <1>2, <2>1, KeepsItself DEF Lodged
<1>3. CASE Indexed(id) # 0
    <2>1. PartsNamed(id) # {} /\ Indexed(id) = Greatest(PartsNamed(id))
        BY <1>3 DEF Indexed
    <2>2. Indexed(id) \in DOMAIN parts /\ parts[Indexed(id)].id = id
        BY <1>1, <2>1, LastOfName
    <2>3. Indexed(id) \in Nat
        BY <1>1, <2>2, PartLists
    <2> DEFINE b == Grow(parts[Indexed(id)].bounds, p)
    <2>4. parts' = [parts EXCEPT ![Indexed(id)].bounds = b]
        BY <1>3 DEF BvPin
    <2> HIDE DEF b
    <2>5. KeepsIds(parts, parts')
        BY <1>1, <2>2, <2>4, BoxChanges
    <2>6. Lodged(id, Indexed(id))
        BY <2>2, <2>5 DEF Lodged, KeepsIds
    <2> QED BY <2>3, <2>5, <2>6
<1> QED BY <1>2, <1>3

LEMMA KeepsOn ==
    ASSUME NEW s, NEW t, NEW u, KeepsIds(s, t), KeepsIds(t, u)
    PROVE  KeepsIds(s, u)
BY DEF KeepsIds

LEMMA PinRowParts ==
    ASSUME Typed, format = "bv_mdb",
           NEW id \in Name \cup {""}, NEW name \in PinName, NEW n \in NetName, NEW p \in Place,
           PinRow(id, name, n, p)
    PROVE  /\ KeepsIds(parts, parts')
           /\ \E of \in Nat :
                /\ Lodged(id, of)
                /\ AddPin(<<id, name>>, id, BvNet(n), p, of) /\ nails' = nails
<1> DEFINE known == PartsNamed(id)
           with == IF id = "" \/ known # {} THEN parts
                   ELSE Append(parts, [id |-> id, bounds |-> At(p)])
           of == IF id = "" THEN 0 ELSE IF known = {} THEN Len(with) ELSE Greatest(known)
           b == MdbExpand(with[of].bounds, p)
<1>1. /\ parts' = IF of = 0 THEN with ELSE [with EXCEPT ![of].bounds = b]
      /\ AddPin(<<id, name>>, id, BvNet(n), p, of) /\ nails' = nails
    BY DEF PinRow
<1>2. AreParts(parts)
    BY DEF Typed
<1>3. CASE id = ""
    <2>1. of = 0 /\ with = parts /\ parts' = parts
        BY <1>1, <1>3
    <2>2. KeepsIds(parts, parts') /\ Lodged(id, of)
        BY <1>2, <1>3, <2>1, KeepsItself DEF Lodged
    <2> HIDE DEF of
    <2> QED BY <1>1, <2>1, <2>2
<1>4. CASE id # ""
    <2>1. KeepsIds(parts, with) /\ AreParts(with) /\ of \in DOMAIN with /\ with[of].id = id
        <3>1. CASE known # {}
            <4>1. with = parts /\ of = Greatest(known)
                BY <1>4, <3>1
            <4>2. of \in DOMAIN parts /\ parts[of].id = id
                BY <1>2, <3>1, <4>1, LastOfName
            <4> HIDE DEF of, with
            <4> QED BY <1>2, <4>1, <4>2, KeepsItself
        <3>2. CASE known = {}
            <4> DEFINE box == At(p)
            <4>1. with = Append(parts, [id |-> id, bounds |-> box]) /\ of = Len(with)
                BY <1>4, <3>2
            <4> HIDE DEF of, with, known, box
            <4>2. id \in Name
                BY <1>4
            <4>3. Gains(parts, with, id)
                BY <1>2, <4>1, <4>2, PartComes
            <4> QED BY <4>1, <4>3 DEF Gains, KeepsIds
        <3> QED BY <3>1, <3>2
    <2>2. of \in Nat /\ of # 0
        <3> HIDE DEF of, with, b, known
        <3> QED BY <2>1, PartPlaces
    <2>3. parts' = [with EXCEPT ![of].bounds = b]
        <3> HIDE DEF of, with, b
        <3> QED BY <1>1, <2>2
    <2> HIDE DEF of, with, b
    <2>4. KeepsIds(with, parts')
        BY <2>1, <2>3, BoxChanges
    <2>5. KeepsIds(parts, parts')
        BY <2>1, <2>4, KeepsOn
    <2>6. of \in DOMAIN parts' /\ parts'[of].id = id
        BY <2>1, <2>4 DEF KeepsIds
    <2>7. Lodged(id, of)
        BY <2>2, <2>6 DEF Lodged
    <2> QED BY <1>1, <2>2, <2>5, <2>7
<1> QED BY <1>3, <1>4

LEMMA LinesConnect ==
    ASSUME Typed, ReadLine
    PROVE  Connects
<1>1. ASSUME format = "brd2", Brd2Line
      PROVE  Connects
    <2> USE <1>1
    <2>1. CASE \/ \E w \in Coord, h \in Coord \cup {size[2]} : Brdout(w, h)
               \/ \E id \in Name, p \in Place : Component(id, p)
               \/ NetList
               \/ \E p \in Place : OutlineLine(p)
        BY <2>1 DEF Connects, Brdout, Component, NetList, OutlineLine, board
    <2>2. ASSUME NEW name \in PinName, NEW n \in NetName, NEW p \in Place, Pin(name, n, p)
          PROVE  Connects
        <3>1. /\ Len(parts) \in Nat /\ parts[Len(parts)].id \in Name
              /\ Lodged(parts[Len(parts)].id, Len(parts))
            BY <2>2, PinParts
        <3>2. Brd2Net(n) \in NetName \cup {""}
            BY Keys
        <3>3. /\ AddPin(<<parts[Len(parts)].id, name>>, parts[Len(parts)].id, Brd2Net(n), p,
                        Len(parts))
              /\ nails' = nails
            BY <2>2 DEF Pin
        <3> QED BY <3>1, <3>2, <3>3, AddPinConnects
    <2>3. ASSUME NEW probe \in Probe, NEW n \in NetName, Nail(probe, n)
          PROVE  Connects
        <3>1. <<"nail", probe>> \in NailId /\ Brd2Net(n) \in NetName \cup {""}
            BY Keys DEF NailId
        <3>2. AddNail(<<"nail", probe>>, Brd2Net(n)) /\ pins' = pins
            BY <2>3 DEF Nail
        <3> QED BY <3>1, <3>2, AddNailConnects
    <2> QED BY <2>1, <2>2, <2>3 DEF Brd2Line
<1>2. ASSUME format = "bv", BvLine
      PROVE  Connects
    <2> USE <1>2
    <2>1. CASE \/ \E s \in {"", "FILEINFO", "PARTS", "PINS", "NAILS", "NETS"} : Section(s)
               \/ \E i \in {1, 2}, v \in Coord : FileInfo(i, v)
               \/ \E id \in Name, p \in Place : BvPart(id, p)
        BY <2>1 DEF Connects, Section, FileInfo, BvPart, board
    <2>2. ASSUME NEW id \in Name, NEW name \in PinName, NEW n \in NetName, NEW p \in Place,
                 BvPin(id, name, n, p)
          PROVE  Connects
        <3>1. Indexed(id) \in Nat /\ Lodged(id, Indexed(id))
            BY <2>2, BvPinParts
        <3>2. BvNet(n) \in NetName \cup {""}
            BY Keys
        <3>3. AddPin(<<id, name>>, id, BvNet(n), p, Indexed(id)) /\ nails' = nails
            BY <2>2 DEF BvPin
        <3> QED BY <3>1, <3>2, <3>3, AddPinConnects
    <2>3. ASSUME NEW probe \in Probe, NEW n \in NetName, BvNail(probe, n)
          PROVE  Connects
        <3>1. <<"nail", probe>> \in NailId /\ BvNet(n) \in NetName \cup {""}
            BY Keys DEF NailId
        <3>2. AddNail(<<"nail", probe>>, BvNet(n)) /\ pins' = pins
            BY <2>3 DEF BvNail
        <3> QED BY <3>1, <3>2, AddNailConnects
    <2> QED BY <2>1, <2>2, <2>3 DEF BvLine
<1>3. ASSUME format = "bv_mdb", MdbLine
      PROVE  Connects
    <2> USE <1>3
    <2>1. CASE \/ \E s \in {"Pin", "Nail"} : NextTable(s)
               \/ \E p \in Place : LayoutRow(p)
        BY <2>1 DEF Connects, NextTable, LayoutRow, board
    <2>2. ASSUME NEW id \in Name \cup {""}, NEW name \in PinName, NEW n \in NetName,
                 NEW p \in Place, PinRow(id, name, n, p)
          PROVE  Connects
        <3>1. PICK of \in Nat :
                /\ Lodged(id, of)
                /\ AddPin(<<id, name>>, id, BvNet(n), p, of) /\ nails' = nails
            BY <2>2, PinRowParts
        <3>2. BvNet(n) \in NetName \cup {""}
            BY Keys
        <3> QED BY <3>1, <3>2, AddPinConnects
    <2>3. ASSUME NEW grid \in Probe \cup {""}, NEW n \in NetName, NailRow(grid, n)
          PROVE  Connects
        <3> DEFINE id == IF grid = "" THEN <<"row", lines>> ELSE <<"nail", grid>>
        <3>1. id \in NailId /\ BvNet(n) \in NetName \cup {""}
            BY Keys DEF NailId, Typed
        <3>2. AddNail(id, BvNet(n)) /\ pins' = pins
            BY <2>3 DEF NailRow
        <3> HIDE DEF id
        <3> QED BY <3>1, <3>2, AddNailConnects
    <2> QED BY <2>1, <2>2, <2>3 DEF MdbLine
<1>4. ASSUME format = "brd_landrex", LandrexLine
      PROVE  Connects
    BY <1>4 DEF Connects, LandrexLine, Header, Corner, Row, board
<1> QED BY <1>1, <1>2, <1>3, <1>4 DEF ReadLine

\* Every step leaves the connections alone or adds one pin or one nail.
LEMMA EveryStepConnects ==
    ASSUME Typed, [Next]_vars
    PROVE  Connects
<1>1. CASE ReadLine
    BY <1>1, LinesConnect
<1>2. CASE StartAssembly
    BY <1>2 DEF StartAssembly, Connects, board
<1>3. CASE AssembleMore
    <2>1. phase = "assembly" /\ Assemble
        BY <1>3 DEF AssembleMore
    <2>2. format = "brd_landrex"
        BY <2>1 DEF Typed
    <2>3. CASE FinishPart
        BY <2>3 DEF FinishPart, Connects
    <2> QED BY <2>1, <2>2, <2>3, TakePinConnects, TakeNailConnects DEF Assemble
<1>4. CASE Finish
    BY <1>4 DEF Finish, Brd2End, BvEnd, MdbEnd, LandrexEnd, Connects, board
<1>5. CASE Fail
    BY <1>5 DEF Fail, Connects, board
<1>6. CASE UNCHANGED vars
    BY <1>6 DEF vars, board, Connects
<1> QED BY <1>1, <1>2, <1>3, <1>4, <1>5, <1>6 DEF Next

\* No step takes a part away or renames one.
LEMMA EveryStepKeepsParts ==
    ASSUME Typed, [Next]_vars
    PROVE  KeepsIds(parts, parts')
<1>1. AreParts(parts)
    BY DEF Typed
<1>2. ASSUME parts' = parts
      PROVE  KeepsIds(parts, parts')
    BY <1>1, <1>2, KeepsItself
<1>3. ASSUME NEW id \in Name, NEW b, AddPart(id, b)
      PROVE  KeepsIds(parts, parts')
    <2>1. parts' = Append(parts, [id |-> id, bounds |-> b])
        BY <1>3 DEF AddPart
    <2>2. Gains(parts, parts', id)
        BY <1>1, <2>1, PartComes
    <2> QED BY <2>2 DEF Gains
<1>4. CASE ReadLine
    <2>1. CASE format = "brd2" /\ Brd2Line
        <3>1. ASSUME NEW id \in Name, NEW p \in Place, Component(id, p)
              PROVE  KeepsIds(parts, parts')
            BY <1>3, <3>1 DEF Component
        <3>2. CASE \/ \E w \in Coord, h \in Coord \cup {size[2]} : Brdout(w, h)
                   \/ \E probe \in Probe, n \in NetName : Nail(probe, n)
                   \/ NetList
                   \/ \E p \in Place : OutlineLine(p)
            BY <1>2, <3>2 DEF Brdout, Nail, NetList, OutlineLine, board
        <3> QED BY <2>1, <3>1, <3>2, PinParts DEF Brd2Line
    <2>2. CASE format = "bv" /\ BvLine
        <3>1. ASSUME NEW id \in Name, NEW p \in Place, BvPart(id, p)
              PROVE  KeepsIds(parts, parts')
            BY <1>3, <3>1 DEF BvPart
        <3>2. CASE \/ \E s \in {"", "FILEINFO", "PARTS", "PINS", "NAILS", "NETS"} : Section(s)
                   \/ \E i \in {1, 2}, v \in Coord : FileInfo(i, v)
                   \/ \E probe \in Probe, n \in NetName : BvNail(probe, n)
            BY <1>2, <3>2 DEF Section, FileInfo, BvNail, board
        <3> QED BY <2>2, <3>1, <3>2, BvPinParts DEF BvLine
    <2>3. CASE format = "bv_mdb" /\ MdbLine
        <3>1. CASE \/ \E s \in {"Pin", "Nail"} : NextTable(s)
                   \/ \E p \in Place : LayoutRow(p)
                   \/ \E grid \in Probe \cup {""}, n \in NetName : NailRow(grid, n)
            BY <1>2, <3>1 DEF NextTable, LayoutRow, NailRow, board
        <3> QED BY <2>3, <3>1, PinRowParts DEF MdbLine
    <2>4. CASE format = "brd_landrex" /\ LandrexLine
        BY <1>2, <2>4 DEF LandrexLine, Header, Corner, Row, board
    <2> QED BY <1>4, <2>1, <2>2, <2>3, <2>4 DEF ReadLine
<1>5. CASE AssembleMore
    <2>1. CASE FinishPart
        <3>1. rows.parts[Current].id \in Name
            <4>1. rows.parts \in Seq(RawPart) /\ Current \in Nat /\ Current >= 1
                <5>1. Len(parts) \in Nat
                    BY <1>1, PartLists
                <5> QED BY <5>1 DEF Typed, RowsTyped, Current
            <4>2. Current <= Len(rows.parts)
                BY <2>1 DEF FinishPart
            <4>3. Current \in DOMAIN rows.parts
                BY <4>1, <4>2
            <4>4. rows.parts[Current] \in RawPart
                BY <4>1, <4>3
            <4> QED BY <4>4 DEF RawPart
        <3>2. \E b : AddPart(rows.parts[Current].id, b)
            BY <2>1 DEF FinishPart
        <3> QED BY <1>3, <3>1, <3>2
    <2>2. CASE TakePin \/ TakeNail
        BY <1>2, <2>2 DEF TakePin, TakeNail
    <2> QED BY <1>5, <2>1, <2>2 DEF AssembleMore, Assemble
<1>6. CASE StartAssembly \/ Finish \/ Fail \/ UNCHANGED vars
    BY <1>2, <1>6 DEF StartAssembly, Finish, Brd2End, BvEnd, MdbEnd, LandrexEnd, Fail, vars, board
<1> QED BY <1>4, <1>5, <1>6 DEF Next

-----------------------------------------------------------------------------
(* Types *)

LEMMA RowsKeepType ==
    ASSUME Typed, [Next]_vars
    PROVE  RowsTyped' /\ (phase # "lines" => rows' = rows)
<1>1. RowsTyped
    BY DEF Typed
<1>2. ASSUME UNCHANGED raw
      PROVE  RowsTyped' /\ rows' = rows
    BY <1>1, <1>2 DEF RowsTyped, raw
<1>3. CASE ReadLine
    <2>1. phase = "lines"
        BY <1>3 DEF ReadLine
    <2>2. ASSUME LandrexLine
          PROVE  RowsTyped'
        <3>1. ASSUME NEW row \in RawPart, Row("Parts", "parts", row)
              PROVE  RowsTyped'
            <4>1. Append(rows.parts, row) \in Seq(RawPart)
                BY <1>1 DEF RowsTyped
            <4> QED BY <1>1, <3>1, <4>1 DEF Row, RowsTyped
        <3>2. ASSUME NEW row \in RawPin, Row("Pins", "pins", row)
              PROVE  RowsTyped'
            <4>1. Append(rows.pins, row) \in Seq(RawPin)
                BY <1>1 DEF RowsTyped
            <4> QED BY <1>1, <3>2, <4>1 DEF Row, RowsTyped
        <3>3. ASSUME NEW row \in RawNail, Row("Nails", "nails", row)
              PROVE  RowsTyped'
            <4>1. Append(rows.nails, row) \in Seq(RawNail)
                BY <1>1 DEF RowsTyped
            <4> QED BY <1>1, <3>3, <4>1 DEF Row, RowsTyped
        <3>4. CASE \/ \E s \in {"Parts", "Pins", "Nails"} : Header(s)
                   \/ \E p \in Place : Corner(p)
            BY <1>2, <3>4 DEF Header, Corner
        <3> QED BY <2>2, <3>1, <3>2, <3>3, <3>4 DEF LandrexLine
    <2> QED BY <1>2, <1>3, <2>1, <2>2 DEF ReadLine
<1>4. CASE AssembleMore
    <2>1. rows' = rows /\ taken' \in Nat
        BY <1>1, <1>4 DEF AssembleMore, Assemble, TakePin, FinishPart, TakeNail, RowsTyped, raw
    <2> QED BY <1>1, <2>1 DEF RowsTyped
<1>5. CASE StartAssembly \/ Finish \/ Fail \/ UNCHANGED vars
    BY <1>2, <1>5 DEF StartAssembly, Finish, LandrexEnd, Fail, vars
<1> QED BY <1>3, <1>4, <1>5 DEF Next

LEMMA NetsKeepType ==
    ASSUME Typed, NEW key, Touches(key)
    PROVE  NetsTyped' /\ DOMAIN nets' = DOMAIN nets \cup (IF key = "" THEN {} ELSE {key})
<1>1. NetsTyped
    BY DEF Typed, ListsTyped
<1>2. CASE key = ""
    BY <1>1, <1>2 DEF Touches, NetsTyped
<1>3. CASE key # ""
    <2>1. nets' \in [DOMAIN nets \cup {key} -> Net] /\ key \in NetName
        BY <1>3 DEF Touches
    <2>2. DOMAIN nets' = DOMAIN nets \cup {key}
        BY <2>1
    <2>3. IsFiniteSet(DOMAIN nets \cup {key})
        BY <1>1, FS_AddElement DEF NetsTyped
    <2> QED BY <1>1, <1>3, <2>1, <2>2, <2>3 DEF NetsTyped
<1> QED BY <1>2, <1>3

LEMMA ListsKeepType ==
    ASSUME Typed, Connects
    PROVE  ListsTyped'
<1>1. ListsTyped
    BY DEF Typed
<1>2. CASE UNCHANGED <<pins, nails, nets>>
    BY <1>1, <1>2 DEF ListsTyped, NetsTyped
<1>3. ASSUME NEW x \in PinRecord, MorePins(x)
      PROVE  ListsTyped'
    <2>1. NetsTyped'
        BY <1>3, NetsKeepType DEF MorePins
    <2>2. pins' \in Seq(PinRecord) /\ nails' = nails
        BY <1>1, <1>3, Longer DEF MorePins, ListsTyped
    <2> QED BY <1>1, <2>1, <2>2 DEF ListsTyped
<1>4. ASSUME NEW x \in NailRecord, MoreNails(x)
      PROVE  ListsTyped'
    <2>1. NetsTyped'
        BY <1>4, NetsKeepType DEF MoreNails
    <2>2. nails' \in Seq(NailRecord) /\ pins' = pins
        BY <1>1, <1>4, Longer DEF MoreNails, ListsTyped
    <2> QED BY <1>1, <2>1, <2>2 DEF ListsTyped
<1> QED BY <1>2, <1>3, <1>4 DEF Connects

LEMMA FormatDetected ==
    ASSUME NEW ext, NEW signs
    PROVE  DetectFormat(ext, signs) \in Format
BY DEF DetectFormat, Format

LEMMA InitTyped == Init => Typed
<1> SUFFICES ASSUME Init PROVE Typed
    OBVIOUS
<1>1. format \in Format
    BY FormatDetected DEF Init
<1>2. /\ lines = 0 /\ parts = <<>> /\ pins = <<>> /\ nails = <<>>
      /\ nets = [k \in {} |-> 0]
    BY DEF Init, Empty
<1>3. phase \in {"lines", "failed"}
    BY DEF Init
<1>4. AreParts(parts)
    <2>1. parts \in Seq(Boxes({}))
        BY <1>2
    <2> QED BY <2>1 DEF AreParts
<1>5. NetsTyped
    <2>1. DOMAIN nets = {} /\ nets \in [DOMAIN nets -> Net]
        BY <1>2
    <2> QED BY <2>1, FS_EmptySet DEF NetsTyped
<1>6. ListsTyped
    BY <1>2, <1>5 DEF ListsTyped
<1>7. RowsTyped
    <2>1. rows = [parts |-> <<>>, pins |-> <<>>, nails |-> <<>>] /\ taken = 0
        BY DEF Init, NoRows
    <2>2. <<>> \in Seq(RawPart) /\ <<>> \in Seq(RawPin) /\ <<>> \in Seq(RawNail)
        OBVIOUS
    <2> QED BY <2>1, <2>2 DEF RowsTyped
<1> QED BY <1>1, <1>2, <1>3, <1>4, <1>6, <1>7 DEF Typed

LEMMA NextTyped ==
    ASSUME Typed, [Next]_vars
    PROVE  Typed'
<1>1. AreParts(parts')
    BY EveryStepKeepsParts DEF KeepsIds
<1>2. ListsTyped' /\ RowsTyped'
    BY EveryStepConnects, ListsKeepType, RowsKeepType
<1>3. /\ format' = format /\ format \in Format
      /\ lines' \in Nat
      /\ phase' \in {"lines", "assembly", "done", "failed"}
      /\ phase' = "assembly" => format = "brd_landrex"
    BY DEF Next, ReadLine, StartAssembly, AssembleMore, Finish, Fail, vars, Typed
<1> QED BY <1>1, <1>2, <1>3 DEF Typed, AreParts

-----------------------------------------------------------------------------
(* Nets and what is on them *)

\* What a net lists, and that pins and nails are on nets that exist.
Lists(key) ==
    /\ {nets[key].pins[i] : i \in DOMAIN nets[key].pins} = Ids(pins, key)
    /\ {nets[key].nails[i] : i \in DOMAIN nets[key].nails} = Ids(nails, key)
OnNets(seq) == \A i \in DOMAIN seq : seq[i].key \in DOMAIN nets \cup {""}

LEMMA NetsAgreeParts ==
    NetsAgree <=> (\A key \in DOMAIN nets : Lists(key)) /\ OnNets(pins) /\ OnNets(nails)
BY DEF NetsAgree, Lists, OnNets

\* A net that is not there yet has nothing on it.
LEMMA NewNetIsEmpty ==
    ASSUME NEW seq, OnNets(seq), NEW key, key # "", key \notin DOMAIN nets
    PROVE  Ids(seq, key) = {}
BY DEF OnNets, Ids

LEMMA NetListsType ==
    ASSUME Typed, NEW key
    PROVE  /\ NetOf(nets, key, "").pins \in Seq(PinId)
           /\ NetOf(nets, key, "").nails \in Seq(NailId)
<1>1. CASE key \in DOMAIN nets
    <2>1. nets[key] \in Net
        BY <1>1 DEF Typed, ListsTyped, NetsTyped
    <2> QED BY <1>1, <2>1 DEF NetOf, Net
<1>2. CASE key \notin DOMAIN nets
    BY <1>2 DEF NetOf, NoNet
<1> QED BY <1>1, <1>2

LEMMA NetOfAgrees ==
    ASSUME Typed, NetsAgree, NEW key, key # ""
    PROVE  LET net == NetOf(nets, key, "") IN
           /\ {net.pins[i] : i \in DOMAIN net.pins} = Ids(pins, key)
           /\ {net.nails[i] : i \in DOMAIN net.nails} = Ids(nails, key)
<1>1. CASE key \in DOMAIN nets
    <2>1. Lists(key)
        BY <1>1, NetsAgreeParts
    <2>2. NetOf(nets, key, "") = nets[key]
        BY <1>1 DEF NetOf
    <2> QED BY <2>1, <2>2 DEF Lists
<1>2. CASE key \notin DOMAIN nets
    <2>1. Ids(pins, key) = {} /\ Ids(nails, key) = {}
        BY <1>2, NewNetIsEmpty, NetsAgreeParts
    <2>2. NetOf(nets, key, "").pins = <<>> /\ NetOf(nets, key, "").nails = <<>>
        BY <1>2 DEF NetOf, NoNet
    <2> DEFINE none == NetOf(nets, key, "").pins
               noNails == NetOf(nets, key, "").nails
    <2>3. none \in Seq(PinId) /\ noNails \in Seq(NailId)
        BY NetListsType
    <2>4. none = <<>> /\ noNails = <<>>
        BY <2>2
    <2> HIDE DEF none, noNails
    <2>5. {none[i] : i \in DOMAIN none} = {} /\ {noNails[i] : i \in DOMAIN noNails} = {}
        BY <2>3, <2>4, NothingListed
    <2> QED BY <2>1, <2>5 DEF none, noNails
<1> QED BY <1>1, <1>2

LEMMA PinKeepsNets ==
    ASSUME Typed, NetsAgree, NEW x \in PinRecord, MorePins(x)
    PROVE  NetsAgree'
<1> DEFINE net == NetOf(nets, x.key, "")
<1>1. pins \in Seq(PinRecord) /\ pins' = Append(pins, x) /\ nails' = nails
    BY DEF MorePins, Typed, ListsTyped
<1>2. Touches(x.key) /\ DOMAIN nets' = DOMAIN nets \cup (IF x.key = "" THEN {} ELSE {x.key})
    BY NetsKeepType DEF MorePins
<1>3. \A key : Ids(nails', key) = Ids(nails, key)
    BY <1>1 DEF Ids
<1>4. \A key : Ids(pins', key) = Ids(pins, key) \cup (IF x.key = key THEN {x.id} ELSE {})
    BY <1>1, IdsOfMore
<1>5. OnNets(pins)' /\ OnNets(nails)'
    <2>1. x.key \in DOMAIN nets' \cup {""} /\ DOMAIN nets \subseteq DOMAIN nets'
        BY <1>2
    <2>2. \A i \in DOMAIN pins' : (i \in DOMAIN pins /\ pins'[i] = pins[i]) \/ pins'[i] = x
        BY <1>1, Longer
    <2> QED BY <1>1, <2>1, <2>2, NetsAgreeParts DEF OnNets
<1>6. ASSUME NEW key \in DOMAIN nets'
      PROVE  Lists(key)'
    <2>1. CASE key = x.key /\ x.key # ""
        <3>1. nets'[key].pins = Append(net.pins, x.id) /\ nets'[key].nails = net.nails
            BY <2>1 DEF MorePins
        <3>2. /\ {net.pins[i] : i \in DOMAIN net.pins} = Ids(pins, key)
              /\ {net.nails[i] : i \in DOMAIN net.nails} = Ids(nails, key)
            BY <2>1, NetOfAgrees
        <3>3. net.pins \in Seq(PinId) /\ x.id \in PinId
            BY NetListsType DEF PinRecord
        <3> HIDE DEF net
        <3>4. {nets'[key].pins[i] : i \in DOMAIN nets'[key].pins} = Ids(pins, key) \cup {x.id}
            BY <3>1, <3>2, <3>3, ListedMore
        <3>5. {nets'[key].nails[i] : i \in DOMAIN nets'[key].nails} = Ids(nails, key)
            BY <3>1, <3>2
        <3>6. Ids(pins', key) = Ids(pins, key) \cup {x.id} /\ Ids(nails', key) = Ids(nails, key)
            BY <1>3, <1>4, <2>1
        <3> QED BY <3>4, <3>5, <3>6 DEF Lists
    <2>2. CASE ~(key = x.key /\ x.key # "")
        <3>1. key \in DOMAIN nets /\ key # x.key
            <4>1. "" \notin DOMAIN nets
                BY NetAssumption DEF Typed, ListsTyped, NetsTyped
            <4> QED BY <1>2, <2>2, <4>1
        <3>2. nets'[key] = nets[key]
            BY <1>2, <3>1 DEF Touches
        <3>3. Lists(key)
            BY <3>1, NetsAgreeParts
        <3> QED BY <1>3, <1>4, <3>1, <3>2, <3>3 DEF Lists
    <2> QED BY <2>1, <2>2
<1> QED BY <1>5, <1>6 DEF NetsAgree, Lists, OnNets

LEMMA NailKeepsNets ==
    ASSUME Typed, NetsAgree, NEW x \in NailRecord, MoreNails(x)
    PROVE  NetsAgree'
<1> DEFINE net == NetOf(nets, x.key, "")
<1>1. nails \in Seq(NailRecord) /\ nails' = Append(nails, x) /\ pins' = pins
    BY DEF MoreNails, Typed, ListsTyped
<1>2. Touches(x.key) /\ DOMAIN nets' = DOMAIN nets \cup (IF x.key = "" THEN {} ELSE {x.key})
    BY NetsKeepType DEF MoreNails
<1>3. \A key : Ids(pins', key) = Ids(pins, key)
    BY <1>1 DEF Ids
<1>4. \A key : Ids(nails', key) = Ids(nails, key) \cup (IF x.key = key THEN {x.id} ELSE {})
    BY <1>1, IdsOfMore
<1>5. OnNets(pins)' /\ OnNets(nails)'
    <2>1. x.key \in DOMAIN nets' \cup {""} /\ DOMAIN nets \subseteq DOMAIN nets'
        BY <1>2
    <2>2. \A i \in DOMAIN nails' : (i \in DOMAIN nails /\ nails'[i] = nails[i]) \/ nails'[i] = x
        BY <1>1, Longer
    <2> QED BY <1>1, <2>1, <2>2, NetsAgreeParts DEF OnNets
<1>6. ASSUME NEW key \in DOMAIN nets'
      PROVE  Lists(key)'
    <2>1. CASE key = x.key /\ x.key # ""
        <3>1. nets'[key].nails = Append(net.nails, x.id) /\ nets'[key].pins = net.pins
            BY <2>1 DEF MoreNails
        <3>2. /\ {net.pins[i] : i \in DOMAIN net.pins} = Ids(pins, key)
              /\ {net.nails[i] : i \in DOMAIN net.nails} = Ids(nails, key)
            BY <2>1, NetOfAgrees
        <3>3. net.nails \in Seq(NailId) /\ x.id \in NailId
            BY NetListsType DEF NailRecord
        <3> HIDE DEF net
        <3>4. {nets'[key].nails[i] : i \in DOMAIN nets'[key].nails} = Ids(nails, key) \cup {x.id}
            BY <3>1, <3>2, <3>3, ListedMore
        <3>5. {nets'[key].pins[i] : i \in DOMAIN nets'[key].pins} = Ids(pins, key)
            BY <3>1, <3>2
        <3>6. Ids(nails', key) = Ids(nails, key) \cup {x.id} /\ Ids(pins', key) = Ids(pins, key)
            BY <1>3, <1>4, <2>1
        <3> QED BY <3>4, <3>5, <3>6 DEF Lists
    <2>2. CASE ~(key = x.key /\ x.key # "")
        <3>1. key \in DOMAIN nets /\ key # x.key
            <4>1. "" \notin DOMAIN nets
                BY NetAssumption DEF Typed, ListsTyped, NetsTyped
            <4> QED BY <1>2, <2>2, <4>1
        <3>2. nets'[key] = nets[key]
            BY <1>2, <3>1 DEF Touches
        <3>3. Lists(key)
            BY <3>1, NetsAgreeParts
        <3> QED BY <1>3, <1>4, <3>1, <3>2, <3>3 DEF Lists
    <2> QED BY <2>1, <2>2
<1> QED BY <1>5, <1>6 DEF NetsAgree, Lists, OnNets

-----------------------------------------------------------------------------
(* The ids of nets and pins *)

\* Landrex files: an id is a number, or was made up and counts the nets there were.
Numeric(id) == id \in {""} \X Int
Counted(id, n) == \E c \in Nat : id = <<"n", c>> /\ c < n
Netted == Cardinality(DOMAIN nets)

CountedIds ==
    format = "brd_landrex" =>
        \A key \in DOMAIN nets : Numeric(nets[key].id) \/ Counted(nets[key].id, Netted)

\* So does the id that a pin has kept.
KeptIds ==
    format = "brd_landrex" =>
        \A i \in DOMAIN pins :
            pins[i].key # "" => Numeric(pins[i].net) \/ Counted(pins[i].net, Netted)

\* Nails come when all parts have their pins.
NailsLast ==
    format = "brd_landrex" /\ DOMAIN nails # {} =>
        phase # "lines" /\ Len(parts) >= Len(rows.parts)

\* Landrex files: pins are numbered through.
CountedPins ==
    format = "brd_landrex" => \A i \in DOMAIN pins : pins[i].id[2] = i - 1

\* Parts are those of the rows, and pins belong to a part of their name.
PinsHome ==
    \A i \in DOMAIN pins :
        IF format = "brd_landrex"
        THEN pins[i].of \in DOMAIN rows.parts /\ pins[i].part = rows.parts[pins[i].of].id
        ELSE /\ \/ pins[i].of = 0
                \/ pins[i].of \in DOMAIN parts /\ parts[pins[i].of].id = pins[i].part
             /\ format \in {"brd2", "bv_mdb"} /\ pins[i].part # "" => pins[i].of # 0

PartsAreRows ==
    format = "brd_landrex" =>
        /\ phase = "lines" => parts = <<>> /\ pins = <<>>
        /\ \A i \in DOMAIN parts : i \in DOMAIN rows.parts /\ parts[i].id = rows.parts[i].id

Inv == /\ Typed /\ NetsAgree /\ CountedIds /\ MadeUpIdsDiffer
       /\ KeptIds /\ NailsLast /\ StaleIdsNameNothing
       /\ CountedPins /\ PinsHome /\ PartsAreRows

LEMMA ConnectsKeepsNets ==
    ASSUME Typed, NetsAgree, Connects
    PROVE  NetsAgree'
<1>1. CASE UNCHANGED <<pins, nails, nets>>
    <2>1. \A key : Ids(pins', key) = Ids(pins, key) /\ Ids(nails', key) = Ids(nails, key)
        BY <1>1 DEF Ids
    <2> QED BY ZenonT(60), <1>1, <2>1 DEF NetsAgree
<1> QED BY <1>1, PinKeepsNets, NailKeepsNets DEF Connects

LEMMA FormatStays ==
    ASSUME [Next]_vars
    PROVE  format' = format
BY DEF Next, ReadLine, StartAssembly, AssembleMore, Finish, Fail, vars

\* The id of the net that is touched: its own, or the one it is made with.
LEMMA TouchedId ==
    ASSUME NEW key, NEW id
    PROVE  NetOf(nets, key, id).id = IF key \in DOMAIN nets THEN nets[key].id ELSE id
BY DEF NetOf, NoNet

LEMMA CountedPinsStep ==
    ASSUME Typed, CountedPins, Connects, format' = format
    PROVE  CountedPins'
<1> SUFFICES ASSUME format = "brd_landrex" PROVE CountedPins'
    BY DEF CountedPins
<1>1. pins \in Seq(PinRecord) /\ \A i \in DOMAIN pins : pins[i].id[2] = i - 1
    BY DEF CountedPins, Typed, ListsTyped
<1>2. CASE pins' = pins
    BY <1>1, <1>2 DEF CountedPins
<1>3. ASSUME NEW x \in PinRecord, MorePins(x)
      PROVE  CountedPins'
    <2>1. pins' = Append(pins, x) /\ x.id[2] = Len(pins)
        BY <1>3 DEF MorePins
    <2>2. /\ DOMAIN pins' = DOMAIN pins \cup {Len(pins) + 1} /\ Len(pins) \in Nat
          /\ \A i \in DOMAIN pins : pins'[i] = pins[i]
          /\ pins'[Len(pins) + 1] = x
        BY <1>1, <2>1, Longer
    <2>3. pins'[Len(pins) + 1].id[2] = (Len(pins) + 1) - 1
        BY <2>1, <2>2
    <2>4. \A i \in DOMAIN pins' : pins'[i].id[2] = i - 1
        BY <1>1, <2>2, <2>3
    <2> QED BY <2>4 DEF CountedPins
<1> QED BY <1>2, <1>3 DEF Connects, MoreNails

LEMMA OneMoreOrNone ==
    ASSUME NEW n \in Nat, NEW m, m = n \/ m = n + 1
    PROVE  m \in Nat /\ n <= m /\ (m = n + 1 => n < m)
OBVIOUS

\* A net that comes is one more, and its made-up id counts the others.
LEMMA NetComes ==
    ASSUME Typed, format = "brd_landrex", NEW key, key # "", Touches(key), Numbers(key)
    PROVE  /\ Netted \in Nat /\ Netted' \in Nat /\ Netted <= Netted'
           /\ key \notin DOMAIN nets => Netted < Netted'
           /\ DOMAIN nets' = DOMAIN nets \cup {key}
           /\ \A k \in DOMAIN nets : k # key => nets'[k] = nets[k]
           /\ \/ Numeric(nets'[key].id)
              \/ key \in DOMAIN nets /\ nets'[key].id = nets[key].id
              \/ key \notin DOMAIN nets /\ nets'[key].id = <<"n", Netted>>
<1>1. DOMAIN nets' = DOMAIN nets \cup {key}
    BY NetsKeepType
<1>2. IsFiniteSet(DOMAIN nets)
    BY DEF Typed, ListsTyped, NetsTyped
<1>3. Netted \in Nat
    BY <1>2, FS_CardinalityType DEF Netted
<1>4. Netted' = IF key \in DOMAIN nets THEN Netted ELSE Netted + 1
    BY <1>1, <1>2, FS_AddElement DEF Netted
<1>5. \A k \in DOMAIN nets : k # key => nets'[k] = nets[k]
    BY DEF Touches
<1>6. \/ Numeric(nets'[key].id)
      \/ key \in DOMAIN nets /\ nets'[key].id = nets[key].id
      \/ key \notin DOMAIN nets /\ nets'[key].id = <<"n", Netted>>
    BY TouchedId DEF Numbers, MadeUp, Numeric, Netted
<1>7. /\ Netted' \in Nat /\ Netted <= Netted'
      /\ key \notin DOMAIN nets => Netted < Netted'
    <2>1. Netted' = Netted \/ Netted' = Netted + 1
        BY <1>4
    <2>2. key \notin DOMAIN nets => Netted' = Netted + 1
        BY <1>4
    <2> QED BY <1>3, <2>1, <2>2, OneMoreOrNone
<1> QED BY <1>1, <1>3, <1>5, <1>6, <1>7

LEMMA NumericIs ==
    ASSUME NEW id, Numeric(id)
    PROVE  id[1] = ""
BY DEF Numeric

LEMMA CountedIs ==
    ASSUME NEW id, NEW n \in Nat, Counted(id, n)
    PROVE  /\ id[1] = "n" /\ id # <<"n", n>>
           /\ \A m \in Nat : n <= m => Counted(id, m)
<1>1. PICK c \in Nat : id = <<"n", c>> /\ c < n
    BY DEF Counted
<1>2. c # n /\ \A m \in Nat : n <= m => c < m
    BY <1>1
<1> QED BY <1>1, <1>2 DEF Counted

\* So an id that is in use, or that some pin has kept, is never made up again.
LEMMA NeverAgain ==
    ASSUME NEW id, NEW n \in Nat, Numeric(id) \/ Counted(id, n)
    PROVE  id # <<"n", n>>
<1>1. CASE Numeric(id)
    <2>1. <<"n", n>>[1] # ""
        OBVIOUS
    <2> QED BY <1>1, <2>1, NumericIs
<1> QED BY <1>1, CountedIs

LEMMA StillCounted ==
    ASSUME NEW id, NEW n \in Nat, NEW m \in Nat, n <= m, Numeric(id) \/ Counted(id, n)
    PROVE  Numeric(id) \/ Counted(id, m)
BY CountedIs

\* A net that is made gets an id that no net has.
LEMMA CountedIdsStep ==
    ASSUME Typed, CountedIds, MadeUpIdsDiffer, Connects, format' = format
    PROVE  CountedIds' /\ MadeUpIdsDiffer'
<1> SUFFICES ASSUME format = "brd_landrex" PROVE CountedIds' /\ MadeUpIdsDiffer'
    BY DEF CountedIds, MadeUpIdsDiffer
<1>1. /\ \A key \in DOMAIN nets : Numeric(nets[key].id) \/ Counted(nets[key].id, Netted)
      /\ \A k, l \in DOMAIN nets : nets[k].id = nets[l].id => k = l \/ nets[k].id[1] = ""
    BY DEF CountedIds, MadeUpIdsDiffer
<1>2. CASE nets' = nets
    <2>1. Netted' = Netted
        BY <1>2 DEF Netted
    <2> QED BY <1>1, <1>2, <2>1 DEF CountedIds, MadeUpIdsDiffer
<1>3. ASSUME NEW key, Touches(key), Numbers(key), key # ""
      PROVE  CountedIds' /\ MadeUpIdsDiffer'
    <2> DEFINE n == Netted
               m == Netted'
    <2>1. /\ n \in Nat /\ m \in Nat /\ n <= m
          /\ key \notin DOMAIN nets => n < m
          /\ DOMAIN nets' = DOMAIN nets \cup {key}
          /\ \A k \in DOMAIN nets : k # key => nets'[k] = nets[k]
          /\ \/ Numeric(nets'[key].id)
             \/ key \in DOMAIN nets /\ nets'[key].id = nets[key].id
             \/ key \notin DOMAIN nets /\ nets'[key].id = <<"n", n>>
        BY <1>3, NetComes
    <2>2. Numeric(nets'[key].id) \/ Counted(nets'[key].id, m)
        <3>1. CASE key \in DOMAIN nets
            BY <1>1, <2>1, <3>1, StillCounted
        <3>2. CASE key \notin DOMAIN nets
            <4>1. Counted(<<"n", n>>, m)
                BY <2>1, <3>2 DEF Counted
            <4> QED BY <2>1, <3>2, <4>1
        <3> QED BY <3>1, <3>2
    <2>3. \A k \in DOMAIN nets : Numeric(nets[k].id) \/ Counted(nets[k].id, m)
        BY <1>1, <2>1, StillCounted
    <2>4. \A k \in DOMAIN nets : nets[k].id # <<"n", n>>
        BY <1>1, <2>1, NeverAgain
    <2> HIDE DEF n, m
    <2>5. \A k \in DOMAIN nets' : Numeric(nets'[k].id) \/ Counted(nets'[k].id, m)
        BY <2>1, <2>2, <2>3
    <2>6. ASSUME NEW k \in DOMAIN nets, k # key, nets'[k].id = nets'[key].id
          PROVE  nets'[k].id[1] = ""
        BY <1>1, <2>1, <2>4, <2>6, NumericIs
    <2>7. ASSUME NEW k \in DOMAIN nets, NEW l \in DOMAIN nets, k # key, l # key,
                 nets'[k].id = nets'[l].id
          PROVE  k = l \/ nets'[k].id[1] = ""
        BY <1>1, <2>1, <2>7
    <2>8. \A k, l \in DOMAIN nets' : nets'[k].id = nets'[l].id => k = l \/ nets'[k].id[1] = ""
        BY <2>1, <2>6, <2>7
    <2> QED BY <2>5, <2>8 DEF CountedIds, MadeUpIdsDiffer, m
<1> QED BY <1>2, <1>3 DEF Connects, MorePins, MoreNails, Touches

\* Of the nets that a step leaves or makes, only that of the pin has the made-up id
\* that the pin has kept, or is given now.
Led == \A i \in DOMAIN pins, k \in DOMAIN nets :
            pins[i].key # "" /\ pins[i].net = nets[k].id
                => k = pins[i].key \/ nets[k].id[1] = ""

LEMMA KeptIdsStep ==
    ASSUME Typed, CountedIds, KeptIds, Led, MadeUpIdsDiffer', CountedIds',
           Connects, format' = format, format = "brd_landrex"
    PROVE  KeptIds' /\ Led'
<1>1. /\ pins \in Seq(PinRecord)
      /\ \A i \in DOMAIN pins : pins[i].key # "" =>
            Numeric(pins[i].net) \/ Counted(pins[i].net, Netted)
      /\ \A k \in DOMAIN nets' : Numeric(nets'[k].id) \/ Counted(nets'[k].id, Netted')
      /\ \A k, l \in DOMAIN nets' : nets'[k].id = nets'[l].id => k = l \/ nets'[k].id[1] = ""
    BY DEF KeptIds, CountedIds, MadeUpIdsDiffer, Typed, ListsTyped
<1> DEFINE Right(pin) ==
        pin.key # "" =>
            /\ Numeric(pin.net) \/ Counted(pin.net, Netted')
            /\ \A k \in DOMAIN nets' :
                pin.net = nets'[k].id => k = pin.key \/ nets'[k].id[1] = ""
<1>2. ASSUME nets' = nets
      PROVE  \A i \in DOMAIN pins : Right(pins[i])
    <2>1. Netted' = Netted
        BY <1>2 DEF Netted
    <2> QED BY <1>1, <1>2, <2>1 DEF Led
<1>3. ASSUME NEW key, Touches(key), Numbers(key), NEW i \in DOMAIN pins
      PROVE  Right(pins[i])
    <2>1. CASE key = ""
        BY <1>2, <1>3, <2>1 DEF Touches
    <2>2. CASE key # "" /\ pins[i].key # ""
        <3>1. /\ Netted \in Nat /\ Netted' \in Nat /\ Netted <= Netted'
              /\ DOMAIN nets' = DOMAIN nets \cup {key}
              /\ \A k \in DOMAIN nets : k # key => nets'[k] = nets[k]
              /\ \/ Numeric(nets'[key].id)
                 \/ key \in DOMAIN nets /\ nets'[key].id = nets[key].id
                 \/ key \notin DOMAIN nets /\ nets'[key].id = <<"n", Netted>>
            BY <1>3, <2>2, NetComes
        <3>2. pins[i].net # <<"n", Netted>>
            BY <1>1, <2>2, <3>1, NeverAgain
        <3>3. Numeric(pins[i].net) \/ Counted(pins[i].net, Netted')
            BY <1>1, <2>2, <3>1, StillCounted
        <3>4. ASSUME NEW k \in DOMAIN nets', pins[i].net = nets'[k].id
              PROVE  k = pins[i].key \/ nets'[k].id[1] = ""
            <4>1. CASE k # key
                BY <2>2, <3>1, <3>4, <4>1 DEF Led
            <4>2. CASE k = key
                BY <2>2, <3>1, <3>2, <3>4, <4>2, NumericIs DEF Led
            <4> QED BY <4>1, <4>2
        <3> QED BY <3>3, <3>4
    <2> QED BY <2>1, <2>2
<1>4. ASSUME NEW x \in PinRecord, MorePins(x)
      PROVE  \A i \in DOMAIN pins' : Right(pins'[i])
    <2>1. Right(x)
        <3>1. x.key # "" => x.key \in DOMAIN nets' /\ x.net = nets'[x.key].id
            BY <1>4 DEF MorePins, Files
        <3> QED BY <1>1, <3>1
    <2>2. \A i \in DOMAIN pins : Right(pins[i])
        <3> HIDE DEF Right
        <3> QED BY <1>3, <1>4 DEF MorePins
    <2>3. \A i \in DOMAIN pins' : (i \in DOMAIN pins /\ pins'[i] = pins[i]) \/ pins'[i] = x
        <3>1. pins \in Seq(PinRecord) /\ x \in PinRecord /\ pins' = Append(pins, x)
            BY <1>1, <1>4 DEF MorePins
        <3> QED BY <3>1, Longer
    <2> HIDE DEF Right
    <2> QED BY <2>1, <2>2, <2>3
<1>5. \A i \in DOMAIN pins' : Right(pins'[i])
    <2> HIDE DEF Right
    <2>1. CASE UNCHANGED <<pins, nails, nets>>
        BY <1>2, <2>1
    <2>2. ASSUME NEW x \in NailRecord, MoreNails(x)
          PROVE  \A i \in DOMAIN pins' : Right(pins'[i])
        BY <1>3, <2>2 DEF MoreNails
    <2> QED BY <1>4, <2>1, <2>2 DEF Connects
<1> QED BY <1>5 DEF KeptIds, Led

\* With the nails the ids of nets are settled.
LEMMA NailsKeepIds ==
    ASSUME Typed, TakeNail
    PROVE  \A k \in DOMAIN nets : k \in DOMAIN nets' /\ nets'[k].id = nets[k].id
<1> DEFINE row == rows.nails[Len(nails) + 1]
           id == <<"nail", row.probe, Len(nails)>>
           key == LandrexNet(row.net)
           l == Listing(nets, key, MadeUp, "nails", id)
<1>1. nets' = l
    BY DEF TakeNail, Numbered
<1>2. CASE key = ""
    BY <1>1, <1>2 DEF Listing
<1>3. CASE key # ""
    <2>1. row \in RawNail /\ Len(nails) \in Nat
        BY DEF TakeNail, Typed, ListsTyped, RowsTyped
    <2>2. key \in NetName /\ id \in NailId
        BY <1>3, <2>1, Keys DEF RawNail, NailId
    <2>3. MadeUp \in NetId /\ nets \in [DOMAIN nets -> Net]
        BY MadeUpType DEF Typed, ListsTyped, NetsTyped
    <2>4. l = Listing(nets, key, MadeUp, "nails", id)
        OBVIOUS
    <2> HIDE DEF l, id, key, row
    <2>5. ListsNail(nets, l, key, MadeUp, id)
        BY <2>2, <2>3, <2>4, ListNail
    <2> QED BY <1>1, <2>5 DEF ListsNail, NetOf
<1> QED BY <1>2, <1>3

Settled == \A i \in DOMAIN nails : Resolves(nails[i])

LEMMA NailsStep ==
    ASSUME Typed, NetsAgree, NailsLast, Settled, PartsAreRows, [Next]_vars,
           format = "brd_landrex"
    PROVE  NailsLast' /\ Settled'
<1>1. nails \in Seq(NailRecord) /\ Connects /\ format' = format
    BY EveryStepConnects, FormatStays DEF Typed, ListsTyped
<1>2. CASE UNCHANGED <<nails, nets, parts>> /\ (phase # "lines" => UNCHANGED rows /\ phase' # "lines")
    BY <1>2 DEF NailsLast, Settled, Resolves
<1>3. CASE (TakePin \/ FinishPart) /\ phase = "assembly"
    <2>1. DOMAIN nails = {}
        <3>1. Len(parts) \in Nat /\ Len(rows.parts) \in Nat
            BY PartLists DEF Typed, RowsTyped
        <3>2. Len(parts) + 1 <= Len(rows.parts)
            BY <1>3 DEF TakePin, FinishPart, Current
        <3>3. ~(Len(parts) >= Len(rows.parts))
            BY <3>1, <3>2
        <3> QED BY <3>3 DEF NailsLast
    <2>2. nails' = nails
        BY <1>3 DEF TakePin, FinishPart
    <2> QED BY <2>1, <2>2 DEF NailsLast, Settled
<1>4. CASE TakeNail /\ phase = "assembly" /\ phase' = phase
    <2>1. NailsLast'
        <3>1. Len(parts) \in Nat /\ Len(parts) = Len(rows.parts)
            BY <1>4, PartLists DEF Typed, TakeNail
        <3> QED BY <1>4, <3>1 DEF NailsLast, TakeNail, raw
    <2>2. PICK x \in NailRecord : MoreNails(x)
        <3>1. nails' # nails
            <4>1. \A s \in Seq(NailRecord) : \A y : Append(s, y) # s
                OBVIOUS
            <4> QED BY <1>1, <1>4, <4>1 DEF TakeNail
        <3> QED BY <1>1, <3>1 DEF Connects, MorePins
    <2>3. x.key # "" => x.key \in DOMAIN nets' /\ x.net = nets'[x.key].id
        BY <2>2 DEF MoreNails, Files
    <2>4. \A i \in DOMAIN nails' : (i \in DOMAIN nails /\ nails'[i] = nails[i]) \/ nails'[i] = x
        <3>1. nails \in Seq(NailRecord) /\ x \in NailRecord /\ nails' = Append(nails, x)
            BY <1>1, <2>2 DEF MoreNails
        <3> QED BY <3>1, Longer
    <2>5. \A i \in DOMAIN nails : nails[i].key \in DOMAIN nets \cup {""}
        BY DEF NetsAgree
    <2>6. \A k \in DOMAIN nets : nets'[k].id = nets[k].id
        BY <1>4, NailsKeepIds
    <2>7. \A i \in DOMAIN nails' : nails'[i].key # "" => nails'[i].net = nets'[nails'[i].key].id
        BY <2>3, <2>4, <2>5, <2>6 DEF Settled, Resolves
    <2> QED BY <2>1, <2>7 DEF Settled, Resolves
<1>5. CASE ReadLine
    <2>1. phase = "lines" /\ UNCHANGED <<nails, nets, parts>>
        BY <1>5 DEF ReadLine, LandrexLine, Header, Corner, Row, board
    <2> QED BY <1>2, <2>1
<1>6. CASE AssembleMore
    BY <1>3, <1>4, <1>6 DEF AssembleMore, Assemble
<1>7. CASE StartAssembly \/ Finish \/ Fail
    <2>1. UNCHANGED <<nails, nets, parts, rows>> /\ phase' # "lines"
        BY <1>7 DEF StartAssembly, Finish, Brd2End, BvEnd, MdbEnd, LandrexEnd, Fail, board, raw
    <2> QED BY <1>2, <2>1
<1>8. CASE UNCHANGED vars
    <2>1. UNCHANGED <<nails, nets, parts, rows, phase>>
        BY <1>8 DEF vars, board, raw
    <2> QED BY <1>2, <2>1
<1> QED BY <1>5, <1>6, <1>7, <1>8 DEF Next

LEMMA StaleIdsParts ==
    StaleIdsNameNothing <=> (format = "brd_landrex" => Led /\ Settled)
BY DEF StaleIdsNameNothing, Led, Settled

LEMMA StaleIdsStep ==
    ASSUME Inv, [Next]_vars, CountedIds', MadeUpIdsDiffer'
    PROVE  KeptIds' /\ NailsLast' /\ StaleIdsNameNothing'
<1>1. format' = format /\ Connects
    BY EveryStepConnects, FormatStays DEF Inv
<1>2. CASE format # "brd_landrex"
    BY <1>1, <1>2 DEF KeptIds, NailsLast, StaleIdsNameNothing
<1>3. CASE format = "brd_landrex"
    <2>1. Led /\ Settled
        BY <1>3, StaleIdsParts DEF Inv
    <2>2. KeptIds' /\ Led'
        BY <1>1, <1>3, <2>1, KeptIdsStep DEF Inv
    <2>3. NailsLast' /\ Settled'
        BY <1>3, <2>1, NailsStep DEF Inv
    <2> QED BY <2>2, <2>3 DEF StaleIdsNameNothing, Led, Settled
<1> QED BY <1>2, <1>3

LEMMA PartsAreRowsStep ==
    ASSUME Typed, PartsAreRows, [Next]_vars
    PROVE  PartsAreRows'
<1> SUFFICES ASSUME format = "brd_landrex" PROVE PartsAreRows'
    BY FormatStays DEF PartsAreRows
<1>1. /\ phase = "lines" => parts = <<>> /\ pins = <<>>
      /\ \A i \in DOMAIN parts : i \in DOMAIN rows.parts /\ parts[i].id = rows.parts[i].id
      /\ AreParts(parts)
    BY DEF PartsAreRows, Typed
<1>2. CASE FinishPart /\ phase = "assembly" /\ phase' = phase
    <2>1. \E b : AddPart(rows.parts[Current].id, b)
        BY <1>2 DEF FinishPart
    <2>2. PICK b : parts' = Append(parts, [id |-> rows.parts[Current].id, bounds |-> b])
        BY <2>1 DEF AddPart
    <2>3. Current \in DOMAIN rows.parts /\ rows.parts[Current].id \in Name
        <3>1. rows.parts \in Seq(RawPart) /\ Len(parts) \in Nat
            BY <1>1, PartLists DEF Typed, RowsTyped
        <3>2. Current \in Nat /\ Current >= 1 /\ Current <= Len(rows.parts)
            BY <1>2, <3>1 DEF Current, FinishPart
        <3>3. Current \in DOMAIN rows.parts
            BY <3>1, <3>2
        <3>4. rows.parts[Current] \in RawPart
            BY <3>1, <3>3
        <3> QED BY <3>3, <3>4 DEF RawPart
    <2>4. Gains(parts, parts', rows.parts[Current].id)
        BY <1>1, <2>2, <2>3, PartComes
    <2>5. /\ DOMAIN parts' = DOMAIN parts \cup {Current}
          /\ parts'[Current].id = rows.parts[Current].id
          /\ \A i \in DOMAIN parts : parts'[i].id = parts[i].id
        <3>1. AreParts(parts') /\ Len(parts') = Current
            BY <2>4 DEF Gains, KeepsIds, Current
        <3>2. /\ DOMAIN parts' = 1 .. Current /\ DOMAIN parts = 1 .. Len(parts)
              /\ Len(parts) \in Nat
            BY <1>1, <3>1, PartLists
        <3>3. DOMAIN parts' = DOMAIN parts \cup {Current}
            BY <3>2 DEF Current
        <3> QED BY <2>4, <3>1, <3>3 DEF Gains, KeepsIds
    <2>6. rows' = rows
        BY <1>2 DEF FinishPart
    <2> QED BY <1>1, <1>2, <2>3, <2>5, <2>6 DEF PartsAreRows
<1>3. CASE parts' = parts /\ rows' = rows /\ phase' = phase /\ pins' = pins
    BY <1>1, <1>3 DEF PartsAreRows
<1>4. CASE parts' = parts /\ rows' = rows /\ phase' # "lines"
    BY <1>1, <1>4 DEF PartsAreRows
<1>5. CASE parts' = parts /\ pins' = pins /\ phase = "lines"
    <2>1. parts' = <<>> /\ pins' = <<>>
        BY <1>1, <1>5
    <2>2. DOMAIN parts' = {}
        <3>1. AreParts(parts') /\ Len(parts') = 0
            BY <1>1, <1>5, <2>1
        <3>2. DOMAIN parts' = 1 .. Len(parts')
            BY <3>1, PartLists
        <3> QED BY <3>1, <3>2
    <2> QED BY <2>1, <2>2 DEF PartsAreRows
<1>6. CASE ReadLine
    BY <1>5, <1>6 DEF ReadLine, LandrexLine, Header, Corner, Row, board
<1>7. CASE AssembleMore
    <2>1. phase = "assembly" /\ phase' = phase
        BY <1>7 DEF AssembleMore
    <2>2. CASE TakePin \/ TakeNail
        BY <1>4, <2>1, <2>2 DEF TakePin, TakeNail, raw
    <2> QED BY <1>2, <1>7, <2>1, <2>2 DEF AssembleMore, Assemble
<1>8. CASE StartAssembly \/ Finish \/ Fail
    BY <1>4, <1>8 DEF StartAssembly, Finish, Brd2End, BvEnd, MdbEnd, LandrexEnd, Fail, board, raw
<1>9. CASE UNCHANGED vars
    BY <1>3, <1>9 DEF vars, board, raw
<1> QED BY <1>6, <1>7, <1>8, <1>9 DEF Next

\* While the rows of a Landrex file are being read there are no pins.
LEMMA PinsComeLater ==
    ASSUME PartsAreRows, [Next]_vars, format = "brd_landrex", phase = "lines"
    PROVE  pins' = <<>>
<1>1. pins = <<>>
    BY DEF PartsAreRows
<1>2. pins' = pins
    <2>1. CASE ReadLine
        BY <2>1 DEF ReadLine, LandrexLine, Header, Corner, Row, board
    <2>2. CASE StartAssembly \/ Fail \/ UNCHANGED vars
        BY <2>2 DEF StartAssembly, Fail, vars, board
    <2>3. ~AssembleMore /\ ~Finish
        BY DEF AssembleMore, Finish
    <2> QED BY <2>1, <2>2, <2>3 DEF Next
<1> QED BY <1>1, <1>2

\* A pin stays with its part, and the one that is new comes to a part of its name.
LEMMA PinsHomeStep ==
    ASSUME Typed, PinsHome, PartsAreRows, [Next]_vars
    PROVE  PinsHome'
<1> DEFINE Home(pin) ==
        IF format = "brd_landrex"
        THEN pin.of \in DOMAIN rows'.parts /\ pin.part = rows'.parts[pin.of].id
        ELSE /\ \/ pin.of = 0
                \/ pin.of \in DOMAIN parts' /\ parts'[pin.of].id = pin.part
             /\ format \in {"brd2", "bv_mdb"} /\ pin.part # "" => pin.of # 0
<1>1. pins \in Seq(PinRecord) /\ format' = format
    BY FormatStays DEF Typed, ListsTyped
<1>2. KeepsIds(parts, parts')
    BY EveryStepKeepsParts
<1>3. CASE format = "brd_landrex" /\ phase = "lines"
    <2>1. pins' = <<>>
        BY <1>3, PinsComeLater
    <2>2. DOMAIN pins' = {}
        <3>1. pins' \in Seq(PinRecord) /\ Len(pins') = 0
            BY <2>1
        <3> QED BY <3>1
    <2> QED BY <2>2 DEF PinsHome
<1>4. CASE format # "brd_landrex" \/ phase # "lines"
    <2>1. format = "brd_landrex" => rows' = rows
        BY <1>4, RowsKeepType
    <2>2. \A i \in DOMAIN pins : Home(pins[i])
        BY <1>2, <2>1 DEF PinsHome, KeepsIds
    <2>3. ASSUME NEW x \in PinRecord, MorePins(x)
          PROVE  \A i \in DOMAIN pins' : Home(pins'[i])
        <3>1. pins' = Append(pins, x) /\ Lodged(x.part, x.of)
            BY <2>3 DEF MorePins
        <3>2. Home(x)
            BY <2>1, <3>1 DEF Lodged
        <3>3. \A i \in DOMAIN pins' : pins'[i] = x \/ (i \in DOMAIN pins /\ pins'[i] = pins[i])
            BY <1>1, <3>1, Longer
        <3> HIDE DEF Home
        <3> QED BY <2>2, <3>2, <3>3
    <2>4. ASSUME pins' = pins
          PROVE  \A i \in DOMAIN pins' : Home(pins'[i])
        <3> HIDE DEF Home
        <3> QED BY <2>2, <2>4
    <2>5. \A i \in DOMAIN pins' : Home(pins'[i])
        <3> HIDE DEF Home
        <3> QED BY EveryStepConnects, <2>3, <2>4 DEF Connects, MoreNails
    <2> QED BY <1>1, <2>5 DEF PinsHome
<1> QED BY <1>3, <1>4

-----------------------------------------------------------------------------
(* The invariant and what follows from it *)

LEMMA InitInv == Init => Inv
<1> SUFFICES ASSUME Init PROVE Inv
    OBVIOUS
<1>1. Typed
    BY InitTyped
<1>2. parts = <<>> /\ pins = <<>> /\ nails = <<>> /\ nets = [k \in {} |-> 0]
    BY DEF Init, Empty
<1>3. DOMAIN nets = {} /\ DOMAIN parts = {} /\ DOMAIN pins = {} /\ DOMAIN nails = {}
    <2>1. \A S : \A s \in Seq(S) : s = <<>> => DOMAIN s = {}
        <3> SUFFICES ASSUME NEW S, NEW s \in Seq(S), s = <<>> PROVE DOMAIN s = {}
            OBVIOUS
        <3>1. DOMAIN s = 1 .. Len(s) /\ Len(s) = 0
            OBVIOUS
        <3> QED BY <3>1
    <2>2. pins \in Seq(PinRecord) /\ nails \in Seq(NailRecord)
        BY <1>1 DEF Typed, ListsTyped
    <2>3. DOMAIN parts = 1 .. Len(parts) /\ Len(parts) = 0
        BY <1>1, <1>2, PartLists DEF Typed
    <2>4. DOMAIN parts = {}
        BY <2>3
    <2> QED BY <1>2, <2>1, <2>2, <2>4
<1> HIDE DEF Init
<1> QED
    BY <1>1, <1>2, <1>3
    DEF Inv, NetsAgree, CountedIds, MadeUpIdsDiffer, KeptIds, NailsLast,
        StaleIdsNameNothing, CountedPins, PinsHome, PartsAreRows

LEMMA NextInv == Inv /\ [Next]_vars => Inv'
<1> SUFFICES ASSUME Inv, [Next]_vars PROVE Inv'
    OBVIOUS
<1>1. Connects /\ format' = format /\ Typed'
    BY EveryStepConnects, FormatStays, NextTyped DEF Inv
<1>2. NetsAgree'
    BY <1>1, ConnectsKeepsNets DEF Inv
<1>3. CountedIds' /\ MadeUpIdsDiffer'
    BY <1>1, CountedIdsStep DEF Inv
<1>4. KeptIds' /\ NailsLast' /\ StaleIdsNameNothing'
    BY <1>3, StaleIdsStep
<1>5. CountedPins'
    BY <1>1, CountedPinsStep DEF Inv
<1>6. PinsHome' /\ PartsAreRows'
    BY PinsHomeStep, PartsAreRowsStep DEF Inv
<1> QED BY <1>1, <1>2, <1>3, <1>4, <1>5, <1>6 DEF Inv

\* What every parser keeps up from line to line.
THEOREM ParsersInvariant == Spec => []Inv
BY InitInv, NextInv, PTL DEF Spec

\* A net lists just the pins and nails that are on it, whatever the format and
\* however long the file (the net_map of every parser).
THEOREM NetsAlwaysAgree == Spec => []NetsAgree
<1>1. Inv => NetsAgree
    BY DEF Inv
<1> QED BY <1>1, ParsersInvariant, PTL

\* A made-up net id that a Landrex pin has kept (brd_landrex.py:394-395) leads to
\* the pin's own net or to none, however many nets the file has and whenever they
\* get their numbers; the net ids of nails lead to their nets.
THEOREM StaleIdsNameNoNet == Spec => []StaleIdsNameNothing
<1>1. Inv => StaleIdsNameNothing
    BY DEF Inv
<1> QED BY <1>1, ParsersInvariant, PTL

\* An id that is made up for a Landrex net belongs to no other (brd_landrex.py:368-372).
THEOREM MadeUpIdsAlwaysDiffer == Spec => []MadeUpIdsDiffer
<1>1. Inv => MadeUpIdsDiffer
    BY DEF Inv
<1> QED BY <1>1, ParsersInvariant, PTL

\* Pins of a Landrex file have ids of their own (brd_landrex.py:396-397).
THEOREM PinIdsAlwaysUnique == Spec => []PinIdsUnique
<1>1. Inv => PinIdsUnique
    <2> SUFFICES ASSUME Inv, format = "brd_landrex", NEW i \in DOMAIN pins,
                        NEW j \in DOMAIN pins, pins[i].id = pins[j].id
                 PROVE  i = j
        BY DEF PinIdsUnique
    <2>1. i - 1 = j - 1
        BY DEF Inv, CountedPins
    <2>2. i \in Int /\ j \in Int
        <3>1. pins \in Seq(PinRecord)
            BY DEF Inv, Typed, ListsTyped
        <3> QED BY <3>1
    <2> QED BY <2>1, <2>2
<1> QED BY <1>1, ParsersInvariant, PTL

LEMMA InvPinsHaveParts == Inv => PinsHaveParts
<1> SUFFICES ASSUME Inv, NEW i \in DOMAIN pins
             PROVE  /\ pins[i].of \in DOMAIN parts => parts[pins[i].of].id = pins[i].part
                    /\ format \in {"brd2", "bv_mdb"} /\ pins[i].part # ""
                       => pins[i].of \in DOMAIN parts
    BY DEF PinsHaveParts
<1>1. 0 \notin DOMAIN parts
    BY PartPlaces DEF Inv, Typed
<1>2. CASE format = "brd_landrex"
    BY <1>2 DEF Inv, PinsHome, PartsAreRows
<1>3. CASE format # "brd_landrex"
    BY <1>1, <1>3 DEF Inv, PinsHome
<1> QED BY <1>2, <1>3

\* A pin belongs to a part of the name it has, and only in text .bv files to none
\* that the board has.
THEOREM PinsAlwaysHaveParts == Spec => []PinsHaveParts
BY InvPinsHaveParts, ParsersInvariant, PTL

-----------------------------------------------------------------------------
(* Boxes *)

LEMMA PlaceIsInt == Place \subseteq Point /\ Place \subseteq Int \X Int
BY PlaceAssumption, PointIsInt

LEMMA AtIs ==
    ASSUME NEW p \in Int \X Int
    PROVE  At(p) \in Box /\ Inside(At(p), p)
BY DEF At, Box, Inside

LEMMA OfTwo ==
    ASSUME NEW a \in Int, NEW b \in Int
    PROVE  /\ Least({a, b}) \in {a, b} /\ Least({a, b}) <= a /\ Least({a, b}) <= b
           /\ Greatest({a, b}) \in {a, b} /\ a <= Greatest({a, b}) /\ b <= Greatest({a, b})
           /\ Least({a, b}) \in Int /\ Greatest({a, b}) \in Int
<1> DEFINE S == {a, b}
<1>1. IsFiniteSet(S)
    <2>1. IsFiniteSet({a}) /\ S = {a} \cup {b}
        BY FS_Singleton
    <2> HIDE DEF S
    <2> QED BY <2>1, FS_AddElement
<1>2. S \in SUBSET Int /\ S # {} /\ a \in S /\ b \in S
    OBVIOUS
<1>3. /\ Least(S) \in S /\ \A c \in S : Least(S) <= c
      /\ Greatest(S) \in S /\ \A c \in S : c <= Greatest(S)
    <2> HIDE DEF S
    <2> QED BY <1>1, <1>2, FiniteHasExtrema
<1>4. Least(S) <= a /\ Least(S) <= b /\ a <= Greatest(S) /\ b <= Greatest(S)
    <2> HIDE DEF S
    <2> QED BY <1>2, <1>3
<1> QED BY <1>3, <1>4

\* A box that grows holds the new point and what it held.
LEMMA GrowIs ==
    ASSUME NEW b \in Box, NEW p \in Int \X Int
    PROVE  /\ Grow(b, p) \in Box /\ Inside(Grow(b, p), p)
           /\ \A q \in Int \X Int : Inside(b, q) => Inside(Grow(b, p), q)
<1>1. b.x \in Int /\ b.y \in Int /\ b.width \in Nat /\ b.height \in Nat
    BY DEF Box
<1>2. p[1] \in Int /\ p[2] \in Int /\ b.x + b.width \in Int /\ b.y + b.height \in Int
    BY <1>1
<1>3. PICK l \in Int : l = Least({b.x, p[1]}) /\ l <= b.x /\ l <= p[1]
    <2> DEFINE a == b.x
               c == p[1]
    <2>1. a \in Int /\ c \in Int
        BY <1>1, <1>2
    <2> HIDE DEF a, c
    <2>2. \E v \in Int : v = Least({a, c}) /\ v <= a /\ v <= c
        BY <2>1, OfTwo
    <2> QED BY <2>2 DEF a, c
<1>4. PICK d \in Int : d = Least({b.y, p[2]}) /\ d <= b.y /\ d <= p[2]
    <2> DEFINE a == b.y
               c == p[2]
    <2>1. a \in Int /\ c \in Int
        BY <1>1, <1>2
    <2> HIDE DEF a, c
    <2>2. \E v \in Int : v = Least({a, c}) /\ v <= a /\ v <= c
        BY <2>1, OfTwo
    <2> QED BY <2>2 DEF a, c
<1>5. PICK r \in Int : r = Greatest({b.x + b.width, p[1]}) /\ b.x + b.width <= r /\ p[1] <= r
    <2> DEFINE a == b.x + b.width
               c == p[1]
    <2>1. a \in Int /\ c \in Int
        BY <1>1, <1>2
    <2> HIDE DEF a, c
    <2>2. \E v \in Int : v = Greatest({a, c}) /\ a <= v /\ c <= v
        BY <2>1, OfTwo
    <2> QED BY <2>2 DEF a, c
<1>6. PICK u \in Int : u = Greatest({b.y + b.height, p[2]}) /\ b.y + b.height <= u /\ p[2] <= u
    <2> DEFINE a == b.y + b.height
               c == p[2]
    <2>1. a \in Int /\ c \in Int
        BY <1>1, <1>2
    <2> HIDE DEF a, c
    <2>2. \E v \in Int : v = Greatest({a, c}) /\ a <= v /\ c <= v
        BY <2>1, OfTwo
    <2> QED BY <2>2 DEF a, c
<1>7. Grow(b, p) = [x |-> l, y |-> d, width |-> r - l, height |-> u - d]
    BY <1>3, <1>4, <1>5, <1>6 DEF Grow
<1>8. r - l \in Nat /\ u - d \in Nat
    BY <1>1, <1>2, <1>3, <1>4, <1>5, <1>6
<1>9. Grow(b, p) \in Box
    BY <1>7, <1>8 DEF Box
<1>10. PICK g : /\ g = Grow(b, p) /\ g.x = l /\ g.y = d
                /\ g.x + g.width = r /\ g.y + g.height = u
    BY <1>7
<1>11. \A q : Inside(g, q) <=> q[1] \in l .. r /\ q[2] \in d .. u
    BY <1>10 DEF Inside
<1>12. Inside(g, p)
    BY SMTT(60), <1>2, <1>3, <1>4, <1>5, <1>6, <1>11
<1>13. ASSUME NEW q \in Int \X Int, Inside(b, q) PROVE Inside(g, q)
    <2>1. q[1] \in b.x .. (b.x + b.width) /\ q[2] \in b.y .. (b.y + b.height)
        BY <1>13 DEF Inside
    <2>2. q[1] \in l .. r /\ q[2] \in d .. u
        BY <1>1, <1>3, <1>4, <1>5, <1>6, <2>1
    <2> QED BY <1>11, <2>2
<1> QED BY <1>9, <1>10, <1>12, <1>13

LEMMA ExpandIs ==
    ASSUME NEW b \in Box, NEW p \in Int \X Int
    PROVE  Brd2Expand(b, p) \in Box /\ MdbExpand(b, p) \in Box
BY GrowIs, AtIs DEF Brd2Expand, MdbExpand

\* The box that is measured from points holds them.
LEMMA ExtentIs ==
    ASSUME NEW S \in SUBSET (Int \X Int), IsFiniteSet(S), S # {},
           NEW b, b = [x |-> Least(Xs(S)), y |-> Least(Ys(S)),
                       width |-> Width(S), height |-> Height(S)]
    PROVE  b \in Box /\ \A p \in S : Inside(b, p)
<1>1. Xs(S) \in SUBSET Int /\ Ys(S) \in SUBSET Int /\ Xs(S) # {} /\ Ys(S) # {}
    BY DEF Xs, Ys
<1>2. IsFiniteSet(Xs(S)) /\ IsFiniteSet(Ys(S))
    <2> DEFINE f == [p \in S |-> p[1]]
               g == [p \in S |-> p[2]]
    <2>1. f \in Surjection(S, Xs(S)) /\ g \in Surjection(S, Ys(S))
        BY DEF Surjection, Xs, Ys
    <2> HIDE DEF f, g
    <2> QED BY <2>1, FS_Surjection
<1>3. PICK l \in Int, r \in Int :
          l = Least(Xs(S)) /\ r = Greatest(Xs(S)) /\ \A a \in Xs(S) : l <= a /\ a <= r
    BY <1>1, <1>2, FiniteHasExtrema
<1>4. PICK d \in Int, u \in Int :
          d = Least(Ys(S)) /\ u = Greatest(Ys(S)) /\ \A a \in Ys(S) : d <= a /\ a <= u
    BY <1>1, <1>2, FiniteHasExtrema
<1>5. b = [x |-> l, y |-> d, width |-> r - l, height |-> u - d]
    BY <1>3, <1>4 DEF Width, Height
<1>6. r - l \in Nat /\ u - d \in Nat
    <2>1. PICK p \in S : TRUE
        OBVIOUS
    <2>2. p[1] \in Xs(S) /\ p[2] \in Ys(S)
        BY DEF Xs, Ys
    <2>3. l <= p[1] /\ p[1] <= r /\ d <= p[2] /\ p[2] <= u
        BY <1>3, <1>4, <2>2
    <2>4. p[1] \in Int /\ p[2] \in Int
        OBVIOUS
    <2> QED BY <2>3, <2>4
<1>7. b \in Box
    BY <1>5, <1>6 DEF Box
<1>8. /\ b.x = l /\ b.y = d /\ b.x + b.width = r /\ b.y + b.height = u
    BY <1>5
<1>9. ASSUME NEW p \in S PROVE Inside(b, p)
    <2>1. p[1] \in Xs(S) /\ p[2] \in Ys(S) /\ p[1] \in Int /\ p[2] \in Int
        BY DEF Xs, Ys
    <2>2. p[1] \in l .. r /\ p[2] \in d .. u
        BY <1>3, <1>4, <2>1
    <2> QED BY <1>8, <2>2 DEF Inside
<1> QED BY <1>7, <1>9

-----------------------------------------------------------------------------
(* How a step changes the parts *)

BoxesTyped == parts \in Seq(PartRecord)

OneMore(id, b) == parts' = Append(parts, [id |-> id, bounds |-> b])
OneBox(i, b) == parts' = [parts EXCEPT ![i].bounds = b]

Evolves ==
    \/ parts' = parts
    \/ \E id \in Name, b \in Box : OneMore(id, b)
    \/ \E i \in DOMAIN parts, b \in Box : OneBox(i, b)

LEMMA PartAt ==
    ASSUME BoxesTyped, NEW i \in DOMAIN parts
    PROVE  parts[i].id \in Name /\ parts[i].bounds \in Box
<1>1. parts[i] \in PartRecord
    BY DEF BoxesTyped
<1> QED BY <1>1 DEF PartRecord

LEMMA EvolvesKeepsType ==
    ASSUME BoxesTyped, Evolves
    PROVE  BoxesTyped'
<1>1. ASSUME NEW id \in Name, NEW b \in Box, OneMore(id, b) PROVE BoxesTyped'
    <2>1. [id |-> id, bounds |-> b] \in PartRecord
        BY DEF PartRecord
    <2> QED BY <1>1, <2>1, Longer DEF BoxesTyped, OneMore
<1>2. ASSUME NEW i \in DOMAIN parts, NEW b \in Box, OneBox(i, b) PROVE BoxesTyped'
    <2> DEFINE new == [parts[i] EXCEPT !.bounds = b]
    <2>1. parts[i] \in PartRecord
        BY DEF BoxesTyped
    <2>2. new \in PartRecord
        BY <2>1 DEF PartRecord
    <2>3. parts' = [parts EXCEPT ![i] = new]
        BY <1>2 DEF OneBox
    <2> HIDE DEF new
    <2> QED BY <2>2, <2>3 DEF BoxesTyped
<1>3. CASE parts' = parts
    BY <1>3 DEF BoxesTyped
<1> QED BY <1>1, <1>2, <1>3 DEF Evolves

LEMMA PinEvolves ==
    ASSUME Typed, BoxesTyped, NEW name \in PinName, NEW n \in NetName, NEW p \in Place,
           Pin(name, n, p)
    PROVE  Evolves
<1>1. Len(parts) \in DOMAIN parts
    <2>1. parts # <<>>
        BY DEF Pin
    <2> QED BY <2>1 DEF BoxesTyped
<1> DEFINE b == Brd2Expand(parts[Len(parts)].bounds, p)
<1>2. b \in Box
    BY <1>1, PartAt, ExpandIs, PlaceIsInt
<1>3. OneBox(Len(parts), b)
    BY DEF Pin, OneBox
<1> HIDE DEF b
<1> QED BY <1>1, <1>2, <1>3 DEF Evolves

LEMMA BvPinEvolves ==
    ASSUME Typed, BoxesTyped, NEW id \in Name, NEW name \in PinName, NEW n \in NetName,
           NEW p \in Place, BvPin(id, name, n, p)
    PROVE  Evolves
<1>1. CASE Indexed(id) = 0
    BY <1>1 DEF BvPin, Evolves
<1>2. CASE Indexed(id) # 0
    <2>1. PartsNamed(id) # {} /\ Indexed(id) = Greatest(PartsNamed(id))
        BY <1>2 DEF Indexed
    <2>2. Indexed(id) \in DOMAIN parts
        BY <2>1, LastOfName DEF Typed
    <2> DEFINE b == Grow(parts[Indexed(id)].bounds, p)
    <2>3. b \in Box
        BY <2>2, PartAt, GrowIs, PlaceIsInt
    <2>4. OneBox(Indexed(id), b)
        BY <1>2 DEF BvPin, OneBox
    <2> HIDE DEF b
    <2> QED BY <2>2, <2>3, <2>4 DEF Evolves
<1> QED BY <1>1, <1>2

Put(s, i, x) == [s EXCEPT ![i] = x]

LEMMA LastChanges ==
    ASSUME NEW S, NEW s \in Seq(S), NEW x \in S, NEW y \in S
    PROVE  Put(Append(s, x), Len(s) + 1, y) = Append(s, y)
<1>1. PICK n \in Nat : n = Len(s)
    OBVIOUS
<1>2. \A z \in S : /\ Append(s, z) \in Seq(S) /\ Len(Append(s, z)) = n + 1
                   /\ DOMAIN Append(s, z) = 1 .. (n + 1)
    BY <1>1
<1>3. \A z \in S : \A i \in 1 .. n : Append(s, z)[i] = s[i]
    BY <1>1
<1>4. \A z \in S : Append(s, z)[n + 1] = z
    BY <1>1
<1> DEFINE a == Append(s, x)
           b == Append(s, y)
<1>5. /\ a \in Seq(S) /\ Len(a) = n + 1 /\ DOMAIN a = 1 .. (n + 1)
      /\ b \in Seq(S) /\ Len(b) = n + 1 /\ DOMAIN b = 1 .. (n + 1)
      /\ \A i \in 1 .. n : a[i] = b[i]
      /\ b[n + 1] = y
    BY <1>2, <1>3, <1>4
<1> HIDE DEF a, b
<1>6. a = [i \in 1 .. (n + 1) |-> a[i]] /\ b = [i \in 1 .. (n + 1) |-> b[i]]
    BY <1>5
<1>7. \A i \in 1 .. (n + 1) : i = n + 1 \/ i \in 1 .. n
    OBVIOUS
<1>8. [a EXCEPT ![n + 1] = y] = [i \in 1 .. (n + 1) |-> IF i = n + 1 THEN y ELSE a[i]]
    BY <1>6
<1>9. \A i \in 1 .. (n + 1) : (IF i = n + 1 THEN y ELSE a[i]) = b[i]
    BY <1>5, <1>7
<1>10. [a EXCEPT ![n + 1] = y] = b
    BY <1>6, <1>8, <1>9
<1> QED BY <1>1, <1>10 DEF Put, a, b

Grown(s, id, b) == Append(s, [id |-> id, bounds |-> b])
Filled(s, i, p) == [s EXCEPT ![i].bounds = MdbExpand(s[i].bounds, p)]

\* A part that comes with its first pin comes with a box.
LEMMA ComesWithBox ==
    ASSUME NEW s \in Seq(PartRecord), NEW id \in Name, NEW box \in Box, NEW p \in Place
    PROVE  /\ Len(Grown(s, id, box)) # 0
           /\ \E c \in Box : Filled(Grown(s, id, box), Len(Grown(s, id, box)), p)
                            = Grown(s, id, c)
<1>1. PICK k \in Nat : k = Len(s)
    OBVIOUS
<1> DEFINE new == [id |-> id, bounds |-> box]
           with == Append(s, new)
<1>2. new \in PartRecord /\ new.id = id /\ new.bounds = box /\ new = [id |-> id, bounds |-> box]
    BY DEF PartRecord
<1> HIDE DEF new
<1>3. with \in Seq(PartRecord) /\ with = Append(s, new)
    BY <1>2, Longer
<1> HIDE DEF with
<1>4. Len(with) = k + 1 /\ with[k + 1] = new
    BY <1>1, <1>2, <1>3, Longer
<1>5. with = Grown(s, id, box)
    BY <1>2, <1>3 DEF Grown
<1>6. PICK c \in Box : c = MdbExpand(box, p)
    BY ExpandIs, PlaceIsInt
<1> DEFINE end == [id |-> id, bounds |-> c]
<1>7. end \in PartRecord /\ end = [id |-> id, bounds |-> c]
    BY DEF PartRecord
<1> HIDE DEF end
<1>8. [new EXCEPT !.bounds = c] = end
    BY <1>2, <1>7 DEF PartRecord
<1>9. MdbExpand(with[k + 1].bounds, p) = c
    BY <1>2, <1>4, <1>6
<1>10. [with EXCEPT ![k + 1].bounds = c] = [with EXCEPT ![k + 1] = end]
    BY <1>4, <1>8
<1>11. [with EXCEPT ![k + 1] = end] = Append(s, end)
    <2>1. Put(Append(s, new), Len(s) + 1, end) = Append(s, end)
        BY <1>2, <1>7, LastChanges
    <2> QED BY <1>1, <1>3, <2>1 DEF Put
<1>12. Filled(with, k + 1, p) = Grown(s, id, c)
    BY <1>7, <1>9, <1>10, <1>11 DEF Filled, Grown
<1> QED BY <1>4, <1>5, <1>12

LEMMA PinRowEvolves ==
    ASSUME Typed, BoxesTyped, NEW id \in Name \cup {""}, NEW name \in PinName,
           NEW n \in NetName, NEW p \in Place, PinRow(id, name, n, p)
    PROVE  Evolves
<1> DEFINE known == PartsNamed(id)
           with == IF id = "" \/ known # {} THEN parts
                   ELSE Append(parts, [id |-> id, bounds |-> At(p)])
           of == IF id = "" THEN 0 ELSE IF known = {} THEN Len(with) ELSE Greatest(known)
           b == MdbExpand(with[of].bounds, p)
<1>1. parts' = IF of = 0 THEN with ELSE [with EXCEPT ![of].bounds = b]
    BY DEF PinRow
<1>2. CASE id = ""
    BY <1>1, <1>2 DEF Evolves
<1>3. CASE id # "" /\ known # {}
    <2>1. of = Greatest(known) /\ with = parts
        BY <1>3
    <2>2. of \in DOMAIN parts
        <3> HIDE DEF of, with
        <3> QED BY <1>3, <2>1, LastOfName DEF Typed
    <2>3. of # 0
        <3> HIDE DEF of, with, known
        <3> QED BY <2>2, PartPlaces DEF Typed
    <2>4. b \in Box
        <3> HIDE DEF of, with, known
        <3> QED BY <2>1, <2>2, PartAt, ExpandIs, PlaceIsInt
    <2>5. OneBox(of, b)
        <3> HIDE DEF of, with, known, b
        <3> QED BY <1>1, <2>1, <2>3 DEF OneBox
    <2> HIDE DEF of, with, known, b
    <2> QED BY <2>2, <2>4, <2>5 DEF Evolves
<1>4. CASE id # "" /\ known = {}
    <2> DEFINE box == At(p)
    <2>1. id \in Name /\ box \in Box
        BY <1>4, PlaceIsInt, AtIs
    <2>2. with = Grown(parts, id, box) /\ of = Len(with)
        BY <1>4 DEF Grown
    <2>3. b = MdbExpand(with[of].bounds, p)
        OBVIOUS
    <2> HIDE DEF of, with, known, b, box
    <2>4. parts \in Seq(PartRecord)
        BY DEF BoxesTyped
    <2>5. of # 0 /\ \E c \in Box : Filled(with, of, p) = Grown(parts, id, c)
        <3>1. /\ Len(Grown(parts, id, box)) # 0
              /\ \E c \in Box : Filled(Grown(parts, id, box), Len(Grown(parts, id, box)), p)
                               = Grown(parts, id, c)
            BY <2>1, <2>4, ComesWithBox
        <3> QED BY <2>2, <3>1
    <2>6. parts' = Filled(with, of, p)
        BY <1>1, <2>3, <2>5 DEF Filled
    <2> QED BY <2>1, <2>5, <2>6 DEF Evolves, OneMore, Grown
<1> QED BY <1>2, <1>3, <1>4

\* The points of the pins that were added to a part.
PlacesOf(k) == {pins[i].at : i \in {j \in DOMAIN pins : pins[j].of = k}}

LEMMA PlacesOfIs ==
    ASSUME Typed, NEW k
    PROVE  PlacesOf(k) \in SUBSET (Int \X Int) /\ IsFiniteSet(PlacesOf(k))
<1> DEFINE D == {j \in DOMAIN pins : pins[j].of = k}
<1>1. pins \in Seq(PinRecord)
    BY DEF Typed, ListsTyped
<1>2. \A i \in DOMAIN pins : pins[i].at \in Int \X Int
    <2> TAKE i \in DOMAIN pins
    <2>1. pins[i] \in PinRecord
        BY <1>1
    <2> QED BY <2>1, PlaceIsInt DEF PinRecord
<1>3. IsFiniteSet(D)
    <2>1. PICK n \in Int : n = Len(pins) /\ DOMAIN pins = 1 .. n
        BY <1>1
    <2>2. IsFiniteSet(DOMAIN pins) /\ D \in SUBSET DOMAIN pins
        BY <2>1, FS_Interval
    <2> HIDE DEF D
    <2> QED BY <2>2, FS_Subset
<1>4. IsFiniteSet(PlacesOf(k))
    <2> DEFINE f == [i \in D |-> pins[i].at]
    <2>1. f \in Surjection(D, PlacesOf(k))
        BY DEF Surjection, PlacesOf
    <2> HIDE DEF f, D
    <2> QED BY <1>3, <2>1, FS_Surjection
<1> QED BY <1>2, <1>4 DEF PlacesOf

LEMMA FinishPartIs ==
    ASSUME Typed, FinishPart
    PROVE  \E b \in Box : /\ OneMore(rows.parts[Current].id, b)
                          /\ \A p \in PlacesOf(Current) : Inside(b, p)
<1> DEFINE S == PlacesOf(Current)
           b == IF S = {} THEN At(<<0, 0>>)
                ELSE [x |-> Least(Xs(S)), y |-> Least(Ys(S)),
                      width |-> Width(S), height |-> Height(S)]
<1>1. OneMore(rows.parts[Current].id, b)
    BY DEF FinishPart, AddPart, OneMore, PlacesOf
<1>2. S \in SUBSET (Int \X Int) /\ IsFiniteSet(S)
    BY PlacesOfIs
<1> HIDE DEF S
<1>3. b \in Box /\ \A p \in S : Inside(b, p)
    <2>1. CASE S = {}
        BY <2>1, AtIs
    <2>2. CASE S # {}
        BY <1>2, <2>2, ExtentIs
    <2> QED BY <2>1, <2>2
<1> HIDE DEF b
<1> QED BY <1>1, <1>3 DEF S

LEMMA CurrentName ==
    ASSUME Typed, FinishPart
    PROVE  /\ rows.parts[Current].id \in Name
           /\ Current \in DOMAIN rows.parts
<1>1. rows.parts \in Seq(RawPart) /\ Current \in Nat /\ Current >= 1
    <2>1. Len(parts) \in Nat
        BY PartLists DEF Typed
    <2> QED BY <2>1 DEF Typed, RowsTyped, Current
<1>2. Current <= Len(rows.parts)
    BY DEF FinishPart
<1>3. Current \in DOMAIN rows.parts
    BY <1>1, <1>2
<1>4. rows.parts[Current] \in RawPart
    BY <1>1, <1>3
<1> QED BY <1>3, <1>4 DEF RawPart

LEMMA AddAtEvolves ==
    ASSUME NEW id \in Name, NEW p \in Place, AddPart(id, At(p))
    PROVE  Evolves
<1> DEFINE b == At(p)
<1>1. b \in Box
    BY PlaceIsInt, AtIs
<1>2. OneMore(id, b)
    BY DEF AddPart, OneMore
<1> HIDE DEF b
<1> QED BY <1>1, <1>2 DEF Evolves

LEMMA EveryStepEvolves ==
    ASSUME Typed, BoxesTyped, [Next]_vars
    PROVE  Evolves
<1>1. ASSUME parts' = parts PROVE Evolves
    BY <1>1 DEF Evolves
<1>2. CASE ReadLine
    <2>1. CASE format = "brd2" /\ Brd2Line
        <3>1. ASSUME NEW id \in Name, NEW p \in Place, Component(id, p)
              PROVE  Evolves
            BY <3>1, AddAtEvolves DEF Component
        <3>2. CASE \/ \E w \in Coord, h \in Coord \cup {size[2]} : Brdout(w, h)
                   \/ \E probe \in Probe, n \in NetName : Nail(probe, n)
                   \/ NetList
                   \/ \E p \in Place : OutlineLine(p)
            BY <1>1, <3>2 DEF Brdout, Nail, NetList, OutlineLine, board
        <3> QED BY <2>1, <3>1, <3>2, PinEvolves DEF Brd2Line
    <2>2. CASE format = "bv" /\ BvLine
        <3>1. ASSUME NEW id \in Name, NEW p \in Place, BvPart(id, p)
              PROVE  Evolves
            BY <3>1, AddAtEvolves DEF BvPart
        <3>2. CASE \/ \E s \in {"", "FILEINFO", "PARTS", "PINS", "NAILS", "NETS"} : Section(s)
                   \/ \E i \in {1, 2}, v \in Coord : FileInfo(i, v)
                   \/ \E probe \in Probe, n \in NetName : BvNail(probe, n)
            BY <1>1, <3>2 DEF Section, FileInfo, BvNail, board
        <3> QED BY <2>2, <3>1, <3>2, BvPinEvolves DEF BvLine
    <2>3. CASE format = "bv_mdb" /\ MdbLine
        <3>1. CASE \/ \E s \in {"Pin", "Nail"} : NextTable(s)
                   \/ \E p \in Place : LayoutRow(p)
                   \/ \E grid \in Probe \cup {""}, n \in NetName : NailRow(grid, n)
            BY <1>1, <3>1 DEF NextTable, LayoutRow, NailRow, board
        <3> QED BY <2>3, <3>1, PinRowEvolves DEF MdbLine
    <2>4. CASE format = "brd_landrex" /\ LandrexLine
        BY <1>1, <2>4 DEF LandrexLine, Header, Corner, Row, board
    <2> QED BY <1>2, <2>1, <2>2, <2>3, <2>4 DEF ReadLine
<1>3. CASE AssembleMore
    <2>1. CASE FinishPart
        BY <2>1, FinishPartIs, CurrentName DEF Evolves
    <2>2. CASE TakePin \/ TakeNail
        BY <1>1, <2>2 DEF TakePin, TakeNail
    <2> QED BY <1>3, <2>1, <2>2 DEF AssembleMore, Assemble
<1>4. CASE StartAssembly \/ Finish \/ Fail \/ UNCHANGED vars
    BY <1>1, <1>4 DEF StartAssembly, Finish, Brd2End, BvEnd, MdbEnd, LandrexEnd, Fail, vars, board
<1> QED BY <1>2, <1>3, <1>4 DEF Next

SizeTyped == DOMAIN size = 1 .. 2

LEMMA SizeKeepsType ==
    ASSUME SizeTyped, [Next]_vars
    PROVE  SizeTyped'
<1>1. ASSUME size' = size PROVE SizeTyped'
    BY <1>1 DEF SizeTyped
<1>2. ASSUME NEW a, NEW b, size' = <<a, b>> PROVE SizeTyped'
    BY <1>2 DEF SizeTyped
<1>3. CASE ReadLine
    <2>1. CASE Brd2Line
        <3>1. ASSUME NEW w, NEW h, Brdout(w, h) PROVE SizeTyped'
            BY <1>2, <3>1 DEF Brdout
        <3>2. CASE \/ \E id \in Name, p \in Place : Component(id, p)
                   \/ \E name \in PinName, n \in NetName, p \in Place : Pin(name, n, p)
                   \/ \E probe \in Probe, n \in NetName : Nail(probe, n)
                   \/ NetList
                   \/ \E p \in Place : OutlineLine(p)
            BY <1>1, <3>2 DEF Component, Pin, Nail, NetList, OutlineLine, shape
        <3> QED BY <2>1, <3>1, <3>2 DEF Brd2Line
    <2>2. CASE BvLine
        <3>1. ASSUME NEW i, NEW v, FileInfo(i, v) PROVE SizeTyped'
            BY <3>1 DEF FileInfo, SizeTyped
        <3>2. CASE \/ \E s \in {"", "FILEINFO", "PARTS", "PINS", "NAILS", "NETS"} : Section(s)
                   \/ \E id \in Name, p \in Place : BvPart(id, p)
                   \/ \E id \in Name, name \in PinName, n \in NetName, p \in Place :
                        BvPin(id, name, n, p)
                   \/ \E probe \in Probe, n \in NetName : BvNail(probe, n)
            BY <1>1, <3>2 DEF Section, BvPart, BvPin, BvNail, shape
        <3> QED BY <2>2, <3>1, <3>2 DEF BvLine
    <2>3. CASE MdbLine \/ LandrexLine
        BY ZenonT(60), <1>1, <2>3 DEF MdbLine, NextTable, LayoutRow, PinRow, NailRow,
                          LandrexLine, Header, Corner, Row, shape
    <2> QED BY <1>3, <2>1, <2>2, <2>3 DEF ReadLine
<1>4. CASE Finish
    <2>1. size' = size \/ \E a, b : size' = <<a, b>>
        <3>1. CASE Brd2End
            BY <3>1 DEF Brd2End
        <3>2. CASE BvEnd
            BY <3>2 DEF BvEnd
        <3>3. CASE MdbEnd
            BY <3>3 DEF MdbEnd
        <3>4. CASE LandrexEnd
            BY <3>4 DEF LandrexEnd
        <3> QED BY <1>4, <3>1, <3>2, <3>3, <3>4 DEF Finish
    <2> QED BY <1>1, <1>2, <2>1
<1>5. CASE StartAssembly \/ AssembleMore \/ Fail \/ UNCHANGED vars
    BY <1>1, <1>5 DEF StartAssembly, AssembleMore, Assemble, TakePin, FinishPart, TakeNail,
                      Fail, vars, shape
<1> QED BY <1>3, <1>4, <1>5 DEF Next

-----------------------------------------------------------------------------
(* The boxes of .bv and Landrex files and the pins in them                     *)

AllBoxed == \A i \in DOMAIN pins : Boxed(i)

PinComes(x) == x \in PinRecord /\ pins' = Append(pins, x)

HoldsOn ==
    \/ pins' = pins /\ parts' = parts
    \/ \E id \in Name, b \in Box : /\ pins' = pins /\ OneMore(id, b)
                                   /\ \A p \in PlacesOf(Current) : Inside(b, p)
    \/ \E x \in PinRecord : PinComes(x) /\ parts' = parts /\ x.of \notin DOMAIN parts
    \/ \E x \in PinRecord : /\ PinComes(x) /\ x.of \in DOMAIN parts
                            /\ OneBox(x.of, Grow(parts[x.of].bounds, x.at))

LEMMA PinAt ==
    ASSUME pins \in Seq(PinRecord), NEW i \in DOMAIN pins
    PROVE  pins[i].at \in Int \X Int /\ pins[i] \in PinRecord
<1>1. pins[i] \in PinRecord
    OBVIOUS
<1> QED BY <1>1, PlaceIsInt DEF PinRecord

\* A box changes: what it was is still there but for its bounds.
LEMMA OneBoxIs ==
    ASSUME BoxesTyped, NEW i \in DOMAIN parts, NEW b, OneBox(i, b)
    PROVE  /\ DOMAIN parts' = DOMAIN parts
           /\ parts'[i].bounds = b
           /\ \A j \in DOMAIN parts \ {i} : parts'[j] = parts[j]
<1> DEFINE new == [parts[i] EXCEPT !.bounds = b]
<1>1. parts[i] \in PartRecord /\ parts \in [DOMAIN parts -> PartRecord]
    <2>1. parts \in Seq(PartRecord)
        BY DEF BoxesTyped
    <2> QED BY <2>1
<1>2. new.bounds = b
    BY <1>1 DEF PartRecord
<1>3. parts' = [parts EXCEPT ![i] = new]
    BY DEF OneBox
<1> HIDE DEF new
<1> QED BY <1>1, <1>2, <1>3

LEMMA OneMoreIs ==
    ASSUME BoxesTyped, NEW id \in Name, NEW b \in Box, OneMore(id, b)
    PROVE  /\ DOMAIN parts' = DOMAIN parts \cup {Current}
           /\ parts'[Current].bounds = b /\ Current \notin DOMAIN parts
           /\ \A j \in DOMAIN parts : parts'[j] = parts[j]
<1> DEFINE new == [id |-> id, bounds |-> b]
<1>1. new \in PartRecord /\ new.bounds = b /\ parts \in Seq(PartRecord)
    BY DEF PartRecord, BoxesTyped
<1>2. parts' = Append(parts, new)
    BY DEF OneMore
<1> HIDE DEF new
<1>3. /\ DOMAIN parts' = DOMAIN parts \cup {Current}
      /\ parts'[Current] = new
      /\ \A j \in DOMAIN parts : parts'[j] = parts[j]
    BY <1>1, <1>2, Longer DEF Current
<1>4. Current \notin DOMAIN parts
    BY <1>1, Longer DEF Current
<1> QED BY <1>1, <1>3, <1>4

LEMMA PinComesIs ==
    ASSUME pins \in Seq(PinRecord), NEW x, PinComes(x)
    PROVE  \A i \in DOMAIN pins' : pins'[i] = x \/ (i \in DOMAIN pins /\ pins'[i] = pins[i])
BY Longer DEF PinComes

LEMMA HoldsOnKeeps ==
    ASSUME BoxesTyped, pins \in Seq(PinRecord), AllBoxed, HoldsOn
    PROVE  AllBoxed'
<1>1. \A i \in DOMAIN pins :
        pins[i].of \in DOMAIN parts => Inside(parts[pins[i].of].bounds, pins[i].at)
    BY DEF AllBoxed, Boxed
<1> SUFFICES \A i \in DOMAIN pins' :
        pins'[i].of \in DOMAIN parts' => Inside(parts'[pins'[i].of].bounds, pins'[i].at)
    BY DEF AllBoxed, Boxed
<1>2. CASE pins' = pins /\ parts' = parts
    BY <1>1, <1>2
<1>3. ASSUME NEW id \in Name, NEW b \in Box, pins' = pins, OneMore(id, b),
             \A p \in PlacesOf(Current) : Inside(b, p),
             NEW i \in DOMAIN pins', pins'[i].of \in DOMAIN parts'
      PROVE  Inside(parts'[pins'[i].of].bounds, pins'[i].at)
    <2>1. /\ DOMAIN parts' = DOMAIN parts \cup {Current}
          /\ parts'[Current].bounds = b /\ Current \notin DOMAIN parts
          /\ \A j \in DOMAIN parts : parts'[j] = parts[j]
        BY <1>3, OneMoreIs
    <2>2. CASE pins[i].of = Current
        <3>1. pins[i].at \in PlacesOf(Current)
            BY <1>3, <2>2 DEF PlacesOf
        <3> QED BY <1>3, <2>1, <2>2, <3>1
    <2>3. CASE pins[i].of \in DOMAIN parts
        BY <1>1, <1>3, <2>1, <2>3
    <2> QED BY <1>3, <2>1, <2>2, <2>3
<1>4. ASSUME NEW x \in PinRecord, PinComes(x), parts' = parts, x.of \notin DOMAIN parts
      PROVE  \A i \in DOMAIN pins' :
        pins'[i].of \in DOMAIN parts' => Inside(parts'[pins'[i].of].bounds, pins'[i].at)
    BY <1>1, <1>4, PinComesIs
<1>5. ASSUME NEW x \in PinRecord, PinComes(x), x.of \in DOMAIN parts,
             OneBox(x.of, Grow(parts[x.of].bounds, x.at)),
             NEW i \in DOMAIN pins', pins'[i].of \in DOMAIN parts'
      PROVE  Inside(parts'[pins'[i].of].bounds, pins'[i].at)
    <2> DEFINE was == parts[x.of].bounds
               box == Grow(was, x.at)
    <2>1. was \in Box /\ x.at \in Int \X Int
        <3>1. x.at \in Place
            BY DEF PinRecord
        <3> QED BY <1>5, <3>1, PartAt, PlaceIsInt
    <2>2. /\ Inside(box, x.at)
          /\ \A q \in Int \X Int : Inside(was, q) => Inside(box, q)
        <3> HIDE DEF was
        <3> QED BY <2>1, GrowIs
    <2>3. OneBox(x.of, box)
        BY <1>5
    <2> HIDE DEF box
    <2>4. /\ DOMAIN parts' = DOMAIN parts /\ parts'[x.of].bounds = box
          /\ \A j \in DOMAIN parts \ {x.of} : parts'[j] = parts[j]
        BY <1>5, <2>3, OneBoxIs
    <2>5. CASE pins'[i] = x
        BY <2>2, <2>4, <2>5
    <2>6. CASE i \in DOMAIN pins /\ pins'[i] = pins[i]
        <3>1. pins[i].at \in Int \X Int
            BY <2>6, PinAt
        <3>2. Inside(parts[pins[i].of].bounds, pins[i].at)
            BY <1>1, <1>5, <2>4, <2>6
        <3>3. CASE pins[i].of = x.of
            BY <2>2, <2>4, <2>6, <3>1, <3>2, <3>3
        <3>4. CASE pins[i].of # x.of
            BY <1>5, <2>4, <2>6, <3>2, <3>4
        <3> QED BY <3>3, <3>4
    <2> QED BY <1>5, <2>5, <2>6, PinComesIs
<1> QED BY <1>2, <1>3, <1>4, <1>5 DEF HoldsOn

LEMMA BvPinHolds ==
    ASSUME Typed, NEW id \in Name, NEW name \in PinName, NEW n \in NetName, NEW p \in Place,
           BvPin(id, name, n, p)
    PROVE  HoldsOn
<1> DEFINE x == [id |-> <<id, name>>, part |-> id, key |-> BvNet(n), net |-> BvNet(n),
                 at |-> p, of |-> Indexed(id)]
<1>1. PinComes(x)
    <2>1. pins' = Append(pins, x)
        BY DEF BvPin, AddPin
    <2>2. Indexed(id) \in Nat
        <3>1. CASE Indexed(id) = 0
            BY <3>1
        <3>2. CASE Indexed(id) # 0
            <4>1. PartsNamed(id) # {} /\ Indexed(id) = Greatest(PartsNamed(id))
                BY <3>2 DEF Indexed
            <4>2. Indexed(id) \in DOMAIN parts
                BY <4>1, LastOfName DEF Typed
            <4> QED BY <4>2, PartPlaces DEF Typed
        <3> QED BY <3>1, <3>2
    <2>3. BvNet(n) \in NetName \cup {""}
        BY Keys
    <2>4. x \in PinRecord
        <3>1. /\ <<id, name>> \in PinId
              /\ BvNet(n) \in NetId \cup {""}
            BY <2>3 DEF PinId, NetId
        <3> QED BY <2>2, <2>3, <3>1 DEF PinRecord
    <2> QED BY <2>1, <2>4 DEF PinComes
<1>2. x.of = Indexed(id) /\ x.at = p
    OBVIOUS
<1>3. CASE Indexed(id) = 0
    <2>1. parts' = parts
        BY <1>3 DEF BvPin
    <2>2. x.of \notin DOMAIN parts
        <3> HIDE DEF x
        <3> QED BY <1>2, <1>3, PartPlaces DEF Typed
    <2> HIDE DEF x
    <2> QED BY <1>1, <2>1, <2>2 DEF HoldsOn, PinComes
<1>4. CASE Indexed(id) # 0
    <2>1. PartsNamed(id) # {} /\ Indexed(id) = Greatest(PartsNamed(id))
        BY <1>4 DEF Indexed
    <2>2. Indexed(id) \in DOMAIN parts
        BY <2>1, LastOfName DEF Typed
    <2>3. OneBox(Indexed(id), Grow(parts[Indexed(id)].bounds, p))
        BY <1>4 DEF BvPin, OneBox
    <2> HIDE DEF x
    <2> QED BY <1>1, <1>2, <2>2, <2>3 DEF HoldsOn, PinComes
<1> QED BY <1>3, <1>4

LEMMA BvPartHolds ==
    ASSUME Typed, PinsHome, format = "bv", NEW id \in Name, NEW p \in Place, BvPart(id, p)
    PROVE  HoldsOn
<1>1. pins' = pins /\ OneMore(id, At(p))
    BY DEF BvPart, AddPart, OneMore
<1>2. At(p) \in Box
    BY PlaceIsInt, AtIs
<1>3. PlacesOf(Current) = {}
    <2>1. Len(parts) \in Nat /\ DOMAIN parts = 1 .. Len(parts)
        BY PartLists DEF Typed
    <2>2. Current # 0 /\ Current \notin DOMAIN parts
        BY <2>1 DEF Current
    <2>3. \A i \in DOMAIN pins : pins[i].of # Current
        BY <2>2 DEF PinsHome
    <2> QED BY <2>3 DEF PlacesOf
<1> QED BY <1>1, <1>2, <1>3 DEF HoldsOn

LEMMA TakePinHolds ==
    ASSUME Typed, format = "brd_landrex", TakePin
    PROVE  HoldsOn
<1> DEFINE x == [id |-> PinIdOf(rows.parts[Current].id), part |-> rows.parts[Current].id,
                 key |-> LandrexNet(rows.pins[ShareStart(Current) + taken].net),
                 net |-> IdOf(nets', LandrexNet(rows.pins[ShareStart(Current) + taken].net)),
                 at |-> rows.pins[ShareStart(Current) + taken].at, of |-> Current]
<1>1. pins' = Append(pins, x) /\ parts' = parts /\ x.of = Current
    BY DEF TakePin
<1>2. x \in PinRecord
    <2> HIDE DEF x
    <2>1. pins \in Seq(PinRecord) /\ pins' \in Seq(PinRecord)
        <3>1. Connects
            BY TakePinConnects
        <3> QED BY <3>1, ListsKeepType DEF Typed, ListsTyped
    <2> QED BY <1>1, <2>1
<1>3. x.of \notin DOMAIN parts
    <2>1. Len(parts) \in Nat /\ DOMAIN parts = 1 .. Len(parts)
        BY PartLists DEF Typed
    <2> HIDE DEF x
    <2> QED BY <1>1, <2>1 DEF Current
<1> HIDE DEF x
<1> QED BY <1>1, <1>2, <1>3 DEF HoldsOn, PinComes

LEMMA EveryStepHolds ==
    ASSUME Typed, PinsHome, [Next]_vars, format \in {"bv", "brd_landrex"}
    PROVE  HoldsOn
<1>1. ASSUME parts' = parts, pins' = pins PROVE HoldsOn
    BY <1>1 DEF HoldsOn
<1>2. CASE ReadLine
    <2>1. CASE format = "bv" /\ BvLine
        <3>1. CASE \/ \E s \in {"", "FILEINFO", "PARTS", "PINS", "NAILS", "NETS"} : Section(s)
                   \/ \E i \in {1, 2}, v \in Coord : FileInfo(i, v)
                   \/ \E probe \in Probe, n \in NetName : BvNail(probe, n)
            BY <1>1, <3>1 DEF Section, FileInfo, BvNail, board
        <3> QED BY <2>1, <3>1, BvPartHolds, BvPinHolds DEF BvLine
    <2>2. CASE format = "brd_landrex" /\ LandrexLine
        BY <1>1, <2>2 DEF LandrexLine, Header, Corner, Row, board
    <2> QED BY <1>2, <2>1, <2>2 DEF ReadLine
<1>3. CASE AssembleMore
    <2>1. format = "brd_landrex"
        BY <1>3 DEF AssembleMore, Typed
    <2>2. CASE FinishPart
        <3>1. pins' = pins
            BY <2>2 DEF FinishPart
        <3> QED BY <2>2, <3>1, FinishPartIs, CurrentName DEF HoldsOn
    <2>3. CASE TakeNail
        BY <1>1, <2>3 DEF TakeNail
    <2> QED BY <1>3, <2>1, <2>2, <2>3, TakePinHolds DEF AssembleMore, Assemble
<1>4. CASE StartAssembly \/ Finish \/ Fail \/ UNCHANGED vars
    BY <1>1, <1>4 DEF StartAssembly, Finish, Brd2End, BvEnd, MdbEnd, LandrexEnd, Fail, vars, board
<1> QED BY <1>2, <1>3, <1>4 DEF Next

LEMMA BoxesHoldPinsStep ==
    ASSUME Typed, PinsHome, BoxesTyped, BoxesHoldPins, [Next]_vars
    PROVE  BoxesHoldPins'
<1> SUFFICES ASSUME format \in {"bv", "brd_landrex"} PROVE AllBoxed'
    BY FormatStays DEF BoxesHoldPins, AllBoxed
<1>1. AllBoxed /\ pins \in Seq(PinRecord)
    BY DEF BoxesHoldPins, AllBoxed, Typed, ListsTyped
<1> QED BY <1>1, EveryStepHolds, HoldsOnKeeps

-----------------------------------------------------------------------------
(* The shares of the parts of a Landrex file                                   *)

\* How many rows the first k parts take in.
Reached(k) == IF k = 0 THEN 0 ELSE ShareEnd(k)

InOrder == \A k \in 2 .. Len(rows.parts) : rows.parts[k - 1].end <= rows.parts[k].end

IsRow(i) ==
    /\ i \in DOMAIN rows.pins /\ pins[i].at = rows.pins[i].at
    /\ pins[i].key = LandrexNet(rows.pins[i].net)

Shared ==
    /\ Len(pins) = Reached(Len(parts)) + taken
    /\ taken > 0 => Len(pins) <= Reached(Len(parts) + 1)
    /\ \A i \in DOMAIN pins : IsRow(i)

InShares ==
    format = "brd_landrex" =>
        /\ phase = "lines" => taken = 0
        /\ taken > 0 => Len(parts) < Len(rows.parts)
        /\ phase = "done" => Len(parts) = Len(rows.parts)
        /\ InOrder => Shared

Lesser(a, b) == IF a < b THEN a ELSE b

LEMMA ShareIs ==
    ASSUME Typed, Current <= Len(rows.parts)
    PROVE  \E a, e, l \in Nat :
            /\ l = Len(rows.pins) /\ ShareStart(Current) = a + 1
            /\ ShareEnd(Current) = Lesser(e, l)
            /\ Reached(Len(parts)) = Lesser(a, l) /\ Reached(Len(parts) + 1) = Lesser(e, l)
            /\ InOrder => a <= e
<1>1. rows.parts \in Seq(RawPart) /\ rows.pins \in Seq(RawPin)
    BY DEF Typed, RowsTyped
<1>2. PICK n \in Nat : n = Len(parts)
    BY PartLists DEF Typed
<1>3. PICK m \in Nat : m = Len(rows.parts)
    BY <1>1
<1>4. PICK l \in Nat : l = Len(rows.pins)
    BY <1>1
<1>5. n + 1 \in 1 .. m /\ Current = n + 1
    BY <1>2, <1>3 DEF Current
<1>6. \A k \in 1 .. m : rows.parts[k].end \in Nat
    <2>1. \A k \in 1 .. m : rows.parts[k] \in RawPart
        BY <1>1, <1>3
    <2> QED BY <2>1, LandrexAssumption DEF RawPart
<1>7. PICK e \in Nat : e = rows.parts[n + 1].end
    BY <1>5, <1>6
<1>8. /\ ShareEnd(Current) = Lesser(e, l) /\ Reached(Len(parts) + 1) = Lesser(e, l)
    BY <1>2, <1>4, <1>5, <1>7 DEF ShareEnd, Reached, Lesser
<1>9. CASE n = 0
    <2>1. /\ ShareStart(Current) = 0 + 1 /\ Reached(Len(parts)) = Lesser(0, l) /\ 0 <= e
        BY <1>2, <1>5, <1>9 DEF ShareStart, Reached, Lesser
    <2> QED BY <1>4, <1>8, <2>1
<1>10. CASE n # 0
    <2>1. n \in 1 .. m /\ n + 1 \in 2 .. m /\ (n + 1) - 1 = n
        BY <1>5, <1>10
    <2>2. PICK a \in Nat : a = rows.parts[n].end
        BY <1>6, <2>1
    <2>3. ShareStart(Current) = a + 1
        BY <1>5, <2>1, <2>2, <1>10 DEF ShareStart
    <2>4. Reached(Len(parts)) = Lesser(a, l)
        BY <1>2, <1>4, <1>10, <2>2 DEF ShareEnd, Reached, Lesser
    <2>5. InOrder => a <= e
        BY <1>3, <1>7, <2>1, <2>2 DEF InOrder
    <2> QED BY <1>4, <1>8, <2>3, <2>4, <2>5
<1> QED BY <1>9, <1>10

LEMMA TakePinShares ==
    ASSUME Typed, format = "brd_landrex", phase = "assembly", phase' = phase,
           InShares, TakePin
    PROVE  InShares'
<1> DEFINE row == rows.pins[ShareStart(Current) + taken]
           part == rows.parts[Current].id
           x == [id |-> PinIdOf(part), part |-> part, key |-> LandrexNet(row.net),
                 net |-> IdOf(nets', LandrexNet(row.net)), at |-> row.at, of |-> Current]
<1>1. /\ pins' = Append(pins, x) /\ parts' = parts /\ rows' = rows /\ taken' = taken + 1
      /\ x.at = row.at /\ x.key = LandrexNet(row.net)
      /\ Current <= Len(rows.parts) /\ ShareStart(Current) + taken <= ShareEnd(Current)
    BY DEF TakePin
<1>2. pins \in Seq(PinRecord) /\ pins' \in Seq(PinRecord)
    <2>1. Connects
        BY TakePinConnects
    <2> QED BY <2>1, ListsKeepType DEF Typed, ListsTyped
<1> HIDE DEF x, row
<1>3. x \in PinRecord
    BY <1>1, <1>2
<1>4. /\ Len(pins') = Len(pins) + 1 /\ Len(pins) \in Nat
      /\ DOMAIN pins' = DOMAIN pins \cup {Len(pins) + 1}
      /\ \A i \in DOMAIN pins : pins'[i] = pins[i]
      /\ pins'[Len(pins) + 1] = x
    BY <1>1, <1>2, <1>3, Longer
<1>5. PICK t \in Nat : t = taken
    BY DEF Typed, RowsTyped
<1>6. PICK n \in Nat : n = Len(parts)
    BY PartLists DEF Typed
<1>7. PICK m \in Nat : m = Len(rows.parts)
    BY DEF Typed, RowsTyped
<1>8. n < m
    BY <1>1, <1>6, <1>7 DEF Current
<1>9. PICK a \in Nat, e \in Nat, l \in Nat :
            /\ l = Len(rows.pins) /\ ShareStart(Current) = a + 1
            /\ ShareEnd(Current) = Lesser(e, l)
            /\ Reached(Len(parts)) = Lesser(a, l) /\ Reached(Len(parts) + 1) = Lesser(e, l)
            /\ InOrder => a <= e
    BY <1>1, ShareIs
<1>10. InOrder' <=> InOrder
    BY <1>1 DEF InOrder
<1>11. \A k : Reached(k)' = Reached(k)
    BY <1>1 DEF Reached, ShareEnd
<1>12. ASSUME InOrder
       PROVE  Shared'
    <2>1. Shared
        BY <1>12 DEF InShares
    <2>2. PICK p \in Nat : p = Len(pins)
        BY <1>4
    <2>3. p = Lesser(a, l) + t /\ (a + 1) + t <= Lesser(e, l)
        BY <1>1, <1>5, <1>9, <2>1, <2>2 DEF Shared
    <2>4. p = a + t /\ p + 1 <= Lesser(e, l) /\ p + 1 \in 1 .. l
        BY <2>3 DEF Lesser
    <2>5. p + 1 = Lesser(a, l) + (t + 1)
        BY <2>3, <2>4 DEF Lesser
    <2>6. Len(pins') = Reached(Len(parts')) + taken'
        BY <1>1, <1>4, <1>5, <1>9, <1>11, <2>2, <2>5
    <2>7. Len(pins') <= Reached(Len(parts') + 1)
        BY <1>1, <1>4, <1>9, <1>11, <2>2, <2>4
    <2>8. row = rows.pins[p + 1] /\ p + 1 \in DOMAIN rows.pins
        <3>1. ShareStart(Current) + taken = p + 1
            BY <1>5, <1>9, <2>4
        <3>2. DOMAIN rows.pins = 1 .. l
            BY <1>9 DEF Typed, RowsTyped
        <3> QED BY <2>4, <3>1, <3>2 DEF row
    <2>9. \A i \in DOMAIN pins' : IsRow(i)'
        <3>1. IsRow(p + 1)'
            BY <1>1, <1>4, <2>2, <2>8 DEF IsRow
        <3>2. ASSUME NEW i \in DOMAIN pins PROVE IsRow(i)'
            <4>1. IsRow(i)
                BY <2>1 DEF Shared
            <4> QED BY <1>1, <1>4, <4>1 DEF IsRow
        <3> QED BY <1>4, <2>2, <3>1, <3>2
    <2> QED BY <1>1, <2>6, <2>7, <2>9 DEF Shared, Reached, ShareEnd
<1> QED BY <1>1, <1>6, <1>7, <1>8, <1>10, <1>12 DEF InShares

LEMMA FinishPartShares ==
    ASSUME Typed, format = "brd_landrex", phase = "assembly", phase' = phase,
           InShares, FinishPart
    PROVE  InShares'
<1>1. /\ pins' = pins /\ rows' = rows /\ taken' = 0
      /\ Current <= Len(rows.parts) /\ ShareStart(Current) + taken > ShareEnd(Current)
    BY DEF FinishPart
<1>2. PICK t \in Nat : t = taken
    BY DEF Typed, RowsTyped
<1>3. PICK n \in Nat : n = Len(parts)
    BY PartLists DEF Typed
<1>4. Len(parts') = n + 1
    <2>1. \E b : parts' = Append(parts, [id |-> rows.parts[Current].id, bounds |-> b])
        BY DEF FinishPart, AddPart
    <2>2. PICK b : parts' = Append(parts, [id |-> rows.parts[Current].id, bounds |-> b])
        BY <2>1
    <2>3. rows.parts[Current].id \in Name
        BY CurrentName
    <2>4. Gains(parts, parts', rows.parts[Current].id)
        BY <2>2, <2>3, PartComes DEF Typed
    <2> QED BY <1>3, <2>4 DEF Gains
<1>5. PICK a \in Nat, e \in Nat, l \in Nat :
            /\ l = Len(rows.pins) /\ ShareStart(Current) = a + 1
            /\ ShareEnd(Current) = Lesser(e, l)
            /\ Reached(Len(parts)) = Lesser(a, l) /\ Reached(Len(parts) + 1) = Lesser(e, l)
            /\ InOrder => a <= e
    BY <1>1, ShareIs
<1>6. InOrder' <=> InOrder
    BY <1>1 DEF InOrder
<1>7. \A k : Reached(k)' = Reached(k)
    BY <1>1 DEF Reached, ShareEnd
<1>8. ASSUME InOrder
      PROVE  Shared'
    <2>1. Shared /\ a <= e
        BY <1>5, <1>8 DEF InShares
    <2>2. PICK p \in Nat : p = Len(pins)
        BY DEF Typed, ListsTyped
    <2>3. /\ p = Lesser(a, l) + t /\ (a + 1) + t > Lesser(e, l)
          /\ t > 0 => p <= Lesser(e, l)
        BY <1>1, <1>2, <1>5, <2>1, <2>2 DEF Shared
    <2>4. p = Lesser(e, l)
        BY <2>1, <2>3 DEF Lesser
    <2>5. Len(pins') = Reached(Len(parts')) + taken'
        BY <1>1, <1>3, <1>4, <1>5, <1>7, <2>2, <2>4
    <2>6. \A i \in DOMAIN pins' : IsRow(i)'
        BY <1>1, <2>1 DEF Shared, IsRow
    <2> QED BY <1>1, <2>5, <2>6 DEF Shared, Reached, ShareEnd
<1> QED BY <1>1, <1>6, <1>8 DEF InShares

LEMMA InSharesStep ==
    ASSUME Typed, PartsAreRows, InShares, [Next]_vars
    PROVE  InShares'
<1> SUFFICES ASSUME format = "brd_landrex" PROVE InShares'
    BY FormatStays DEF InShares
<1>1. format' = format
    BY FormatStays
<1>2. ASSUME pins' = pins, parts' = parts, rows' = rows, taken' = taken,
             phase' # "lines",
             phase' = "done" => Len(parts) = Len(rows.parts)
      PROVE  InShares'
    <2>1. (InOrder' <=> InOrder) /\ (Shared' <=> Shared)
        BY <1>2 DEF InOrder, Shared, Reached, ShareEnd, IsRow
    <2> QED BY <1>2, <2>1 DEF InShares
<1>3. ASSUME pins' = pins, parts' = parts, taken' = taken, phase = "lines", phase' = phase
      PROVE  InShares'
    <2>1. taken = 0 /\ parts = <<>> /\ pins = <<>>
        BY <1>3 DEF InShares, PartsAreRows
    <2>2. Len(parts) = 0 /\ Len(pins) = 0 /\ DOMAIN pins = {}
        <3>1. pins \in Seq(PinRecord)
            BY DEF Typed, ListsTyped
        <3> QED BY <2>1, <3>1
    <2>3. Shared'
        BY <1>3, <2>1, <2>2 DEF Shared, Reached
    <2> QED BY <1>3, <2>1, <2>3 DEF InShares
<1>4. CASE ReadLine
    BY <1>3, <1>4 DEF ReadLine, LandrexLine, Header, Corner, Row, board, raw
<1>5. CASE AssembleMore
    <2>1. phase = "assembly" /\ phase' = phase /\ Assemble
        BY <1>5 DEF AssembleMore
    <2>2. CASE TakeNail
        BY <1>2, <2>1, <2>2 DEF TakeNail, raw
    <2> QED BY <2>1, <2>2, TakePinShares, FinishPartShares DEF Assemble
<1>6. CASE StartAssembly
    BY <1>2, <1>6 DEF StartAssembly, board, raw
<1>7. CASE Finish
    <2>1. LandrexEnd /\ phase' = "done"
        BY <1>7 DEF Finish
    <2> QED BY <1>2, <2>1 DEF LandrexEnd, board, raw
<1>8. CASE Fail
    BY <1>2, <1>8 DEF Fail, board, raw
<1>9. CASE UNCHANGED vars
    <2>1. CASE phase = "lines"
        BY <1>3, <1>9, <2>1 DEF vars, board, raw
    <2>2. CASE phase # "lines"
        BY <1>2, <1>9, <2>2 DEF vars, board, raw, InShares
    <2> QED BY <2>1, <2>2
<1> QED BY <1>4, <1>5, <1>6, <1>7, <1>8, <1>9 DEF Next

LEMMA SharesMakeRows ==
    ASSUME Typed, InShares
    PROVE  RowsBecomePins
<1> SUFFICES ASSUME format = "brd_landrex", phase = "done", Len(rows.parts) > 0,
                    \A k \in 2 .. Len(rows.parts) :
                        rows.parts[k - 1].end <= rows.parts[k].end,
                    rows.parts[Len(rows.parts)].end >= Len(rows.pins)
             PROVE  /\ Len(pins) = Len(rows.pins)
                    /\ \A i \in DOMAIN pins : pins[i].at = rows.pins[i].at
                                              /\ pins[i].key = LandrexNet(rows.pins[i].net)
    BY DEF RowsBecomePins
<1>1. PICK n \in Nat : n = Len(rows.parts)
    BY DEF Typed, RowsTyped
<1>2. PICK l \in Nat : l = Len(rows.pins)
    BY DEF Typed, RowsTyped
<1>3. PICK e \in Nat : e = rows.parts[n].end
    <2>1. rows.parts \in Seq(RawPart) /\ n \in DOMAIN rows.parts
        BY <1>1 DEF Typed, RowsTyped
    <2>2. rows.parts[n] \in RawPart
        BY <2>1
    <2> QED BY <2>2, LandrexAssumption DEF RawPart
<1>4. Shared /\ Len(parts) = n /\ taken = 0
    <2>1. InOrder /\ taken \in Nat
        BY DEF InOrder, Typed, RowsTyped
    <2> QED BY <1>1, <2>1 DEF InShares
<1>5. Reached(n) = l
    BY <1>1, <1>2, <1>3 DEF Reached, ShareEnd
<1>6. Len(pins) = l /\ \A i \in DOMAIN pins : IsRow(i)
    BY <1>2, <1>4, <1>5 DEF Shared
<1> QED BY <1>2, <1>6 DEF IsRow

-----------------------------------------------------------------------------
(* The outlines of parts                                                       *)

DrawnIs ==
    phase = "done" =>
        drawn = [i \in DOMAIN parts |->
            PartGeometry(LetterOf[parts[i].id], PositionsOf(pins, parts[i].id))]

LEMMA DrawnIsStep ==
    ASSUME Typed, DrawnIs, [Next]_vars
    PROVE  DrawnIs'
<1>1. CASE Finish
    <2>1. Draw /\ UNCHANGED board
        BY <1>1 DEF Finish, Brd2End, BvEnd, MdbEnd, LandrexEnd
    <2> QED BY <2>1 DEF Draw, board, DrawnIs
<1>2. CASE ReadLine \/ StartAssembly \/ AssembleMore \/ Fail
    BY <1>2 DEF ReadLine, StartAssembly, AssembleMore, Fail, DrawnIs
<1>3. CASE UNCHANGED vars
    BY <1>3 DEF vars, board, shape, DrawnIs
<1> QED BY <1>1, <1>2, <1>3 DEF Next

\* The positions of a part are those of all its pins.
LEMMA PositionsIs ==
    ASSUME NEW list \in Seq(PinRecord), NEW id
    PROVE  /\ PositionsOf(list, id) \in Seq(Place)
           /\ \A i \in DOMAIN list : list[i].part = id =>
                \E j \in DOMAIN PositionsOf(list, id) : PositionsOf(list, id)[j] = list[i].at
<1> DEFINE n == Len(list)
           A == Seq(Place)
           Round(x, k) == IF list[k].part = id THEN Append(x, list[k].at) ELSE x
           step == [t \in (1 .. n) \X A |-> Round(t[2], t[1])]
           upto == CHOOSE u : u = [k \in 0 .. n |-> IF k = 0 THEN <<>> ELSE Round(u[k - 1], k)]
<1>1. n \in Nat /\ DOMAIN list = 1 .. n
    OBVIOUS
<1>2. \A k \in 1 .. n : list[k].at \in Place
    <2> TAKE k \in 1 .. n
    <2>1. list[k] \in PinRecord
        BY <1>1
    <2> QED BY <2>1 DEF PinRecord
<1>3. \A k \in 1 .. n, x \in A : Round(x, k) \in A
    <2> HIDE DEF n
    <2> QED BY <1>2
<1>4. PICK g : g[0] = <<>> /\ \A k \in 1 .. n : g[k] = Round(g[k - 1], k)
    <2>1. \A k \in 1 .. n, x \in A : step[<<k, x>>] = Round(x, k)
        <3> HIDE DEF A, Round, n
        <3> QED OBVIOUS
    <2> DEFINE first == <<>>
    <2>2. first \in A /\ first = <<>>
        OBVIOUS
    <2> HIDE DEF A, Round, step, n, first
    <2>3. PICK g : /\ \A k \in 0 .. n : g[k] \in A
                   /\ g[0] = first
                   /\ \A k \in 1 .. n : g[k] = step[<<k, g[k - 1]>>]
        <3>1. step \in Rounds(n, A)
            BY <1>3 DEF Rounds, step
        <3> QED BY <1>1, <2>2, <3>1, Recursion
    <2>4. \A k \in 1 .. n : g[k - 1] \in A
        <3>1. \A k \in 1 .. n : k - 1 \in 0 .. n
            BY <1>1
        <3> QED BY <2>3, <3>1
    <2> QED BY <2>1, <2>2, <2>3, <2>4
<1>5. upto = [k \in 0 .. n |-> IF k = 0 THEN <<>> ELSE Round(upto[k - 1], k)]
    <2> DEFINE u == [k \in 0 .. n |-> g[k]]
    <2> HIDE DEF n
    <2>1. \A k \in 0 .. n : k = 0 \/ (k \in 1 .. n /\ k - 1 \in 0 .. n)
        BY <1>1
    <2>2. \A k \in 0 .. n : k = 0 \/ Round(u[k - 1], k) = Round(g[k - 1], k)
        BY <2>1
    <2>3. \A k \in 0 .. n : u[k] = IF k = 0 THEN <<>> ELSE Round(u[k - 1], k)
        <3> HIDE DEF Round
        <3> QED BY <1>4, <2>1, <2>2
    <2>4. u = [k \in 0 .. n |-> IF k = 0 THEN <<>> ELSE Round(u[k - 1], k)]
        <3> HIDE DEF Round
        <3> QED BY <2>3
    <2> HIDE DEF u, Round
    <2> QED BY <2>4
<1>6. /\ upto[0] = <<>>
      /\ \A k \in 1 .. n : upto[k] = Round(upto[k - 1], k)
    <2> HIDE DEF upto, Round, n
    <2>1. 0 \in 0 .. n /\ \A k \in 1 .. n : k \in 0 .. n /\ k # 0
        BY <1>1
    <2> QED BY <1>5, <2>1
<1> DEFINE Has(s, i) == \E j \in DOMAIN s : s[j] = list[i].at
           Full(s, k) == s \in A /\ \A i \in 1 .. k : list[i].part = id => Has(s, i)
           K == {k \in 0 .. n : Full(upto[k], k)}
<1>7. 0 .. n \subseteq K
    <2>1. 0 \in K
        <3>1. <<>> \in A /\ 1 .. 0 = {}
            OBVIOUS
        <3>2. 0 \in 0 .. n
            <4> HIDE DEF n
            <4> QED BY <1>1
        <3>3. upto[0] \in A
            <4> HIDE DEF upto, n, A
            <4> QED BY <1>6, <3>1
        <3>4. Full(upto[0], 0)
            <4> HIDE DEF upto, Has, A
            <4> QED BY <3>1, <3>3
        <3> HIDE DEF upto, Full, n
        <3> QED BY <3>2, <3>4
    <2>2. ASSUME NEW s, NEW k \in 0 .. (n - 1), Full(s, k)
          PROVE  Full(Round(s, k + 1), k + 1)
        <3> HIDE DEF n
        <3>1. k + 1 \in 1 .. n /\ list[k + 1].at \in Place
            BY <1>1, <1>2
        <3>2. \A i \in 1 .. (k + 1) : i \in 1 .. k \/ i = k + 1
            BY <1>1
        <3>3. s \in Seq(Place) /\ \A i \in 1 .. k : list[i].part = id => Has(s, i)
            BY <2>2
        <3>4. CASE list[k + 1].part = id
            <4> DEFINE t == Append(s, list[k + 1].at)
            <4>1. /\ t \in Seq(Place) /\ DOMAIN s \subseteq DOMAIN t
                  /\ \A j \in DOMAIN s : t[j] = s[j]
                  /\ Len(s) + 1 \in DOMAIN t /\ t[Len(s) + 1] = list[k + 1].at
                BY <3>1, <3>3, Longer
            <4> HIDE DEF t
            <4>2. \A i \in 1 .. k : list[i].part = id => Has(t, i)
                BY <3>3, <4>1
            <4>3. Has(t, k + 1)
                BY <4>1
            <4>4. Full(t, k + 1)
                <5> HIDE DEF Has
                <5> QED BY <3>2, <4>1, <4>2, <4>3
            <4>5. Round(s, k + 1) = t
                BY <3>4 DEF t
            <4> HIDE DEF Full, Round
            <4> QED BY <4>4, <4>5
        <3>5. CASE list[k + 1].part # id
            <4>1. Round(s, k + 1) = s
                BY <3>5
            <4>2. Full(s, k + 1)
                <5> HIDE DEF Has
                <5> QED BY <3>2, <3>3, <3>5
            <4> HIDE DEF Full, Round
            <4> QED BY <4>1, <4>2
        <3> QED BY <3>4, <3>5
    <2>3. \A k \in 0 .. (n - 1) : k \in K => k + 1 \in K
        <3> TAKE k \in 0 .. (n - 1)
        <3>1. k + 1 \in 1 .. n /\ k + 1 \in 0 .. n /\ (k + 1) - 1 = k
            <4> HIDE DEF n
            <4> QED BY <1>1
        <3> HIDE DEF upto, Round, Full, n
        <3>2. upto[k + 1] = Round(upto[k], k + 1)
            BY <1>6, <3>1
        <3> QED BY <2>2, <3>1, <3>2
    <2> HIDE DEF K, n
    <2> QED BY <1>1, <2>1, <2>3, Induction
<1>8. PositionsOf(list, id) = upto[n]
    BY DEF PositionsOf
<1>9. Full(upto[n], n)
    <2> HIDE DEF upto, Full, n
    <2>1. n \in 0 .. n
        BY <1>1
    <2> QED BY <1>7, <2>1
<1> HIDE DEF upto, n
<1> QED BY <1>1, <1>8, <1>9

LEMMA DrawnHolds ==
    ASSUME Typed, PinsHaveParts, DrawnIs
    PROVE  OutlinesHoldPins
<1> SUFFICES ASSUME phase = "done", NEW i \in DOMAIN pins, pins[i].of \in DOMAIN parts
             PROVE  \/ Covers(drawn[pins[i].of], pins[i].at)
                    \/ /\ drawn[pins[i].of].kind = "two"
                       /\ Len(PositionsOf(pins, pins[i].part)) = 3
    BY DEF OutlinesHoldPins
<1> DEFINE part == pins[i].part
           places == PositionsOf(pins, part)
           letter == LetterOf[part]
<1>1. pins \in Seq(PinRecord)
    BY DEF Typed, ListsTyped
<1>2. drawn[pins[i].of] = PartGeometry(letter, places)
    BY DEF PinsHaveParts, DrawnIs
<1> HIDE DEF letter
<1>3. /\ places \in Seq(Place)
      /\ \E j \in DOMAIN places : places[j] = pins[i].at
    BY <1>1, PositionsIs
<1> HIDE DEF places
<1>4. places \in Seq(Point)
    BY <1>3, PlaceIsInt
<1>5. PICK j \in DOMAIN places : places[j] = pins[i].at
    BY <1>3
<1>6. places # <<>>
    BY <1>4, <1>5
<1>7. CASE Len(places) = 3 /\ PartGeometry(letter, places).kind = "two"
    BY <1>2, <1>7 DEF places
<1>8. CASE ~(Len(places) = 3 /\ PartGeometry(letter, places).kind = "two")
    BY <1>2, <1>4, <1>5, <1>6, <1>8, PartGeometryHolds
<1> QED BY <1>7, <1>8

-----------------------------------------------------------------------------
(* The invariant of boards and what follows from it                            *)

Built == /\ Inv /\ BoxesTyped /\ SizeTyped
         /\ BoxesHoldPins /\ InShares /\ DrawnIs

LEMMA InitBuilt == Init => Built
<1> SUFFICES ASSUME Init PROVE Built
    OBVIOUS
<1>1. Inv
    BY InitInv
<1>2. parts = <<>> /\ pins = <<>> /\ size = <<0, 0>> /\ taken = 0
    BY DEF Init, Empty, NoRows
<1>3. phase \in {"lines", "failed"}
    BY DEF Init
<1>4. Len(parts) = 0 /\ Len(pins) = 0 /\ DOMAIN pins = {}
    <2>1. pins \in Seq(PinRecord)
        BY <1>1 DEF Inv, Typed, ListsTyped
    <2> QED BY <1>2, <2>1
<1>5. BoxesTyped /\ SizeTyped
    BY <1>2 DEF BoxesTyped, SizeTyped
<1>6. BoxesHoldPins /\ DrawnIs
    BY <1>3, <1>4 DEF BoxesHoldPins, DrawnIs
<1>7. InShares
    BY <1>2, <1>3, <1>4 DEF InShares, Shared, Reached
<1> QED BY <1>1, <1>5, <1>6, <1>7 DEF Built

LEMMA NextBuilt == Built /\ [Next]_vars => Built'
<1> SUFFICES ASSUME Built, [Next]_vars PROVE Built'
    OBVIOUS
<1>1. Typed /\ PinsHome /\ PartsAreRows /\ Inv'
    BY NextInv DEF Built, Inv
<1>2. BoxesTyped'
    BY <1>1, EveryStepEvolves, EvolvesKeepsType DEF Built
<1>3. SizeTyped'
    BY SizeKeepsType DEF Built
<1>4. BoxesHoldPins'
    BY <1>1, BoxesHoldPinsStep DEF Built
<1>5. InShares'
    BY <1>1, InSharesStep DEF Built
<1>6. DrawnIs'
    BY <1>1, DrawnIsStep DEF Built
<1> QED BY <1>1, <1>2, <1>3, <1>4, <1>5, <1>6 DEF Built

\* What every parser keeps up of parts, boxes, shares and outlines.
THEOREM ParsersBuild == Spec => []Built
BY InitBuilt, NextBuilt, PTL DEF Spec

\* The board has its types from the first line on, boxes and dimensions included
\* (models.py).
THEOREM BoardsAlwaysTyped == Spec => []TypeOK
<1>1. Built => TypeOK
    BY DEF Built, Inv, Typed, ListsTyped, NetsTyped, RowsTyped, BoxesTyped, SizeTyped, TypeOK
<1> QED BY <1>1, ParsersBuild, PTL

\* The box of a part holds all its pins, wherever they come from: in .bv files it
\* grows with them, in Landrex files it is measured from its share
\* (bv.py:208-209, brd_landrex.py:413-427).
THEOREM BoxesAlwaysHoldPins == Spec => []BoxesHoldPins
<1>1. Built => BoxesHoldPins
    BY DEF Built
<1> QED BY <1>1, ParsersBuild, PTL

\* No row of pins is lost, taken twice or out of order when the shares of the parts
\* follow one another and end at the last row (brd_landrex.py:357-359).
THEOREM RowsAlwaysBecomePins == Spec => []RowsBecomePins
<1>1. Built => RowsBecomePins
    BY SharesMakeRows DEF Built, Inv
<1> QED BY <1>1, ParsersBuild, PTL

\* The outline of a part holds its pins in every format, also when parts share a
\* name, but for passives with three pins (part_pin_positions of every parser,
\* compute_part_geometry).
THEOREM OutlinesAlwaysHoldPins == Spec => []OutlinesHoldPins
<1>1. Inv => PinsHaveParts
    BY InvPinsHaveParts
<1>2. Built => OutlinesHoldPins
    BY <1>1, DrawnHolds DEF Built, Inv
<1> QED BY <1>2, ParsersBuild, PTL
=============================================================================
