---------------------------- MODULE CutTSSProofs ----------------------------
(***************************************************************************)
(* Proofs about CutTSS: whatever is inserted and deleted, the subsets list *)
(* the inserted rules, the updates come to the leaves that the             *)
(* construction made, and lookups answer by the leaves they come to.       *)
(***************************************************************************)
EXTENDS CutTSS, RulesProofs

-----------------------------------------------------------------------------
(***************************************************************************)
(* Arithmetic.                                                             *)
(***************************************************************************)

LEMMA WidthIs ==
  /\ W \in Nat /\ W >= 1
  /\ \A k \in Tree : Bits(k) \in 1 .. W
<1>1. cutBits[1] \in 1 .. W /\ cutBits[2] \in 1 .. W /\ W \in Nat
  BY CutTSSAssumption
<1> QED BY <1>1 DEF Bits

LEMMA PowersAre ==
  /\ \A n \in 0 .. W : 2^n \in Nat /\ 2^n >= 1
  /\ \A n \in 0 .. W - 1 : 2^(n + 1) = 2 * 2^n
<1>0. W \in Nat
  BY WidthIs
<1> DEFINE P == {n \in Nat : n <= W => (2^n \in Nat /\ 2^n >= 1)}
<1>1. 0 \in P
  BY PowersAssumption
<1>2. ASSUME NEW n \in Nat, n \in P
      PROVE  n + 1 \in P
  <2>1. CASE n + 1 <= W
    <3>1. n \in 0 .. W - 1
      BY <1>0, <2>1
    <3>2. 2^(n + 1) = 2 * 2^n
      BY <3>1, PowersAssumption
    <3>3. 2^n \in Nat /\ 2^n >= 1
      BY <1>0, <1>2, <2>1
    <3> QED BY <3>2, <3>3
  <2> QED BY <2>1
<1>3. \A n \in Nat : n \in P
  <2> HIDE DEF P
  <2> QED BY <1>1, <1>2, NatInduct
<1> QED BY <1>0, <1>3, PowersAssumption

LEMMA PowerOfSum ==
  ASSUME NEW m \in Nat, NEW n \in Nat, m + n <= W
  PROVE  2^(m + n) = 2^m * 2^n
<1>0. W \in Nat
  BY WidthIs
<1> DEFINE P == {i \in Nat : i + n <= W => 2^(i + n) = 2^i * 2^n}
<1>1. 0 \in P
  <2>1. n \in 0 .. W /\ 0 + n = n
    BY <1>0
  <2>2. 2^n \in Nat /\ 2^0 = 1
    BY <2>1, PowersAre, PowersAssumption
  <2> QED BY <2>1, <2>2
<1>2. ASSUME NEW i \in Nat, i \in P
      PROVE  i + 1 \in P
  <2> SUFFICES ASSUME (i + 1) + n <= W
               PROVE  2^((i + 1) + n) = 2^(i + 1) * 2^n
    OBVIOUS
  <2>1. i \in 0 .. W - 1 /\ i + n \in 0 .. W - 1 /\ (i + 1) + n = (i + n) + 1 /\ i + n <= W
    BY <1>0
  <2>2. i \in 0 .. W /\ n \in 0 .. W
    BY <1>0
  <2>3. PICK a \in Nat : a = 2^i
    BY <2>2, PowersAre
  <2>4. PICK b \in Nat : b = 2^n
    BY <2>2, PowersAre
  <2>5. 2^((i + n) + 1) = 2 * 2^(i + n) /\ 2^(i + 1) = 2 * 2^i
    BY <2>1, PowersAre
  <2>6. 2^(i + n) = a * b
    BY <1>2, <2>1, <2>3, <2>4
  <2>7. 2 * (a * b) = (2 * a) * b
    OBVIOUS
  <2>8. 2^((i + 1) + n) = 2 * (a * b) /\ 2^(i + 1) * 2^n = (2 * a) * b
    BY <2>1, <2>3, <2>4, <2>5, <2>6
  <2> QED BY <2>7, <2>8
<1>3. \A i \in Nat : i \in P
  <2> HIDE DEF P
  <2> QED BY <1>1, <1>2, NatInduct
<1>4. m \in P
  BY <1>3
<1> QED BY <1>4

LEMMA PowersGrow ==
  ASSUME NEW m \in 0 .. W, NEW n \in 0 .. W, 2^m < 2^n
  PROVE  m < n
<1>0. W \in Nat
  BY WidthIs
<1> SUFFICES ASSUME n <= m
             PROVE  2^n <= 2^m
  BY PowersAre
<1>1. m - n \in Nat /\ m - n \in 0 .. W /\ (m - n) + n = m
  BY <1>0
<1>2. 2^((m - n) + n) = 2^(m - n) * 2^n
  BY <1>0, <1>1, PowerOfSum
<1>3. PICK a \in Nat : a = 2^(m - n) /\ a >= 1
  BY <1>1, PowersAre
<1>4. PICK b \in Nat : b = 2^n
  BY PowersAre
<1>5. b <= a * b
  BY <1>3
<1>6. 2^m = a * b
  BY <1>1, <1>2, <1>3, <1>4, Zenon
<1> QED BY <1>4, <1>5, <1>6

\* The range from x to y meets the field from a * m to (a + 1) * m.
Meeting(x, y, a, m) == x < (a + 1) * m /\ y >= a * m

\* c is one of the s slots that field a is cut into.
SlotOf(c, a, s) == a * s <= c /\ c + 1 <= (a + 1) * s

\* What meets a slot of a field meets the field.
LEMMA SlotOfField ==
  ASSUME NEW a \in Nat, NEW c \in Nat, NEW s \in Nat, NEW t \in Nat, NEW x \in Nat, NEW y \in Nat,
         SlotOf(c, a, s), Meeting(x, y, c, t)
  PROVE  Meeting(x, y, a, s * t)
<1>0. a * s <= c /\ c + 1 <= (a + 1) * s /\ x < (c + 1) * t /\ y >= c * t
  BY DEF SlotOf, Meeting
<1>1. PICK g \in Nat : g = (a * s) * t
  OBVIOUS
<1>2. PICK h \in Nat : h = ((a + 1) * s) * t
  OBVIOUS
<1>3. PICK e \in Nat : e = c * t
  OBVIOUS
<1>4. PICK f \in Nat : f = (c + 1) * t
  OBVIOUS
<1>5. a * s \in Nat /\ c + 1 \in Nat /\ (a + 1) * s \in Nat
  OBVIOUS
<1>6. g <= e
  <2>1. (a * s) * t <= c * t
    BY <1>0, <1>5, TimesOrdered
  <2> QED BY <1>1, <1>3, <2>1, Zenon
<1>7. f <= h
  <2>1. (c + 1) * t <= ((a + 1) * s) * t
    BY <1>0, <1>5, TimesOrdered
  <2> QED BY <1>2, <1>4, <2>1, Zenon
<1>8. x < f /\ y >= e
  BY <1>0, <1>3, <1>4, Zenon
<1>9. x < h /\ y >= g
  BY ONLY <1>1, <1>2, <1>3, <1>4, <1>6, <1>7, <1>8
<1>10. (a * s) * t = a * (s * t) /\ ((a + 1) * s) * t = (a + 1) * (s * t)
  OBVIOUS
<1>11. x < (a + 1) * (s * t) /\ y >= a * (s * t)
  BY <1>1, <1>2, <1>9, <1>10, Zenon
<1> QED BY <1>11 DEF Meeting

LEMMA QuotientTwice ==
  ASSUME NEW x \in Nat, NEW a \in Nat, NEW b \in Nat, a >= 1, b >= 1
  PROVE  x \div (a * b) = (x \div b) \div a
<1>1. PICK y \in Nat : y = x \div b /\ y * b <= x /\ x < (y + 1) * b
  BY QuotientIs
<1>2. PICK q \in Nat : q = y \div a /\ q * a <= y /\ y < (q + 1) * a
  BY QuotientIs
<1>3. a * b \in Nat /\ a * b >= 1
  OBVIOUS
<1>4. q * (a * b) <= x
  <2>1. (q * a) * b <= y * b
    BY <1>2
  <2>2. (q * a) * b = q * (a * b)
    OBVIOUS
  <2> QED BY <1>1, <2>1, <2>2
<1>5. x < (q + 1) * (a * b)
  <2>1. y + 1 <= (q + 1) * a
    BY <1>2
  <2>2. (y + 1) * b <= ((q + 1) * a) * b
    BY <2>1
  <2>3. ((q + 1) * a) * b = (q + 1) * (a * b)
    OBVIOUS
  <2> QED BY <1>1, <2>2, <2>3
<1>6. x \div (a * b) = q
  BY <1>3, <1>4, <1>5, QuotientIs
<1> QED BY <1>1, <1>2, <1>6

LEMMA QuotientsOrdered ==
  ASSUME NEW x \in Nat, NEW y \in Nat, x <= y, NEW m \in Nat, m >= 1
  PROVE  x \div m <= y \div m
<1>1. PICK q \in Nat : q = x \div m /\ q * m <= x /\ x < (q + 1) * m
  BY QuotientIs
<1>2. PICK p \in Nat : p = y \div m /\ p * m <= y /\ y < (p + 1) * m
  BY QuotientIs
<1>3. CASE p < q
  <2>1. p + 1 <= q
    BY <1>3
  <2>2. (p + 1) * m <= q * m
    BY <2>1
  <2> QED BY <1>1, <1>2, <2>2
<1> QED BY <1>1, <1>2, <1>3

-----------------------------------------------------------------------------
(***************************************************************************)
(* Names.                                                                  *)
(***************************************************************************)

Fields(k) == CutTSSPartitionThresholds(k)

\* What has addresses, as a packet or the low ends of a rule's ranges.
Point(x) == \A d \in {FieldSA, FieldDA} : x[d] \in Address

Low(r)  == [d \in DOMAIN r.range |-> r.range[d][1]]
High(r) == [d \in DOMAIN r.range |-> r.range[d][2]]

Slots(k) == 2^Bits(k)

IsName(n) ==
  /\ n[1] \in Tree /\ n[2] \in Nat /\ n[2] * Bits(n[1]) <= W
  /\ n[3] \in [Fields(n[1]) -> Address]
  /\ n = <<n[1], n[2], n[3]>>

Parent(n) == <<n[1], n[2] - 1, [d \in Fields(n[1]) |-> n[3][d] \div Slots(n[1])]>>

LEMMA FieldsAre == \A k \in Tree : Fields(k) \subseteq {FieldSA, FieldDA}
BY DEF Fields, CutTSSPartitionThresholds, Tree

LEMMA EndsArePoints ==
  ASSUME NEW r \in Rule
  PROVE  /\ Point(Low(r)) /\ Point(High(r))
         /\ \A d \in {FieldSA, FieldDA} : /\ d \in DOMAIN r.range
                                          /\ Low(r)[d] = r.range[d][1] /\ High(r)[d] = r.range[d][2]
                                          /\ Low(r)[d] <= High(r)[d]
BY AddressAssumption DEF Point, Low, High

\* The depths that a node of tree k may have.
Deep(k, i) == i \in Nat /\ i * Bits(k) <= W

LEMMA SizeIs ==
  ASSUME NEW k \in Tree, NEW i, Deep(k, i)
  PROVE  Size(k, i) \in Nat /\ Size(k, i) >= 1 /\ (i = 0 => Size(k, i) = 2^W)
<1>1. Bits(k) \in Nat /\ Bits(k) \in 1 .. W /\ W \in Nat /\ i \in Nat
  BY WidthIs DEF Deep
<1>2. i * Bits(k) \in Nat /\ (i = 0 => i * Bits(k) = 0)
  BY <1>1
<1>3. PICK e \in Nat : e = i * Bits(k)
  BY <1>2
<1>4. W - e \in 0 .. W /\ (i = 0 => W - e = W)
  BY <1>1, <1>2, <1>3 DEF Deep
<1>5. Size(k, i) = 2^(W - e)
  BY <1>3 DEF Size
<1>6. 2^(W - e) \in Nat /\ 2^(W - e) >= 1
  BY <1>4, PowersAre
<1>7. i = 0 => 2^(W - e) = 2^W
  BY <1>4, Zenon
<1> QED BY <1>5, <1>6, <1>7

LEMMA SlotsAre ==
  ASSUME NEW k \in Tree
  PROVE  Slots(k) \in Nat /\ Slots(k) >= 2
<1> PICK b \in 1 .. W : b = Bits(k)
  BY WidthIs
<1>1. b - 1 \in 0 .. W - 1 /\ (b - 1) + 1 = b /\ b - 1 \in 0 .. W
  BY WidthIs
<1>2. 2^((b - 1) + 1) = 2 * 2^(b - 1) /\ 2^(b - 1) \in Nat /\ 2^(b - 1) >= 1
  BY <1>1, PowersAre
<1>3. 2^((b - 1) + 1) \in Nat /\ 2^((b - 1) + 1) >= 2
  BY <1>2
<1>4. Slots(k) = 2^b
  BY DEF Slots
<1> QED BY <1>1, <1>3, <1>4, Zenon

LEMMA SizeOfSlot ==
  ASSUME NEW k \in Tree, NEW i \in Nat, Deep(k, i + 1)
  PROVE  /\ Deep(k, i) /\ Slots(k) \in Nat /\ Slots(k) >= 2
         /\ Size(k, i) = Slots(k) * Size(k, i + 1)
<1>1. PICK b \in 1 .. W : b = Bits(k)
  BY WidthIs
<1>2. W \in Nat /\ b \in Nat
  BY <1>1, WidthIs
<1>3. PICK e \in Nat : e = i * b
  BY <1>2
<1>4. (i + 1) * b = e + b
  BY <1>2, <1>3
<1>5. e + b <= W
  BY <1>1, <1>4 DEF Deep
<1>6. Deep(k, i)
  BY <1>1, <1>2, <1>3, <1>5 DEF Deep
<1>7. Size(k, i) = 2^(W - e) /\ Size(k, i + 1) = 2^(W - (e + b)) /\ Slots(k) = 2^b
  BY <1>1, <1>3, <1>4, Zenon DEF Size, Slots
<1>8. W - (e + b) \in Nat /\ b + (W - (e + b)) = W - e /\ W - e <= W
  BY <1>2, <1>5
<1>9. 2^(b + (W - (e + b))) = 2^b * 2^(W - (e + b))
  BY <1>2, <1>8, PowerOfSum
<1>10. Size(k, i) = Slots(k) * Size(k, i + 1)
  BY <1>7, <1>8, <1>9, Zenon
<1> QED BY <1>6, <1>10, SlotsAre

LEMMA PointIsNat ==
  ASSUME NEW k \in Tree, NEW x, Point(x)
  PROVE  \A d \in Fields(k) : x[d] \in Nat /\ x[d] <= 2^W - 1 /\ 2^W \in Nat
<1>1. W \in 0 .. W /\ W \in Nat
  BY WidthIs
<1>2. 2^W \in Nat
  BY <1>1, PowersAre
<1>3. \A d \in Fields(k) : x[d] \in 0 .. 2^W - 1
  BY FieldsAre DEF Point, Address
<1> QED BY <1>2, <1>3

LEMMA NameIs ==
  ASSUME NEW k \in Tree, NEW i, Deep(k, i), NEW x, Point(x)
  PROVE  /\ IsName(Name(k, i, x)) /\ Name(k, i, x)[1] = k /\ Name(k, i, x)[2] = i
         /\ Name(k, i, x)[3] = [d \in Fields(k) |-> x[d] \div Size(k, i)]
         /\ i = 0 => Name(k, i, x) = Root(k)
<1> PICK s : s = [d \in Fields(k) |-> x[d] \div Size(k, i)]
  OBVIOUS
<1>1. Name(k, i, x) = <<k, i, s>>
  BY DEF Name, Fields
<1>2. /\ <<k, i, s>>[1] = k /\ <<k, i, s>>[2] = i /\ <<k, i, s>>[3] = s
      /\ i \in Nat /\ i * Bits(k) <= W
  BY DEF Deep
<1>3. Size(k, i) \in Nat /\ Size(k, i) >= 1 /\ (i = 0 => Size(k, i) = 2^W)
  BY SizeIs
<1>4. ASSUME NEW d \in Fields(k)
      PROVE  x[d] \div Size(k, i) \in Address /\ (i = 0 => x[d] \div Size(k, i) = 0)
  <2>1. x[d] \in Nat /\ x[d] <= 2^W - 1 /\ 2^W \in Nat
    BY PointIsNat
  <2>2. PICK q \in Nat : q = x[d] \div Size(k, i) /\ q * Size(k, i) <= x[d]
    BY <1>3, <2>1, QuotientIs
  <2>3. q <= q * Size(k, i)
    BY <1>3
  <2>4. q \in Address
    BY <2>1, <2>2, <2>3, <1>3 DEF Address
  <2>5. ASSUME i = 0
        PROVE  q = 0
    <3>1. q * 2^W <= x[d]
      BY <1>3, <2>2, <2>5
    <3>2. q >= 1 => 2^W <= q * 2^W
      BY <2>1
    <3> QED BY <2>1, <3>1, <3>2
  <2> QED BY <2>2, <2>4, <2>5
<1>5. s \in [Fields(k) -> Address]
  BY <1>4
<1>6. i = 0 => s = [d \in Fields(k) |-> 0]
  BY <1>4
<1>7. IsName(<<k, i, s>>)
  BY <1>2, <1>5 DEF IsName
<1>8. i = 0 => <<k, i, s>> = Root(k)
  BY <1>6, Zenon DEF Root, Fields
<1> QED BY <1>1, <1>2, <1>7, <1>8

\* The parts of a name, and the name of the root.
LEMMA NameHas ==
  ASSUME NEW k, NEW i, NEW x
  PROVE  Name(k, i, x)[1] = k /\ Name(k, i, x)[2] = i
<1> PICK s : s = [d \in Fields(k) |-> x[d] \div Size(k, i)]
  OBVIOUS
<1>1. Name(k, i, x) = <<k, i, s>>
  BY Zenon DEF Name, Fields
<1> QED BY <1>1

LEMMA RootName ==
  ASSUME NEW k \in Tree, NEW x, Point(x)
  PROVE  Name(k, 0, x) = Root(k)
<1>1. Deep(k, 0)
  BY WidthIs DEF Deep
<1>2. Size(k, 0) \in Nat /\ Size(k, 0) >= 1 /\ Size(k, 0) = 2^W
  <2> PICK i : i = 0
    OBVIOUS
  <2>1. Deep(k, i)
    BY <1>1
  <2>2. Size(k, i) \in Nat /\ Size(k, i) >= 1 /\ (i = 0 => Size(k, i) = 2^W)
    BY <2>1, SizeIs
  <2> QED BY <2>2
<1>3. ASSUME NEW d \in Fields(k)
      PROVE  x[d] \div Size(k, 0) = 0
  <2>1. x[d] \in Nat /\ x[d] <= 2^W - 1 /\ 2^W \in Nat
    BY PointIsNat
  <2>2. 0 \in Nat /\ 0 * Size(k, 0) <= x[d] /\ x[d] < (0 + 1) * Size(k, 0)
    BY <1>2, <2>1
  <2> QED BY <1>2, <2>1, <2>2, QuotientIs
<1>4. [d \in Fields(k) |-> x[d] \div Size(k, 0)] = [d \in Fields(k) |-> 0]
  BY <1>3
<1> QED BY <1>4, Zenon DEF Name, Root, Fields

\* The node above one that a point falls into is one that it falls into.
LEMMA ParentOfName ==
  ASSUME NEW k \in Tree, NEW i \in Nat, Deep(k, i + 1), NEW x, Point(x)
  PROVE  Deep(k, i) /\ Parent(Name(k, i + 1, x)) = Name(k, i, x)
<1> PICK n : n = Name(k, i + 1, x)
  OBVIOUS
<1>1. /\ n[1] = k /\ n[2] = i + 1
      /\ n[3] = [d \in Fields(k) |-> x[d] \div Size(k, i + 1)]
  BY NameIs
<1>2. /\ Deep(k, i) /\ Slots(k) \in Nat /\ Slots(k) >= 2
      /\ Size(k, i) = Slots(k) * Size(k, i + 1)
      /\ Size(k, i + 1) \in Nat /\ Size(k, i + 1) >= 1
  BY SizeIs, SizeOfSlot
<1>3. ASSUME NEW d \in Fields(k)
      PROVE  n[3][d] \div Slots(k) = x[d] \div Size(k, i)
  <2>1. x[d] \in Nat
    BY PointIsNat
  <2>2. x[d] \div (Slots(k) * Size(k, i + 1)) = (x[d] \div Size(k, i + 1)) \div Slots(k)
    BY <1>2, <2>1, QuotientTwice
  <2>3. n[3][d] = x[d] \div Size(k, i + 1)
    BY <1>1
  <2> QED BY <1>2, <2>2, <2>3, Zenon
<1>4. [d \in Fields(k) |-> n[3][d] \div Slots(k)] = [d \in Fields(k) |-> x[d] \div Size(k, i)]
  BY <1>3
<1>5. n[2] - 1 = i
  BY <1>1
<1>6. Parent(n) = <<k, i, [d \in Fields(k) |-> x[d] \div Size(k, i)]>>
  BY <1>1, <1>4, <1>5, Zenon DEF Parent
<1> QED BY <1>2, <1>6 DEF Name, Fields

\* What lies between two points of a node falls into it.
LEMMA NameBetween ==
  ASSUME NEW k \in Tree, NEW i, Deep(k, i), NEW x, NEW y, NEW z, Point(x), Point(y), Point(z),
         \A d \in Fields(k) : x[d] <= y[d] /\ y[d] <= z[d], Name(k, i, x) = Name(k, i, z)
  PROVE  Name(k, i, y) = Name(k, i, x)
<1> PICK s \in Nat : s = Size(k, i) /\ s >= 1
  BY SizeIs
<1>1. [d \in Fields(k) |-> x[d] \div s] = [d \in Fields(k) |-> z[d] \div s]
  <2>1. /\ Name(k, i, x)[3] = [d \in Fields(k) |-> x[d] \div Size(k, i)]
        /\ Name(k, i, z)[3] = [d \in Fields(k) |-> z[d] \div Size(k, i)]
    BY NameIs
  <2> QED BY <2>1, Zenon
<1>2. ASSUME NEW d \in Fields(k)
      PROVE  y[d] \div s = x[d] \div s
  <2>1. x[d] \in Nat /\ y[d] \in Nat /\ z[d] \in Nat
    BY PointIsNat
  <2>2. x[d] \div s <= y[d] \div s /\ y[d] \div s <= z[d] \div s
    BY <2>1, QuotientsOrdered
  <2>3. x[d] \div s = z[d] \div s
    <3> DEFINE f == [e \in Fields(k) |-> x[e] \div s]
               g == [e \in Fields(k) |-> z[e] \div s]
    <3>1. f[d] = g[d] /\ f[d] = x[d] \div s /\ g[d] = z[d] \div s
      BY <1>1
    <3> QED BY <3>1, Zenon
  <2>4. x[d] \div s \in Nat /\ y[d] \div s \in Nat
    BY <2>1, QuotientIs
  <2> QED BY <2>2, <2>3, <2>4
<1>3. [d \in Fields(k) |-> y[d] \div s] = [d \in Fields(k) |-> x[d] \div s]
  BY <1>2
<1> QED BY <1>3, Zenon DEF Name, Fields

-----------------------------------------------------------------------------
(***************************************************************************)
(* Trees, as values of their own: ns is what nodes may be.                 *)
(***************************************************************************)

NodeRecord == [type : {"Cuts", "Linear", "TSS"}, rules : Seq(Rule)]

CutsAt(ns, n) == n \in DOMAIN ns /\ ns[n].type = "Cuts"

\* Reached and Place, in the trees ns.
ReachedIn(ns, k, x) ==
  Name(k, Max({i \in 0 .. W \div Bits(k) : \A j \in 0 .. i - 1 : CutsAt(ns, Name(k, j, x))}), x)

PlaceIn(ns, r) == ReachedIn(ns, CutTSSSubsetIndex(r), Low(r))

\* A node hangs from one that cuts, the root apart, and only those cut whose
\* slots still have points.
ShapedAt(ns, n) ==
  /\ IsName(n) /\ ns[n] \in NodeRecord /\ Root(n[1]) \in DOMAIN ns
  /\ n[1] = PSbig => ns[n].type = "TSS"
  /\ ns[n].type = "Cuts" => Deep(n[1], n[2] + 1) /\ ns[n].rules = << >>
  /\ n[2] = 0 => n = Root(n[1])
  /\ n[2] > 0 => CutsAt(ns, Parent(n))

Shaped(ns) == \A n \in DOMAIN ns : ShapedAt(ns, n)

\* No cut of tree k divides rule r.
Uncut(ns, k, r) ==
  /\ Root(k) \in DOMAIN ns
  /\ \A n \in DOMAIN ns :
       ns[n].type = "Cuts" /\ n = Name(k, n[2], Low(r)) =>
         /\ Name(k, n[2] + 1, Low(r)) \in DOMAIN ns
         /\ Name(k, n[2] + 1, Low(r)) = Name(k, n[2] + 1, High(r))

LEMMA PlaceNow ==
  /\ \A k, x : Reached(k, x) = ReachedIn(nodes, k, x)
  /\ \A r : Place(r) = PlaceIn(nodes, r)
<1>1. \A k, x : Reached(k, x) = ReachedIn(nodes, k, x)
  BY Zenon DEF Reached, ReachedIn, CutsAt
<1> QED BY <1>1, Zenon DEF Place, PlaceIn, Low

LEMMA IndexIs ==
  ASSUME NEW r \in Rule
  PROVE  /\ CutTSSSubsetIndex(r) \in Tree
         /\ Fields(CutTSSSubsetIndex(r)) = {d \in {FieldSA, FieldDA} : r.prefix_length[d] >= threshold}
<1> DEFINE Long == {d \in {FieldSA, FieldDA} : r.prefix_length[d] >= threshold}
<1>1. Long \in {{FieldSA, FieldDA}, {FieldSA}, {FieldDA}, {}}
  OBVIOUS
<1>2. \E k \in Tree : CutTSSPartitionThresholds(k) = Long
  <2>1. /\ CutTSSPartitionThresholds(0) = {FieldSA, FieldDA}
        /\ CutTSSPartitionThresholds(1) = {FieldSA}
        /\ CutTSSPartitionThresholds(2) = {FieldDA}
        /\ CutTSSPartitionThresholds(3) = {}
    BY DEF CutTSSPartitionThresholds
  <2>2. 0 \in Tree /\ 1 \in Tree /\ 2 \in Tree /\ 3 \in Tree
    BY DEF Tree
  <2> HIDE DEF Long
  <2> QED BY <1>1, <2>1, <2>2
<1> HIDE DEF Long
<1>3. CutTSSSubsetIndex(r) = CHOOSE k \in Tree : CutTSSPartitionThresholds(k) = Long
  BY Zenon DEF CutTSSSubsetIndex, Long
<1> QED BY <1>2, <1>3 DEF Long, Fields

LEMMA DepthsAre ==
  ASSUME NEW k \in Tree
  PROVE  /\ W \div Bits(k) \in Nat
         /\ \A i \in Nat : Deep(k, i) <=> i \in 0 .. W \div Bits(k)
<1>1. PICK b \in Nat : b = Bits(k) /\ b >= 1
  BY WidthIs
<1>2. PICK q \in Nat : q = W \div b /\ q * b <= W /\ W < (q + 1) * b
  BY <1>1, WidthIs, QuotientIs
<1>3. ASSUME NEW i \in Nat
      PROVE  i * b <= W <=> i <= q
  <2>1. i <= q => i * b <= q * b
    BY <1>1
  <2>2. q + 1 <= i => (q + 1) * b <= i * b
    BY <1>1
  <2> QED BY <1>2, <2>1, <2>2, WidthIs
<1>4. \A i \in Nat : Deep(k, i) <=> i \in 0 .. q
  BY <1>1, <1>3 DEF Deep
<1> QED BY <1>1, <1>2, <1>4

\* All nodes above one that a point falls into cut and have the point, too.
LEMMA NodesAbove ==
  ASSUME NEW ns, Shaped(ns), NEW k \in Tree, NEW x, Point(x),
         NEW n \in DOMAIN ns, n = Name(k, n[2], x), n[1] = k
  PROVE  \A j \in 0 .. n[2] - 1 : CutsAt(ns, Name(k, j, x))
<1>0. n[2] \in Nat /\ Deep(k, n[2])
  BY DEF Shaped, ShapedAt, IsName, Deep
<1> PICK m \in Nat : m = n[2]
  BY <1>0
<1> DEFINE P == {i \in Nat : i >= 1 /\ i <= m => CutsAt(ns, Name(k, m - i, x)) /\ Deep(k, m - i)}
<1>1. 0 \in P
  OBVIOUS
<1>2. ASSUME NEW i \in Nat, i \in P
      PROVE  i + 1 \in P
  <2> SUFFICES ASSUME i + 1 <= m
               PROVE  CutsAt(ns, Name(k, m - (i + 1), x)) /\ Deep(k, m - (i + 1))
    OBVIOUS
  <2>1. PICK j \in Nat : j = m - (i + 1) /\ j + 1 = m - i
    OBVIOUS
  <2>2. Name(k, j + 1, x) \in DOMAIN ns /\ Deep(k, j + 1)
    <3>1. CASE i = 0
      <4>1. m - i = m
        BY <3>1
      <4> QED BY <1>0, <2>1, <4>1
    <3>2. CASE i >= 1
      BY <1>2, <2>1, <3>2 DEF CutsAt
    <3> QED BY <3>1, <3>2
  <2>3. PICK c : c = Name(k, j + 1, x)
    OBVIOUS
  <2>4. c[2] = j + 1 /\ c \in DOMAIN ns
    <3>1. Name(k, j + 1, x)[2] = j + 1
      BY NameHas
    <3> QED BY <2>2, <2>3, <3>1
  <2>5. c[2] > 0
    BY <2>4
  <2>6. CutsAt(ns, Parent(c))
    BY <2>4, <2>5 DEF Shaped, ShapedAt
  <2>7. Deep(k, j) /\ Parent(c) = Name(k, j, x)
    BY <2>2, <2>3, ParentOfName
  <2> QED BY <2>1, <2>6, <2>7, Zenon
<1>3. \A i \in Nat : i \in P
  <2> HIDE DEF P
  <2> QED BY <1>1, <1>2, NatInduct
<1>4. ASSUME NEW j \in 0 .. m - 1
      PROVE  CutsAt(ns, Name(k, j, x))
  <2>1. m - j \in Nat /\ m - j >= 1 /\ m - j <= m /\ m - (m - j) = j
    OBVIOUS
  <2>2. m - j \in P
    BY <1>3, <2>1
  <2>3. CutsAt(ns, Name(k, m - (m - j), x))
    BY <2>1, <2>2
  <2> QED BY <2>1, <2>3, Zenon
<1> QED BY <1>4

\* Where a way ends: the nodes above cut, and there is no further.
LEMMA WayEnds ==
  ASSUME NEW ns, NEW k \in Tree, NEW x
  PROVE  \E m \in Nat :
           /\ Deep(k, m) /\ ReachedIn(ns, k, x) = Name(k, m, x)
           /\ \A j \in 0 .. m - 1 : CutsAt(ns, Name(k, j, x))
           /\ CutsAt(ns, Name(k, m, x)) => ~Deep(k, m + 1)
<1> DEFINE I == {i \in 0 .. W \div Bits(k) : \A j \in 0 .. i - 1 : CutsAt(ns, Name(k, j, x))}
           m == Max(I)
<1>1. PICK q \in Nat : q = W \div Bits(k) /\ \A i \in Nat : Deep(k, i) <=> i \in 0 .. q
  BY DepthsAre
<1>2. 0 \in I
  BY <1>1
<1>3. I \subseteq 0 .. q
  BY <1>1
<1>4. ReachedIn(ns, k, x) = Name(k, m, x)
  BY Zenon DEF ReachedIn
<1>5. \A i \in 0 .. q : i \in I <=> \A j \in 0 .. i - 1 : CutsAt(ns, Name(k, j, x))
  BY <1>1
<1> HIDE DEF I
<1>6. m \in I /\ \A i \in I : i <= m
  <2>1. 0 \in Int /\ q \in Int
    OBVIOUS
  <2>2. IsFiniteSet(0 .. q)
    BY <2>1, FS_Interval
  <2>3. IsFiniteSet(I) /\ I \in SUBSET Nat
    <3>1. I \in SUBSET (0 .. q)
      BY <1>3
    <3>2. IsFiniteSet(I)
      BY <2>2, <3>1, FS_Subset
    <3> QED BY <3>1, <3>2
  <2> QED BY <1>2, <2>3, MaxIs
<1> HIDE DEF m
<1>7. m \in Nat /\ m \in 0 .. q /\ Deep(k, m)
  BY <1>1, <1>3, <1>6
<1>8. ASSUME CutsAt(ns, Name(k, m, x)), Deep(k, m + 1)
      PROVE  FALSE
  <2>1. m + 1 \in 0 .. q
    BY <1>1, <1>7, <1>8
  <2>2. ASSUME NEW j \in 0 .. (m + 1) - 1
        PROVE  CutsAt(ns, Name(k, j, x))
    <3>1. j = m \/ j \in 0 .. m - 1
      BY <1>7
    <3> QED BY <1>5, <1>6, <1>7, <1>8, <3>1
  <2>3. m + 1 \in I
    BY <1>5, <2>1, <2>2
  <2> QED BY <1>6, <1>7, <2>3
<1> QED BY <1>4, <1>5, <1>6, <1>7, <1>8

\* A way ends at a leaf exactly if its point falls into the leaf.
LEMMA ReachedIs ==
  ASSUME NEW ns, Shaped(ns), NEW k \in Tree, NEW x, Point(x), NEW n \in DOMAIN ns
  PROVE  /\ ns[n].type = "Cuts" => ReachedIn(ns, k, x) # n
         /\ ns[n].type # "Cuts" =>
              (ReachedIn(ns, k, x) = n <=> n[1] = k /\ n = Name(k, n[2], x))
<1>1. PICK m \in Nat :
        /\ Deep(k, m) /\ ReachedIn(ns, k, x) = Name(k, m, x)
        /\ \A j \in 0 .. m - 1 : CutsAt(ns, Name(k, j, x))
        /\ CutsAt(ns, Name(k, m, x)) => ~Deep(k, m + 1)
  BY WayEnds
<1>2. Name(k, m, x)[1] = k /\ Name(k, m, x)[2] = m
  BY NameHas
<1>3. n[2] \in Nat /\ (ns[n].type = "Cuts" => Deep(n[1], n[2] + 1))
  BY DEF Shaped, ShapedAt, IsName
<1>4. ASSUME ReachedIn(ns, k, x) = n
      PROVE  ns[n].type # "Cuts" /\ n[1] = k /\ n = Name(k, n[2], x)
  <2>1. n = Name(k, m, x) /\ n[1] = k /\ n[2] = m
    BY <1>1, <1>2, <1>4
  <2>2. ns[n].type = "Cuts" => CutsAt(ns, Name(k, m, x)) /\ Deep(k, m + 1)
    BY <1>3, <2>1 DEF CutsAt
  <2> QED BY <1>1, <2>1, <2>2
<1>5. ASSUME ns[n].type # "Cuts", n[1] = k, n = Name(k, n[2], x)
      PROVE  ReachedIn(ns, k, x) = n
  <2> PICK i \in Nat : i = n[2]
    BY <1>3
  <2>1. \A j \in 0 .. i - 1 : CutsAt(ns, Name(k, j, x))
    BY <1>5, NodesAbove
  <2>2. ~CutsAt(ns, Name(k, i, x)) /\ Name(k, i, x) \in DOMAIN ns
    BY <1>5 DEF CutsAt
  <2>3. ~(i < m)
    <3>1. i < m => i \in 0 .. m - 1
      OBVIOUS
    <3> QED BY <1>1, <2>2, <3>1
  <2>4. ~(m < i)
    <3> SUFFICES ASSUME m < i
                 PROVE  FALSE
      OBVIOUS
    <3>1. m \in 0 .. i - 1
      OBVIOUS
    <3>2. CutsAt(ns, Name(k, m, x))
      BY <2>1, <3>1
    <3>3. PICK c \in DOMAIN ns : c = Name(k, m, x) /\ ns[c].type = "Cuts"
      BY <3>2 DEF CutsAt
    <3>4. Deep(c[1], c[2] + 1) /\ c[1] = k /\ c[2] = m
      BY <1>2, <3>3 DEF Shaped, ShapedAt
    <3> QED BY <1>1, <3>2, <3>4
  <2>5. i = m
    BY <2>3, <2>4
  <2> QED BY <1>1, <1>5, <2>5
<1> QED BY <1>4, <1>5

\* What no cut divides is found from wherever in it a way starts.
LEMMA UncutIsServed ==
  ASSUME NEW ns, NEW k \in Tree, NEW r \in Rule, Uncut(ns, k, r)
  PROVE  /\ ReachedIn(ns, k, Low(r)) \in DOMAIN ns
         /\ \A p : Point(p) /\ (\A d \in Fields(k) : Low(r)[d] <= p[d] /\ p[d] <= High(r)[d]) =>
              ReachedIn(ns, k, p) = ReachedIn(ns, k, Low(r))
<1> PICK x : x = Low(r)
  OBVIOUS
<1>1. Point(x) /\ Point(High(r))
  BY EndsArePoints
<1>2. PICK m \in Nat :
        /\ Deep(k, m) /\ ReachedIn(ns, k, x) = Name(k, m, x)
        /\ \A j \in 0 .. m - 1 : CutsAt(ns, Name(k, j, x))
        /\ CutsAt(ns, Name(k, m, x)) => ~Deep(k, m + 1)
  BY WayEnds
<1>3. \A j \in 0 .. m : Deep(k, j)
  <2>1. PICK q \in Nat : \A i \in Nat : Deep(k, i) <=> i \in 0 .. q
    BY DepthsAre
  <2> QED BY <1>2, <2>1
<1>4. ASSUME NEW j \in 0 .. m - 1
      PROVE  /\ Name(k, j + 1, x) \in DOMAIN ns
             /\ Name(k, j + 1, x) = Name(k, j + 1, High(r))
  <2>1. PICK c \in DOMAIN ns : c = Name(k, j, x) /\ ns[c].type = "Cuts"
    BY <1>2 DEF CutsAt
  <2>2. j \in 0 .. m
    OBVIOUS
  <2>3. c[2] = j
    <3>1. Name(k, j, x)[2] = j
      BY NameHas
    <3> QED BY <2>1, <3>1
  <2> QED BY <2>1, <2>3 DEF Uncut
<1>5. Name(k, m, x) \in DOMAIN ns
  <2>1. CASE m = 0
    <3>1. Name(k, m, x) = Root(k)
      <4>1. Name(k, 0, x) = Root(k)
        BY <1>1, RootName
      <4> QED BY <2>1, <4>1
    <3> QED BY <3>1 DEF Uncut
  <2>2. CASE m > 0
    <3>1. m - 1 \in 0 .. m - 1 /\ (m - 1) + 1 = m
      BY <2>2
    <3> QED BY <1>4, <3>1
  <2> QED BY <2>1, <2>2
<1>6. ASSUME NEW p, Point(p), \A d \in Fields(k) : x[d] <= p[d] /\ p[d] <= High(r)[d]
      PROVE  ReachedIn(ns, k, p) = ReachedIn(ns, k, x)
  <2>1. ASSUME NEW j \in 0 .. m
        PROVE  Name(k, j, p) = Name(k, j, x)
    <3>1. CASE j = 0
      <4>1. Name(k, j, p) = Root(k) /\ Name(k, j, x) = Root(k)
        <5>1. Name(k, 0, p) = Root(k) /\ Name(k, 0, x) = Root(k)
          BY <1>1, <1>6, RootName
        <5> QED BY <3>1, <5>1
      <4> QED BY <4>1
    <3>2. CASE j > 0
      <4>1. j - 1 \in 0 .. m - 1 /\ (j - 1) + 1 = j
        BY <3>2
      <4>2. Name(k, j, x) = Name(k, j, High(r))
        BY <1>4, <4>1
      <4> QED BY <1>1, <1>3, <1>6, <4>2, NameBetween
    <3> QED BY <3>1, <3>2
  <2>2. PICK l \in Nat :
          /\ Deep(k, l) /\ ReachedIn(ns, k, p) = Name(k, l, p)
          /\ \A j \in 0 .. l - 1 : CutsAt(ns, Name(k, j, p))
          /\ CutsAt(ns, Name(k, l, p)) => ~Deep(k, l + 1)
    BY WayEnds
  <2>3. \A i \in Nat : Deep(k, i) => \A j \in 0 .. i : Deep(k, j)
    <3>1. PICK q \in Nat : \A i \in Nat : Deep(k, i) <=> i \in 0 .. q
      BY DepthsAre
    <3> QED BY <3>1
  <2>4. ~(l < m)
    <3> SUFFICES ASSUME l < m
                 PROVE  FALSE
      OBVIOUS
    <3>1. l \in 0 .. m - 1 /\ l \in 0 .. m /\ l + 1 \in 0 .. m
      OBVIOUS
    <3>2. CutsAt(ns, Name(k, l, p))
      BY <1>2, <2>1, <3>1
    <3> QED BY <1>3, <2>2, <3>1, <3>2
  <2>5. ~(m < l)
    <3> SUFFICES ASSUME m < l
                 PROVE  FALSE
      OBVIOUS
    <3>1. m \in 0 .. l - 1 /\ m \in 0 .. m /\ m + 1 \in 0 .. l
      OBVIOUS
    <3>2. CutsAt(ns, Name(k, m, x))
      BY <2>1, <2>2, <3>1
    <3> QED BY <1>2, <2>2, <2>3, <3>1, <3>2
  <2>6. l = m /\ m \in 0 .. m
    BY <2>4, <2>5
  <2> QED BY <1>2, <2>1, <2>2, <2>6
<1> QED BY <1>2, <1>5, <1>6

-----------------------------------------------------------------------------
(***************************************************************************)
(* What the construction makes: in a node of a tree are those of the rules *)
(* it is constructed from whose low ends fall into the node.               *)
(***************************************************************************)

\* The rules whose ranges meet the field of node n, and those whose low ends
\* fall into it.
Meets(n) ==
  {r \in Rule : \A d \in DOMAIN n[3] :
     /\ r.range[d][1] < (n[3][d] + 1) * Size(n[1], n[2])
     /\ r.range[d][2] >= n[3][d] * Size(n[1], n[2])}

Through(n) == {r \in Rule : n = Name(n[1], n[2], Low(r))}

NodeCuts(n, list) == NodeType(n, RulesMeeting(n, list)) = "Cuts"

LEMMA MeetingIs ==
  ASSUME NEW n, NEW list \in Seq(Rule), NEW v, v = RulesMeeting(n, list)
  PROVE  /\ v \in Seq(Rule) /\ Range(v) = Range(list) \cap Meets(n)
         /\ InDescendingOrder(list) => InDescendingOrder(v)
         /\ \A Z : Count(v, Z) = Count(list, Meets(n) \cap Z)
<1>1. v = Only(list, Meets(n))
  BY Zenon DEF RulesMeeting, Meets
<1> QED BY <1>1, OnlyIs, CountOnly

LEMMA MeetsIs ==
  ASSUME NEW n, IsName(n), NEW r \in Rule
  PROVE  r \in Meets(n) <=> \A d \in Fields(n[1]) :
           /\ Low(r)[d] < (n[3][d] + 1) * Size(n[1], n[2])
           /\ High(r)[d] >= n[3][d] * Size(n[1], n[2])
<1>1. DOMAIN n[3] = Fields(n[1])
  BY DEF IsName
<1>2. \A d \in Fields(n[1]) : Low(r)[d] = r.range[d][1] /\ High(r)[d] = r.range[d][2]
  BY EndsArePoints, FieldsAre DEF IsName
<1> QED BY <1>1, <1>2 DEF Meets

LEMMA ThroughMeets ==
  ASSUME NEW n, IsName(n), NEW r \in Through(n)
  PROVE  r \in Meets(n)
<1> PICK k \in Tree : k = n[1]
  BY DEF IsName
<1> PICK i : i = n[2] /\ Deep(k, i)
  BY DEF IsName, Deep
<1> PICK size \in Nat : size = Size(k, i) /\ size >= 1
  BY SizeIs
<1>0. r \in Rule /\ n = Name(k, i, Low(r)) /\ Point(Low(r)) /\ Point(High(r))
  BY EndsArePoints DEF Through
<1>1. n[3] = [d \in Fields(k) |-> Low(r)[d] \div size]
  BY <1>0, NameIs
<1>2. ASSUME NEW d \in Fields(k)
      PROVE  Low(r)[d] < (n[3][d] + 1) * size /\ High(r)[d] >= n[3][d] * size
  <2>1. Low(r)[d] \in Nat /\ High(r)[d] \in Nat
    BY <1>0, PointIsNat
  <2>2. Low(r)[d] <= High(r)[d]
    BY <1>0, EndsArePoints, FieldsAre
  <2> PICK y \in Nat : y = Low(r)[d]
    BY <2>1
  <2>3. PICK q \in Nat : q = y \div size /\ q * size <= y /\ y < (q + 1) * size
    BY QuotientIs
  <2>4. n[3][d] = q
    BY <1>1, <2>3
  <2>5. q * size \in Nat
    OBVIOUS
  <2> QED BY <2>1, <2>2, <2>3, <2>4, <2>5
<1> QED BY <1>0, <1>2, MeetsIs

\* A node that cuts has slots of points, and none of its rules lies in two.
LEMMA CutIs ==
  ASSUME NEW n, IsName(n), Fields(n[1]) # {}, NEW list \in Seq(Rule), NodeCuts(n, list)
  PROVE  /\ Deep(n[1], n[2] + 1)
         /\ \A r \in Range(list) \cap Meets(n) : \A d \in Fields(n[1]) :
              Low(r)[d] \div Size(n[1], n[2] + 1) = High(r)[d] \div Size(n[1], n[2] + 1)
<1> PICK k \in Tree : k = n[1]
  BY DEF IsName
<1> PICK i \in Nat : i = n[2] /\ Deep(k, i)
  BY DEF IsName, Deep
<1> PICK size \in Nat : size = Size(k, i) /\ size >= 1
  BY SizeIs
<1> PICK b \in Nat : b = Bits(k) /\ b \in 1 .. W
  BY WidthIs
<1> PICK rules : rules = RulesMeeting(n, list)
  OBVIOUS
<1>0. W \in Nat
  BY WidthIs
<1>1. rules \in Seq(Rule) /\ Range(rules) = Range(list) \cap Meets(n)
  BY MeetingIs
<1>2. DOMAIN n[3] = Fields(k)
  BY DEF IsName
<1>3. \A d \in DOMAIN n[3] : CalcCutsn(n, rules, d) = 2^Bits(n[1])
  <2>1. NodeType(n, rules) = "Cuts"
    BY DEF NodeCuts
  <2> QED BY <2>1 DEF NodeType
<1>4. \A j \in 0 .. b : 2^j \in Nat
  BY <1>0, PowersAre
<1>5. ASSUME NEW d \in Fields(k)
      PROVE  /\ 2^b \div 2 < (size - 1) \div 2
             /\ \A r \in Range(rules) :
                  r.range[d][1] \div (size \div 2^b) = r.range[d][2] \div (size \div 2^b)
  <2> DEFINE C == {c \in {2^j : j \in 0 .. b} :
                     \/ c = 1
                     \/ /\ c \div 2 < (size - 1) \div 2
                        /\ \A r \in Range(rules) :
                             r.range[d][1] \div (size \div c) = r.range[d][2] \div (size \div c)}
  <2>1. CalcCutsn(n, rules, d) = Max(C)
    BY DEF CalcCutsn
  <2>2. IsFiniteSet({2^j : j \in 0 .. b})
    <3> DEFINE f == [j \in 0 .. b |-> 2^j]
    <3>1. f \in Surjection(0 .. b, {2^j : j \in 0 .. b})
      BY DEF Surjection
    <3>2. 0 \in Int /\ b \in Int
      OBVIOUS
    <3>3. IsFiniteSet(0 .. b)
      BY <3>2, FS_Interval
    <3> QED BY <3>1, <3>3, FS_Surjection
  <2>3. C \in SUBSET {2^j : j \in 0 .. b} /\ C \in SUBSET Nat /\ 1 \in C
    <3>1. 1 \in {2^j : j \in 0 .. b}
      <4>1. 0 \in 0 .. b /\ 2^0 = 1
        BY PowersAssumption
      <4> PICK o : o = 0
        OBVIOUS
      <4>2. 2^o \in {2^j : j \in 0 .. b} /\ 2^o = 1
        BY <4>1
      <4> QED BY <4>2
    <3> QED BY <1>4, <3>1
  <2>4. Max(C) \in C
    <3> HIDE DEF C
    <3>1. IsFiniteSet(C)
      BY <2>2, <2>3, FS_Subset
    <3> QED BY <2>3, <3>1, MaxIs
  <2>5. Max(C) = 2^b
    <3>1. CalcCutsn(n, rules, d) = 2^b
      BY <1>2, <1>3
    <3> QED BY <2>1, <3>1, Zenon
  <2>6. 2^b \in C
    BY <2>4, <2>5, Zenon
  <2>7. 2^b # 1
    <3>1. 2^b >= 2
      BY SlotsAre DEF Slots
    <3> QED BY <3>1
  <2> QED BY <2>6, <2>7
<1>6. Deep(k, i + 1)
  <2>1. PICK d : d \in Fields(k)
    OBVIOUS
  <2>2. PICK s \in Nat : s = 2^b
    BY SlotsAre DEF Slots
  <2>3. s \div 2 < (size - 1) \div 2
    BY <1>5, <2>1, <2>2
  <2>4. s < size
    BY <2>3
  <2>5. PICK e \in Nat : e = i * b
    OBVIOUS
  <2>6. e <= W /\ W - e \in 0 .. W /\ b \in 0 .. W
    BY <1>0, <2>5 DEF Deep
  <2>7. size = 2^(W - e)
    BY <2>5 DEF Size
  <2>8. 2^b < 2^(W - e)
    BY <2>2, <2>4, <2>7
  <2>9. b < W - e
    BY <2>6, <2>8, PowersGrow
  <2>10. (i + 1) * b = e + b
    BY <2>5
  <2>11. (i + 1) * b <= W
    BY <1>0, <2>6, <2>9, <2>10
  <2> QED BY <2>11 DEF Deep
<1>7. size \div 2^b = Size(k, i + 1)
  <2>1. PICK s \in Nat : s = Slots(k) /\ s >= 1
    BY SlotsAre
  <2>2. PICK t \in Nat : t = Size(k, i + 1) /\ t >= 1
    BY <1>6, SizeIs
  <2>3. size = s * t
    BY <1>6, <2>1, <2>2, SizeOfSlot
  <2>4. t * s <= size /\ size < (t + 1) * s
    BY <2>1, <2>3
  <2>5. size \div s = t
    BY <2>1, <2>4, QuotientIs
  <2> QED BY <2>1, <2>2, <2>5 DEF Slots
<1>8. ASSUME NEW r \in Range(list) \cap Meets(n), NEW d \in Fields(k)
      PROVE  Low(r)[d] \div Size(k, i + 1) = High(r)[d] \div Size(k, i + 1)
  <2>1. r \in Range(rules) /\ r \in Rule
    BY <1>1 DEF Meets
  <2>2. r.range[d][1] \div (size \div 2^b) = r.range[d][2] \div (size \div 2^b)
    BY <1>5, <2>1
  <2>3. Low(r)[d] = r.range[d][1] /\ High(r)[d] = r.range[d][2]
    BY <2>1, EndsArePoints, FieldsAre
  <2> QED BY <1>7, <2>2, <2>3, Zenon
<1> QED BY <1>6, <1>8

\* So such a rule falls into one child with both its ends.
LEMMA CutName ==
  ASSUME NEW n, IsName(n), Fields(n[1]) # {}, NEW list \in Seq(Rule), NodeCuts(n, list),
         NEW r \in Range(list) \cap Meets(n)
  PROVE  Name(n[1], n[2] + 1, Low(r)) = Name(n[1], n[2] + 1, High(r))
<1>1. \A d \in Fields(n[1]) :
        Low(r)[d] \div Size(n[1], n[2] + 1) = High(r)[d] \div Size(n[1], n[2] + 1)
  BY CutIs
<1> PICK t : t = Size(n[1], n[2] + 1)
  OBVIOUS
<1>2. [d \in Fields(n[1]) |-> Low(r)[d] \div t] = [d \in Fields(n[1]) |-> High(r)[d] \div t]
  BY <1>1
<1> QED BY <1>2, Zenon DEF Name, Fields

\* What the construction knows of a node: its name, and that a rule that meets
\* it falls into it.
Node(n, k, i, list) ==
  /\ IsName(n) /\ n[1] = k /\ n[2] = i
  /\ \A r \in Range(list) \cap Meets(n) : r \in Through(n)

\* A child of a node that cuts is such a node again.
LEMMA ChildIs ==
  ASSUME NEW k \in Tree, Fields(k) # {}, NEW i \in Nat, NEW list \in Seq(Rule),
         NEW n, Node(n, k, i, list), NodeCuts(n, list), NEW m \in Children(n, list)
  PROVE  Node(m, k, i + 1, list) /\ Parent(m) = n
<1>0. IsName(n) /\ n[1] = k /\ n[2] = i /\ n = <<k, i, n[3]>> /\ n[3] \in [Fields(k) -> Address]
  BY DEF Node, IsName
<1>12. /\ Deep(n[1], n[2] + 1)
       /\ \A r \in Range(list) \cap Meets(n) : \A d \in Fields(n[1]) :
            Low(r)[d] \div Size(n[1], n[2] + 1) = High(r)[d] \div Size(n[1], n[2] + 1)
  BY <1>0, CutIs
<1>1. Deep(k, i + 1)
  BY <1>0, <1>12
<1> PICK s \in Nat : s = Slots(k) /\ s >= 1
  BY SlotsAre
<1> PICK t \in Nat : t = Size(k, i + 1) /\ t >= 1
  BY <1>1, SizeIs
<1>2. Size(k, i) = s * t
  BY <1>1, SizeOfSlot
<1>3. \A d \in Fields(k) : n[3][d] \in Nat
  <2>1. Address \in SUBSET Nat
    BY DEF Address
  <2> QED BY <1>0, <2>1
<1>4. PICK u : /\ m = <<k, i + 1, u>> /\ u \in [Fields(k) -> 0 .. 2^W]
               /\ \A d \in Fields(k) : u[d] \in n[3][d] * s .. (n[3][d] + 1) * s - 1
               /\ RulesMeeting(m, list) # << >>
  <2>1. DOMAIN n[3] = Fields(k) /\ s = 2^Bits(n[1])
    BY <1>0 DEF Slots
  <2>2. /\ m \in {<<n[1], n[2] + 1, v>> :
                    v \in {w \in [DOMAIN n[3] -> 0 .. 2^W] :
                             \A d \in DOMAIN w : w[d] \in n[3][d] * 2^Bits(n[1]) .. (n[3][d] + 1) * 2^Bits(n[1]) - 1}}
        /\ RulesMeeting(m, list) # << >>
    BY DEF Children
  <2>3. PICK u \in {w \in [DOMAIN n[3] -> 0 .. 2^W] :
                      \A d \in DOMAIN w : w[d] \in n[3][d] * 2^Bits(n[1]) .. (n[3][d] + 1) * 2^Bits(n[1]) - 1} :
             m = <<n[1], n[2] + 1, u>>
    BY <2>2
  <2>4. u \in [Fields(k) -> 0 .. 2^W] /\ DOMAIN u = Fields(k)
    BY <2>1, <2>3
  <2>5. \A d \in Fields(k) : u[d] \in n[3][d] * s .. (n[3][d] + 1) * s - 1
    BY <2>1, <2>3, <2>4
  <2> QED BY <1>0, <2>2, <2>3, <2>4, <2>5
<1>5. m[1] = k /\ m[2] = i + 1 /\ m[3] = u /\ DOMAIN u = Fields(k)
  BY <1>4
<1>6. \A d \in Fields(k) : u[d] \in Nat
  <2>1. 2^W \in Nat
    BY WidthIs, PowersAre
  <2> QED BY <1>4, <2>1
<1>7. ASSUME NEW r \in Range(list) \cap Meets(m)
      PROVE  m = Name(k, i + 1, Low(r))
  <2>1. r \in Rule /\ Point(Low(r)) /\ Point(High(r))
    BY EndsArePoints DEF Meets
  <2>2. ASSUME NEW d \in Fields(k)
        PROVE  Low(r)[d] < (u[d] + 1) * t /\ High(r)[d] >= u[d] * t
    <3>1. r.range[d][1] < (u[d] + 1) * t /\ r.range[d][2] >= u[d] * t
      BY <1>5 DEF Meets
    <3>2. Low(r)[d] = r.range[d][1] /\ High(r)[d] = r.range[d][2]
      BY <2>1, EndsArePoints, FieldsAre
    <3> QED BY <3>1, <3>2
  <2>3. ASSUME NEW d \in Fields(k)
        PROVE  Low(r)[d] < (n[3][d] + 1) * (s * t) /\ High(r)[d] >= n[3][d] * (s * t)
    <3>1. PICK a \in Nat : a = n[3][d]
      BY <1>3
    <3>2. PICK c \in Nat : c = u[d]
      BY <1>6
    <3>3. a * s <= c /\ c + 1 <= (a + 1) * s
      <4>1. c \in a * s .. (a + 1) * s - 1
        BY <1>4, <3>1, <3>2
      <4> QED BY <4>1
    <3>6. PICK x \in Nat : x = Low(r)[d]
      BY <2>1, PointIsNat
    <3>7. PICK y \in Nat : y = High(r)[d]
      BY <2>1, PointIsNat
    <3>8. x < (c + 1) * t /\ y >= c * t
      BY <2>2, <3>2, <3>6, <3>7
    <3>9. x < (a + 1) * (s * t) /\ y >= a * (s * t)
      <4>1. SlotOf(c, a, s) /\ Meeting(x, y, c, t)
        BY <3>3, <3>8 DEF SlotOf, Meeting
      <4>2. Meeting(x, y, a, s * t)
        BY <4>1, SlotOfField
      <4> QED BY <4>2 DEF Meeting
    <3> QED BY <3>1, <3>6, <3>7, <3>9
  <2>4. r \in Meets(n)
    <3>1. \A d \in Fields(n[1]) : /\ Low(r)[d] < (n[3][d] + 1) * Size(n[1], n[2])
                                  /\ High(r)[d] >= n[3][d] * Size(n[1], n[2])
      BY <1>0, <1>2, <2>3
    <3> QED BY <1>0, <2>1, <3>1, MeetsIs
  <2>5. ASSUME NEW d \in Fields(k)
        PROVE  u[d] = Low(r)[d] \div t
    <3>1. PICK c \in Nat : c = u[d]
      BY <1>6
    <3>2. PICK x \in Nat : x = Low(r)[d]
      BY <2>1, PointIsNat
    <3>3. PICK y \in Nat : y = High(r)[d]
      BY <2>1, PointIsNat
    <3>4. x < (c + 1) * t /\ y >= c * t
      BY <2>2, <3>1, <3>2, <3>3
    <3>5. x \div t = y \div t
      <4>1. Low(r)[d] \div Size(n[1], n[2] + 1) = High(r)[d] \div Size(n[1], n[2] + 1)
        <5>1. r \in Range(list) \cap Meets(n) /\ d \in Fields(n[1])
          BY <1>0, <2>4
        <5> QED BY <1>12, <5>1
      <4> QED BY <1>0, <3>2, <3>3, <4>1, Zenon
    <3>6. PICK q \in Nat : q = x \div t /\ q * t <= x
      BY QuotientIs
    <3>7. q = y \div t /\ y < (q + 1) * t
      <4>1. q = y \div t
        BY <3>5, <3>6, Zenon
      <4>2. \A p \in Nat : y \div t = p <=> p * t <= y /\ y < (p + 1) * t
        BY QuotientIs
      <4> QED BY <4>1, <4>2, Zenon
    <3>8. ~(c < q)
      <4> SUFFICES ASSUME c + 1 <= q
                   PROVE  FALSE
        OBVIOUS
      <4>1. (c + 1) * t <= q * t
        BY TimesOrdered
      <4> QED BY <3>4, <3>6, <4>1
    <3>9. ~(q < c)
      <4> SUFFICES ASSUME q + 1 <= c
                   PROVE  FALSE
        OBVIOUS
      <4>1. (q + 1) * t <= c * t
        BY TimesOrdered
      <4> PICK f \in Nat : f = (q + 1) * t
        OBVIOUS
      <4> PICK e \in Nat : e = c * t
        OBVIOUS
      <4>2. y < f /\ y >= e /\ f <= e
        BY <3>4, <3>7, <4>1
      <4> QED BY <4>2
    <3> QED BY <3>1, <3>2, <3>6, <3>8, <3>9
  <2>6. u = [d \in Fields(k) |-> Low(r)[d] \div t]
    BY <1>4, <2>5
  <2> QED BY <1>4, <2>6, Zenon DEF Name, Fields
<1>8. PICK r \in Rule : r \in Range(list) \cap Meets(m)
  <2>1. PICK v \in Seq(Rule) : v = RulesMeeting(m, list) /\ Range(v) = Range(list) \cap Meets(m)
    BY MeetingIs
  <2>2. v # << >>
    BY <1>4, <2>1
  <2>3. v[1] \in Range(v) /\ v[1] \in Rule
    BY <2>2 DEF Range
  <2> QED BY <2>1, <2>3
<1>9. IsName(m)
  <2>1. Point(Low(r)) /\ m = Name(k, i + 1, Low(r))
    BY <1>7, <1>8, EndsArePoints
  <2>2. IsName(Name(k, i + 1, Low(r)))
    BY <1>1, <2>1, NameIs
  <2> QED BY <2>1, <2>2
<1>10. \A q \in Range(list) \cap Meets(m) : q \in Through(m)
  BY <1>5, <1>7 DEF Through, Meets
<1>11. Parent(m) = n
  <2>1. ASSUME NEW d \in Fields(k)
        PROVE  u[d] \div s = n[3][d]
    <3>1. PICK a \in Nat : a = n[3][d]
      BY <1>3
    <3>2. PICK c \in Nat : c = u[d]
      BY <1>6
    <3>3. a * s <= c /\ c < (a + 1) * s
      <4>1. c \in a * s .. (a + 1) * s - 1
        BY <1>4, <3>1, <3>2
      <4> QED BY <4>1
    <3>4. c \div s = a
      BY <3>3, QuotientIs
    <3> QED BY <3>1, <3>2, <3>4
  <2>2. n[3] = [d \in Fields(k) |-> u[d] \div s]
    BY <1>0, <2>1
  <2>3. m[2] - 1 = i
    BY <1>5
  <2>4. Parent(m) = <<k, i, [d \in Fields(k) |-> u[d] \div s]>>
    BY <1>5, <2>3, Zenon DEF Parent
  <2> QED BY <1>0, <2>2, <2>4, Zenon
<1> QED BY <1>5, <1>9, <1>10, <1>11 DEF Node

\* A rule of a node that cuts has its low ends in one of the children.
LEMMA ChildOf ==
  ASSUME NEW k \in Tree, Fields(k) # {}, NEW i \in Nat, NEW list \in Seq(Rule),
         NEW n, IsName(n), n[1] = k, n[2] = i, NodeCuts(n, list),
         NEW r \in Range(list) \cap Through(n)
  PROVE  Name(k, i + 1, Low(r)) \in Children(n, list)
<1>0. Deep(k, i + 1) /\ r \in Rule /\ Point(Low(r)) /\ n[3] \in [Fields(k) -> Address]
  BY CutIs, EndsArePoints DEF Through, IsName
<1> PICK c : c = Name(k, i + 1, Low(r))
  OBVIOUS
<1>1. IsName(c) /\ c[1] = k /\ c[2] = i + 1
  <2>1. IsName(Name(k, i + 1, Low(r)))
    BY <1>0, NameIs
  <2> QED BY <2>1, NameHas
<1>2. c = <<k, i + 1, c[3]>> /\ c[3] \in [Fields(k) -> Address]
  BY <1>1 DEF IsName
<1> PICK s \in Nat : s = Slots(k) /\ s >= 1
  BY SlotsAre
<1>3. Address \in SUBSET Nat /\ Address \in SUBSET (0 .. 2^W)
  BY WidthIs, PowersAre DEF Address
<1>4. Parent(c) = n
  <2>1. Parent(c) = Name(k, i, Low(r))
    BY <1>0, ParentOfName
  <2> QED BY <2>1 DEF Through
<1>5. n[3] = [d \in Fields(k) |-> c[3][d] \div s]
  BY <1>1, <1>4 DEF Parent
<1>6. ASSUME NEW d \in Fields(k)
      PROVE  c[3][d] \in n[3][d] * s .. (n[3][d] + 1) * s - 1
  <2>1. PICK e \in Nat : e = c[3][d]
    BY <1>2, <1>3
  <2>2. PICK a \in Nat : a = e \div s /\ a * s <= e /\ e < (a + 1) * s
    BY QuotientIs
  <2>3. n[3][d] = a
    BY <1>5, <2>1, <2>2
  <2>4. a * s \in Nat /\ (a + 1) * s \in Nat
    OBVIOUS
  <2>5. e \in a * s .. (a + 1) * s - 1
    BY <2>2, <2>4
  <2> QED BY <2>1, <2>3, <2>5
<1>7. RulesMeeting(c, list) # << >>
  <2>1. r \in Through(c)
    BY <1>0, <1>1 DEF Through
  <2>2. r \in Meets(c)
    BY <1>1, <2>1, ThroughMeets
  <2>3. PICK v \in Seq(Rule) : v = RulesMeeting(c, list) /\ Range(v) = Range(list) \cap Meets(c)
    BY MeetingIs
  <2>4. r \in Range(v)
    BY <2>2, <2>3
  <2>5. v # << >>
    BY <2>4 DEF Range
  <2> QED BY <2>3, <2>5
<1>8. DOMAIN n[3] = Fields(k) /\ DOMAIN c[3] = Fields(k) /\ s = 2^Bits(n[1])
  BY <1>0, <1>2 DEF Slots
<1>9. c[3] \in {w \in [DOMAIN n[3] -> 0 .. 2^W] :
                  \A d \in DOMAIN w : w[d] \in n[3][d] * 2^Bits(n[1]) .. (n[3][d] + 1) * 2^Bits(n[1]) - 1}
  <2>1. c[3] \in [DOMAIN n[3] -> 0 .. 2^W]
    BY <1>2, <1>3, <1>8
  <2>2. \A d \in DOMAIN c[3] : c[3][d] \in n[3][d] * 2^Bits(n[1]) .. (n[3][d] + 1) * 2^Bits(n[1]) - 1
    BY <1>6, <1>8
  <2> QED BY <2>1, <2>2
<1>10. c = <<n[1], n[2] + 1, c[3]>>
  BY <1>2
<1> QED BY <1>7, <1>9, <1>10 DEF Children

\* The children of the nodes of a set that cut, and the levels of a tree.
Grown(list, S) == UNION {Children(n, list) : n \in {m \in S : NodeCuts(m, list)}}

Levels(f, k, list, n) ==
  f = [i \in 0 .. n |-> IF i = 0 THEN {Root(k)} ELSE Grown(list, f[i - 1])]

LEMMA LevelsExist ==
  ASSUME NEW k, NEW list
  PROVE  \A n \in Nat : \E f : Levels(f, k, list, n)
<1> DEFINE P == {n \in Nat : \E f : Levels(f, k, list, n)}
<1>1. 0 \in P
  <2> DEFINE f == [i \in 0 .. 0 |-> {Root(k)}]
  <2>1. f = [i \in 0 .. 0 |-> IF i = 0 THEN {Root(k)} ELSE Grown(list, f[i - 1])]
    OBVIOUS
  <2> HIDE DEF f
  <2> QED BY <2>1 DEF Levels
<1>2. ASSUME NEW n \in Nat, n \in P
      PROVE  n + 1 \in P
  <2>1. PICK f : f = [i \in 0 .. n |-> IF i = 0 THEN {Root(k)} ELSE Grown(list, f[i - 1])]
    BY <1>2 DEF Levels
  <2> DEFINE g == [i \in 0 .. n + 1 |-> IF i <= n THEN f[i] ELSE Grown(list, f[n])]
             h == [i \in 0 .. n + 1 |-> IF i = 0 THEN {Root(k)} ELSE Grown(list, g[i - 1])]
  <2>2. ASSUME NEW i \in 0 .. n + 1
        PROVE  g[i] = h[i]
    <3>1. CASE i = 0
      <4>1. g[i] = f[i] /\ f[i] = {Root(k)}
        BY <2>1, <3>1
      <4> QED BY <3>1, <4>1
    <3>2. CASE i # 0 /\ i <= n
      <4>1. i \in 0 .. n /\ i - 1 \in 0 .. n + 1 /\ i - 1 <= n
        BY <3>2
      <4>2. g[i] = f[i] /\ g[i - 1] = f[i - 1]
        BY <4>1
      <4>3. f[i] = Grown(list, f[i - 1])
        BY <2>1, <3>2, <4>1
      <4>4. h[i] = Grown(list, g[i - 1])
        BY <3>2
      <4> HIDE DEF g, h
      <4> QED BY <4>2, <4>3, <4>4
    <3>3. CASE i = n + 1
      <4>1. ~(i <= n) /\ i # 0 /\ i - 1 = n /\ n \in 0 .. n + 1 /\ n <= n
        BY <3>3
      <4>2. g[i] = Grown(list, f[n]) /\ g[n] = f[n]
        BY <4>1
      <4>3. h[i] = Grown(list, g[n])
        BY <4>1
      <4> HIDE DEF g, h
      <4> QED BY <4>2, <4>3
    <3> QED BY <3>1, <3>2, <3>3
  <2>3. g = h
    BY <2>2
  <2>4. Levels(g, k, list, n + 1)
    <3>1. g = [i \in 0 .. n + 1 |-> IF i = 0 THEN {Root(k)} ELSE Grown(list, g[i - 1])]
      <4> HIDE DEF g
      <4> QED BY <2>3
    <3> HIDE DEF g, h
    <3> QED BY <3>1 DEF Levels
  <2> QED BY <2>4
<1>3. \A n \in Nat : n \in P
  <2> HIDE DEF P
  <2> QED BY <1>1, <1>2, NatInduct
<1> QED BY <1>3

\* What is known of the nodes of each level.
LEMMA LevelsAre ==
  ASSUME NEW k \in Tree, Fields(k) # {}, NEW list \in Seq(Rule), NEW f, Levels(f, k, list, W)
  PROVE  /\ f[0] = {Root(k)}
         /\ \A i \in 0 .. W : \A n \in f[i] : Node(n, k, i, list)
         /\ \A i \in 0 .. W - 1 : \A n \in f[i + 1] :
              \E m \in f[i] : m = Parent(n) /\ NodeCuts(m, list)
         /\ \A i \in 0 .. W - 1 : \A n \in f[i] :
              NodeCuts(n, list) => \A m \in Children(n, list) : m \in f[i + 1]
<1>0. W \in Nat
  BY WidthIs
<1>1. f[0] = {Root(k)}
  BY <1>0 DEF Levels
<1>2. ASSUME NEW i \in 0 .. W - 1
      PROVE  f[i + 1] = Grown(list, f[i])
  <2>1. i + 1 \in 0 .. W /\ i + 1 # 0 /\ (i + 1) - 1 = i
    BY <1>0
  <2>2. f[i + 1] = Grown(list, f[(i + 1) - 1])
    BY <2>1 DEF Levels
  <2> QED BY <2>1, <2>2, Zenon
<1>3. ASSUME NEW i \in 0 .. W - 1, NEW n \in f[i + 1]
      PROVE  \E m \in f[i] : NodeCuts(m, list) /\ n \in Children(m, list)
  BY <1>2 DEF Grown
<1> DEFINE P == {i \in Nat : i <= W => \A n \in f[i] : Node(n, k, i, list)}
<1>4. 0 \in P
  <2> SUFFICES ASSUME NEW n, n = Root(k)
               PROVE  Node(n, k, 0, list)
    BY <1>1
  <2>1. n[1] = k /\ n[2] = 0 /\ n[3] = [d \in Fields(k) |-> 0] /\ n = <<n[1], n[2], n[3]>>
    BY DEF Root, Fields
  <2>2. 0 \in Address
    BY WidthIs, PowersAre DEF Address
  <2>3. IsName(n)
    <3>1. n[3] \in [Fields(n[1]) -> Address]
      BY <2>1, <2>2
    <3>2. n[2] * Bits(n[1]) <= W /\ n[2] \in Nat
      BY <2>1, WidthIs
    <3> QED BY <2>1, <3>1, <3>2 DEF IsName
  <2>4. ASSUME NEW r \in Range(list) \cap Meets(n)
        PROVE  r \in Through(n)
    <3>1. r \in Rule /\ Point(Low(r))
      BY EndsArePoints DEF Meets
    <3>2. Name(k, 0, Low(r)) = Root(k)
      BY <3>1, RootName
    <3>3. n = Name(n[1], n[2], Low(r))
      BY <2>1, <3>2
    <3> QED BY <3>1, <3>3 DEF Through
  <2> QED BY <2>1, <2>3, <2>4 DEF Node
<1>5. ASSUME NEW i \in Nat, i \in P
      PROVE  i + 1 \in P
  <2> SUFFICES ASSUME i + 1 <= W, NEW n \in f[i + 1]
               PROVE  Node(n, k, i + 1, list)
    OBVIOUS
  <2>1. i \in 0 .. W - 1 /\ i <= W
    BY <1>0
  <2>2. PICK m \in f[i] : NodeCuts(m, list) /\ n \in Children(m, list)
    BY <1>3, <2>1
  <2>3. Node(m, k, i, list)
    BY <1>5, <2>1
  <2> QED BY <2>2, <2>3, ChildIs
<1>6. \A i \in Nat : i \in P
  <2> HIDE DEF P
  <2> QED BY <1>4, <1>5, NatInduct
<1>7. \A i \in 0 .. W : \A n \in f[i] : Node(n, k, i, list)
  BY <1>0, <1>6
<1>8. ASSUME NEW i \in 0 .. W - 1, NEW n \in f[i + 1]
      PROVE  \E m \in f[i] : m = Parent(n) /\ NodeCuts(m, list)
  <2>1. PICK m \in f[i] : NodeCuts(m, list) /\ n \in Children(m, list)
    BY <1>3
  <2>2. Node(m, k, i, list) /\ i \in Nat
    BY <1>0, <1>7
  <2>3. Parent(n) = m
    BY <2>1, <2>2, ChildIs
  <2> QED BY <2>1, <2>3
<1>9. ASSUME NEW i \in 0 .. W - 1, NEW n \in f[i], NodeCuts(n, list), NEW m \in Children(n, list)
      PROVE  m \in f[i + 1]
  BY <1>2, <1>9 DEF Grown
<1> QED BY <1>1, <1>7, <1>8, <1>9

\* What tree k is when it is constructed from a list: ns is the tree.
Raised(ns, k, list) ==
  /\ Shaped(ns) /\ Root(k) \in DOMAIN ns
  /\ \A n \in DOMAIN ns : n[1] = k
  /\ \A r \in Range(list) : Uncut(ns, k, r)
  /\ \A n \in DOMAIN ns : ns[n].type # "Cuts" =>
       /\ \A Z : Count(ns[n].rules, Z) = Count(list, Through(n) \cap Z)
       /\ InDescendingOrder(list) => InDescendingOrder(ns[n].rules)

LEMMA PSbigIsRaised ==
  ASSUME NEW list \in Seq(Rule), NEW ns,
         ns = [n \in {Root(PSbig)} |-> [type |-> "TSS", rules |-> list]]
  PROVE  Raised(ns, PSbig, list)
<1> PICK o : o = Root(PSbig)
  OBVIOUS
<1>0. PSbig \in Tree
  BY DEF PSbig, Tree
<1>1. /\ o[1] = PSbig /\ o[2] = 0 /\ o[3] = [d \in Fields(PSbig) |-> 0] /\ o = <<o[1], o[2], o[3]>>
  BY DEF Root, Fields
<1>2. DOMAIN ns = {o} /\ ns[o] = [type |-> "TSS", rules |-> list]
  OBVIOUS
<1>3. IsName(o)
  <2>1. 0 \in Address
    BY WidthIs, PowersAre DEF Address
  <2>2. o[3] \in [Fields(o[1]) -> Address]
    BY <1>1, <2>1
  <2>3. o[2] * Bits(o[1]) <= W /\ o[2] \in Nat
    BY <1>0, <1>1, WidthIs
  <2> QED BY <1>0, <1>1, <2>2, <2>3 DEF IsName
<1>4. ns[o] \in NodeRecord /\ ns[o].type = "TSS" /\ ns[o].rules = list
  BY <1>2 DEF NodeRecord
<1>5. Shaped(ns)
  BY <1>1, <1>2, <1>3, <1>4 DEF Shaped, ShapedAt
<1>6. ASSUME NEW r \in Rule
      PROVE  r \in Through(o)
  <2>1. Name(PSbig, 0, Low(r)) = Root(PSbig)
    BY <1>0, EndsArePoints, RootName
  <2> QED BY <1>1, <2>1 DEF Through
<1>7. ASSUME NEW Z
      PROVE  Count(list, Through(o) \cap Z) = Count(list, Z)
  <2>1. \A i \in DOMAIN list : list[i] \in Rule
    OBVIOUS
  <2>2. {i \in DOMAIN list : list[i] \in Through(o) \cap Z} = {i \in DOMAIN list : list[i] \in Z}
    BY <1>6, <2>1
  <2> QED BY <2>2, Zenon DEF Count
<1>8. \A r : Uncut(ns, PSbig, r)
  BY <1>2, <1>4 DEF Uncut
<1> QED BY <1>1, <1>2, <1>4, <1>5, <1>7, <1>8 DEF Raised

\* The tree as a function of its levels.
Trie(ns, f, list) ==
  ns = [n \in UNION {f[i] : i \in 0 .. W} |->
          [type  |-> NodeType(n, RulesMeeting(n, list)),
           rules |-> IF NodeCuts(n, list) THEN << >> ELSE RulesMeeting(n, list)]]

LEMMA TrieIs ==
  ASSUME NEW k, NEW list, NEW ns, ns = ConstructCutTSSTrie(k, list)
  PROVE  \E f : Levels(f, k, list, W) /\ Trie(ns, f, list)
<1> DEFINE f == CHOOSE g : g = [i \in 0 .. W |->
                   IF i = 0 THEN {Root(k)}
                   ELSE UNION {Children(n, list) :
                                 n \in {m \in g[i - 1] : NodeType(m, RulesMeeting(m, list)) = "Cuts"}}]
<1>1. ns = [n \in UNION {f[i] : i \in 0 .. W} |->
              [type  |-> NodeType(n, RulesMeeting(n, list)),
               rules |-> IF NodeType(n, RulesMeeting(n, list)) = "Cuts" THEN << >>
                         ELSE RulesMeeting(n, list)]]
  BY Zenon DEF ConstructCutTSSTrie
<1>2. \E g : Levels(g, k, list, W)
  BY WidthIs, LevelsExist
<1>3. f = CHOOSE g : Levels(g, k, list, W)
  BY Zenon DEF Levels, Grown, NodeCuts
<1> HIDE DEF f
<1>4. Levels(f, k, list, W)
  BY <1>2, <1>3, Zenon
<1>5. Trie(ns, f, list)
  BY <1>1, Zenon DEF Trie, NodeCuts
<1> QED BY <1>4, <1>5

LEMMA TypesAre == \A n, rules : NodeType(n, rules) \in {"Cuts", "Linear", "TSS"}
BY DEF NodeType

LEMMA TrieIsRaised ==
  ASSUME NEW k \in Tree, k # PSbig, NEW list \in Seq(Rule), NEW ns, ns = ConstructCutTSSTrie(k, list)
  PROVE  Raised(ns, k, list)
<1>0. W \in Nat
  BY WidthIs
<1>1. Fields(k) # {}
  BY DEF Fields, CutTSSPartitionThresholds, PSbig, Tree
<1>2. PICK f : Levels(f, k, list, W) /\ Trie(ns, f, list)
  BY TrieIs
<1>3. /\ f[0] = {Root(k)}
      /\ \A i \in 0 .. W : \A n \in f[i] : Node(n, k, i, list)
  BY <1>1, <1>2, LevelsAre
<1>4. /\ \A i \in 0 .. W - 1 : \A n \in f[i + 1] : \E m \in f[i] : m = Parent(n) /\ NodeCuts(m, list)
      /\ \A i \in 0 .. W - 1 : \A n \in f[i] :
           NodeCuts(n, list) => \A m \in Children(n, list) : m \in f[i + 1]
  BY <1>1, <1>2, LevelsAre
<1>5. \A n : n \in DOMAIN ns <=> \E i \in 0 .. W : n \in f[i]
  BY <1>2 DEF Trie
<1>6. ASSUME NEW n \in DOMAIN ns
      PROVE  /\ n[2] \in 0 .. W /\ n \in f[n[2]] /\ Node(n, k, n[2], list)
             /\ IsName(n) /\ n[1] = k
             /\ ns[n] \in NodeRecord
             /\ ns[n].type = "Cuts" <=> NodeCuts(n, list)
             /\ ns[n].rules = IF NodeCuts(n, list) THEN << >> ELSE RulesMeeting(n, list)
  <2>1. PICK i \in 0 .. W : n \in f[i]
    BY <1>5
  <2>2. Node(n, k, i, list)
    BY <1>3, <2>1
  <2>3. n[2] = i /\ IsName(n) /\ n[1] = k
    BY <2>2 DEF Node
  <2>4. ns[n] = [type  |-> NodeType(n, RulesMeeting(n, list)),
                 rules |-> IF NodeCuts(n, list) THEN << >> ELSE RulesMeeting(n, list)]
    BY <1>2 DEF Trie
  <2>5. /\ ns[n].type = NodeType(n, RulesMeeting(n, list))
        /\ ns[n].rules = IF NodeCuts(n, list) THEN << >> ELSE RulesMeeting(n, list)
    BY <2>4
  <2>6. RulesMeeting(n, list) \in Seq(Rule)
    BY MeetingIs
  <2>7. NodeType(n, RulesMeeting(n, list)) \in {"Cuts", "Linear", "TSS"}
    BY TypesAre
  <2>8. (IF NodeCuts(n, list) THEN << >> ELSE RulesMeeting(n, list)) \in Seq(Rule)
    BY <2>6
  <2>9. ns[n] \in NodeRecord
    BY <2>4, <2>7, <2>8 DEF NodeRecord
  <2>10. ns[n].type = "Cuts" <=> NodeCuts(n, list)
    BY <2>5 DEF NodeCuts
  <2> QED BY <2>1, <2>2, <2>3, <2>5, <2>9, <2>10
<1>7. Root(k) \in DOMAIN ns
  <2>1. 0 \in 0 .. W /\ Root(k) \in f[0]
    BY <1>0, <1>3
  <2> QED BY <1>5, <2>1
<1>8. ASSUME NEW n \in DOMAIN ns, NodeCuts(n, list)
      PROVE  Deep(k, n[2] + 1) /\ n[2] \in 0 .. W - 1
  <2>1. Deep(k, n[2] + 1)
    BY <1>1, <1>6, <1>8, CutIs
  <2>2. n[2] + 1 <= W
    <3> PICK b \in Nat : b = Bits(k) /\ b >= 1
      BY WidthIs
    <3> PICK i \in Nat : i = n[2]
      BY <1>6
    <3>1. (i + 1) * b <= W
      BY <2>1 DEF Deep
    <3>2. i + 1 <= (i + 1) * b
      OBVIOUS
    <3> QED BY <1>0, <3>1, <3>2
  <2> QED BY <1>0, <1>6, <2>1, <2>2
<1>9. ASSUME NEW n \in DOMAIN ns
      PROVE  ShapedAt(ns, n)
  <2>1. ns[n].type = "Cuts" => Deep(n[1], n[2] + 1) /\ ns[n].rules = << >>
    BY <1>6, <1>8
  <2>2. n[2] = 0 => n = Root(n[1])
    BY <1>3, <1>6
  <2>3. ASSUME n[2] > 0
        PROVE  CutsAt(ns, Parent(n))
    <3> PICK i \in Nat : i = n[2] - 1 /\ i \in 0 .. W - 1 /\ i + 1 = n[2] /\ i \in 0 .. W
      BY <1>0, <1>6, <2>3
    <3>1. n \in f[i + 1]
      BY <1>6
    <3>2. PICK m \in f[i] : m = Parent(n) /\ NodeCuts(m, list)
      BY <1>4, <3>1
    <3>3. m \in DOMAIN ns
      BY <1>5, <3>2
    <3> QED BY <1>6, <3>2, <3>3 DEF CutsAt
  <2> QED BY <1>6, <1>7, <2>1, <2>2, <2>3 DEF ShapedAt
<1>10. ASSUME NEW r \in Range(list), NEW n \in DOMAIN ns, ns[n].type = "Cuts",
              n = Name(k, n[2], Low(r))
       PROVE  /\ Name(k, n[2] + 1, Low(r)) \in DOMAIN ns
              /\ Name(k, n[2] + 1, Low(r)) = Name(k, n[2] + 1, High(r))
  <2>1. NodeCuts(n, list) /\ IsName(n) /\ n[1] = k /\ n \in f[n[2]]
    BY <1>6, <1>10
  <2>2. n[2] \in 0 .. W - 1 /\ n[2] + 1 \in 0 .. W /\ n[2] \in Nat
    BY <1>0, <1>8, <1>10, <2>1
  <2>3. r \in Rule
    BY DEF Range
  <2>4. r \in Through(n)
    BY <1>10, <2>1, <2>3 DEF Through
  <2>5. r \in Range(list) \cap Meets(n) /\ r \in Range(list) \cap Through(n)
    BY <2>1, <2>4, ThroughMeets
  <2>6. Name(n[1], n[2] + 1, Low(r)) = Name(n[1], n[2] + 1, High(r))
    BY <1>1, <2>1, <2>5, CutName
  <2> PICK i \in Nat : i = n[2]
    BY <2>2
  <2>7. Name(k, i + 1, Low(r)) \in Children(n, list)
    BY <1>1, <2>1, <2>5, ChildOf
  <2>8. Name(k, i + 1, Low(r)) \in f[i + 1]
    BY <1>4, <2>1, <2>2, <2>7
  <2>9. Name(k, i + 1, Low(r)) \in DOMAIN ns
    BY <1>5, <2>2, <2>8
  <2> QED BY <2>1, <2>6, <2>9
<1>11. ASSUME NEW n \in DOMAIN ns, ns[n].type # "Cuts"
       PROVE  /\ \A Z : Count(ns[n].rules, Z) = Count(list, Through(n) \cap Z)
              /\ InDescendingOrder(list) => InDescendingOrder(ns[n].rules)
  <2>1. ns[n].rules = RulesMeeting(n, list) /\ IsName(n)
    BY <1>6, <1>11
  <2>2. /\ \A Z : Count(ns[n].rules, Z) = Count(list, Meets(n) \cap Z)
        /\ InDescendingOrder(list) => InDescendingOrder(ns[n].rules)
    BY <2>1, MeetingIs
  <2>3. ASSUME NEW r \in Range(list)
        PROVE  r \in Meets(n) <=> r \in Through(n)
    <3>1. r \in Through(n) => r \in Meets(n)
      BY <2>1, ThroughMeets
    <3>2. r \in Meets(n) => r \in Through(n)
      BY <1>6 DEF Node
    <3> QED BY <3>1, <3>2
  <2>4. \A i \in DOMAIN list : list[i] \in Meets(n) <=> list[i] \in Through(n)
    BY <2>3 DEF Range
  <2>5. ASSUME NEW Z
        PROVE  Count(list, Meets(n) \cap Z) = Count(list, Through(n) \cap Z)
    <3>1. {i \in DOMAIN list : list[i] \in Meets(n) \cap Z} = {i \in DOMAIN list : list[i] \in Through(n) \cap Z}
      BY <2>4
    <3> QED BY <3>1, Zenon DEF Count
  <2> QED BY <2>2, <2>5
<1>12. Shaped(ns)
  BY <1>9 DEF Shaped
<1>13. \A r \in Range(list) : Uncut(ns, k, r)
  BY <1>7, <1>10 DEF Uncut
<1> QED BY <1>6, <1>7, <1>11, <1>12, <1>13 DEF Raised

\* What Constructed makes of a list that is not empty.
LEMMA ConstructedIs ==
  ASSUME NEW k \in Tree, NEW list \in Seq(Rule), list # << >>, NEW ns, ns = Constructed(k, list)
  PROVE  Raised(ns, k, list)
<1>1. CASE k = PSbig
  <2>1. ns = [n \in {Root(PSbig)} |-> [type |-> "TSS", rules |-> list]]
    BY <1>1 DEF Constructed
  <2> QED BY <1>1, <2>1, PSbigIsRaised
<1>2. CASE k # PSbig
  <2>1. ns = ConstructCutTSSTrie(k, list)
    BY <1>2 DEF Constructed
  <2> QED BY <1>2, <2>1, TrieIsRaised
<1> QED BY <1>1, <1>2

-----------------------------------------------------------------------------
(***************************************************************************)
(* The inductive invariant, over values sub, mp, ns, bt and lv of the      *)
(* variables.                                                              *)
(***************************************************************************)

\* A rule is kept by the leaf that its low ends lead to: n, if n is a leaf.
Comes(r, n) == CutTSSSubsetIndex(r) = n[1] /\ r \in Through(n)

HeldAt(lv, n) == [r \in Rule |-> IF Comes(r, n) THEN lv[r] ELSE 0]

\* A list has the copies of the rules that belong to subset k, in order.
Dealt(list, k, lv) ==
  /\ \A r \in Rule : Count(list, {r}) = IF CutTSSSubsetIndex(r) = k THEN lv[r] ELSE 0
  /\ InDescendingOrder(list)

Lists(sub, lv) ==
  /\ sub \in [Tree -> Seq(Rule)] /\ lv \in [Rule -> Nat]
  /\ \A k \in Tree : Dealt(sub[k], k, lv)

Greatest(sub, mp) == mp = [k \in Tree |-> MaxPriorityOrMinusOne(sub[k])]

Rooted(sub, ns) == \A k \in Tree : sub[k] # << >> => Root(k) \in DOMAIN ns

LeafHolds(node, lv, n) ==
  /\ \A r \in Rule : Count(node.rules, Confused(node.type, r))
                       = SumFunctionOnSet(HeldAt(lv, n), Confused(node.type, r))
  /\ node.type = "Linear" => InDescendingOrder(node.rules)

Holding(ns, lv) == \A n \in DOMAIN ns : ns[n].type # "Cuts" => LeafHolds(ns[n], lv, n)

BuiltUncut(ns, bt) ==
  bt \in SUBSET Rule /\ \A r \in bt : Uncut(ns, CutTSSSubsetIndex(r), r)

InvOf(sub, mp, ns, bt, lv) ==
  /\ Lists(sub, lv) /\ Greatest(sub, mp) /\ Rooted(sub, ns)
  /\ Shaped(ns) /\ Holding(ns, lv) /\ BuiltUncut(ns, bt)

Inv == InvOf(subset, maxPri, nodes, built, live)

\* The updates come to a leaf exactly with the rules it keeps.
LEMMA ComesIs ==
  ASSUME NEW ns, Shaped(ns), NEW r \in Rule, NEW n \in DOMAIN ns
  PROVE  /\ ns[n].type = "Cuts" => PlaceIn(ns, r) # n
         /\ ns[n].type # "Cuts" => (PlaceIn(ns, r) = n <=> Comes(r, n))
<1> PICK k \in Tree : k = CutTSSSubsetIndex(r)
  BY IndexIs
<1> PICK x : x = Low(r)
  OBVIOUS
<1>1. Point(x)
  BY EndsArePoints
<1>2. PlaceIn(ns, r) = ReachedIn(ns, k, x)
  BY DEF PlaceIn
<1>3. /\ ns[n].type = "Cuts" => ReachedIn(ns, k, x) # n
      /\ ns[n].type # "Cuts" =>
           (ReachedIn(ns, k, x) = n <=> n[1] = k /\ n = Name(k, n[2], x))
  BY <1>1, ReachedIs
<1>4. Comes(r, n) <=> n[1] = k /\ n = Name(k, n[2], x)
  BY DEF Comes, Through
<1> QED BY <1>2, <1>3, <1>4

LEMMA ConfusedAre ==
  ASSUME NEW type, NEW r \in Rule
  PROVE  /\ Confused(type, r) \in SUBSET Rule /\ r \in Confused(type, r)
         /\ \A s \in Rule : s \in Confused(type, r) <=> Confused(type, s) = Confused(type, r)
         /\ \A s \in Confused(type, r) : s.priority = r.priority
<1>1. CASE type = "TSS"
  <2>1. Confused(type, r) = SameEntry(r)
    BY <1>1 DEF Confused
  <2>2. \A s \in Rule : Confused(type, s) = SameEntry(s)
    BY <1>1 DEF Confused
  <2>3. SameEntry(r) \in SUBSET Rule /\ r \in SameEntry(r) /\ \A s \in SameEntry(r) : s.priority = r.priority
    BY DEF SameEntry
  <2>4. ASSUME NEW s \in SameEntry(r)
        PROVE  SameEntry(s) = SameEntry(r)
    <3>1. \A q \in Rule : q \in SameEntry(s) <=> q \in SameEntry(r)
      BY DEF SameEntry
    <3>2. SameEntry(s) \in SUBSET Rule
      BY DEF SameEntry
    <3> QED BY <2>3, <3>1, <3>2
  <2>5. \A s \in Rule : s \in SameEntry(s)
    BY DEF SameEntry
  <2> QED BY <2>1, <2>2, <2>3, <2>4, <2>5
<1>2. CASE type # "TSS"
  <2>1. \A s \in Rule : Confused(type, s) = {q \in Rule : q.priority = s.priority}
    BY <1>2 DEF Confused
  <2> QED BY <2>1
<1> QED BY <1>1, <1>2

LEMMA HeldIs ==
  ASSUME NEW lv \in [Rule -> Nat], NEW n
  PROVE  /\ HeldAt(lv, n) \in [Rule -> Nat]
         /\ \A r \in Rule : HeldAt(lv, n)[r] = IF Comes(r, n) THEN lv[r] ELSE 0
         /\ \A Z \in SUBSET Rule : SumFunctionOnSet(HeldAt(lv, n), Z) \in Nat
<1>1. /\ HeldAt(lv, n) \in [Rule -> Nat]
      /\ \A r \in Rule : HeldAt(lv, n)[r] = IF Comes(r, n) THEN lv[r] ELSE 0
  BY DEF HeldAt
<1>2. ASSUME NEW Z \in SUBSET Rule
      PROVE  SumFunctionOnSet(HeldAt(lv, n), Z) \in Nat
  <2>1. IsFiniteSet(Z)
    BY RuleAssumption, FS_Subset
  <2>2. \A x \in Z : HeldAt(lv, n)[x] \in Nat
    BY <1>1
  <2> QED BY <2>1, <2>2, SumBounds
<1> QED BY <1>1, <1>2

\* lv and lw differ in the copies of rule r at most.
Differ(lv, lw, r) == \A s \in Rule : s # r => lw[s] = lv[s]

\* Only the leaf that keeps a rule sees its copies change.
LEMMA HeldElsewhere ==
  ASSUME NEW lv \in [Rule -> Nat], NEW lw \in [Rule -> Nat], NEW r \in Rule,
         Differ(lv, lw, r), NEW n, ~Comes(r, n)
  PROVE  HeldAt(lw, n) = HeldAt(lv, n)
<1>1. \A s \in Rule : HeldAt(lw, n)[s] = HeldAt(lv, n)[s]
  BY HeldIs DEF Differ
<1>2. HeldAt(lw, n) \in [Rule -> Nat] /\ HeldAt(lv, n) \in [Rule -> Nat]
  BY HeldIs
<1> QED BY <1>1, <1>2

\* The sums of what node n holds differ by the copies of rule r.
SumsDiffer(lv, lw, r, n) ==
  \A Z \in SUBSET Rule :
    SumFunctionOnSet(HeldAt(lw, n), Z) + (IF r \in Z THEN lv[r] ELSE 0)
      = SumFunctionOnSet(HeldAt(lv, n), Z) + (IF r \in Z THEN lw[r] ELSE 0)

LEMMA HeldChanges ==
  ASSUME NEW lv \in [Rule -> Nat], NEW lw \in [Rule -> Nat], NEW r \in Rule,
         Differ(lv, lw, r), NEW n, Comes(r, n)
  PROVE  SumsDiffer(lv, lw, r, n)
<1> SUFFICES ASSUME NEW Z \in SUBSET Rule
             PROVE  SumFunctionOnSet(HeldAt(lw, n), Z) + (IF r \in Z THEN lv[r] ELSE 0)
                      = SumFunctionOnSet(HeldAt(lv, n), Z) + (IF r \in Z THEN lw[r] ELSE 0)
  BY DEF SumsDiffer
<1> PICK f \in [Rule -> Nat] : f = HeldAt(lv, n)
  BY HeldIs
<1> PICK g \in [Rule -> Nat] : g = HeldAt(lw, n)
  BY HeldIs
<1>1. f[r] = lv[r] /\ g[r] = lw[r] /\ \A s \in Rule : s # r => g[s] = f[s]
  BY HeldIs DEF Differ
<1>2. IsFiniteSet(Z) /\ \A x \in Z : f[x] \in Nat /\ g[x] \in Nat
  BY RuleAssumption, FS_Subset
<1>3. SumFunctionOnSet(f, Z) \in Nat /\ SumFunctionOnSet(g, Z) \in Nat
  BY HeldIs
<1>4. CASE r \in Z
  <2>1. SumFunctionOnSet(g, Z) + f[r] = SumFunctionOnSet(f, Z) + g[r]
    BY <1>1, <1>2, <1>4, SumUpdate
  <2> QED BY <1>1, <1>4, <2>1
<1>5. CASE r \notin Z
  <2>1. \A x \in Z : f[x] \in Nat /\ g[x] = f[x]
    BY <1>1, <1>2, <1>5
  <2>2. SumFunctionOnSet(g, Z) = SumFunctionOnSet(f, Z)
    BY <1>2, <2>1, SumSame
  <2> QED BY <1>3, <1>5, <2>2
<1> QED BY <1>4, <1>5

\* The leaves of a tree that was constructed hold what was inserted.
LEMMA RaisedHolds ==
  ASSUME NEW ns, NEW k \in Tree, NEW list \in Seq(Rule), Raised(ns, k, list),
         NEW lv \in [Rule -> Nat], Dealt(list, k, lv)
  PROVE  Holding(ns, lv)
<1> SUFFICES ASSUME NEW n \in DOMAIN ns, ns[n].type # "Cuts"
             PROVE  LeafHolds(ns[n], lv, n)
  BY DEF Holding
<1>1. /\ n[1] = k
      /\ \A Z : Count(ns[n].rules, Z) = Count(list, Through(n) \cap Z)
      /\ InDescendingOrder(ns[n].rules)
  BY DEF Raised, Dealt
<1> PICK f \in [Rule -> Nat] : f = HeldAt(lv, n)
  BY HeldIs
<1> PICK own \in Seq(Rule) : own = Only(list, Through(n))
  BY OnlyIs
<1>2. \A Z : Count(own, Z) = Count(list, Through(n) \cap Z)
  BY CountOnly
<1>3. ASSUME NEW r \in Rule
      PROVE  f[r] = Count(own, {r})
  <2>1. Count(own, {r}) = Count(list, Through(n) \cap {r})
    BY <1>2
  <2>2. f[r] = IF Comes(r, n) THEN lv[r] ELSE 0
    BY HeldIs
  <2>3. CASE r \in Through(n)
    <3>1. Through(n) \cap {r} = {r}
      BY <2>3
    <3>2. Count(own, {r}) = Count(list, {r})
      BY <2>1, <3>1, Zenon
    <3>3. Comes(r, n) <=> CutTSSSubsetIndex(r) = k
      BY <1>1, <2>3 DEF Comes
    <3> QED BY <2>2, <3>2, <3>3 DEF Dealt
  <2>4. CASE r \notin Through(n)
    <3>1. Through(n) \cap {r} = {}
      BY <2>4
    <3>2. Count(list, {}) = 0
      <4>1. {i \in DOMAIN list : list[i] \in {}} = {}
        OBVIOUS
      <4> QED BY <4>1, FS_EmptySet, Zenon DEF Count
    <3>3. Count(own, {r}) = 0
      BY <2>1, <3>1, <3>2, Zenon
    <3>4. ~Comes(r, n)
      BY <2>4 DEF Comes
    <3> QED BY <2>2, <3>3, <3>4
  <2> QED BY <2>3, <2>4
<1>4. ASSUME NEW Z \in SUBSET Rule
      PROVE  Count(ns[n].rules, Z) = SumFunctionOnSet(f, Z)
  <2>1. Count(own, Z) = SumFunctionOnSet(f, Z)
    BY <1>3, CountIsSum
  <2>2. Count(ns[n].rules, Z) = Count(own, Z)
    BY <1>1, <1>2, Zenon
  <2> QED BY <2>1, <2>2, Zenon
<1>5. \A r \in Rule : Confused(ns[n].type, r) \in SUBSET Rule
  BY ConfusedAre
<1> QED BY <1>1, <1>4, <1>5 DEF LeafHolds

-----------------------------------------------------------------------------
(***************************************************************************)
(* Trees side by side, and new lists in their leaves.                      *)
(***************************************************************************)

\* Tree k is the same in ns and nt.
SameTree(ns, nt, k) ==
  \A n : n[1] = k => /\ n \in DOMAIN ns <=> n \in DOMAIN nt
                     /\ n \in DOMAIN ns => nt[n] = ns[n]

LEMMA RootHas == \A k : Root(k)[1] = k
BY DEF Root

\* What is said of a node or a rule is said of its tree.
LEMMA ShapedAlike ==
  ASSUME NEW ns, NEW nt, NEW n \in DOMAIN ns, ShapedAt(ns, n), SameTree(ns, nt, n[1])
  PROVE  ShapedAt(nt, n)
<1>1. Root(n[1])[1] = n[1] /\ Parent(n)[1] = n[1]
  BY RootHas DEF Parent
<1>2. nt[n] = ns[n]
  BY DEF SameTree
<1>3. Root(n[1]) \in DOMAIN nt <=> Root(n[1]) \in DOMAIN ns
  BY <1>1 DEF SameTree
<1>4. CutsAt(nt, Parent(n)) <=> CutsAt(ns, Parent(n))
  BY <1>1 DEF SameTree, CutsAt
<1> QED BY <1>2, <1>3, <1>4 DEF ShapedAt

LEMMA UncutAlike ==
  ASSUME NEW ns, NEW nt, NEW k, NEW r, Uncut(ns, k, r), SameTree(ns, nt, k)
  PROVE  Uncut(nt, k, r)
<1>1. \A i, x : Name(k, i, x)[1] = k
  BY NameHas
<1>2. ASSUME NEW n \in DOMAIN nt, nt[n].type = "Cuts", n = Name(k, n[2], Low(r))
      PROVE  /\ Name(k, n[2] + 1, Low(r)) \in DOMAIN nt
             /\ Name(k, n[2] + 1, Low(r)) = Name(k, n[2] + 1, High(r))
  <2>1. n[1] = k
    BY <1>1, <1>2, Zenon
  <2>2. n \in DOMAIN ns /\ ns[n].type = "Cuts"
    BY <1>2, <2>1 DEF SameTree
  <2>3. /\ Name(k, n[2] + 1, Low(r)) \in DOMAIN ns
        /\ Name(k, n[2] + 1, Low(r)) = Name(k, n[2] + 1, High(r))
    BY <1>2, <2>2, Zenon DEF Uncut
  <2> PICK c : c = Name(k, n[2] + 1, Low(r))
    OBVIOUS
  <2>4. c[1] = k /\ c \in DOMAIN ns
    BY <1>1, <2>3
  <2>5. c \in DOMAIN nt
    BY <2>4 DEF SameTree
  <2> QED BY <2>3, <2>5
<1>3. Root(k) \in DOMAIN nt
  <2>1. Root(k) \in DOMAIN ns
    BY DEF Uncut
  <2> QED BY <2>1, RootHas DEF SameTree
<1> QED BY <1>2, <1>3, Zenon DEF Uncut

\* Node n of ns gets the list v.
Refilled(ns, nt, n, v) ==
  /\ n \in DOMAIN ns /\ ns[n].type # "Cuts" /\ v \in Seq(Rule) /\ DOMAIN nt = DOMAIN ns
  /\ \A m \in DOMAIN ns : m # n => nt[m] = ns[m]
  /\ nt[n] = [type |-> ns[n].type, rules |-> v]

LEMMA RefilledIs ==
  ASSUME NEW ns, Shaped(ns), NEW n \in DOMAIN ns, ns[n].type # "Cuts", NEW v \in Seq(Rule),
         NEW nt, nt = [ns EXCEPT ![n].rules = v]
  PROVE  Refilled(ns, nt, n, v)
<1>1. ns[n] \in NodeRecord
  BY DEF Shaped, ShapedAt
<1>2. DOMAIN nt = DOMAIN ns /\ \A m \in DOMAIN ns : m # n => nt[m] = ns[m]
  OBVIOUS
<1>3. nt[n] = [ns[n] EXCEPT !.rules = v]
  OBVIOUS
<1>4. nt[n] = [type |-> ns[n].type, rules |-> v]
  BY <1>1, <1>3 DEF NodeRecord
<1> QED BY <1>2, <1>4 DEF Refilled

LEMMA RefilledKeeps ==
  ASSUME NEW ns, Shaped(ns), NEW nt, NEW n, NEW v, Refilled(ns, nt, n, v)
  PROVE  /\ Shaped(nt)
         /\ \A k, r : Uncut(ns, k, r) => Uncut(nt, k, r)
<1>1. /\ n \in DOMAIN ns /\ ns[n].type # "Cuts" /\ DOMAIN nt = DOMAIN ns
      /\ nt[n] = [type |-> ns[n].type, rules |-> v] /\ v \in Seq(Rule)
      /\ \A m \in DOMAIN ns : m # n => nt[m] = ns[m]
  BY DEF Refilled
<1>2. ASSUME NEW m \in DOMAIN ns
      PROVE  nt[m].type = ns[m].type /\ (ns[m].type = "Cuts" => nt[m] = ns[m])
  BY <1>1
<1>3. \A m : CutsAt(nt, m) <=> CutsAt(ns, m)
  BY <1>1, <1>2 DEF CutsAt
<1>4. ASSUME NEW m \in DOMAIN ns
      PROVE  ShapedAt(nt, m)
  <2>1. ShapedAt(ns, m)
    BY DEF Shaped
  <2>2. nt[m] \in NodeRecord
    <3>1. ns[m] \in NodeRecord
      BY <2>1 DEF ShapedAt
    <3>2. CASE m = n
      BY <1>1, <3>1, <3>2 DEF NodeRecord
    <3>3. CASE m # n
      BY <1>1, <3>1, <3>3
    <3> QED BY <3>2, <3>3
  <2>3. nt[m].type = "Cuts" => Deep(m[1], m[2] + 1) /\ nt[m].rules = << >>
    BY <1>2, <2>1 DEF ShapedAt
  <2>4. m[2] > 0 => CutsAt(nt, Parent(m))
    BY <1>3, <2>1 DEF ShapedAt
  <2>5. /\ IsName(m) /\ Root(m[1]) \in DOMAIN nt /\ (m[1] = PSbig => nt[m].type = "TSS")
        /\ (m[2] = 0 => m = Root(m[1]))
    BY <1>1, <1>2, <2>1 DEF ShapedAt
  <2> QED BY <2>2, <2>3, <2>4, <2>5 DEF ShapedAt
<1>5. Shaped(nt)
  BY <1>1, <1>4 DEF Shaped
<1>6. ASSUME NEW k, NEW r, Uncut(ns, k, r)
      PROVE  Uncut(nt, k, r)
  <2>1. ASSUME NEW m \in DOMAIN nt, nt[m].type = "Cuts", m = Name(k, m[2], Low(r))
        PROVE  /\ Name(k, m[2] + 1, Low(r)) \in DOMAIN nt
               /\ Name(k, m[2] + 1, Low(r)) = Name(k, m[2] + 1, High(r))
    <3>1. m \in DOMAIN ns /\ ns[m].type = "Cuts"
      BY <1>1, <1>2, <2>1
    <3>2. /\ Name(k, m[2] + 1, Low(r)) \in DOMAIN ns
          /\ Name(k, m[2] + 1, Low(r)) = Name(k, m[2] + 1, High(r))
      BY <1>6, <2>1, <3>1, Zenon DEF Uncut
    <3> QED BY <1>1, <3>2, Zenon
  <2>2. Root(k) \in DOMAIN nt
    BY <1>1, <1>6 DEF Uncut
  <2> QED BY <2>1, <2>2, Zenon DEF Uncut
<1> QED BY <1>5, <1>6

\* All leaves hold what was inserted if n does and the others see no change.
LEMMA RefilledHolds ==
  ASSUME NEW ns, Shaped(ns), NEW nt, NEW n, NEW v, Refilled(ns, nt, n, v),
         NEW lv \in [Rule -> Nat], NEW lw \in [Rule -> Nat], NEW r \in Rule,
         Differ(lv, lw, r), PlaceIn(ns, r) = n, Holding(ns, lv),
         LeafHolds([type |-> ns[n].type, rules |-> v], lw, n)
  PROVE  Holding(nt, lw)
<1>1. /\ n \in DOMAIN ns /\ DOMAIN nt = DOMAIN ns
      /\ nt[n] = [type |-> ns[n].type, rules |-> v]
      /\ \A m \in DOMAIN ns : m # n => nt[m] = ns[m]
  BY DEF Refilled
<1> SUFFICES ASSUME NEW m \in DOMAIN ns, nt[m].type # "Cuts"
             PROVE  LeafHolds(nt[m], lw, m)
  BY <1>1 DEF Holding
<1>2. CASE m = n
  BY <1>1, <1>2
<1>3. CASE m # n
  <2>1. nt[m] = ns[m]
    BY <1>1, <1>3
  <2>2. ~Comes(r, m)
    BY <1>3, <2>1, ComesIs
  <2>3. LeafHolds(ns[m], lv, m)
    BY <2>1 DEF Holding
  <2>4. HeldAt(lw, m) = HeldAt(lv, m)
    BY <2>2, HeldElsewhere
  <2> QED BY <2>1, <2>3, <2>4 DEF LeafHolds
<1> QED BY <1>2, <1>3

\* And if the rule leads to no node, no leaf sees a change.
LEMMA UnplacedHolds ==
  ASSUME NEW ns, Shaped(ns), NEW lv \in [Rule -> Nat], NEW lw \in [Rule -> Nat], NEW r \in Rule,
         Differ(lv, lw, r), PlaceIn(ns, r) \notin DOMAIN ns, Holding(ns, lv)
  PROVE  Holding(ns, lw)
<1> SUFFICES ASSUME NEW m \in DOMAIN ns, ns[m].type # "Cuts"
             PROVE  LeafHolds(ns[m], lw, m)
  BY DEF Holding
<1>1. ~Comes(r, m)
  BY ComesIs
<1>2. LeafHolds(ns[m], lv, m)
  BY DEF Holding
<1>3. HeldAt(lw, m) = HeldAt(lv, m)
  BY <1>1, HeldElsewhere
<1> QED BY <1>2, <1>3 DEF LeafHolds

-----------------------------------------------------------------------------
(***************************************************************************)
(* Each step keeps the invariant.                                          *)
(***************************************************************************)

\* Each copy that is inserted is one more in the leaf...
LEMMA LeafGains ==
  ASSUME NEW type, NEW rules \in Seq(Rule), NEW lv \in [Rule -> Nat], NEW lw \in [Rule -> Nat],
         NEW n, NEW r \in Rule, Comes(r, n), lw = [lv EXCEPT ![r] = @ + 1],
         LeafHolds([type |-> type, rules |-> rules], lv, n),
         NEW w, w = InsertSortedByPriority(rules, r)
  PROVE  LeafHolds([type |-> type, rules |-> w], lw, n)
<1>1. /\ w \in Seq(Rule)
      /\ \A Z : Count(w, Z) = Count(rules, Z) + (IF r \in Z THEN 1 ELSE 0)
      /\ InDescendingOrder(rules) => InDescendingOrder(w)
  BY InsertSortedIs
<1>2. /\ \A s \in Rule : Count(rules, Confused(type, s)) = SumFunctionOnSet(HeldAt(lv, n), Confused(type, s))
      /\ type = "Linear" => InDescendingOrder(rules)
  BY DEF LeafHolds
<1>3. lw[r] = lv[r] + 1 /\ lv[r] \in Nat /\ Differ(lv, lw, r)
  BY DEF Differ
<1>4. ASSUME NEW s \in Rule
      PROVE  Count(w, Confused(type, s)) = SumFunctionOnSet(HeldAt(lw, n), Confused(type, s))
  <2> PICK Z \in SUBSET Rule : Z = Confused(type, s)
    BY ConfusedAre
  <2>1. Count(w, Z) = Count(rules, Z) + (IF r \in Z THEN 1 ELSE 0)
    BY <1>1
  <2>2. Count(rules, Z) = SumFunctionOnSet(HeldAt(lv, n), Z)
    BY <1>2
  <2>3. SumFunctionOnSet(HeldAt(lw, n), Z) + (IF r \in Z THEN lv[r] ELSE 0)
          = SumFunctionOnSet(HeldAt(lv, n), Z) + (IF r \in Z THEN lw[r] ELSE 0)
    <3>1. SumsDiffer(lv, lw, r, n)
      BY <1>3, HeldChanges
    <3> QED BY <3>1 DEF SumsDiffer
  <2>4. SumFunctionOnSet(HeldAt(lv, n), Z) \in Nat /\ SumFunctionOnSet(HeldAt(lw, n), Z) \in Nat
    BY HeldIs
  <2> QED BY <1>3, <2>1, <2>2, <2>3, <2>4
<1> QED BY <1>1, <1>2, <1>4 DEF LeafHolds

\* ...and there is one of those that it does not tell from it to remove.
LEMMA LeafHasOne ==
  ASSUME NEW type, NEW rules \in Seq(Rule), NEW lv \in [Rule -> Nat], NEW n,
         LeafHolds([type |-> type, rules |-> rules], lv, n), NEW r \in Rule
  PROVE  /\ Comes(r, n) /\ lv[r] > 0 => \E i \in DOMAIN rules : rules[i] \in Confused(type, r)
         /\ r \in Range(rules) => \E s \in Confused(type, r) : Comes(s, n) /\ lv[s] > 0
<1> PICK Z \in SUBSET Rule : Z = Confused(type, r) /\ r \in Z
  BY ConfusedAre
<1> PICK f \in [Rule -> Nat] : f = HeldAt(lv, n)
  BY HeldIs
<1>1. \A s \in Rule : f[s] = IF Comes(s, n) THEN lv[s] ELSE 0
  BY HeldIs
<1>2. IsFiniteSet(Z) /\ \A x \in Z : f[x] \in Nat
  BY RuleAssumption, FS_Subset
<1>3. SumFunctionOnSet(f, Z) > 0 <=> \E x \in Z : f[x] > 0
  BY <1>2, SumBounds
<1>4. Count(rules, Z) = SumFunctionOnSet(f, Z)
  BY DEF LeafHolds
<1>5. Count(rules, Z) > 0 <=> \E i \in DOMAIN rules : rules[i] \in Z
  BY CountIs
<1>6. ASSUME Comes(r, n), lv[r] > 0
      PROVE  \E i \in DOMAIN rules : rules[i] \in Z
  <2>1. f[r] > 0
    BY <1>1, <1>6
  <2> QED BY <1>3, <1>4, <1>5, <2>1
<1>7. ASSUME r \in Range(rules)
      PROVE  \E s \in Z : Comes(s, n) /\ lv[s] > 0
  <2>1. \E i \in DOMAIN rules : rules[i] \in Z
    BY <1>7 DEF Range
  <2>2. PICK s \in Z : f[s] > 0
    BY <1>3, <1>4, <1>5, <2>1
  <2>3. Comes(s, n) /\ lv[s] > 0
    BY <1>1, <2>2
  <2> QED BY <2>3
<1> QED BY <1>6, <1>7

LEMMA LeafLoses ==
  ASSUME NEW type, NEW rules \in Seq(Rule), NEW lv \in [Rule -> Nat], NEW lw \in [Rule -> Nat],
         NEW n, NEW r \in Rule, Comes(r, n), lv[r] > 0, lw = [lv EXCEPT ![r] = @ - 1],
         LeafHolds([type |-> type, rules |-> rules], lv, n), NEW w,
         \/ type = "TSS" /\ w = PSTSSWithout(rules, r)
         \/ type = "Linear" /\ w = LinearWithout(rules, r)
  PROVE  w \in Seq(Rule) /\ LeafHolds([type |-> type, rules |-> w], lw, n)
<1>1. /\ \A s \in Rule : Count(rules, Confused(type, s)) = SumFunctionOnSet(HeldAt(lv, n), Confused(type, s))
      /\ type = "Linear" => InDescendingOrder(rules)
  BY DEF LeafHolds
<1>2. PICK i \in DOMAIN rules : rules[i] \in Confused(type, r)
  BY LeafHasOne
<1>3. /\ w \in Seq(Rule) /\ (InDescendingOrder(rules) => InDescendingOrder(w))
      /\ \E x \in Confused(type, r) : \A Z : Count(rules, Z) = Count(w, Z) + (IF x \in Z THEN 1 ELSE 0)
  <2>1. CASE type = "TSS" /\ w = PSTSSWithout(rules, r)
    <3> PICK S : S = SameEntry(r)
      OBVIOUS
    <3>1. w = RemoveFirstOf(rules, S) /\ S = Confused(type, r)
      BY <2>1 DEF PSTSSWithout, Confused
    <3>2. /\ w \in Seq(Rule) /\ (InDescendingOrder(rules) => InDescendingOrder(w))
          /\ \/ w = rules /\ \A j \in DOMAIN rules : rules[j] \notin S
             \/ \E x \in Rule : Removed(rules, S, w, x)
      BY <3>1, RemoveFirstOfIs
    <3>3. PICK x \in Rule : Removed(rules, S, w, x)
      BY <1>2, <3>1, <3>2
    <3>4. x \in S /\ \A Z : Count(rules, Z) = Count(w, Z) + (IF x \in Z THEN 1 ELSE 0)
      BY <3>3 DEF Removed
    <3> QED BY <3>1, <3>2, <3>4
  <2>2. CASE type = "Linear" /\ w = LinearWithout(rules, r)
    <3> PICK S : S = {s \in Rule : s.priority <= r.priority}
      OBVIOUS
    <3>1. w = RemoveFirstOf(rules, S)
      BY <2>2 DEF LinearWithout
    <3>2. /\ w \in Seq(Rule) /\ (InDescendingOrder(rules) => InDescendingOrder(w))
          /\ \/ w = rules /\ \A j \in DOMAIN rules : rules[j] \notin S
             \/ \E x \in Rule : Removed(rules, S, w, x)
      BY <3>1, RemoveFirstOfIs
    <3>3. rules[i] \in S /\ rules[i].priority = r.priority
      BY <1>2, <2>2, RuleAssumption DEF Confused
    <3>4. PICK x \in Rule : Removed(rules, S, w, x)
      BY <3>2, <3>3
    <3>5. PICK j \in DOMAIN rules : x = rules[j] /\ x \in S /\ \A m \in DOMAIN rules : m < j => rules[m] \notin S
      BY <3>4 DEF Removed
    <3>6. DOMAIN rules = 1 .. Len(rules) /\ ~(i < j)
      BY <3>3, <3>5
    <3>7. rules[i].priority <= rules[j].priority
      <4>1. CASE i = j
        BY <3>5, <4>1, RuleAssumption
      <4>2. CASE j < i
        BY <1>1, <2>2, <4>2 DEF InDescendingOrder
      <4> QED BY <3>6, <4>1, <4>2
    <3>8. x.priority = r.priority
      BY <3>3, <3>5, <3>7, RuleAssumption
    <3>9. x \in Confused(type, r)
      BY <2>2, <3>8 DEF Confused
    <3>10. \A Z : Count(rules, Z) = Count(w, Z) + (IF x \in Z THEN 1 ELSE 0)
      BY <3>4 DEF Removed
    <3> QED BY <3>2, <3>9, <3>10
  <2> QED BY <2>1, <2>2
<1>4. PICK x \in Confused(type, r) : \A Z : Count(rules, Z) = Count(w, Z) + (IF x \in Z THEN 1 ELSE 0)
  BY <1>3
<1>5. lw[r] = lv[r] - 1 /\ lv[r] \in Nat /\ lw[r] \in Nat /\ Differ(lv, lw, r)
  BY DEF Differ
<1>6. ASSUME NEW s \in Rule
      PROVE  Count(w, Confused(type, s)) = SumFunctionOnSet(HeldAt(lw, n), Confused(type, s))
  <2> PICK Z \in SUBSET Rule : Z = Confused(type, s)
    BY ConfusedAre
  <2>1. x \in Rule /\ (x \in Z <=> r \in Z)
    <3>1. x \in Rule /\ Confused(type, x) = Confused(type, r)
      BY <1>4, ConfusedAre
    <3>2. x \in Z <=> Confused(type, x) = Z
      BY <3>1, ConfusedAre
    <3>3. r \in Z <=> Confused(type, r) = Z
      BY ConfusedAre
    <3> QED BY <3>1, <3>2, <3>3
  <2>2. Count(rules, Z) = Count(w, Z) + (IF r \in Z THEN 1 ELSE 0)
    BY <1>4, <2>1
  <2>3. Count(rules, Z) = SumFunctionOnSet(HeldAt(lv, n), Z)
    BY <1>1
  <2>4. SumFunctionOnSet(HeldAt(lw, n), Z) + (IF r \in Z THEN lv[r] ELSE 0)
          = SumFunctionOnSet(HeldAt(lv, n), Z) + (IF r \in Z THEN lw[r] ELSE 0)
    <3>1. SumsDiffer(lv, lw, r, n)
      BY <1>5, HeldChanges
    <3> QED BY <3>1 DEF SumsDiffer
  <2>5. SumFunctionOnSet(HeldAt(lv, n), Z) \in Nat /\ SumFunctionOnSet(HeldAt(lw, n), Z) \in Nat
    BY HeldIs
  <2>6. Count(w, Z) \in Nat
    BY <1>3, CountIs
  <2> QED BY <1>5, <2>2, <2>3, <2>4, <2>5, <2>6
<1> QED BY <1>1, <1>3, <1>6 DEF LeafHolds

LEMMA GreatestUpdated ==
  ASSUME NEW sub, NEW mp, Greatest(sub, mp), NEW k \in Tree, NEW list, DOMAIN sub = Tree
  PROVE  Greatest([sub EXCEPT ![k] = list], [mp EXCEPT ![k] = MaxPriorityOrMinusOne(list)])
<1> DEFINE sw == [sub EXCEPT ![k] = list]
           mw == [mp EXCEPT ![k] = MaxPriorityOrMinusOne(list)]
<1>1. mp = [j \in Tree |-> MaxPriorityOrMinusOne(sub[j])]
  BY DEF Greatest
<1>2. ASSUME NEW j \in Tree
      PROVE  mw[j] = MaxPriorityOrMinusOne(sw[j])
  <2>1. CASE j = k
    <3>1. mw[j] = MaxPriorityOrMinusOne(list) /\ sw[j] = list
      BY <1>1, <2>1
    <3> QED BY <3>1, Zenon
  <2>2. CASE j # k
    <3>1. mw[j] = mp[j] /\ sw[j] = sub[j] /\ mp[j] = MaxPriorityOrMinusOne(sub[j])
      BY <1>1, <2>2
    <3> QED BY <3>1, Zenon
  <2> QED BY <2>1, <2>2
<1>3. mw \in [Tree -> {MaxPriorityOrMinusOne(sw[j]) : j \in Tree}]
  <2>1. DOMAIN mw = Tree /\ mw = [j \in Tree |-> mw[j]]
    BY <1>1
  <2> HIDE DEF sw, mw
  <2> QED BY <1>2, <2>1
<1> HIDE DEF sw, mw
<1>4. mw = [j \in Tree |-> MaxPriorityOrMinusOne(sw[j])]
  BY <1>2, <1>3
<1>5. Greatest(sw, mw)
  BY <1>4, Zenon DEF Greatest
<1> QED BY <1>5 DEF sw, mw

LEMMA ListsInsert ==
  ASSUME NEW sub, NEW lv, Lists(sub, lv), NEW r \in Rule, NEW k, k = CutTSSSubsetIndex(r),
         NEW list, list = InsertSortedByPriority(sub[k], r)
  PROVE  /\ list \in Seq(Rule) /\ list # << >> /\ r \in Range(list)
         /\ Lists([sub EXCEPT ![k] = list], [lv EXCEPT ![r] = @ + 1])
<1> DEFINE sw == [sub EXCEPT ![k] = list]
           lw == [lv EXCEPT ![r] = @ + 1]
<1>1. /\ k \in Tree /\ sub[k] \in Seq(Rule) /\ lv[r] \in Nat /\ InDescendingOrder(sub[k])
      /\ \A s \in Rule : Count(sub[k], {s}) = IF CutTSSSubsetIndex(s) = k THEN lv[s] ELSE 0
  BY IndexIs DEF Lists, Dealt
<1>2. /\ list \in Seq(Rule)
      /\ \A Z : Count(list, Z) = Count(sub[k], Z) + (IF r \in Z THEN 1 ELSE 0)
      /\ InDescendingOrder(list)
  BY <1>1, InsertSortedIs
<1>3. lw \in [Rule -> Nat] /\ lw[r] = lv[r] + 1 /\ \A s \in Rule : s # r => lw[s] = lv[s]
  BY <1>1 DEF Lists, Dealt
<1>4. ASSUME NEW s \in Rule
      PROVE  Count(list, {s}) = IF CutTSSSubsetIndex(s) = k THEN lw[s] ELSE 0
  <2>1. Count(list, {s}) = Count(sub[k], {s}) + (IF r \in {s} THEN 1 ELSE 0)
    BY <1>2
  <2>2. Count(sub[k], {s}) = IF CutTSSSubsetIndex(s) = k THEN lv[s] ELSE 0
    BY <1>1
  <2>3. CASE s = r
    BY <1>1, <1>3, <2>1, <2>2, <2>3
  <2>4. CASE s # r
    <3>1. lw[s] = lv[s] /\ lv[s] \in Nat
      BY <1>3, <2>4 DEF Lists, Dealt
    <3> HIDE DEF lw
    <3> QED BY <2>1, <2>2, <2>4, <3>1
  <2> QED BY <2>3, <2>4
<1>5. r \in Range(list) /\ list # << >>
  <2>1. Count(list, {r}) > 0
    BY <1>1, <1>3, <1>4
  <2>2. \E i \in DOMAIN list : list[i] \in {r}
    BY <1>2, <2>1, CountIs
  <2> QED BY <2>2 DEF Range
<1>6. sw \in [Tree -> Seq(Rule)] /\ sw[k] = list /\ \A j \in Tree : j # k => sw[j] = sub[j]
  BY <1>1, <1>2 DEF Lists, Dealt
<1> HIDE DEF sw, lw
<1>7. ASSUME NEW j \in Tree
      PROVE  /\ \A s \in Rule : Count(sw[j], {s}) = IF CutTSSSubsetIndex(s) = j THEN lw[s] ELSE 0
             /\ InDescendingOrder(sw[j])
  <2>1. CASE j = k
    BY <1>2, <1>4, <1>6, <2>1
  <2>2. CASE j # k
    <3>1. sw[j] = sub[j]
      BY <1>6, <2>2
    <3>2. \A s \in Rule : CutTSSSubsetIndex(s) = j => lw[s] = lv[s]
      BY <1>3, <2>2
    <3>3. /\ \A s \in Rule : Count(sub[j], {s}) = IF CutTSSSubsetIndex(s) = j THEN lv[s] ELSE 0
          /\ InDescendingOrder(sub[j])
      BY DEF Lists, Dealt
    <3> QED BY <3>1, <3>2, <3>3
  <2> QED BY <2>1, <2>2
<1>8. Lists(sw, lw)
  BY <1>3, <1>6, <1>7 DEF Lists, Dealt
<1> QED BY <1>2, <1>5, <1>8 DEF sw, lw

LEMMA ListsDelete ==
  ASSUME NEW sub, NEW lv, Lists(sub, lv), NEW r \in Rule, lv[r] > 0, NEW k, k = CutTSSSubsetIndex(r),
         NEW list, list = RemoveMatchingRule(sub[k], r)
  PROVE  /\ list = << >> \/ sub[k] # << >>
         /\ Lists([sub EXCEPT ![k] = list], [lv EXCEPT ![r] = @ - 1])
<1> DEFINE sw == [sub EXCEPT ![k] = list]
           lw == [lv EXCEPT ![r] = @ - 1]
<1>1. /\ k \in Tree /\ sub[k] \in Seq(Rule) /\ lv[r] \in Nat /\ InDescendingOrder(sub[k])
      /\ \A s \in Rule : Count(sub[k], {s}) = IF CutTSSSubsetIndex(s) = k THEN lv[s] ELSE 0
  BY IndexIs DEF Lists, Dealt
<1>2. list = RemoveFirstOf(sub[k], {r})
  <2>1. {s \in Rule : s.priority = r.priority /\ s.id = r.id} = {r}
    BY CutTSSAssumption
  <2> QED BY <2>1, Zenon DEF RemoveMatchingRule
<1>3. /\ list \in Seq(Rule) /\ (InDescendingOrder(sub[k]) => InDescendingOrder(list))
      /\ \/ list = sub[k] /\ \A i \in DOMAIN sub[k] : sub[k][i] \notin {r}
         \/ \E x \in Rule : Removed(sub[k], {r}, list, x)
  BY <1>1, <1>2, RemoveFirstOfIs
<1>4. PICK i \in DOMAIN sub[k] : sub[k][i] \in {r}
  <2>1. Count(sub[k], {r}) > 0
    BY <1>1
  <2> QED BY <1>1, <2>1, CountIs
<1>5. \A Z : Count(sub[k], Z) = Count(list, Z) + (IF r \in Z THEN 1 ELSE 0)
  <2>1. PICK x \in Rule : Removed(sub[k], {r}, list, x)
    BY <1>3, <1>4
  <2> QED BY <2>1 DEF Removed
<1>6. lw \in [Rule -> Nat] /\ lw[r] = lv[r] - 1 /\ \A s \in Rule : s # r => lw[s] = lv[s]
  BY <1>1 DEF Lists, Dealt
<1>7. ASSUME NEW s \in Rule
      PROVE  Count(list, {s}) = IF CutTSSSubsetIndex(s) = k THEN lw[s] ELSE 0
  <2>1. Count(sub[k], {s}) = Count(list, {s}) + (IF r \in {s} THEN 1 ELSE 0) /\ Count(list, {s}) \in Nat
    BY <1>3, <1>5, CountIs
  <2>2. Count(sub[k], {s}) = IF CutTSSSubsetIndex(s) = k THEN lv[s] ELSE 0
    BY <1>1
  <2>3. CASE s = r
    BY <1>1, <1>6, <2>1, <2>2, <2>3
  <2>4. CASE s # r
    <3>1. lw[s] = lv[s] /\ lv[s] \in Nat
      BY <1>6, <2>4 DEF Lists, Dealt
    <3> HIDE DEF lw
    <3> QED BY <2>1, <2>2, <2>4, <3>1
  <2> QED BY <2>3, <2>4
<1>8. sw \in [Tree -> Seq(Rule)] /\ sw[k] = list /\ \A j \in Tree : j # k => sw[j] = sub[j]
  BY <1>1, <1>3 DEF Lists, Dealt
<1> HIDE DEF sw, lw
<1>9. ASSUME NEW j \in Tree
      PROVE  /\ \A s \in Rule : Count(sw[j], {s}) = IF CutTSSSubsetIndex(s) = j THEN lw[s] ELSE 0
             /\ InDescendingOrder(sw[j])
  <2>1. CASE j = k
    BY <1>1, <1>3, <1>7, <1>8, <2>1
  <2>2. CASE j # k
    <3>1. sw[j] = sub[j]
      BY <1>8, <2>2
    <3>2. \A s \in Rule : CutTSSSubsetIndex(s) = j => lw[s] = lv[s]
      BY <1>6, <2>2
    <3>3. /\ \A s \in Rule : Count(sub[j], {s}) = IF CutTSSSubsetIndex(s) = j THEN lv[s] ELSE 0
          /\ InDescendingOrder(sub[j])
      BY DEF Lists, Dealt
    <3> QED BY <3>1, <3>2, <3>3
  <2> QED BY <2>1, <2>2
<1>10. Lists(sw, lw)
  BY <1>6, <1>8, <1>9 DEF Lists, Dealt
<1>11. sub[k] # << >>
  BY <1>4
<1> QED BY <1>10, <1>11 DEF sw, lw

\* A tree is constructed beside the others.
Beside(nt, ns, t) ==
  nt = [m \in DOMAIN ns \cup DOMAIN t |-> IF m \in DOMAIN ns THEN ns[m] ELSE t[m]]

LEMMA BesideIs ==
  ASSUME NEW ns, Shaped(ns), NEW k \in Tree, Root(k) \notin DOMAIN ns, NEW list, NEW t, Raised(t, k, list),
         NEW nt, Beside(nt, ns, t)
  PROVE  /\ SameTree(t, nt, k)
         /\ \A j : j # k => SameTree(ns, nt, j)
         /\ \A n \in DOMAIN nt : \/ n \in DOMAIN ns /\ n[1] # k /\ nt[n] = ns[n]
                                 \/ n \in DOMAIN t /\ n[1] = k /\ nt[n] = t[n]
         /\ \A n \in DOMAIN ns : n \in DOMAIN nt
<1>1. \A n \in DOMAIN ns : n[1] # k
  BY DEF Shaped, ShapedAt
<1>2. \A n \in DOMAIN t : n[1] = k
  BY DEF Raised
<1>3. DOMAIN nt = DOMAIN ns \cup DOMAIN t
  BY DEF Beside
<1>4. \A n \in DOMAIN ns : nt[n] = ns[n]
  BY DEF Beside
<1>5. \A n \in DOMAIN t : nt[n] = t[n]
  BY <1>1, <1>2 DEF Beside
<1> QED BY <1>1, <1>2, <1>3, <1>4, <1>5 DEF SameTree

LEMMA TreeBeside ==
  ASSUME NEW ns, Shaped(ns), NEW k \in Tree, Root(k) \notin DOMAIN ns, NEW list, NEW t, Raised(t, k, list),
         NEW nt, Beside(nt, ns, t)
  PROVE  /\ Shaped(nt) /\ Root(k) \in DOMAIN nt
         /\ \A j, r : Uncut(ns, j, r) => Uncut(nt, j, r)
         /\ \A r \in Range(list) : Uncut(nt, k, r)
<1>1. /\ SameTree(t, nt, k)
      /\ \A j : j # k => SameTree(ns, nt, j)
      /\ \A n \in DOMAIN nt : \/ n \in DOMAIN ns /\ n[1] # k /\ nt[n] = ns[n]
                              \/ n \in DOMAIN t /\ n[1] = k /\ nt[n] = t[n]
  BY BesideIs
<1>2. Shaped(t) /\ Root(k) \in DOMAIN t /\ \A r \in Range(list) : Uncut(t, k, r)
  BY DEF Raised
<1>3. ASSUME NEW n \in DOMAIN nt
      PROVE  ShapedAt(nt, n)
  <2>1. CASE n \in DOMAIN ns /\ n[1] # k
    <3>1. ShapedAt(ns, n) /\ SameTree(ns, nt, n[1])
      BY <1>1, <2>1 DEF Shaped
    <3> QED BY <2>1, <3>1, ShapedAlike
  <2>2. CASE n \in DOMAIN t /\ n[1] = k
    <3>1. ShapedAt(t, n) /\ SameTree(t, nt, n[1])
      BY <1>1, <1>2, <2>2 DEF Shaped
    <3> QED BY <2>2, <3>1, ShapedAlike
  <2> QED BY <1>1, <2>1, <2>2
<1>4. Root(k) \in DOMAIN nt
  BY <1>1, <1>2, RootHas DEF SameTree
<1>5. ASSUME NEW j, NEW r, Uncut(ns, j, r)
      PROVE  Uncut(nt, j, r)
  <2>1. j # k
    BY <1>5 DEF Uncut
  <2>2. SameTree(ns, nt, j)
    BY <1>1, <2>1
  <2> QED BY <1>5, <2>2, UncutAlike
<1>6. ASSUME NEW r \in Range(list)
      PROVE  Uncut(nt, k, r)
  <2>1. Uncut(t, k, r)
    BY <1>2
  <2> QED BY <1>1, <2>1, UncutAlike
<1>7. Shaped(nt)
  BY <1>3 DEF Shaped
<1> QED BY <1>4, <1>5, <1>6, <1>7

LEMMA HoldsBeside ==
  ASSUME NEW ns, Shaped(ns), NEW k \in Tree, Root(k) \notin DOMAIN ns, NEW list, NEW t, Raised(t, k, list),
         NEW nt, Beside(nt, ns, t), NEW lv \in [Rule -> Nat], NEW lw \in [Rule -> Nat], NEW r \in Rule,
         Differ(lv, lw, r), CutTSSSubsetIndex(r) = k, Holding(ns, lv), Holding(t, lw)
  PROVE  Holding(nt, lw)
<1>1. \A n \in DOMAIN nt : \/ n \in DOMAIN ns /\ n[1] # k /\ nt[n] = ns[n]
                           \/ n \in DOMAIN t /\ n[1] = k /\ nt[n] = t[n]
  BY BesideIs
<1> SUFFICES ASSUME NEW n \in DOMAIN nt, nt[n].type # "Cuts"
             PROVE  LeafHolds(nt[n], lw, n)
  BY DEF Holding
<1>2. CASE n \in DOMAIN ns /\ n[1] # k /\ nt[n] = ns[n]
  <2>1. LeafHolds(ns[n], lv, n)
    BY <1>2 DEF Holding
  <2>2. ~Comes(r, n)
    BY <1>2 DEF Comes
  <2>3. HeldAt(lw, n) = HeldAt(lv, n)
    BY <2>2, HeldElsewhere
  <2> QED BY <1>2, <2>1, <2>3 DEF LeafHolds
<1>3. CASE n \in DOMAIN t /\ n[1] = k /\ nt[n] = t[n]
  BY <1>3 DEF Holding
<1> QED BY <1>1, <1>2, <1>3

\* What InsertRule does to the trees.
TreesInsert(ns, nt, bt, bu, r, list) ==
  LET k == CutTSSSubsetIndex(r)
      n == PlaceIn(ns, r)
  IN  \/ Root(k) \notin DOMAIN ns /\ Beside(nt, ns, Constructed(k, list)) /\ bu = bt \cup {r}
      \/ /\ Root(k) \in DOMAIN ns /\ n \in DOMAIN ns /\ bu = bt
         /\ nt = [ns EXCEPT ![n].rules = InsertSortedByPriority(@, r)]
      \/ Root(k) \in DOMAIN ns /\ n \notin DOMAIN ns /\ nt = ns /\ bu = bt

LEMMA InsertKeeps ==
  ASSUME NEW sub, NEW mp, NEW ns, NEW bt, NEW lv, InvOf(sub, mp, ns, bt, lv), NEW r \in Rule,
         NEW k, k = CutTSSSubsetIndex(r), NEW list, list = InsertSortedByPriority(sub[k], r),
         NEW nt, NEW bu, TreesInsert(ns, nt, bt, bu, r, list)
  PROVE  InvOf([sub EXCEPT ![k] = list], [mp EXCEPT ![k] = MaxPriorityOrMinusOne(list)], nt, bu,
               [lv EXCEPT ![r] = @ + 1])
<1>11. PICK sw : sw = [sub EXCEPT ![k] = list]
  OBVIOUS
<1>12. PICK mw : mw = [mp EXCEPT ![k] = MaxPriorityOrMinusOne(list)]
  OBVIOUS
<1>13. PICK lw : lw = [lv EXCEPT ![r] = @ + 1]
  OBVIOUS
<1> PICK n : n = PlaceIn(ns, r)
  OBVIOUS
<1>0. /\ Lists(sub, lv) /\ Greatest(sub, mp) /\ Rooted(sub, ns)
      /\ Shaped(ns) /\ Holding(ns, lv) /\ BuiltUncut(ns, bt)
  BY DEF InvOf
<1>1. k \in Tree /\ lv \in [Rule -> Nat] /\ DOMAIN sub = Tree
  BY <1>0, IndexIs DEF Lists, Dealt
<1>2. list \in Seq(Rule) /\ list # << >> /\ r \in Range(list) /\ Lists(sw, lw)
  BY <1>0, <1>11, <1>13, ListsInsert
<1>3. Greatest(sw, mw)
  BY <1>0, <1>1, <1>11, <1>12, GreatestUpdated
<1>4. sw[k] = list /\ \A j \in Tree : j # k => sw[j] = sub[j]
  BY <1>1, <1>11
<1>5. lw \in [Rule -> Nat] /\ Differ(lv, lw, r)
  BY <1>1, <1>2, <1>13 DEF Lists, Differ
<1>6. Rooted(sw, nt) /\ Shaped(nt) /\ Holding(nt, lw) /\ BuiltUncut(nt, bu)
  <2>1. CASE Root(k) \notin DOMAIN ns /\ Beside(nt, ns, Constructed(k, list)) /\ bu = bt \cup {r}
    <3> PICK t : t = Constructed(k, list)
      OBVIOUS
    <3>1. Raised(t, k, list)
      BY <1>1, <1>2, ConstructedIs
    <3>2. Beside(nt, ns, t)
      BY <2>1
    <3>3. /\ Shaped(nt) /\ Root(k) \in DOMAIN nt
          /\ \A j, s : Uncut(ns, j, s) => Uncut(nt, j, s)
          /\ \A s \in Range(list) : Uncut(nt, k, s)
      BY <1>0, <1>1, <2>1, <3>1, <3>2, TreeBeside
    <3>4. /\ \A m \in DOMAIN nt : \/ m \in DOMAIN ns /\ m[1] # k /\ nt[m] = ns[m]
                                  \/ m \in DOMAIN t /\ m[1] = k /\ nt[m] = t[m]
          /\ \A m \in DOMAIN ns : m \in DOMAIN nt
      BY <1>0, <1>1, <2>1, <3>1, <3>2, BesideIs
    <3>5. Rooted(sw, nt)
      BY <1>0, <1>4, <3>3, <3>4 DEF Rooted
    <3>6. BuiltUncut(nt, bu)
      BY <1>0, <1>2, <2>1, <3>3 DEF BuiltUncut
    <3>7. Holding(t, lw)
      <4>1. Dealt(list, k, lw)
        BY <1>1, <1>2, <1>4 DEF Lists
      <4> QED BY <1>1, <1>2, <1>5, <3>1, <4>1, RaisedHolds
    <3>8. Holding(nt, lw)
      <4>1. CutTSSSubsetIndex(r) = k
        OBVIOUS
      <4> QED BY <1>0, <1>1, <1>5, <2>1, <3>1, <3>2, <3>7, <4>1, HoldsBeside
    <3> QED BY <3>3, <3>5, <3>6, <3>8
  <2>2. CASE /\ Root(k) \in DOMAIN ns /\ n \in DOMAIN ns /\ bu = bt
             /\ nt = [ns EXCEPT ![n].rules = InsertSortedByPriority(@, r)]
    <3>1. ns[n] \in NodeRecord /\ ns[n].type # "Cuts" /\ Comes(r, n)
      <4>1. ns[n].type # "Cuts"
        BY <1>0, <2>2, ComesIs
      <4>2. Comes(r, n)
        BY <1>0, <2>2, <4>1, ComesIs
      <4> QED BY <1>0, <2>2, <4>1, <4>2 DEF Shaped, ShapedAt
    <3>2. ns[n].rules \in Seq(Rule) /\ ns[n] = [type |-> ns[n].type, rules |-> ns[n].rules]
      BY <3>1 DEF NodeRecord
    <3> PICK v : v = InsertSortedByPriority(ns[n].rules, r)
      OBVIOUS
    <3>3. v \in Seq(Rule)
      BY <3>2, InsertSortedIs
    <3>4. nt = [ns EXCEPT ![n].rules = v]
      BY <2>2
    <3>5. Refilled(ns, nt, n, v)
      BY <1>0, <2>2, <3>1, <3>3, <3>4, RefilledIs
    <3>6. LeafHolds([type |-> ns[n].type, rules |-> ns[n].rules], lv, n)
      BY <1>0, <2>2, <3>1, <3>2 DEF Holding
    <3>7. LeafHolds([type |-> ns[n].type, rules |-> v], lw, n)
      BY <1>1, <1>5, <1>13, <3>1, <3>2, <3>6, LeafGains
    <3>8. Holding(nt, lw)
      BY <1>0, <1>1, <1>5, <3>5, <3>7, RefilledHolds
    <3>9. Shaped(nt) /\ \A j, s : Uncut(ns, j, s) => Uncut(nt, j, s)
      BY <1>0, <3>5, RefilledKeeps
    <3>10. BuiltUncut(nt, bu)
      BY <1>0, <2>2, <3>9 DEF BuiltUncut
    <3>11. Rooted(sw, nt)
      BY <1>0, <1>4, <2>2, <3>5 DEF Rooted, Refilled
    <3> QED BY <3>8, <3>9, <3>10, <3>11
  <2>3. CASE Root(k) \in DOMAIN ns /\ n \notin DOMAIN ns /\ nt = ns /\ bu = bt
    <3>1. Holding(nt, lw)
      BY <1>0, <1>1, <1>5, <2>3, UnplacedHolds
    <3>2. Rooted(sw, nt)
      BY <1>0, <1>4, <2>3 DEF Rooted
    <3> QED BY <1>0, <2>3, <3>1, <3>2
  <2> QED BY <2>1, <2>2, <2>3 DEF TreesInsert
<1>7. InvOf(sw, mw, nt, bu, lw)
  BY <1>2, <1>3, <1>6 DEF InvOf
<1> QED BY <1>7, <1>11, <1>12, <1>13

\* What DeleteRule does to the trees.
TreesDelete(ns, nt, r) ==
  LET n == PlaceIn(ns, r)
  IN  \/ /\ n \in DOMAIN ns /\ ns[n].type = "TSS"
         /\ nt = [ns EXCEPT ![n].rules = PSTSSWithout(@, r)]
      \/ /\ n \in DOMAIN ns /\ ns[n].type = "Linear"
         /\ nt = [ns EXCEPT ![n].rules = LinearWithout(@, r)]
      \/ n \notin DOMAIN ns /\ nt = ns

LEMMA DeleteKeeps ==
  ASSUME NEW sub, NEW mp, NEW ns, NEW bt, NEW lv, InvOf(sub, mp, ns, bt, lv), NEW r \in Rule, lv[r] > 0,
         NEW k, k = CutTSSSubsetIndex(r), NEW list, list = RemoveMatchingRule(sub[k], r),
         NEW nt, TreesDelete(ns, nt, r)
  PROVE  InvOf([sub EXCEPT ![k] = list], [mp EXCEPT ![k] = MaxPriorityOrMinusOne(list)], nt, bt,
               [lv EXCEPT ![r] = @ - 1])
<1>11. PICK sw : sw = [sub EXCEPT ![k] = list]
  OBVIOUS
<1>12. PICK mw : mw = [mp EXCEPT ![k] = MaxPriorityOrMinusOne(list)]
  OBVIOUS
<1>13. PICK lw : lw = [lv EXCEPT ![r] = @ - 1]
  OBVIOUS
<1> PICK n : n = PlaceIn(ns, r)
  OBVIOUS
<1>0. /\ Lists(sub, lv) /\ Greatest(sub, mp) /\ Rooted(sub, ns)
      /\ Shaped(ns) /\ Holding(ns, lv) /\ BuiltUncut(ns, bt)
  BY DEF InvOf
<1>1. k \in Tree /\ lv \in [Rule -> Nat] /\ DOMAIN sub = Tree
  BY <1>0, IndexIs DEF Lists, Dealt
<1>2. (list = << >> \/ sub[k] # << >>) /\ Lists(sw, lw)
  BY <1>0, <1>11, <1>13, ListsDelete
<1>3. Greatest(sw, mw)
  BY <1>0, <1>1, <1>11, <1>12, GreatestUpdated
<1>4. sw[k] = list /\ \A j \in Tree : j # k => sw[j] = sub[j]
  BY <1>1, <1>11
<1>5. lw \in [Rule -> Nat] /\ Differ(lv, lw, r)
  BY <1>1, <1>2, <1>13 DEF Lists, Differ
<1>6. Rooted(sw, ns)
  BY <1>0, <1>2, <1>4 DEF Rooted
<1>7. Rooted(sw, nt) /\ Shaped(nt) /\ Holding(nt, lw) /\ BuiltUncut(nt, bt)
  <2>1. CASE n \in DOMAIN ns
    <3>1. ns[n] \in NodeRecord /\ ns[n].type # "Cuts" /\ Comes(r, n)
      <4>1. ns[n].type # "Cuts"
        BY <1>0, <2>1, ComesIs
      <4>2. Comes(r, n)
        BY <1>0, <2>1, <4>1, ComesIs
      <4> QED BY <1>0, <2>1, <4>1, <4>2 DEF Shaped, ShapedAt
    <3>2. ns[n].rules \in Seq(Rule) /\ ns[n] = [type |-> ns[n].type, rules |-> ns[n].rules]
      BY <3>1 DEF NodeRecord
    <3>3. PICK v : /\ nt = [ns EXCEPT ![n].rules = v]
                   /\ \/ ns[n].type = "TSS" /\ v = PSTSSWithout(ns[n].rules, r)
                      \/ ns[n].type = "Linear" /\ v = LinearWithout(ns[n].rules, r)
      <4>1. CASE ns[n].type = "TSS" /\ nt = [ns EXCEPT ![n].rules = PSTSSWithout(@, r)]
        <5> PICK v : v = PSTSSWithout(ns[n].rules, r)
          OBVIOUS
        <5>1. nt = [ns EXCEPT ![n].rules = v]
          BY <4>1
        <5> QED BY <4>1, <5>1
      <4>2. CASE ns[n].type = "Linear" /\ nt = [ns EXCEPT ![n].rules = LinearWithout(@, r)]
        <5> PICK v : v = LinearWithout(ns[n].rules, r)
          OBVIOUS
        <5>1. nt = [ns EXCEPT ![n].rules = v]
          BY <4>2
        <5> QED BY <4>2, <5>1
      <4> QED BY <2>1, <4>1, <4>2 DEF TreesDelete
    <3> PICK type : type = ns[n].type
      OBVIOUS
    <3> PICK rules \in Seq(Rule) : rules = ns[n].rules
      BY <3>2
    <3>4. LeafHolds([type |-> type, rules |-> rules], lv, n)
      BY <1>0, <2>1, <3>1, <3>2 DEF Holding
    <3>5. v \in Seq(Rule) /\ LeafHolds([type |-> type, rules |-> v], lw, n)
      <4>1. \/ type = "TSS" /\ v = PSTSSWithout(rules, r)
            \/ type = "Linear" /\ v = LinearWithout(rules, r)
        BY <3>3
      <4>2. lw = [lv EXCEPT ![r] = @ - 1] /\ Comes(r, n)
        BY <1>13, <3>1
      <4> QED BY <1>1, <1>5, <3>4, <4>1, <4>2, LeafLoses
    <3>6. Refilled(ns, nt, n, v)
      BY <1>0, <2>1, <3>1, <3>3, <3>5, RefilledIs
    <3>7. Holding(nt, lw)
      BY <1>0, <1>1, <1>5, <3>5, <3>6, RefilledHolds
    <3>8. Shaped(nt) /\ \A j, s : Uncut(ns, j, s) => Uncut(nt, j, s)
      BY <1>0, <3>6, RefilledKeeps
    <3>9. BuiltUncut(nt, bt)
      BY <1>0, <3>8 DEF BuiltUncut
    <3>10. Rooted(sw, nt)
      BY <1>6, <3>6 DEF Rooted, Refilled
    <3> QED BY <3>7, <3>8, <3>9, <3>10
  <2>2. CASE n \notin DOMAIN ns
    <3>1. nt = ns
      BY <2>2 DEF TreesDelete
    <3>2. Holding(ns, lw)
      BY <1>0, <1>1, <1>5, <2>2, UnplacedHolds
    <3> QED BY <1>0, <1>6, <3>1, <3>2
  <2> QED BY <2>1, <2>2
<1>8. InvOf(sw, mw, nt, bt, lw)
  BY <1>2, <1>3, <1>7 DEF InvOf
<1> QED BY <1>8, <1>11, <1>12, <1>13

-----------------------------------------------------------------------------
(***************************************************************************)
(* The invariant holds initially, so always.                               *)
(***************************************************************************)

\* The partition finds the subset that the updates find.
LEMMA FirstIs ==
  ASSUME NEW r \in Rule
  PROVE  Min({k \in Tree : \A d \in CutTSSPartitionThresholds(k) : r.prefix_length[d] >= threshold})
           = CutTSSSubsetIndex(r)
<1> DEFINE S == {k \in Tree : \A d \in CutTSSPartitionThresholds(k) : r.prefix_length[d] >= threshold}
<1> PICK j \in Tree : j = CutTSSSubsetIndex(r)
  BY IndexIs
<1>1. Fields(j) = {d \in {FieldSA, FieldDA} : r.prefix_length[d] >= threshold}
  BY IndexIs
<1>2. \A k \in Tree : k \in S <=> Fields(k) \subseteq Fields(j)
  BY <1>1, FieldsAre DEF Fields
<1>3. /\ Fields(0) = {FieldSA, FieldDA} /\ Fields(1) = {FieldSA}
      /\ Fields(2) = {FieldDA} /\ Fields(3) = {} /\ FieldSA # FieldDA
  BY DEF Fields, CutTSSPartitionThresholds, FieldSA, FieldDA
<1>4. Tree \in SUBSET Nat /\ Tree = {0, 1, 2, 3}
  BY DEF Tree
<1>5. S \in SUBSET Nat /\ j \in S
  <2>1. j \in S
    BY <1>2
  <2> QED BY <1>4, <2>1
<1>6. ASSUME NEW k \in S
      PROVE  j <= k
  <2>1. k \in Tree /\ Fields(k) \subseteq Fields(j)
    BY <1>2
  <2> HIDE DEF S
  <2> QED BY <1>3, <1>4, <2>1
<1>7. Min(S) \in S /\ \A k \in S : Min(S) <= k
  <2> HIDE DEF S
  <2> QED BY <1>5, MinIs
<1>8. Min(S) = j
  <2> HIDE DEF S
  <2> PICK m : m = Min(S)
    OBVIOUS
  <2>1. m \in Nat /\ j \in Nat
    BY <1>5, <1>7
  <2>2. m <= j /\ j <= m
    BY <1>5, <1>6, <1>7
  <2> QED BY <2>1, <2>2
<1> QED BY <1>8

\* The trees of the subsets together.
Together(ns, ts) == ns = [n \in UNION {DOMAIN ts[k] : k \in Tree} |-> ts[n[1]][n]]

LEMMA TreesTogether ==
  ASSUME NEW sub \in [Tree -> Seq(Rule)], NEW ts, ts = [k \in Tree |-> Constructed(k, sub[k])],
         NEW ns, Together(ns, ts)
  PROVE  /\ \A k \in Tree : /\ sub[k] # << >> => Raised(ts[k], k, sub[k])
                            /\ SameTree(ts[k], ns, k)
         /\ \A n \in DOMAIN ns : n[1] \in Tree /\ n \in DOMAIN ts[n[1]] /\ ns[n] = ts[n[1]][n]
                                   /\ sub[n[1]] # << >>
<1>1. ASSUME NEW k \in Tree, sub[k] # << >>
      PROVE  Raised(ts[k], k, sub[k])
  <2>1. ts[k] = Constructed(k, sub[k]) /\ sub[k] \in Seq(Rule)
    OBVIOUS
  <2> QED BY <1>1, <2>1, ConstructedIs
<1>2. ASSUME NEW k \in Tree, NEW n \in DOMAIN ts[k]
      PROVE  n[1] = k /\ sub[k] # << >>
  <2>1. sub[k] # << >>
    <3>1. sub[k] = << >> => Constructed(k, sub[k]) = << >>
      BY DEF Constructed
    <3>2. ts[k] = Constructed(k, sub[k]) /\ DOMAIN << >> = {}
      OBVIOUS
    <3> QED BY <3>1, <3>2
  <2> QED BY <1>1, <2>1 DEF Raised
<1>3. DOMAIN ns = UNION {DOMAIN ts[k] : k \in Tree} /\ \A n \in DOMAIN ns : ns[n] = ts[n[1]][n]
  BY DEF Together
<1>4. ASSUME NEW n \in DOMAIN ns
      PROVE  n[1] \in Tree /\ n \in DOMAIN ts[n[1]] /\ ns[n] = ts[n[1]][n] /\ sub[n[1]] # << >>
  <2>1. PICK k \in Tree : n \in DOMAIN ts[k]
    BY <1>3
  <2>2. n[1] = k /\ sub[k] # << >>
    BY <1>2, <2>1
  <2> QED BY <1>3, <2>1, <2>2
<1>5. ASSUME NEW k \in Tree, NEW n, n[1] = k
      PROVE  /\ n \in DOMAIN ts[k] <=> n \in DOMAIN ns
             /\ n \in DOMAIN ts[k] => ns[n] = ts[k][n]
  <2>1. n \in DOMAIN ts[k] => n \in DOMAIN ns
    BY <1>3
  <2>2. n \in DOMAIN ns => n \in DOMAIN ts[k] /\ ns[n] = ts[k][n]
    BY <1>4, <1>5
  <2> QED BY <2>1, <2>2
<1>6. \A k \in Tree : SameTree(ts[k], ns, k)
  BY <1>5 DEF SameTree
<1> QED BY <1>1, <1>4, <1>6

\* What Init says, over values.
Starts(sub, mp, ns, bt, lv, S, list) ==
  /\ sub = partition(list)
  /\ mp = [k \in Tree |-> IF sub[k] = << >> THEN -1 ELSE sub[k][1].priority]
  /\ Together(ns, [k \in Tree |-> Constructed(k, sub[k])])
  /\ bt = S
  /\ lv = [r \in Rule |-> IF r \in S THEN 1 ELSE 0]

LEMMA StartsHolds ==
  ASSUME NEW S \in SUBSET Rule, NEW list \in SetToSeqs(S), InDescendingOrder(list),
         NEW sub, NEW mp, NEW ns, NEW bt, NEW lv, Starts(sub, mp, ns, bt, lv, S, list)
  PROVE  InvOf(sub, mp, ns, bt, lv)
<1>1. IsFiniteSet(S)
  BY RuleAssumption, FS_Subset
<1>2. list \in Seq(S) /\ IsInjective(list) /\ Range(list) = S
  BY <1>1, ListOfSet
<1>3. list \in Seq(Rule)
  BY <1>2
<1>4. lv \in [Rule -> Nat] /\ \A r \in Rule : lv[r] = IF r \in S THEN 1 ELSE 0
  BY DEF Starts
<1>5. ASSUME NEW k \in Tree
      PROVE  sub[k] = Only(list, {r \in Rule : CutTSSSubsetIndex(r) = k})
  <2>1. sub[k] = Only(list, {r \in Rule :
                    Min({j \in Tree : \A d \in CutTSSPartitionThresholds(j) :
                                        r.prefix_length[d] >= threshold}) = k})
    BY DEF Starts, partition
  <2>2. {r \in Rule : Min({j \in Tree : \A d \in CutTSSPartitionThresholds(j) :
                                          r.prefix_length[d] >= threshold}) = k}
          = {r \in Rule : CutTSSSubsetIndex(r) = k}
    BY FirstIs
  <2> QED BY <2>1, <2>2, Zenon
<1>6. DOMAIN sub = Tree /\ sub = [k \in Tree |-> sub[k]]
  BY DEF Starts, partition
<1>7. ASSUME NEW k \in Tree
      PROVE  /\ sub[k] \in Seq(Rule) /\ Dealt(sub[k], k, lv)
             /\ Range(sub[k]) = {r \in S : CutTSSSubsetIndex(r) = k}
  <2> PICK Y : Y = {r \in Rule : CutTSSSubsetIndex(r) = k}
    OBVIOUS
  <2> PICK v : v = Only(list, Y)
    OBVIOUS
  <2>1. v = sub[k]
    BY <1>5
  <2>2. /\ v \in Seq(Rule) /\ Range(v) = Range(list) \cap Y /\ InDescendingOrder(v) /\ IsInjective(v)
    BY <1>2, <1>3, OnlyIs
  <2>3. ASSUME NEW r \in Rule
        PROVE  Count(v, {r}) = IF CutTSSSubsetIndex(r) = k THEN lv[r] ELSE 0
    <3>1. Count(v, {r}) = IF r \in Range(v) THEN 1 ELSE 0
      BY <2>2, CountOnce
    <3>2. r \in Range(v) <=> r \in S /\ CutTSSSubsetIndex(r) = k
      BY <1>2, <2>2
    <3> QED BY <1>4, <3>1, <3>2
  <2>4. Range(v) = {r \in S : CutTSSSubsetIndex(r) = k}
    BY <1>2, <2>2
  <2> QED BY <2>1, <2>2, <2>3, <2>4 DEF Dealt
<1>8. Lists(sub, lv) /\ sub \in [Tree -> Seq(Rule)]
  BY <1>4, <1>6, <1>7 DEF Lists
<1>9. Greatest(sub, mp)
  <2>1. ASSUME NEW k \in Tree
        PROVE  MaxPriorityOrMinusOne(sub[k]) = IF sub[k] = << >> THEN -1 ELSE sub[k][1].priority
    <3> PICK v \in Seq(Rule) : v = sub[k] /\ InDescendingOrder(v)
      BY <1>7 DEF Dealt
    <3>1. Highest({r.priority : r \in Range(v)}) = IF v = << >> THEN -1 ELSE v[1].priority
      BY FirstIsHighest
    <3>2. MaxPriorityOrMinusOne(v) = IF v = << >> THEN -1 ELSE v[1].priority
      BY <3>1, Zenon DEF MaxPriorityOrMinusOne
    <3> QED BY <3>2, Zenon
  <2>2. mp = [k \in Tree |-> IF sub[k] = << >> THEN -1 ELSE sub[k][1].priority]
    BY DEF Starts
  <2>3. mp = [k \in Tree |-> MaxPriorityOrMinusOne(sub[k])]
    BY <2>1, <2>2
  <2> QED BY <2>3, Zenon DEF Greatest
<1> PICK ts : ts = [k \in Tree |-> Constructed(k, sub[k])]
  OBVIOUS
<1>10. /\ \A k \in Tree : sub[k] # << >> => Raised(ts[k], k, sub[k])
       /\ \A k \in Tree : SameTree(ts[k], ns, k)
       /\ \A n \in DOMAIN ns : n[1] \in Tree /\ n \in DOMAIN ts[n[1]] /\ ns[n] = ts[n[1]][n]
                                 /\ sub[n[1]] # << >>
  <2>1. Together(ns, ts)
    BY DEF Starts
  <2> QED BY <1>8, <2>1, TreesTogether
<1>11. Rooted(sub, ns)
  <2>1. ASSUME NEW k \in Tree, sub[k] # << >>
        PROVE  Root(k) \in DOMAIN ns
    <3>1. Root(k) \in DOMAIN ts[k] /\ SameTree(ts[k], ns, k)
      BY <1>10, <2>1 DEF Raised
    <3> QED BY <3>1, RootHas DEF SameTree
  <2> QED BY <2>1 DEF Rooted
<1>12. ASSUME NEW n \in DOMAIN ns
       PROVE  ShapedAt(ns, n)
  <2> PICK k \in Tree : k = n[1]
    BY <1>10
  <2> PICK t : t = ts[k]
    OBVIOUS
  <2>1. n \in DOMAIN t /\ Raised(t, k, sub[k]) /\ SameTree(t, ns, k)
    BY <1>10
  <2>2. ShapedAt(t, n)
    BY <2>1 DEF Raised, Shaped
  <2> QED BY <2>1, <2>2, ShapedAlike
<1>13. ASSUME NEW n \in DOMAIN ns, ns[n].type # "Cuts"
       PROVE  LeafHolds(ns[n], lv, n)
  <2> PICK k \in Tree : k = n[1]
    BY <1>10
  <2> PICK t : t = ts[k]
    OBVIOUS
  <2> PICK v \in Seq(Rule) : v = sub[k] /\ Dealt(v, k, lv)
    BY <1>7
  <2>1. n \in DOMAIN t /\ Raised(t, k, v) /\ ns[n] = t[n]
    BY <1>10
  <2>2. Holding(t, lv)
    BY <1>4, <2>1, RaisedHolds
  <2> QED BY <1>13, <2>1, <2>2 DEF Holding
<1>14. ASSUME NEW r \in S
       PROVE  Uncut(ns, CutTSSSubsetIndex(r), r)
  <2> PICK k \in Tree : k = CutTSSSubsetIndex(r)
    BY IndexIs
  <2> PICK t : t = ts[k]
    OBVIOUS
  <2>1. r \in Range(sub[k])
    BY <1>7
  <2>2. sub[k] # << >>
    BY <2>1 DEF Range
  <2>3. Raised(t, k, sub[k]) /\ SameTree(t, ns, k)
    BY <1>10, <2>2
  <2>4. Uncut(t, k, r)
    BY <2>1, <2>3 DEF Raised
  <2> QED BY <2>3, <2>4, UncutAlike
<1>15. bt = S
  BY DEF Starts
<1> QED BY <1>8, <1>9, <1>11, <1>12, <1>13, <1>14, <1>15
     DEF InvOf, Shaped, Holding, BuiltUncut

LEMMA InitInv ==
  ASSUME Init
  PROVE  Inv
<1>1. PICK S \in (SUBSET Rule) \ {{}} :
        \E list \in {v \in SetToSeqs(S) : InDescendingOrder(v)} :
          Starts(subset, maxPri, nodes, built, live, S, list)
  BY Zenon DEF Init, Starts, Together
<1>2. PICK list \in {v \in SetToSeqs(S) : InDescendingOrder(v)} :
        Starts(subset, maxPri, nodes, built, live, S, list)
  BY <1>1
<1>3. S \in SUBSET Rule /\ list \in SetToSeqs(S) /\ InDescendingOrder(list)
  OBVIOUS
<1> QED BY <1>2, <1>3, StartsHolds DEF Inv

LEMMA NextInv ==
  ASSUME Inv, [Next]_vars
  PROVE  Inv'
<1>1. InvOf(subset, maxPri, nodes, built, live)
  BY DEF Inv
<1>2. ASSUME NEW r \in Rule, InsertRule(r)
      PROVE  Inv'
  <2> PICK k : k = CutTSSSubsetIndex(r)
    OBVIOUS
  <2> PICK list : list = InsertSortedByPriority(subset[k], r)
    OBVIOUS
  <2>1. /\ live' = [live EXCEPT ![r] = @ + 1]
        /\ subset' = [subset EXCEPT ![k] = list]
        /\ maxPri' = [maxPri EXCEPT ![k] = MaxPriorityOrMinusOne(list)]
    BY <1>2, Zenon DEF InsertRule
  <2>2. Place(r) = PlaceIn(nodes, r)
    BY PlaceNow
  <2>3. TreesInsert(nodes, nodes', built, built', r, list)
    BY <1>2, <2>2, Zenon DEF InsertRule, TreesInsert, Beside
  <2>4. InvOf(subset', maxPri', nodes', built', live')
    BY <1>1, <2>1, <2>3, InsertKeeps
  <2> QED BY <2>4 DEF Inv
<1>3. ASSUME NEW r \in Rule, DeleteRule(r)
      PROVE  Inv'
  <2> PICK k : k = CutTSSSubsetIndex(r)
    OBVIOUS
  <2> PICK list : list = RemoveMatchingRule(subset[k], r)
    OBVIOUS
  <2>1. /\ live' = [live EXCEPT ![r] = @ - 1]
        /\ subset' = [subset EXCEPT ![k] = list]
        /\ maxPri' = [maxPri EXCEPT ![k] = MaxPriorityOrMinusOne(list)]
        /\ live[r] > 0 /\ built' = built
    BY <1>3, Zenon DEF DeleteRule
  <2>2. Place(r) = PlaceIn(nodes, r)
    BY PlaceNow
  <2>3. TreesDelete(nodes, nodes', r)
    BY <1>3, <2>2, Zenon DEF DeleteRule, TreesDelete
  <2>4. InvOf(subset', maxPri', nodes', built', live')
    BY <1>1, <2>1, <2>3, DeleteKeeps
  <2> QED BY <2>4 DEF Inv
<1>4. ASSUME UNCHANGED vars
      PROVE  Inv'
  BY <1>1, <1>4, Zenon DEF Inv, vars
<1> QED BY <1>2, <1>3, <1>4 DEF Next

LEMMA InvAlways == Spec => []Inv
<1>1. Init => Inv
  BY InitInv
<1>2. Inv /\ [Next]_vars => Inv'
  BY NextInv
<1> QED BY <1>1, <1>2, PTL DEF Spec

-----------------------------------------------------------------------------
(***************************************************************************)
(* What the invariant says of each state.                                  *)
(***************************************************************************)

\* A leaf is as deep as an address is wide at most.
LEMMA DeepIs ==
  ASSUME NEW k \in Tree, NEW i, Deep(k, i)
  PROVE  i \in 0 .. W
<1>1. i \in Nat /\ i * Bits(k) <= W /\ Bits(k) \in Nat /\ Bits(k) >= 1 /\ W \in Nat
  BY WidthIs DEF Deep
<1>2. ASSUME NEW a \in Nat, NEW b \in Nat, b >= 1
      PROVE  a <= a * b
  <2>1. 1 * a <= b * a
    BY ONLY <1>2, TimesOrdered
  <2> QED BY ONLY <1>2, <2>1, SMT
<1>3. i <= i * Bits(k)
  BY <1>1, <1>2
<1> PICK z \in Nat : z = i * Bits(k)
  BY <1>1
<1> QED BY ONLY <1>1, <1>3, i * Bits(k) = z, z \in Nat

LEMMA TypesFollow == Inv => TypeOK
<1> SUFFICES ASSUME Inv PROVE TypeOK
  OBVIOUS
<1>1. /\ Lists(subset, live) /\ Greatest(subset, maxPri) /\ Shaped(nodes)
      /\ BuiltUncut(nodes, built)
  BY DEF Inv, InvOf
<1>2. subset \in [Tree -> Seq(Rule)] /\ live \in [Rule -> Nat] /\ built \in SUBSET Rule
  BY <1>1 DEF Lists, BuiltUncut
<1>3. ASSUME NEW k \in Tree
      PROVE  MaxPriorityOrMinusOne(subset[k]) \in Priority \cup {-1}
  <2> PICK v \in Seq(Rule) : v = subset[k] /\ InDescendingOrder(v)
    BY <1>1, <1>2 DEF Lists, Dealt
  <2>1. Highest({r.priority : r \in Range(v)}) \in Priority \cup {-1}
    BY FirstIsHighest
  <2> QED BY <2>1, Zenon DEF MaxPriorityOrMinusOne
<1>4. maxPri \in [Tree -> Priority \cup {-1}]
  <2>1. maxPri = [k \in Tree |-> MaxPriorityOrMinusOne(subset[k])]
    BY <1>1, Zenon DEF Greatest
  <2> QED BY <1>3, <2>1
<1>5. ASSUME NEW n \in DOMAIN nodes
      PROVE  /\ n[1] \in Tree /\ n[2] \in 0 .. W
             /\ n[3] \in [CutTSSPartitionThresholds(n[1]) -> 0 .. 2^W - 1]
             /\ nodes[n] \in [type : {"Cuts", "Linear", "TSS"}, rules : Seq(Rule)]
  <2>1. IsName(n) /\ nodes[n] \in NodeRecord
    BY <1>1 DEF Shaped, ShapedAt
  <2>2. n[1] \in Tree /\ Deep(n[1], n[2]) /\ n[3] \in [Fields(n[1]) -> Address]
    BY <2>1 DEF IsName, Deep
  <2>3. n[2] \in 0 .. W
    BY <2>2, DeepIs
  <2> QED BY <2>1, <2>2, <2>3, Zenon DEF Fields, Address, NodeRecord
<1> QED BY <1>2, <1>4, <1>5 DEF TypeOK

LEMMA SubsetsFollow == Inv => SubsetsExact
<1> SUFFICES ASSUME Inv, NEW k \in Tree
             PROVE  /\ \A r \in Rule :
                         Count(subset[k], {r}) = IF CutTSSSubsetIndex(r) = k THEN live[r] ELSE 0
                    /\ InDescendingOrder(subset[k])
                    /\ maxPri[k] = MaxPriorityOrMinusOne(subset[k])
  BY DEF SubsetsExact
<1>1. Lists(subset, live) /\ Greatest(subset, maxPri)
  BY DEF Inv, InvOf
<1>2. Dealt(subset[k], k, live)
  BY <1>1 DEF Lists
<1>3. maxPri[k] = MaxPriorityOrMinusOne(subset[k])
  BY <1>1, Zenon DEF Greatest
<1> QED BY <1>2, <1>3, Zenon DEF Dealt

LEMMA BuiltFollow == Inv => BuiltServed
<1> SUFFICES ASSUME Inv, NEW r \in built, NEW p \in Packet, MatchesPacket(r, p)
             PROVE  Served(r, p)
  BY DEF BuiltServed
<1>1. built \in SUBSET Rule /\ Uncut(nodes, CutTSSSubsetIndex(r), r)
  BY DEF Inv, InvOf, BuiltUncut
<1>2. r \in Rule
  BY <1>1
<1> PICK k \in Tree : k = CutTSSSubsetIndex(r)
  BY <1>2, IndexIs
<1>3. Point(p)
  BY AddressAssumption DEF Point
<1>4. \A d \in Fields(k) : Low(r)[d] <= p[d] /\ p[d] <= High(r)[d]
  BY <1>2, FieldsAre, EndsArePoints DEF MatchesPacket
<1>5. ReachedIn(nodes, k, Low(r)) \in DOMAIN nodes /\ ReachedIn(nodes, k, p) = ReachedIn(nodes, k, Low(r))
  BY <1>1, <1>2, <1>3, <1>4, UncutIsServed
<1>6. Place(r) = ReachedIn(nodes, k, Low(r)) /\ Reached(k, p) = ReachedIn(nodes, k, p)
  BY PlaceNow DEF PlaceIn
<1> QED BY <1>5, <1>6, Zenon DEF Served

LEMMA TreesFollow == Inv => TreeInv
<1> PICK place : place = [r \in Rule |-> Place(r)]
  OBVIOUS
<1> SUFFICES
      ASSUME Inv, NEW n \in DOMAIN nodes,
             NEW held, held = [r \in Rule |-> IF place[r] = n THEN live[r] ELSE 0]
      PROVE  /\ n[2] > 0 => \E m \in DOMAIN nodes :
                  /\ m[1] = n[1] /\ m[2] = n[2] - 1 /\ nodes[m].type = "Cuts"
                  /\ \A d \in DOMAIN m[3] : n[3][d] \div 2^Bits(n[1]) = m[3][d]
             /\ nodes[n].type = "Cuts" => nodes[n].rules = << >> /\ \A r \in Rule : held[r] = 0
             /\ nodes[n].type # "Cuts" => \A r \in Rule :
                  Count(nodes[n].rules, Confused(nodes[n].type, r))
                    = SumFunctionOnSet(held, Confused(nodes[n].type, r))
             /\ nodes[n].type = "Linear" => InDescendingOrder(nodes[n].rules)
  BY Zenon DEF TreeInv
<1>1. Shaped(nodes) /\ Holding(nodes, live) /\ Lists(subset, live)
  BY DEF Inv, InvOf
<1>2. ShapedAt(nodes, n)
  BY <1>1 DEF Shaped
<1>3. ASSUME NEW r \in Rule
      PROVE  /\ held[r] = IF PlaceIn(nodes, r) = n THEN live[r] ELSE 0
             /\ nodes[n].type = "Cuts" => PlaceIn(nodes, r) # n
             /\ nodes[n].type # "Cuts" => (PlaceIn(nodes, r) = n <=> Comes(r, n))
  <2>1. place[r] = PlaceIn(nodes, r)
    BY PlaceNow
  <2>2. held[r] = IF PlaceIn(nodes, r) = n THEN live[r] ELSE 0
    BY <2>1
  <2> QED BY <1>1, <2>2, ComesIs
<1>4. ASSUME n[2] > 0
      PROVE  \E m \in DOMAIN nodes :
               /\ m[1] = n[1] /\ m[2] = n[2] - 1 /\ nodes[m].type = "Cuts"
               /\ \A d \in DOMAIN m[3] : n[3][d] \div 2^Bits(n[1]) = m[3][d]
  <2> PICK m : m = Parent(n)
    OBVIOUS
  <2>1. m \in DOMAIN nodes /\ nodes[m].type = "Cuts"
    BY <1>2, <1>4 DEF ShapedAt, CutsAt
  <2>2. /\ m[1] = n[1] /\ m[2] = n[2] - 1
        /\ m[3] = [d \in Fields(n[1]) |-> n[3][d] \div Slots(n[1])]
    BY DEF Parent
  <2>3. \A d \in DOMAIN m[3] : n[3][d] \div 2^Bits(n[1]) = m[3][d]
    BY <2>2, Zenon DEF Slots
  <2> QED BY <2>1, <2>2, <2>3
<1>5. nodes[n].type = "Cuts" => nodes[n].rules = << >> /\ \A r \in Rule : held[r] = 0
  BY <1>2, <1>3 DEF ShapedAt
<1>6. ASSUME nodes[n].type # "Cuts"
      PROVE  /\ held = HeldAt(live, n)
             /\ LeafHolds(nodes[n], live, n)
  <2>1. \A r \in Rule : held[r] = IF Comes(r, n) THEN live[r] ELSE 0
    BY <1>3, <1>6
  <2>2. held = HeldAt(live, n)
    BY <2>1 DEF HeldAt
  <2> QED BY <1>1, <1>6, <2>2 DEF Holding
<1>7. ASSUME nodes[n].type # "Cuts", NEW r \in Rule
      PROVE  Count(nodes[n].rules, Confused(nodes[n].type, r))
               = SumFunctionOnSet(held, Confused(nodes[n].type, r))
  BY <1>6, <1>7, Zenon DEF LeafHolds
<1>8. nodes[n].type = "Linear" => InDescendingOrder(nodes[n].rules)
  BY <1>6, Zenon DEF LeafHolds
<1> QED BY <1>4, <1>5, <1>7, <1>8

-----------------------------------------------------------------------------
(***************************************************************************)
(* Lookups.  An answer is right about the rules of a set, but for the      *)
(* priorities that rules share: it is the priority of one of them, and it  *)
(* is not lower than that of any.                                          *)
(***************************************************************************)

Answers(x, S) ==
  /\ x \in Priority \cup {-1}
  /\ x # -1 => x \in Shared \/ \E r \in S : r.priority = x

Covers(x, S) == \A r \in S : r.priority <= x \/ r.priority \in Shared

\* What a leaf finds by a scan of its list is right about the rules it keeps.
LEMMA LeafAnswers ==
  ASSUME NEW type, NEW rules \in Seq(Rule), NEW lv \in [Rule -> Nat], NEW n,
         LeafHolds([type |-> type, rules |-> rules], lv, n), NEW p,
         NEW x, x = LinearScanPriority(Range(rules), p),
         NEW S, S = {r \in Rule : lv[r] > 0 /\ Comes(r, n) /\ MatchesPacket(r, p)}
  PROVE  Answers(x, S) /\ Covers(x, S)
<1>1. Range(rules) \in SUBSET Rule /\ \A r : r \in Range(rules) <=> \E i \in DOMAIN rules : rules[i] = r
  BY DEF Range
<1>2. /\ x \in Priority \cup {-1}
      /\ x # -1 => \E r \in Range(rules) : MatchesPacket(r, p) /\ r.priority = x
      /\ \A r \in Range(rules) : MatchesPacket(r, p) => r.priority <= x
  BY <1>1, ScanIsGreatest
<1>3. ASSUME NEW r \in Rule, NEW s \in Confused(type, r), r # s
      PROVE  r.priority \in Shared
  <2>1. s \in Rule /\ s.priority = r.priority
    BY ConfusedAre
  <2> QED BY <1>3, <2>1 DEF Shared, Priority
<1>4. ASSUME x # -1
      PROVE  x \in Shared \/ \E r \in S : r.priority = x
  <2>1. PICK r \in Range(rules) : MatchesPacket(r, p) /\ r.priority = x
    BY <1>2, <1>4
  <2>2. r \in Rule
    BY <1>1
  <2>3. PICK s \in Confused(type, r) : Comes(s, n) /\ lv[s] > 0
    BY <2>2, LeafHasOne
  <2>4. CASE s = r
    BY <2>1, <2>2, <2>3, <2>4
  <2>5. CASE s # r
    BY <1>3, <2>1, <2>2, <2>5
  <2> QED BY <2>4, <2>5
<1>5. ASSUME NEW r \in S
      PROVE  r.priority <= x \/ r.priority \in Shared
  <2>1. r \in Rule /\ lv[r] > 0 /\ Comes(r, n) /\ MatchesPacket(r, p)
    OBVIOUS
  <2>2. PICK i \in DOMAIN rules : rules[i] \in Confused(type, r)
    BY <2>1, LeafHasOne
  <2>3. CASE rules[i] = r
    BY <1>1, <1>2, <2>1, <2>3
  <2>4. CASE rules[i] # r
    BY <1>3, <2>1, <2>2, <2>4
  <2> QED BY <2>3, <2>4
<1> QED BY <1>2, <1>4, <1>5 DEF Answers, Covers

\* So is what the list of a subset is searched for.
LEMMA ListAnswers ==
  ASSUME NEW k \in Tree, NEW list \in Seq(Rule), NEW lv \in [Rule -> Nat], Dealt(list, k, lv), NEW p,
         NEW x, x = FirstMatch(list, p),
         NEW S, S = {r \in Rule : lv[r] > 0 /\ CutTSSSubsetIndex(r) = k /\ MatchesPacket(r, p)}
  PROVE  Answers(x, S) /\ Covers(x, S)
<1>1. Range(list) \in SUBSET Rule /\ \A r : r \in Range(list) <=> \E i \in DOMAIN list : list[i] = r
  BY DEF Range
<1>2. InDescendingOrder(list) /\ \A r \in Rule : Count(list, {r}) = IF CutTSSSubsetIndex(r) = k THEN lv[r] ELSE 0
  BY DEF Dealt
<1>3. x = LinearScanPriority(Range(list), p)
  BY <1>2, FirstMatchIs
<1>4. ASSUME NEW r \in Rule
      PROVE  r \in Range(list) <=> lv[r] > 0 /\ CutTSSSubsetIndex(r) = k
  <2>1. Count(list, {r}) > 0 <=> \E i \in DOMAIN list : list[i] \in {r}
    BY CountIs
  <2>2. Count(list, {r}) > 0 <=> r \in Range(list)
    BY <1>1, <2>1
  <2>3. Count(list, {r}) = IF CutTSSSubsetIndex(r) = k THEN lv[r] ELSE 0
    BY <1>2
  <2> QED BY <2>2, <2>3
<1>5. /\ x \in Priority \cup {-1}
      /\ x # -1 => \E r \in Range(list) : MatchesPacket(r, p) /\ r.priority = x
      /\ \A r \in Range(list) : MatchesPacket(r, p) => r.priority <= x
  BY <1>1, <1>3, ScanIsGreatest
<1>6. \A r : r \in S <=> r \in Range(list) /\ MatchesPacket(r, p)
  BY <1>1, <1>4
<1> QED BY <1>5, <1>6 DEF Answers, Covers

\* The rules of tree k that the packet matches and is led to.
Found(k, p) ==
  {r \in LiveRules : CutTSSSubsetIndex(r) = k /\ MatchesPacket(r, p) /\ Served(r, p)}

\* A tree that has a leaf for the packet answers by what comes to this leaf...
LEMMA LeafFound ==
  ASSUME Inv, NEW k \in Tree, NEW p \in Packet, NEW n, n = Reached(k, p), n \in DOMAIN nodes
  PROVE  /\ nodes[n] \in NodeRecord /\ nodes[n].type \in {"Linear", "TSS"}
         /\ LeafHolds(nodes[n], live, n)
         /\ Found(k, p) = {r \in Rule : live[r] > 0 /\ Comes(r, n) /\ MatchesPacket(r, p)}
<1>1. Shaped(nodes) /\ Holding(nodes, live)
  BY DEF Inv, InvOf
<1>2. Point(p)
  BY AddressAssumption DEF Point
<1>3. ReachedIn(nodes, k, p) = n
  BY PlaceNow
<1>4. nodes[n].type # "Cuts" /\ n[1] = k
  BY <1>1, <1>2, <1>3, ReachedIs
<1>5. nodes[n] \in NodeRecord
  BY <1>1 DEF Shaped, ShapedAt
<1>6. nodes[n].type \in {"Linear", "TSS"}
  BY <1>4, <1>5 DEF NodeRecord
<1>7. LeafHolds(nodes[n], live, n)
  BY <1>1, <1>4 DEF Holding
<1>8. ASSUME NEW r \in Rule
      PROVE  CutTSSSubsetIndex(r) = k /\ Served(r, p) <=> Comes(r, n)
  <2>1. Place(r) = n <=> Comes(r, n)
    BY <1>1, <1>4, ComesIs, PlaceNow
  <2>2. Comes(r, n) => CutTSSSubsetIndex(r) = k
    BY <1>4 DEF Comes
  <2>3. CutTSSSubsetIndex(r) = k => (Served(r, p) <=> Place(r) = n)
    BY DEF Served
  <2> QED BY <2>1, <2>2, <2>3
<1>9. Found(k, p) = {r \in Rule : live[r] > 0 /\ Comes(r, n) /\ MatchesPacket(r, p)}
  BY <1>8 DEF Found, LiveRules
<1> QED BY <1>5, <1>6, <1>7, <1>9

\* ...and one that has none answers that there is no rule.
LEMMA TrieAnswers ==
  ASSUME Inv, NEW k \in Tree, NEW p \in Packet, NEW x, x = trieLookup(k, p)
  PROVE  Answers(x, Found(k, p)) /\ Covers(x, Found(k, p))
<1> PICK n : n = Reached(k, p)
  OBVIOUS
<1>1. CASE n \notin DOMAIN nodes
  <2>1. x = -1
    BY <1>1 DEF trieLookup
  <2>2. Found(k, p) = {}
    BY <1>1, Zenon DEF Found, Served
  <2> QED BY <2>1, <2>2 DEF Answers, Covers
<1>2. CASE n \in DOMAIN nodes
  <2>1. /\ nodes[n] \in NodeRecord /\ nodes[n].type \in {"Linear", "TSS"}
        /\ LeafHolds(nodes[n], live, n)
        /\ Found(k, p) = {r \in Rule : live[r] > 0 /\ Comes(r, n) /\ MatchesPacket(r, p)}
    BY <1>2, LeafFound
  <2>2. live \in [Rule -> Nat]
    BY DEF Inv, InvOf, Lists
  <2> PICK type : type = nodes[n].type
    OBVIOUS
  <2> PICK rules \in Seq(Rule) : rules = nodes[n].rules
    BY <2>1 DEF NodeRecord
  <2>3. nodes[n] = [type |-> type, rules |-> rules]
    BY <2>1 DEF NodeRecord
  <2>4. x = LinearScanPriority(Range(rules), p)
    <3>1. CASE type = "TSS"
      BY <1>2, <3>1 DEF trieLookup
    <3>2. CASE type = "Linear"
      <4>1. x = FirstMatch(rules, p)
        BY <1>2, <3>2 DEF trieLookup
      <4>2. InDescendingOrder(rules)
        BY <2>1, <3>2, Zenon DEF LeafHolds
      <4> QED BY <4>1, <4>2, FirstMatchIs
    <3> QED BY <2>1, <3>1, <3>2
  <2>5. LeafHolds([type |-> type, rules |-> rules], live, n)
    BY <2>1, <2>3, Zenon
  <2> PICK S : S = {r \in Rule : live[r] > 0 /\ Comes(r, n) /\ MatchesPacket(r, p)}
    OBVIOUS
  <2>6. Answers(x, S) /\ Covers(x, S)
    BY <2>2, <2>4, <2>5, LeafAnswers
  <2>7. Found(k, p) = S
    BY <2>1
  <2> QED BY <2>6, <2>7, Zenon
<1> QED BY <1>1, <1>2

\* The list of PSbig's subset is right about the rules that come to PSbig.
LEMMA SearchAnswers ==
  ASSUME Inv, NEW k \in Tree, NEW p \in Packet, NEW x, x = Search(k, p)
  PROVE  Answers(x, Found(k, p)) /\ Covers(x, Found(k, p))
<1>1. CASE x = trieLookup(k, p)
  BY <1>1, TrieAnswers
<1>2. CASE x # trieLookup(k, p)
  <2>1. k = PSbig /\ Root(k) \in DOMAIN nodes /\ x = FirstMatch(subset[k], p)
    BY <1>2, Zenon DEF Search
  <2>2. Lists(subset, live) /\ Shaped(nodes)
    BY DEF Inv, InvOf
  <2>3. live \in [Rule -> Nat] /\ subset[k] \in Seq(Rule) /\ Dealt(subset[k], k, live)
    BY <2>2 DEF Lists
  <2>4. Root(k)[1] = k /\ nodes[Root(k)].type = "TSS"
    BY <2>1, <2>2, RootHas DEF Shaped, ShapedAt
  <2>5. ASSUME NEW y, Point(y)
        PROVE  Reached(k, y) = Root(k)
    <3> PICK n : n = Root(k)
      OBVIOUS
    <3>1. n = Name(k, 0, y) /\ n[2] = 0
      BY <2>5, RootName DEF Root
    <3>2. n \in DOMAIN nodes /\ nodes[n].type # "Cuts" /\ n[1] = k /\ n = Name(k, n[2], y)
      BY <2>1, <2>4, <3>1
    <3>3. ReachedIn(nodes, k, y) = n
      BY <2>2, <2>5, <3>2, ReachedIs
    <3> QED BY <3>3, PlaceNow
  <2>6. ASSUME NEW r \in Rule, CutTSSSubsetIndex(r) = k
        PROVE  Served(r, p)
    <3>1. Point(p) /\ Point(Low(r))
      BY AddressAssumption, EndsArePoints DEF Point
    <3>2. Place(r) = Reached(k, Low(r))
      BY <2>6, PlaceNow DEF PlaceIn
    <3>3. Reached(k, p) = Root(k) /\ Place(r) = Root(k)
      BY <2>5, <3>1, <3>2
    <3> QED BY <2>1, <2>6, <3>3 DEF Served
  <2> PICK S : S = {r \in Rule : live[r] > 0 /\ CutTSSSubsetIndex(r) = k /\ MatchesPacket(r, p)}
    OBVIOUS
  <2>7. Found(k, p) = S
    BY <2>6 DEF Found, LiveRules
  <2>8. Answers(x, S) /\ Covers(x, S)
    BY <2>1, <2>3, ListAnswers
  <2> QED BY <2>7, <2>8, Zenon
<1> QED BY <1>1, <1>2

\* A subset that is passed over has no rule above the answer so far.
LEMMA AskedIs ==
  ASSUME Inv, NEW k \in Tree, NEW p \in Packet, NEW m \in Priority \cup {-1},
         NEW x, x = Asked(k, p, m)
  PROVE  /\ x \in Priority \cup {-1} /\ m <= x
         /\ Covers(x, Found(k, p))
         /\ \A S : Answers(m, S) /\ (\A r \in Found(k, p) : r \in S) => Answers(x, S)
<1>1. \A q \in Priority \cup {-1} : q \in Int /\ -1 <= q
  BY PriorityFinite
<1>2. CASE k = 0 \/ maxPri[k] > m
  <2> PICK s : s = Search(k, p)
    OBVIOUS
  <2>1. Answers(s, Found(k, p)) /\ Covers(s, Found(k, p))
    BY SearchAnswers
  <2>2. s \in Priority \cup {-1}
    BY <2>1 DEF Answers
  <2>3. {m, s} \in SUBSET Int /\ IsFiniteSet({m, s})
    <3>1. IsFiniteSet({s}) /\ IsFiniteSet({s} \cup {m})
      BY FS_Singleton, FS_AddElement
    <3>2. {m, s} = {s} \cup {m}
      OBVIOUS
    <3> QED BY <1>1, <2>2, <3>1, <3>2
  <2>4. x = Highest({m, s})
    BY <1>2, Zenon DEF Asked
  <2>5. x \in {m, s, -1} /\ m <= x /\ s <= x /\ -1 <= x
    BY <2>3, <2>4, HighestIsGreatest
  <2>6. x = m \/ x = s
    BY <1>1, <2>2, <2>5
  <2>7. Covers(x, Found(k, p))
    <3>1. ASSUME NEW r \in Found(k, p)
          PROVE  r.priority <= x \/ r.priority \in Shared
      <4>1. r.priority \in Int
        BY RuleAssumption DEF Found, LiveRules
      <4>2. r.priority <= s \/ r.priority \in Shared
        BY <2>1 DEF Covers
      <4> QED BY <1>1, <2>2, <2>5, <4>1, <4>2
    <3> QED BY <3>1 DEF Covers
  <2>8. ASSUME NEW S, Answers(m, S), \A r \in Found(k, p) : r \in S
        PROVE  Answers(x, S)
    BY <2>1, <2>6, <2>8 DEF Answers
  <2> QED BY <2>2, <2>5, <2>6, <2>7, <2>8
<1>3. CASE ~(k = 0 \/ maxPri[k] > m)
  <2>1. x = m
    BY <1>3, Zenon DEF Asked
  <2>2. Lists(subset, live) /\ Greatest(subset, maxPri)
    BY DEF Inv, InvOf
  <2>3. subset[k] \in Seq(Rule) /\ Dealt(subset[k], k, live) /\ live \in [Rule -> Nat]
    BY <2>2 DEF Lists
  <2> PICK list \in Seq(Rule) : list = subset[k]
    BY <2>3
  <2> PICK S : S = {r.priority : r \in Range(list)}
    OBVIOUS
  <2>4. Highest(S) \in Priority \cup {-1} /\ \A q \in S : q <= Highest(S)
    <3>1. Range(list) \in SUBSET Rule
      BY DEF Range
    <3>2. S \in SUBSET Priority
      BY <3>1 DEF Priority
    <3>3. IsFiniteSet(S) /\ S \in SUBSET Int
      BY <3>2, PriorityFinite, FS_Subset
    <3>4. Highest(S) \in S \cup {-1} /\ \A q \in S \cup {-1} : q <= Highest(S)
      BY <3>3, HighestIsGreatest
    <3> QED BY <3>2, <3>4
  <2>5. maxPri[k] = Highest(S)
    <3>1. maxPri[k] = MaxPriorityOrMinusOne(list)
      BY <2>2, Zenon DEF Greatest
    <3> QED BY <3>1, Zenon DEF MaxPriorityOrMinusOne
  <2>6. maxPri[k] <= m
    BY <1>1, <1>3, <2>4, <2>5
  <2>7. ASSUME NEW r \in Found(k, p)
        PROVE  r.priority <= m
    <3>1. r \in Rule /\ live[r] > 0 /\ CutTSSSubsetIndex(r) = k
      BY DEF Found, LiveRules
    <3>2. Count(list, {r}) = live[r]
      BY <2>3, <3>1, Zenon DEF Dealt
    <3>3. PICK i \in DOMAIN list : list[i] \in {r}
      <4>1. Count(list, {r}) > 0 <=> \E i \in DOMAIN list : list[i] \in {r}
        BY CountIs
      <4> QED BY <3>1, <3>2, <4>1
    <3>4. r.priority \in S
      BY <3>3 DEF Range
    <3>5. r.priority \in Int /\ r.priority <= maxPri[k]
      BY <2>4, <2>5, <3>1, <3>4, RuleAssumption
    <3> QED BY <1>1, <2>4, <2>5, <2>6, <3>5
  <2>8. Covers(x, Found(k, p))
    BY <2>1, <2>7 DEF Covers
  <2> QED BY <1>1, <2>1, <2>8
<1> QED BY <1>2, <1>3

LEMMA LookupsFollow == Inv => LookupServes
<1> SUFFICES ASSUME Inv, NEW p \in Packet, NEW S,
                    S = {r \in LiveRules : MatchesPacket(r, p) /\ Served(r, p)},
                    NEW scan, scan = LinearScanPriority(S, p),
                    NEW x, x = ClassifyAPacket(p)
             PROVE  x = scan \/ {x, scan} \cap Shared # {}
  BY Zenon DEF LookupServes
<1>1. \A q \in Priority \cup {-1} : q \in Int /\ -1 <= q
  BY PriorityFinite
<1> PICK a : a = Asked(0, p, -1)
  OBVIOUS
<1> PICK b : b = Asked(1, p, a)
  OBVIOUS
<1> PICK c : c = Asked(2, p, b)
  OBVIOUS
<1>2. x = Asked(3, p, c)
  BY Zenon DEF ClassifyAPacket
<1>3. 0 \in Tree /\ 1 \in Tree /\ 2 \in Tree /\ 3 \in Tree /\ \A k \in Tree : k \in {0, 1, 2, 3}
  BY DEF Tree
<1>4. \A k \in Tree : \A r \in Found(k, p) : r \in S
  BY DEF Found
<1>5. -1 \in Priority \cup {-1} /\ Answers(-1, S)
  BY DEF Answers
<1>6. a \in Priority \cup {-1} /\ Covers(a, Found(0, p)) /\ Answers(a, S)
  <2> PICK k \in Tree : k = 0
    BY <1>3
  <2>1. a \in Priority \cup {-1} /\ Covers(a, Found(k, p)) /\ Answers(a, S)
    BY <1>4, <1>5, AskedIs
  <2> QED BY <2>1
<1>7. b \in Priority \cup {-1} /\ a <= b /\ Covers(b, Found(1, p)) /\ Answers(b, S)
  <2> PICK k \in Tree : k = 1
    BY <1>3
  <2>1. b \in Priority \cup {-1} /\ a <= b /\ Covers(b, Found(k, p)) /\ Answers(b, S)
    BY <1>4, <1>6, AskedIs
  <2> QED BY <2>1
<1>8. c \in Priority \cup {-1} /\ b <= c /\ Covers(c, Found(2, p)) /\ Answers(c, S)
  <2> PICK k \in Tree : k = 2
    BY <1>3
  <2>1. c \in Priority \cup {-1} /\ b <= c /\ Covers(c, Found(k, p)) /\ Answers(c, S)
    BY <1>4, <1>7, AskedIs
  <2> QED BY <2>1
<1>9. x \in Priority \cup {-1} /\ c <= x /\ Covers(x, Found(3, p)) /\ Answers(x, S)
  <2> PICK k \in Tree : k = 3
    BY <1>3
  <2>1. x \in Priority \cup {-1} /\ c <= x /\ Covers(x, Found(k, p)) /\ Answers(x, S)
    BY <1>2, <1>4, <1>8, AskedIs
  <2> QED BY <2>1
<1>10. a \in Int /\ b \in Int /\ c \in Int /\ x \in Int /\ a <= x /\ b <= x /\ c <= x /\ -1 <= x
  BY <1>1, <1>6, <1>7, <1>8, <1>9
<1>11. S \in SUBSET Rule
  BY DEF LiveRules
<1>12. Covers(x, S)
  <2>1. ASSUME NEW r \in S
        PROVE  r.priority <= x \/ r.priority \in Shared
    <3> PICK k : k = CutTSSSubsetIndex(r)
      OBVIOUS
    <3>1. r \in Rule /\ r.priority \in Int
      BY <1>11, RuleAssumption
    <3>2. k \in {0, 1, 2, 3}
      BY <1>3, <3>1, IndexIs
    <3>3. r \in Found(k, p)
      BY DEF Found
    <3>4. \/ r.priority \in Shared
          \/ r.priority <= a \/ r.priority <= b \/ r.priority <= c \/ r.priority <= x
      BY <1>6, <1>7, <1>8, <1>9, <3>2, <3>3, Zenon DEF Covers
    <3> QED BY <1>10, <3>1, <3>4
  <2> QED BY <2>1 DEF Covers
<1>13. /\ scan \in Int /\ -1 <= scan
       /\ scan # -1 => \E r \in S : r.priority = scan
       /\ \A r \in S : r.priority <= scan
  BY <1>11, ScanIsGreatest
<1>14. CASE x < scan
  <2>1. PICK r \in S : r.priority = scan
    BY <1>10, <1>13, <1>14
  <2>2. scan \in Shared
    BY <1>10, <1>12, <1>13, <1>14, <2>1 DEF Covers
  <2> QED BY <2>2
<1>15. CASE scan < x
  <2>1. ~ \E r \in S : r.priority = x
    BY <1>10, <1>13, <1>15
  <2>2. x \in Shared
    BY <1>9, <1>10, <1>13, <1>15, <2>1 DEF Answers
  <2> QED BY <2>2
<1> QED BY <1>10, <1>13, <1>14, <1>15

-----------------------------------------------------------------------------
(***************************************************************************)
(* The theorems.                                                           *)
(***************************************************************************)

\* Each variable of CutTSS has its type.
THEOREM TypeCorrect == Spec => []TypeOK
BY InvAlways, TypesFollow, PTL

\* A subset lists the inserted rules that belong to it, every copy and by
\* descending priority, and maxPri is the priority of the first: whether the
\* construction (ConstructClassifier) or the updates (InsertRule, DeleteRule)
\* brought a rule there, and however many of them were deleted since.
THEOREM SubsetsExactAlways == Spec => []SubsetsExact
BY InvAlways, SubsetsFollow, PTL

\* The nodes of the trees hang together as they were constructed, and each leaf
\* has as many rules of those it does not tell from each other as were inserted
\* and come to it: the low ends of a rule (what InsertRule and DeleteRule
\* follow) lead to the node where ConstructCutTSSTrie put the rule by its whole
\* ranges, and lower_bound's deletion by priority leaves no leaf a rule short.
THEOREM TreeCorrect == Spec => []TreeInv
BY InvAlways, TreesFollow, PTL

\* A rule that a tree was constructed from stays reachable for every packet it
\* matches, whatever was inserted and deleted since: CalcCutsn cuts no range of
\* it, at no depth.
THEOREM BuiltServedAlways == Spec => []BuiltServed
BY InvAlways, BuiltFollow, PTL

\* ClassifyAPacket answers as a scan of the inserted rules that the packet is
\* led to would, though it passes over subsets by maxPri and stops a list at
\* its first match; where it does not, more than one rule has a priority of
\* these two.
THEOREM LookupServesAlways == Spec => []LookupServes
BY InvAlways, LookupsFollow, PTL

=============================================================================
