---------------------------- MODULE ApiValues_proofs ---------------------------
(***************************************************************************)
(* Theorems about what becomes of a shot in ApiGateway, for any JSON that  *)
(* tells the truth about it, any repetition and any number of processes:   *)
(* it is queued as it was measured, has one row, and is stored when it is  *)
(* plausible; and what 400, 422 and 500 are for.                           *)
(***************************************************************************)
EXTENDS ApiGateway_proofs, VendorContract_proofs, SequenceTheorems, WellFoundedInduction

-----------------------------------------------------------------------------
(* Messages and the rows they are read to.                                 *)

\* A delivery of shots in a wire format that each of them has.
IsDelivery(m) ==
    /\ m.format \in DOMAIN VendorOf
    /\ m.shots \in Seq(Shot)
    /\ \A i \in DOMAIN m.shots : m.format \in DOMAIN Body[m.shots[i]]

\* The vendors of the formats.
LEMMA FormatsHaveVendors ==
  /\ DOMAIN VendorOf = {"tp", "sm1", "sm2", "ps1", "ps2", "ps3"}
  /\ VendorOf["tp"] = "trackpro"
  /\ \A f \in {"sm1", "sm2"} : VendorOf[f] = "swingmetric"
  /\ \A f \in {"ps1", "ps2", "ps3"} : VendorOf[f] = "proswing"
BY DEF VendorOf

\* The idempotency key of a shot.
KeyOf(s) ==
    IF Truth[s].vendor = "trackpro" THEN Key("tp", IdsInKey(s), Null)
    ELSE IF Truth[s].vendor = "swingmetric"
           THEN Key("sm", IdsInKey(s), TimeBucket(Truth[s].at))
           ELSE Key("ps", IdsInKey(s), Null)

\* A row that says what was measured, under the shot's key.
RowFor(row, s) == Tells(row, s) /\ row.key = KeyOf(s)

\* The JSON of a delivery is about its shots.
LEMMA JsonIsAbout ==
  ASSUME NEW m, IsDelivery(m), NEW i \in DOMAIN m.shots
  PROVE  /\ m.shots[i] \in Shot /\ Truth[m.shots[i]] \in Measurement
         /\ VendorOf[m.format] = Truth[m.shots[i]].vendor
         /\ IsAbout(Json(m, i), Truth[m.shots[i]], DeviceOf[m.shots[i]], IdOf[m.shots[i]])
<1>1. m.shots[i] \in Shot /\ m.format \in DOMAIN Body[m.shots[i]]
  BY DEF IsDelivery
<1> QED
  BY <1>1, ShotsAreMeasured, BodiesTellTheTruth DEF Json

\* A row that says the same as the measurement, as one format has it, tells the shot.
LEMMA SaysTells ==
  ASSUME NEW row, NEW s, NEW f \in DOMAIN Body[s], SaysTheShot(row, Truth[s], Body[s][f])
  PROVE  Tells(row, s)
<1>1. SpellingsIn(Body[s][f]) \subseteq SpellingsOf(s)
  BY DEF SpellingsOf
<1>2. MayRead(row.club, Truth[s].club, SpellingsOf(s))
  BY <1>1 DEF SaysTheShot, MayRead
<1> QED
  BY <1>2 DEF SaysTheShot, Tells

\* What is accepted is read to a row for its shot.
LEMMA RowIsRead ==
  ASSUME NEW m, IsDelivery(m), WellFormed(m), NEW i \in DOMAIN m.shots
  PROVE  RowFor(RowOf(m, i), m.shots[i])
<1> DEFINE s == m.shots[i]
           body == Json(m, i)
           V == VendorOf[m.format]
<1>1. /\ s \in Shot /\ Truth[s] \in Measurement /\ V = Truth[s].vendor
      /\ IsAbout(body, Truth[s], DeviceOf[s], IdOf[s])
      /\ m.format \in DOMAIN Body[s] /\ body = Body[s][m.format]
  BY JsonIsAbout DEF IsDelivery, Json
<1>2. V \in {"trackpro", "swingmetric", "proswing"}
  BY FormatsHaveVendors DEF IsDelivery
<1>3. CASE V = "trackpro"
  <2>1. RowOf(m, i) = ParseTrackpro(body) /\ AcceptsTrackpro(body)
    BY <1>3, Zenon DEF RowOf, WellFormed
  <2>2. SaysTheShot(ParseTrackpro(body), Truth[s], body)
        /\ ParseTrackpro(body).key = Key("tp", PartsOf[IdOf[s]], Null)
    BY <1>1, <1>3, <2>1, TrackproIsRead, Zenon DEF AcceptsTrackpro, Accepts
  <2>3. KeyOf(s) = Key("tp", PartsOf[IdOf[s]], Null)
    BY <1>1, <1>3 DEF KeyOf, IdsInKey
  <2> QED
    BY <1>1, <2>1, <2>2, <2>3, SaysTells, Zenon DEF RowFor
<1>4. CASE V = "swingmetric"
  <2>1. V # "trackpro"
    BY <1>4
  <2>2. RowOf(m, i) = ParseSwingmetric(NormaliseShot(body))
        /\ Accepts(SwingmetricSchema, NormaliseShot(body))
    BY <1>4, <2>1, Zenon DEF RowOf, WellFormed
  <2>3. SaysTheShot(RowOf(m, i), Truth[s], body)
        /\ RowOf(m, i).key = Key("sm", PartsOf[Truth[s].user] \o PartsOf[DeviceOf[s]],
                                 TimeBucket(Truth[s].at))
    BY <1>1, <1>4, <2>2, SwingmetricIsRead, Zenon DEF Accepts
  <2>4. KeyOf(s) = Key("sm", PartsOf[Truth[s].user] \o PartsOf[DeviceOf[s]],
                       TimeBucket(Truth[s].at))
    BY <1>1, <1>4 DEF KeyOf, IdsInKey
  <2> QED
    BY <1>1, <2>3, <2>4, SaysTells, Zenon DEF RowFor
<1>5. CASE V = "proswing"
  <2>1. V # "trackpro" /\ V # "swingmetric"
    BY <1>5
  <2>2. RowOf(m, i) = ParseProswing(body) /\ AcceptsProswing(body)
    BY <2>1, Zenon DEF RowOf, WellFormed
  <2>3. SaysTheShot(RowOf(m, i), Truth[s], body)
        /\ RowOf(m, i).key = Key("ps", PartsOf[Truth[s].user] \o PartsOf[IdOf[s]], Null)
    <3>1. Truth[s].vendor = "proswing"
      BY <1>1, <1>5
    <3> HIDE DEF s, body
    <3> QED
      BY <1>1, <2>2, <3>1, ProswingIsRead
  <2>4. KeyOf(s) = Key("ps", PartsOf[Truth[s].user] \o PartsOf[IdOf[s]], Null)
    BY <1>1, <1>5 DEF KeyOf, IdsInKey
  <2> QED
    BY <1>1, <2>3, <2>4, SaysTells, Zenon DEF RowFor
<1> QED
  BY <1>2, <1>3, <1>4, <1>5

\* What follows the same sequence in the same sequence is the same.
LEMMA SameRest ==
  ASSUME NEW S, NEW a \in Seq(S), NEW b \in Seq(S), NEW c \in Seq(S), c \o a = c \o b
  PROVE  a = b
<1>1. Len(a) = Len(b)
  <2>1. Len(c \o a) = Len(c) + Len(a) /\ Len(c \o b) = Len(c) + Len(b)
    OBVIOUS
  <2> QED
    BY <2>1
<1>2. ASSUME NEW i \in 1 .. Len(a)
      PROVE  a[i] = b[i]
  <2>1. (c \o a)[Len(c) + i] = a[i]
    OBVIOUS
  <2>2. (c \o b)[Len(c) + i] = b[i]
    BY <1>1
  <2> QED
    BY <2>1, <2>2
<1> QED
  BY <1>1, <1>2, SeqEqual

\* Shots of one user with one key of this vendor have the same device, or id.
LEMMA SamePartner ==
  ASSUME NEW u \in Text, NEW a \in Text, NEW b \in Text,
         PartsOf[u] \o PartsOf[a] = PartsOf[u] \o PartsOf[b]
  PROVE  a = b
<1>1. PartsOf[a] = PartsOf[b]
  BY SameRest, TextsHaveParts
<1> QED
  BY <1>1, TextsHaveParts

\* An id of a vendor is one shot's: of all, or of the user's.
LEMMA IdsTellApart ==
  ASSUME NEW sc \in Scenario, NEW s \in ShotsOf(sc.traffic), NEW t \in ShotsOf(sc.traffic),
         Truth[s].vendor = Truth[t].vendor, IdOf[s] = IdOf[t],
         Truth[s].vendor = "trackpro"
         \/ (Truth[s].vendor = "proswing" /\ Truth[s].user = Truth[t].user)
  PROVE  s = t
BY ShotsAreToldApart

\* Whoever shares a key in a scenario is the same shot, its double, or one whose
\* identifiers are joined to the same key.
LEMMA KeysTellApart ==
  ASSUME NEW sc \in Scenario, NEW s \in ShotsOf(sc.traffic), NEW t \in ShotsOf(sc.traffic),
         s \in Shot, t \in Shot, KeyOf(s) = KeyOf(t)
  PROVE  s = t \/ DoubleEmit(s, t) \/ JoinsAlike(s, t)
<1>1. /\ Truth[s].vendor \in Vendor /\ Truth[t].vendor \in Vendor
      /\ Truth[s].user \in Text /\ Truth[t].user \in Text
      /\ {DeviceOf[s], DeviceOf[t], IdOf[s], IdOf[t]} \subseteq Text
  BY ShotsAreMeasured DEF Measurement
<1>2. /\ KeyOf(s).prefix = KeyOf(t).prefix /\ KeyOf(s).bucket = KeyOf(t).bucket
      /\ KeyOf(s).ids = IdsInKey(s) /\ KeyOf(t).ids = IdsInKey(t)
  BY DEF KeyOf, Key
<1>3. Truth[s].vendor = Truth[t].vendor /\ IdsInKey(s) = IdsInKey(t)
  BY <1>1, <1>2 DEF KeyOf, Key, Vendor
<1>4. CASE Truth[s].vendor = "trackpro"
  <2>1. PartsOf[IdOf[s]] = PartsOf[IdOf[t]]
    BY <1>3, <1>4 DEF IdsInKey
  <2>2. IdOf[s] = IdOf[t]
    BY <1>1, <2>1, TextsHaveParts
  <2> QED
    BY <1>3, <1>4, <2>2, IdsTellApart
<1>5. CASE Truth[s].vendor = "swingmetric"
  <2>1. Truth[s].at \div Second = Truth[t].at \div Second
    BY <1>2, <1>3, <1>5 DEF KeyOf, Key, TimeBucket
  <2>2. CASE Truth[s].user # Truth[t].user
    BY <1>3, <1>5, <2>1, <2>2 DEF JoinsAlike
  <2>3. CASE Truth[s].user = Truth[t].user
    <3>1. DeviceOf[s] = DeviceOf[t]
      BY <1>1, <1>3, <1>5, <2>3, SamePartner DEF IdsInKey
    <3> QED
      BY <1>3, <1>5, <2>1, <2>3, <3>1 DEF DoubleEmit
  <2> QED
    BY <2>2, <2>3
<1>6. CASE Truth[s].vendor = "proswing"
  <2>1. CASE Truth[s].user # Truth[t].user
    BY <1>3, <1>6, <2>1 DEF JoinsAlike
  <2>2. CASE Truth[s].user = Truth[t].user
    <3>1. IdOf[s] = IdOf[t]
      BY <1>1, <1>3, <1>6, <2>2, SamePartner DEF IdsInKey
    <3> QED
      BY <1>3, <1>6, <2>2, <3>1, IdsTellApart
  <2> QED
    BY <2>1, <2>2
<1> QED
  BY <1>1, <1>4, <1>5, <1>6 DEF Vendor

-----------------------------------------------------------------------------
(* Plausible shots.                                                        *)

\* A delivery that the pipe refuses has a shot that is implausible, far in feet, or
\* not what was agreed on.
LEMMA RefusedIsKnown ==
  ASSUME NEW m, IsDelivery(m), ~ WellFormed(m)
  PROVE  \E i \in DOMAIN m.shots :
            m.shots[i] \in Ill \/ ~ Plausible(m.shots[i]) \/ FarInFeet(Json(m, i))
<1> SUFFICES ASSUME \A i \in DOMAIN m.shots :
                       /\ m.shots[i] \notin Ill /\ Plausible(m.shots[i])
                       /\ ~ FarInFeet(Json(m, i))
             PROVE  WellFormed(m)
  OBVIOUS
<1> DEFINE V == VendorOf[m.format]
<1>1. ASSUME NEW i \in DOMAIN m.shots
      PROVE  /\ V = "trackpro" => AcceptsTrackpro(Json(m, i))
             /\ V = "swingmetric" => Accepts(SwingmetricSchema, NormaliseShot(Json(m, i)))
             /\ V = "proswing" => AcceptsProswing(Json(m, i))
  <2> DEFINE s == m.shots[i]
             body == Json(m, i)
  <2>1. IsAbout(body, Truth[s], DeviceOf[s], IdOf[s])
    BY <1>1, JsonIsAbout
  <2>2. Agreed(m.format, body, Truth[s])
    BY <1>1, OthersAreIll DEF IsDelivery, Json
  <2>3. IsPlausible(Truth[s]) /\ ~ FarInFeet(body)
    BY <1>1 DEF Plausible
  <2> HIDE DEF s, body
  <2>4. m.format \in {"tp", "sm1", "sm2", "ps1", "ps2", "ps3"}
    BY FormatsHaveVendors DEF IsDelivery
  <2>5. CASE m.format = "tp"
    <3>1. AcceptsTrackpro(body)
      BY <2>1, <2>2, <2>3, <2>5, TrackproIsAccepted
    <3> QED
      BY <2>5, <3>1, FormatsHaveVendors DEF body
  <2>6. CASE m.format \in {"sm1", "sm2"}
    <3>1. AgreedSwingmetric(body)
      BY <2>2, <2>6 DEF Agreed
    <3>2. Accepts(SwingmetricSchema, NormaliseShot(body))
      BY <2>1, <2>3, <3>1, SwingmetricIsAccepted
    <3> QED
      BY <2>6, <3>2, FormatsHaveVendors DEF body
  <2>7. CASE m.format \in {"ps1", "ps2", "ps3"}
    <3>1. AcceptsProswing(body)
      <4>1. CASE m.format = "ps1"
        BY <2>1, <2>2, <2>3, <4>1, V1IsAccepted
      <4>2. CASE m.format = "ps2"
        BY <2>1, <2>2, <2>3, <4>2, V2IsAccepted
      <4>3. CASE m.format = "ps3"
        BY <2>1, <2>2, <2>3, <4>3, V3IsAccepted
      <4> QED
        BY <2>7, <4>1, <4>2, <4>3
    <3> QED
      BY <2>7, <3>1, FormatsHaveVendors DEF body
  <2> QED
    BY <2>4, <2>5, <2>6, <2>7
<1>2. V \in {"trackpro", "swingmetric", "proswing"}
  BY FormatsHaveVendors DEF IsDelivery
<1> HIDE DEF V
<1>3. CASE V = "trackpro"
  BY <1>1, <1>3, Zenon DEF WellFormed, V
<1>4. CASE V = "swingmetric"
  <2>1. V # "trackpro"
    BY <1>4
  <2> QED
    BY <1>1, <1>4, <2>1, Zenon DEF WellFormed, V
<1>5. CASE V = "proswing"
  <2>1. V # "trackpro" /\ V # "swingmetric"
    BY <1>5
  <2> QED
    BY <1>1, <1>5, <2>1, Zenon DEF WellFormed, V
<1> QED
  BY <1>2, <1>3, <1>4, <1>5

\* The CHECKs of the table let through what is plausible.
LEMMA PlausiblePasses ==
  ASSUME NEW m \in Measure, NEW v \in Int, InRange(v, Believable[m])
  PROVE  Passes(Check[m], v)
<1> USE DEF Passes, InRange, Check, MpsToMps, MToM
<1>1. CASE m = "ball_speed"
  BY <1>1, BelievableIs
<1>2. CASE m = "club_speed"
  BY <1>2, BelievableIs
<1>3. CASE m = "launch"
  BY <1>3, BelievableIs
<1>4. CASE m = "spin"
  BY <1>4, BelievableIs
<1>5. CASE m = "carry"
  BY <1>5, BelievableIs
<1>6. CASE m = "total"
  BY <1>6, BelievableIs
<1>7. CASE m = "deviation"
  BY <1>7, BelievableIs
<1> QED
  BY <1>1, <1>2, <1>3, <1>4, <1>5, <1>6, <1>7 DEF Measure

\* A row that tells a plausible shot with a club can be stored.
LEMMA PlausibleIsStorable ==
  ASSUME NEW s \in Shot, Plausible(s), ClubIsReadable(s), NEW row, Tells(row, s)
  PROVE  Storable(row)
<1>1. Truth[s] \in Measurement
  BY ShotsAreMeasured
<1>2. row.measures = Truth[s].measures
  BY DEF Tells
<1>3. row.club \in ClubCode
  <2>1. row.club = Truth[s].club \/ row.club = Unknown
    BY DEF Tells, MayRead, ClubIsReadable
  <2>2. Truth[s].club \in ClubCode /\ Unknown \in ClubCode
    BY <1>1 DEF Measurement, ClubCode
  <2> QED
    BY <2>1, <2>2
<1>4. ASSUME NEW m \in Measure, row.measures[m] # Null
      PROVE  Passes(Check[m], row.measures[m])
  <2>1. row.measures[m] \in Int
    BY <1>1, <1>2, <1>4 DEF Measurement
  <2>2. InRange(row.measures[m], Believable[m])
    BY <1>2, <1>4 DEF Plausible, IsPlausible
  <2> QED
    BY <2>1, <2>2, PlausiblePasses
<1> QED
  BY <1>3, <1>4 DEF Storable

-----------------------------------------------------------------------------
(* The invariant.                                                          *)

\* The messages on the wire are those of a scenario, whenever they were signed.
TrafficInv ==
    \E sc \in Scenario :
        /\ traffic = sc.traffic
        /\ \A m \in wire : \E n \in traffic : m.format = n.format /\ m.shots = n.shots

\* The rows of the deliveries that the pipe lets through.
Accepted == {m \in wire : m.format # "query" /\ WellFormed(m)}
WireRows == UNION {{RowOf(m, i) : i \in DOMAIN m.shots} : m \in Accepted}

\* Every row is one of them; those that failed cannot be stored, those that are
\* stored differ in their keys.
RowsInv ==
    /\ jobs \subseteq WireRows /\ failed \subseteq WireRows /\ table \in Seq(WireRows)
    /\ \A row \in failed : ~ Storable(row)
    /\ \A i, j \in DOMAIN table :
          table[i].vendor = table[j].vendor /\ table[i].key = table[j].key => i = j

\* The keys of all rows there are: the queue holds no other.
SeenKeys == {row.key : row \in Seen}
KeysInv == KeysInQueue \subseteq SeenKeys

\* A delivery with a shot that the parser or the queue throws at.
Fails(m) ==
    \E i \in DOMAIN m.shots : ~ DateExists(RowOf(m, i)) \/ JobIdIsRefused(RowOf(m, i))

\* A delivery of shots in the window.
OnTime(m, at) == \A i \in DOMAIN m.shots : Timely(m.shots[i], at)

\* Why an answer has its status.
Explained(a) ==
    /\ a.status = 202 => a.to \in Accepted /\ ~ Fails(a.to)
    /\ a.status = 400 => a.to.format # "query" /\ ~ WellFormed(a.to)
    /\ a.status = 422 => ~ OnTime(a.to, a.at)
    /\ a.status = 500 => a.broken \/ (a.to \in Accepted /\ Fails(a.to))

\* Every answer is explained; after a 202 the keys of all shots are there.
ExplainedInv ==
    \A a \in answers :
        /\ a.to \in wire /\ Explained(a)
        /\ a.status = 202 => \A i \in DOMAIN a.to.shots : RowOf(a.to, i).key \in SeenKeys

\* An answer to a delivery in the window, that may have brought the row.
Brings(a, row) ==
    /\ a.status \in {202, 500, 503}
    /\ \E i \in DOMAIN a.to.shots : Tells(row, a.to.shots[i])
    /\ OnTime(a.to, a.at)

\* Every row has one.
WindowInv == \A row \in Seen : \E a \in answers : Brings(a, row)

\* The invariant behind the rows and the reasons of answers.
ValueInv == TrafficInv /\ RowsInv /\ KeysInv /\ ExplainedInv /\ WindowInv

\* It holds at first.
LEMMA ValueInvInit == Init => ValueInv
<1> SUFFICES ASSUME Init PROVE ValueInv
  OBVIOUS
<1>1. /\ wire = {} /\ jobs = {} /\ kept = {} /\ table = <<>> /\ failed = {} /\ answers = {}
      /\ \E sc \in Scenario : traffic = sc.traffic
  BY DEF Init
<1>2. TrafficInv
  BY <1>1 DEF TrafficInv
<1>3. RowsInv
  BY <1>1 DEF RowsInv
<1>4. KeysInv /\ ExplainedInv /\ WindowInv
  BY <1>1 DEF KeysInv, KeysInQueue, ExplainedInv, WindowInv, Seen
<1> QED
  BY <1>2, <1>3, <1>4 DEF ValueInv

\* What is on the wire and is no query is a delivery, of shots in the traffic.
LEMMA SentIsDelivery ==
  ASSUME NEW sc \in Scenario, traffic = sc.traffic, NEW m \in wire,
         \E n \in traffic : m.format = n.format /\ m.shots = n.shots, m.format # "query"
  PROVE  IsDelivery(m)
<1>1. PICK n \in sc.traffic : m.format = n.format /\ m.shots = n.shots
  OBVIOUS
<1>2. /\ n.format \in DOMAIN VendorOf /\ n.shots \in Seq(Shot)
      /\ \A i \in DOMAIN n.shots : n.format \in DOMAIN Body[n.shots[i]]
  BY <1>1, ScenariosAreStarts, Zenon
<1> QED
  BY <1>1, <1>2 DEF IsDelivery

LEMMA Deliveries ==
  ASSUME TrafficInv, NEW m \in wire, m.format # "query"
  PROVE  IsDelivery(m)
BY SentIsDelivery DEF TrafficInv

\* The shots on the wire are told apart.
LEMMA SentToldApart ==
  ASSUME TrafficInv, NEW s \in ShotsSent, NEW t \in ShotsSent, s \in Shot, t \in Shot
  PROVE  /\ (\A f \in {"vendor", "user", "at", "measures"} : Truth[s][f] = Truth[t][f])
            => s = t
         /\ KeyOf(s) = KeyOf(t) => s = t \/ DoubleEmit(s, t) \/ JoinsAlike(s, t)
<1>1. PICK sc \in Scenario :
         /\ traffic = sc.traffic
         /\ \A m \in wire : \E n \in traffic : m.format = n.format /\ m.shots = n.shots
  BY DEF TrafficInv
<1>2. ShotsSent \subseteq ShotsOf(sc.traffic)
  BY <1>1 DEF ShotsSent, ShotsOf
<1>3. s \in ShotsOf(sc.traffic) /\ t \in ShotsOf(sc.traffic)
  BY <1>2
<1> QED
  BY <1>3, KeysTellApart, ShotsAreToldApart

\* A row of the wire is for a shot on it.
LEMMA RowsHaveShots ==
  ASSUME TrafficInv, NEW row \in WireRows
  PROVE  \E s \in ShotsSent : s \in Shot /\ RowFor(row, s)
<1>1. PICK m \in Accepted : row \in {RowOf(m, i) : i \in DOMAIN m.shots}
  BY DEF WireRows
<1>2. PICK i \in DOMAIN m.shots : row = RowOf(m, i)
  BY <1>1
<1>3. m \in wire /\ m.format # "query" /\ WellFormed(m)
  BY DEF Accepted
<1>4. IsDelivery(m)
  BY <1>3, Deliveries
<1>5. RowFor(RowOf(m, i), m.shots[i]) /\ m.shots[i] \in Shot
  BY <1>3, <1>4, RowIsRead, JsonIsAbout
<1>6. m.shots[i] \in ShotsSent
  BY <1>3 DEF ShotsSent, ShotsOf
<1> QED
  BY <1>2, <1>5, <1>6

-----------------------------------------------------------------------------
(* What a request does.                                                    *)

\* A row is out of the window if its shot is.
LEMMA SkewIsUntimely ==
  ASSUME TrafficInv, clock \in Int, NEW m \in Accepted
  PROVE  /\ (\A i \in DOMAIN m.shots : ~ HasExcessiveClockSkew(RowOf(m, i))) => OnTime(m, clock)
         /\ (\E i \in DOMAIN m.shots : HasExcessiveClockSkew(RowOf(m, i))) => ~ OnTime(m, clock)
<1>1. IsDelivery(m) /\ WellFormed(m)
  BY Deliveries DEF Accepted
<1>2. ASSUME NEW i \in DOMAIN m.shots
      PROVE  HasExcessiveClockSkew(RowOf(m, i)) <=> ~ Timely(m.shots[i], clock)
  <2>1. RowOf(m, i).at = Truth[m.shots[i]].at
    BY <1>1, RowIsRead DEF RowFor, Tells
  <2>2. Truth[m.shots[i]].at \in Int /\ MaxPast \in Nat /\ MaxFuture \in Nat
    BY <1>1, JsonIsAbout, WindowsAreNumbers DEF Measurement
  <2> QED
    BY <2>1, <2>2 DEF HasExcessiveClockSkew, Timely
<1> QED
  BY <1>2 DEF OnTime

\* An answer, with what it says of itself.
Gets(a, m, status, broken) ==
    /\ answers' = answers \cup {a}
    /\ a.to = m /\ a.at = clock /\ a.status = status /\ a.broken = broken

\* Answer gives one.
LEMMA AnswerSays ==
  ASSUME NEW m, NEW problem, NEW broken, Answer(m, problem, broken)
  PROVE  \E a : Gets(a, m, problem.status, broken)
<1> DEFINE a == [to |-> m, at |-> clock, status |-> problem.status,
                 code |-> problem.code, broken |-> broken]
<1>1. answers' = answers \cup {a}
  BY DEF Answer
<1>2. a.to = m /\ a.at = clock /\ a.status = problem.status /\ a.broken = broken
  BY Zenon
<1> HIDE DEF a
<1> QED
  BY <1>1, <1>2 DEF Gets

\* Some of the new jobs are queued, and nothing else happens to the rows.
Queues(m, some) ==
    /\ some \subseteq NewJobs(Rows(m)) /\ jobs' = jobs \cup some
    /\ some # {} => m \in Accepted /\ OnTime(m, clock)
    /\ UNCHANGED <<traffic, wire, kept, table, failed>>

\* What comes of a request: an answer that is explained, 202 only when all is queued.
Explains(m) ==
    \E a, some :
        /\ answers' = answers \cup {a} /\ a.to = m /\ a.at = clock
        /\ Explained(a) /\ Queues(m, some)
        /\ a.status = 202 => some = NewJobs(Rows(m))
        /\ some # {} => a.status \in {202, 500, 503}

\* A status that needs no explanation, or has one, when nothing is queued.
Excused(m, status) ==
    /\ status # 202
    /\ status = 400 => m.format # "query" /\ ~ WellFormed(m)
    /\ status = 422 => ~ OnTime(m, clock)
    /\ status = 500 => m \in Accepted /\ Fails(m)

\* The statuses that are excused, and by what.
LEMMA WhatExcuses ==
  ASSUME NEW m, NEW status
  PROVE  /\ status \in {200, 401, 429} => Excused(m, status)
         /\ status = 400 /\ m.format # "query" /\ ~ WellFormed(m) => Excused(m, status)
         /\ status = 422 /\ ~ OnTime(m, clock) => Excused(m, status)
         /\ status = 500 /\ m \in Accepted /\ Fails(m) => Excused(m, status)
BY DEF Excused

\* An answer is explained by it, in particular a refusal.
LEMMA ExcuseExplains ==
  ASSUME NEW m, NEW problem, Answer(m, problem, FALSE), Queues(m, {}),
         Excused(m, problem.status)
  PROVE  Explains(m)
<1>1. PICK a : Gets(a, m, problem.status, FALSE)
  BY AnswerSays
<1>2. a.to = m /\ a.at = clock /\ a.status = problem.status
  BY <1>1 DEF Gets
<1>3. Explained(a) /\ a.status # 202
  BY <1>2, Zenon DEF Explained, Excused
<1>4. answers' = answers \cup {a}
  BY <1>1 DEF Gets
<1> QED
  BY <1>2, <1>3, <1>4, Zenon DEF Explains

LEMMA RefusalExplains ==
  ASSUME NEW m, NEW exception, Refuse(m, exception), Excused(m, Catch(exception).status)
  PROVE  Explains(m)
BY ExcuseExplains DEF Refuse, Queues

\* A status that an accepted delivery may have when these jobs are queued.
Due(m, status, broken, some) ==
    /\ m \in Accepted /\ Queues(m, some)
    /\ status \in {202, 500, 503}
    /\ status = 500 => broken \/ Fails(m)
    /\ status = 202 => ~ Fails(m)
    /\ status = 202 => some = NewJobs(Rows(m))

\* The statuses that are due, and when.
LEMMA WhatIsDue ==
  ASSUME NEW m \in Accepted, NEW status, NEW broken, NEW some, Queues(m, some)
  PROVE  /\ status = 202 /\ some = NewJobs(Rows(m)) /\ ~ Fails(m)
            => Due(m, status, broken, some)
         /\ status = 503 => Due(m, status, broken, some)
         /\ status = 500 /\ (broken \/ Fails(m)) => Due(m, status, broken, some)
BY DEF Due

\* An answer is explained by it.
LEMMA AnswerExplains ==
  ASSUME NEW m, NEW problem, NEW broken, Answer(m, problem, broken),
         NEW some, Due(m, problem.status, broken, some)
  PROVE  Explains(m)
<1>1. PICK a : Gets(a, m, problem.status, broken)
  BY AnswerSays
<1>2. a.to = m /\ a.at = clock /\ a.status = problem.status /\ a.broken = broken
  BY <1>1 DEF Gets
<1>3. Explained(a)
  <2>1. a.status # 400 /\ a.status # 422
    BY <1>2 DEF Due
  <2> QED
    BY <1>2, <2>1 DEF Explained, Due
<1>4. /\ Queues(m, some) /\ (a.status = 202 => some = NewJobs(Rows(m)))
      /\ some # {} => a.status \in {202, 500, 503}
  BY <1>2 DEF Due
<1>5. answers' = answers \cup {a}
  BY <1>1 DEF Gets
<1>6. /\ answers' = answers \cup {a} /\ a.to = m /\ a.at = clock
      /\ Explained(a) /\ Queues(m, some)
      /\ a.status = 202 => some = NewJobs(Rows(m))
      /\ some # {} => a.status \in {202, 500, 503}
  BY <1>2, <1>3, <1>4, <1>5
<1> QED
  BY <1>6 DEF Explains

\* The handlers, by what comes of them.
LEMMA HandlersExplain ==
  ASSUME TrafficInv, clock \in Int, NEW p \in Api, NEW m \in wire, Handle(p, m)
  PROVE  Explains(m)
<1>1. CASE Throttled(p, m)
  <2>1. Refuse(m, Http(429))
    BY <1>1 DEF Throttled
  <2>2. Excused(m, Catch(Http(429)).status)
    <3>1. Catch(Http(429)).status = 429
      BY Statuses
    <3> QED
      BY <3>1, WhatExcuses
  <2> QED
    BY <2>1, <2>2, RefusalExplains
<1>2. ASSUME Refuse(m, UnauthorizedException)
      PROVE  Explains(m)
  <2>1. Excused(m, Catch(UnauthorizedException).status)
    <3>1. Catch(UnauthorizedException).status = 401
      BY Statuses
    <3> QED
      BY <3>1, WhatExcuses
  <2> QED
    BY <1>2, <2>1, RefusalExplains
<1>3. CASE Unauthorised(p, m)
  BY <1>2, <1>3 DEF Unauthorised
<1>4. CASE Malformed(p, m)
  <2>1. Refuse(m, PayloadValidationFailed) /\ m.format # "query" /\ ~ WellFormed(m)
    BY <1>4 DEF Malformed, Admitted, Webhook
  <2>2. Excused(m, Catch(PayloadValidationFailed).status)
    <3>1. Catch(PayloadValidationFailed).status = 400
      BY Statuses
    <3> QED
      BY <2>1, <3>1, WhatExcuses
  <2> QED
    BY <2>1, <2>2, RefusalExplains
<1>5. CASE Unparsable(p, m)
  <2>1. Refuse(m, Unhandled) /\ m \in Accepted /\ Fails(m)
    BY <1>5 DEF Unparsable, Admitted, Webhook, Accepted, Fails
  <2>2. Excused(m, Catch(Unhandled).status)
    <3>1. Catch(Unhandled).status = 500
      BY Statuses
    <3> QED
      BY <2>1, <3>1, WhatExcuses
  <2> QED
    BY <2>1, <2>2, RefusalExplains
<1>6. CASE Skewed(p, m)
  <2>1. /\ Refuse(m, HttpCoded(422, "CLOCK_SKEW_EXCESSIVE", 0)) /\ m \in Accepted
        /\ \E i \in DOMAIN m.shots : HasExcessiveClockSkew(RowOf(m, i))
    BY <1>6 DEF Skewed, Parsed, Admitted, Webhook, Accepted
  <2>2. Excused(m, Catch(HttpCoded(422, "CLOCK_SKEW_EXCESSIVE", 0)).status)
    <3>1. Catch(HttpCoded(422, "CLOCK_SKEW_EXCESSIVE", 0)).status = 422
      BY Statuses
    <3>2. ~ OnTime(m, clock)
      BY <2>1, SkewIsUntimely
    <3> QED
      BY <3>1, <3>2, WhatExcuses
  <2> QED
    BY <2>1, <2>2, RefusalExplains
<1>7. ASSUME InWindow(p, m)
      PROVE  /\ m \in Accepted /\ OnTime(m, clock)
             /\ \A i \in DOMAIN m.shots : DateExists(RowOf(m, i))
  <2>1. /\ m \in Accepted /\ \A i \in DOMAIN m.shots : DateExists(RowOf(m, i))
        /\ \A i \in DOMAIN m.shots : ~ HasExcessiveClockSkew(RowOf(m, i))
    BY <1>7 DEF InWindow, Parsed, Admitted, Webhook, Accepted
  <2> QED
    BY <2>1, SkewIsUntimely
<1>8. CASE Accept(p, m)
  <2>1. /\ m \in Accepted /\ OnTime(m, clock) /\ ~ Fails(m)
        /\ Answer(m, Problem(202, "", 0), FALSE)
    BY <1>7, <1>8 DEF Accept, Fails
  <2>2. Queues(m, NewJobs(Rows(m)))
    BY <1>8, <2>1 DEF Accept, Queues
  <2>3. Due(m, Problem(202, "", 0).status, FALSE, NewJobs(Rows(m)))
    <3>1. Problem(202, "", 0).status = 202
      BY Statuses
    <3> QED
      BY <2>1, <2>2, <3>1, WhatIsDue
  <2> QED
    BY <2>1, <2>3, AnswerExplains
<1>9. CASE QueueIsFull(p, m)
  <2> DEFINE full == Catch(HttpCoded(503, "SERVICE_UNAVAILABLE", 30))
  <2>1. m \in Accepted /\ OnTime(m, clock) /\ Answer(m, full, FALSE)
    BY <1>7, <1>9 DEF QueueIsFull
  <2>2. PICK some \in SUBSET NewJobs(Rows(m)) : jobs' = jobs \cup some
    BY <1>9 DEF QueueIsFull
  <2>3. Queues(m, some)
    BY <1>9, <2>1, <2>2 DEF QueueIsFull, Queues
  <2>4. Due(m, full.status, FALSE, some)
    <3>1. full.status = 503
      BY Statuses
    <3> QED
      BY <2>1, <2>3, <3>1, WhatIsDue
  <2> QED
    BY <2>1, <2>4, AnswerExplains
<1>10. CASE QueueBreaks(p, m)
  <2>1. m \in Accepted /\ OnTime(m, clock) /\ Answer(m, Catch(Unhandled), TRUE)
    BY <1>7, <1>10 DEF QueueBreaks
  <2>2. PICK some \in SUBSET NewJobs(Rows(m)) : jobs' = jobs \cup some
    BY <1>10 DEF QueueBreaks
  <2>3. Queues(m, some)
    BY <1>10, <2>1, <2>2 DEF QueueBreaks, Queues
  <2>4. Due(m, Catch(Unhandled).status, TRUE, some)
    <3>1. Catch(Unhandled).status = 500
      BY Statuses
    <3> QED
      BY <2>1, <2>3, <3>1, WhatIsDue
  <2> QED
    BY <2>1, <2>4, AnswerExplains
<1>11. CASE Query(p, m)
  <2>1. CASE InternalAdmits(m)
    <3>1. Answer(m, Problem(200, "", 0), FALSE)
      BY <1>11, <2>1 DEF Query
    <3>2. Queues(m, {})
      BY <1>11, <2>1 DEF Query, Queues
    <3>3. Problem(200, "", 0).status = 200
      BY Statuses
    <3>4. Excused(m, Problem(200, "", 0).status)
      BY <3>3, WhatExcuses
    <3> QED
      BY <3>1, <3>2, <3>4, ExcuseExplains
  <2>2. CASE ~ InternalAdmits(m)
    BY <1>2, <1>11, <2>2 DEF Query
  <2> QED
    BY <2>1, <2>2
<1>12. CASE IdIsRefused(p, m)
  <2>1. m \in Accepted /\ OnTime(m, clock) /\ Fails(m) /\ Answer(m, Catch(Unhandled), FALSE)
    BY <1>7, <1>12 DEF IdIsRefused, Fails
  <2>2. PICK some \in SUBSET NewJobs(Rows(m)) : jobs' = jobs \cup some
    BY <1>12 DEF IdIsRefused
  <2>3. Queues(m, some)
    BY <1>12, <2>1, <2>2 DEF IdIsRefused, Queues
  <2>4. Due(m, Catch(Unhandled).status, FALSE, some)
    <3>1. Catch(Unhandled).status = 500
      BY Statuses
    <3> QED
      BY <2>1, <2>3, <3>1, WhatIsDue
  <2> QED
    BY <2>1, <2>4, AnswerExplains
<1> QED
  BY <1>1, <1>3, <1>4, <1>5, <1>6, <1>8, <1>9, <1>10, <1>11, <1>12 DEF Handle

\* A set of natural numbers has a least one.
LEMMA LeastIndex ==
  ASSUME NEW T, T \subseteq Nat, T # {}
  PROVE  \E n \in T : \A m \in T : n <= m
<1>1. PICK n \in T : \A m \in T : <<m, n>> \notin OpToRel(<, Nat)
  BY NatLessThanWellFounded, WFMin, Zenon
<1>2. \A m \in T : ~ (m < n)
  BY <1>1, Zenon DEF OpToRel
<1> QED
  BY <1>2

\* After a delivery all its keys are in the queue, or were.
LEMMA NewJobsCover ==
  ASSUME NEW m, m.shots \in Seq(Shot), ~ Fails(m), NEW i \in DOMAIN m.shots
  PROVE  \/ RowOf(m, i).key \in KeysInQueue
         \/ \E row \in NewJobs(Rows(m)) : row.key = RowOf(m, i).key
<1> DEFINE rows == Rows(m)
           T == {k \in DOMAIN rows : rows[k].key = rows[i].key}
<1>1. DOMAIN rows = DOMAIN m.shots /\ \A k \in DOMAIN rows : rows[k] = RowOf(m, k)
  BY DEF Rows
<1>2. DOMAIN rows = 1 .. Len(m.shots) /\ Len(m.shots) \in Nat
  BY <1>1
<1> HIDE DEF rows
<1>3. PICK k \in T : \A h \in T : k <= h
  <2>1. T \subseteq Nat /\ T # {}
    BY <1>1, <1>2
  <2> QED
    BY <2>1, LeastIndex
<1>4. k \in 1 .. Len(m.shots) /\ rows[k].key = rows[i].key
  BY <1>2
<1>5. \A h \in 1 .. (k - 1) : rows[h].key # rows[k].key
  BY <1>2, <1>3, <1>4
<1>6. rows[i].key \notin KeysInQueue => rows[k] \in NewJobs(rows)
  <2>1. ~ JobIdIsRefused(rows[k])
    BY <1>1, <1>2, <1>4 DEF Fails
  <2> QED
    BY <1>2, <1>4, <1>5, <2>1 DEF NewJobs
<1> QED
  BY <1>1, <1>4, <1>6 DEF rows

\* New jobs are rows of the delivery.
LEMMA NewJobsAreRows ==
  ASSUME NEW m \in Accepted
  PROVE  NewJobs(Rows(m)) \subseteq WireRows
<1>1. NewJobs(Rows(m)) \subseteq {RowOf(m, i) : i \in DOMAIN m.shots}
  BY DEF NewJobs, Rows
<1> QED
  BY <1>1 DEF WireRows

-----------------------------------------------------------------------------
(* A step keeps the invariant.                                             *)

\* While messages stay on the wire, rows stay and answers stay explained.
LEMMA WireGrows ==
  ASSUME wire \subseteq wire'
  PROVE  /\ Accepted \subseteq Accepted' /\ WireRows \subseteq WireRows'
         /\ \A a : Explained(a) => Explained(a)'
<1>1. Accepted \subseteq Accepted'
  BY DEF Accepted
<1>2. WireRows \subseteq WireRows'
  BY <1>1 DEF WireRows
<1>3. ASSUME NEW a, Explained(a)
      PROVE  Explained(a)'
  BY <1>1, <1>3, Zenon DEF Explained
<1> QED
  BY <1>1, <1>2, <1>3

\* While the keys stay, so does what is said of the answers.
LEMMA AnswersStay ==
  ASSUME ExplainedInv, wire \subseteq wire', SeenKeys \subseteq SeenKeys', answers' = answers
  PROVE  ExplainedInv'
<1> SUFFICES ASSUME NEW a \in answers
             PROVE  /\ a.to \in wire' /\ Explained(a)'
                    /\ a.status = 202 => \A i \in DOMAIN a.to.shots :
                          RowOf(a.to, i).key \in SeenKeys'
  BY DEF ExplainedInv
<1> QED
  BY WireGrows DEF ExplainedInv

\* A request.
LEMMA HandleKeepsValues ==
  ASSUME ValueInv, clock \in Int, NEW p \in Api, NEW m \in wire, Handle(p, m)
  PROVE  ValueInv'
<1>1. PICK a, some :
         /\ answers' = answers \cup {a} /\ a.to = m /\ a.at = clock
         /\ Explained(a) /\ Queues(m, some)
         /\ a.status = 202 => some = NewJobs(Rows(m))
         /\ some # {} => a.status \in {202, 500, 503}
  BY HandlersExplain DEF Explains, ValueInv
<1>2. /\ jobs' = jobs \cup some /\ some \subseteq NewJobs(Rows(m))
      /\ some # {} => m \in Accepted /\ OnTime(m, clock)
      /\ traffic' = traffic /\ wire' = wire /\ kept' = kept /\ table' = table
      /\ failed' = failed
  BY <1>1 DEF Queues
<1>3. TrafficInv'
  BY <1>2 DEF ValueInv, TrafficInv
<1>4. WireRows' = WireRows /\ some \subseteq WireRows
  BY <1>2, NewJobsAreRows DEF WireRows, Accepted
<1>5. RowsInv'
  BY <1>2, <1>4 DEF ValueInv, RowsInv
<1>6. Seen' = Seen \cup some
  BY <1>2 DEF Seen
<1>7. SeenKeys \subseteq SeenKeys' /\ {row.key : row \in some} \subseteq SeenKeys'
  BY <1>6 DEF SeenKeys
<1>8. KeysInQueue' = KeysInQueue \cup {row.key : row \in some}
  BY <1>2 DEF KeysInQueue
<1>9. KeysInv'
  BY <1>7, <1>8 DEF ValueInv, KeysInv
<1>10. ASSUME a.status = 202, NEW i \in DOMAIN m.shots
       PROVE  RowOf(m, i).key \in SeenKeys'
  <2>1. m \in Accepted /\ ~ Fails(m) /\ some = NewJobs(Rows(m))
    BY <1>1, <1>10 DEF Explained
  <2>2. IsDelivery(m)
    BY <2>1, Deliveries DEF Accepted, ValueInv
  <2>3. \/ RowOf(m, i).key \in KeysInQueue
        \/ \E row \in some : row.key = RowOf(m, i).key
    BY <1>10, <2>1, <2>2, NewJobsCover DEF IsDelivery
  <2> QED
    BY <1>7, <2>3 DEF ValueInv, KeysInv
<1>11. ExplainedInv'
  <2> SUFFICES ASSUME NEW b \in answers'
               PROVE  /\ b.to \in wire' /\ Explained(b)'
                      /\ b.status = 202 => \A i \in DOMAIN b.to.shots :
                            RowOf(b.to, i).key \in SeenKeys'
    BY DEF ExplainedInv
  <2>1. CASE b = a
    BY <1>1, <1>2, <1>10, <2>1, WireGrows
  <2>2. CASE b \in answers
    BY <1>2, <1>7, <2>2, WireGrows DEF ValueInv, ExplainedInv
  <2> QED
    BY <1>1, <2>1, <2>2
<1>12. ASSUME NEW row \in some
       PROVE  Brings(a, row)
  <2>1. /\ m \in Accepted /\ OnTime(m, clock) /\ a.status \in {202, 500, 503}
        /\ \E i \in DOMAIN m.shots : row = RowOf(m, i)
    <3>1. \A r \in NewJobs(Rows(m)) : \E i \in DOMAIN m.shots : r = RowOf(m, i)
      BY DEF NewJobs, Rows
    <3> QED
      BY <1>1, <1>2, <1>12, <3>1
  <2>2. IsDelivery(m) /\ WellFormed(m)
    BY <2>1, Deliveries DEF Accepted, ValueInv
  <2>3. \E i \in DOMAIN m.shots : Tells(row, m.shots[i])
    BY <2>1, <2>2, RowIsRead DEF RowFor
  <2> QED
    BY <1>1, <2>1, <2>3 DEF Brings
<1>13. WindowInv'
  BY <1>1, <1>6, <1>12 DEF ValueInv, WindowInv
<1> QED
  BY <1>3, <1>5, <1>9, <1>11, <1>13 DEF ValueInv

\* A message that is sent.
LEMMA SendKeepsValues ==
  ASSUME ValueInv, NEW m \in traffic, Send(m)
  PROVE  ValueInv'
<1> DEFINE sent == [m EXCEPT !.stamp = IF env.mode = "hmac" THEN clock ELSE @]
<1>1. /\ wire' = wire \cup {sent} /\ traffic' = traffic
      /\ jobs' = jobs /\ kept' = kept /\ table' = table /\ failed' = failed
      /\ answers' = answers
  BY DEF Send
<1>2. PICK sc \in Scenario :
         /\ traffic = sc.traffic
         /\ \A n \in wire : \E k \in traffic : n.format = k.format /\ n.shots = k.shots
  BY DEF ValueInv, TrafficInv
<1>3. m = [field \in DOMAIN m |-> m[field]] /\ {"format", "shots"} \subseteq DOMAIN m
  BY <1>2, ScenariosAreStarts, Zenon
<1>4. sent.format = m.format /\ sent.shots = m.shots
  BY <1>3, Zenon
<1> HIDE DEF sent
<1>5. TrafficInv'
  BY <1>1, <1>2, <1>4 DEF TrafficInv
<1>6. wire \subseteq wire' /\ WireRows \subseteq WireRows'
  BY <1>1, WireGrows
<1>7. Seen' = Seen
  BY <1>1 DEF Seen
<1>8. SeenKeys' = SeenKeys /\ KeysInQueue' = KeysInQueue
  BY <1>1, <1>7 DEF SeenKeys, KeysInQueue
<1>9. table' \in Seq(WireRows')
  BY <1>1, <1>6 DEF ValueInv, RowsInv
<1>10. RowsInv'
  BY <1>1, <1>6, <1>9 DEF ValueInv, RowsInv
<1>11. WindowInv'
  BY <1>1, <1>7 DEF ValueInv, WindowInv
<1> QED
  BY <1>1, <1>5, <1>6, <1>8, <1>10, <1>11, AnswersStay DEF ValueInv, KeysInv

\* A job.
LEMMA ProcessKeepsValues ==
  ASSUME ValueInv, NEW j \in jobs, Process(j)
  PROVE  ValueInv'
<1>1. /\ jobs' = jobs \ {j} /\ kept' = kept \cup {j.key}
      /\ traffic' = traffic /\ wire' = wire /\ answers' = answers
  BY DEF Process
<1>2. TrafficInv'
  BY <1>1 DEF ValueInv, TrafficInv
<1>3. WireRows' = WireRows /\ j \in WireRows /\ table \in Seq(WireRows)
  BY <1>1 DEF ValueInv, RowsInv, WireRows, Accepted
<1>4. RowsInv' /\ SeenKeys \subseteq SeenKeys'
  <2>1. CASE KeyStored(j) /\ table' = table /\ failed' = failed
    <3>1. RowsInv'
      BY <1>1, <1>3, <2>1 DEF ValueInv, RowsInv
    <3>2. Seen \subseteq Seen' \cup {j}
      BY <1>1, <2>1 DEF Seen
    <3>3. PICK i \in DOMAIN table : table[i].key = j.key
      BY <2>1 DEF KeyStored
    <3>4. table[i] \in Seen'
      BY <2>1 DEF Seen
    <3> QED
      BY <3>1, <3>2, <3>3, <3>4 DEF SeenKeys
  <2>2. CASE ~ KeyStored(j) /\ table' = Append(table, j) /\ failed' = failed
    <3>1. /\ table' \in Seq(WireRows) /\ Len(table) \in Nat
          /\ DOMAIN table = 1 .. Len(table) /\ DOMAIN table' = 1 .. (Len(table) + 1)
          /\ \A i \in DOMAIN table : table'[i] = table[i]
          /\ table'[Len(table) + 1] = j
      BY <1>3, <2>2
    <3>2. ASSUME NEW i \in DOMAIN table', NEW k \in DOMAIN table',
                 table'[i].vendor = table'[k].vendor, table'[i].key = table'[k].key
          PROVE  i = k
      <4>1. CASE i \in DOMAIN table /\ k \in DOMAIN table
        BY <3>1, <3>2, <4>1 DEF ValueInv, RowsInv
      <4>2. CASE i = Len(table) + 1 /\ k \in DOMAIN table
        BY <2>2, <3>1, <3>2, <4>2 DEF KeyStored
      <4>3. CASE i \in DOMAIN table /\ k = Len(table) + 1
        BY <2>2, <3>1, <3>2, <4>3 DEF KeyStored
      <4>4. CASE i = Len(table) + 1 /\ k = Len(table) + 1
        BY <4>4
      <4> QED
        BY <3>1, <4>1, <4>2, <4>3, <4>4
    <3>3. RowsInv'
      BY <1>1, <1>3, <2>2, <3>1, <3>2 DEF ValueInv, RowsInv
    <3>4. Seen \subseteq Seen'
      <4>1. j \in {table'[i] : i \in DOMAIN table'}
        BY <3>1
      <4>2. {table[i] : i \in DOMAIN table} \subseteq {table'[i] : i \in DOMAIN table'}
        BY <3>1
      <4> QED
        BY <1>1, <2>2, <4>1, <4>2 DEF Seen
    <3> QED
      BY <3>3, <3>4 DEF SeenKeys
  <2>3. CASE ~ Storable(j) /\ failed' = failed \cup {j} /\ table' = table
    <3>1. RowsInv'
      BY <1>1, <1>3, <2>3 DEF ValueInv, RowsInv
    <3>2. Seen \subseteq Seen'
      BY <1>1, <2>3 DEF Seen
    <3> QED
      BY <3>1, <3>2 DEF SeenKeys
  <2> QED
    BY <2>1, <2>2, <2>3 DEF Process
<1>5. KeysInQueue' \subseteq KeysInQueue \cup {j.key}
  BY <1>1 DEF KeysInQueue
<1>6. j.key \in KeysInQueue
  BY DEF KeysInQueue
<1>7. KeysInv'
  BY <1>4, <1>5, <1>6 DEF ValueInv, KeysInv
<1>8. WindowInv'
  <2>1. {table'[i] : i \in DOMAIN table'} \subseteq {table[i] : i \in DOMAIN table} \cup {j}
    <3>1. CASE table' = table
      BY <3>1
    <3>2. CASE table' = Append(table, j)
      BY <1>3, <3>2
    <3> QED
      BY <3>1, <3>2 DEF Process
  <2>2. failed' \subseteq failed \cup {j}
    BY DEF Process
  <2>3. Seen' \subseteq Seen
    BY <1>1, <2>1, <2>2 DEF Seen
  <2> QED
    BY <1>1, <2>3 DEF ValueInv, WindowInv
<1> QED
  BY <1>1, <1>2, <1>4, <1>7, <1>8, AnswersStay DEF ValueInv

\* What leaves rows, messages and answers alone.
LEMMA OthersKeepValues ==
  ASSUME ValueInv, UNCHANGED <<traffic, wire, jobs, table, failed, answers>>,
         kept' \subseteq kept
  PROVE  ValueInv'
<1>1. TrafficInv'
  BY DEF ValueInv, TrafficInv
<1>2. WireRows' = WireRows
  BY DEF WireRows, Accepted
<1>3. RowsInv'
  BY <1>2 DEF ValueInv, RowsInv
<1>4. Seen' = Seen
  BY DEF Seen
<1>5. SeenKeys' = SeenKeys
  BY <1>4 DEF SeenKeys
<1>6. KeysInv'
  BY <1>5 DEF ValueInv, KeysInv, KeysInQueue
<1>7. WindowInv'
  BY <1>4 DEF ValueInv, WindowInv
<1> QED
  BY <1>1, <1>3, <1>5, <1>6, <1>7, AnswersStay DEF ValueInv

\* A step keeps it.
LEMMA ValueInvStep == GateInv /\ ValueInv /\ [Next]_vars => ValueInv'
<1> SUFFICES ASSUME GateInv, ValueInv, [Next]_vars PROVE ValueInv'
  OBVIOUS
<1>0. clock \in Int
  BY BoundsAreNumbers DEF GateInv, MessagesInv
<1>1. CASE \E p \in Api : Boot(p)
  BY <1>1, OthersKeepValues DEF Boot, apiVars
<1>2. CASE \E p \in Api, m \in wire : Handle(p, m)
  BY <1>0, <1>2, HandleKeepsValues
<1>3. CASE \E m \in traffic : Send(m)
  BY <1>3, SendKeepsValues
<1>4. CASE \E j \in jobs : Process(j)
  BY <1>4, ProcessKeepsValues
<1>5. CASE \E k \in kept : Expire(k)
  BY <1>5, OthersKeepValues DEF Expire
<1>6. CASE Tick
  BY <1>6, OthersKeepValues DEF Tick
<1>7. CASE UNCHANGED vars
  BY <1>7, OthersKeepValues DEF vars, apiVars
<1> QED
  BY <1>1, <1>2, <1>3, <1>4, <1>5, <1>6, <1>7 DEF Next

\* It is an invariant.
THEOREM ValuesAreKept == Spec => []ValueInv
BY ValueInvInit, ValueInvStep, GateIsKept, PTL DEF Spec

-----------------------------------------------------------------------------
(* What the invariant says of shots and answers.                           *)

\* What is on the wire are shots.
LEMMA SentAreShots ==
  ASSUME TrafficInv
  PROVE  ShotsSent \subseteq Shot
<1> SUFFICES ASSUME NEW m \in wire, NEW i \in DOMAIN m.shots
             PROVE  m.shots[i] \in Shot
  BY DEF ShotsSent, ShotsOf
<1>1. PICK sc \in Scenario : \E n \in sc.traffic : m.shots = n.shots
  BY DEF TrafficInv
<1>2. m.shots \in Seq(Shot)
  BY <1>1, ScenariosAreStarts, Zenon
<1> QED
  BY <1>2

\* Rows of the wire that tell one shot have one vendor and one key.
LEMMA TellersShareKeys ==
  ASSUME TrafficInv, NEW s \in ShotsSent, NEW row \in WireRows, Tells(row, s)
  PROVE  row.vendor = Truth[s].vendor /\ row.key = KeyOf(s)
<1>1. PICK t \in ShotsSent : t \in Shot /\ RowFor(row, t)
  BY RowsHaveShots
<1>2. \A f \in {"vendor", "user", "at", "measures"} : Truth[s][f] = Truth[t][f]
  BY <1>1 DEF RowFor, Tells
<1>3. t = s
  BY <1>1, <1>2, SentAreShots, SentToldApart
<1> QED
  BY <1>1, <1>3 DEF RowFor, Tells

\* One shot, one row.
LEMMA OneRowFollows == ValueInv => OneRowPerShot
<1> SUFFICES ASSUME ValueInv, NEW i \in DOMAIN table, NEW j \in DOMAIN table,
                    NEW s \in ShotsSent, Tells(table[i], s), Tells(table[j], s)
             PROVE  i = j
  BY DEF OneRowPerShot
<1>1. table[i] \in WireRows /\ table[j] \in WireRows
  BY DEF ValueInv, RowsInv
<1>2. table[i].vendor = table[j].vendor /\ table[i].key = table[j].key
  BY <1>1, TellersShareKeys DEF ValueInv
<1> QED
  BY <1>2 DEF ValueInv, RowsInv

\* A row that failed is of no plausible shot.
LEMMA StorageFollows == ValueInv => PlausibleShotsAreStored
<1> SUFFICES ASSUME ValueInv, NEW row \in failed, NEW s \in ShotsSent,
                    Tells(row, s), ClubIsReadable(s), Plausible(s)
             PROVE  FALSE
  BY DEF PlausibleShotsAreStored
<1>1. s \in Shot
  BY SentAreShots DEF ValueInv
<1>2. Storable(row)
  BY <1>1, PlausibleIsStorable
<1> QED
  BY <1>2 DEF ValueInv, RowsInv

\* Under the key of an accepted shot there is its row, its double's, or that of a
\* shot with the same identifiers once they are joined.
LEMMA QueueingFollows == ValueInv => AcceptedShotsAreQueued
<1> SUFFICES ASSUME ValueInv, NEW a \in answers, a.status = 202,
                    NEW i \in DOMAIN a.to.shots
             PROVE  \E t \in {a.to.shots[i]}
                             \cup {u \in ShotsSent : \/ DoubleEmit(a.to.shots[i], u)
                                                     \/ JoinsAlike(a.to.shots[i], u)} :
                       \E row \in Seen : Tells(row, t)
  BY DEF AcceptedShotsAreQueued
<1> DEFINE s == a.to.shots[i]
<1>1. a.to \in Accepted /\ RowOf(a.to, i).key \in SeenKeys
  BY DEF ValueInv, ExplainedInv, Explained
<1>2. a.to \in wire /\ a.to.format # "query" /\ WellFormed(a.to)
  BY <1>1 DEF Accepted
<1>3. IsDelivery(a.to)
  BY <1>2, Deliveries DEF ValueInv
<1>4. s \in Shot /\ s \in ShotsSent /\ RowOf(a.to, i).key = KeyOf(s)
  BY <1>2, <1>3, RowIsRead, JsonIsAbout DEF RowFor, ShotsSent, ShotsOf
<1>5. PICK row \in Seen : row.key = KeyOf(s)
  BY <1>1, <1>4 DEF SeenKeys
<1>6. row \in WireRows
  BY DEF Seen, ValueInv, RowsInv
<1>7. PICK t \in ShotsSent : t \in Shot /\ RowFor(row, t)
  BY <1>6, RowsHaveShots DEF ValueInv
<1>8. s = t \/ DoubleEmit(s, t) \/ JoinsAlike(s, t)
  <2>1. KeyOf(s) = KeyOf(t)
    BY <1>5, <1>7 DEF RowFor
  <2>2. TrafficInv /\ s \in ShotsSent /\ s \in Shot /\ t \in ShotsSent /\ t \in Shot
    BY <1>4, <1>7 DEF ValueInv
  <2> HIDE DEF s
  <2> QED
    BY <2>1, <2>2, SentToldApart
<1>9. Tells(row, t)
  BY <1>7 DEF RowFor
<1> QED
  BY <1>8, <1>9

\* A 400 is for a delivery that the pipe refuses.
LEMMA AcceptanceFollows == ValueInv => PlausibleShotsAreAccepted
<1> SUFFICES ASSUME ValueInv, NEW a \in answers, a.status = 400
             PROVE  \E i \in DOMAIN a.to.shots :
                       \/ a.to.shots[i] \in Ill \/ ~ Plausible(a.to.shots[i])
                       \/ FarInFeet(Json(a.to, i))
  BY DEF PlausibleShotsAreAccepted
<1>1. a.to \in wire /\ a.to.format # "query" /\ ~ WellFormed(a.to)
  BY DEF ValueInv, ExplainedInv, Explained
<1>2. IsDelivery(a.to)
  BY <1>1, Deliveries DEF ValueInv
<1> QED
  BY <1>1, <1>2, RefusedIsKnown

\* The parser throws at what no Date holds and the queue at a number of colons, and
\* the rows have the shots' times and identifiers.
LEMMA ErrorsFollow == ValueInv => ServerErrorsAreKnown
<1> SUFFICES ASSUME ValueInv, NEW a \in answers, a.status = 500, ~ a.broken
             PROVE  \E i \in DOMAIN a.to.shots :
                       \/ Truth[a.to.shots[i]].at > LastInstant
                       \/ Colons(IdsInKey(a.to.shots[i])) \notin {0, 2}
  BY Zenon DEF ServerErrorsAreKnown
<1>1. a.to \in Accepted /\ Fails(a.to)
  BY Zenon DEF ValueInv, ExplainedInv, Explained
<1>2. PICK i \in DOMAIN a.to.shots :
         ~ DateExists(RowOf(a.to, i)) \/ JobIdIsRefused(RowOf(a.to, i))
  BY <1>1 DEF Fails
<1>3. a.to \in wire /\ a.to.format # "query" /\ WellFormed(a.to)
  BY <1>1 DEF Accepted
<1>4. IsDelivery(a.to)
  BY <1>3, Deliveries DEF ValueInv
<1>5. RowFor(RowOf(a.to, i), a.to.shots[i]) /\ Truth[a.to.shots[i]] \in Measurement
  BY <1>3, <1>4, RowIsRead, JsonIsAbout
<1>6. CASE ~ DateExists(RowOf(a.to, i))
  <2>1. RowOf(a.to, i).at = Truth[a.to.shots[i]].at
    BY <1>5 DEF RowFor, Tells
  <2>2. Truth[a.to.shots[i]].at \in Int /\ LastInstant \in Nat
    BY <1>5, DatesEnd DEF Measurement
  <2>3. Truth[a.to.shots[i]].at > LastInstant
    BY <1>6, <2>1, <2>2 DEF DateExists
  <2> QED
    BY <2>3
<1>7. CASE JobIdIsRefused(RowOf(a.to, i))
  <2>1. RowOf(a.to, i).key.ids = IdsInKey(a.to.shots[i])
    BY <1>5 DEF RowFor, KeyOf, Key
  <2> QED
    BY <1>7, <2>1 DEF JobIdIsRefused
<1> QED
  BY <1>2, <1>6, <1>7

\* What is out of the window leaves nothing.
LEMMA WindowFollows == ValueInv => WindowIsKept
<1> SUFFICES ASSUME ValueInv PROVE WindowIsKept
  OBVIOUS
<1>1. ASSUME NEW a \in answers, a.status = 422
      PROVE  \E i \in DOMAIN a.to.shots : ~ Timely(a.to.shots[i], a.at)
  BY <1>1 DEF ValueInv, ExplainedInv, Explained, OnTime
<1>2. ASSUME NEW row \in Seen
      PROVE  \E a \in answers :
                /\ a.status \in {202, 500, 503}
                /\ \E i \in DOMAIN a.to.shots : Tells(row, a.to.shots[i])
                /\ \A i \in DOMAIN a.to.shots : Timely(a.to.shots[i], a.at)
  BY DEF ValueInv, WindowInv, Brings, OnTime
<1> QED
  BY <1>1, <1>2 DEF WindowIsKept

-----------------------------------------------------------------------------
(* The properties.                                                         *)

\* A shot has one row, in whatever formats, through however many processes and
\* however often it came, though the queue forgets keys: what tells one shot shares
\* a key, and ON CONFLICT DO NOTHING keeps keys apart.
THEOREM OneRow == Spec => []OneRowPerShot
BY ValuesAreKept, OneRowFollows, PTL

\* A shot that was answered 202 is in the queue, in the table or among the failed
\* jobs as it was measured, whatever format, unit and spelling the parsers read; or
\* its double is, or a shot whose identifiers are joined to the same text: an
\* injective encoding of keys would not need the last case.
THEOREM AcceptedAreQueued == Spec => []AcceptedShotsAreQueued
BY ValuesAreKept, QueueingFollows, PTL

\* The CHECKs of the table let through every plausible shot with a club that the
\* schemas let in: none fails after its 202.
THEOREM PlausibleAreStored == Spec => []PlausibleShotsAreStored
BY ValuesAreKept, StorageFollows, PTL

\* The validation pipe refuses with 400 only what is implausible, far in feet or
\* not what the vendor agreed to send.
THEOREM PlausibleAreAccepted == Spec => []PlausibleShotsAreAccepted
BY ValuesAreKept, AcceptanceFollows, PTL

\* A webhook answers 500 only for a rejected Redis command, a time that no Date
\* holds, and identifiers with a number of colons that BullMQ takes in no jobId.
THEOREM ServerErrors == Spec => []ServerErrorsAreKnown
BY ValuesAreKept, ErrorsFollow, PTL

\* The window is judged by the time of the request and for the payload as a whole:
\* 422 is for a shot that is out of it, and no row anywhere came in a payload that
\* had one, whatever was delivered again, batched or retried.
THEOREM WindowKept == Spec => []WindowIsKept
BY ValuesAreKept, WindowFollows, PTL

=============================================================================
