------------------------- MODULE VendorContract_proofs -------------------------
(***************************************************************************)
(* Theorems about schemas and parsers, for any JSON: what is accepted      *)
(* becomes a row that says what the JSON says, and the numbers of a        *)
(* plausible shot are in the ranges of every schema.                       *)
(***************************************************************************)
EXTENDS VendorContract, TLAPS

-----------------------------------------------------------------------------
(* Units and places.                                                       *)

\* The constants of units.ts are the sizes of the units.
LEMMA FactorsAreSizes ==
  /\ DOMAIN SizeOf = {"mph", "kph", "mps", "yd", "ft", "m", "deg", "rpm"}
  /\ DOMAIN Factor = DOMAIN SizeOf
  /\ SizeOf.mph = 402336 /\ SizeOf.kph = 250000 /\ SizeOf.mps = 900000
  /\ SizeOf.yd = 9144 /\ SizeOf.ft = 3048 /\ SizeOf.m = 10000
  /\ SizeOf.deg = 1 /\ SizeOf.rpm = 1
  /\ \A u \in DOMAIN SizeOf : Factor[u] = SizeOf[u] /\ SizeOf[u] \in Int
BY DEF SizeOf, Factor, MpsToMps, MphToMps, KphToMps, MToM, YdToM, FtToM, Mile, Yard, Foot

\* Where a measure has no field, none is said.
LEMMA SaysNothing ==
  ASSUME NEW body, NEW places, NEW v, Says(body, places, v),
         \A i \in DOMAIN places : places[i].field \notin DOMAIN body
  PROVE  v = Null
BY DEF Says

\* The first field that is there says it.
LEMMA SaysFirst ==
  ASSUME NEW body, NEW places, NEW n \in Nat, DOMAIN places = 1 .. n, NEW v,
         Says(body, places, v), NEW i \in 1 .. n, places[i].field \in DOMAIN body,
         \A j \in 1 .. (i - 1) : places[j].field \notin DOMAIN body
  PROVE  v = AmountAt(body, places[i])
<1>1. PICK k \in DOMAIN places :
         /\ places[k].field \in DOMAIN body
         /\ \A j \in 1 .. (k - 1) : places[j].field \notin DOMAIN body
         /\ v = AmountAt(body, places[k])
  BY DEF Says
<1>2. ~ (k < i) /\ ~ (i < k)
  BY <1>1
<1> QED
  BY <1>1, <1>2

\* A bare number in a unit becomes as much of the table's unit.
LEMMA BareToSI ==
  ASSUME NEW body, NEW field, NEW unit \in DOMAIN SizeOf,
         field \in DOMAIN body, body[field] \in Int
  PROVE  ToSI(Optional(body, field, unit)) = body[field] * SizeOf[unit]
<1> DEFINE r == [value |-> body[field], unit |-> unit]
<1>1. Optional(body, field, unit) = r
  BY DEF Optional
<1>2. r \in [value : Int, unit : DOMAIN Factor]
  BY FactorsAreSizes
<1>3. r # NoReading
  BY <1>2, NoReadingIsNone
<1>4. r.value = body[field] /\ r.unit = unit
  OBVIOUS
<1> HIDE DEF r
<1> QED
  BY <1>1, <1>3, <1>4, FactorsAreSizes DEF ToSI

\* So does a reading.
LEMMA ReadingToSI ==
  ASSUME NEW reading \in [value : Int, unit : DOMAIN SizeOf]
  PROVE  ToSI(reading) = reading.value * SizeOf[reading.unit]
<1>1. reading # NoReading
  BY NoReadingIsNone, FactorsAreSizes
<1> QED
  BY <1>1, FactorsAreSizes DEF ToSI

\* Of all places of a measure the body has this one, or none.
Only(body, places, i) ==
    /\ i \in DOMAIN places
    /\ \A j \in DOMAIN places \ {i} : places[j].field \notin DOMAIN body

\* The places of the measures.
LEMMA PlacesAre ==
  /\ DOMAIN Places = Measure
  /\ DOMAIN Places["ball_speed"] = 1 .. 4 /\ DOMAIN Places["club_speed"] = 1 .. 6
  /\ DOMAIN Places["launch"] = 1 .. 4 /\ DOMAIN Places["spin"] = 1 .. 1
  /\ DOMAIN Places["carry"] = 1 .. 5 /\ DOMAIN Places["total"] = 1 .. 5
  /\ DOMAIN Places["deviation"] = 1 .. 7
BY DEF Places, Measure

\* A measure that has one field at most is read from it.
LEMMA OnlyBare ==
  ASSUME NEW body, NEW places, NEW n \in Nat, DOMAIN places = 1 .. n, NEW v,
         HasNumbers(body, places), Says(body, places, v), NEW i, Only(body, places, i),
         NEW field, NEW unit \in DOMAIN SizeOf, places[i] = In(field, unit)
  PROVE  ToSI(Optional(body, field, unit)) = v
<1>1. places[i].field = field /\ places[i].unit = unit /\ unit # "own"
  BY FactorsAreSizes DEF In
<1>2. CASE field \in DOMAIN body
  <2>1. body[field] \in Int
    BY <1>1, <1>2 DEF HasNumbers, Only
  <2>2. v = AmountAt(body, places[i])
    BY <1>1, <1>2, SaysFirst DEF Only
  <2>3. v = body[field] * SizeOf[unit]
    BY <1>1, <2>2 DEF AmountAt, ValueAt, UnitAt
  <2> QED
    BY <1>2, <2>1, <2>3, BareToSI
<1>3. CASE field \notin DOMAIN body
  <2>1. v = Null
    BY <1>1, <1>3, SaysNothing DEF Only
  <2> QED
    BY <1>3, <2>1 DEF Optional, ToSI
<1> QED
  BY <1>2, <1>3

\* Of what a body says about a shot.
LEMMA ReadBare ==
  ASSUME NEW body, NEW shot, NEW device, NEW id, IsAbout(body, shot, device, id),
         NEW m \in Measure, NEW i, Only(body, Places[m], i),
         NEW field, NEW unit \in DOMAIN SizeOf, Places[m][i] = In(field, unit)
  PROVE  ToSI(Optional(body, field, unit)) = shot.measures[m]
<1>1. HasNumbers(body, Places[m]) /\ Says(body, Places[m], shot.measures[m])
  BY DEF IsAbout
<1>2. \E n \in Nat : DOMAIN Places[m] = 1 .. n
  BY PlacesAre DEF Measure
<1> QED
  BY <1>1, <1>2, OnlyBare

-----------------------------------------------------------------------------
(* TrackPro.                                                               *)

\* The fields of an accepted payload.
LEMMA TrackproFields ==
  ASSUME NEW body, HasFields(TrackproSchema, body)
  PROVE  /\ DOMAIN body \subseteq {"shot_uid", "user_external_id", "session_id", "device_id",
                "captured_at", "club", "ball_speed_mps", "club_head_speed_mps",
                "launch_angle_deg", "spin_rpm", "carry_distance_m", "total_distance_m",
                "side_deviation_m"}
         /\ {"shot_uid", "user_external_id", "captured_at", "club", "ball_speed_mps",
             "launch_angle_deg", "carry_distance_m", "side_deviation_m"} \subseteq DOMAIN body
BY DEF HasFields, TrackproSchema

\* Each measure has one place in them.
LEMMA TrackproPlaces ==
  ASSUME NEW body, HasFields(TrackproSchema, body)
  PROVE  /\ Only(body, Places["ball_speed"], 4)
         /\ Only(body, Places["club_speed"], 6)
         /\ Only(body, Places["launch"], 4)
         /\ Only(body, Places["spin"], 1)
         /\ Only(body, Places["carry"], 5)
         /\ Only(body, Places["total"], 5)
         /\ Only(body, Places["deviation"], 7)
<1>1. Only(body, Places["ball_speed"], 4)
  BY TrackproFields DEF Only, Places, In, Own
<1>2. Only(body, Places["club_speed"], 6)
  BY TrackproFields DEF Only, Places, In, Own
<1>3. Only(body, Places["launch"], 4)
  BY TrackproFields DEF Only, Places, In, Own
<1>4. Only(body, Places["spin"], 1)
  BY TrackproFields DEF Only, Places, In, Own
<1>5. Only(body, Places["carry"], 5)
  BY TrackproFields DEF Only, Places, In, Own
<1>6. Only(body, Places["total"], 5)
  BY TrackproFields DEF Only, Places, In, Own
<1>7. Only(body, Places["deviation"], 7)
  BY TrackproFields DEF Only, Places, In, Own
<1> QED
  BY <1>1, <1>2, <1>3, <1>4, <1>5, <1>6, <1>7

\* A row says what was measured, and a club that the spelling may be read as.
SaysTheShot(row, shot, body) ==
    /\ row.vendor = shot.vendor /\ row.user = shot.user /\ row.at = shot.at
    /\ row.measures = shot.measures
    /\ MayRead(row.club, shot.club, SpellingsIn(body))

\* What the seed and the code make of the spellings that are no short ways.
LEMMA SeededForms ==
  /\ Seeded["code"] = ClubCode /\ Seeded["inverted"] = Irons
  /\ Seeded["words"] = Numbered \cup Unnumbered /\ Seeded["word"] = Numbered \cup Wedges
  /\ DOMAIN Seeded = {"code", "inverted", "words", "word", "hyphen", "reversed", "short"}
BY DEF Seeded

\* Clubs are read as they are meant, but for the spellings that are named.
LEMMA ClubsAreMeant ==
  ASSUME NEW spelling \in Spelling, NEW spellings, spelling \in spellings
  PROVE  MayRead(NormaliseClub(spelling), Meant(spelling), spellings)
<1> DEFINE form == spelling.form
           code == spelling.code
<1>1. /\ form \in {"code", "inverted", "words", "word", "hyphen", "reversed", "short",
                    "other", "inherited"}
      /\ code \in ClubCode
  BY DEF Spelling
<1>2. \A c \in ClubCode : c \in Numbered \cup Unnumbered \/ c = Unknown
  BY DEF ClubCode
<1>3. ClubCode \cap ((0 .. 9) \X {"I"}) = Irons
  BY DEF ClubCode, Numbered, Unnumbered, Unknown, Irons
<1>4. CASE form = "code"
  <2>1. NormaliseClub(spelling) = code
    BY <1>1, <1>4, Zenon DEF NormaliseClub
  <2>2. Meant(spelling) = code
    BY <1>1, <1>4, SeededForms, Zenon DEF Meant
  <2> QED
    BY <2>1, <2>2 DEF MayRead
<1>5. CASE form = "inverted" /\ code \in Irons
  <2>1. NormaliseClub(spelling) = code
    BY <1>1, <1>3, <1>5, Zenon DEF NormaliseClub
  <2>2. Meant(spelling) = code
    BY <1>5, SeededForms, Zenon DEF Meant
  <2> QED
    BY <2>1, <2>2 DEF MayRead
<1>6. CASE form = "inverted" /\ code \notin Irons
  <2>1. NormaliseClub(spelling) = AliasOf(spelling)
    BY <1>3, <1>6, Zenon DEF NormaliseClub
  <2>2. AliasOf(spelling) = Unknown
    BY <1>6, Zenon DEF AliasOf
  <2>3. Meant(spelling) = Unknown
    BY <1>6, SeededForms, Zenon DEF Meant
  <2> QED
    BY <2>1, <2>2, <2>3 DEF MayRead
<1>7. CASE form \notin {"code", "inverted"}
  <2>1. NormaliseClub(spelling) = AliasOf(spelling)
    BY <1>7, Zenon DEF NormaliseClub
  <2>2. CASE form = "words" /\ code \in Numbered \cup Unnumbered
    <3>1. AliasOf(spelling) = code
      BY <2>2, Zenon DEF AliasOf
    <3>2. Meant(spelling) = code
      BY <2>2, SeededForms, Zenon DEF Meant
    <3> QED
      BY <2>1, <3>1, <3>2 DEF MayRead
  <2>3. CASE form = "words" /\ code \notin Numbered \cup Unnumbered
    <3>1. AliasOf(spelling) = Unknown
      BY <2>3, Zenon DEF AliasOf
    <3>2. Meant(spelling) = Unknown
      BY <2>3, SeededForms, Zenon DEF Meant
    <3> QED
      BY <2>1, <3>1, <3>2 DEF MayRead
  <2>4. CASE form = "word" /\ code \in Numbered
    <3>1. AliasOf(spelling) = code
      BY <2>4, Zenon DEF AliasOf
    <3>2. Meant(spelling) = code
      BY <2>4, SeededForms, Zenon DEF Meant
    <3> QED
      BY <2>1, <3>1, <3>2 DEF MayRead
  <2>5. CASE form = "word" /\ code \notin Numbered
    <3>1. AliasOf(spelling) = Unknown
      BY <2>5, Zenon DEF AliasOf
    <3>2. CASE code \in Wedges
      BY <2>1, <2>5, <3>1, <3>2 DEF MayRead, OnlySeeded
    <3>3. CASE code \notin Wedges
      <4>1. Meant(spelling) = Unknown
        BY <2>5, <3>3, SeededForms, Zenon DEF Meant
      <4> QED
        BY <2>1, <3>1, <4>1 DEF MayRead
    <3> QED
      BY <3>2, <3>3
  <2>6. CASE form \in {"hyphen", "reversed", "short"}
    <3>1. AliasOf(spelling) = Unknown
      BY <2>6, Zenon DEF AliasOf
    <3> QED
      BY <2>1, <2>6, <3>1 DEF MayRead, OnlySeeded
  <2>7. CASE form = "inherited"
    <3>1. AliasOf(spelling) = Null
      BY <2>7, Zenon DEF AliasOf
    <3> QED
      BY <2>1, <2>7, <3>1 DEF MayRead
  <2>8. CASE form = "other"
    <3>1. AliasOf(spelling) = Unknown
      BY <2>8, Zenon DEF AliasOf
    <3>2. Meant(spelling) = Unknown
      BY <2>8, SeededForms, Zenon DEF Meant
    <3> QED
      BY <2>1, <3>1, <3>2 DEF MayRead
  <2> QED
    BY <1>1, <1>7, <2>2, <2>3, <2>4, <2>5, <2>6, <2>7, <2>8
<1> QED
  BY <1>4, <1>5, <1>6, <1>7

\* The measures of a row are right if every one is.
LEMMA MeasuresAreRight ==
  ASSUME NEW shot \in Measurement, NEW readings,
         \A m \in Measure : ToSI(readings[m]) = shot.measures[m]
  PROVE  [m \in Measure |-> ToSI(readings[m])] = shot.measures
<1>1. shot.measures \in [Measure -> Int \cup {Null}]
  BY DEF Measurement
<1> QED
  BY <1>1

\* Each measure is read from its place.
LEMMA TrackproMeasures ==
  ASSUME NEW body, NEW shot, NEW device, NEW id, IsAbout(body, shot, device, id),
         HasFields(TrackproSchema, body)
  PROVE  \A m \in Measure : ToSI(TrackproReadings(body)[m]) = shot.measures[m]
<1>1. ToSI(Optional(body, "ball_speed_mps", "mps")) = shot.measures["ball_speed"]
  <2>1. Places["ball_speed"][4] = In("ball_speed_mps", "mps")
    BY DEF Places
  <2> QED
    BY <2>1, TrackproPlaces, ReadBare, FactorsAreSizes DEF Measure
<1>2. ToSI(Optional(body, "club_head_speed_mps", "mps")) = shot.measures["club_speed"]
  <2>1. Places["club_speed"][6] = In("club_head_speed_mps", "mps")
    BY DEF Places
  <2> QED
    BY <2>1, TrackproPlaces, ReadBare, FactorsAreSizes DEF Measure
<1>3. ToSI(Optional(body, "launch_angle_deg", "deg")) = shot.measures["launch"]
  <2>1. Places["launch"][4] = In("launch_angle_deg", "deg")
    BY DEF Places
  <2> QED
    BY <2>1, TrackproPlaces, ReadBare, FactorsAreSizes DEF Measure
<1>4. ToSI(Optional(body, "spin_rpm", "rpm")) = shot.measures["spin"]
  <2>1. Places["spin"][1] = In("spin_rpm", "rpm")
    BY DEF Places
  <2> QED
    BY <2>1, TrackproPlaces, ReadBare, FactorsAreSizes DEF Measure
<1>5. ToSI(Optional(body, "carry_distance_m", "m")) = shot.measures["carry"]
  <2>1. Places["carry"][5] = In("carry_distance_m", "m")
    BY DEF Places
  <2> QED
    BY <2>1, TrackproPlaces, ReadBare, FactorsAreSizes DEF Measure
<1>6. ToSI(Optional(body, "total_distance_m", "m")) = shot.measures["total"]
  <2>1. Places["total"][5] = In("total_distance_m", "m")
    BY DEF Places
  <2> QED
    BY <2>1, TrackproPlaces, ReadBare, FactorsAreSizes DEF Measure
<1>7. ToSI(Optional(body, "side_deviation_m", "m")) = shot.measures["deviation"]
  <2>1. Places["deviation"][7] = In("side_deviation_m", "m")
    BY DEF Places
  <2> QED
    BY <2>1, TrackproPlaces, ReadBare, FactorsAreSizes DEF Measure
<1> QED
  BY <1>1, <1>2, <1>3, <1>4, <1>5, <1>6, <1>7 DEF TrackproReadings, Measure

\* What TrackPro sends is read as it is said.
THEOREM TrackproIsRead ==
  ASSUME NEW body, NEW shot \in Measurement, NEW device, NEW id,
         IsAbout(body, shot, device, id), shot.vendor = "trackpro",
         HasFields(TrackproSchema, body)
  PROVE  /\ SaysTheShot(ParseTrackpro(body), shot, body)
         /\ ParseTrackpro(body).key = Key("tp", PartsOf[id], Null)
<1> DEFINE row == ParseTrackpro(body)
<1>1. /\ row.vendor = "trackpro" /\ row.key = Key("tp", PartsOf[body.shot_uid], Null)
      /\ row.user = body.user_external_id /\ row.at = body.captured_at.instant
      /\ row.club = NormaliseClub(body.club)
      /\ row.measures = [m \in Measure |-> ToSI(TrackproReadings(body)[m])]
  BY DEF ParseTrackpro, Row
<1>2. row.measures = shot.measures
  BY <1>1, TrackproMeasures, MeasuresAreRight
<1>3. {"shot_uid", "user_external_id", "captured_at", "club"} \subseteq DOMAIN body
  BY TrackproFields
<1>4. MayRead(row.club, shot.club, SpellingsIn(body))
  <2>1. body.club \in Spelling /\ Meant(body.club) = shot.club
    BY <1>3 DEF IsAbout
  <2>2. body.club \in SpellingsIn(body)
    BY <1>3 DEF SpellingsIn
  <2> QED
    BY <1>1, <2>1, <2>2, ClubsAreMeant
<1>5. body.shot_uid = id /\ body.user_external_id = shot.user
      /\ body.captured_at.instant = shot.at
  BY <1>3 DEF IsAbout
<1> QED
  BY <1>1, <1>2, <1>4, <1>5 DEF SaysTheShot

-----------------------------------------------------------------------------
(* SwingMetric.                                                            *)

\* normaliseShot, field by field.
LEMMA NormalisedField ==
  ASSUME NEW body
  PROVE  LET N == NormaliseShot(body) IN
         /\ \A f \in DOMAIN OldName :
               /\ f \in DOMAIN N <=> f \in DOMAIN body \/ OldName[f] \in DOMAIN body
               /\ f \in DOMAIN body => N[f] = body[f]
               /\ f \notin DOMAIN body /\ OldName[f] \in DOMAIN body => N[f] = body[OldName[f]]
         /\ \A f : f \notin DOMAIN OldName /\ f \notin DOMAIN Renamed =>
               /\ f \in DOMAIN N <=> f \in DOMAIN body
               /\ f \in DOMAIN body => N[f] = body[f]
         /\ \A f \in DOMAIN Renamed : f \notin DOMAIN N
<1> DEFINE old == DOMAIN Renamed \cap DOMAIN body
           rest == DOMAIN body \ DOMAIN Renamed
           N == NormaliseShot(body)
<1>1. N = [n \in rest \cup {Renamed[o] : o \in old} |->
              IF n \in rest THEN body[n] ELSE body[CHOOSE o \in old : Renamed[o] = n]]
  BY DEF NormaliseShot
<1>2. DOMAIN N = rest \cup {Renamed[o] : o \in old}
  BY <1>1
<1>3. /\ DOMAIN Renamed \cap DOMAIN OldName = {}
      /\ \A f \in DOMAIN OldName : OldName[f] \in DOMAIN Renamed /\ Renamed[OldName[f]] = f
      /\ \A o \in DOMAIN Renamed : Renamed[o] \in DOMAIN OldName /\ OldName[Renamed[o]] = o
  BY DEF Renamed, OldName
<1>4. ASSUME NEW f \in DOMAIN OldName
      PROVE  /\ f \in DOMAIN N <=> f \in DOMAIN body \/ OldName[f] \in DOMAIN body
             /\ f \in DOMAIN body => N[f] = body[f]
             /\ f \notin DOMAIN body /\ OldName[f] \in DOMAIN body => N[f] = body[OldName[f]]
  <2>1. \A o \in old : Renamed[o] = f <=> o = OldName[f]
    BY <1>3
  <2>2. f \in rest <=> f \in DOMAIN body
    BY <1>3
  <2>3. f \in DOMAIN N <=> f \in rest \/ \E o \in old : Renamed[o] = f
    BY <1>2
  <2>4. f \in DOMAIN N <=> f \in DOMAIN body \/ OldName[f] \in DOMAIN body
    BY <1>3, <2>1, <2>2, <2>3
  <2>5. ASSUME f \notin DOMAIN body, OldName[f] \in DOMAIN body
        PROVE  N[f] = body[OldName[f]]
    <3>1. (CHOOSE o \in old : Renamed[o] = f) = OldName[f]
      BY <1>3, <2>1, <2>5
    <3> QED
      BY <1>1, <2>2, <2>4, <2>5, <3>1
  <2>6. f \in DOMAIN body => N[f] = body[f]
    BY <1>1, <2>2
  <2> QED
    BY <2>4, <2>5, <2>6
<1>5. ASSUME NEW f, f \notin DOMAIN OldName, f \notin DOMAIN Renamed
      PROVE  /\ f \in DOMAIN N <=> f \in DOMAIN body
             /\ f \in DOMAIN body => N[f] = body[f]
  BY <1>1, <1>3, <1>5
<1>6. \A f \in DOMAIN Renamed : f \notin DOMAIN N
  BY <1>1, <1>3
<1> QED
  BY <1>4, <1>5, <1>6

\* The names that changed, and those that did not.
LEMMA SwingmetricNames ==
  /\ DOMAIN OldName = {"club", "launch_deg", "carry_yd", "total_yd", "offline_yd"}
  /\ DOMAIN Renamed = {"club_used", "launch_angle", "carry_yds", "total_yds", "offline_yds"}
  /\ OldName["club"] = "club_used" /\ OldName["launch_deg"] = "launch_angle"
  /\ OldName["carry_yd"] = "carry_yds" /\ OldName["total_yd"] = "total_yds"
  /\ OldName["offline_yd"] = "offline_yds"
BY DEF OldName, Renamed

\* The fields of an accepted shot.
LEMMA SwingmetricSchemaFields ==
  ASSUME NEW body, HasFields(SwingmetricSchema, body)
  PROVE  /\ DOMAIN body \subseteq SwingmetricFields
         /\ SwingmetricFields \ {"swing_speed_mph", "spin_rpm", "total_yd"} \subseteq DOMAIN body
BY DEF HasFields, SwingmetricSchema, SwingmetricFields

\* What was sent has these fields, by their new or their old names.
LEMMA SentFields ==
  ASSUME NEW body, HasFields(SwingmetricSchema, NormaliseShot(body))
  PROVE  DOMAIN body \subseteq SwingmetricFields \cup DOMAIN Renamed
BY NormalisedField, SwingmetricSchemaFields, SwingmetricNames

\* A measure with a new name and an old one is read from the new one if it is there.
LEMMA ReadRenamed ==
  ASSUME NEW body, NEW shot, NEW device, NEW id, IsAbout(body, shot, device, id),
         NEW m \in Measure, NEW new \in DOMAIN OldName, NEW unit \in DOMAIN SizeOf,
         NEW i \in DOMAIN Places[m], NEW k \in DOMAIN Places[m], i < k,
         Places[m][i] = In(new, unit), Places[m][k] = In(OldName[new], unit),
         \A j \in DOMAIN Places[m] \ {i, k} : Places[m][j].field \notin DOMAIN body
  PROVE  ToSI(Optional(NormaliseShot(body), new, unit)) = shot.measures[m]
<1> DEFINE N == NormaliseShot(body)
           places == Places[m]
           v == shot.measures[m]
<1>1. HasNumbers(body, places) /\ Says(body, places, v)
  BY DEF IsAbout
<1>2. PICK n \in Nat : DOMAIN places = 1 .. n
  BY PlacesAre DEF Measure
<1>3. /\ places[i].field = new /\ places[i].unit = unit
      /\ places[k].field = OldName[new] /\ places[k].unit = unit
      /\ unit # "own"
  BY FactorsAreSizes DEF In
<1>4. /\ new \in DOMAIN N <=> new \in DOMAIN body \/ OldName[new] \in DOMAIN body
      /\ new \in DOMAIN body => N[new] = body[new]
      /\ new \notin DOMAIN body /\ OldName[new] \in DOMAIN body => N[new] = body[OldName[new]]
  BY NormalisedField
<1> HIDE DEF N, places, v
<1>5. CASE new \in DOMAIN body
  <2>1. v = AmountAt(body, places[i])
    BY <1>1, <1>2, <1>3, <1>5, SaysFirst DEF places
  <2>2. v = body[new] * SizeOf[unit] /\ body[new] \in Int
    BY <1>1, <1>3, <1>5, <2>1 DEF AmountAt, ValueAt, UnitAt, HasNumbers, places
  <2> QED
    BY <1>4, <1>5, <2>2, BareToSI DEF N, v
<1>6. CASE new \notin DOMAIN body /\ OldName[new] \in DOMAIN body
  <2>1. v = AmountAt(body, places[k])
    <3>1. \A j \in 1 .. (k - 1) : places[j].field \notin DOMAIN body
      BY <1>2, <1>3, <1>6 DEF places
    <3> QED
      BY <1>1, <1>2, <1>3, <1>6, <3>1, SaysFirst DEF places
  <2>2. v = body[OldName[new]] * SizeOf[unit] /\ body[OldName[new]] \in Int
    BY <1>1, <1>3, <1>6, <2>1 DEF AmountAt, ValueAt, UnitAt, HasNumbers, places
  <2> QED
    BY <1>4, <1>6, <2>2, BareToSI DEF N, v
<1>7. CASE new \notin DOMAIN body /\ OldName[new] \notin DOMAIN body
  <2>1. \A j \in DOMAIN places : places[j].field \notin DOMAIN body
    BY <1>3, <1>7 DEF places
  <2>2. v = Null
    BY <1>1, <2>1, SaysNothing
  <2> QED
    BY <1>4, <1>7, <2>2 DEF Optional, ToSI, N, v
<1> QED
  BY <1>5, <1>6, <1>7

\* Each measure is read from its place.
LEMMA SwingmetricMeasures ==
  ASSUME NEW body, NEW shot, NEW device, NEW id, IsAbout(body, shot, device, id),
         HasFields(SwingmetricSchema, NormaliseShot(body))
  PROVE  \A m \in Measure :
            ToSI(SwingmetricReadings(NormaliseShot(body))[m]) = shot.measures[m]
<1> DEFINE N == NormaliseShot(body)
<1>0. DOMAIN body \subseteq SwingmetricFields \cup DOMAIN Renamed
  BY SentFields
<1>1. ToSI(Optional(N, "ball_speed_mph", "mph")) = shot.measures["ball_speed"]
  <2>1. Only(body, Places["ball_speed"], 2)
    BY <1>0, SwingmetricNames DEF Only, Places, In, Own, SwingmetricFields
  <2>2. Places["ball_speed"][2] = In("ball_speed_mph", "mph")
    BY DEF Places
  <2>3. ToSI(Optional(body, "ball_speed_mph", "mph")) = shot.measures["ball_speed"]
    BY <2>1, <2>2, ReadBare, FactorsAreSizes DEF Measure
  <2>4. Optional(N, "ball_speed_mph", "mph") = Optional(body, "ball_speed_mph", "mph")
    BY NormalisedField, SwingmetricNames DEF Optional
  <2> QED
    BY <2>3, <2>4
<1>2. ToSI(Optional(N, "swing_speed_mph", "mph")) = shot.measures["club_speed"]
  <2>1. Only(body, Places["club_speed"], 5)
    BY <1>0, SwingmetricNames DEF Only, Places, In, Own, SwingmetricFields
  <2>2. Places["club_speed"][5] = In("swing_speed_mph", "mph")
    BY DEF Places
  <2>3. ToSI(Optional(body, "swing_speed_mph", "mph")) = shot.measures["club_speed"]
    BY <2>1, <2>2, ReadBare, FactorsAreSizes DEF Measure
  <2>4. Optional(N, "swing_speed_mph", "mph") = Optional(body, "swing_speed_mph", "mph")
    BY NormalisedField, SwingmetricNames DEF Optional
  <2> QED
    BY <2>3, <2>4
<1>3. ToSI(Optional(N, "spin_rpm", "rpm")) = shot.measures["spin"]
  <2>1. Only(body, Places["spin"], 1)
    BY <1>0, SwingmetricNames DEF Only, Places, In, Own, SwingmetricFields
  <2>2. Places["spin"][1] = In("spin_rpm", "rpm")
    BY DEF Places
  <2>3. ToSI(Optional(body, "spin_rpm", "rpm")) = shot.measures["spin"]
    BY <2>1, <2>2, ReadBare, FactorsAreSizes DEF Measure
  <2>4. Optional(N, "spin_rpm", "rpm") = Optional(body, "spin_rpm", "rpm")
    BY NormalisedField, SwingmetricNames DEF Optional
  <2> QED
    BY <2>3, <2>4
<1>4. ToSI(Optional(N, "launch_deg", "deg")) = shot.measures["launch"]
  <2>1. /\ Places["launch"][2] = In("launch_deg", "deg")
        /\ Places["launch"][3] = In("launch_angle", "deg")
    BY DEF Places
  <2>2. \A j \in DOMAIN Places["launch"] \ {2, 3} : Places["launch"][j].field \notin DOMAIN body
    BY <1>0, SwingmetricNames DEF Places, In, Own, SwingmetricFields
  <2>3. {2, 3} \subseteq DOMAIN Places["launch"] /\ 2 < 3
    BY PlacesAre
  <2>4. "launch_deg" \in DOMAIN OldName /\ OldName["launch_deg"] = "launch_angle"
    BY SwingmetricNames
  <2> QED
    BY <2>1, <2>2, <2>3, <2>4, ReadRenamed, FactorsAreSizes DEF Measure
<1>5. ToSI(Optional(N, "carry_yd", "yd")) = shot.measures["carry"]
  <2>1. /\ Places["carry"][2] = In("carry_yd", "yd")
        /\ Places["carry"][4] = In("carry_yds", "yd")
    BY DEF Places
  <2>2. \A j \in DOMAIN Places["carry"] \ {2, 4} : Places["carry"][j].field \notin DOMAIN body
    BY <1>0, SwingmetricNames DEF Places, In, Own, SwingmetricFields
  <2>3. {2, 4} \subseteq DOMAIN Places["carry"] /\ 2 < 4
    BY PlacesAre
  <2>4. "carry_yd" \in DOMAIN OldName /\ OldName["carry_yd"] = "carry_yds"
    BY SwingmetricNames
  <2> QED
    BY <2>1, <2>2, <2>3, <2>4, ReadRenamed, FactorsAreSizes DEF Measure
<1>6. ToSI(Optional(N, "total_yd", "yd")) = shot.measures["total"]
  <2>1. /\ Places["total"][2] = In("total_yd", "yd")
        /\ Places["total"][4] = In("total_yds", "yd")
    BY DEF Places
  <2>2. \A j \in DOMAIN Places["total"] \ {2, 4} : Places["total"][j].field \notin DOMAIN body
    BY <1>0, SwingmetricNames DEF Places, In, Own, SwingmetricFields
  <2>3. {2, 4} \subseteq DOMAIN Places["total"] /\ 2 < 4
    BY PlacesAre
  <2>4. "total_yd" \in DOMAIN OldName /\ OldName["total_yd"] = "total_yds"
    BY SwingmetricNames
  <2> QED
    BY <2>1, <2>2, <2>3, <2>4, ReadRenamed, FactorsAreSizes DEF Measure
<1>7. ToSI(Optional(N, "offline_yd", "yd")) = shot.measures["deviation"]
  <2>1. /\ Places["deviation"][5] = In("offline_yd", "yd")
        /\ Places["deviation"][6] = In("offline_yds", "yd")
    BY DEF Places
  <2>2. \A j \in DOMAIN Places["deviation"] \ {5, 6} :
           Places["deviation"][j].field \notin DOMAIN body
    BY <1>0, SwingmetricNames DEF Places, In, Own, SwingmetricFields
  <2>3. {5, 6} \subseteq DOMAIN Places["deviation"] /\ 5 < 6
    BY PlacesAre
  <2>4. "offline_yd" \in DOMAIN OldName /\ OldName["offline_yd"] = "offline_yds"
    BY SwingmetricNames
  <2> QED
    BY <2>1, <2>2, <2>3, <2>4, ReadRenamed, FactorsAreSizes DEF Measure
<1> QED
  BY <1>1, <1>2, <1>3, <1>4, <1>5, <1>6, <1>7 DEF SwingmetricReadings, Measure

\* What SwingMetric sends, in either generation, is read as it is said.
THEOREM SwingmetricIsRead ==
  ASSUME NEW body, NEW shot \in Measurement, NEW device, NEW id,
         IsAbout(body, shot, device, id), shot.vendor = "swingmetric",
         HasFields(SwingmetricSchema, NormaliseShot(body))
  PROVE  LET row == ParseSwingmetric(NormaliseShot(body)) IN
         /\ SaysTheShot(row, shot, body)
         /\ row.key = Key("sm", PartsOf[shot.user] \o PartsOf[device], TimeBucket(shot.at))
<1> DEFINE N == NormaliseShot(body)
           row == ParseSwingmetric(N)
<1>1. /\ row.vendor = "swingmetric" /\ row.key = SwingmetricKey(N)
      /\ row.user = N.player /\ row.at = N.ts_ms
      /\ row.club = NormaliseClub(N.club)
      /\ row.measures = [m \in Measure |-> ToSI(SwingmetricReadings(N)[m])]
  BY DEF ParseSwingmetric, Row
<1>2. row.measures = shot.measures
  BY <1>1, SwingmetricMeasures, MeasuresAreRight
<1>3. {"player", "device", "ts_ms", "club"} \subseteq DOMAIN N
  BY SwingmetricSchemaFields DEF SwingmetricFields
<1>4. N.player = shot.user /\ N.device = device /\ N.ts_ms = shot.at
  <2>1. /\ {"player", "device", "ts_ms"} \subseteq DOMAIN body
        /\ N.player = body.player /\ N.device = body.device /\ N.ts_ms = body.ts_ms
    BY <1>3, NormalisedField, SwingmetricNames
  <2> QED
    BY <2>1 DEF IsAbout
<1>5. MayRead(row.club, shot.club, SpellingsIn(body))
  <2>1. CASE "club" \in DOMAIN body
    <3>1. N.club = body.club
      BY <2>1, NormalisedField, SwingmetricNames
    <3>2. body.club \in Spelling /\ Meant(body.club) = shot.club
      BY <2>1 DEF IsAbout
    <3>3. body.club \in SpellingsIn(body)
      BY <2>1 DEF SpellingsIn
    <3> QED
      BY <1>1, <3>1, <3>2, <3>3, ClubsAreMeant
  <2>2. CASE "club" \notin DOMAIN body
    <3>1. "club_used" \in DOMAIN body /\ N.club = body.club_used
      BY <1>3, <2>2, NormalisedField, SwingmetricNames
    <3>2. body.club_used \in Spelling /\ Meant(body.club_used) = shot.club
      BY <2>2, <3>1 DEF IsAbout
    <3>3. body.club_used \in SpellingsIn(body)
      BY <3>1 DEF SpellingsIn
    <3> QED
      BY <1>1, <3>1, <3>2, <3>3, ClubsAreMeant
  <2> QED
    BY <2>1, <2>2
<1> QED
  BY <1>1, <1>2, <1>4, <1>5 DEF SaysTheShot, SwingmetricKey

-----------------------------------------------------------------------------
(* ProSwing.                                                               *)

\* The fields of each version.
LEMMA V1Fields ==
  ASSUME NEW body, HasFields(ProswingV1Schema, body)
  PROVE  /\ DOMAIN body \subseteq {"user_token", "id", "occurred_at", "club_code", "ball_speed",
                "club_speed", "launch", "carry", "total", "deviation"}
         /\ {"user_token", "id", "occurred_at", "club_code", "ball_speed", "launch", "carry",
             "deviation"} \subseteq DOMAIN body
BY DEF HasFields, ProswingV1Schema, Measurements

LEMMA V2Fields ==
  ASSUME NEW body, HasFields(ProswingV2Schema, body)
  PROVE  /\ DOMAIN body \subseteq {"user_token", "id", "occurred_at", "club_code",
                "ball_speed_mph", "ball_speed_kph", "ball_speed_mps", "club_speed_mph",
                "club_speed_kph", "club_speed_mps", "launch_deg", "carry_yd", "carry_m",
                "total_yd", "total_m", "deviation_yd", "deviation_m", "deviation_ft"}
         /\ {"user_token", "id", "occurred_at", "club_code", "launch_deg"} \subseteq DOMAIN body
BY DEF HasFields, ProswingV2Schema

LEMMA V3Fields ==
  ASSUME NEW body, HasFields(ProswingV3Schema, body)
  PROVE  /\ DOMAIN body \subseteq {"player", "device", "id", "occurred_at", "club_code",
                "ball_speed", "club_speed", "launch_angle", "spin_rpm", "carry", "total",
                "deviation"}
         /\ {"player", "id", "occurred_at", "club_code", "ball_speed", "launch_angle", "carry",
             "deviation"} \subseteq DOMAIN body
BY DEF HasFields, ProswingV3Schema, Measurements

\* The flat fields of a measure are its places from the second on.
FlatIsPlace(m, k) ==
    /\ k + 1 \in DOMAIN Places[m]
    /\ Places[m][k + 1].field = FlatFields[m][k].name
    /\ Places[m][k + 1].unit = FlatFields[m][k].unit
    /\ FlatFields[m][k].unit \in {"mph", "kph", "mps", "yd", "ft", "m"}

LEMMA FlatPlaces ==
  ASSUME NEW m \in DOMAIN FlatFields
  PROVE  /\ m \in Measure
         /\ DOMAIN FlatFields[m] \in {1 .. 2, 1 .. 3}
         /\ \A k \in DOMAIN FlatFields[m] : FlatIsPlace(m, k)
<1>1. m \in {"ball_speed", "club_speed", "carry", "total", "deviation"}
  BY DEF FlatFields
<1>2. CASE m = "ball_speed"
  <2>1. DOMAIN FlatFields["ball_speed"] = 1 .. 3
    BY DEF FlatFields
  <2>2. FlatIsPlace("ball_speed", 1)
    BY DEF FlatIsPlace, FlatFields, Places, In, Own
  <2>3. FlatIsPlace("ball_speed", 2)
    BY DEF FlatIsPlace, FlatFields, Places, In, Own
  <2>4. FlatIsPlace("ball_speed", 3)
    BY DEF FlatIsPlace, FlatFields, Places, In, Own
  <2> QED
    BY <1>2, <2>1, <2>2, <2>3, <2>4 DEF Measure
<1>3. CASE m = "club_speed"
  <2>1. DOMAIN FlatFields["club_speed"] = 1 .. 3
    BY DEF FlatFields
  <2>2. FlatIsPlace("club_speed", 1)
    BY DEF FlatIsPlace, FlatFields, Places, In, Own
  <2>3. FlatIsPlace("club_speed", 2)
    BY DEF FlatIsPlace, FlatFields, Places, In, Own
  <2>4. FlatIsPlace("club_speed", 3)
    BY DEF FlatIsPlace, FlatFields, Places, In, Own
  <2> QED
    BY <1>3, <2>1, <2>2, <2>3, <2>4 DEF Measure
<1>4. CASE m = "carry"
  <2>1. DOMAIN FlatFields["carry"] = 1 .. 2
    BY DEF FlatFields
  <2>2. FlatIsPlace("carry", 1)
    BY DEF FlatIsPlace, FlatFields, Places, In, Own
  <2>3. FlatIsPlace("carry", 2)
    BY DEF FlatIsPlace, FlatFields, Places, In, Own
  <2> QED
    BY <1>4, <2>1, <2>2, <2>3 DEF Measure
<1>5. CASE m = "total"
  <2>1. DOMAIN FlatFields["total"] = 1 .. 2
    BY DEF FlatFields
  <2>2. FlatIsPlace("total", 1)
    BY DEF FlatIsPlace, FlatFields, Places, In, Own
  <2>3. FlatIsPlace("total", 2)
    BY DEF FlatIsPlace, FlatFields, Places, In, Own
  <2> QED
    BY <1>5, <2>1, <2>2, <2>3 DEF Measure
<1>6. CASE m = "deviation"
  <2>1. DOMAIN FlatFields["deviation"] = 1 .. 3
    BY DEF FlatFields
  <2>2. FlatIsPlace("deviation", 1)
    BY DEF FlatIsPlace, FlatFields, Places, In, Own
  <2>3. FlatIsPlace("deviation", 2)
    BY DEF FlatIsPlace, FlatFields, Places, In, Own
  <2>4. FlatIsPlace("deviation", 3)
    BY DEF FlatIsPlace, FlatFields, Places, In, Own
  <2> QED
    BY <1>6, <2>1, <2>2, <2>3, <2>4 DEF Measure
<1> QED
  BY <1>1, <1>2, <1>3, <1>4, <1>5, <1>6

\* A flat measure is read from the first of its fields that is there.
LEMMA ReadFlat ==
  ASSUME NEW body, NEW shot, NEW device, NEW id, IsAbout(body, shot, device, id),
         NEW m \in DOMAIN FlatFields,
         \A j \in DOMAIN Places[m] :
            j - 1 \notin DOMAIN FlatFields[m] => Places[m][j].field \notin DOMAIN body
  PROVE  ToSI(FirstVariant(body, m)) = shot.measures[m]
<1> DEFINE places == Places[m]
           v == shot.measures[m]
           flat == FlatFields[m]
           there == Populated(body, m)
<1>1. HasNumbers(body, places) /\ Says(body, places, v)
  BY FlatPlaces DEF IsAbout
<1>2. PICK n \in Nat : DOMAIN places = 1 .. n
  BY PlacesAre, FlatPlaces DEF Measure
<1>3. /\ DOMAIN flat \in {1 .. 2, 1 .. 3}
      /\ \A k \in DOMAIN flat :
            /\ k + 1 \in DOMAIN places
            /\ places[k + 1].field = flat[k].name /\ places[k + 1].unit = flat[k].unit
            /\ flat[k].unit \in {"mph", "kph", "mps", "yd", "ft", "m"}
  BY FlatPlaces DEF FlatIsPlace
<1>4. there = {k \in DOMAIN flat : flat[k].name \in DOMAIN body}
  BY DEF Populated
<1>5. \A j \in DOMAIN places : j - 1 \notin DOMAIN flat => places[j].field \notin DOMAIN body
  OBVIOUS
<1>6. FirstVariant(body, m) =
         IF there = {} THEN NoReading
         ELSE Optional(body, flat[CHOOSE i \in there : \A j \in there : i <= j].name,
                             flat[CHOOSE i \in there : \A j \in there : i <= j].unit)
  <2>1. ASSUME there # {}
        PROVE  flat[CHOOSE i \in there : \A j \in there : i <= j].name \in DOMAIN body
    <3>1. \E i \in there : \A j \in there : i <= j
      BY <1>3, <1>4, <2>1
    <3> QED
      BY <1>4, <3>1
  <2> QED
    BY <2>1 DEF FirstVariant, Optional
<1> HIDE DEF places, v, flat, there
<1>7. CASE there = {}
  <2>1. \A j \in DOMAIN places : places[j].field \notin DOMAIN body
    <3> SUFFICES ASSUME NEW j \in DOMAIN places PROVE places[j].field \notin DOMAIN body
      OBVIOUS
    <3>1. CASE j - 1 \in DOMAIN flat
      <4>1. j = (j - 1) + 1
        BY <1>2
      <4> QED
        BY <1>3, <1>4, <1>7, <3>1, <4>1
    <3> QED
      BY <1>5, <3>1
  <2>2. v = Null
    BY <1>1, <2>1, SaysNothing
  <2> QED
    BY <1>6, <1>7, <2>2 DEF ToSI, v
<1>8. CASE there # {}
  <2>1. PICK k \in there : (\A j \in there : k <= j)
                           /\ k = CHOOSE i \in there : \A j \in there : i <= j
    <3>1. \E i \in there : \A j \in there : i <= j
      BY <1>3, <1>4, <1>8
    <3> QED
      BY <3>1
  <2>2. k \in DOMAIN flat /\ flat[k].name \in DOMAIN body /\ k \in 1 .. 3
    BY <1>3, <1>4
  <2>3. \A j \in 1 .. ((k + 1) - 1) : places[j].field \notin DOMAIN body
    <3> SUFFICES ASSUME NEW j \in 1 .. ((k + 1) - 1) PROVE places[j].field \notin DOMAIN body
      OBVIOUS
    <3>1. CASE j = 1
      <4>1. 0 \notin DOMAIN flat
        BY <1>3
      <4>2. k + 1 \in 1 .. n /\ k + 1 >= 1
        BY <1>2, <1>3, <2>2
      <4>3. 1 \in DOMAIN places
        BY <1>2, <4>2
      <4> QED
        BY <1>5, <3>1, <4>1, <4>3
    <3>2. CASE j # 1
      <4>1. j - 1 \in 1 .. (k - 1) /\ j = (j - 1) + 1
        BY <2>2, <3>2
      <4>2. j - 1 \in DOMAIN flat /\ j - 1 \notin there
        BY <1>3, <2>1, <2>2, <4>1
      <4> QED
        BY <1>3, <1>4, <4>1, <4>2
    <3> QED
      BY <3>1, <3>2
  <2>4. v = AmountAt(body, places[k + 1])
    <3> DEFINE h == k + 1
    <3>1. h \in 1 .. n
      BY <1>2, <1>3, <2>2
    <3>2. places[h].field \in DOMAIN body
      BY <1>3, <2>2
    <3>3. \A j \in 1 .. (h - 1) : places[j].field \notin DOMAIN body
      BY <2>3
    <3>4. Says(body, places, v)
      BY <1>1
    <3> HIDE DEF h
    <3>5. v = AmountAt(body, places[h])
      BY <1>2, <3>1, <3>2, <3>3, <3>4, SaysFirst
    <3> QED
      BY <3>5 DEF h
  <2>5. v = body[flat[k].name] * SizeOf[flat[k].unit] /\ body[flat[k].name] \in Int
    <3>1. places[k + 1].field = flat[k].name /\ places[k + 1].unit = flat[k].unit
          /\ flat[k].unit # "own" /\ k + 1 \in DOMAIN places
      BY <1>3, <2>2
    <3> QED
      BY <1>1, <2>2, <2>4, <3>1 DEF AmountAt, ValueAt, UnitAt, HasNumbers
  <2>6. FirstVariant(body, m) = Optional(body, flat[k].name, flat[k].unit)
    BY <1>6, <1>8, <2>1
  <2> QED
    BY <1>3, <2>2, <2>5, <2>6, BareToSI, FactorsAreSizes DEF v
<1> QED
  BY <1>7, <1>8

\* A nested measure is read from its reading.
LEMMA ReadNested ==
  ASSUME NEW body, NEW shot, NEW device, NEW id, IsAbout(body, shot, device, id),
         NEW m \in Measure, Only(body, Places[m], 1), Places[m][1] = Own(m)
  PROVE  ToSI(Nested(body, m)) = shot.measures[m]
<1> DEFINE places == Places[m]
           v == shot.measures[m]
<1>1. HasNumbers(body, places) /\ Says(body, places, v)
  BY DEF IsAbout
<1>2. PICK n \in Nat : DOMAIN places = 1 .. n
  BY PlacesAre DEF Measure
<1>3. places[1].field = m /\ places[1].unit = "own"
  BY DEF Own, In
<1>4. 1 \in DOMAIN places /\ \A j \in DOMAIN places \ {1} : places[j].field \notin DOMAIN body
  BY DEF Only
<1> HIDE DEF places, v
<1>5. CASE m \in DOMAIN body
  <2>1. body[m] \in [value : Int, unit : DOMAIN SizeOf]
    BY <1>1, <1>3, <1>4, <1>5 DEF HasNumbers
  <2>2. v = AmountAt(body, places[1])
    BY <1>1, <1>2, <1>3, <1>4, <1>5, SaysFirst
  <2>3. v = body[m].value * SizeOf[body[m].unit]
    BY <1>3, <2>2 DEF AmountAt, ValueAt, UnitAt
  <2> QED
    BY <1>5, <2>1, <2>3, ReadingToSI DEF Nested, v
<1>6. CASE m \notin DOMAIN body
  <2>1. \A j \in DOMAIN places : places[j].field \notin DOMAIN body
    BY <1>3, <1>4, <1>6
  <2>2. v = Null
    BY <1>1, <2>1, SaysNothing
  <2> QED
    BY <1>6, <2>2 DEF Nested, ToSI, v
<1> QED
  BY <1>5, <1>6

\* What nobody says is Null, and read as nothing.
LEMMA ReadNothing ==
  ASSUME NEW body, NEW shot, NEW device, NEW id, IsAbout(body, shot, device, id),
         NEW m \in Measure, \A j \in DOMAIN Places[m] : Places[m][j].field \notin DOMAIN body
  PROVE  ToSI(NoReading) = shot.measures[m]
<1>1. Says(body, Places[m], shot.measures[m])
  BY DEF IsAbout
<1>2. shot.measures[m] = Null
  BY <1>1, SaysNothing
<1> QED
  BY <1>2 DEF ToSI

\* The measures of the first version.
LEMMA V1Measures ==
  ASSUME NEW body, NEW shot, NEW device, NEW id, IsAbout(body, shot, device, id),
         HasFields(ProswingV1Schema, body)
  PROVE  \A m \in Measure : ToSI(FromV1(body)[m]) = shot.measures[m]
<1>1. ToSI(Nested(body, "ball_speed")) = shot.measures["ball_speed"]
  <2>1. Only(body, Places["ball_speed"], 1)
    BY V1Fields DEF Only, Places, In, Own
  <2>2. Places["ball_speed"][1] = Own("ball_speed")
    BY DEF Places
  <2> QED
    BY <2>1, <2>2, ReadNested DEF Measure
<1>2. ToSI(Nested(body, "club_speed")) = shot.measures["club_speed"]
  <2>1. Only(body, Places["club_speed"], 1)
    BY V1Fields DEF Only, Places, In, Own
  <2>2. Places["club_speed"][1] = Own("club_speed")
    BY DEF Places
  <2> QED
    BY <2>1, <2>2, ReadNested DEF Measure
<1>3. ToSI(Nested(body, "carry")) = shot.measures["carry"]
  <2>1. Only(body, Places["carry"], 1)
    BY V1Fields DEF Only, Places, In, Own
  <2>2. Places["carry"][1] = Own("carry")
    BY DEF Places
  <2> QED
    BY <2>1, <2>2, ReadNested DEF Measure
<1>4. ToSI(Nested(body, "total")) = shot.measures["total"]
  <2>1. Only(body, Places["total"], 1)
    BY V1Fields DEF Only, Places, In, Own
  <2>2. Places["total"][1] = Own("total")
    BY DEF Places
  <2> QED
    BY <2>1, <2>2, ReadNested DEF Measure
<1>5. ToSI(Nested(body, "deviation")) = shot.measures["deviation"]
  <2>1. Only(body, Places["deviation"], 1)
    BY V1Fields DEF Only, Places, In, Own
  <2>2. Places["deviation"][1] = Own("deviation")
    BY DEF Places
  <2> QED
    BY <2>1, <2>2, ReadNested DEF Measure
<1>6. ToSI(Nested(body, "launch")) = shot.measures["launch"]
  <2>1. Only(body, Places["launch"], 1)
    BY V1Fields DEF Only, Places, In, Own
  <2>2. Places["launch"][1] = Own("launch")
    BY DEF Places
  <2> QED
    BY <2>1, <2>2, ReadNested DEF Measure
<1>7. ToSI(Nested(body, "spin")) = shot.measures["spin"]
  <2>1. \A j \in DOMAIN Places["spin"] : Places["spin"][j].field \notin DOMAIN body
    BY V1Fields DEF Places, In
  <2>2. Nested(body, "spin") = NoReading
    BY V1Fields DEF Nested
  <2> QED
    BY <2>1, <2>2, ReadNothing DEF Measure
<1> QED
  BY <1>1, <1>2, <1>3, <1>4, <1>5, <1>6, <1>7 DEF FromV1, Measure

\* The measures of the second version.
LEMMA V2Measures ==
  ASSUME NEW body, NEW shot, NEW device, NEW id, IsAbout(body, shot, device, id),
         HasFields(ProswingV2Schema, body)
  PROVE  \A m \in Measure : ToSI(FromV2(body)[m]) = shot.measures[m]
<1>1. ToSI(FirstVariant(body, "ball_speed")) = shot.measures["ball_speed"]
  <2>1. \A j \in DOMAIN Places["ball_speed"] :
           j - 1 \notin DOMAIN FlatFields["ball_speed"] =>
              Places["ball_speed"][j].field \notin DOMAIN body
    BY V2Fields DEF Places, In, Own, FlatFields
  <2>2. "ball_speed" \in DOMAIN FlatFields
    BY DEF FlatFields
  <2> QED
    BY <2>1, <2>2, ReadFlat
<1>2. ToSI(FirstVariant(body, "club_speed")) = shot.measures["club_speed"]
  <2>1. \A j \in DOMAIN Places["club_speed"] :
           j - 1 \notin DOMAIN FlatFields["club_speed"] =>
              Places["club_speed"][j].field \notin DOMAIN body
    BY V2Fields DEF Places, In, Own, FlatFields
  <2>2. "club_speed" \in DOMAIN FlatFields
    BY DEF FlatFields
  <2> QED
    BY <2>1, <2>2, ReadFlat
<1>3. ToSI(FirstVariant(body, "carry")) = shot.measures["carry"]
  <2>1. \A j \in DOMAIN Places["carry"] :
           j - 1 \notin DOMAIN FlatFields["carry"] =>
              Places["carry"][j].field \notin DOMAIN body
    BY V2Fields DEF Places, In, Own, FlatFields
  <2>2. "carry" \in DOMAIN FlatFields
    BY DEF FlatFields
  <2> QED
    BY <2>1, <2>2, ReadFlat
<1>4. ToSI(FirstVariant(body, "total")) = shot.measures["total"]
  <2>1. \A j \in DOMAIN Places["total"] :
           j - 1 \notin DOMAIN FlatFields["total"] =>
              Places["total"][j].field \notin DOMAIN body
    BY V2Fields DEF Places, In, Own, FlatFields
  <2>2. "total" \in DOMAIN FlatFields
    BY DEF FlatFields
  <2> QED
    BY <2>1, <2>2, ReadFlat
<1>5. ToSI(FirstVariant(body, "deviation")) = shot.measures["deviation"]
  <2>1. \A j \in DOMAIN Places["deviation"] :
           j - 1 \notin DOMAIN FlatFields["deviation"] =>
              Places["deviation"][j].field \notin DOMAIN body
    BY V2Fields DEF Places, In, Own, FlatFields
  <2>2. "deviation" \in DOMAIN FlatFields
    BY DEF FlatFields
  <2> QED
    BY <2>1, <2>2, ReadFlat
<1>6. ToSI(Optional(body, "launch_deg", "deg")) = shot.measures["launch"]
  <2>1. Only(body, Places["launch"], 2)
    BY V2Fields DEF Only, Places, In, Own
  <2>2. Places["launch"][2] = In("launch_deg", "deg")
    BY DEF Places
  <2> QED
    BY <2>1, <2>2, ReadBare, FactorsAreSizes DEF Measure
<1>7. ToSI(NoReading) = shot.measures["spin"]
  <2>1. \A j \in DOMAIN Places["spin"] : Places["spin"][j].field \notin DOMAIN body
    BY V2Fields DEF Places, In
  <2> QED
    BY <2>1, ReadNothing DEF Measure
<1>8. /\ FromV2(body)["launch"] = Optional(body, "launch_deg", "deg")
      /\ FromV2(body)["spin"] = NoReading
      /\ \A m \in Measure \ {"launch", "spin"} : FromV2(body)[m] = FirstVariant(body, m)
  <2>1. "launch" \in Measure /\ "spin" \in Measure /\ "spin" # "launch"
    BY DEF Measure
  <2>2. FromV2(body)["launch"] = Optional(body, "launch_deg", "deg")
    BY <2>1, Zenon DEF FromV2
  <2>3. FromV2(body)["spin"] = NoReading
    BY <2>1, Zenon DEF FromV2
  <2>4. ASSUME NEW m \in Measure, m # "launch", m # "spin"
        PROVE  FromV2(body)[m] = FirstVariant(body, m)
    BY <2>4, Zenon DEF FromV2
  <2> QED
    BY <2>2, <2>3, <2>4
<1> QED
  BY <1>1, <1>2, <1>3, <1>4, <1>5, <1>6, <1>7, <1>8 DEF Measure

\* The measures of the third version.
LEMMA V3Measures ==
  ASSUME NEW body, NEW shot, NEW device, NEW id, IsAbout(body, shot, device, id),
         HasFields(ProswingV3Schema, body)
  PROVE  \A m \in Measure : ToSI(FromV3(body)[m]) = shot.measures[m]
<1>1. ToSI(Nested(body, "ball_speed")) = shot.measures["ball_speed"]
  <2>1. Only(body, Places["ball_speed"], 1)
    BY V3Fields DEF Only, Places, In, Own
  <2>2. Places["ball_speed"][1] = Own("ball_speed")
    BY DEF Places
  <2> QED
    BY <2>1, <2>2, ReadNested DEF Measure
<1>2. ToSI(Nested(body, "club_speed")) = shot.measures["club_speed"]
  <2>1. Only(body, Places["club_speed"], 1)
    BY V3Fields DEF Only, Places, In, Own
  <2>2. Places["club_speed"][1] = Own("club_speed")
    BY DEF Places
  <2> QED
    BY <2>1, <2>2, ReadNested DEF Measure
<1>3. ToSI(Nested(body, "carry")) = shot.measures["carry"]
  <2>1. Only(body, Places["carry"], 1)
    BY V3Fields DEF Only, Places, In, Own
  <2>2. Places["carry"][1] = Own("carry")
    BY DEF Places
  <2> QED
    BY <2>1, <2>2, ReadNested DEF Measure
<1>4. ToSI(Nested(body, "total")) = shot.measures["total"]
  <2>1. Only(body, Places["total"], 1)
    BY V3Fields DEF Only, Places, In, Own
  <2>2. Places["total"][1] = Own("total")
    BY DEF Places
  <2> QED
    BY <2>1, <2>2, ReadNested DEF Measure
<1>5. ToSI(Nested(body, "deviation")) = shot.measures["deviation"]
  <2>1. Only(body, Places["deviation"], 1)
    BY V3Fields DEF Only, Places, In, Own
  <2>2. Places["deviation"][1] = Own("deviation")
    BY DEF Places
  <2> QED
    BY <2>1, <2>2, ReadNested DEF Measure
<1>6. ToSI(Optional(body, "launch_angle", "deg")) = shot.measures["launch"]
  <2>1. Only(body, Places["launch"], 3)
    BY V3Fields DEF Only, Places, In, Own
  <2>2. Places["launch"][3] = In("launch_angle", "deg")
    BY DEF Places
  <2> QED
    BY <2>1, <2>2, ReadBare, FactorsAreSizes DEF Measure
<1>7. ToSI(Optional(body, "spin_rpm", "rpm")) = shot.measures["spin"]
  <2>1. Only(body, Places["spin"], 1)
    BY V3Fields DEF Only, Places, In, Own
  <2>2. Places["spin"][1] = In("spin_rpm", "rpm")
    BY DEF Places
  <2> QED
    BY <2>1, <2>2, ReadBare, FactorsAreSizes DEF Measure
<1>8. /\ FromV3(body)["launch"] = Optional(body, "launch_angle", "deg")
      /\ FromV3(body)["spin"] = Optional(body, "spin_rpm", "rpm")
      /\ \A m \in Measure \ {"launch", "spin"} : FromV3(body)[m] = Nested(body, m)
  <2>1. "launch" \in Measure /\ "spin" \in Measure /\ "spin" # "launch"
    BY DEF Measure
  <2>2. FromV3(body)["launch"] = Optional(body, "launch_angle", "deg")
    BY <2>1, Zenon DEF FromV3
  <2>3. FromV3(body)["spin"] = Optional(body, "spin_rpm", "rpm")
    BY <2>1, Zenon DEF FromV3
  <2>4. ASSUME NEW m \in Measure, m # "launch", m # "spin"
        PROVE  FromV3(body)[m] = Nested(body, m)
    BY <2>4, Zenon DEF FromV3
  <2> QED
    BY <2>2, <2>3, <2>4
<1> QED
  BY <1>1, <1>2, <1>3, <1>4, <1>5, <1>6, <1>7, <1>8 DEF Measure

\* An accepted payload has the fields of the version it is taken for.
LEMMA ProswingVersions ==
  ASSUME NEW body, AcceptsProswing(body)
  PROVE  \/ DetectVersion(body) = "v1" /\ HasFields(ProswingV1Schema, body)
         \/ DetectVersion(body) = "v2" /\ HasFields(ProswingV2Schema, body)
         \/ DetectVersion(body) = "v3" /\ HasFields(ProswingV3Schema, body)
BY Zenon DEF AcceptsProswing, AcceptsV2, Accepts

\* What ProSwing sends, in any version, is read as it is said.
THEOREM ProswingIsRead ==
  ASSUME NEW body, NEW shot \in Measurement, NEW device, NEW id,
         IsAbout(body, shot, device, id), shot.vendor = "proswing", AcceptsProswing(body)
  PROVE  /\ SaysTheShot(ParseProswing(body), shot, body)
         /\ ParseProswing(body).key = Key("ps", PartsOf[shot.user] \o PartsOf[id], Null)
<1> DEFINE row == ParseProswing(body)
<1>1. /\ row.vendor = "proswing" /\ row.key = ProswingKey(body)
      /\ row.user = UserToken(body) /\ row.at = body.occurred_at.instant
      /\ row.club = NormaliseClub(body.club_code)
      /\ row.measures = [m \in Measure |-> ToSI(CanonicalReadings(body)[m])]
  BY DEF ParseProswing, Row
<1>2. /\ {"id", "occurred_at", "club_code"} \subseteq DOMAIN body
      /\ UserToken(body) = shot.user
      /\ \A m \in Measure : ToSI(CanonicalReadings(body)[m]) = shot.measures[m]
  <2>1. CASE DetectVersion(body) = "v1" /\ HasFields(ProswingV1Schema, body)
    <3>1. CanonicalReadings(body) = FromV1(body) /\ UserToken(body) = body.user_token
      BY <2>1, Zenon DEF CanonicalReadings, UserToken
    <3> QED
      BY <2>1, <3>1, V1Measures, V1Fields DEF IsAbout
  <2>2. CASE DetectVersion(body) = "v2" /\ HasFields(ProswingV2Schema, body)
    <3>1. CanonicalReadings(body) = FromV2(body) /\ UserToken(body) = body.user_token
      BY <2>2, Zenon DEF CanonicalReadings, UserToken
    <3> QED
      BY <2>2, <3>1, V2Measures, V2Fields DEF IsAbout
  <2>3. CASE DetectVersion(body) = "v3" /\ HasFields(ProswingV3Schema, body)
    <3>1. CanonicalReadings(body) = FromV3(body) /\ UserToken(body) = body.player
      BY <2>3, Zenon DEF CanonicalReadings, UserToken
    <3> QED
      BY <2>3, <3>1, V3Measures, V3Fields DEF IsAbout
  <2> QED
    BY <2>1, <2>2, <2>3, ProswingVersions
<1>3. row.measures = shot.measures
  BY <1>1, <1>2, MeasuresAreRight
<1>4. MayRead(row.club, shot.club, SpellingsIn(body))
  <2>1. body.club_code \in Spelling /\ Meant(body.club_code) = shot.club
    BY <1>2 DEF IsAbout
  <2>2. body.club_code \in SpellingsIn(body)
    BY <1>2 DEF SpellingsIn
  <2> QED
    BY <1>1, <2>1, <2>2, ClubsAreMeant
<1>5. row.at = shot.at /\ body.id = id
  BY <1>1, <1>2 DEF IsAbout
<1> QED
  BY <1>1, <1>2, <1>3, <1>4, <1>5 DEF SaysTheShot, ProswingKey

-----------------------------------------------------------------------------
(* Plausible shots are accepted.                                           *)

\* What is read from a field is in the range of the measure.
LEMMA BareInRange ==
  ASSUME NEW shot, IsPlausible(shot), NEW m \in Measure,
         NEW body, NEW field \in DOMAIN body, body[field] \in Int, NEW unit \in DOMAIN SizeOf,
         ToSI(Optional(body, field, unit)) = shot.measures[m]
  PROVE  InRange(body[field] * SizeOf[unit], Believable[m])
<1>1. shot.measures[m] = body[field] * SizeOf[unit]
  BY BareToSI
<1>2. shot.measures[m] \in Int
  BY <1>1, FactorsAreSizes
<1>3. shot.measures[m] # Null
  BY <1>2, NullIsNoNumber
<1> QED
  BY <1>1, <1>3 DEF IsPlausible

\* The same of a reading.
LEMMA ReadingInRange ==
  ASSUME NEW shot, IsPlausible(shot), NEW m \in Measure,
         NEW body, m \in DOMAIN body, body[m] \in [value : Int, unit : DOMAIN SizeOf],
         ToSI(Nested(body, m)) = shot.measures[m]
  PROVE  InRange(body[m].value * SizeOf[body[m].unit], Believable[m])
<1>1. shot.measures[m] = body[m].value * SizeOf[body[m].unit]
  BY ReadingToSI DEF Nested
<1>2. body[m].value \in Int /\ SizeOf[body[m].unit] \in Int
  BY FactorsAreSizes
<1>3. shot.measures[m] # Null
  BY <1>1, <1>2, NullIsNoNumber
<1> QED
  BY <1>1, <1>3 DEF IsPlausible

\* The ranges of the measures.
LEMMA BelievableIs ==
  /\ Believable["ball_speed"] = <<0, 107100000>> /\ Believable["club_speed"] = <<0, 74700000>>
  /\ Believable["launch"] = <<-10, 70>> /\ Believable["spin"] = <<0, 14999>>
  /\ Believable["carry"] = <<0, 4480000>> /\ Believable["total"] = <<0, 4980000>>
  /\ Believable["deviation"] = <<-2000000, 2000000>>
BY DEF Believable, MpsToMps, MToM

\* A field at a place of a measure has a whole number.
LEMMA NumberAt ==
  ASSUME NEW body, NEW shot, NEW device, NEW id, IsAbout(body, shot, device, id),
         NEW m \in Measure, NEW i \in DOMAIN Places[m],
         NEW field \in DOMAIN body, NEW unit \in DOMAIN SizeOf,
         Places[m][i] = In(field, unit)
  PROVE  body[field] \in Int
<1>1. HasNumbers(body, Places[m])
  BY DEF IsAbout
<1>2. Places[m][i].field = field /\ Places[m][i].unit = unit /\ unit # "own"
  BY FactorsAreSizes DEF In
<1> QED
  BY <1>1, <1>2 DEF HasNumbers


\* The numbers of a plausible shot are in TrackPro's ranges.
THEOREM TrackproIsAccepted ==
  ASSUME NEW body, NEW shot, NEW device, NEW id, IsAbout(body, shot, device, id),
         IsPlausible(shot), Agreed("tp", body, shot)
  PROVE  AcceptsTrackpro(body)
<1>1. HasFields(TrackproSchema, body)
  BY DEF Agreed
<1> DEFINE numbers == TrackproSchema.numbers
<1>2. "ball_speed_mps" \in DOMAIN body => InRange(body["ball_speed_mps"], <<0, 120>>)
  <2> SUFFICES ASSUME "ball_speed_mps" \in DOMAIN body
               PROVE  InRange(body["ball_speed_mps"], <<0, 120>>)
    OBVIOUS
  <2>1. Places["ball_speed"][4] = In("ball_speed_mps", "mps")
    BY DEF Places
  <2>2. "ball_speed" \in Measure /\ 4 \in DOMAIN Places["ball_speed"]
    BY PlacesAre DEF Measure
  <2>3. body["ball_speed_mps"] \in Int
    BY <2>1, <2>2, NumberAt, FactorsAreSizes
  <2>4. ToSI(Optional(body, "ball_speed_mps", "mps")) = shot.measures["ball_speed"]
    BY <1>1, <2>2, TrackproMeasures DEF TrackproReadings
  <2>5. InRange(body["ball_speed_mps"] * SizeOf["mps"], Believable["ball_speed"])
    BY <2>2, <2>3, <2>4, BareInRange, FactorsAreSizes
  <2> QED
    BY <2>3, <2>5, BelievableIs, FactorsAreSizes DEF InRange
<1>3. "club_head_speed_mps" \in DOMAIN body => InRange(body["club_head_speed_mps"], <<0, 100>>)
  <2> SUFFICES ASSUME "club_head_speed_mps" \in DOMAIN body
               PROVE  InRange(body["club_head_speed_mps"], <<0, 100>>)
    OBVIOUS
  <2>1. Places["club_speed"][6] = In("club_head_speed_mps", "mps")
    BY DEF Places
  <2>2. "club_speed" \in Measure /\ 6 \in DOMAIN Places["club_speed"]
    BY PlacesAre DEF Measure
  <2>3. body["club_head_speed_mps"] \in Int
    BY <2>1, <2>2, NumberAt, FactorsAreSizes
  <2>4. ToSI(Optional(body, "club_head_speed_mps", "mps")) = shot.measures["club_speed"]
    BY <1>1, <2>2, TrackproMeasures DEF TrackproReadings
  <2>5. InRange(body["club_head_speed_mps"] * SizeOf["mps"], Believable["club_speed"])
    BY <2>2, <2>3, <2>4, BareInRange, FactorsAreSizes
  <2> QED
    BY <2>3, <2>5, BelievableIs, FactorsAreSizes DEF InRange
<1>4. "launch_angle_deg" \in DOMAIN body => InRange(body["launch_angle_deg"], <<-10, 70>>)
  <2> SUFFICES ASSUME "launch_angle_deg" \in DOMAIN body
               PROVE  InRange(body["launch_angle_deg"], <<-10, 70>>)
    OBVIOUS
  <2>1. Places["launch"][4] = In("launch_angle_deg", "deg")
    BY DEF Places
  <2>2. "launch" \in Measure /\ 4 \in DOMAIN Places["launch"]
    BY PlacesAre DEF Measure
  <2>3. body["launch_angle_deg"] \in Int
    BY <2>1, <2>2, NumberAt, FactorsAreSizes
  <2>4. ToSI(Optional(body, "launch_angle_deg", "deg")) = shot.measures["launch"]
    BY <1>1, <2>2, TrackproMeasures DEF TrackproReadings
  <2>5. InRange(body["launch_angle_deg"] * SizeOf["deg"], Believable["launch"])
    BY <2>2, <2>3, <2>4, BareInRange, FactorsAreSizes
  <2> QED
    BY <2>3, <2>5, BelievableIs, FactorsAreSizes DEF InRange
<1>5. "spin_rpm" \in DOMAIN body => InRange(body["spin_rpm"], <<0, 15000>>)
  <2> SUFFICES ASSUME "spin_rpm" \in DOMAIN body
               PROVE  InRange(body["spin_rpm"], <<0, 15000>>)
    OBVIOUS
  <2>1. Places["spin"][1] = In("spin_rpm", "rpm")
    BY DEF Places
  <2>2. "spin" \in Measure /\ 1 \in DOMAIN Places["spin"]
    BY PlacesAre DEF Measure
  <2>3. body["spin_rpm"] \in Int
    BY <2>1, <2>2, NumberAt, FactorsAreSizes
  <2>4. ToSI(Optional(body, "spin_rpm", "rpm")) = shot.measures["spin"]
    BY <1>1, <2>2, TrackproMeasures DEF TrackproReadings
  <2>5. InRange(body["spin_rpm"] * SizeOf["rpm"], Believable["spin"])
    BY <2>2, <2>3, <2>4, BareInRange, FactorsAreSizes
  <2> QED
    BY <2>3, <2>5, BelievableIs, FactorsAreSizes DEF InRange
<1>6. "carry_distance_m" \in DOMAIN body => InRange(body["carry_distance_m"], <<0, 450>>)
  <2> SUFFICES ASSUME "carry_distance_m" \in DOMAIN body
               PROVE  InRange(body["carry_distance_m"], <<0, 450>>)
    OBVIOUS
  <2>1. Places["carry"][5] = In("carry_distance_m", "m")
    BY DEF Places
  <2>2. "carry" \in Measure /\ 5 \in DOMAIN Places["carry"]
    BY PlacesAre DEF Measure
  <2>3. body["carry_distance_m"] \in Int
    BY <2>1, <2>2, NumberAt, FactorsAreSizes
  <2>4. ToSI(Optional(body, "carry_distance_m", "m")) = shot.measures["carry"]
    BY <1>1, <2>2, TrackproMeasures DEF TrackproReadings
  <2>5. InRange(body["carry_distance_m"] * SizeOf["m"], Believable["carry"])
    BY <2>2, <2>3, <2>4, BareInRange, FactorsAreSizes
  <2> QED
    BY <2>3, <2>5, BelievableIs, FactorsAreSizes DEF InRange
<1>7. "total_distance_m" \in DOMAIN body => InRange(body["total_distance_m"], <<0, 500>>)
  <2> SUFFICES ASSUME "total_distance_m" \in DOMAIN body
               PROVE  InRange(body["total_distance_m"], <<0, 500>>)
    OBVIOUS
  <2>1. Places["total"][5] = In("total_distance_m", "m")
    BY DEF Places
  <2>2. "total" \in Measure /\ 5 \in DOMAIN Places["total"]
    BY PlacesAre DEF Measure
  <2>3. body["total_distance_m"] \in Int
    BY <2>1, <2>2, NumberAt, FactorsAreSizes
  <2>4. ToSI(Optional(body, "total_distance_m", "m")) = shot.measures["total"]
    BY <1>1, <2>2, TrackproMeasures DEF TrackproReadings
  <2>5. InRange(body["total_distance_m"] * SizeOf["m"], Believable["total"])
    BY <2>2, <2>3, <2>4, BareInRange, FactorsAreSizes
  <2> QED
    BY <2>3, <2>5, BelievableIs, FactorsAreSizes DEF InRange
<1>8. "side_deviation_m" \in DOMAIN body => InRange(body["side_deviation_m"], <<-200, 200>>)
  <2> SUFFICES ASSUME "side_deviation_m" \in DOMAIN body
               PROVE  InRange(body["side_deviation_m"], <<-200, 200>>)
    OBVIOUS
  <2>1. Places["deviation"][7] = In("side_deviation_m", "m")
    BY DEF Places
  <2>2. "deviation" \in Measure /\ 7 \in DOMAIN Places["deviation"]
    BY PlacesAre DEF Measure
  <2>3. body["side_deviation_m"] \in Int
    BY <2>1, <2>2, NumberAt, FactorsAreSizes
  <2>4. ToSI(Optional(body, "side_deviation_m", "m")) = shot.measures["deviation"]
    BY <1>1, <2>2, TrackproMeasures DEF TrackproReadings
  <2>5. InRange(body["side_deviation_m"] * SizeOf["m"], Believable["deviation"])
    BY <2>2, <2>3, <2>4, BareInRange, FactorsAreSizes
  <2> QED
    BY <2>3, <2>5, BelievableIs, FactorsAreSizes DEF InRange
<1>9. DOMAIN numbers = {"ball_speed_mps", "club_head_speed_mps", "launch_angle_deg",
                        "spin_rpm", "carry_distance_m", "total_distance_m", "side_deviation_m"}
  BY DEF TrackproSchema
<1>10. /\ numbers["ball_speed_mps"] = <<0, 120>>
      /\ numbers["club_head_speed_mps"] = <<0, 100>>
      /\ numbers["launch_angle_deg"] = <<-10, 70>>
      /\ numbers["spin_rpm"] = <<0, 15000>>
      /\ numbers["carry_distance_m"] = <<0, 450>>
      /\ numbers["total_distance_m"] = <<0, 500>>
      /\ numbers["side_deviation_m"] = <<-200, 200>>
  BY DEF TrackproSchema
<1>11. DOMAIN TrackproSchema.readings = {}
  BY DEF TrackproSchema
<1> HIDE DEF numbers
<1>12. \A n \in DOMAIN numbers \cap DOMAIN body : InRange(body[n], numbers[n])
  BY <1>2, <1>3, <1>4, <1>5, <1>6, <1>7, <1>8, <1>9, <1>10
<1>13. Accepts(TrackproSchema, body)
  BY <1>1, <1>11, <1>12 DEF Accepts, HasRanges, numbers
<1> QED
  BY <1>13 DEF AcceptsTrackpro, Agreed

\* What was agreed with SwingMetric has the fields of the schema, once renamed.
LEMMA SwingmetricHasFields ==
  ASSUME NEW body, AgreedSwingmetric(body)
  PROVE  HasFields(SwingmetricSchema, NormaliseShot(body))
<1> DEFINE N == NormaliseShot(body)
<1>1. DOMAIN body \subseteq SwingmetricFields \cup DOMAIN Renamed
  BY SwingmetricNames DEF AgreedSwingmetric
<1>2. DOMAIN N \subseteq SwingmetricFields
  BY <1>1, NormalisedField, SwingmetricNames DEF SwingmetricFields
<1>3. SwingmetricFields \ {"swing_speed_mph", "spin_rpm", "total_yd"} \subseteq DOMAIN N
  <2> SUFFICES ASSUME NEW n \in SwingmetricFields \ {"swing_speed_mph", "spin_rpm", "total_yd"}
               PROVE  n \in DOMAIN N
    OBVIOUS
  <2>1. n \in DOMAIN body \/ (n \in DOMAIN OldName /\ OldName[n] \in DOMAIN body)
    BY DEF AgreedSwingmetric
  <2>2. CASE n \in DOMAIN OldName
    BY <2>1, <2>2, NormalisedField
  <2>3. CASE n \notin DOMAIN OldName
    <3>1. n \notin DOMAIN Renamed
      BY SwingmetricNames DEF SwingmetricFields
    <3> QED
      BY <2>1, <2>3, <3>1, NormalisedField
  <2> QED
    BY <2>2, <2>3
<1>4. \A n \in {"player", "device", "session_id"} : N[n] = body[n]
  <2>1. {"player", "device", "session_id"} \subseteq DOMAIN body
    BY SwingmetricNames DEF AgreedSwingmetric, SwingmetricFields
  <2> QED
    BY <2>1, NormalisedField, SwingmetricNames
<1>5. \A n \in {"player", "device", "session_id"} : LengthOf[N[n]] \in 1 .. 255
  BY <1>4 DEF AgreedSwingmetric
<1> HIDE DEF N
<1> DEFINE texts == SwingmetricSchema.texts
<1>6. /\ DOMAIN texts = {"player", "device", "session_id"}
      /\ \A n \in DOMAIN texts : texts[n] = <<1, 255>>
  BY DEF SwingmetricSchema, Name
<1>7. /\ DOMAIN SwingmetricSchema.readings = {}
      /\ SwingmetricSchema.optional = {"swing_speed_mph", "spin_rpm", "total_yd"}
      /\ DOMAIN texts \cup DOMAIN SwingmetricSchema.numbers \cup SwingmetricSchema.given
           = SwingmetricFields
  BY DEF SwingmetricSchema, SwingmetricFields
<1>8. \A n \in DOMAIN texts \cap DOMAIN N : InRange(LengthOf[N[n]], texts[n])
  BY <1>5, <1>6 DEF InRange
<1> HIDE DEF texts
<1> QED
  BY <1>2, <1>3, <1>7, <1>8 DEF HasFields, N, texts

\* The numbers of a plausible shot are in SwingMetric's ranges.
THEOREM SwingmetricIsAccepted ==
  ASSUME NEW body, NEW shot, NEW device, NEW id, IsAbout(body, shot, device, id),
         IsPlausible(shot), AgreedSwingmetric(body)
  PROVE  Accepts(SwingmetricSchema, NormaliseShot(body))
<1> DEFINE N == NormaliseShot(body)
           numbers == SwingmetricSchema.numbers
<1>1. HasFields(SwingmetricSchema, N)
  BY SwingmetricHasFields
<1>2. InRange(N["ts_ms"], <<0, MaxTimestamp>>)
  <2>1. "ts_ms" \in DOMAIN body
    BY SwingmetricNames DEF AgreedSwingmetric, SwingmetricFields
  <2>2. N["ts_ms"] = body["ts_ms"]
    BY <2>1, NormalisedField, SwingmetricNames
  <2> QED
    BY <2>2, TimestampsAreNumbers DEF AgreedSwingmetric, InRange
<1>3. "ball_speed_mph" \in DOMAIN N => InRange(N["ball_speed_mph"], <<0, 268>>)
  <2> SUFFICES ASSUME "ball_speed_mph" \in DOMAIN N
               PROVE  InRange(N["ball_speed_mph"], <<0, 268>>)
    OBVIOUS
  <2>1. Places["ball_speed"][2] = In("ball_speed_mph", "mph")
    BY DEF Places
  <2>2. "ball_speed" \in Measure /\ 2 \in DOMAIN Places["ball_speed"]
    BY PlacesAre DEF Measure
  <2>3. "ball_speed_mph" \in DOMAIN body /\ N["ball_speed_mph"] = body["ball_speed_mph"]
    BY NormalisedField, SwingmetricNames
  <2>4. N["ball_speed_mph"] \in Int
    BY <2>1, <2>2, <2>3, NumberAt, FactorsAreSizes
  <2>5. ToSI(Optional(N, "ball_speed_mph", "mph")) = shot.measures["ball_speed"]
    BY <1>1, <2>2, SwingmetricMeasures DEF SwingmetricReadings
  <2> HIDE DEF N
  <2>6. InRange(N["ball_speed_mph"] * SizeOf["mph"], Believable["ball_speed"])
    BY <2>2, <2>4, <2>5, BareInRange, FactorsAreSizes
  <2> QED
    BY <2>4, <2>6, BelievableIs, FactorsAreSizes DEF InRange
<1>4. "swing_speed_mph" \in DOMAIN N => InRange(N["swing_speed_mph"], <<0, 230>>)
  <2> SUFFICES ASSUME "swing_speed_mph" \in DOMAIN N
               PROVE  InRange(N["swing_speed_mph"], <<0, 230>>)
    OBVIOUS
  <2>1. Places["club_speed"][5] = In("swing_speed_mph", "mph")
    BY DEF Places
  <2>2. "club_speed" \in Measure /\ 5 \in DOMAIN Places["club_speed"]
    BY PlacesAre DEF Measure
  <2>3. "swing_speed_mph" \in DOMAIN body /\ N["swing_speed_mph"] = body["swing_speed_mph"]
    BY NormalisedField, SwingmetricNames
  <2>4. N["swing_speed_mph"] \in Int
    BY <2>1, <2>2, <2>3, NumberAt, FactorsAreSizes
  <2>5. ToSI(Optional(N, "swing_speed_mph", "mph")) = shot.measures["club_speed"]
    BY <1>1, <2>2, SwingmetricMeasures DEF SwingmetricReadings
  <2> HIDE DEF N
  <2>6. InRange(N["swing_speed_mph"] * SizeOf["mph"], Believable["club_speed"])
    BY <2>2, <2>4, <2>5, BareInRange, FactorsAreSizes
  <2> QED
    BY <2>4, <2>6, BelievableIs, FactorsAreSizes DEF InRange
<1>5. "launch_deg" \in DOMAIN N => InRange(N["launch_deg"], <<-10, 70>>)
  <2> SUFFICES ASSUME "launch_deg" \in DOMAIN N
               PROVE  InRange(N["launch_deg"], <<-10, 70>>)
    OBVIOUS
  <2>1. Places["launch"][2] = In("launch_deg", "deg")
    BY DEF Places
  <2>2. "launch" \in Measure /\ 2 \in DOMAIN Places["launch"]
    BY PlacesAre DEF Measure
  <2>3. Places["launch"][3] = In("launch_angle", "deg") /\ 3 \in DOMAIN Places["launch"]
    BY PlacesAre DEF Places
  <2>4. N["launch_deg"] \in Int
    <3>1. CASE "launch_deg" \in DOMAIN body
      <4>1. N["launch_deg"] = body["launch_deg"]
        BY <3>1, NormalisedField, SwingmetricNames
      <4> QED
        BY <2>1, <2>2, <3>1, <4>1, NumberAt, FactorsAreSizes
    <3>2. CASE "launch_deg" \notin DOMAIN body
      <4>1. "launch_angle" \in DOMAIN body /\ N["launch_deg"] = body["launch_angle"]
        BY <3>2, NormalisedField, SwingmetricNames
      <4> QED
        BY <2>2, <2>3, <4>1, NumberAt, FactorsAreSizes
    <3> QED
      BY <3>1, <3>2
  <2>5. ToSI(Optional(N, "launch_deg", "deg")) = shot.measures["launch"]
    BY <1>1, <2>2, SwingmetricMeasures DEF SwingmetricReadings
  <2> HIDE DEF N
  <2>6. InRange(N["launch_deg"] * SizeOf["deg"], Believable["launch"])
    BY <2>2, <2>4, <2>5, BareInRange, FactorsAreSizes
  <2> QED
    BY <2>4, <2>6, BelievableIs, FactorsAreSizes DEF InRange
<1>6. "spin_rpm" \in DOMAIN N => InRange(N["spin_rpm"], <<0, 15000>>)
  <2> SUFFICES ASSUME "spin_rpm" \in DOMAIN N
               PROVE  InRange(N["spin_rpm"], <<0, 15000>>)
    OBVIOUS
  <2>1. Places["spin"][1] = In("spin_rpm", "rpm")
    BY DEF Places
  <2>2. "spin" \in Measure /\ 1 \in DOMAIN Places["spin"]
    BY PlacesAre DEF Measure
  <2>3. "spin_rpm" \in DOMAIN body /\ N["spin_rpm"] = body["spin_rpm"]
    BY NormalisedField, SwingmetricNames
  <2>4. N["spin_rpm"] \in Int
    BY <2>1, <2>2, <2>3, NumberAt, FactorsAreSizes
  <2>5. ToSI(Optional(N, "spin_rpm", "rpm")) = shot.measures["spin"]
    BY <1>1, <2>2, SwingmetricMeasures DEF SwingmetricReadings
  <2> HIDE DEF N
  <2>6. InRange(N["spin_rpm"] * SizeOf["rpm"], Believable["spin"])
    BY <2>2, <2>4, <2>5, BareInRange, FactorsAreSizes
  <2> QED
    BY <2>4, <2>6, BelievableIs, FactorsAreSizes DEF InRange
<1>7. "carry_yd" \in DOMAIN N => InRange(N["carry_yd"], <<0, 490>>)
  <2> SUFFICES ASSUME "carry_yd" \in DOMAIN N
               PROVE  InRange(N["carry_yd"], <<0, 490>>)
    OBVIOUS
  <2>1. Places["carry"][2] = In("carry_yd", "yd")
    BY DEF Places
  <2>2. "carry" \in Measure /\ 2 \in DOMAIN Places["carry"]
    BY PlacesAre DEF Measure
  <2>3. Places["carry"][4] = In("carry_yds", "yd") /\ 4 \in DOMAIN Places["carry"]
    BY PlacesAre DEF Places
  <2>4. N["carry_yd"] \in Int
    <3>1. CASE "carry_yd" \in DOMAIN body
      <4>1. N["carry_yd"] = body["carry_yd"]
        BY <3>1, NormalisedField, SwingmetricNames
      <4> QED
        BY <2>1, <2>2, <3>1, <4>1, NumberAt, FactorsAreSizes
    <3>2. CASE "carry_yd" \notin DOMAIN body
      <4>1. "carry_yds" \in DOMAIN body /\ N["carry_yd"] = body["carry_yds"]
        BY <3>2, NormalisedField, SwingmetricNames
      <4> QED
        BY <2>2, <2>3, <4>1, NumberAt, FactorsAreSizes
    <3> QED
      BY <3>1, <3>2
  <2>5. ToSI(Optional(N, "carry_yd", "yd")) = shot.measures["carry"]
    BY <1>1, <2>2, SwingmetricMeasures DEF SwingmetricReadings
  <2> HIDE DEF N
  <2>6. InRange(N["carry_yd"] * SizeOf["yd"], Believable["carry"])
    BY <2>2, <2>4, <2>5, BareInRange, FactorsAreSizes
  <2> QED
    BY <2>4, <2>6, BelievableIs, FactorsAreSizes DEF InRange
<1>8. "total_yd" \in DOMAIN N => InRange(N["total_yd"], <<0, 545>>)
  <2> SUFFICES ASSUME "total_yd" \in DOMAIN N
               PROVE  InRange(N["total_yd"], <<0, 545>>)
    OBVIOUS
  <2>1. Places["total"][2] = In("total_yd", "yd")
    BY DEF Places
  <2>2. "total" \in Measure /\ 2 \in DOMAIN Places["total"]
    BY PlacesAre DEF Measure
  <2>3. Places["total"][4] = In("total_yds", "yd") /\ 4 \in DOMAIN Places["total"]
    BY PlacesAre DEF Places
  <2>4. N["total_yd"] \in Int
    <3>1. CASE "total_yd" \in DOMAIN body
      <4>1. N["total_yd"] = body["total_yd"]
        BY <3>1, NormalisedField, SwingmetricNames
      <4> QED
        BY <2>1, <2>2, <3>1, <4>1, NumberAt, FactorsAreSizes
    <3>2. CASE "total_yd" \notin DOMAIN body
      <4>1. "total_yds" \in DOMAIN body /\ N["total_yd"] = body["total_yds"]
        BY <3>2, NormalisedField, SwingmetricNames
      <4> QED
        BY <2>2, <2>3, <4>1, NumberAt, FactorsAreSizes
    <3> QED
      BY <3>1, <3>2
  <2>5. ToSI(Optional(N, "total_yd", "yd")) = shot.measures["total"]
    BY <1>1, <2>2, SwingmetricMeasures DEF SwingmetricReadings
  <2> HIDE DEF N
  <2>6. InRange(N["total_yd"] * SizeOf["yd"], Believable["total"])
    BY <2>2, <2>4, <2>5, BareInRange, FactorsAreSizes
  <2> QED
    BY <2>4, <2>6, BelievableIs, FactorsAreSizes DEF InRange
<1>9. "offline_yd" \in DOMAIN N => InRange(N["offline_yd"], <<-220, 220>>)
  <2> SUFFICES ASSUME "offline_yd" \in DOMAIN N
               PROVE  InRange(N["offline_yd"], <<-220, 220>>)
    OBVIOUS
  <2>1. Places["deviation"][5] = In("offline_yd", "yd")
    BY DEF Places
  <2>2. "deviation" \in Measure /\ 5 \in DOMAIN Places["deviation"]
    BY PlacesAre DEF Measure
  <2>3. Places["deviation"][6] = In("offline_yds", "yd") /\ 6 \in DOMAIN Places["deviation"]
    BY PlacesAre DEF Places
  <2>4. N["offline_yd"] \in Int
    <3>1. CASE "offline_yd" \in DOMAIN body
      <4>1. N["offline_yd"] = body["offline_yd"]
        BY <3>1, NormalisedField, SwingmetricNames
      <4> QED
        BY <2>1, <2>2, <3>1, <4>1, NumberAt, FactorsAreSizes
    <3>2. CASE "offline_yd" \notin DOMAIN body
      <4>1. "offline_yds" \in DOMAIN body /\ N["offline_yd"] = body["offline_yds"]
        BY <3>2, NormalisedField, SwingmetricNames
      <4> QED
        BY <2>2, <2>3, <4>1, NumberAt, FactorsAreSizes
    <3> QED
      BY <3>1, <3>2
  <2>5. ToSI(Optional(N, "offline_yd", "yd")) = shot.measures["deviation"]
    BY <1>1, <2>2, SwingmetricMeasures DEF SwingmetricReadings
  <2> HIDE DEF N
  <2>6. InRange(N["offline_yd"] * SizeOf["yd"], Believable["deviation"])
    BY <2>2, <2>4, <2>5, BareInRange, FactorsAreSizes
  <2> QED
    BY <2>4, <2>6, BelievableIs, FactorsAreSizes DEF InRange
<1>10. DOMAIN numbers = {"ts_ms", "ball_speed_mph", "swing_speed_mph", "launch_deg",
                         "spin_rpm", "carry_yd", "total_yd", "offline_yd"}
  BY DEF SwingmetricSchema
<1>11. /\ numbers["ts_ms"] = <<0, MaxTimestamp>>
      /\ numbers["ball_speed_mph"] = <<0, 268>>
      /\ numbers["swing_speed_mph"] = <<0, 230>>
      /\ numbers["launch_deg"] = <<-10, 70>>
      /\ numbers["spin_rpm"] = <<0, 15000>>
      /\ numbers["carry_yd"] = <<0, 490>>
      /\ numbers["total_yd"] = <<0, 545>>
      /\ numbers["offline_yd"] = <<-220, 220>>
  BY DEF SwingmetricSchema
<1>12. DOMAIN SwingmetricSchema.readings = {}
  BY DEF SwingmetricSchema
<1> HIDE DEF numbers, N
<1>13. \A n \in DOMAIN numbers \cap DOMAIN N : InRange(N[n], numbers[n])
  BY <1>2, <1>3, <1>4, <1>5, <1>6, <1>7, <1>8, <1>9, <1>10, <1>11
<1> QED
  BY <1>1, <1>12, <1>13 DEF Accepts, HasRanges, numbers, N

\* A nested measure has a reading.
LEMMA ReadingAt ==
  ASSUME NEW body, NEW shot, NEW device, NEW id, IsAbout(body, shot, device, id),
         NEW m \in Measure \ {"spin"}, m \in DOMAIN body
  PROVE  body[m] \in [value : Int, unit : DOMAIN SizeOf]
<1>1. HasNumbers(body, Places[m])
  BY DEF IsAbout
<1>2. 1 \in DOMAIN Places[m]
  BY PlacesAre DEF Measure
<1>3. Places[m][1] = Own(m)
  BY DEF Measure, Places
<1>4. Places[m][1].field = m /\ Places[m][1].unit = "own"
  BY <1>3 DEF Own, In
<1> QED
  BY <1>1, <1>2, <1>4 DEF HasNumbers

\* The ranges of the readings.
LEMMA MeasurementsAre ==
  /\ DOMAIN Measurements = {"ball_speed", "club_speed", "carry", "total", "deviation"}
  /\ \A m \in {"ball_speed", "club_speed"} :
        DOMAIN Measurements[m] = {"mph", "kph", "mps"}
  /\ \A m \in {"carry", "total", "deviation"} :
        /\ DOMAIN Measurements[m] = {"yd", "m", "ft"}
        /\ \A u \in {"yd", "m", "ft"} : Measurements[m][u] = <<-500, 700>>
  /\ Measurements["ball_speed"]["mph"] = <<0, 500>>
  /\ Measurements["ball_speed"]["kph"] = <<0, 500>>
  /\ Measurements["ball_speed"]["mps"] = <<0, 120>>
  /\ \A u \in {"mph", "kph", "mps"} : Measurements["club_speed"][u] = <<0, 300>>
<1>1. DOMAIN Measurements = {"ball_speed", "club_speed", "carry", "total", "deviation"}
  BY DEF Measurements
<1>2. Measurements["ball_speed"] = BallSpeed /\ Measurements["club_speed"] = ClubSpeed
  BY DEF Measurements
<1>3. \A m \in {"carry", "total", "deviation"} : Measurements[m] = Distance
  BY DEF Measurements
<1> QED
  BY <1>1, <1>2, <1>3 DEF BallSpeed, ClubSpeed, Distance, SpeedUnit

\* The readings of a plausible shot are in them, unless they are far in feet.
LEMMA NestedInRange ==
  ASSUME NEW body, NEW shot, NEW device, NEW id, IsAbout(body, shot, device, id),
         IsPlausible(shot), ~ FarInFeet(body),
         NEW m \in DOMAIN Measurements, m \in DOMAIN body,
         body[m].unit \in DOMAIN Measurements[m],
         ToSI(Nested(body, m)) = shot.measures[m]
  PROVE  InRange(body[m].value, Measurements[m][body[m].unit])
<1> DEFINE v == body[m].value
           u == body[m].unit
<1>1. m \in Measure \ {"spin"}
  BY MeasurementsAre DEF Measure
<1>2. body[m] \in [value : Int, unit : DOMAIN SizeOf]
  BY <1>1, ReadingAt
<1>3. v \in Int
  BY <1>2
<1>4. InRange(v * SizeOf[u], Believable[m])
  BY <1>1, <1>2, ReadingInRange
<1>5. m \in {"carry", "total", "deviation"} /\ u = "ft" => v \in -500 .. 700
  BY DEF FarInFeet
<1>6. u \in DOMAIN Measurements[m]
  OBVIOUS

<1> SUFFICES InRange(v, Measurements[m][u])
  OBVIOUS
<1> HIDE DEF u, v
<1>7. CASE m = "ball_speed"
  <2>1. u \in {"mph", "kph", "mps"}
    BY <1>6, <1>7, MeasurementsAre
  <2>2. Believable[m] = <<0, 107100000>>
    BY <1>7, BelievableIs
  <2>3. CASE u = "mph"
    <3>1. Measurements[m][u] = <<0, 500>> /\ SizeOf[u] = 402336
      BY <1>7, <2>3, MeasurementsAre, FactorsAreSizes
    <3> QED
      BY <1>3, <1>4, <2>2, <3>1 DEF InRange
  <2>4. CASE u = "kph"
    <3>1. Measurements[m][u] = <<0, 500>> /\ SizeOf[u] = 250000
      BY <1>7, <2>4, MeasurementsAre, FactorsAreSizes
    <3> QED
      BY <1>3, <1>4, <2>2, <3>1 DEF InRange
  <2>5. CASE u = "mps"
    <3>1. Measurements[m][u] = <<0, 120>> /\ SizeOf[u] = 900000
      BY <1>7, <2>5, MeasurementsAre, FactorsAreSizes
    <3> QED
      BY <1>3, <1>4, <2>2, <3>1 DEF InRange
  <2> QED
    BY <2>1, <2>3, <2>4, <2>5
<1>8. CASE m = "club_speed"
  <2>1. u \in {"mph", "kph", "mps"}
    BY <1>6, <1>8, MeasurementsAre
  <2>2. Believable[m] = <<0, 74700000>>
    BY <1>8, BelievableIs
  <2>3. CASE u = "mph"
    <3>1. Measurements[m][u] = <<0, 300>> /\ SizeOf[u] = 402336
      BY <1>8, <2>3, MeasurementsAre, FactorsAreSizes
    <3> QED
      BY <1>3, <1>4, <2>2, <3>1 DEF InRange
  <2>4. CASE u = "kph"
    <3>1. Measurements[m][u] = <<0, 300>> /\ SizeOf[u] = 250000
      BY <1>8, <2>4, MeasurementsAre, FactorsAreSizes
    <3> QED
      BY <1>3, <1>4, <2>2, <3>1 DEF InRange
  <2>5. CASE u = "mps"
    <3>1. Measurements[m][u] = <<0, 300>> /\ SizeOf[u] = 900000
      BY <1>8, <2>5, MeasurementsAre, FactorsAreSizes
    <3> QED
      BY <1>3, <1>4, <2>2, <3>1 DEF InRange
  <2> QED
    BY <2>1, <2>3, <2>4, <2>5
<1>9. CASE m = "carry"
  <2>1. u \in {"yd", "m", "ft"}
    BY <1>6, <1>9, MeasurementsAre
  <2>2. Believable[m] = <<0, 4480000>>
    BY <1>9, BelievableIs
  <2>3. CASE u = "yd"
    <3>1. Measurements[m][u] = <<-500, 700>> /\ SizeOf[u] = 9144
      BY <1>9, <2>3, MeasurementsAre, FactorsAreSizes
    <3> QED
      BY <1>3, <1>4, <2>2, <3>1 DEF InRange
  <2>4. CASE u = "m"
    <3>1. Measurements[m][u] = <<-500, 700>> /\ SizeOf[u] = 10000
      BY <1>9, <2>4, MeasurementsAre, FactorsAreSizes
    <3> QED
      BY <1>3, <1>4, <2>2, <3>1 DEF InRange
  <2>5. CASE u = "ft"
    <3>1. Measurements[m][u] = <<-500, 700>> /\ SizeOf[u] = 3048
      BY <1>9, <2>5, MeasurementsAre, FactorsAreSizes
    <3> QED
      BY <1>3, <1>5, <1>9, <2>5, <3>1 DEF InRange
  <2> QED
    BY <2>1, <2>3, <2>4, <2>5
<1>10. CASE m = "total"
  <2>1. u \in {"yd", "m", "ft"}
    BY <1>6, <1>10, MeasurementsAre
  <2>2. Believable[m] = <<0, 4980000>>
    BY <1>10, BelievableIs
  <2>3. CASE u = "yd"
    <3>1. Measurements[m][u] = <<-500, 700>> /\ SizeOf[u] = 9144
      BY <1>10, <2>3, MeasurementsAre, FactorsAreSizes
    <3> QED
      BY <1>3, <1>4, <2>2, <3>1 DEF InRange
  <2>4. CASE u = "m"
    <3>1. Measurements[m][u] = <<-500, 700>> /\ SizeOf[u] = 10000
      BY <1>10, <2>4, MeasurementsAre, FactorsAreSizes
    <3> QED
      BY <1>3, <1>4, <2>2, <3>1 DEF InRange
  <2>5. CASE u = "ft"
    <3>1. Measurements[m][u] = <<-500, 700>> /\ SizeOf[u] = 3048
      BY <1>10, <2>5, MeasurementsAre, FactorsAreSizes
    <3> QED
      BY <1>3, <1>5, <1>10, <2>5, <3>1 DEF InRange
  <2> QED
    BY <2>1, <2>3, <2>4, <2>5
<1>11. CASE m = "deviation"
  <2>1. u \in {"yd", "m", "ft"}
    BY <1>6, <1>11, MeasurementsAre
  <2>2. Believable[m] = <<-2000000, 2000000>>
    BY <1>11, BelievableIs
  <2>3. CASE u = "yd"
    <3>1. Measurements[m][u] = <<-500, 700>> /\ SizeOf[u] = 9144
      BY <1>11, <2>3, MeasurementsAre, FactorsAreSizes
    <3> QED
      BY <1>3, <1>4, <2>2, <3>1 DEF InRange
  <2>4. CASE u = "m"
    <3>1. Measurements[m][u] = <<-500, 700>> /\ SizeOf[u] = 10000
      BY <1>11, <2>4, MeasurementsAre, FactorsAreSizes
    <3> QED
      BY <1>3, <1>4, <2>2, <3>1 DEF InRange
  <2>5. CASE u = "ft"
    <3>1. Measurements[m][u] = <<-500, 700>> /\ SizeOf[u] = 3048
      BY <1>11, <2>5, MeasurementsAre, FactorsAreSizes
    <3> QED
      BY <1>3, <1>5, <1>11, <2>5, <3>1 DEF InRange
  <2> QED
    BY <2>1, <2>3, <2>4, <2>5
<1> QED
  BY <1>7, <1>8, <1>9, <1>10, <1>11, MeasurementsAre

\* A plausible shot in the first version is accepted, unless it is far in feet.
THEOREM V1IsAccepted ==
  ASSUME NEW body, NEW shot, NEW device, NEW id, IsAbout(body, shot, device, id),
         IsPlausible(shot), Agreed("ps1", body, shot), ~ FarInFeet(body)
  PROVE  AcceptsProswing(body)
<1>1. HasFields(ProswingV1Schema, body)
  BY DEF Agreed
<1>2. DetectVersion(body) = "v1"
  <2>1. Populated(body, "ball_speed") = {}
    BY <1>1, V1Fields DEF Populated, FlatFields
  <2>2. "player" \notin DOMAIN body
    BY <1>1, V1Fields
  <2> QED
    BY <2>1, <2>2 DEF DetectVersion
<1> DEFINE readings == ProswingV1Schema.readings
<1>3. /\ DOMAIN readings = DOMAIN Measurements \cup {"launch"}
      /\ \A m \in DOMAIN Measurements : readings[m] = Measurements[m]
      /\ readings["launch"] = [deg |-> <<-10, 90>>]
  BY MeasurementsAre DEF ProswingV1Schema
<1>4. \A n \in DOMAIN readings \cap DOMAIN body : body[n].unit \in DOMAIN readings[n]
  BY <1>1 DEF HasFields
<1>5. DOMAIN ProswingV1Schema.numbers = {}
  BY DEF ProswingV1Schema
<1> HIDE DEF readings
<1>6. ASSUME NEW m \in DOMAIN Measurements, m \in DOMAIN body
      PROVE  InRange(body[m].value, readings[m][body[m].unit])
  <2>1. m \in Measure /\ m # "spin"
    BY MeasurementsAre DEF Measure
  <2>2. ToSI(Nested(body, m)) = shot.measures[m]
    BY <1>1, <2>1, V1Measures DEF FromV1
  <2>3. body[m].unit \in DOMAIN Measurements[m]
    BY <1>3, <1>4, <1>6
  <2> QED
    BY <1>3, <1>6, <2>2, <2>3, NestedInRange
<1>7. ASSUME "launch" \in DOMAIN body
      PROVE  InRange(body["launch"].value, readings["launch"][body["launch"].unit])
  <2>1. "launch" \in Measure \ {"spin"}
    BY DEF Measure
  <2>2. body["launch"].unit = "deg"
    BY <1>3, <1>4, <1>7
  <2>3. ToSI(Nested(body, "launch")) = shot.measures["launch"]
    BY <1>1, <2>1, V1Measures DEF FromV1
  <2>4. body["launch"] \in [value : Int, unit : DOMAIN SizeOf]
    BY <1>7, <2>1, ReadingAt
  <2>5. InRange(body["launch"].value * SizeOf["deg"], Believable["launch"])
    BY <1>7, <2>1, <2>2, <2>3, <2>4, ReadingInRange
  <2>6. readings["launch"]["deg"] = <<-10, 90>> /\ body["launch"].value \in Int
    BY <1>3, <2>4
  <2> QED
    BY <2>2, <2>5, <2>6, BelievableIs, FactorsAreSizes DEF InRange
<1>8. \A n \in DOMAIN readings \cap DOMAIN body :
         InRange(body[n].value, readings[n][body[n].unit])
  BY <1>3, <1>6, <1>7
<1>9. Accepts(ProswingV1Schema, body)
  BY <1>1, <1>5, <1>8 DEF Accepts, HasRanges, readings
<1> QED
  BY <1>2, <1>9 DEF AcceptsProswing

\* So is one in the third version.
THEOREM V3IsAccepted ==
  ASSUME NEW body, NEW shot, NEW device, NEW id, IsAbout(body, shot, device, id),
         IsPlausible(shot), Agreed("ps3", body, shot), ~ FarInFeet(body)
  PROVE  AcceptsProswing(body)
<1>1. HasFields(ProswingV3Schema, body)
  BY DEF Agreed
<1>2. DetectVersion(body) = "v3"
  BY <1>1, V3Fields DEF DetectVersion
<1>3. ProswingV3Schema.readings = Measurements
  BY DEF ProswingV3Schema
<1> DEFINE numbers == ProswingV3Schema.numbers
<1>4. /\ DOMAIN numbers = {"launch_angle", "spin_rpm"}
      /\ numbers["launch_angle"] = <<-10, 90>> /\ numbers["spin_rpm"] = <<0, 15000>>
  BY DEF ProswingV3Schema
<1> HIDE DEF numbers
<1>5. ASSUME NEW m \in DOMAIN Measurements, m \in DOMAIN body
      PROVE  InRange(body[m].value, Measurements[m][body[m].unit])
  <2>1. m \in Measure /\ m # "launch" /\ m # "spin"
    BY MeasurementsAre DEF Measure
  <2>2. ToSI(FromV3(body)[m]) = shot.measures[m]
    BY <1>1, <2>1, V3Measures
  <2>3. FromV3(body)[m] = Nested(body, m)
    BY <2>1, Zenon DEF FromV3
  <2>4. body[m].unit \in DOMAIN Measurements[m]
    BY <1>1, <1>3, <1>5 DEF HasFields
  <2> QED
    BY <1>5, <2>2, <2>3, <2>4, NestedInRange
<1>6. ASSUME "launch_angle" \in DOMAIN body
      PROVE  InRange(body["launch_angle"], <<-10, 90>>)
  <2>1. Places["launch"][3] = In("launch_angle", "deg")
    BY DEF Places
  <2>2. "launch" \in Measure /\ 3 \in DOMAIN Places["launch"]
    BY PlacesAre DEF Measure
  <2>3. body["launch_angle"] \in Int
    BY <1>6, <2>1, <2>2, NumberAt, FactorsAreSizes
  <2>4. ToSI(FromV3(body)["launch"]) = shot.measures["launch"]
    BY <1>1, <2>2, V3Measures
  <2>5. FromV3(body)["launch"] = Optional(body, "launch_angle", "deg")
    BY <2>2, Zenon DEF FromV3
  <2>6. InRange(body["launch_angle"] * SizeOf["deg"], Believable["launch"])
    BY <1>6, <2>2, <2>3, <2>4, <2>5, BareInRange, FactorsAreSizes
  <2> QED
    BY <2>3, <2>6, BelievableIs, FactorsAreSizes DEF InRange
<1>7. ASSUME "spin_rpm" \in DOMAIN body
      PROVE  InRange(body["spin_rpm"], <<0, 15000>>)
  <2>1. Places["spin"][1] = In("spin_rpm", "rpm")
    BY DEF Places
  <2>2. "spin" \in Measure /\ 1 \in DOMAIN Places["spin"]
    BY PlacesAre DEF Measure
  <2>3. body["spin_rpm"] \in Int
    BY <1>7, <2>1, <2>2, NumberAt, FactorsAreSizes
  <2>4. ToSI(FromV3(body)["spin"]) = shot.measures["spin"]
    BY <1>1, <2>2, V3Measures
  <2>5. FromV3(body)["spin"] = Optional(body, "spin_rpm", "rpm")
    BY <2>2, Zenon DEF FromV3
  <2>6. InRange(body["spin_rpm"] * SizeOf["rpm"], Believable["spin"])
    BY <1>7, <2>2, <2>3, <2>4, <2>5, BareInRange, FactorsAreSizes
  <2> QED
    BY <2>3, <2>6, BelievableIs, FactorsAreSizes DEF InRange
<1>8. \A n \in DOMAIN numbers \cap DOMAIN body : InRange(body[n], numbers[n])
  BY <1>4, <1>6, <1>7
<1>9. Accepts(ProswingV3Schema, body)
  BY <1>1, <1>3, <1>5, <1>8 DEF Accepts, HasRanges, numbers
<1> QED
  BY <1>2, <1>9 DEF AcceptsProswing

\* What a field says that is there is a number.
LEMMA SaidIsNumber ==
  ASSUME NEW body, NEW places, HasNumbers(body, places), NEW v, Says(body, places, v),
         NEW i \in DOMAIN places, places[i].field \in DOMAIN body,
         \A j \in DOMAIN places : places[j].unit \in DOMAIN SizeOf \cup {"own"}
  PROVE  v \in Int
<1>1. PICK k \in DOMAIN places :
         places[k].field \in DOMAIN body /\ v = AmountAt(body, places[k])
  BY DEF Says
<1> DEFINE value == ValueAt(body, places[k])
           unit == UnitAt(body, places[k])
<1>2. value \in Int /\ unit \in DOMAIN SizeOf
  <2>1. CASE places[k].unit = "own"
    <3>1. body[places[k].field] \in [value : Int, unit : DOMAIN SizeOf]
      BY <1>1, <2>1 DEF HasNumbers
    <3> QED
      BY <2>1, <3>1 DEF ValueAt, UnitAt
  <2>2. CASE places[k].unit # "own"
    BY <1>1, <2>2 DEF HasNumbers, ValueAt, UnitAt
  <2> QED
    BY <2>1, <2>2
<1>3. v = value * SizeOf[unit]
  BY <1>1 DEF AmountAt
<1> HIDE DEF value, unit
<1> QED
  BY <1>2, <1>3, FactorsAreSizes

\* The units of the places.
LEMMA PlacesHaveUnits ==
  ASSUME NEW m \in Measure, NEW j \in DOMAIN Places[m]
  PROVE  Places[m][j].unit \in DOMAIN SizeOf \cup {"own"}
<1> DEFINE ok(n, i) == Places[n][i].unit \in DOMAIN SizeOf \cup {"own"}
<1>1. CASE m = "ball_speed"
  <2>1. ok("ball_speed", 1)
    BY FactorsAreSizes DEF Places, In, Own
  <2>2. ok("ball_speed", 2)
    BY FactorsAreSizes DEF Places, In, Own
  <2>3. ok("ball_speed", 3)
    BY FactorsAreSizes DEF Places, In, Own
  <2>4. ok("ball_speed", 4)
    BY FactorsAreSizes DEF Places, In, Own
  <2> QED
    BY <1>1, <2>1, <2>2, <2>3, <2>4, PlacesAre
<1>2. CASE m = "club_speed"
  <2>1. ok("club_speed", 1)
    BY FactorsAreSizes DEF Places, In, Own
  <2>2. ok("club_speed", 2)
    BY FactorsAreSizes DEF Places, In, Own
  <2>3. ok("club_speed", 3)
    BY FactorsAreSizes DEF Places, In, Own
  <2>4. ok("club_speed", 4)
    BY FactorsAreSizes DEF Places, In, Own
  <2>5. ok("club_speed", 5)
    BY FactorsAreSizes DEF Places, In, Own
  <2>6. ok("club_speed", 6)
    BY FactorsAreSizes DEF Places, In, Own
  <2> QED
    BY <1>2, <2>1, <2>2, <2>3, <2>4, <2>5, <2>6, PlacesAre
<1>3. CASE m = "launch"
  <2>1. ok("launch", 1)
    BY FactorsAreSizes DEF Places, In, Own
  <2>2. ok("launch", 2)
    BY FactorsAreSizes DEF Places, In, Own
  <2>3. ok("launch", 3)
    BY FactorsAreSizes DEF Places, In, Own
  <2>4. ok("launch", 4)
    BY FactorsAreSizes DEF Places, In, Own
  <2> QED
    BY <1>3, <2>1, <2>2, <2>3, <2>4, PlacesAre
<1>4. CASE m = "spin"
  <2>1. ok("spin", 1)
    BY FactorsAreSizes DEF Places, In, Own
  <2> QED
    BY <1>4, <2>1, PlacesAre
<1>5. CASE m = "carry"
  <2>1. ok("carry", 1)
    BY FactorsAreSizes DEF Places, In, Own
  <2>2. ok("carry", 2)
    BY FactorsAreSizes DEF Places, In, Own
  <2>3. ok("carry", 3)
    BY FactorsAreSizes DEF Places, In, Own
  <2>4. ok("carry", 4)
    BY FactorsAreSizes DEF Places, In, Own
  <2>5. ok("carry", 5)
    BY FactorsAreSizes DEF Places, In, Own
  <2> QED
    BY <1>5, <2>1, <2>2, <2>3, <2>4, <2>5, PlacesAre
<1>6. CASE m = "total"
  <2>1. ok("total", 1)
    BY FactorsAreSizes DEF Places, In, Own
  <2>2. ok("total", 2)
    BY FactorsAreSizes DEF Places, In, Own
  <2>3. ok("total", 3)
    BY FactorsAreSizes DEF Places, In, Own
  <2>4. ok("total", 4)
    BY FactorsAreSizes DEF Places, In, Own
  <2>5. ok("total", 5)
    BY FactorsAreSizes DEF Places, In, Own
  <2> QED
    BY <1>6, <2>1, <2>2, <2>3, <2>4, <2>5, PlacesAre
<1>7. CASE m = "deviation"
  <2>1. ok("deviation", 1)
    BY FactorsAreSizes DEF Places, In, Own
  <2>2. ok("deviation", 2)
    BY FactorsAreSizes DEF Places, In, Own
  <2>3. ok("deviation", 3)
    BY FactorsAreSizes DEF Places, In, Own
  <2>4. ok("deviation", 4)
    BY FactorsAreSizes DEF Places, In, Own
  <2>5. ok("deviation", 5)
    BY FactorsAreSizes DEF Places, In, Own
  <2>6. ok("deviation", 6)
    BY FactorsAreSizes DEF Places, In, Own
  <2>7. ok("deviation", 7)
    BY FactorsAreSizes DEF Places, In, Own
  <2> QED
    BY <1>7, <2>1, <2>2, <2>3, <2>4, <2>5, <2>6, <2>7, PlacesAre
<1> QED
  BY <1>1, <1>2, <1>3, <1>4, <1>5, <1>6, <1>7 DEF Measure

\* A field that says a measure or rounds it is in the range, but for one unit.
LEMMA RoundedInRange ==
  ASSUME NEW body, NEW shot, NEW device, NEW id, IsAbout(body, shot, device, id),
         IsPlausible(shot), NEW m \in Measure, NEW i \in DOMAIN Places[m],
         NEW field \in DOMAIN body, NEW unit \in DOMAIN SizeOf,
         Places[m][i] = In(field, unit), Rounds(body, Places[m][i], shot.measures[m])
  PROVE  /\ body[field] \in Int
         /\ \E v \in Int : /\ InRange(v, Believable[m])
                          /\ body[field] * SizeOf[unit] - v < SizeOf[unit]
                          /\ v - body[field] * SizeOf[unit] < SizeOf[unit]
<1> DEFINE v == shot.measures[m]
<1>1. body[field] \in Int
  BY NumberAt
<1>2. Places[m][i].field = field /\ Places[m][i].unit = unit /\ unit # "own"
  BY FactorsAreSizes DEF In
<1>3. v \in Int
  <2>1. HasNumbers(body, Places[m]) /\ Says(body, Places[m], v)
    BY DEF IsAbout
  <2>2. \A j \in DOMAIN Places[m] : Places[m][j].unit \in DOMAIN SizeOf \cup {"own"}
    BY PlacesHaveUnits
  <2> QED
    BY <1>2, <2>1, <2>2, SaidIsNumber
<1>4. InRange(v, Believable[m])
  BY <1>3, NullIsNoNumber DEF IsPlausible
<1>5. AmountAt(body, Places[m][i]) = body[field] * SizeOf[unit]
      /\ UnitAt(body, Places[m][i]) = unit
  BY <1>2 DEF AmountAt, ValueAt, UnitAt
<1>6. body[field] * SizeOf[unit] - v < SizeOf[unit]
      /\ v - body[field] * SizeOf[unit] < SizeOf[unit]
  BY <1>2, <1>5 DEF Rounds
<1> QED
  BY <1>1, <1>3, <1>4, <1>6

\* So is one in the second version.
THEOREM V2IsAccepted ==
  ASSUME NEW body, NEW shot, NEW device, NEW id, IsAbout(body, shot, device, id),
         IsPlausible(shot), Agreed("ps2", body, shot)
  PROVE  AcceptsProswing(body)
<1>1. /\ HasFields(ProswingV2Schema, body)
      /\ \A m \in {"ball_speed", "carry", "deviation"} : shot.measures[m] # Null
      /\ \A m \in Measure : \A i \in DOMAIN Places[m] :
            Rounds(body, Places[m][i], shot.measures[m])
  BY DEF Agreed
<1>2. \A m \in {"ball_speed", "carry", "deviation"} : Populated(body, m) # {}
  <2> SUFFICES ASSUME NEW m \in {"ball_speed", "carry", "deviation"}, Populated(body, m) = {}
               PROVE  FALSE
    OBVIOUS
  <2>1. m \in Measure /\ m # "launch" /\ m # "spin"
    BY DEF Measure
  <2>2. ToSI(FromV2(body)[m]) = shot.measures[m]
    BY <1>1, <2>1, V2Measures
  <2>3. FromV2(body)[m] = FirstVariant(body, m)
    BY <2>1, Zenon DEF FromV2
  <2>4. FirstVariant(body, m) = NoReading
    BY DEF FirstVariant
  <2> QED
    BY <1>1, <2>2, <2>3, <2>4 DEF ToSI
<1>3. DetectVersion(body) = "v2"
  <2>1. "player" \notin DOMAIN body
    BY <1>1, V2Fields
  <2> QED
    BY <1>2, <2>1 DEF DetectVersion
<1> DEFINE numbers == ProswingV2Schema.numbers
<1>4. "ball_speed_mph" \in DOMAIN body => InRange(body["ball_speed_mph"], <<0, 268>>)
  <2> SUFFICES ASSUME "ball_speed_mph" \in DOMAIN body
               PROVE  InRange(body["ball_speed_mph"], <<0, 268>>)
    OBVIOUS
  <2>1. "ball_speed" \in Measure /\ 2 \in DOMAIN Places["ball_speed"] /\ "mph" \in DOMAIN SizeOf
    BY PlacesAre, FactorsAreSizes DEF Measure
  <2>2. Places["ball_speed"][2] = In("ball_speed_mph", "mph")
    BY DEF Places
  <2>3. body["ball_speed_mph"] \in Int
    BY <2>1, <2>2, NumberAt
  <2>4. PICK v \in Int : /\ InRange(v, Believable["ball_speed"])
                        /\ body["ball_speed_mph"] * SizeOf["mph"] - v < SizeOf["mph"]
                        /\ v - body["ball_speed_mph"] * SizeOf["mph"] < SizeOf["mph"]
    BY <1>1, <2>1, <2>2, RoundedInRange
  <2>5. SizeOf["mph"] = 402336
    BY FactorsAreSizes
  <2> QED
    BY <2>3, <2>4, <2>5, BelievableIs DEF InRange
<1>5. "ball_speed_kph" \in DOMAIN body => InRange(body["ball_speed_kph"], <<0, 430>>)
  <2> SUFFICES ASSUME "ball_speed_kph" \in DOMAIN body
               PROVE  InRange(body["ball_speed_kph"], <<0, 430>>)
    OBVIOUS
  <2>1. "ball_speed" \in Measure /\ 3 \in DOMAIN Places["ball_speed"] /\ "kph" \in DOMAIN SizeOf
    BY PlacesAre, FactorsAreSizes DEF Measure
  <2>2. Places["ball_speed"][3] = In("ball_speed_kph", "kph")
    BY DEF Places
  <2>3. body["ball_speed_kph"] \in Int
    BY <2>1, <2>2, NumberAt
  <2>4. PICK v \in Int : /\ InRange(v, Believable["ball_speed"])
                        /\ body["ball_speed_kph"] * SizeOf["kph"] - v < SizeOf["kph"]
                        /\ v - body["ball_speed_kph"] * SizeOf["kph"] < SizeOf["kph"]
    BY <1>1, <2>1, <2>2, RoundedInRange
  <2>5. SizeOf["kph"] = 250000
    BY FactorsAreSizes
  <2> QED
    BY <2>3, <2>4, <2>5, BelievableIs DEF InRange
<1>6. "ball_speed_mps" \in DOMAIN body => InRange(body["ball_speed_mps"], <<0, 120>>)
  <2> SUFFICES ASSUME "ball_speed_mps" \in DOMAIN body
               PROVE  InRange(body["ball_speed_mps"], <<0, 120>>)
    OBVIOUS
  <2>1. "ball_speed" \in Measure /\ 4 \in DOMAIN Places["ball_speed"] /\ "mps" \in DOMAIN SizeOf
    BY PlacesAre, FactorsAreSizes DEF Measure
  <2>2. Places["ball_speed"][4] = In("ball_speed_mps", "mps")
    BY DEF Places
  <2>3. body["ball_speed_mps"] \in Int
    BY <2>1, <2>2, NumberAt
  <2>4. PICK v \in Int : /\ InRange(v, Believable["ball_speed"])
                        /\ body["ball_speed_mps"] * SizeOf["mps"] - v < SizeOf["mps"]
                        /\ v - body["ball_speed_mps"] * SizeOf["mps"] < SizeOf["mps"]
    BY <1>1, <2>1, <2>2, RoundedInRange
  <2>5. SizeOf["mps"] = 900000
    BY FactorsAreSizes
  <2> QED
    BY <2>3, <2>4, <2>5, BelievableIs DEF InRange
<1>7. "club_speed_mph" \in DOMAIN body => InRange(body["club_speed_mph"], <<0, 230>>)
  <2> SUFFICES ASSUME "club_speed_mph" \in DOMAIN body
               PROVE  InRange(body["club_speed_mph"], <<0, 230>>)
    OBVIOUS
  <2>1. "club_speed" \in Measure /\ 2 \in DOMAIN Places["club_speed"] /\ "mph" \in DOMAIN SizeOf
    BY PlacesAre, FactorsAreSizes DEF Measure
  <2>2. Places["club_speed"][2] = In("club_speed_mph", "mph")
    BY DEF Places
  <2>3. body["club_speed_mph"] \in Int
    BY <2>1, <2>2, NumberAt
  <2>4. PICK v \in Int : /\ InRange(v, Believable["club_speed"])
                        /\ body["club_speed_mph"] * SizeOf["mph"] - v < SizeOf["mph"]
                        /\ v - body["club_speed_mph"] * SizeOf["mph"] < SizeOf["mph"]
    BY <1>1, <2>1, <2>2, RoundedInRange
  <2>5. SizeOf["mph"] = 402336
    BY FactorsAreSizes
  <2> QED
    BY <2>3, <2>4, <2>5, BelievableIs DEF InRange
<1>8. "club_speed_kph" \in DOMAIN body => InRange(body["club_speed_kph"], <<0, 370>>)
  <2> SUFFICES ASSUME "club_speed_kph" \in DOMAIN body
               PROVE  InRange(body["club_speed_kph"], <<0, 370>>)
    OBVIOUS
  <2>1. "club_speed" \in Measure /\ 3 \in DOMAIN Places["club_speed"] /\ "kph" \in DOMAIN SizeOf
    BY PlacesAre, FactorsAreSizes DEF Measure
  <2>2. Places["club_speed"][3] = In("club_speed_kph", "kph")
    BY DEF Places
  <2>3. body["club_speed_kph"] \in Int
    BY <2>1, <2>2, NumberAt
  <2>4. PICK v \in Int : /\ InRange(v, Believable["club_speed"])
                        /\ body["club_speed_kph"] * SizeOf["kph"] - v < SizeOf["kph"]
                        /\ v - body["club_speed_kph"] * SizeOf["kph"] < SizeOf["kph"]
    BY <1>1, <2>1, <2>2, RoundedInRange
  <2>5. SizeOf["kph"] = 250000
    BY FactorsAreSizes
  <2> QED
    BY <2>3, <2>4, <2>5, BelievableIs DEF InRange
<1>9. "club_speed_mps" \in DOMAIN body => InRange(body["club_speed_mps"], <<0, 103>>)
  <2> SUFFICES ASSUME "club_speed_mps" \in DOMAIN body
               PROVE  InRange(body["club_speed_mps"], <<0, 103>>)
    OBVIOUS
  <2>1. "club_speed" \in Measure /\ 4 \in DOMAIN Places["club_speed"] /\ "mps" \in DOMAIN SizeOf
    BY PlacesAre, FactorsAreSizes DEF Measure
  <2>2. Places["club_speed"][4] = In("club_speed_mps", "mps")
    BY DEF Places
  <2>3. body["club_speed_mps"] \in Int
    BY <2>1, <2>2, NumberAt
  <2>4. PICK v \in Int : /\ InRange(v, Believable["club_speed"])
                        /\ body["club_speed_mps"] * SizeOf["mps"] - v < SizeOf["mps"]
                        /\ v - body["club_speed_mps"] * SizeOf["mps"] < SizeOf["mps"]
    BY <1>1, <2>1, <2>2, RoundedInRange
  <2>5. SizeOf["mps"] = 900000
    BY FactorsAreSizes
  <2> QED
    BY <2>3, <2>4, <2>5, BelievableIs DEF InRange
<1>10. "launch_deg" \in DOMAIN body => InRange(body["launch_deg"], <<-10, 90>>)
  <2> SUFFICES ASSUME "launch_deg" \in DOMAIN body
               PROVE  InRange(body["launch_deg"], <<-10, 90>>)
    OBVIOUS
  <2>1. "launch" \in Measure /\ 2 \in DOMAIN Places["launch"] /\ "deg" \in DOMAIN SizeOf
    BY PlacesAre, FactorsAreSizes DEF Measure
  <2>2. Places["launch"][2] = In("launch_deg", "deg")
    BY DEF Places
  <2>3. body["launch_deg"] \in Int
    BY <2>1, <2>2, NumberAt
  <2>4. PICK v \in Int : /\ InRange(v, Believable["launch"])
                        /\ body["launch_deg"] * SizeOf["deg"] - v < SizeOf["deg"]
                        /\ v - body["launch_deg"] * SizeOf["deg"] < SizeOf["deg"]
    BY <1>1, <2>1, <2>2, RoundedInRange
  <2>5. SizeOf["deg"] = 1
    BY FactorsAreSizes
  <2> QED
    BY <2>3, <2>4, <2>5, BelievableIs DEF InRange
<1>11. "carry_yd" \in DOMAIN body => InRange(body["carry_yd"], <<0, 600>>)
  <2> SUFFICES ASSUME "carry_yd" \in DOMAIN body
               PROVE  InRange(body["carry_yd"], <<0, 600>>)
    OBVIOUS
  <2>1. "carry" \in Measure /\ 2 \in DOMAIN Places["carry"] /\ "yd" \in DOMAIN SizeOf
    BY PlacesAre, FactorsAreSizes DEF Measure
  <2>2. Places["carry"][2] = In("carry_yd", "yd")
    BY DEF Places
  <2>3. body["carry_yd"] \in Int
    BY <2>1, <2>2, NumberAt
  <2>4. PICK v \in Int : /\ InRange(v, Believable["carry"])
                        /\ body["carry_yd"] * SizeOf["yd"] - v < SizeOf["yd"]
                        /\ v - body["carry_yd"] * SizeOf["yd"] < SizeOf["yd"]
    BY <1>1, <2>1, <2>2, RoundedInRange
  <2>5. SizeOf["yd"] = 9144
    BY FactorsAreSizes
  <2> QED
    BY <2>3, <2>4, <2>5, BelievableIs DEF InRange
<1>12. "carry_m" \in DOMAIN body => InRange(body["carry_m"], <<0, 550>>)
  <2> SUFFICES ASSUME "carry_m" \in DOMAIN body
               PROVE  InRange(body["carry_m"], <<0, 550>>)
    OBVIOUS
  <2>1. "carry" \in Measure /\ 3 \in DOMAIN Places["carry"] /\ "m" \in DOMAIN SizeOf
    BY PlacesAre, FactorsAreSizes DEF Measure
  <2>2. Places["carry"][3] = In("carry_m", "m")
    BY DEF Places
  <2>3. body["carry_m"] \in Int
    BY <2>1, <2>2, NumberAt
  <2>4. PICK v \in Int : /\ InRange(v, Believable["carry"])
                        /\ body["carry_m"] * SizeOf["m"] - v < SizeOf["m"]
                        /\ v - body["carry_m"] * SizeOf["m"] < SizeOf["m"]
    BY <1>1, <2>1, <2>2, RoundedInRange
  <2>5. SizeOf["m"] = 10000
    BY FactorsAreSizes
  <2> QED
    BY <2>3, <2>4, <2>5, BelievableIs DEF InRange
<1>13. "total_yd" \in DOMAIN body => InRange(body["total_yd"], <<0, 700>>)
  <2> SUFFICES ASSUME "total_yd" \in DOMAIN body
               PROVE  InRange(body["total_yd"], <<0, 700>>)
    OBVIOUS
  <2>1. "total" \in Measure /\ 2 \in DOMAIN Places["total"] /\ "yd" \in DOMAIN SizeOf
    BY PlacesAre, FactorsAreSizes DEF Measure
  <2>2. Places["total"][2] = In("total_yd", "yd")
    BY DEF Places
  <2>3. body["total_yd"] \in Int
    BY <2>1, <2>2, NumberAt
  <2>4. PICK v \in Int : /\ InRange(v, Believable["total"])
                        /\ body["total_yd"] * SizeOf["yd"] - v < SizeOf["yd"]
                        /\ v - body["total_yd"] * SizeOf["yd"] < SizeOf["yd"]
    BY <1>1, <2>1, <2>2, RoundedInRange
  <2>5. SizeOf["yd"] = 9144
    BY FactorsAreSizes
  <2> QED
    BY <2>3, <2>4, <2>5, BelievableIs DEF InRange
<1>14. "total_m" \in DOMAIN body => InRange(body["total_m"], <<0, 640>>)
  <2> SUFFICES ASSUME "total_m" \in DOMAIN body
               PROVE  InRange(body["total_m"], <<0, 640>>)
    OBVIOUS
  <2>1. "total" \in Measure /\ 3 \in DOMAIN Places["total"] /\ "m" \in DOMAIN SizeOf
    BY PlacesAre, FactorsAreSizes DEF Measure
  <2>2. Places["total"][3] = In("total_m", "m")
    BY DEF Places
  <2>3. body["total_m"] \in Int
    BY <2>1, <2>2, NumberAt
  <2>4. PICK v \in Int : /\ InRange(v, Believable["total"])
                        /\ body["total_m"] * SizeOf["m"] - v < SizeOf["m"]
                        /\ v - body["total_m"] * SizeOf["m"] < SizeOf["m"]
    BY <1>1, <2>1, <2>2, RoundedInRange
  <2>5. SizeOf["m"] = 10000
    BY FactorsAreSizes
  <2> QED
    BY <2>3, <2>4, <2>5, BelievableIs DEF InRange
<1>15. "deviation_yd" \in DOMAIN body => InRange(body["deviation_yd"], <<-500, 500>>)
  <2> SUFFICES ASSUME "deviation_yd" \in DOMAIN body
               PROVE  InRange(body["deviation_yd"], <<-500, 500>>)
    OBVIOUS
  <2>1. "deviation" \in Measure /\ 2 \in DOMAIN Places["deviation"] /\ "yd" \in DOMAIN SizeOf
    BY PlacesAre, FactorsAreSizes DEF Measure
  <2>2. Places["deviation"][2] = In("deviation_yd", "yd")
    BY DEF Places
  <2>3. body["deviation_yd"] \in Int
    BY <2>1, <2>2, NumberAt
  <2>4. PICK v \in Int : /\ InRange(v, Believable["deviation"])
                        /\ body["deviation_yd"] * SizeOf["yd"] - v < SizeOf["yd"]
                        /\ v - body["deviation_yd"] * SizeOf["yd"] < SizeOf["yd"]
    BY <1>1, <2>1, <2>2, RoundedInRange
  <2>5. SizeOf["yd"] = 9144
    BY FactorsAreSizes
  <2> QED
    BY <2>3, <2>4, <2>5, BelievableIs DEF InRange
<1>16. "deviation_m" \in DOMAIN body => InRange(body["deviation_m"], <<-500, 500>>)
  <2> SUFFICES ASSUME "deviation_m" \in DOMAIN body
               PROVE  InRange(body["deviation_m"], <<-500, 500>>)
    OBVIOUS
  <2>1. "deviation" \in Measure /\ 3 \in DOMAIN Places["deviation"] /\ "m" \in DOMAIN SizeOf
    BY PlacesAre, FactorsAreSizes DEF Measure
  <2>2. Places["deviation"][3] = In("deviation_m", "m")
    BY DEF Places
  <2>3. body["deviation_m"] \in Int
    BY <2>1, <2>2, NumberAt
  <2>4. PICK v \in Int : /\ InRange(v, Believable["deviation"])
                        /\ body["deviation_m"] * SizeOf["m"] - v < SizeOf["m"]
                        /\ v - body["deviation_m"] * SizeOf["m"] < SizeOf["m"]
    BY <1>1, <2>1, <2>2, RoundedInRange
  <2>5. SizeOf["m"] = 10000
    BY FactorsAreSizes
  <2> QED
    BY <2>3, <2>4, <2>5, BelievableIs DEF InRange
<1>17. "deviation_ft" \in DOMAIN body => InRange(body["deviation_ft"], <<-1500, 1500>>)
  <2> SUFFICES ASSUME "deviation_ft" \in DOMAIN body
               PROVE  InRange(body["deviation_ft"], <<-1500, 1500>>)
    OBVIOUS
  <2>1. "deviation" \in Measure /\ 4 \in DOMAIN Places["deviation"] /\ "ft" \in DOMAIN SizeOf
    BY PlacesAre, FactorsAreSizes DEF Measure
  <2>2. Places["deviation"][4] = In("deviation_ft", "ft")
    BY DEF Places
  <2>3. body["deviation_ft"] \in Int
    BY <2>1, <2>2, NumberAt
  <2>4. PICK v \in Int : /\ InRange(v, Believable["deviation"])
                        /\ body["deviation_ft"] * SizeOf["ft"] - v < SizeOf["ft"]
                        /\ v - body["deviation_ft"] * SizeOf["ft"] < SizeOf["ft"]
    BY <1>1, <2>1, <2>2, RoundedInRange
  <2>5. SizeOf["ft"] = 3048
    BY FactorsAreSizes
  <2> QED
    BY <2>3, <2>4, <2>5, BelievableIs DEF InRange
<1>18. DOMAIN numbers = {"ball_speed_mph", "ball_speed_kph", "ball_speed_mps", "club_speed_mph",
                        "club_speed_kph", "club_speed_mps", "launch_deg", "carry_yd", "carry_m",
                        "total_yd", "total_m", "deviation_yd", "deviation_m", "deviation_ft"}
  BY DEF ProswingV2Schema
<1>19. /\ numbers["ball_speed_mph"] = <<0, 268>>
       /\ numbers["ball_speed_kph"] = <<0, 430>>
       /\ numbers["ball_speed_mps"] = <<0, 120>>
       /\ numbers["club_speed_mph"] = <<0, 230>>
       /\ numbers["club_speed_kph"] = <<0, 370>>
       /\ numbers["club_speed_mps"] = <<0, 103>>
       /\ numbers["launch_deg"] = <<-10, 90>>
       /\ numbers["carry_yd"] = <<0, 600>>
       /\ numbers["carry_m"] = <<0, 550>>
       /\ numbers["total_yd"] = <<0, 700>>
       /\ numbers["total_m"] = <<0, 640>>
       /\ numbers["deviation_yd"] = <<-500, 500>>
       /\ numbers["deviation_m"] = <<-500, 500>>
       /\ numbers["deviation_ft"] = <<-1500, 1500>>
  BY DEF ProswingV2Schema
<1>20. DOMAIN ProswingV2Schema.readings = {}
  BY DEF ProswingV2Schema
<1> HIDE DEF numbers
<1>21. \A n \in DOMAIN numbers \cap DOMAIN body : InRange(body[n], numbers[n])
  BY <1>4, <1>5, <1>6, <1>7, <1>8, <1>9, <1>10, <1>11, <1>12, <1>13, <1>14, <1>15, <1>16, <1>17,
     <1>18, <1>19
<1>22. Accepts(ProswingV2Schema, body)
  BY <1>1, <1>20, <1>21 DEF Accepts, HasRanges, numbers
<1> QED
  BY <1>2, <1>3, <1>22 DEF AcceptsProswing, AcceptsV2

=============================================================================
