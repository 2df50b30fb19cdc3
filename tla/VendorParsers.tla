----------------------------- MODULE VendorParsers -----------------------------
(***************************************************************************)
(* What becomes of an accepted payload: units, clubs, idempotency keys,    *)
(* the row the INSERT tries to write, and what the table takes.            *)
(* Speeds are counted in 1/900000 m/s and distances in 1/10000 m, so that  *)
(* every conversion of units.ts is a whole factor.                         *)
(***************************************************************************)
EXTENDS VendorSchemas

LOCAL INSTANCE Functions

CONSTANTS
    Second,         \* a second, in the units of time
    LastInstant,    \* the last instant a JavaScript Date holds
    Null

ASSUME SecondIsPositive == Second \in Nat \ {0}
ASSUME DatesEnd == LastInstant \in Nat
ASSUME NullIsNoNumber == Null \notin Int

Vendor == {"trackpro", "swingmetric", "proswing"}

-----------------------------------------------------------------------------
(* units.ts *)

MpsToMps == 900000
MphToMps == 402336      \* 0.44704
KphToMps == 250000      \* 1 / 3.6
MToM == 10000
YdToM == 9144
FtToM == 3048

Factor ==
    [mph |-> MphToMps, kph |-> KphToMps, mps |-> MpsToMps,
     yd |-> YdToM, ft |-> FtToM, m |-> MToM, deg |-> 1, rpm |-> 1]

ASSUME NoReadingIsNone == NoReading \notin [value : Int, unit : DOMAIN Factor]

\* Mutant: kilometres per hour are converted as miles per hour.
KphAsMph(reading) ==
    IF reading = NoReading THEN Null
    ELSE reading.value * (IF reading.unit = "kph" THEN MphToMps ELSE Factor[reading.unit])

\* convertSpeed, convertDistance, and the plain copies of the other parsers.
ToSI(reading) ==
    IF reading = NoReading THEN Null ELSE reading.value * Factor[reading.unit]

-----------------------------------------------------------------------------
(* Clubs. A code is a number and a kind; a spelling is a code in one of    *)
(* the forms a vendor may write it in, trimmed and case folded: the code   *)
(* ("7I"), inverted ("I7"), in words ("7 iron", "pitching wedge"), in one  *)
(* word ("7iron"), with a hyphen ("7-iron"), reversed ("iron 7", "fairway  *)
(* 3"), in some other short way ("1w", "p wedge", "putt"), as another      *)
(* text, or as the name of a member that every JavaScript object inherits  *)
(* ("constructor"). A form that a club does not have is another text.      *)

Numbered == (({3, 4, 5, 7} \X {"W"}) \cup ((2 .. 5) \X {"H"})) \cup ((1 .. 9) \X {"I"})
Unnumbered == {0} \X {"DR", "PW", "GW", "AW", "SW", "LW", "PT"}
Unknown == <<0, "UNKNOWN">>
ClubCode == (Numbered \cup Unnumbered) \cup {Unknown}

Spelling ==
    [form : {"code", "inverted", "words", "word", "hyphen", "reversed", "short",
             "other", "inherited"},
     code : ClubCode]

\* The code ALIAS_MAP has for a spelling; a lookup of an inherited member
\* finds the member, which no JSON text and no row holds.
AliasOf(spelling) ==
    CASE spelling.form = "words" /\ spelling.code \in Numbered \cup Unnumbered ->
            spelling.code
      [] spelling.form = "word" /\ spelling.code \in Numbered -> spelling.code
      [] spelling.form = "inherited" -> Null
      [] OTHER -> Unknown

NormaliseClub(spelling) ==
    IF \/ spelling.form = "code" /\ spelling.code \in ClubCode
       \/ spelling.form = "inverted" /\ spelling.code \in ClubCode \cap ((0 .. 9) \X {"I"})
      THEN spelling.code
      ELSE AliasOf(spelling)

-----------------------------------------------------------------------------
(* The parsers. A row has what the INSERT writes and a property reads. An  *)
(* idempotency key is one text, the prefix of the vendor, the identifiers  *)
(* and a bucket joined by "|", which nothing escapes: what it shows of the *)
(* identifiers are the parts of all of them, in a row.                     *)

Key(prefix, ids, bucket) == [prefix |-> prefix, ids |-> ids, bucket |-> bucket]

\* The colons of a key are those of its identifiers.
Colons(ids) == SumFunction([i \in DOMAIN ids |-> ColonsIn[ids[i]]])

Row(vendor, key, user, at, offset, spelling, readings) ==
    [vendor |-> vendor, key |-> key, user |-> user, at |-> at, offset |-> offset,
     club |-> NormaliseClub(spelling),
     measures |-> [m \in Measure |-> ToSI(readings[m])]]

TrackproReadings(body) ==
    [ball_speed |-> Optional(body, "ball_speed_mps", "mps"),
     club_speed |-> Optional(body, "club_head_speed_mps", "mps"),
     launch |-> Optional(body, "launch_angle_deg", "deg"),
     spin |-> Optional(body, "spin_rpm", "rpm"),
     carry |-> Optional(body, "carry_distance_m", "m"),
     total |-> Optional(body, "total_distance_m", "m"),
     deviation |-> Optional(body, "side_deviation_m", "m")]

ParseTrackpro(body) ==
    Row("trackpro", Key("tp", PartsOf[body.shot_uid], Null), body.user_external_id,
        body.captured_at.instant, Null, body.club, TrackproReadings(body))

SwingmetricReadings(body) ==
    [ball_speed |-> Optional(body, "ball_speed_mph", "mph"),
     club_speed |-> Optional(body, "swing_speed_mph", "mph"),
     launch |-> Optional(body, "launch_deg", "deg"),
     spin |-> Optional(body, "spin_rpm", "rpm"),
     carry |-> Optional(body, "carry_yd", "yd"),
     total |-> Optional(body, "total_yd", "yd"),
     deviation |-> Optional(body, "offline_yd", "yd")]

\* The bucket of a second in which one device reports one shot.
TimeBucket(t) == t \div Second

SwingmetricKey(body) ==
    Key("sm", PartsOf[body.player] \o PartsOf[body.device], TimeBucket(body.ts_ms))

ParseSwingmetric(body) ==
    Row("swingmetric", SwingmetricKey(body), body.player, body.ts_ms, Null,
        body.club, SwingmetricReadings(body))

ProswingKey(body) == Key("ps", PartsOf[UserToken(body)] \o PartsOf[body.id], Null)

\* parseTzOffset: the schema lets no offset through that Date does not know.
ParseProswing(body) ==
    Row("proswing", ProswingKey(body), UserToken(body), body.occurred_at.instant,
        body.occurred_at.offset, body.club_code, CanonicalReadings(body))

\* toISOString throws beyond the range of Date; only ts_ms can be there.
DateExists(row) == row.at <= LastInstant

-----------------------------------------------------------------------------
(* The shots table. *)

\* The CHECK of each measure: the least value, and a bound with whether it is
\* itself allowed.
Check ==
    [ball_speed |-> [least |-> 0, bound |-> 120 * MpsToMps, closed |-> FALSE],
     club_speed |-> [least |-> 0, bound |-> 100 * MpsToMps, closed |-> FALSE],
     launch |-> [least |-> -10, bound |-> 70, closed |-> TRUE],
     spin |-> [least |-> 0, bound |-> 15000, closed |-> FALSE],
     carry |-> [least |-> 0, bound |-> 450 * MToM, closed |-> FALSE],
     total |-> [least |-> 0, bound |-> 500 * MToM, closed |-> FALSE],
     deviation |-> [least |-> -200 * MToM, bound |-> 200 * MToM, closed |-> TRUE]]

Passes(check, v) ==
    check.least <= v /\ (v < check.bound \/ (check.closed /\ v = check.bound))

\* Mutant: a CHECK of the carry as tight as the longest drive of a tour.
StorableShortCarry(row) ==
    /\ row.club \in ClubCode
    /\ \A m \in Measure : row.measures[m] # Null => Passes(Check[m], row.measures[m])
    /\ row.measures["carry"] < 300 * MToM

\* The INSERT passes NOT NULL, the enumerations and the CHECKs.
Storable(row) ==
    /\ row.club \in ClubCode
    /\ \A m \in Measure : row.measures[m] # Null => Passes(Check[m], row.measures[m])

=============================================================================
