----------------------------- MODULE VendorSchemas -----------------------------
(***************************************************************************)
(* What the webhooks accept: the zod schemas of the three vendors, and the *)
(* step that turns every wire format of a vendor into one. A JSON object   *)
(* is a function whose domain is the set of fields that are present; the   *)
(* nested objects of a payload (player, data, shot) are flattened, their   *)
(* field names do not collide. A measurement is a number, or a reading: a  *)
(* value with its unit. Texts are opaque: they have a length, parts, which *)
(* are what is between the "|" in them, and colons; PostgreSQL can store   *)
(* them.                                                                   *)
(***************************************************************************)
EXTENDS Integers, Sequences

CONSTANTS
    Text,           \* identifiers and tokens
    LengthOf,       \* [Text -> Nat]
    Part,           \* texts without "|"
    PartsOf,        \* [Text -> Seq(Part)]: what is between the "|" of a text
    ColonsIn,       \* [Part -> Nat]: how many ":" there are in a part
    MaxTimestamp,   \* the largest integer zod's int() accepts, as a time
    NoReading       \* a measurement that is absent

ASSUME TextsHaveLengths == LengthOf \in [Text -> Nat]
ASSUME TextsHaveParts ==
    /\ PartsOf \in [Text -> Seq(Part)] /\ ColonsIn \in [Part -> Nat]
    /\ \A s, t \in Text : PartsOf[s] = PartsOf[t] => s = t
ASSUME TimestampsAreNumbers == MaxTimestamp \in Nat

Measure == {"ball_speed", "club_speed", "launch", "spin", "carry", "total",
            "deviation"}

-----------------------------------------------------------------------------
(* zod objects: texts with their lengths, numbers with their ranges, and   *)
(* readings with the range of each unit. "given" are the fields of another *)
(* form: instants with an offset, and the spelling of a club.              *)

InRange(v, range) == range[1] <= v /\ v <= range[2]

\* No field that is not named, every field that is not optional, texts of their
\* lengths and readings in units of theirs.
HasFields(schema, body) ==
    LET texts == DOMAIN schema.texts
        readings == DOMAIN schema.readings
        known == texts \cup DOMAIN schema.numbers \cup readings \cup schema.given
        present == DOMAIN body
    IN  /\ present \subseteq known
        /\ known \ schema.optional \subseteq present
        /\ \A n \in texts \cap present :
              InRange(LengthOf[body[n]], schema.texts[n])
        /\ \A n \in readings \cap present : body[n].unit \in DOMAIN schema.readings[n]

\* Each number in its range, and each value in that of its unit.
HasRanges(schema, body) ==
    /\ \A n \in DOMAIN schema.numbers \cap DOMAIN body :
          InRange(body[n], schema.numbers[n])
    /\ \A n \in DOMAIN schema.readings \cap DOMAIN body :
          InRange(body[n].value, schema.readings[n][body[n].unit])

\* z.object(...).strict()
Accepts(schema, body) == HasFields(schema, body) /\ HasRanges(schema, body)

Name == <<1, 255>>      \* z.string().min(1).max(255)
Token == <<8, 255>>     \* user_token

-----------------------------------------------------------------------------
(* TrackPro: one wire format, SI units.                                    *)

\* The regular expression of shot_uid fixes its length, and leaves "|" and ":" out.
IsShotUid(text) == Len(PartsOf[text]) = 1 /\ ColonsIn[PartsOf[text][1]] = 0

TrackproSchema ==
    [texts |-> [shot_uid |-> <<22, 22>>, user_external_id |-> Name,
                session_id |-> Name, device_id |-> Name],
     given |-> {"captured_at", "club"},
     numbers |-> [ball_speed_mps |-> <<0, 120>>, club_head_speed_mps |-> <<0, 100>>,
                  launch_angle_deg |-> <<-10, 70>>, spin_rpm |-> <<0, 15000>>,
                  carry_distance_m |-> <<0, 450>>, total_distance_m |-> <<0, 500>>,
                  side_deviation_m |-> <<-200, 200>>],
     readings |-> <<>>,
     optional |-> {"session_id", "device_id", "club_head_speed_mps", "spin_rpm",
                   "total_distance_m"}]

AcceptsTrackpro(body) == Accepts(TrackproSchema, body) /\ IsShotUid(body.shot_uid)

-----------------------------------------------------------------------------
(* SwingMetric: two generations of names, mph and yards.                   *)

\* The name a field has in the schema, for the fields that had another.
Renamed ==
    [club_used |-> "club", launch_angle |-> "launch_deg", carry_yds |-> "carry_yd",
     total_yds |-> "total_yd", offline_yds |-> "offline_yd"]

\* Mutant: old names are copied, and stay.
NormaliseOldKept(body) ==
    LET old == DOMAIN Renamed \cap DOMAIN body
    IN  [n \in DOMAIN body \cup {Renamed[o] : o \in old} |->
            IF n \in DOMAIN body THEN body[n]
                                 ELSE body[CHOOSE o \in old : Renamed[o] = n]]

\* normaliseShot: old names are taken out, and stand in for new ones that are
\* not there.
NormaliseShot(body) ==
    LET old == DOMAIN Renamed \cap DOMAIN body
        kept == DOMAIN body \ DOMAIN Renamed
    IN  [n \in kept \cup {Renamed[o] : o \in old} |->
            IF n \in kept THEN body[n]
                          ELSE body[CHOOSE o \in old : Renamed[o] = n]]

SwingmetricSchema ==
    [texts |-> [player |-> Name, device |-> Name, session_id |-> Name],
     given |-> {"club"},
     numbers |-> [ts_ms |-> <<0, MaxTimestamp>>, ball_speed_mph |-> <<0, 268>>,
                  swing_speed_mph |-> <<0, 230>>, launch_deg |-> <<-10, 70>>,
                  spin_rpm |-> <<0, 15000>>, carry_yd |-> <<0, 490>>,
                  total_yd |-> <<0, 545>>, offline_yd |-> <<-220, 220>>],
     readings |-> <<>>,
     optional |-> {"swing_speed_mph", "spin_rpm", "total_yd"}]

-----------------------------------------------------------------------------
(* ProSwing: three versions told apart by their structure.                 *)

SpeedUnit == {"mph", "kph", "mps"}
BallSpeed == [u \in SpeedUnit |-> IF u = "mps" THEN <<0, 120>> ELSE <<0, 500>>]
ClubSpeed == [u \in SpeedUnit |-> <<0, 300>>]
Distance == [u \in {"yd", "m", "ft"} |-> <<-500, 700>>]

Measurements ==
    [ball_speed |-> BallSpeed, club_speed |-> ClubSpeed, carry |-> Distance,
     total |-> Distance, deviation |-> Distance]

ProswingV1Schema ==
    [texts |-> [user_token |-> Token, id |-> Name],
     given |-> {"occurred_at", "club_code"},
     numbers |-> <<>>,
     readings |-> [m \in DOMAIN Measurements \cup {"launch"} |->
                      IF m = "launch" THEN [deg |-> <<-10, 90>>]
                                      ELSE Measurements[m]],
     optional |-> {"club_speed", "total"}]

\* V2: one flat field per unit. The fields of a measurement, the one that wins
\* first, with their units.
FlatFields ==
    [ball_speed |-> <<[name |-> "ball_speed_mph", unit |-> "mph"],
                      [name |-> "ball_speed_kph", unit |-> "kph"],
                      [name |-> "ball_speed_mps", unit |-> "mps"]>>,
     club_speed |-> <<[name |-> "club_speed_mph", unit |-> "mph"],
                      [name |-> "club_speed_kph", unit |-> "kph"],
                      [name |-> "club_speed_mps", unit |-> "mps"]>>,
     carry |-> <<[name |-> "carry_yd", unit |-> "yd"],
                 [name |-> "carry_m", unit |-> "m"]>>,
     total |-> <<[name |-> "total_yd", unit |-> "yd"],
                 [name |-> "total_m", unit |-> "m"]>>,
     deviation |-> <<[name |-> "deviation_yd", unit |-> "yd"],
                     [name |-> "deviation_m", unit |-> "m"],
                     [name |-> "deviation_ft", unit |-> "ft"]>>]

ProswingV2Schema ==
    LET ranges ==
          [ball_speed_mph |-> <<0, 268>>, ball_speed_kph |-> <<0, 430>>,
           ball_speed_mps |-> <<0, 120>>, club_speed_mph |-> <<0, 230>>,
           club_speed_kph |-> <<0, 370>>, club_speed_mps |-> <<0, 103>>,
           launch_deg |-> <<-10, 90>>, carry_yd |-> <<0, 600>>,
           carry_m |-> <<0, 550>>, total_yd |-> <<0, 700>>, total_m |-> <<0, 640>>,
           deviation_yd |-> <<-500, 500>>, deviation_m |-> <<-500, 500>>,
           deviation_ft |-> <<-1500, 1500>>]
    IN  [texts |-> [user_token |-> Token, id |-> Name],
         given |-> {"occurred_at", "club_code"},
         numbers |-> ranges,
         readings |-> <<>>,
         optional |-> DOMAIN ranges \ {"launch_deg"}]

ProswingV3Schema ==
    [texts |-> [player |-> Name, device |-> Name, id |-> Name],
     given |-> {"occurred_at", "club_code"},
     numbers |-> [launch_angle |-> <<-10, 90>>, spin_rpm |-> <<0, 15000>>],
     readings |-> Measurements,
     optional |-> {"device", "club_speed", "spin_rpm", "total"}]

\* Which fields of a flat measurement are there.
Populated(body, measure) ==
    {i \in DOMAIN FlatFields[measure] : FlatFields[measure][i].name \in DOMAIN body}

DetectVersion(body) ==
    IF "player" \in DOMAIN body THEN "v3"
    ELSE IF Populated(body, "ball_speed") # {} THEN "v2" ELSE "v1"

\* The superRefine of V2: one field at least of each required measurement.
AcceptsV2(body) ==
    /\ Accepts(ProswingV2Schema, body)
    /\ \A m \in {"ball_speed", "carry", "deviation"} : Populated(body, m) # {}

AcceptsProswing(body) ==
    LET version == DetectVersion(body)
    IN  \/ version = "v1" /\ Accepts(ProswingV1Schema, body)
        \/ version = "v2" /\ AcceptsV2(body)
        \/ version = "v3" /\ Accepts(ProswingV3Schema, body)

-----------------------------------------------------------------------------
(* The canonical ProSwing payload: a reading of each measurement.          *)

Optional(body, field, unit) ==
    IF field \in DOMAIN body THEN [value |-> body[field], unit |-> unit]
                             ELSE NoReading

Nested(body, measure) ==
    IF measure \in DOMAIN body THEN body[measure] ELSE NoReading

\* fromV2: the first populated variant wins.
FirstVariant(body, measure) ==
    LET there == Populated(body, measure)
        first == FlatFields[measure][CHOOSE i \in there : \A j \in there : i <= j]
    IN  IF there = {} THEN NoReading
                      ELSE [value |-> body[first.name], unit |-> first.unit]

FromV1(body) == [m \in Measure |-> Nested(body, m)]

FromV2(body) ==
    [m \in Measure |->
        CASE m = "launch" -> Optional(body, "launch_deg", "deg")
          [] m = "spin" -> NoReading
          [] OTHER -> FirstVariant(body, m)]

FromV3(body) ==
    [m \in Measure |->
        CASE m = "launch" -> Optional(body, "launch_angle", "deg")
          [] m = "spin" -> Optional(body, "spin_rpm", "rpm")
          [] OTHER -> Nested(body, m)]

\* parseProswingRaw, after validation.
CanonicalReadings(body) ==
    LET version == DetectVersion(body)
    IN  CASE version = "v1" -> FromV1(body)
          [] version = "v2" -> FromV2(body)
          [] OTHER -> FromV3(body)

\* V3 has a player in place of the token.
UserToken(body) ==
    IF DetectVersion(body) = "v3" THEN body.player ELSE body.user_token

=============================================================================
