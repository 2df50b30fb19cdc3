----------------------------- MODULE VendorContract ----------------------------
(***************************************************************************)
(* What the vendors' JSON says, whatever the wire format: a field means    *)
(* what its name says. This is no part of the program: schemas and parsers *)
(* are measured by it. Units are those of the table (VendorParsers), by    *)
(* the definition of each: a foot is 12 inches of 254/10000 m, a yard 3    *)
(* feet, a mile 1760 yards, and 1/10000 m in an hour is 1/40 of 1/900000 m *)
(* in a second.                                                            *)
(***************************************************************************)
EXTENDS VendorParsers

Foot == 12 * 254
Yard == 3 * Foot
Mile == 1760 * Yard

SizeOf ==
    [mph |-> Mile \div 40, kph |-> (1000 * 10000) \div 40,
     mps |-> (3600 * 10000) \div 40, yd |-> Yard, ft |-> Foot, m |-> 10000,
     deg |-> 1, rpm |-> 1]

\* Where a measure is said: in a field whose name has the unit, or in a reading,
\* that has a unit of its own.
In(field, unit) == [field |-> field, unit |-> unit]
Own(field) == In(field, "own")

\* Of several fields that say one measure the first one in this order counts.
Places ==
    [ball_speed |-> <<Own("ball_speed"), In("ball_speed_mph", "mph"),
                      In("ball_speed_kph", "kph"), In("ball_speed_mps", "mps")>>,
     club_speed |-> <<Own("club_speed"), In("club_speed_mph", "mph"),
                      In("club_speed_kph", "kph"), In("club_speed_mps", "mps"),
                      In("swing_speed_mph", "mph"), In("club_head_speed_mps", "mps")>>,
     launch |-> <<Own("launch"), In("launch_deg", "deg"), In("launch_angle", "deg"),
                  In("launch_angle_deg", "deg")>>,
     spin |-> <<In("spin_rpm", "rpm")>>,
     carry |-> <<Own("carry"), In("carry_yd", "yd"), In("carry_m", "m"),
                 In("carry_yds", "yd"), In("carry_distance_m", "m")>>,
     total |-> <<Own("total"), In("total_yd", "yd"), In("total_m", "m"),
                 In("total_yds", "yd"), In("total_distance_m", "m")>>,
     deviation |-> <<Own("deviation"), In("deviation_yd", "yd"), In("deviation_m", "m"),
                     In("deviation_ft", "ft"), In("offline_yd", "yd"),
                     In("offline_yds", "yd"), In("side_deviation_m", "m")>>]

ValueAt(body, place) ==
    IF place.unit = "own" THEN body[place.field].value ELSE body[place.field]
UnitAt(body, place) ==
    IF place.unit = "own" THEN body[place.field].unit ELSE place.unit
AmountAt(body, place) == ValueAt(body, place) * SizeOf[UnitAt(body, place)]

\* Every field at one of the places has a whole number and a unit there is.
HasNumbers(body, places) ==
    \A i \in DOMAIN places : places[i].field \in DOMAIN body =>
        IF places[i].unit = "own"
          THEN body[places[i].field] \in [value : Int, unit : DOMAIN SizeOf]
          ELSE body[places[i].field] \in Int

\* v is what the body says at these places: nothing, or the first that is there.
Says(body, places, v) ==
    \/ /\ \A i \in DOMAIN places : places[i].field \notin DOMAIN body
       /\ v = Null
    \/ \E i \in DOMAIN places :
          /\ places[i].field \in DOMAIN body
          /\ \A j \in 1 .. (i - 1) : places[j].field \notin DOMAIN body
          /\ v = AmountAt(body, places[i])

\* A field that does not count says the same, rounded to its unit.
Rounds(body, place, v) ==
    place.field \in DOMAIN body =>
        /\ AmountAt(body, place) - v < SizeOf[UnitAt(body, place)]
        /\ v - AmountAt(body, place) < SizeOf[UnitAt(body, place)]

\* The spellings that mean a club: the codes, and the aliases that the repository
\* seeds the table club_aliases with.
Irons == (1 .. 9) \X {"I"}
Wedges == {0} \X {"PW", "GW", "AW", "SW", "LW"}

Seeded ==
    [code |-> ClubCode, inverted |-> Irons, words |-> Numbered \cup Unnumbered,
     word |-> Numbered \cup Wedges, hyphen |-> Numbered \cup Wedges,
     reversed |-> Irons \cup ((2 .. 5) \X {"H"}) \cup ({3, 5} \X {"W"}),
     short |-> {0} \X {"DR", "PW", "AW", "PT"}]

Meant(spelling) ==
    IF spelling.form \in DOMAIN Seeded /\ spelling.code \in Seeded[spelling.form]
      THEN spelling.code ELSE Unknown

\* Aliases that are seeded and that nothing reads.
OnlySeeded(spelling) ==
    \/ spelling.form \in {"hyphen", "reversed", "short"}
    \/ spelling.form = "word" /\ spelling.code \in Wedges

SpellingsIn(body) == {body[n] : n \in {"club", "club_code", "club_used"} \cap DOMAIN body}

\* A row may have this club for one that was spelt in these ways: the club that is
\* meant; none that is known, if only the seed has the alias; or no club at all.
MayRead(club, meant, spellings) ==
    \/ club = meant
    \/ club = Unknown /\ \E spelling \in spellings : OnlySeeded(spelling)
    \/ club = Null /\ \E spelling \in spellings : spelling.form = "inherited"

\* The body is about a shot: who hit it, with what, when, and what was measured.
IsAbout(body, shot, device, id) ==
    /\ \A f \in {"user_external_id", "player", "user_token"} \cap DOMAIN body :
          body[f] = shot.user
    /\ \A f \in {"shot_uid", "id"} \cap DOMAIN body : body[f] = id
    /\ "device" \in DOMAIN body => body.device = device
    /\ "ts_ms" \in DOMAIN body => body.ts_ms = shot.at
    /\ \A f \in {"captured_at", "occurred_at"} \cap DOMAIN body : body[f].instant = shot.at
    /\ \A f \in {"club", "club_code"} \cap DOMAIN body :
          body[f] \in Spelling /\ Meant(body[f]) = shot.club
    /\ "club_used" \in DOMAIN body /\ "club" \notin DOMAIN body =>
          body.club_used \in Spelling /\ Meant(body.club_used) = shot.club
    /\ \A m \in Measure :
          HasNumbers(body, Places[m]) /\ Says(body, Places[m], shot.measures[m])

\* What a device measured: the instant, the club and the measures in the units of
\* the table.
Measurement ==
    [vendor : Vendor, user : Text, at : Int, club : ClubCode,
     measures : [Measure -> Int \cup {Null}]]

\* SwingMetric's fields may have their names or those of the generation before.
OldName ==
    [club |-> "club_used", launch_deg |-> "launch_angle", carry_yd |-> "carry_yds",
     total_yd |-> "total_yds", offline_yd |-> "offline_yds"]

SwingmetricFields ==
    {"player", "device", "session_id", "ts_ms", "club", "ball_speed_mph",
     "swing_speed_mph", "launch_deg", "spin_rpm", "carry_yd", "total_yd", "offline_yd"}

AgreedSwingmetric(body) ==
    /\ DOMAIN body \subseteq SwingmetricFields \cup {OldName[n] : n \in DOMAIN OldName}
    /\ \A n \in SwingmetricFields \ {"swing_speed_mph", "spin_rpm", "total_yd"} :
          n \in DOMAIN body \/ (n \in DOMAIN OldName /\ OldName[n] \in DOMAIN body)
    /\ \A n \in {"player", "device", "session_id"} : LengthOf[body[n]] \in 1 .. 255
    /\ body.ts_ms \in 0 .. MaxTimestamp

\* What was agreed on for a wire format: the fields of its schema, whatever the
\* numbers in them. A ProSwing field that does not count is a rounded one that does.
Agreed(format, body, shot) ==
    /\ format = "tp" => HasFields(TrackproSchema, body) /\ IsShotUid(body.shot_uid)
    /\ format \in {"sm1", "sm2"} => AgreedSwingmetric(body)
    /\ format = "ps1" => HasFields(ProswingV1Schema, body)
    /\ format = "ps2" =>
          /\ HasFields(ProswingV2Schema, body)
          /\ \A m \in {"ball_speed", "carry", "deviation"} : shot.measures[m] # Null
          /\ \A m \in Measure : \A i \in DOMAIN Places[m] :
                Rounds(body, Places[m][i], shot.measures[m])
    /\ format = "ps3" => HasFields(ProswingV3Schema, body)

-----------------------------------------------------------------------------
(* What is plausible.                                                      *)

\* What a club and a ball can do, with the margin the table has for all vendors.
Believable ==
    [ball_speed |-> <<0, 119 * MpsToMps>>, club_speed |-> <<0, 83 * MpsToMps>>,
     launch |-> <<-10, 70>>, spin |-> <<0, 14999>>, carry |-> <<0, 448 * MToM>>,
     total |-> <<0, 498 * MToM>>, deviation |-> <<-200 * MToM, 200 * MToM>>]

IsPlausible(shot) ==
    \A m \in Measure : shot.measures[m] # Null =>
        InRange(shot.measures[m], Believable[m])

\* A nested distance in feet has the range of one in yards or metres: a drive of
\* 701 feet, 214 metres, is refused.
FarInFeet(body) ==
    \E d \in {"carry", "total", "deviation"} \cap DOMAIN body :
        body[d].unit = "ft" /\ body[d].value \notin -500 .. 700

=============================================================================
