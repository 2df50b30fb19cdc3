----------------------------- MODULE MCApiGateway -----------------------------
(***************************************************************************)
(* Instances of ApiGateway. A shot is measured in the units of its vendor; *)
(* Body encodes it in every wire format that has those units, and Truth    *)
(* converts it to the units of the table (VendorContract).                 *)
(* Each boundary of a schema or of a CHECK is met by a shot on either side *)
(* of it, alone; what concurrent requests, repetitions and environments do *)
(* is tried with ordinary shots.                                           *)
(***************************************************************************)
EXTENDS ApiGateway, TLC

CONSTANTS alice, uid, uid2, rid, rid2, deviceA, deviceB, session, stub, u1, u2, u3, u12, u23,
          mac, pair

\* u12 is "x|y", u23 is "y|z"; mac is an address with five colons, pair has two.
MCText == {alice, uid, uid2, rid, rid2, deviceA, deviceB, session, stub, u1, u2, u3, u12, u23,
           mac, pair}
MCPartsOf ==
    [t \in MCText |-> CASE t = u12 -> <<u1, u2>> [] t = u23 -> <<u2, u3>> [] OTHER -> <<t>>]
MCColonsIn == [t \in MCText |-> CASE t = mac -> 5 [] t = pair -> 2 [] OTHER -> 0]
MCLengthOf == [t \in MCText |-> CASE t \in {uid, uid2} -> 22 [] t = stub -> 7 [] OTHER -> 12]

-----------------------------------------------------------------------------
(* Shots: the measures as [value, unit], and what is odd about the JSON.   *)

Reading(v, u) == [value |-> v, unit |-> u]

Typical(speed, distance) ==
    [ball_speed |-> Reading(60, speed), club_speed |-> Reading(40, speed),
     launch |-> Reading(12, "deg"), spin |-> Reading(2700, "rpm"),
     carry |-> Reading(230, distance), total |-> Reading(250, distance),
     deviation |-> Reading(-4, distance)]

A == [vendor |-> "trackpro", measures |-> Typical("mps", "m"), at |-> 9,
      club |-> [form |-> "code", code |-> <<7, "I">>], odd |-> "",
      user |-> alice, device |-> deviceA, id |-> uid]
B == [A EXCEPT !.vendor = "swingmetric", !.measures = Typical("mph", "yd")]
B2 == [B EXCEPT !.device = deviceB, !.measures["launch"] = Reading(13, "deg")]
C == [A EXCEPT !.vendor = "proswing", !.id = rid, !.measures = [Typical("kph", "m") EXCEPT !.spin = NoReading]]

Speeds(u, values) == {Reading(v, u) : v \in values}
WideOf(base, m, readings) == {[base EXCEPT !.measures = [@ EXCEPT ![m] = r]] : r \in readings}

WideTrackpro ==
    WideOf(A, "ball_speed", Speeds("mps", {-1, 0, 119, 120, 121}))
    \cup WideOf(A, "club_speed", Speeds("mps", {-1, 0, 99, 100, 101}) \cup {NoReading})
    \cup WideOf(A, "launch", Speeds("deg", {-11, -10, 70, 71}))
    \cup WideOf(A, "spin", Speeds("rpm", {0, 14999, 15000, 15001}) \cup {NoReading})
    \cup WideOf(A, "carry", Speeds("m", {-1, 0, 449, 450, 451}))
    \cup WideOf(A, "total", Speeds("m", {0, 499, 500, 501}) \cup {NoReading})
    \cup WideOf(A, "deviation", Speeds("m", {-201, -200, 200, 201}))

WideSwingmetric ==
    WideOf(B, "ball_speed", Speeds("mph", {-1, 0, 266, 268, 269}))
    \cup WideOf(B, "club_speed", Speeds("mph", {0, 223, 224, 230, 231}) \cup {NoReading})
    \cup WideOf(B, "launch", Speeds("deg", {-11, -10, 70, 71}))
    \cup WideOf(B, "spin", Speeds("rpm", {0, 14999, 15000, 15001}) \cup {NoReading})
    \cup WideOf(B, "carry", Speeds("yd", {-1, 0, 489, 490, 491}))
    \cup WideOf(B, "total", Speeds("yd", {544, 545, 546}) \cup {NoReading})
    \cup WideOf(B, "deviation", Speeds("yd", {-221, -220, -219, -218, 218, 219, 220}))

Distances(edges) ==
    UNION {Speeds(u, {edges[u], edges[u] + 1}) : u \in DOMAIN edges}

WideProswing ==
    WideOf(C, "ball_speed",
           Speeds("mph", {0, 266, 268, 269, 501}) \cup Speeds("mps", {-1, 119, 120, 121})
           \cup Speeds("kph", {428, 430, 431, 432, 500, 501}))
    \cup WideOf(C, "club_speed",
           Speeds("mph", {221, 223, 224, 230, 231, 301}) \cup Speeds("mps", {99, 100, 103, 104})
           \cup Speeds("kph", {356, 360, 370, 371}) \cup {NoReading})
    \cup WideOf(C, "launch", Speeds("deg", {-11, -10, 70, 71, 90, 91}))
    \cup WideOf(C, "spin", Speeds("rpm", {0, 14999, 15000, 15001}))
    \cup WideOf(C, "carry", Distances([yd |-> 489, m |-> 448, ft |-> 600])
                            \cup Speeds("yd", {-1, 0, 492, 493, 600, 601})
                            \cup Speeds("m", {449, 450, 550, 551}) \cup Speeds("ft", {700, 701}))
    \cup WideOf(C, "total", Distances([yd |-> 544, m |-> 498, ft |-> 700]) \cup {NoReading})
    \cup WideOf(C, "deviation", Distances([yd |-> 218, m |-> 199, ft |-> 656])
                                \cup Speeds("ft", {-700, -657, -656, -501, -500})
                                \cup Speeds("m", {-201, -200, 201}))

Spellings ==
    {[form |-> f, code |-> c] : f \in {"code", "inverted", "words", "word", "hyphen",
                                       "reversed", "short"},
                                c \in {<<7, "I">>, <<3, "W">>, <<0, "PW">>}}
    \cup {[form |-> "other", code |-> Unknown], [form |-> "inherited", code |-> Unknown]}

Clubs == UNION {{[s EXCEPT !.club = c] : c \in Spellings} : s \in {A, B, C}}

NoCarry(s) == [s EXCEPT !.odd = "missing", !.measures["carry"] = NoReading]

Odd == {[A EXCEPT !.odd = "stray"], [B EXCEPT !.odd = "stray"], [C EXCEPT !.odd = "stray"],
        NoCarry(A), NoCarry(B), NoCarry(C),
        [C EXCEPT !.odd = "stub"], [B EXCEPT !.odd = "both"],
        [C EXCEPT !.odd = "both", !.measures = [Typical("mph", "yd") EXCEPT !.spin = NoReading]],
        [C EXCEPT !.odd = "both"]}

Times == {[B EXCEPT !.at = 8], [B2 EXCEPT !.at = 8],
          [B EXCEPT !.at = 7], [B EXCEPT !.at = 12], [B EXCEPT !.at = LastInstant + 1],
          [B EXCEPT !.at = MaxTimestamp + 1], [A EXCEPT !.at = 7, !.id = uid2],
          [C EXCEPT !.at = 12, !.id = rid2]}

\* "x|y" with "z" and "x" with "y|z" make one key; a jobId with two colons is taken,
\* one with five is not.
JoinedB == <<[B EXCEPT !.user = u12, !.device = u3], [B EXCEPT !.user = u1, !.device = u23]>>
JoinedC == <<[C EXCEPT !.user = u12, !.id = u3], [C EXCEPT !.user = u1, !.id = u23]>>
Coloned == {[s EXCEPT !.device = t, !.id = IF s.vendor = "proswing" THEN t ELSE @] :
               s \in {B, C}, t \in {mac, pair}}

Ordinary ==
    {A, B, C} \cup Times \cup Coloned
    \cup {JoinedB[1], JoinedB[2], JoinedC[1], JoinedC[2]}
Unusual == WideTrackpro \cup WideSwingmetric \cup WideProswing \cup Clubs \cup Odd
MCShot == Ordinary \cup Unusual
MCIll == {s \in MCShot : s.odd \in {"stray", "missing", "stub"} \/ s.at > MaxTimestamp}
MCDeviceOf == [s \in MCShot |-> s.device]
MCIdOf == [s \in MCShot |-> s.id]

-----------------------------------------------------------------------------
(* Wire formats.                                                           *)

Measured(s) == {m \in Measure : s.measures[m] # NoReading}

\* The fields named by "names", with the bare values.
Bare(s, names) ==
    LET sent == Measured(s) \cap DOMAIN names
    IN  [f \in {names[m] : m \in sent} |->
            s.measures[CHOOSE m \in sent : names[m] = f].value]

Whole(s, names) ==
    LET sent == Measured(s) \cap DOMAIN names
    IN  [f \in {names[m] : m \in sent} |-> s.measures[CHOOSE m \in sent : names[m] = f]]

Oddity(s, both) ==
    CASE s.odd = "stray" -> [stray |-> 1] [] s.odd = "both" -> both [] OTHER -> <<>>

Trackpro(s) ==
    [shot_uid |-> s.id, user_external_id |-> s.user,
     captured_at |-> [instant |-> s.at, offset |-> 0], club |-> s.club]
    @@ Bare(s, [ball_speed |-> "ball_speed_mps", club_speed |-> "club_head_speed_mps",
                launch |-> "launch_angle_deg", spin |-> "spin_rpm",
                carry |-> "carry_distance_m", total |-> "total_distance_m",
                deviation |-> "side_deviation_m"])
    @@ Oddity(s, <<>>)

SwingmetricRest(s, names) ==
    [player |-> s.user, device |-> s.device, session_id |-> session, ts_ms |-> s.at]
    @@ Bare(s, [ball_speed |-> "ball_speed_mph", club_speed |-> "swing_speed_mph",
                spin |-> "spin_rpm"] @@ names)

Swingmetric1(s) ==
    [club_used |-> s.club]
    @@ SwingmetricRest(s, [launch |-> "launch_deg", carry |-> "carry_yds",
                           total |-> "total_yds", deviation |-> "offline_yds"])
    @@ Oddity(s, [launch_angle |-> 1])

Swingmetric2(s) ==
    [club |-> s.club]
    @@ SwingmetricRest(s, [launch |-> IF s.odd = "" THEN "launch_angle" ELSE "launch_deg",
                           carry |-> "carry_yd", total |-> "total_yd",
                           deviation |-> "offline_yd"])
    @@ Oddity(s, [carry_yds |-> 1])

Occurred(s) == [occurred_at |-> [instant |-> s.at, offset |-> 60], club_code |-> s.club,
                id |-> s.id]
Sender(s) == IF s.odd = "stub" THEN stub ELSE s.user

Proswing1(s) ==
    [user_token |-> Sender(s)] @@ Occurred(s)
    @@ Whole(s, [m \in Measure \ {"spin"} |-> m]) @@ Oddity(s, <<>>)

FlatName(s, m) ==
    LET f == SelectSeq(FlatFields[m], LAMBDA g : g.unit = s.measures[m].unit) IN Head(f).name

HasFlatName(s) ==
    \A m \in Measured(s) \cap DOMAIN FlatFields :
        \E i \in DOMAIN FlatFields[m] : FlatFields[m][i].unit = s.measures[m].unit

\* "both": the same measures once more, rounded, in a unit that ranks behind.
Proswing2(s) ==
    [user_token |-> Sender(s)] @@ Occurred(s)
    @@ Bare(s, [m \in Measured(s) \ {"spin"} |->
                   IF m = "launch" THEN "launch_deg" ELSE FlatName(s, m)])
    @@ Oddity(s, IF s.measures["carry"].unit = "yd"
                   THEN [ball_speed_mps |-> 27, club_speed_mps |-> 18, carry_m |-> 210,
                         deviation_ft |-> -12]
                   ELSE [ball_speed_mps |-> 17, club_speed_mps |-> 11, deviation_ft |-> -13])

Proswing3(s) ==
    [player |-> Sender(s), device |-> s.device] @@ Occurred(s)
    @@ Whole(s, [m \in Measure \ {"launch", "spin"} |-> m])
    @@ Bare(s, [launch |-> "launch_angle", spin |-> "spin_rpm"]) @@ Oddity(s, <<>>)

ProswingFormats(s) ==
    IF s.odd = "both" THEN {"ps2"}
    ELSE IF s.odd = "stub" THEN {"ps1", "ps2"}
    ELSE {"ps3"} \cup (IF s.measures["spin"] = NoReading THEN {"ps1"} ELSE {})
                 \cup (IF s.measures["spin"] = NoReading /\ HasFlatName(s) THEN {"ps2"} ELSE {})

FormatsOf(s) ==
    CASE s.vendor = "trackpro" -> {"tp"}
      [] s.vendor = "swingmetric" -> {"sm1", "sm2"}
      [] OTHER -> ProswingFormats(s)

Encode(s, f) ==
    CASE f = "tp" -> Trackpro(s) [] f = "sm1" -> Swingmetric1(s)
      [] f = "sm2" -> Swingmetric2(s) [] f = "ps1" -> Proswing1(s)
      [] f = "ps2" -> Proswing2(s) [] f = "ps3" -> Proswing3(s)

MCBody == [s \in MCShot |-> [f \in FormatsOf(s) |-> Encode(s, f)]]

-----------------------------------------------------------------------------
(* What was measured, in the units of the table.                            *)

MCTruth ==
    [s \in MCShot |->
        [vendor |-> s.vendor, user |-> Sender(s), at |-> s.at, club |-> Meant(s.club),
         measures |-> [m \in Measure |-> IF s.measures[m] = NoReading THEN Null
                                         ELSE s.measures[m].value * SizeOf[s.measures[m].unit]]]]

-----------------------------------------------------------------------------
(* Scenarios.                                                              *)

CONSTANTS p1, p2

Open == [production |-> FALSE, mode |-> "none", secret |-> [v \in Vendor |-> "unset"],
         internalKey |-> "unset", throttle |-> FALSE, cors |-> "*", migrate |-> FALSE]
Production ==
    [production |-> TRUE, mode |-> "hmac", secret |-> [v \in Vendor |-> "long"],
     internalKey |-> "long", throttle |-> TRUE, cors |-> "origin", migrate |-> TRUE]

Message(f, ss, cred) == [format |-> f, shots |-> ss, cred |-> cred, stamp |-> 0]

Deployed(e, sent, time) ==
    [env |-> e, traffic |-> sent, starts |-> {p1}, deployed |-> TRUE, clock |-> time]

\* Each unusual shot, alone, in each of its formats.
Values == {Deployed(Open, {Message(f, <<s>>, "none")}, MaxClock) :
               <<f, s>> \in {x \in {"tp", "sm1", "sm2", "ps1", "ps2", "ps3"} \X Unusual :
                               x[1] \in FormatsOf(x[2])}}

\* Environments that differ from a production in what guards it.
Secrets == {[v \in Vendor |-> "long"], [v \in Vendor |-> "unset"],
            [v \in Vendor |-> IF v = "trackpro" THEN "long" ELSE "unset"],
            [v \in Vendor |-> IF v = "trackpro" THEN "long" ELSE "short"]}
Guarded ==
    {[Production EXCEPT !.production = q, !.mode = mo, !.secret = se, !.internalKey = k,
                        !.throttle = th, !.cors = c, !.migrate = FALSE] :
        q \in BOOLEAN, mo \in {"none", "api_key", "hmac"}, se \in Secrets,
        k \in Secret, th \in BOOLEAN, c \in {"*", "origin"}}

\* In development, throttling and CORS guard nothing, and every secret will do.
MatterOf(e) ==
    e.production \/ (~ e.throttle /\ e.cors = "*" /\ e.internalKey # "short"
                     /\ e.secret["proswing"] # "long")
Requests ==
    {Message(f[1], <<f[2]>>, c) : f \in {<<"tp", A>>, <<"sm2", B>>, <<"ps3", C>>},
                                  c \in {"none", "wrong", "right"}}
    \cup {Message("query", <<>>, c) : c \in {"none", "wrong", "right"}}
Access ==
    {Deployed(e, {m}, IF e.mode = "hmac" THEN 10 ELSE MaxClock) :
        e \in {g \in Guarded : MatterOf(g)}, m \in Requests}

\* Repetitions in several formats, batches with a double emit, with a shot out
\* of the window, and with a time that no Date holds.
Mixed ==
    LET b(t) == [B EXCEPT !.at = t]
    IN  {Deployed(Open, t, 10) : t \in
            {{Message("ps1", <<C>>, "none"), Message("ps3", <<C>>, "none")},
             {Message("sm1", <<B>>, "none"), Message("sm2", <<b(8), B>>, "none")},
             {Message("sm2", <<B, b(7)>>, "none"), Message("sm1", <<b(7)>>, "none")},
             {Message("sm2", <<b(7), [B2 EXCEPT !.at = 8], b(8)>>, "none")},
             {Message("sm2", <<B, b(12)>>, "none"), Message("sm1", <<b(12)>>, "none")},
             {Message("sm2", <<B, b(LastInstant + 1)>>, "none")},
             {Message("sm2", <<B, b(MaxTimestamp + 1)>>, "none")},
             {Message("tp", <<A>>, "none"), Message("tp", <<[A EXCEPT !.at = 7, !.id = uid2]>>, "none")},
             {Message("ps3", <<[C EXCEPT !.at = 12, !.id = rid2]>>, "none")},
             {Message("sm2", JoinedB, "none"), Message("sm1", <<JoinedB[2]>>, "none")},
             {Message("ps1", <<JoinedC[1]>>, "none"), Message("ps3", <<JoinedC[2]>>, "none")}}
             \cup {{Message("sm2", <<b(7), c>>, "none")} : c \in {d \in Coloned : d.vendor = B.vendor}}
             \cup {{Message("ps3", <<c>>, "none")} : c \in {d \in Coloned : d.vendor = C.vendor}}}

\* Two processes that start together, on an empty database and on one in use.
Starts == {[env |-> Production, traffic |-> {Message("query", <<>>, "right")},
            starts |-> {p1, p2}, deployed |-> d, clock |-> MaxClock] : d \in BOOLEAN}

MCScenario == Values \cup Access \cup Mixed \cup Starts

=============================================================================
