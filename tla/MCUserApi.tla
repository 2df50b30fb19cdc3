------------------------------- MODULE MCUserApi -------------------------------
(***************************************************************************)
(* Instances of UserApi. Shots 1 to 5 of one player are there or come in,  *)
(* two of them captured together, with ids that are not in the order of    *)
(* the captures; the window is 4 long, a page of the client has one to     *)
(* three shots, and three counted shots reach the cap of the statistics.   *)
(* r1 is repeated by r2; r3 has their key on another path, r4 on theirs    *)
(* with another body.                                                      *)
(***************************************************************************)
EXTENDS UserApi

CONSTANTS tp, sm, other, player, anna, bert, k1, r1, r2, r3, r4, r5, r6

MCPathOf == [r \in Request |-> IF r = r3 THEN bert ELSE anna]
MCKeyOf == [r \in Request |-> CASE r = r5 -> NoKey [] r = r6 -> LongKey [] OTHER -> k1]
MCAskOf ==
    [r \in Request |-> [vendor |-> CASE r = r4 -> sm [] r = r5 -> other [] OTHER -> tp,
                        user |-> player]]

Row(id, at, vendor, club, spin) ==
    [id |-> id, at |-> at, vendor |-> vendor, user |-> player, owner |-> Nobody,
     club |-> club, duplicate |-> FALSE, spin |-> spin]

Pool == {Row(1, 3, tp, "7I", TRUE), Row(2, 3, tp, "7I", FALSE), Row(3, 2, sm, "7I", FALSE),
         Row(4, 4, tp, "PT", FALSE), Row(5, 1, tp, "DR", TRUE)}

Owned(S, c) == {[r EXCEPT !.owner = c] : r \in S}

Query == [by |-> "canonical", vendor |-> Absent, user |-> anna, since |-> Absent,
          until |-> Absent, club |-> Absent, limit |-> 1, duplicates |-> FALSE]
ByVendor == [Query EXCEPT !.by = "vendor", !.vendor = tp, !.user = player]

\* Walks of a canonical user, of a player of a vendor, of any page size, with and
\* without near-duplicates, in a window that moves or stands.
Walks ==
    {[q EXCEPT !.limit = n, !.duplicates = d] :
        q \in {Query, ByVendor}, n \in {1, 2, Absent}, d \in BOOLEAN}
    \cup {[Query EXCEPT !.limit = 0], [Query EXCEPT !.limit = -1],
          [Query EXCEPT !.limit = 5], [Query EXCEPT !.since = 2, !.until = 3],
          [Query EXCEPT !.until = 2], [Query EXCEPT !.club = "7I"]}

Refused ==
    {[Query EXCEPT !.limit = -2], [ByVendor EXCEPT !.vendor = other],
     [Query EXCEPT !.since = Garbled], [Query EXCEPT !.until = Garbled],
     [Query EXCEPT !.since = 3, !.until = 3], [Query EXCEPT !.club = Garbled],
     [Query EXCEPT !.club = Empty], [Query EXCEPT !.since = -1],
     [Query EXCEPT !.until = -1], [Query EXCEPT !.since = -2, !.until = -1],
     [Query EXCEPT !.user = Unstorable], [Query EXCEPT !.since = -1, !.club = Garbled],
     [ByVendor EXCEPT !.user = Unstorable, !.until = Garbled]}

Start(rows_, coming_, now_, query_, cursor_, requests_) ==
    [rows |-> rows_, coming |-> coming_, now |-> now_, query |-> query_,
     cursor |-> cursor_, requests |-> requests_]

MCScenario ==
    {Start(Owned(S, anna), Owned(Pool \ S, anna), 4, q, Absent, {}) :
        S \in {T \in SUBSET Pool : Ids(T) \in {1 .. 5, 2 .. 5, {1, 2, 4, 5}}}, q \in Walks}
    \cup {Start(Owned({r \in Pool : r.id \in {2, 3, 5}}, anna),
                Owned({r \in Pool : r.id \in {1, 4}}, anna), 4, q, Absent, {}) :
            q \in {[Query EXCEPT !.limit = n] : n \in {1, 2}}}
    \cup {Start(Owned(Pool, anna), {}, 4, q, Absent, {}) : q \in Refused}
    \cup {Start(Owned(Pool, anna), {}, 4, Query, c, {}) : c \in {Garbled, Undated}}
    \cup {Start({r \in Pool : r.id \in {1, 3}}, {r \in Pool : r.id = 2}, MaxNow,
                [Query EXCEPT !.limit = Absent], Absent, {r1})}
    \cup {Start({}, {}, MaxNow, [Query EXCEPT !.until = Garbled], Absent, R) :
            R \in {{r1, r2, r3}, {r1, r2, r4}, {r1, r5, r6}}}

=============================================================================
