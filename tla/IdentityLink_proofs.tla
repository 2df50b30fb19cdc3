------------------------- MODULE IdentityLink_proofs -------------------------
(***************************************************************************)
(* Theorems about IdentityLink, for any number of users, shots, requests   *)
(* and lists. Four inductive invariants are proved one after the other:    *)
(* TypeOK, UserInv (what lookups and the resolve cache may hold), ListInv  *)
(* (the same of the lists) and, from UserInv, OwnerInv (the shots' owners).*)
(***************************************************************************)
EXTENDS IdentityLink, TLAPS

-----------------------------------------------------------------------------
(* Types.                                                                  *)

\* The initial state has the types declared.
LEMMA InitTypeOK == Init => TypeOK
BY DEF Init, TypeOK, Resolution, NewExec, NewRead, NoList, ShotStage, OpStage,
   ReadStage

\* A step of the processor with one shot keeps the type of all executions.
LEMMA StepTyped ==
  ASSUME exec \in [Shot -> [at : ShotStage, user : Resolution, linked : BOOLEAN]],
         NEW s \in Shot, NEW at \in ShotStage, NEW u \in Resolution
  PROVE  Step(s, at, u) \in [Shot -> [at : ShotStage, user : Resolution,
                                     linked : BOOLEAN]]
BY DEF Step

\* Every step keeps them.
LEMMA NextTypeOK == TypeOK /\ [Next]_vars => TypeOK'
<1> SUFFICES ASSUME TypeOK, [Next]_vars PROVE TypeOK'
  OBVIOUS
<1> USE DEF TypeOK, Resolution, ShotStage, OpStage, ReadStage, Ask, history
<1>1. ASSUME NEW s \in Shot, ProcessStep(s) \/ FailShot(s) PROVE TypeOK'
  <2> UserOf[s] \in User
    BY ShotsHaveUsers
  <2>1. CASE LookupUser(s)
    BY <2>1 DEF LookupUser
  <2>2. CASE QueryUser(s)
    BY <2>2, StepTyped DEF QueryUser
  <2>3. CASE FillUser(s)
    <3> exec[s].user \in Canon \cup {Nobody}
      OBVIOUS
    <3>1. cached' \in [User -> Canon \cup {Nobody} \cup {Miss}]
      BY <2>3 DEF FillUser
    <3>2. exec' \in [Shot -> [at : {"lookup", "query", "fill", "insert", "stored"},
                              user : Canon \cup {Nobody}, linked : BOOLEAN]]
      BY <2>3, StepTyped DEF FillUser
    <3>3. UNCHANGED <<mapping, listCache, owner, ask, op, reader, latest, missed,
                      overtaken, movedFrom>>
      BY <2>3 DEF FillUser
    <3> QED
      BY <3>1, <3>2, <3>3
  <2>4. CASE InsertShot(s)
    BY <2>4, StepTyped DEF InsertShot
  <2>5. CASE FailShot(s)
    BY <2>5 DEF FailShot, NewExec
  <2> QED
    BY <1>1, <2>1, <2>2, <2>3, <2>4, <2>5 DEF ProcessStep
<1>2. ASSUME NEW r \in Request, CommitLink(r) \/ CommitUnlink(r) \/ RequestStep(r)
      PROVE  TypeOK'
  <2> ask[r] \in Ask /\ ask[r].user \in User /\ ask[r].canon \in Canon
    OBVIOUS
  <2>1. CASE CommitLink(r)
    BY <2>1 DEF CommitLink, Goto, NoteMissed, OutdatedLists, LosersOf
  <2>2. CASE CommitUnlink(r)
    <3>1. CASE mapping[ask[r].user] = ask[r].canon
      <4>1. /\ mapping' = [mapping EXCEPT ![ask[r].user] = Nobody]
            /\ op' = [op EXCEPT ![r] = "evict"]
            /\ latest' = [latest EXCEPT ![ask[r].user] = r]
        BY <2>2, <3>1 DEF CommitUnlink, Goto
      <4>2. missed' \subseteq User
        BY <2>2, <3>1 DEF CommitUnlink, NoteMissed
      <4>3. overtaken' \subseteq Canon
        BY <2>2, <3>1 DEF CommitUnlink, OutdatedLists
      <4>4. UNCHANGED <<cached, listCache, exec, owner, ask, reader, movedFrom>>
        BY <2>2 DEF CommitUnlink
      <4> QED
        BY <4>1, <4>2, <4>3, <4>4
    <3>2. CASE mapping[ask[r].user] # ask[r].canon
      BY <2>2, <3>2 DEF CommitUnlink, Goto
    <3> QED
      BY <3>1, <3>2
  <2>3. CASE Evict(r)
    BY <2>3 DEF Evict, EvictUser, EvictLists, NoList, Goto, NoteMissed
  <2>4. CASE FailEvict(r)
    BY <2>4 DEF FailEvict, Goto
  <2>5. CASE Backfill(r)
    BY <2>5 DEF Backfill, Goto
  <2>6. CASE LoseBackfill(r)
    BY <2>6 DEF LoseBackfill, Goto
  <2> QED
    BY <1>2, <2>1, <2>2, <2>3, <2>4, <2>5, <2>6 DEF RequestStep
<1>3. ASSUME NEW l \in Lister, ReadStep(l) \/ FailRead(l) PROVE TypeOK'
  <2> Listed[l] \in Canon
    BY ListersHaveLists
  <2>1. CASE LookupList(l)
    BY <2>1 DEF LookupList
  <2>2. CASE QueryList(l)
    <3> RowsOf(Listed[l], mapping) \subseteq User
      BY DEF RowsOf
    <3> QED
      BY <2>2 DEF QueryList
  <2>3. CASE FillList(l)
    BY <2>3 DEF FillList, NewRead
  <2>4. CASE FailRead(l)
    BY <2>4 DEF FailRead, NewRead
  <2> QED
    BY <1>3, <2>1, <2>2, <2>3, <2>4 DEF ReadStep
<1>4. ASSUME NEW u \in User, ExpireUser(u) PROVE TypeOK'
  BY <1>4 DEF ExpireUser
<1>5. ASSUME NEW c \in Canon, ExpireList(c) PROVE TypeOK'
  BY <1>5 DEF ExpireList, NoList
<1>6. CASE UNCHANGED vars
  BY <1>6 DEF vars
<1> QED
  BY <1>1, <1>2, <1>3, <1>4, <1>5, <1>6 DEF Next

\* Every variable keeps its type.
THEOREM IdentityTypes == Spec => []TypeOK
BY InitTypeOK, NextTypeOK, PTL DEF Spec

-----------------------------------------------------------------------------
(* Lookups and the resolve cache.                                          *)

\* Every step keeps what is known of the request that wrote a row last.
LEMMA NextLatestWrote == TypeOK /\ LatestWrote /\ [Next]_vars => LatestWrote'
<1> SUFFICES ASSUME TypeOK, LatestWrote, [Next]_vars PROVE LatestWrote'
  OBVIOUS
<1> USE DEF LatestWrote
<1>1. CASE UNCHANGED <<mapping, latest, op, ask>>
  BY <1>1
<1>2. ASSUME NEW r \in Request, CommitLink(r) \/ CommitUnlink(r) \/ RequestStep(r)
      PROVE  LatestWrote'
  <2> /\ ask[r] \in Ask /\ ask[r].user \in User /\ ask[r].canon \in Canon
      /\ ask[r].link \in BOOLEAN
      /\ mapping \in [User -> Resolution] /\ op \in [Request -> OpStage]
      /\ latest \in [User -> Request \cup {NoRequest}]
    BY DEF TypeOK, Ask
  <2>1. CASE CommitLink(r)
    BY <2>1 DEF CommitLink, Goto
  <2>2. CASE CommitUnlink(r)
    <3>1. CASE mapping[ask[r].user] = ask[r].canon
      <4> /\ mapping' = [mapping EXCEPT ![ask[r].user] = Nobody]
          /\ op' = [op EXCEPT ![r] = "evict"]
          /\ latest' = [latest EXCEPT ![ask[r].user] = r]
          /\ ask' = ask /\ op[r] = "new" /\ ~ ask[r].link
        BY <2>2, <3>1 DEF CommitUnlink, Goto
      <4> QED
        OBVIOUS
    <3>2. CASE mapping[ask[r].user] # ask[r].canon
      BY <2>2, <3>2 DEF CommitUnlink, Goto
    <3> QED
      BY <3>1, <3>2
  <2>3. CASE RequestStep(r)
    BY <2>3 DEF RequestStep, Evict, FailEvict, Backfill, LoseBackfill, Goto, history
  <2> QED
    BY <1>2, <2>1, <2>2, <2>3
<1>3. ASSUME NEW s \in Shot, ProcessStep(s) \/ FailShot(s)
      PROVE  UNCHANGED <<mapping, latest, op, ask>>
  BY <1>3 DEF ProcessStep, LookupUser, QueryUser, FillUser, InsertShot, FailShot,
     history
<1>4. ASSUME NEW l \in Lister, ReadStep(l) \/ FailRead(l)
      PROVE  UNCHANGED <<mapping, latest, op, ask>>
  BY <1>4 DEF ReadStep, LookupList, QueryList, FillList, FailRead, history
<1>5. ASSUME NEW u \in User, ExpireUser(u)
      PROVE  UNCHANGED <<mapping, latest, op, ask>>
  BY <1>5 DEF ExpireUser, history
<1>6. ASSUME NEW c \in Canon, ExpireList(c)
      PROVE  UNCHANGED <<mapping, latest, op, ask>>
  BY <1>6 DEF ExpireList, history
<1>7. CASE UNCHANGED vars
  BY <1>1, <1>7 DEF vars, history
<1> QED
  BY <1>1, <1>2, <1>3, <1>4, <1>5, <1>6, <1>7 DEF Next

\* The row a request writes is evicted next, and a shot that read it before is
\* noted: other users' rows are as they were.
LEMMA WriteKeepsUsers ==
  ASSUME TypeOK, UserInv, NEW r \in Request, op[r] = "new", NEW x \in Resolution,
         mapping' = [mapping EXCEPT ![ask[r].user] = x],
         op' = [op EXCEPT ![r] = "evict"],
         latest' = [latest EXCEPT ![ask[r].user] = r],
         NoteMissed(ask[r].user, [mapping EXCEPT ![ask[r].user] = x]),
         UNCHANGED <<cached, exec>>
  PROVE  ShotsCarryTheMapping' /\ UserCacheIsFresh'
<1>1. PICK v \in User : v = ask[r].user
  BY DEF TypeOK, Ask
<1>2. mapping \in [User -> Resolution] /\ op \in [Request -> OpStage]
      /\ latest \in [User -> Request \cup {NoRequest}]
  BY DEF TypeOK
<1>3. Evicting(v)'
  BY <1>1, <1>2 DEF Evicting
<1>4. missed' = IF Outdated(v, mapping') THEN missed \cup {v} ELSE missed
  BY <1>1 DEF NoteMissed
<1>5. ASSUME NEW u \in User \ missed', u # v PROVE CarriedIsFresh(u)'
  <2>1. u \in User \ missed /\ mapping'[u] = mapping[u]
    BY <1>1, <1>2, <1>4, <1>5
  <2>2. Evicting(u)' <=> Evicting(u)
    BY <1>1, <1>2, <1>5 DEF Evicting, UserInv, LatestWrote
  <2> QED
    BY <2>1, <2>2 DEF CarriedIsFresh, UserInv, ShotsCarryTheMapping
<1>6. ASSUME v \notin missed' PROVE CarriedIsFresh(v)'
  BY <1>3, <1>4, <1>6 DEF CarriedIsFresh, Outdated
<1>7. ASSUME NEW u \in User \ missed', u # v, ~ Evicting(u)'
      PROVE  cached'[u] \in {Miss, mapping'[u]}
  <2>1. u \in User \ missed /\ mapping'[u] = mapping[u]
    BY <1>1, <1>2, <1>4, <1>7
  <2>2. ~ Evicting(u)
    BY <1>1, <1>2, <1>7 DEF Evicting, UserInv, LatestWrote
  <2> QED
    BY <2>1, <2>2 DEF UserInv, UserCacheIsFresh
<1> QED
  BY <1>3, <1>5, <1>6, <1>7 DEF ShotsCarryTheMapping, UserCacheIsFresh

\* Once a row's cache entry is evicted, no shot carries another user than the
\* row has, or it is noted.
LEMMA EvictKeepsUsers ==
  ASSUME TypeOK, UserInv, NEW r \in Request, Evict(r)
  PROVE  ShotsCarryTheMapping' /\ UserCacheIsFresh'
<1> DEFINE v == ask[r].user
<1>1. v \in User
  BY DEF TypeOK, Ask
<1>2. /\ op \in [Request -> OpStage]
      /\ cached \in [User -> Resolution \cup {Miss}]
  BY DEF TypeOK
<1>3. /\ missed' = IF Outdated(v, mapping) THEN missed \cup {v} ELSE missed
      /\ cached' = [cached EXCEPT ![v] = Miss]
      /\ op[r] = "evict" /\ UNCHANGED <<mapping, exec, latest>>
  BY DEF Evict, NoteMissed, EvictUser
<1>4. \E x \in {"backfill", "done"} : op' = [op EXCEPT ![r] = x]
  BY DEF Evict, Goto
<1>5. ASSUME NEW u \in User \ missed', u # v
      PROVE  u \in User \ missed /\ (Evicting(u)' <=> Evicting(u))
  BY <1>2, <1>3, <1>4, <1>5 DEF Evicting, UserInv, LatestWrote
<1>6. ASSUME NEW u \in User \ missed' PROVE CarriedIsFresh(u)'
  <2>1. CASE u = v
    BY <1>3, <2>1 DEF CarriedIsFresh, Outdated
  <2>2. CASE u # v
    BY <1>3, <1>5, <2>2 DEF CarriedIsFresh, UserInv, ShotsCarryTheMapping
  <2> QED
    BY <2>1, <2>2
<1>7. ASSUME NEW u \in User \ missed', ~ Evicting(u)'
      PROVE  cached'[u] \in {Miss, mapping'[u]}
  BY <1>1, <1>2, <1>3, <1>5, <1>7 DEF UserInv, UserCacheIsFresh
<1> QED
  BY <1>6, <1>7 DEF ShotsCarryTheMapping, UserCacheIsFresh

\* Every step of the processor keeps the invariant of lookups: what a shot
\* carries comes from the table or from a fresh entry.
LEMMA ShotKeepsUsers ==
  ASSUME TypeOK, UserInv, NEW s \in Shot, ProcessStep(s) \/ FailShot(s)
  PROVE  ShotsCarryTheMapping' /\ UserCacheIsFresh'
<1> DEFINE v == UserOf[s]
<1>1. v \in User
  BY ShotsHaveUsers
<1>2. /\ cached \in [User -> Resolution \cup {Miss}]
      /\ exec \in [Shot -> [at : ShotStage, user : Resolution, linked : BOOLEAN]]
  BY DEF TypeOK
<1>3. UNCHANGED <<mapping, op, latest, missed>>
  BY DEF ProcessStep, LookupUser, QueryUser, FillUser, InsertShot, FailShot, history
<1>4. \A u \in User : Evicting(u)' <=> Evicting(u)
  BY <1>3 DEF Evicting
<1>5. \A u \in User \ missed : CarriedIsFresh(u)
  BY DEF UserInv, ShotsCarryTheMapping
<1>6. \A u \in User \ missed : ~ Evicting(u) => cached[u] \in {Miss, mapping[u]}
  BY DEF UserInv, UserCacheIsFresh
<1>7. /\ exec'[s].at = "fill" /\ v \notin missed => exec'[s].user = mapping[v]
      /\ exec'[s].at = "insert" /\ ~ Evicting(v) /\ v \notin missed
            => exec'[s].user = mapping[v]
      /\ \A t \in Shot \ {s} : exec'[t] = exec[t]
  <2>1. CASE LookupUser(s)
    BY <1>1, <1>2, <1>6, <2>1 DEF LookupUser
  <2>2. CASE QueryUser(s)
    BY <1>2, <2>2 DEF QueryUser, Step
  <2>3. CASE FillUser(s)
    BY <1>1, <1>2, <1>5, <2>3 DEF FillUser, Step, CarriedIsFresh
  <2>4. CASE InsertShot(s)
    BY <1>2, <2>4 DEF InsertShot, Step
  <2>5. CASE FailShot(s)
    BY <1>2, <2>5 DEF FailShot, NewExec
  <2> QED
    BY <2>1, <2>2, <2>3, <2>4, <2>5 DEF ProcessStep
<1>8. \A u \in User \ missed : ~ Evicting(u) => cached'[u] \in {Miss, mapping[u]}
  <2>1. CASE FillUser(s)
    BY <1>1, <1>2, <1>5, <1>6, <2>1 DEF FillUser, CarriedIsFresh
  <2>2. CASE ~ FillUser(s)
    BY <1>6, <2>2 DEF ProcessStep, LookupUser, QueryUser, InsertShot, FailShot
  <2> QED
    BY <2>1, <2>2
<1>9. ASSUME NEW u \in User \ missed PROVE CarriedIsFresh(u)'
  BY <1>3, <1>4, <1>5, <1>7, <1>9 DEF CarriedIsFresh
<1> QED
  BY <1>3, <1>4, <1>8, <1>9 DEF ShotsCarryTheMapping, UserCacheIsFresh

\* Every step keeps the invariant of lookups and of the resolve cache.
LEMMA NextUserInv == TypeOK /\ UserInv /\ [Next]_vars => UserInv'
<1> SUFFICES ASSUME TypeOK, UserInv, [Next]_vars PROVE UserInv'
  OBVIOUS
<1> DEFINE Fresh == ShotsCarryTheMapping /\ UserCacheIsFresh
<1>0. LatestWrote'
  BY NextLatestWrote DEF UserInv
<1>1. ASSUME NEW s \in Shot, ProcessStep(s) \/ FailShot(s) PROVE Fresh'
  BY <1>1, ShotKeepsUsers
<1>2. ASSUME NEW r \in Request, CommitLink(r) \/ CommitUnlink(r) \/ RequestStep(r)
      PROVE  Fresh'
  <2>0. /\ ask[r].user \in User /\ ask[r].canon \in Resolution
        /\ Nobody \in Resolution
        /\ op \in [Request -> OpStage] /\ latest \in [User -> Request \cup {NoRequest}]
    BY DEF TypeOK, Ask, Resolution
  <2>1. CASE CommitLink(r)
    BY <2>0, <2>1, WriteKeepsUsers DEF CommitLink, Goto
  <2>2. CASE CommitUnlink(r) /\ mapping[ask[r].user] = ask[r].canon
    <3>1. /\ op[r] = "new"
          /\ mapping' = [mapping EXCEPT ![ask[r].user] = Nobody]
          /\ op' = [op EXCEPT ![r] = "evict"]
          /\ latest' = [latest EXCEPT ![ask[r].user] = r]
          /\ NoteMissed(ask[r].user, [mapping EXCEPT ![ask[r].user] = Nobody])
          /\ UNCHANGED <<cached, exec>>
      BY <2>2 DEF CommitUnlink, Goto
    <3> QED
      BY <2>0, <3>1, WriteKeepsUsers
  <2>3. CASE Evict(r)
    BY <2>3, EvictKeepsUsers
  <2>4. CASE FailEvict(r)
    <3>1. /\ op[r] = "evict" /\ op' = [op EXCEPT ![r] = "failed"]
          /\ missed' = missed \cup {ask[r].user}
          /\ UNCHANGED <<mapping, cached, exec, latest>>
      BY <2>4 DEF FailEvict, Goto
    <3>2. ASSUME NEW u \in User \ missed'
          PROVE  u \in User \ missed /\ (Evicting(u)' <=> Evicting(u))
      BY <2>0, <3>1, <3>2 DEF Evicting, UserInv, LatestWrote
    <3> QED
      BY <3>1, <3>2 DEF UserInv, ShotsCarryTheMapping, CarriedIsFresh, UserCacheIsFresh
  <2>5. CASE \/ CommitUnlink(r) /\ mapping[ask[r].user] # ask[r].canon
             \/ Backfill(r) \/ LoseBackfill(r)
    <3>1. /\ op[r] \in {"new", "backfill"}
          /\ \E x \in {"done", "failed"} : op' = [op EXCEPT ![r] = x]
          /\ missed \subseteq missed'
          /\ UNCHANGED <<mapping, cached, exec, latest>>
      BY <2>5 DEF CommitUnlink, Backfill, LoseBackfill, Goto, history
    <3>2. \A u \in User : Evicting(u)' <=> Evicting(u)
      BY <2>0, <3>1 DEF Evicting
    <3> QED
      BY <3>1, <3>2 DEF UserInv, ShotsCarryTheMapping, CarriedIsFresh, UserCacheIsFresh
  <2> QED
    BY <1>2, <2>1, <2>2, <2>3, <2>4, <2>5 DEF RequestStep
<1>3. ASSUME UNCHANGED <<mapping, exec, op, latest, missed>>,
             \A u \in User : cached'[u] \in {Miss, cached[u]}
      PROVE  Fresh'
  BY <1>3 DEF UserInv, ShotsCarryTheMapping, CarriedIsFresh, UserCacheIsFresh, Evicting
<1>4. ASSUME NEW l \in Lister, ReadStep(l) \/ FailRead(l) PROVE Fresh'
  BY <1>3, <1>4 DEF ReadStep, LookupList, QueryList, FillList, FailRead, history
<1>5. ASSUME NEW u \in User, ExpireUser(u) PROVE Fresh'
  BY <1>3, <1>5 DEF ExpireUser, history, TypeOK
<1>6. ASSUME NEW c \in Canon, ExpireList(c) PROVE Fresh'
  BY <1>3, <1>6 DEF ExpireList, history
<1>7. CASE UNCHANGED vars
  <2> UNCHANGED <<mapping, cached, exec, op, latest, missed>>
    BY <1>7 DEF vars, history
  <2> QED
    BY <1>0, <1>3 DEF UserInv
<1> QED
  BY <1>0, <1>1, <1>2, <1>4, <1>5, <1>6, <1>7 DEF Next, UserInv

\* The resolve cache answers as the table would: initially it is empty, and
\* every step keeps the invariant.
THEOREM UserCacheFresh == Spec => []UserCacheIsFresh
<1>1. Init => UserInv
  <2> SUFFICES ASSUME Init PROVE UserInv
    OBVIOUS
  <2>1. LatestWrote
    BY NoRequestIsNoRequest DEF Init, LatestWrote
  <2>2. ShotsCarryTheMapping /\ UserCacheIsFresh
    BY DEF Init, ShotsCarryTheMapping, CarriedIsFresh, UserCacheIsFresh, NewExec
  <2> QED
    BY <2>1, <2>2 DEF UserInv
<1>2. UserInv => UserCacheIsFresh
  BY DEF UserInv
<1> QED
  BY <1>1, <1>2, IdentityTypes, NextUserInv, PTL DEF Spec

-----------------------------------------------------------------------------
(* Lists.                                                                  *)

\* A row written changes two lists: that of the request, evicted next, and the
\* one the user was linked away from. Lists read before are noted.
LEMMA WriteKeepsLists ==
  ASSUME TypeOK, ListInv, NEW r \in Request, op[r] = "new", NEW x \in Resolution,
         x \in {Nobody, ask[r].canon},
         mapping' = [mapping EXCEPT ![ask[r].user] = x],
         op' = [op EXCEPT ![r] = "evict"],
         overtaken' = overtaken \cup OutdatedLists([mapping EXCEPT ![ask[r].user] = x]),
         movedFrom \subseteq movedFrom',
         mapping[ask[r].user] \in movedFrom' \cup {Nobody, ask[r].canon},
         UNCHANGED <<listCache, reader, ask>>
  PROVE  ListInv'
<1>1. PICK v \in User : v = ask[r].user
  BY DEF TypeOK, Ask
<1>2. PICK d \in Canon : d = ask[r].canon
  BY DEF TypeOK, Ask
<1>3. mapping \in [User -> Resolution] /\ op \in [Request -> OpStage]
  BY DEF TypeOK
<1>4. overtaken' = overtaken \cup OutdatedLists(mapping')
  BY <1>1
<1>5. ReadsAreFresh'
  BY <1>4, ListersHaveLists DEF ReadsAreFresh, OutdatedLists
<1>6. ASSUME NEW c \in Canon \ (overtaken' \cup movedFrom'), ~ EvictingList(c)'
      PROVE  FreshList(c)'
  <2>1. c # d
    BY <1>2, <1>3, <1>6 DEF EvictingList
  <2>2. ~ EvictingList(c)
    BY <1>3, <1>6 DEF EvictingList
  <2>3. mapping[v] # c /\ mapping'[v] # c
    BY <1>1, <1>2, <1>3, <1>6, <2>1, NobodyIsNobody
  <2>4. RowsOf(c, mapping') = RowsOf(c, mapping)
    BY <1>1, <1>3, <2>3 DEF RowsOf
  <2>5. FreshList(c)
    BY <1>4, <1>6, <2>2 DEF ListInv, ListCacheIsFresh
  <2> QED
    BY <2>4, <2>5 DEF FreshList
<1> QED
  BY <1>5, <1>6 DEF ListInv, ListCacheIsFresh

\* A step of a request that does not write the table keeps the list it evicts,
\* or fails to evict, fresh or noted.
LEMMA RequestKeepsLists ==
  ASSUME TypeOK, ListInv, NEW r \in Request, RequestStep(r)
  PROVE  ListInv'
<1>1. PICK d \in Canon : d = ask[r].canon
  BY DEF TypeOK, Ask
<1>2. op \in [Request -> OpStage] /\ listCache \in [Canon -> [hit : BOOLEAN, rows : SUBSET User]]
  BY DEF TypeOK
<1>3. UNCHANGED <<mapping, reader, movedFrom, ask>> /\ overtaken \subseteq overtaken'
  BY DEF RequestStep, Evict, FailEvict, Backfill, LoseBackfill, history
<1>4. ReadsAreFresh'
  BY <1>3 DEF ReadsAreFresh, ListInv
<1>5. ASSUME NEW c \in Canon \ (overtaken' \cup movedFrom'), ~ EvictingList(c)'
      PROVE  FreshList(c)'
  <2>1. FreshList(c)' <=> (listCache'[c].hit => listCache'[c].rows = RowsOf(c, mapping))
    BY <1>3 DEF FreshList
  <2>2. ~ EvictingList(c) => FreshList(c)
    BY <1>3, <1>5 DEF ListInv, ListCacheIsFresh
  <2>3. CASE Evict(r)
    <3>1. listCache' = [listCache EXCEPT ![d] = NoList]
      BY <1>1, <2>3 DEF Evict, EvictLists
    <3>2. c # d => ~ EvictingList(c)
      BY <1>1, <1>2, <1>3, <1>5, <2>3 DEF EvictingList, Evict, Goto
    <3> QED
      BY <1>2, <2>1, <2>2, <3>1, <3>2 DEF NoList, FreshList
  <2>4. CASE FailEvict(r)
    <3>1. c # d
      BY <1>1, <1>5, <2>4 DEF FailEvict
    <3>2. ~ EvictingList(c)
      BY <1>1, <1>2, <1>3, <1>5, <2>4, <3>1 DEF EvictingList, FailEvict, Goto
    <3> QED
      BY <2>1, <2>2, <2>4, <3>2 DEF FailEvict, FreshList
  <2>5. CASE Backfill(r) \/ LoseBackfill(r)
    <3>1. ~ EvictingList(c)
      BY <1>2, <1>3, <1>5, <2>5 DEF EvictingList, Backfill, LoseBackfill, Goto
    <3> QED
      BY <2>1, <2>2, <2>5, <3>1 DEF Backfill, LoseBackfill, FreshList
  <2> QED
    BY <2>3, <2>4, <2>5 DEF RequestStep
<1> QED
  BY <1>4, <1>5 DEF ListInv, ListCacheIsFresh

\* Every step keeps the invariant of lists.
LEMMA NextListInv == TypeOK /\ ListInv /\ [Next]_vars => ListInv'
<1> SUFFICES ASSUME TypeOK, ListInv, [Next]_vars PROVE ListInv'
  OBVIOUS
<1>0. /\ listCache \in [Canon -> [hit : BOOLEAN, rows : SUBSET User]]
      /\ reader \in [Lister -> [at : ReadStage, rows : SUBSET User]]
  BY DEF TypeOK
<1>1. ASSUME UNCHANGED <<mapping, op, ask, overtaken, movedFrom>>,
             \A l \in Lister : \/ reader'[l] = reader[l]
                               \/ reader'[l].at = "fill" =>
                                    reader'[l].rows = RowsOf(Listed[l], mapping),
             \A c \in Canon : \/ listCache'[c] = listCache[c]
                              \/ ~ listCache'[c].hit
                              \/ c \notin overtaken \cup movedFrom =>
                                   listCache'[c].rows = RowsOf(c, mapping)
      PROVE  ListInv'
  <2>1. ReadsAreFresh'
    BY <1>1 DEF ReadsAreFresh, ListInv
  <2>2. \A c \in Canon : EvictingList(c)' <=> EvictingList(c)
    BY <1>1 DEF EvictingList
  <2> QED
    BY <1>1, <2>1, <2>2 DEF ListInv, ListCacheIsFresh, FreshList
<1>2. ASSUME NEW s \in Shot, ProcessStep(s) \/ FailShot(s) PROVE ListInv'
  <2> UNCHANGED <<mapping, op, ask, overtaken, movedFrom, reader, listCache>>
    BY <1>2 DEF ProcessStep, LookupUser, QueryUser, FillUser, InsertShot, FailShot,
       history
  <2> QED
    BY <1>1
<1>3. ASSUME NEW r \in Request, CommitLink(r) \/ CommitUnlink(r) \/ RequestStep(r)
      PROVE  ListInv'
  <2>0. /\ ask[r].user \in User /\ ask[r].canon \in Canon
        /\ mapping \in [User -> Resolution] /\ op \in [Request -> OpStage]
        /\ ask[r].canon \in Resolution /\ Nobody \in Resolution
    BY DEF TypeOK, Ask, Resolution
  <2>1. CASE CommitLink(r)
    <3>1. mapping[ask[r].user] \in movedFrom' \cup {Nobody, ask[r].canon}
      BY <2>0, <2>1 DEF CommitLink, LosersOf, Resolution
    <3> QED
      BY <2>0, <2>1, <3>1, WriteKeepsLists DEF CommitLink, Goto
  <2>2. CASE CommitUnlink(r) /\ mapping[ask[r].user] = ask[r].canon
    <3>1. /\ op[r] = "new"
          /\ mapping' = [mapping EXCEPT ![ask[r].user] = Nobody]
          /\ op' = [op EXCEPT ![r] = "evict"]
          /\ overtaken' = overtaken
                            \cup OutdatedLists([mapping EXCEPT ![ask[r].user] = Nobody])
          /\ UNCHANGED <<listCache, reader, ask, movedFrom>>
      BY <2>2 DEF CommitUnlink, Goto
    <3> QED
      BY <2>0, <2>2, <3>1, WriteKeepsLists
  <2>3. CASE CommitUnlink(r) /\ mapping[ask[r].user] # ask[r].canon
    <3>1. /\ op[r] = "new" /\ op' = [op EXCEPT ![r] = "failed"]
          /\ UNCHANGED <<mapping, ask, overtaken, movedFrom, reader, listCache>>
      BY <2>3 DEF CommitUnlink, Goto
    <3>2. \A c \in Canon : EvictingList(c)' <=> EvictingList(c)
      BY <2>0, <3>1 DEF EvictingList
    <3> QED
      BY <3>1, <3>2 DEF ListInv, ListCacheIsFresh, ReadsAreFresh, FreshList
  <2>4. CASE RequestStep(r)
    BY <2>4, RequestKeepsLists
  <2> QED
    BY <1>3, <2>1, <2>2, <2>3, <2>4
<1>4. ASSUME NEW l \in Lister, ReadStep(l) \/ FailRead(l) PROVE ListInv'
  <2>0. UNCHANGED <<mapping, op, ask, overtaken, movedFrom>> /\ Listed[l] \in Canon
    BY <1>4, ListersHaveLists
       DEF ReadStep, LookupList, QueryList, FillList, FailRead, history
  <2>1. CASE LookupList(l) \/ FailRead(l) \/ QueryList(l)
    <3> listCache' = listCache
      BY <2>1 DEF LookupList, QueryList, FailRead
    <3> \A k \in Lister : \/ reader'[k] = reader[k]
                          \/ reader'[k].at = "fill" =>
                               reader'[k].rows = RowsOf(Listed[k], mapping)
      BY <1>0, <2>1 DEF LookupList, QueryList, FailRead, NewRead
    <3> QED
      BY <1>1, <2>0
  <2>2. CASE FillList(l)
    <3>1. Listed[l] \notin overtaken \cup movedFrom
            => reader[l].rows = RowsOf(Listed[l], mapping)
      BY <2>2 DEF FillList, ListInv, ReadsAreFresh
    <3>2. \A c \in Canon : \/ listCache'[c] = listCache[c]
                           \/ c \notin overtaken \cup movedFrom =>
                                listCache'[c].rows = RowsOf(c, mapping)
      BY <1>0, <2>0, <2>2, <3>1 DEF FillList
    <3>3. \A k \in Lister : reader'[k] = reader[k] \/ reader'[k].at # "fill"
      BY <1>0, <2>2 DEF FillList, NewRead
    <3> QED
      BY <1>1, <2>0, <3>2, <3>3
  <2> QED
    BY <1>4, <2>1, <2>2 DEF ReadStep
<1>5. ASSUME NEW u \in User, ExpireUser(u) PROVE ListInv'
  BY <1>1, <1>5 DEF ExpireUser, history
<1>6. ASSUME NEW c \in Canon, ExpireList(c) PROVE ListInv'
  <2>1. \A d \in Canon : listCache'[d] = listCache[d] \/ ~ listCache'[d].hit
    BY <1>0, <1>6 DEF ExpireList, NoList
  <2> QED
    BY <1>1, <1>6, <2>1 DEF ExpireList, history
<1>7. CASE UNCHANGED vars
  <2> UNCHANGED <<mapping, op, ask, overtaken, movedFrom, reader, listCache>>
    BY <1>7 DEF vars, history
  <2> QED
    BY <1>1
<1> QED
  BY <1>2, <1>3, <1>4, <1>5, <1>6, <1>7 DEF Next

\* The list cache answers as the table would, but for the lists overtaken by a
\* link and those of users linked away.
THEOREM ListCacheFresh == Spec => []ListCacheIsFresh
<1>1. Init => ListInv
  BY DEF Init, ListInv, ReadsAreFresh, ListCacheIsFresh, FreshList, NoList, NewRead
<1>2. ListInv => ListCacheIsFresh
  BY DEF ListInv
<1> QED
  BY <1>1, <1>2, IdentityTypes, NextListInv, PTL DEF Spec

-----------------------------------------------------------------------------
(* Owners.                                                                 *)

\* What OrphansWereMissed says of one user.
Settled(u) ==
    ~ Evicting(u) /\ ~ Backfilling(u) /\ mapping[u] # Nobody => Unowned(u) = {}

\* The processor stores a shot with the owner the table has, or the shot's user
\* is noted.
LEMMA ShotKeepsOwners ==
  ASSUME TypeOK, UserInv, OwnerInv, NEW s \in Shot, ProcessStep(s) \/ FailShot(s)
  PROVE  OwnerInv'
<1> DEFINE v == UserOf[s]
<1>1. v \in User
  BY ShotsHaveUsers
<1>2. /\ exec \in [Shot -> [at : ShotStage, user : Resolution, linked : BOOLEAN]]
      /\ owner \in [Shot -> Resolution]
  BY DEF TypeOK
<1>3. UNCHANGED <<mapping, op, latest, missed>>
  BY DEF ProcessStep, LookupUser, QueryUser, FillUser, InsertShot, FailShot, history
<1>4. CASE InsertShot(s)
  <2>1. /\ exec[s].at = "insert"
        /\ owner' = [owner EXCEPT ![s] = exec[s].user]
        /\ exec' = [exec EXCEPT ![s] = [exec[s] EXCEPT !.at = "stored"]]
    BY <1>2, <1>4 DEF InsertShot, Step
  <2>2. OwnersAreStored'
    BY <1>2, <2>1 DEF OwnersAreStored, OwnerInv
  <2>3. ASSUME NEW u \in User \ missed, ~ Evicting(u), ~ Backfilling(u),
               mapping[u] # Nobody
        PROVE  Unowned(u)' = {}
    <3>1. Unowned(u) = {}
      BY <2>3 DEF OwnerInv, OrphansWereMissed
    <3>2. u = v => exec[s].user = mapping[u]
      BY <2>1, <2>3 DEF UserInv, ShotsCarryTheMapping, CarriedIsFresh
    <3> QED
      BY <1>2, <2>1, <2>3, <3>1, <3>2 DEF Unowned, StoredOf
  <2>4. OrphansWereMissed'
    BY <1>3, <2>3 DEF OrphansWereMissed, Evicting, Backfilling
  <2> QED
    BY <2>2, <2>4 DEF OwnerInv
<1>5. CASE ~ InsertShot(s)
  <2>1. owner' = owner
    BY <1>5 DEF ProcessStep, LookupUser, QueryUser, FillUser, InsertShot, FailShot
  <2>2. \A t \in Shot : exec'[t].at = "stored" <=> exec[t].at = "stored"
    <3>1. CASE LookupUser(s)
      BY <1>2, <3>1 DEF LookupUser
    <3>2. CASE QueryUser(s)
      BY <1>2, <3>2 DEF QueryUser, Step
    <3>3. CASE FillUser(s)
      BY <1>2, <3>3 DEF FillUser, Step
    <3>4. CASE FailShot(s)
      BY <1>2, <3>4 DEF FailShot, NewExec
    <3> QED
      BY <1>5, <3>1, <3>2, <3>3, <3>4 DEF ProcessStep
  <2>3. \A u \in User : Unowned(u)' = Unowned(u)
    BY <2>1, <2>2 DEF Unowned, StoredOf
  <2> QED
    BY <1>3, <2>1, <2>2, <2>3
       DEF OwnerInv, OwnersAreStored, OrphansWereMissed, Evicting, Backfilling
<1> QED
  BY <1>4, <1>5

\* A request keeps the owners: the user it wrote is being evicted or
\* backfilled, has lost the mapping, or has no shot without an owner left.
LEMMA RequestKeepsOwners ==
  ASSUME TypeOK, UserInv, OwnerInv, NEW r \in Request,
         CommitLink(r) \/ CommitUnlink(r) \/ RequestStep(r)
  PROVE  OwnerInv'
<1>1. PICK v \in User : v = ask[r].user
  BY DEF TypeOK, Ask
<1>2. /\ op \in [Request -> OpStage] /\ owner \in [Shot -> Resolution]
      /\ latest \in [User -> Request \cup {NoRequest}]
      /\ mapping \in [User -> Resolution]
      /\ ask[r].canon \in Canon
  BY DEF TypeOK, Ask
<1>3. exec' = exec /\ missed \subseteq missed'
  BY DEF CommitLink, CommitUnlink, RequestStep, Evict, FailEvict, Backfill,
     LoseBackfill, NoteMissed, history
<1>4. /\ \A u \in User \ {v} : latest[u] # r
      /\ op[r] = "new" => latest[v] # r
      /\ latest[v] = r /\ ~ ask[r].link => mapping[v] = Nobody
  BY <1>1, <1>2 DEF UserInv, LatestWrote
<1>5. \A u \in User \ missed : Settled(u)
  BY DEF OwnerInv, OrphansWereMissed, Settled
<1>6. owner' = owner \/ Backfill(r)
  BY DEF CommitLink, CommitUnlink, RequestStep, Evict, FailEvict, LoseBackfill
<1>7. Backfill(r) => owner' = [s \in Shot |-> IF s \in Unowned(v) THEN ask[r].canon
                                                                ELSE owner[s]]
  BY <1>1 DEF Backfill, Backfillable
<1>8. OwnersAreStored'
  <2>1. CASE owner' = owner
    BY <1>3, <2>1 DEF OwnerInv, OwnersAreStored
  <2>2. CASE Backfill(r)
    BY <1>3, <1>7, <2>2 DEF OwnerInv, OwnersAreStored, Unowned, StoredOf
  <2> QED
    BY <1>6, <2>1, <2>2
<1>9. \A u \in User : Unowned(u)' \subseteq Unowned(u)
  <2>1. CASE owner' = owner
    BY <1>3, <2>1 DEF Unowned, StoredOf
  <2>2. CASE Backfill(r)
    BY <1>3, <1>7, <2>2 DEF Unowned, StoredOf
  <2> QED
    BY <1>6, <2>1, <2>2
<1>10. ASSUME NEW u \in User \ missed' PROVE Settled(u)'
  <2>1. u \in User \ missed /\ Settled(u)
    BY <1>3, <1>5, <1>10
  <2>2. ASSUME UNCHANGED <<mapping, latest>>, latest[u] # r,
               \E x \in OpStage : op' = [op EXCEPT ![r] = x]
        PROVE  Settled(u)'
    <3> /\ Evicting(u)' <=> Evicting(u)
        /\ Backfilling(u)' <=> Backfilling(u)
      BY <1>2, <2>2 DEF Evicting, Backfilling
    <3> QED
      BY <1>9, <2>1, <2>2 DEF Settled
  <2>3. CASE \/ CommitLink(r)
             \/ CommitUnlink(r) /\ mapping[ask[r].user] = ask[r].canon
    <3>1. \E x \in Resolution :
             /\ mapping' = [mapping EXCEPT ![v] = x]
             /\ op' = [op EXCEPT ![r] = "evict"]
             /\ latest' = [latest EXCEPT ![v] = r]
             /\ op[r] = "new"
      BY <1>1, <1>2, <2>3 DEF CommitLink, CommitUnlink, Goto, Resolution
    <3>2. CASE u = v
      BY <1>2, <3>1, <3>2 DEF Settled, Evicting
    <3>3. CASE u # v
      <4>1. mapping'[u] = mapping[u] /\ latest'[u] = latest[u] /\ latest[u] # r
        BY <1>2, <1>4, <3>1, <3>3
      <4>2. /\ Evicting(u)' <=> Evicting(u)
            /\ Backfilling(u)' <=> Backfilling(u)
        BY <1>2, <3>1, <4>1 DEF Evicting, Backfilling
      <4> QED
        BY <1>9, <2>1, <4>1, <4>2 DEF Settled
    <3> QED
      BY <3>2, <3>3
  <2>4. CASE CommitUnlink(r) /\ mapping[ask[r].user] # ask[r].canon
    <3>1. /\ op[r] = "new" /\ op' = [op EXCEPT ![r] = "failed"]
          /\ UNCHANGED <<mapping, latest>>
      BY <2>4 DEF CommitUnlink, Goto
    <3> QED
      BY <1>4, <2>2, <3>1 DEF OpStage
  <2>5. CASE Evict(r)
    <3>1. /\ op[r] = "evict" /\ UNCHANGED <<mapping, latest>>
          /\ op' = [op EXCEPT ![r] = IF ask[r].link THEN "backfill" ELSE "done"]
      BY <2>5 DEF Evict, Goto
    <3>2. CASE latest[u] # r
      BY <2>2, <3>1, <3>2 DEF OpStage
    <3>3. CASE latest[u] = r /\ ask[r].link
      BY <1>2, <3>1, <3>3 DEF Settled, Backfilling
    <3>4. CASE latest[u] = r /\ ~ ask[r].link
      BY <1>4, <3>1, <3>4 DEF Settled
    <3> QED
      BY <3>2, <3>3, <3>4
  <2>6. CASE FailEvict(r) \/ LoseBackfill(r)
    <3>1. /\ UNCHANGED <<mapping, latest>> /\ v \in missed'
          /\ op' = [op EXCEPT ![r] = "failed"]
      BY <1>1, <2>6 DEF FailEvict, LoseBackfill, Goto
    <3> QED
      BY <1>4, <1>10, <2>2, <3>1 DEF OpStage
  <2>7. CASE Backfill(r)
    <3>1. /\ UNCHANGED <<mapping, latest>>
          /\ op' = [op EXCEPT ![r] = "done"]
      BY <2>7 DEF Backfill, Goto, history
    <3>2. CASE u = v
      <4> Unowned(u)' = {}
        BY <1>2, <1>3, <1>7, <2>7, <3>2, NobodyIsNobody DEF Unowned, StoredOf
      <4> QED
        BY DEF Settled
    <3>3. CASE u # v
      BY <1>4, <2>2, <3>1, <3>3 DEF OpStage
    <3> QED
      BY <3>2, <3>3
  <2> QED
    BY <2>3, <2>4, <2>5, <2>6, <2>7 DEF RequestStep
<1> QED
  BY <1>8, <1>10 DEF OwnerInv, OrphansWereMissed, Settled

\* Every step keeps the invariant of owners.
LEMMA NextOwnerInv == TypeOK /\ UserInv /\ OwnerInv /\ [Next]_vars => OwnerInv'
<1> SUFFICES ASSUME TypeOK, UserInv, OwnerInv, [Next]_vars PROVE OwnerInv'
  OBVIOUS
<1>1. ASSUME UNCHANGED <<mapping, exec, owner, op, latest, missed>> PROVE OwnerInv'
  BY <1>1 DEF OwnerInv, OwnersAreStored, OrphansWereMissed, Evicting, Backfilling,
     Unowned, StoredOf
<1>2. ASSUME NEW l \in Lister, ReadStep(l) \/ FailRead(l) PROVE OwnerInv'
  BY <1>1, <1>2 DEF ReadStep, LookupList, QueryList, FillList, FailRead, history
<1>3. ASSUME NEW u \in User, ExpireUser(u) PROVE OwnerInv'
  BY <1>1, <1>3 DEF ExpireUser, history
<1>4. ASSUME NEW c \in Canon, ExpireList(c) PROVE OwnerInv'
  BY <1>1, <1>4 DEF ExpireList, history
<1>5. CASE UNCHANGED vars
  <2> UNCHANGED <<mapping, exec, owner, op, latest, missed>>
    BY <1>5 DEF vars, history
  <2> QED
    BY <1>1
<1> QED
  BY <1>2, <1>3, <1>4, <1>5, ShotKeepsOwners, RequestKeepsOwners DEF Next

\* The invariant of owners holds, from that of lookups.
LEMMA OwnersInvariant == Spec => [](TypeOK /\ OwnerInv)
<1>1. Init => UserInv /\ OwnerInv
  <2> SUFFICES ASSUME Init PROVE UserInv /\ OwnerInv
    OBVIOUS
  <2>1. LatestWrote
    BY NoRequestIsNoRequest DEF Init, LatestWrote
  <2>2. ShotsCarryTheMapping /\ UserCacheIsFresh
    BY DEF Init, ShotsCarryTheMapping, CarriedIsFresh, UserCacheIsFresh, NewExec
  <2>3. OwnerInv
    BY DEF Init, OwnerInv, OwnersAreStored, OrphansWereMissed
  <2> QED
    BY <2>1, <2>2, <2>3 DEF UserInv
<1> QED
  BY <1>1, IdentityTypes, NextUserInv, NextOwnerInv, PTL DEF Spec

\* A stored shot of a mapped user has an owner once link and backfill are
\* through, but for the races noted.
THEOREM Orphans == Spec => []OrphansWereMissed
<1>1. OwnerInv => OrphansWereMissed
  BY DEF OwnerInv
<1> QED
  BY <1>1, OwnersInvariant, PTL

\* No step changes the owner of a shot that has one: the INSERT finds no row,
\* the backfill touches rows without an owner only.
THEOREM OwnersStay == Spec => OwnerIsKept
<1>1. ASSUME TypeOK, OwnerInv, [Next]_vars
      PROVE  [\A s \in Shot : owner[s] # Nobody => owner'[s] = owner[s]]_vars
  <2> owner \in [Shot -> Resolution]
    BY <1>1 DEF TypeOK
  <2>1. ASSUME NEW s \in Shot, InsertShot(s)
        PROVE  \A t \in Shot : owner[t] # Nobody => owner'[t] = owner[t]
    BY <1>1, <2>1 DEF InsertShot, OwnerInv, OwnersAreStored
  <2>2. ASSUME NEW r \in Request, Backfill(r)
        PROVE  \A t \in Shot : owner[t] # Nobody => owner'[t] = owner[t]
    BY <2>2 DEF Backfill, Backfillable, Unowned
  <2>3. CASE owner' = owner
    BY <2>3
  <2>4. CASE /\ ~ \E s \in Shot : InsertShot(s)
             /\ ~ \E r \in Request : Backfill(r)
    <3> owner' = owner
      BY <1>1, <2>4 DEF Next, vars, ProcessStep, LookupUser, QueryUser, FillUser,
         FailShot, CommitLink, CommitUnlink, RequestStep, Evict, FailEvict,
         LoseBackfill, ReadStep, LookupList, QueryList, FillList, FailRead,
         ExpireUser, ExpireList
    <3> QED
      BY <2>3
  <2> QED
    BY <2>1, <2>2, <2>4
<1> QED
  BY <1>1, OwnersInvariant, PTL DEF Spec, OwnerIsKept

=============================================================================
