----------------------- MODULE NewsTranslationProofs -----------------------
(* Proofs about the translation of news articles. *)
EXTENDS NewsTranslation, TLAPS

\* The drain, or the pass that follows the ingestion, is to write the
\* attempts of a or may come to.
DrainHas(a)  == a \in queue \/ pass["drain"].art = a
IngestHas(a) == a \in fresh \/ pass["ingest"].art = a

\* A row in hand is not also waiting.
HandsApart == pass["drain"].art \notin queue /\ pass["ingest"].art \notin fresh

\* Each of the two may add one to the attempts, and no more.
RoomForBoth ==
    \A a \in Articles :
        /\ DrainHas(a) \/ IngestHas(a) => att[a] <= Cap
        /\ DrainHas(a) /\ IngestHas(a) => att[a] < Cap

\* What a session has read of the attempts leaves the same room; a late reading
\* of the ingestion shows the cap only if the row is at the cap still.
SeenFits ==
    \A p \in {"drain", "ingest"}, a \in Articles :
        pass[p].art = a =>
            /\ pass[p].seen <= Cap
            /\ DrainHas(a) /\ IngestHas(a) => pass[p].seen < Cap
            /\ p = "ingest" /\ pass[p].seen = Cap => att[a] >= Cap

\* A pass at a step has an article.
AtArticle == \A p \in Passes : pass[p].step # "idle" => pass[p].art \in Articles

NInv ==
    /\ NewsTypeOK
    /\ HandsApart
    /\ RoomForBoth
    /\ SeenFits
    /\ AtArticle
    /\ StaleIsSeen

\* What a pass may be doing.
PassKinds == [art: Articles \cup {NoArticle},
              step: {"idle", "title", "again", "body", "end"},
              src: Texts, seen: 0..Cap + 1, force: BOOLEAN, due: BOOLEAN, ok: BOOLEAN, blocked: BOOLEAN]

-----------------------------------------------------------------------------
LEMMA NewsInitInv == NewsInit => NInv
<1> SUFFICES ASSUME NewsInit PROVE NInv
    OBVIOUS
<1> USE ArticlesAssumption, CapAssumption, KindsAssumption
<1>1. NewsTypeOK
    BY DEF NewsInit, NewsTypeOK, Idle, Passes, Texts, NoArticle
<1>2. HandsApart /\ RoomForBoth /\ SeenFits
    BY DEF NewsInit, HandsApart, RoomForBoth, SeenFits, DrainHas, IngestHas, Idle, Passes, NoArticle
<1>3. AtArticle /\ StaleIsSeen
    BY DEF NewsInit, AtArticle, StaleIsSeen, Idle, Passes
<1> QED
    BY <1>1, <1>2, <1>3 DEF NInv

\* A pass that goes on or leaves keeps its type.
LEMMA LeaveType ==
    ASSUME NewsTypeOK, NEW p \in Passes, NEW q \in PassKinds
    PROVE  Leave(p, q) \in [Passes -> PassKinds]
<1>1. Idle \in PassKinds
    BY CapAssumption DEF Idle, PassKinds, Texts
<1>2. (IF p = "reader" /\ q.step = "end" THEN Idle ELSE q) \in PassKinds
    BY <1>1
<1>3. pass \in [Passes -> PassKinds]
    BY DEF NewsTypeOK, PassKinds
<1> QED
    BY <1>2, <1>3 DEF Leave

\* A row that is read again has its type.
LEMMA RereadType ==
    ASSUME NewsTypeOK, NEW q \in PassKinds, q.art \in Articles
    PROVE  Reread(q) \in PassKinds /\ Reread(q).art = q.art /\ Reread(q).step = q.step
<1> DEFINE due == q.due /\ (q.force \/ zh[q.art] = "none")
<1>1. text[q.art] \in Texts /\ att[q.art] \in 0..Cap + 1
    BY DEF NewsTypeOK
<1>2. due \in BOOLEAN
    BY Zenon
<1>3. Reread(q) = [q EXCEPT !.src = text[q.art], !.seen = att[q.art], !.due = due]
    BY DEF Reread
<1> HIDE DEF due
<1> QED
    BY <1>1, <1>2, <1>3 DEF PassKinds

LEMMA FetchInv == ASSUME NInv, NEW a \in Articles, Fetch(a) PROVE NInv'
<1> USE ArticlesAssumption, CapAssumption, KindsAssumption DEF NInv, Passes, NoArticle, rows
<1>1. NewsTypeOK'
    BY DEF NewsTypeOK, Texts, AtArticle, RoomForBoth, DrainHas, IngestHas, Fetch
<1>2. HandsApart'
    BY DEF NewsTypeOK, HandsApart, AtArticle, Fetch
<1>3. RoomForBoth'
    BY DEF NewsTypeOK, HandsApart, RoomForBoth, DrainHas, IngestHas, AtArticle, Fetch
<1>4. AtArticle'
    BY DEF NewsTypeOK, AtArticle, Fetch
<1>5. StaleIsSeen'
    BY DEF NewsTypeOK, Texts, StaleIsSeen, AtArticle, Fetch
<1>6. SeenFits'
    BY DEF NewsTypeOK, HandsApart, RoomForBoth, SeenFits, DrainHas, IngestHas, AtArticle, Fetch
<1> QED
    BY <1>1, <1>2, <1>3, <1>4, <1>5, <1>6

LEMMA StampInv == ASSUME NInv, NEW a \in Articles, Stamp(a) PROVE NInv'
<1> USE ArticlesAssumption, CapAssumption, KindsAssumption DEF NInv, Passes, NoArticle, rows
<1>1. NewsTypeOK'
    BY DEF NewsTypeOK, Texts, AtArticle, RoomForBoth, DrainHas, IngestHas, Stamp
<1>2. HandsApart'
    BY DEF NewsTypeOK, HandsApart, AtArticle, Stamp
<1>3. RoomForBoth'
    BY DEF NewsTypeOK, HandsApart, RoomForBoth, DrainHas, IngestHas, AtArticle, Stamp
<1>4. AtArticle'
    BY DEF NewsTypeOK, AtArticle, Stamp
<1>5. StaleIsSeen'
    BY DEF NewsTypeOK, Texts, StaleIsSeen, AtArticle, Stamp
<1>6. SeenFits'
    BY DEF NewsTypeOK, HandsApart, RoomForBoth, SeenFits, DrainHas, IngestHas, AtArticle, Stamp
<1> QED
    BY <1>1, <1>2, <1>3, <1>4, <1>5, <1>6

LEMMA TickInv == ASSUME NInv, Tick PROVE NInv'
<1> USE ArticlesAssumption, CapAssumption, KindsAssumption DEF NInv, Passes, NoArticle, rows
<1>1. NewsTypeOK'
    BY DEF NewsTypeOK, Texts, AtArticle, RoomForBoth, DrainHas, IngestHas, Tick, Window, Pending, Idle
<1>2. HandsApart'
    BY DEF NewsTypeOK, HandsApart, AtArticle, Tick, Window, Pending, Idle
<1>3. RoomForBoth'
    BY DEF NewsTypeOK, HandsApart, RoomForBoth, DrainHas, IngestHas, AtArticle, Tick, Window, Pending, Idle
<1>4. AtArticle'
    BY DEF NewsTypeOK, AtArticle, Tick, Window, Pending, Idle
<1>5. StaleIsSeen'
    BY DEF NewsTypeOK, Texts, StaleIsSeen, AtArticle, Tick, Window, Pending, Idle
<1>6. SeenFits'
    BY DEF NewsTypeOK, HandsApart, RoomForBoth, SeenFits, DrainHas, IngestHas, AtArticle, Tick, Window, Pending, Idle
<1> QED
    BY <1>1, <1>2, <1>3, <1>4, <1>5, <1>6

LEMMA DrainBeginsInv == ASSUME NInv, NEW a \in Articles, DrainBegins(a) PROVE NInv'
<1> USE ArticlesAssumption, CapAssumption, KindsAssumption DEF NInv, Passes, NoArticle, rows
<1>1. NewsTypeOK'
    BY DEF NewsTypeOK, Texts, AtArticle, RoomForBoth, DrainHas, IngestHas, DrainBegins, Begin, BodyNeeded, Idle
<1>2. HandsApart'
    BY DEF NewsTypeOK, HandsApart, AtArticle, DrainBegins, Begin, BodyNeeded, Idle
<1>3. RoomForBoth'
    BY DEF NewsTypeOK, HandsApart, RoomForBoth, DrainHas, IngestHas, AtArticle, DrainBegins, Begin, BodyNeeded, Idle
<1>4. AtArticle'
    BY DEF NewsTypeOK, AtArticle, DrainBegins, Begin, BodyNeeded, Idle
<1>5. StaleIsSeen'
    BY DEF NewsTypeOK, Texts, StaleIsSeen, AtArticle, DrainBegins, Begin, BodyNeeded, Idle
<1>6. SeenFits'
    BY DEF NewsTypeOK, HandsApart, RoomForBoth, SeenFits, DrainHas, IngestHas, AtArticle, DrainBegins, Begin, BodyNeeded, Idle
<1> QED
    BY <1>1, <1>2, <1>3, <1>4, <1>5, <1>6

LEMMA IngestBeginsInv == ASSUME NInv, NEW a \in Articles, IngestBegins(a) PROVE NInv'
<1> USE ArticlesAssumption, CapAssumption, KindsAssumption DEF NInv, Passes, NoArticle, rows
<1>1. NewsTypeOK'
    BY DEF NewsTypeOK, Texts, AtArticle, RoomForBoth, DrainHas, IngestHas, IngestBegins, Begin, BodyNeeded, Idle
<1>2. HandsApart'
    BY DEF NewsTypeOK, HandsApart, AtArticle, IngestBegins, Begin, BodyNeeded, Idle
<1>3. RoomForBoth'
    BY DEF NewsTypeOK, HandsApart, RoomForBoth, DrainHas, IngestHas, AtArticle, IngestBegins, Begin, BodyNeeded, Idle
<1>4. AtArticle'
    BY DEF NewsTypeOK, AtArticle, IngestBegins, Begin, BodyNeeded, Idle
<1>5. StaleIsSeen'
    BY DEF NewsTypeOK, Texts, StaleIsSeen, AtArticle, IngestBegins, Begin, BodyNeeded, Idle
<1>6. SeenFits'
    BY DEF NewsTypeOK, HandsApart, RoomForBoth, SeenFits, DrainHas, IngestHas, AtArticle, IngestBegins, Begin, BodyNeeded, Idle
<1> QED
    BY <1>1, <1>2, <1>3, <1>4, <1>5, <1>6

LEMMA ReaderBeginsInv == ASSUME NInv, NEW a \in Articles, ReaderBegins(a) PROVE NInv'
<1> USE ArticlesAssumption, CapAssumption, KindsAssumption DEF NInv, Passes, NoArticle, rows
<1>1. NewsTypeOK'
    BY DEF NewsTypeOK, Texts, AtArticle, RoomForBoth, DrainHas, IngestHas, ReaderBegins, Idle
<1>2. HandsApart'
    BY DEF NewsTypeOK, HandsApart, AtArticle, ReaderBegins, Idle
<1>3. RoomForBoth'
    BY DEF NewsTypeOK, HandsApart, RoomForBoth, DrainHas, IngestHas, AtArticle, ReaderBegins, Idle
<1>4. AtArticle'
    BY DEF NewsTypeOK, AtArticle, ReaderBegins, Idle
<1>5. StaleIsSeen'
    BY DEF NewsTypeOK, Texts, StaleIsSeen, AtArticle, ReaderBegins, Idle
<1>6. SeenFits'
    BY DEF NewsTypeOK, HandsApart, RoomForBoth, SeenFits, DrainHas, IngestHas, AtArticle, ReaderBegins, Idle
<1> QED
    BY <1>1, <1>2, <1>3, <1>4, <1>5, <1>6

LEMMA TitleCallInv == ASSUME NInv, NEW p \in Passes, TitleCall(p) PROVE NInv'
<1> USE ArticlesAssumption, CapAssumption, KindsAssumption DEF NInv, Passes, NoArticle, rows
<1>1. NewsTypeOK'
  <2>1. PICK c \in Calls(pass[p].art) :
           LET q     == IF c = "fails" THEN pass[p] ELSE Reread(pass[p])
               first == q.step = "title"
           IN  /\ title' = [title EXCEPT ![q.art] = @ \/ c = "done"]
               /\ pass' = Leave(p,
                      [q EXCEPT !.step    = IF ~q.due \/ q.src = "none" THEN "end"
                                            ELSE IF first /\ c # "done" THEN "again" ELSE "body",
                                !.ok      = IF first THEN c = "done" ELSE @ \/ ~q.due,
                                !.blocked = @ \/ (first /\ c = "blocked")])
    BY DEF TitleCall
  <2> DEFINE q  == IF c = "fails" THEN pass[p] ELSE Reread(pass[p])
             ok == IF q.step = "title" THEN c = "done" ELSE q.ok \/ ~q.due
             bl == q.blocked \/ (q.step = "title" /\ c = "blocked")
             st == IF ~q.due \/ q.src = "none" THEN "end"
                   ELSE IF q.step = "title" /\ c # "done" THEN "again" ELSE "body"
             nx == [q EXCEPT !.step = st, !.ok = ok, !.blocked = bl]
  <2>2. pass[p] \in PassKinds /\ pass[p].art \in Articles
    BY DEF NewsTypeOK, PassKinds, AtArticle, TitleCall
  <2>3. q \in PassKinds /\ q.art \in Articles
    BY <2>2, RereadType
  <2>4. ok \in BOOLEAN /\ bl \in BOOLEAN /\ st \in {"again", "body", "end"}
    BY <2>3 DEF PassKinds
  <2>5. title' = [title EXCEPT ![q.art] = @ \/ c = "done"] /\ pass' = Leave(p, nx)
    BY <2>1
  <2>6. title' \in [Articles -> BOOLEAN]
    BY <2>3, <2>5 DEF NewsTypeOK
  <2>7. pass' \in [Passes -> PassKinds]
    <3> HIDE DEF q, ok, bl, st
    <3>1. nx \in PassKinds
      BY <2>3, <2>4 DEF PassKinds
    <3> QED
      BY <2>5, <3>1, LeaveType
  <2> QED
    BY <2>6, <2>7 DEF TitleCall, NewsTypeOK, PassKinds
<1>2. HandsApart'
    BY DEF NewsTypeOK, HandsApart, AtArticle, TitleCall, Reread, Leave, Idle
<1>3. RoomForBoth'
    BY DEF NewsTypeOK, HandsApart, RoomForBoth, DrainHas, IngestHas, AtArticle, TitleCall, Reread, Leave, Idle
<1>4. AtArticle'
    BY DEF NewsTypeOK, AtArticle, TitleCall, Reread, Leave, Idle
<1>5. StaleIsSeen'
    BY DEF NewsTypeOK, Texts, StaleIsSeen, AtArticle, TitleCall, Reread, Leave, Idle
<1>6. SeenFits'
    BY DEF NewsTypeOK, HandsApart, RoomForBoth, SeenFits, DrainHas, IngestHas, AtArticle, TitleCall, Reread, Leave, Idle
<1> QED
    BY <1>1, <1>2, <1>3, <1>4, <1>5, <1>6

LEMMA BodyDoneInv == ASSUME NInv, NEW p \in Passes, BodyDone(p) PROVE NInv'
<1> USE ArticlesAssumption, CapAssumption, KindsAssumption DEF NInv, Passes, NoArticle, rows
<1>1. NewsTypeOK'
  <2>1. pass[p] \in PassKinds /\ pass[p].art \in Articles
    BY DEF NewsTypeOK, PassKinds, AtArticle, BodyDone
  <2>2. [pass[p] EXCEPT !.step = "end", !.ok = TRUE, !.seen = att[pass[p].art]] \in PassKinds
    BY <2>1 DEF PassKinds, NewsTypeOK
  <2>3. pass' \in [Passes -> PassKinds]
    BY <2>2, LeaveType DEF BodyDone
  <2>4. zh' \in [Articles -> Texts] /\ stale' \in [Articles -> BOOLEAN] /\ outdated' \in SUBSET Articles
    BY <2>1 DEF BodyDone, NewsTypeOK, PassKinds
  <2> QED
    BY <2>3, <2>4 DEF BodyDone, NewsTypeOK, PassKinds
<1>2. HandsApart'
    BY DEF NewsTypeOK, HandsApart, AtArticle, BodyDone, Leave, Idle
<1>3. RoomForBoth'
    BY DEF NewsTypeOK, HandsApart, RoomForBoth, DrainHas, IngestHas, AtArticle, BodyDone, Leave, Idle
<1>4. AtArticle'
    BY DEF NewsTypeOK, AtArticle, BodyDone, Leave, Idle
<1>5. StaleIsSeen'
    BY DEF NewsTypeOK, Texts, StaleIsSeen, AtArticle, BodyDone, Leave, Idle
<1>6. SeenFits'
    BY DEF NewsTypeOK, HandsApart, RoomForBoth, SeenFits, DrainHas, IngestHas, AtArticle, BodyDone, Leave, Idle
<1> QED
    BY <1>1, <1>2, <1>3, <1>4, <1>5, <1>6

LEMMA BodyFailsInv == ASSUME NInv, NEW p \in Passes, BodyFails(p) PROVE NInv'
<1> USE ArticlesAssumption, CapAssumption, KindsAssumption DEF NInv, Passes, NoArticle, rows
<1>1. NewsTypeOK'
  <2>1. PICK c \in Calls(pass[p].art) \ {"done"} :
           pass' = Leave(p, [pass[p] EXCEPT !.step = "end", !.blocked = @ \/ c = "blocked",
                                            !.seen = att[pass[p].art]])
    BY DEF BodyFails
  <2> DEFINE bl == pass[p].blocked \/ c = "blocked"
             n  == att[pass[p].art]
  <2>2. pass[p] \in PassKinds /\ n \in 0..Cap + 1
    BY DEF NewsTypeOK, PassKinds, AtArticle, BodyFails
  <2>3. bl \in BOOLEAN
    BY Zenon
  <2>4. [pass[p] EXCEPT !.step = "end", !.blocked = bl, !.seen = n] \in PassKinds
    <3> HIDE DEF bl, n
    <3> QED BY <2>2, <2>3 DEF PassKinds
  <2>5. pass' \in [Passes -> PassKinds]
    BY <2>1, <2>4, LeaveType
  <2> QED
    BY <2>5 DEF BodyFails, NewsTypeOK, PassKinds
<1>2. HandsApart'
    BY DEF NewsTypeOK, HandsApart, AtArticle, BodyFails, Leave, Idle
<1>3. RoomForBoth'
    BY DEF NewsTypeOK, HandsApart, RoomForBoth, DrainHas, IngestHas, AtArticle, BodyFails, Leave, Idle
<1>4. AtArticle'
    BY DEF NewsTypeOK, AtArticle, BodyFails, Leave, Idle
<1>5. StaleIsSeen'
    BY DEF NewsTypeOK, Texts, StaleIsSeen, AtArticle, BodyFails, Leave, Idle
<1>6. SeenFits'
    BY DEF NewsTypeOK, HandsApart, RoomForBoth, SeenFits, DrainHas, IngestHas, AtArticle, BodyFails, Leave, Idle
<1> QED
    BY <1>1, <1>2, <1>3, <1>4, <1>5, <1>6

\* What a record of b by p leaves behind: the pass is gone, and whoever else
\* has the row had room for two.
Recorded(p, b) ==
    /\ p \in {"drain", "ingest"}
    /\ att[b] \in Nat /\ pass[p].seen \in Nat /\ pass[p].seen <= Cap
    /\ att'[b] \in {att[b], 0, Cap, pass[p].seen + 1}
    /\ \A a \in Articles \ {b} : att'[a] = att[a]
    /\ pass'[p] = Idle /\ \A q \in Passes \ {p} : pass'[q] = pass[q]
    /\ queue' = queue /\ fresh' = fresh
    /\ \A a \in Articles : (DrainHas(a)' => DrainHas(a)) /\ (IngestHas(a)' => IngestHas(a))
    /\ ~(DrainHas(b)' /\ IngestHas(b)')
    /\ DrainHas(b)' \/ IngestHas(b)' => DrainHas(b) /\ IngestHas(b)

LEMMA RecordLeaves ==
    ASSUME NInv, NEW p \in Passes, Record(p), NEW b \in Articles, b = pass[p].art
    PROVE  Recorded(p, b)
<1> USE ArticlesAssumption, CapAssumption DEF NInv, Passes, NoArticle
<1>1. p \in {"drain", "ingest"}
    BY DEF Record
<1>2. /\ att[b] \in Nat /\ pass[p].seen \in Nat /\ att'[b] \in {att[b], 0, Cap, pass[p].seen + 1}
      /\ \A a \in Articles \ {b} : att'[a] = att[a]
  <2>1. att \in [Articles -> 0..Cap + 1] /\ pass[p].seen \in 0..Cap + 1
    BY DEF NewsTypeOK
  <2>2. att' = [att EXCEPT ![b] = IF pass[p].ok THEN IF pass[p].seen = 0 THEN att[b] ELSE 0
                                  ELSE IF pass[p].blocked THEN Cap ELSE pass[p].seen + 1]
    BY DEF Record
  <2> QED
    BY <2>1, <2>2
<1>3. pass[p].seen <= Cap
    BY <1>1 DEF SeenFits
<1>4. /\ pass'[p] = Idle /\ \A q \in Passes \ {p} : pass'[q] = pass[q]
      /\ queue' = queue /\ fresh' = fresh
    BY DEF NewsTypeOK, Record
<1>5. Idle.art = NoArticle
    BY DEF Idle
<1>6. \A a \in Articles : (DrainHas(a)' => DrainHas(a)) /\ (IngestHas(a)' => IngestHas(a))
    BY <1>1, <1>4, <1>5 DEF DrainHas, IngestHas
<1>7. ~(DrainHas(b)' /\ IngestHas(b)')
    BY <1>1, <1>4, <1>5 DEF DrainHas, IngestHas, HandsApart
<1>8. DrainHas(b)' \/ IngestHas(b)' => DrainHas(b) /\ IngestHas(b)
    BY <1>1, <1>4, <1>5, <1>6 DEF DrainHas, IngestHas, HandsApart
<1> QED
    BY <1>1, <1>2, <1>3, <1>4, <1>6, <1>7, <1>8 DEF Recorded

LEMMA RecordInv == ASSUME NInv, NEW p \in Passes, Record(p) PROVE NInv'
<1> USE ArticlesAssumption, CapAssumption, KindsAssumption DEF NInv, Passes, NoArticle, rows
<1>0. PICK b \in Articles : b = pass[p].art
    BY DEF AtArticle, Record
<1>left. Recorded(p, b)
    BY <1>0, RecordLeaves
<1>1. NewsTypeOK'
  <2>1. att[b] \in 0..Cap + 1 /\ pass[p].seen \in 0..Cap
    <3>1. att[b] \in 0..Cap + 1 /\ pass[p].seen \in 0..Cap + 1
      BY <1>0 DEF NewsTypeOK
    <3> QED
      BY <3>1, <1>left DEF Recorded
  <2>2. att' \in [Articles -> 0..Cap + 1]
    BY <1>0, <2>1 DEF Record, NewsTypeOK
  <2>3. pass' = [pass EXCEPT ![p] = Idle] /\ Idle \in PassKinds
    BY DEF Record, Idle, PassKinds, Texts
  <2> QED
    BY <2>2, <2>3 DEF Record, NewsTypeOK, PassKinds
<1>2. HandsApart'
    BY DEF NewsTypeOK, HandsApart, AtArticle, Record, Idle
<1>3. RoomForBoth'
  <2>1. ASSUME NEW a \in Articles
        PROVE  /\ DrainHas(a)' \/ IngestHas(a)' => att'[a] <= Cap
               /\ DrainHas(a)' /\ IngestHas(a)' => att'[a] < Cap
    <3>1. CASE a = b
      <4>1. DrainHas(b)' \/ IngestHas(b)' => att[b] < Cap /\ pass[p].seen < Cap
        BY <1>0, <1>left DEF Recorded, RoomForBoth, SeenFits
      <4>2. DrainHas(b)' \/ IngestHas(b)' => att'[b] <= Cap
        BY <4>1, <1>left DEF Recorded
      <4> QED
        BY <3>1, <4>2, <1>left DEF Recorded, DrainHas, IngestHas
    <3>2. CASE a # b
      BY <3>2, <1>left DEF Recorded, RoomForBoth
    <3> QED
      BY <3>1, <3>2
  <2> QED
    BY <2>1 DEF RoomForBoth
<1>4. AtArticle'
    BY DEF NewsTypeOK, AtArticle, Record, Idle
<1>5. StaleIsSeen'
    BY DEF NewsTypeOK, Texts, StaleIsSeen, AtArticle, Record, Idle
<1>6. SeenFits'
  <2>1. ASSUME NEW q \in {"drain", "ingest"}, NEW a \in Articles, pass'[q].art = a
        PROVE  /\ pass'[q].seen <= Cap
               /\ DrainHas(a)' /\ IngestHas(a)' => pass'[q].seen < Cap
               /\ q = "ingest" /\ pass'[q].seen = Cap => att'[a] >= Cap
    <3>1. q # p /\ pass'[q] = pass[q]
      BY <2>1, <1>left DEF Recorded, Idle
    <3>2. CASE a = b
      <4>1. DrainHas(b) /\ IngestHas(b)
        BY <2>1, <3>1, <3>2, <1>left DEF Recorded, DrainHas, IngestHas
      <4>2. pass[q].seen < Cap
        BY <1>0, <2>1, <3>1, <3>2, <4>1 DEF SeenFits
      <4>3. pass[q].seen \in Nat
        BY DEF NewsTypeOK
      <4> QED
        BY <3>1, <4>2, <4>3
    <3>3. CASE a # b
      BY <2>1, <3>1, <3>3, <1>left DEF Recorded, SeenFits
    <3> QED
      BY <3>2, <3>3
  <2> QED
    BY <2>1 DEF SeenFits
<1> QED
    BY <1>1, <1>2, <1>3, <1>4, <1>5, <1>6

LEMMA RestartInv == ASSUME NInv, Restart PROVE NInv'
<1> USE ArticlesAssumption, CapAssumption, KindsAssumption DEF NInv, Passes, NoArticle, rows
<1>1. NewsTypeOK'
    BY DEF NewsTypeOK, Texts, AtArticle, RoomForBoth, DrainHas, IngestHas, Restart, Idle
<1>2. HandsApart'
    BY DEF NewsTypeOK, HandsApart, AtArticle, Restart, Idle
<1>3. RoomForBoth'
    BY DEF NewsTypeOK, HandsApart, RoomForBoth, DrainHas, IngestHas, AtArticle, Restart, Idle
<1>4. AtArticle'
    BY DEF NewsTypeOK, AtArticle, Restart, Idle
<1>5. StaleIsSeen'
    BY DEF NewsTypeOK, Texts, StaleIsSeen, AtArticle, Restart, Idle
<1>6. SeenFits'
    BY DEF NewsTypeOK, HandsApart, RoomForBoth, SeenFits, DrainHas, IngestHas, AtArticle, Restart, Idle
<1> QED
    BY <1>1, <1>2, <1>3, <1>4, <1>5, <1>6

-----------------------------------------------------------------------------
\* The invariant is inductive.
THEOREM NewsInvariant == NewsSpec => []NInv
<1>1. NInv /\ [NewsNext]_vars => NInv'
  <2> SUFFICES ASSUME NInv, [NewsNext]_vars PROVE NInv'
    OBVIOUS
  <2>1. CASE UNCHANGED vars
    <3>1. NewsTypeOK' /\ HandsApart' /\ AtArticle'
      BY <2>1 DEF NInv, vars, NewsTypeOK, HandsApart, AtArticle
    <3>2. RoomForBoth' /\ SeenFits' /\ StaleIsSeen'
      BY <2>1 DEF NInv, vars, RoomForBoth, SeenFits, DrainHas, IngestHas, StaleIsSeen
    <3> QED
      BY <3>1, <3>2 DEF NInv
  <2>2. ASSUME NEW a \in Articles, Fetch(a) \/ Stamp(a) \/ IngestBegins(a) \/ ReaderBegins(a)
        PROVE  NInv'
    BY <2>2, FetchInv, StampInv, IngestBeginsInv, ReaderBeginsInv
  <2>3. ASSUME NEW p \in Passes, PassStep(p)
        PROVE  NInv'
    BY <2>3, TitleCallInv, BodyDoneInv, BodyFailsInv, RecordInv DEF PassStep
  <2>4. CASE DrainStep
    BY <2>4, <2>3, TickInv, DrainBeginsInv DEF DrainStep, Passes
  <2>5. CASE Restart
    BY <2>5, RestartInv
  <2> QED
    BY <2>1, <2>2, <2>3, <2>4, <2>5 DEF NewsNext
<1> QED
    BY <1>1, NewsInitInv, PTL DEF NewsSpec

\* Every variable has its type; attempts pass the cap by one at most, though
\* the drain and the ingestion count them side by side.
THEOREM NewsTypes == NewsSpec => []NewsTypeOK
BY NewsInvariant, PTL DEF NInv

\* A translation of the excerpt beside a full text is known to be stale, or
\* was written from less than the row held.
THEOREM StaleSeen == NewsSpec => []StaleIsSeen
BY NewsInvariant, PTL DEF NInv
-----------------------------------------------------------------------------
\* Row a holds the text t: it may have come by more since.
Held(t, a) == (t = "excerpt" => text[a] # "none") /\ (t = "full" => text[a] = "full")

\* Translations are made of texts their rows hold, and so is what a pass that
\* is under way will write.
SourcesHeld ==
    /\ \A a \in Articles : Held(zh[a], a)
    /\ \A p \in Passes : pass[p].step # "idle" => Held(pass[p].src, pass[p].art)

\* A translation is of the text its row has now, or the row says that it is
\* stale, or the text changed under the pass that wrote it.
TranslationCurrent ==
    \A a \in Articles : zh[a] # "none" => zh[a] = text[a] \/ stale[a] \/ a \in outdated

\* A row that has some text keeps some, and a full text stays.
LEMMA TextStays ==
    ASSUME NInv, NewsNext, NEW a \in Articles
    PROVE  (text[a] # "none" => text'[a] # "none") /\ (text[a] = "full" => text'[a] = "full")
<1>1. CASE \E b \in Articles : Fetch(b)
    BY <1>1 DEF Fetch, NInv, NewsTypeOK
<1>2. CASE text' = text
    BY <1>2
<1> QED
    BY <1>1, <1>2
       DEF NewsNext, DrainStep, PassStep, Stamp, Tick, DrainBegins, IngestBegins, ReaderBegins,
           TitleCall, BodyDone, BodyFails, Record, Restart, rows

\* What a pass holds after a step, it has read in the step or held before.
LEMMA PassReads ==
    ASSUME NInv, NewsNext, NEW p \in Passes, pass'[p].step # "idle"
    PROVE  \/ pass'[p].src = text[pass'[p].art]
           \/ /\ pass[p].step # "idle"
              /\ pass'[p].src = pass[p].src /\ pass'[p].art = pass[p].art
<1> USE DEF NInv, NewsTypeOK
<1>1. CASE pass' = pass
    BY <1>1
<1>2. ASSUME NEW q \in Passes, NEW a \in Articles, Begin(q, a)
      PROVE  pass'[p] = pass[p] \/ (pass'[p].art = a /\ pass'[p].src = text[a])
    BY <1>2 DEF Begin, Idle
<1>3. ASSUME NEW a \in Articles, ReaderBegins(a)
      PROVE  pass'[p] = pass[p] \/ (pass'[p].art = a /\ pass'[p].src = text[a])
    BY <1>3 DEF ReaderBegins, Idle, Passes
<1>4. ASSUME NEW q \in Passes, TitleCall(q)
      PROVE  \/ pass'[p] = pass[p]
             \/ /\ pass[p].step # "idle" /\ pass'[p].art = pass[p].art
                /\ pass'[p].src \in {pass[p].src, text[pass[p].art]}
    BY <1>4 DEF TitleCall, Leave, Reread, Idle
<1>5. ASSUME NEW q \in Passes, BodyDone(q) \/ BodyFails(q)
      PROVE  \/ pass'[p] = pass[p]
             \/ /\ pass[p].step # "idle" /\ pass'[p].art = pass[p].art
                /\ pass'[p].src = pass[p].src
  <2>1. CASE p # q
    BY <1>5, <2>1 DEF BodyDone, BodyFails, Leave
  <2>2. PICK r : /\ pass' = Leave(q, r) /\ pass[q].step = "body"
                 /\ r.art = pass[q].art /\ r.src = pass[q].src
    <3>1. pass[q] \in PassKinds
      BY DEF PassKinds
    <3>2. CASE BodyDone(q)
      <4> DEFINE r == [pass[q] EXCEPT !.step = "end", !.ok = TRUE, !.seen = att[pass[q].art]]
      <4>1. pass' = Leave(q, r) /\ pass[q].step = "body"
        BY <3>2 DEF BodyDone
      <4>2. r.art = pass[q].art /\ r.src = pass[q].src
        BY <3>1 DEF PassKinds
      <4> HIDE DEF r
      <4> QED
        BY <4>1, <4>2
    <3>3. CASE BodyFails(q)
      <4>1. PICK c : pass' = Leave(q, [pass[q] EXCEPT !.step = "end", !.blocked = @ \/ c = "blocked",
                                                       !.seen = att[pass[q].art]])
        BY <3>3 DEF BodyFails
      <4> DEFINE b == pass[q].blocked \/ c = "blocked"
                 n == att[pass[q].art]
                 r == [pass[q] EXCEPT !.step = "end", !.blocked = b, !.seen = n]
      <4>2. pass' = Leave(q, r) /\ pass[q].step = "body"
        BY <3>3, <4>1 DEF BodyFails
      <4> HIDE DEF b, n
      <4>3. r.art = pass[q].art /\ r.src = pass[q].src
        BY <3>1 DEF PassKinds
      <4> HIDE DEF r
      <4> QED
        BY <4>2, <4>3
    <3> QED
      BY <1>5, <3>2, <3>3
  <2>3. CASE p = q
    <3>1. pass'[p] = Idle \/ pass'[p] = r
      BY <2>2, <2>3 DEF Leave
    <3>2. Idle.step = "idle"
      BY DEF Idle
    <3> QED
      BY <2>2, <2>3, <3>1, <3>2
  <2> QED
    BY <2>1, <2>3
<1>6. ASSUME NEW q \in Passes, Record(q) PROVE pass'[p] = pass[p]
    BY <1>6 DEF Record, Idle
<1>7. ~Restart
    BY DEF Restart, Idle
<1>8. ASSUME NEW q \in Passes, PassStep(q)
      PROVE  \/ pass'[p] = pass[p]
             \/ /\ pass[p].step # "idle" /\ pass'[p].art = pass[p].art
                /\ pass'[p].src \in {pass[p].src, text[pass[p].art]}
    BY <1>4, <1>5, <1>6, <1>8 DEF PassStep
<1>9. "drain" \in Passes /\ "ingest" \in Passes
    BY DEF Passes
<1> HIDE DEF NInv, NewsTypeOK
<1>10. CASE DrainStep
    BY <1>1, <1>2, <1>8, <1>9, <1>10 DEF DrainStep, DrainBegins, Tick
<1>11. CASE \E a \in Articles : Fetch(a) \/ Stamp(a) \/ IngestBegins(a) \/ ReaderBegins(a)
    BY <1>1, <1>2, <1>3, <1>9, <1>11 DEF Fetch, Stamp, IngestBegins
<1> QED
    BY <1>7, <1>8, <1>10, <1>11 DEF NewsNext

\* A translation that appears is of the text its pass had read.
LEMMA TranslationsComeFromPasses ==
    ASSUME NInv, NewsNext, NEW a \in Articles
    PROVE  \/ zh'[a] = zh[a]
           \/ \E p \in Passes : pass[p].step # "idle" /\ pass[p].art = a /\ zh'[a] = pass[p].src
<1>1. CASE \E p \in Passes : BodyDone(p)
    BY <1>1 DEF BodyDone, NInv, NewsTypeOK
<1>2. CASE zh' = zh
    BY <1>2
<1> QED
    BY <1>1, <1>2
       DEF NewsNext, DrainStep, PassStep, Fetch, Stamp, Tick, DrainBegins, IngestBegins, ReaderBegins,
           TitleCall, BodyFails, Record, Restart, rows, Passes

\* SourcesHeld is inductive, given the other invariants.
LEMMA SourcesStep == NInv /\ NInv' /\ SourcesHeld /\ [NewsNext]_vars => SourcesHeld'
<1> SUFFICES ASSUME NInv, NInv', SourcesHeld, NewsNext PROVE SourcesHeld'
    BY DEF vars, SourcesHeld, Held
<1>1. ASSUME NEW a \in Articles PROVE Held(zh[a], a)'
  <2>1. Held(zh'[a], a)
    <3>1. CASE zh'[a] = zh[a]
      BY <3>1 DEF SourcesHeld
    <3>2. CASE \E p \in Passes : pass[p].step # "idle" /\ pass[p].art = a /\ zh'[a] = pass[p].src
      BY <3>2 DEF SourcesHeld
    <3> QED
      BY <3>1, <3>2, TranslationsComeFromPasses
  <2>2. (zh'[a] = "excerpt" => text'[a] # "none") /\ (zh'[a] = "full" => text'[a] = "full")
    BY <2>1, TextStays DEF Held
  <2> QED
    BY <2>2 DEF Held
<1>2. ASSUME NEW p \in Passes, pass'[p].step # "idle" PROVE Held(pass[p].src, pass[p].art)'
  <2> DEFINE a == pass'[p].art
             t == pass'[p].src
  <2>1. a \in Articles
    BY <1>2 DEF NInv, AtArticle
  <2>2. (t = "excerpt" => text[a] # "none") /\ (t = "full" => text[a] = "full")
    BY <1>2, PassReads DEF SourcesHeld, Held
  <2>3. (t = "excerpt" => text'[a] # "none") /\ (t = "full" => text'[a] = "full")
    BY <2>1, <2>2, TextStays
  <2> QED
    BY <2>3 DEF Held
<1> QED
    BY <1>1, <1>2 DEF SourcesHeld

\* Whatever passes overlap, a reader of the back end can tell a translation
\* that is behind its text: the row is stale, unless the text came while the
\* translation was under way.
THEOREM TranslationsAreCurrent == NewsSpec => []TranslationCurrent
<1>1. NewsInit => SourcesHeld
    BY DEF NewsInit, SourcesHeld, Held, Idle, Passes
<1>2. NInv /\ SourcesHeld => TranslationCurrent
  <2> SUFFICES ASSUME NInv, SourcesHeld, NEW a \in Articles, zh[a] # "none"
               PROVE  zh[a] = text[a] \/ stale[a] \/ a \in outdated
    BY DEF TranslationCurrent
  <2>1. zh[a] \in Texts /\ text[a] \in Texts /\ Held(zh[a], a)
    BY DEF NInv, NewsTypeOK, SourcesHeld
  <2> QED
    BY <2>1 DEF NInv, StaleIsSeen, Texts, Held
<1> QED
    BY <1>1, <1>2, SourcesStep, NewsInvariant, PTL DEF NewsSpec
=============================================================================
