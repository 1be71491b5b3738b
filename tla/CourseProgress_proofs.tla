----------------------- MODULE CourseProgress_proofs -----------------------
(***************************************************************************)
(* Proofs about CourseProgress, for any number of contents and requests:   *)
(* what a student has started and completed stays on record, and only what *)
(* he has worked through earns a certificate.                              *)
(***************************************************************************)
EXTENDS CourseProgress, WellFoundedInduction, TLAPS

Places == {"idle", "create", "create first", "copy", "list", "judge", "store",
           "learned", "write back", "check", "certify"}

Requests == [at : Places, c : Contents \cup {NoContent}, rec : Nat, copy : CourseRecords,
             needs : SUBSET Contents]

(***************************************************************************)
(* The inductive invariant                                                 *)
(***************************************************************************)
(* What holds of a request in state r. It names the content it is about,   *)
(* and the record that it has found or made. Completions it holds are of   *)
(* contents that were worked through, and so are the contents that a       *)
(* certificate is about to attest. Without a withdrawal it does not write  *)
(* a record back. Without a second request, it would write back what is    *)
(* there, and the record that a start has found, or made, is the first one *)
(* and lists what it listed then.                                          *)
Fits(r) ==
    /\ r.at \in {"create first", "copy", "list", "judge", "store", "learned", "write back"} =>
        r.c \in Contents
    /\ r.at \in {"copy", "list", "learned", "write back"} => r.rec \in 1 .. Len(records)
    /\ r.copy.done \subseteq did
    /\ r.at \in {"judge", "store"} => r.c \in did
    /\ ~granted /\ r.at = "certify" => r.needs \subseteq did
    /\ ~withdrawn => r.at # "write back"
    /\ singly =>
        /\ r.at \in {"create", "create first"} => records = <<>>
        /\ r.at = "create first" => r.copy = NewRecord
        /\ r.at \in {"copy", "list"} => r.rec = 1 /\ r.copy.entries = records[1].entries
        /\ r.at \in {"learned", "write back"} => r.copy = records[r.rec]

HandsInv == \A t \in Tabs : Fits(tab[t])

(* A student who waits for each answer has one request at a time.          *)
AloneInv == singly => \A s, t \in Tabs : tab[s] # Quiet /\ tab[t] # Quiet => s = t

RecordsInv ==
    /\ \A i \in 1 .. Len(records) : records[i].done \subseteq did
    /\ ~granted => earned \subseteq did
    /\ ~withdrawn => active = Contents
    /\ singly /\ records # <<>> => \A c \in Contents : records[1].entries[c] <= 1

CourseInv ==
    /\ CourseType
    /\ tab \in [Tabs -> Requests]
    /\ HandsInv
    /\ AloneInv
    /\ RecordsInv
    /\ StartedIsListed
    /\ CompletionsStay

LEMMA Types ==
  ASSUME CourseInv
  PROVE  /\ records \in Seq(CourseRecords) /\ Len(records) \in Nat
         /\ \A i \in 1 .. Len(records) : records[i] \in CourseRecords
         /\ \A t \in Tabs : tab[t] \in Requests /\ Fits(tab[t])
         /\ singly \in BOOLEAN /\ granted \in BOOLEAN /\ withdrawn \in BOOLEAN
         /\ active \in SUBSET Contents /\ did \in SUBSET Contents /\ started \in SUBSET Contents
         /\ earned \in SUBSET Contents /\ stored \in SUBSET Contents
<1>1. records \in Seq(CourseRecords)
  BY DEF CourseInv, CourseType
<1>2. Len(records) \in Nat /\ \A i \in 1 .. Len(records) : records[i] \in CourseRecords
  BY <1>1
<1>3. \A t \in Tabs : tab[t] \in Requests /\ Fits(tab[t])
  BY DEF CourseInv, HandsInv
<1>4. singly \in BOOLEAN /\ granted \in BOOLEAN /\ withdrawn \in BOOLEAN
  BY DEF CourseInv, CourseType
<1>5. /\ active \in SUBSET Contents /\ did \in SUBSET Contents /\ started \in SUBSET Contents
      /\ earned \in SUBSET Contents /\ stored \in SUBSET Contents
  BY DEF CourseInv, CourseType
<1> QED BY <1>1, <1>2, <1>3, <1>4, <1>5

LEMMA NewRecordType ==
  /\ NewRecord \in CourseRecords /\ NewRecord.done = {}
  /\ \A c \in Contents : NewRecord.entries[c] = 0
BY DEF NewRecord, CourseRecords

LEMMA DemoRecordType ==
  /\ DemoRecord \in CourseRecords /\ DemoRecord.done = {}
  /\ \A c \in Contents : DemoRecord.entries[c] <= 1
<1> DEFINE e == [c \in Contents |-> IF c = Demo THEN 1 ELSE 0]
<1>1. /\ e \in [Contents -> Nat] /\ \A c \in Contents : e[c] <= 1
      /\ [[c \in Contents |-> 0] EXCEPT ![Demo] = 1] = e
  BY CourseAssumption
<1>2. DemoRecord = [section |-> TRUE, entries |-> e, done |-> {}, certified |-> FALSE]
  <2>1. /\ DOMAIN NewRecord = {"section", "entries", "done", "certified"}
        /\ NewRecord.entries = [c \in Contents |-> 0]
        /\ NewRecord.done = {} /\ NewRecord.certified = FALSE
    BY DEF NewRecord
  <2>2. DemoRecord = [[NewRecord EXCEPT !.section = TRUE] EXCEPT !.entries = [@ EXCEPT ![Demo] = 1]]
    BY DEF DemoRecord
  <2> QED BY <1>1, <2>1, <2>2
<1> HIDE DEF e
<1> QED BY <1>1, <1>2 DEF CourseRecords

LEMMA QuietState ==
  ASSUME CourseInv
  PROVE  Quiet \in Requests /\ Quiet.at = "idle" /\ Fits(Quiet) /\ Fits(Quiet)'
BY NewRecordType DEF Quiet, Requests, Places, Fits

(***************************************************************************)
(* Requests                                                                *)
(***************************************************************************)
(* Records are only added and work only done; what one request does is     *)
(* done alone if the student waits.                                        *)
Grows ==
    /\ Len(records') \in Nat /\ Len(records) <= Len(records')
    /\ did \subseteq did'
    /\ UNCHANGED <<granted, singly, withdrawn>>

OnlyMine(t) == singly => \A s \in Tabs \ {t} : tab[s] = Quiet

LEMMA BusyAlone ==
  ASSUME CourseInv, NEW t \in Tabs, tab[t] # Quiet
  PROVE  OnlyMine(t)
BY DEF CourseInv, AloneInv, OnlyMine

LEMMA TabMoves ==
  ASSUME CourseInv, NEW t \in Tabs, NEW r \in Requests, Grows, OnlyMine(t),
         tab' = [tab EXCEPT ![t] = r], Fits(r)'
  PROVE  tab' \in [Tabs -> Requests] /\ HandsInv' /\ AloneInv'
<1>1. /\ tab' \in [Tabs -> Requests] /\ tab'[t] = r
      /\ \A s \in Tabs \ {t} : tab'[s] = tab[s]
  BY DEF CourseInv
<1>2. ASSUME NEW s \in Tabs \ {t}
      PROVE  Fits(tab[s])'
  <2>1. PICK q \in Requests : q = tab[s] /\ tab'[s] = q
    BY <1>1, Types
  <2>2. Fits(q)
    BY <2>1, Types
  <2>3. CASE singly
    <3>1. q = Quiet
      BY <2>1, <2>3 DEF OnlyMine
    <3> QED BY <2>1, <3>1, QuietState DEF Fits
  <2>4. CASE ~singly
    <3>1. q.rec \in Nat
      BY DEF Requests
    <3>2. q.rec \in 1 .. Len(records) => q.rec \in 1 .. Len(records')
      BY <3>1, Types DEF Grows
    <3>3. granted' = granted /\ singly' = singly /\ withdrawn' = withdrawn /\ did \subseteq did'
      BY DEF Grows
    <3>4. Fits(q)'
      BY <2>2, <2>4, <3>2, <3>3 DEF Fits
    <3> QED BY <2>1, <3>4 DEF Fits
  <2> QED BY <2>3, <2>4, Types
<1>3. Fits(tab[t])'
  BY <1>1 DEF Fits
<1>4. AloneInv'
  BY <1>1 DEF AloneInv, OnlyMine, Grows
<1> QED BY <1>1, <1>2, <1>3, <1>4 DEF HandsInv

(* What remains to be shown of a step of request t.                        *)
LEMMA StepKeepsInv ==
  ASSUME CourseInv, NEW t \in Tabs, NEW r \in Requests, Grows, OnlyMine(t),
         tab' = [tab EXCEPT ![t] = r], Fits(r)',
         records' \in Seq(CourseRecords), asked' \in 0 .. MaxAsked, active' = active,
         did' \subseteq Contents, started' \subseteq Contents,
         stored' \subseteq Contents, earned' \subseteq Contents,
         RecordsInv', StartedIsListed', CompletionsStay'
  PROVE  CourseInv'
<1>1. tab' \in [Tabs -> Requests] /\ HandsInv' /\ AloneInv'
  BY TabMoves
<1>2. \A s \in Tabs : tab[s]' \in Requests /\ Fits(tab[s])'
  BY <1>1 DEF HandsInv
<1>3. ASSUME NEW s \in Tabs
      PROVE  /\ tab[s]'.at \in Places /\ tab[s]'.c \in Contents \cup {NoContent}
             /\ tab[s]'.copy \in CourseRecords /\ tab[s]'.needs \subseteq Contents
             /\ tab[s]'.at \in {"list", "write back"} => tab[s]'.rec \in DOMAIN records'
  <2>1. DOMAIN records' = 1 .. Len(records')
    OBVIOUS
  <2> QED BY <1>2, <2>1 DEF Requests, Fits
<1>4. CourseType'
  <2>1. /\ active' \subseteq Contents
        /\ granted' \in BOOLEAN /\ singly' \in BOOLEAN /\ withdrawn' \in BOOLEAN
    BY Types DEF Grows
  <2> QED BY <1>3, <2>1 DEF CourseType, Places
<1> QED BY <1>1, <1>4 DEF CourseInv

(* A step that changes no record.                                          *)
LEMMA QuietKeepsInv ==
  ASSUME CourseInv, NEW t \in Tabs, NEW r \in Requests, OnlyMine(t),
         tab' = [tab EXCEPT ![t] = r], Fits(r)',
         asked' \in 0 .. MaxAsked, did \subseteq did', did' \subseteq Contents,
         UNCHANGED <<records, active, granted, singly, started, stored, earned, withdrawn>>
  PROVE  CourseInv'
<1>1. Grows
  BY Types DEF Grows
<1>2. records' \in Seq(CourseRecords) /\ active' = active
      /\ started' \subseteq Contents /\ stored' \subseteq Contents /\ earned' \subseteq Contents
  BY Types
<1>3. RecordsInv'
  BY DEF CourseInv, RecordsInv
<1>4. StartedIsListed' /\ CompletionsStay'
  BY DEF CourseInv, StartedIsListed, CompletionsStay
<1> QED BY <1>1, <1>2, <1>3, <1>4, StepKeepsInv

(* A request begins, ends, or goes on.                                     *)
LEMMA Begins ==
  ASSUME CourseInv, NEW t \in Tabs, NEW r \in Requests, Asks(t, r)
  PROVE  /\ OnlyMine(t) /\ tab' = [tab EXCEPT ![t] = r] /\ asked' \in 0 .. MaxAsked
         /\ tab[t] = Quiet
<1>1. asked \in 0 .. MaxAsked /\ MaxAsked \in Nat
  BY CourseAssumption DEF CourseInv, CourseType
<1> QED BY <1>1 DEF Asks, OnlyMine

LEMMA Asked ==
  ASSUME CourseInv
  PROVE  asked \in 0 .. MaxAsked
BY DEF CourseInv, CourseType

LEMMA EndsKeepsInv ==
  ASSUME CourseInv, NEW t \in Tabs, tab[t] # Quiet, Answered(t),
         UNCHANGED <<records, active, granted, asked, singly, started, did, stored, earned, withdrawn>>
  PROVE  CourseInv'
<1>1. OnlyMine(t)
  BY BusyAlone
<1>2. did \subseteq did' /\ did' \subseteq Contents /\ asked' \in 0 .. MaxAsked
  BY Types, Asked
<1> QED BY <1>1, <1>2, QuietState, QuietKeepsInv DEF Answered

(* The next state of a request that goes on.                               *)
Going(r, at) == [r EXCEPT !.at = at]

LEMMA GoingState ==
  ASSUME NEW r \in Requests, NEW at \in Places
  PROVE  /\ Going(r, at) \in Requests /\ Going(r, at).at = at
         /\ Going(r, at).c = r.c /\ Going(r, at).rec = r.rec
         /\ Going(r, at).copy = r.copy /\ Going(r, at).needs = r.needs
BY DEF Requests, Going

LEMMA TurnsKeepsInv ==
  ASSUME CourseInv, NEW t \in Tabs, NEW at \in Places, tab[t] # Quiet, Turns(t, at), Fits(Going(tab[t], at)),
         UNCHANGED <<records, active, granted, asked, singly, started, did, stored, earned, withdrawn>>
  PROVE  CourseInv'
<1>1. OnlyMine(t)
  BY BusyAlone
<1>2. PICK r \in Requests : r = Going(tab[t], at)
  BY Types, GoingState
<1>3. tab' = [tab EXCEPT ![t] = r] /\ Fits(r)
  BY <1>2 DEF Turns, Going
<1>4. Fits(r)'
  BY <1>3 DEF Fits
<1>5. did \subseteq did' /\ did' \subseteq Contents /\ asked' \in 0 .. MaxAsked
  BY Types, Asked
<1> QED BY <1>1, <1>3, <1>4, <1>5, QuietKeepsInv

(***************************************************************************)
(* Steps that change no record                                             *)
(***************************************************************************)
LEMMA Busy ==
  ASSUME NEW t \in Tabs, tab[t].at # "idle"
  PROVE  tab[t] # Quiet
BY DEF Quiet

LEMMA GetCourseKeepsInv ==
  ASSUME CourseInv, NEW t \in Tabs, GetCourse(t)
  PROVE  CourseInv'
<1> DEFINE r == [Quiet EXCEPT !.at = "create"]
<1>1. /\ r \in Requests /\ r.at = "create" /\ r.copy.done = {}
  BY NewRecordType DEF Requests, Quiet, Places
<1>2. Asks(t, r) /\ records = <<>>
      /\ UNCHANGED <<records, active, granted, singly, started, did, stored, earned, withdrawn>>
  BY DEF GetCourse
<1> HIDE DEF r
<1>3. Fits(r)'
  BY <1>1, <1>2 DEF Fits
<1> QED BY <1>1, <1>2, <1>3, Begins, Types, QuietKeepsInv

LEMMA ContentFindKeepsInv ==
  ASSUME CourseInv, NEW t \in Tabs, NEW c \in Contents, ContentFind(t, c)
  PROVE  CourseInv'
<1>0. UNCHANGED <<records, active, granted, singly, started, did, stored, earned, withdrawn>>
  BY DEF ContentFind
<1>1. CASE records = <<>>
  <2> DEFINE r == [Quiet EXCEPT !.at = "create first", !.c = c]
  <2>1. r \in Requests /\ r.at = "create first" /\ r.copy = NewRecord /\ r.c = c
    BY NewRecordType DEF Requests, Quiet, Places
  <2>2. Asks(t, r)
    BY <1>1 DEF ContentFind
  <2> HIDE DEF r
  <2>3. Fits(r)'
    BY <1>0, <1>1, <2>1, NewRecordType DEF Fits
  <2> QED BY <1>0, <2>1, <2>2, <2>3, Begins, Types, QuietKeepsInv
<1>2. CASE records # <<>>
  <2> DEFINE at == AfterFind(records[1])
             r == [Quiet EXCEPT !.at = at, !.c = c, !.copy = records[1]]
  <2>1. at \in {"list", "copy"} /\ records[1] \in CourseRecords /\ 1 \in 1 .. Len(records)
    BY <1>2, Types DEF AfterFind
  <2>2. Asks(t, r)
    BY <1>2 DEF ContentFind
  <2> HIDE DEF at
  <2>3. r \in Requests /\ r.at = at /\ r.copy = records[1] /\ r.c = c /\ r.rec = 1
    BY <2>1, NewRecordType DEF Requests, Quiet, Places
  <2>4. r.copy.done \subseteq did
    BY <2>1, <2>3 DEF CourseInv, RecordsInv
  <2> HIDE DEF r
  <2>5. PICK q \in Requests : q = r
    BY <2>3
  <2>6. Fits(q)'
    BY <1>0, <2>1, <2>3, <2>4, <2>5 DEF Fits
  <2>7. Asks(t, q)
    BY <2>2, <2>5
  <2> QED BY <1>0, <2>6, <2>7, Begins, Types, QuietKeepsInv
<1> QED BY <1>1, <1>2

LEMMA CompleteFindKeepsInv ==
  ASSUME CourseInv, NEW t \in Tabs, NEW c \in Contents, CompleteFind(t, c)
  PROVE  CourseInv'
<1> DEFINE r == [Quiet EXCEPT !.at = "judge", !.c = c, !.copy = records[1]]
<1>1. /\ records # <<>> /\ did' = did \cup {c} /\ Asks(t, r)
      /\ UNCHANGED <<records, active, granted, singly, started, stored, earned, withdrawn>>
  BY DEF CompleteFind
<1>2. records[1] \in CourseRecords /\ 1 \in 1 .. Len(records)
  BY <1>1, Types
<1>3. r \in Requests /\ r.at = "judge" /\ r.c = c /\ r.copy = records[1]
  BY <1>2, NewRecordType DEF Requests, Quiet, Places
<1> HIDE DEF r
<1>4. PICK q \in Requests : q = r
  BY <1>3
<1>5. q.copy.done \subseteq did
  BY <1>2, <1>3, <1>4 DEF CourseInv, RecordsInv
<1>6. Fits(q)'
  BY <1>1, <1>3, <1>4, <1>5 DEF Fits
<1>7. Asks(t, q)
  BY <1>1, <1>4
<1> QED BY <1>1, <1>6, <1>7, Begins, Types, QuietKeepsInv

LEMMA CompleteJudgeKeepsInv ==
  ASSUME CourseInv, NEW t \in Tabs, CompleteJudge(t)
  PROVE  CourseInv'
<1>1. /\ tab[t].at = "judge" /\ (Turns(t, "store") \/ Answered(t))
      /\ UNCHANGED <<records, active, granted, asked, singly, started, did, stored, earned, withdrawn>>
  BY DEF CompleteJudge
<1>2. tab[t] \in Requests /\ Fits(tab[t])
  BY Types
<1>3. Fits(Going(tab[t], "store"))
  <2>1. "store" \in Places
    BY DEF Places
  <2> QED BY <1>1, <1>2, <2>1, GoingState DEF Fits
<1>4. CASE Turns(t, "store")
  BY <1>1, <1>3, <1>4, Busy, TurnsKeepsInv DEF Places
<1>5. CASE Answered(t)
  BY <1>1, <1>5, Busy, EndsKeepsInv
<1> QED BY <1>1, <1>4, <1>5

LEMMA LearnJudgeKeepsInv ==
  ASSUME CourseInv, NEW t \in Tabs, LearnJudge(t)
  PROVE  CourseInv'
<1>1. /\ tab[t].at = "learned"
      /\ (Turns(t, "write back") /\ tab[t].c \notin active) \/ Answered(t)
      /\ UNCHANGED <<records, active, granted, asked, singly, started, did, stored, earned, withdrawn>>
  BY DEF LearnJudge, WritesBack
<1>2. tab[t] \in Requests /\ Fits(tab[t])
  BY Types
<1>3. CASE Turns(t, "write back") /\ tab[t].c \notin active
  <2>1. "write back" \in Places
    BY DEF Places
  <2>2. withdrawn
    BY <1>1, <1>2, <1>3, Types DEF CourseInv, RecordsInv, Fits
  <2>3. Fits(Going(tab[t], "write back"))
    BY <1>1, <1>2, <2>1, <2>2, GoingState DEF Fits
  <2> QED BY <1>1, <1>3, <2>1, <2>3, Busy, TurnsKeepsInv
<1>4. CASE Answered(t)
  BY <1>1, <1>4, Busy, EndsKeepsInv
<1> QED BY <1>1, <1>3, <1>4

LEMMA VerifyFindKeepsInv ==
  ASSUME CourseInv, NEW t \in Tabs, VerifyFind(t)
  PROVE  CourseInv'
<1>0. UNCHANGED <<records, active, granted, singly, started, did, stored, earned, withdrawn>>
  BY DEF VerifyFind
<1> DEFINE r == IF granted THEN [Quiet EXCEPT !.at = "certify"]
                ELSE [Quiet EXCEPT !.at = "check", !.needs = active \ Optional]
<1>1. Asks(t, r)
  BY DEF VerifyFind
<1>2. /\ r \in Requests /\ r.at \in {"certify", "check"} /\ r.copy.done = {}
      /\ granted \/ r.at = "check"
  BY NewRecordType, Types DEF Requests, Quiet, Places
<1> HIDE DEF r
<1>3. PICK q \in Requests : q = r
  BY <1>2
<1>4. Fits(q)'
  BY <1>0, <1>2, <1>3 DEF Fits
<1>5. Asks(t, q)
  BY <1>1, <1>3
<1> QED BY <1>0, <1>4, <1>5, Begins, Types, QuietKeepsInv

LEMMA VerifyCheckKeepsInv ==
  ASSUME CourseInv, NEW t \in Tabs, VerifyCheck(t)
  PROVE  CourseInv'
<1>1. /\ tab[t].at = "check"
      /\ UNCHANGED <<records, active, granted, asked, singly, started, did, stored, earned, withdrawn>>
  BY DEF VerifyCheck
<1>2. tab[t] \in Requests /\ Fits(tab[t])
  BY Types
<1>3. CASE Answered(t)
  BY <1>1, <1>3, Busy, EndsKeepsInv
<1>4. CASE /\ records # <<>> /\ Incomplete(tab[t].needs, records[1]) = {}
           /\ Turns(t, "certify")
  <2>1. tab[t].needs \subseteq records[1].done /\ 1 \in 1 .. Len(records)
    BY <1>4, Types DEF Incomplete
  <2>2. tab[t].needs \subseteq did
    BY <2>1 DEF CourseInv, RecordsInv
  <2>3. "certify" \in Places
    BY DEF Places
  <2>4. Fits(Going(tab[t], "certify"))
    BY <1>1, <1>2, <2>2, <2>3, GoingState DEF Fits
  <2> QED BY <1>1, <1>4, <2>3, <2>4, Busy, TurnsKeepsInv
<1> QED BY <1>3, <1>4 DEF VerifyCheck

LEMMA CourseFailsKeepsInv ==
  ASSUME CourseInv, NEW t \in Tabs, CourseFails(t)
  PROVE  CourseInv'
BY EndsKeepsInv DEF CourseFails

LEMMA EditContentKeepsInv ==
  ASSUME CourseInv, NEW c \in Contents, EditContent(c)
  PROVE  CourseInv'
<1>1. /\ active' \subseteq Contents /\ withdrawn' \in BOOLEAN
      /\ ~withdrawn' => active' = Contents /\ ~withdrawn
      /\ UNCHANGED <<records, granted, tab, asked, singly, started, did, stored, earned>>
  BY Types DEF EditContent, CourseInv, RecordsInv
<1>2. CourseType' /\ tab' \in [Tabs -> Requests]
  BY <1>1 DEF CourseInv, CourseType
<1>3. HandsInv'
  <2> SUFFICES ASSUME NEW t \in Tabs PROVE Fits(tab[t])'
    BY DEF HandsInv
  <2> QED BY <1>1, Types DEF Fits
<1>4. AloneInv' /\ RecordsInv'
  BY <1>1 DEF CourseInv, AloneInv, RecordsInv
<1>5. StartedIsListed' /\ CompletionsStay'
  BY <1>1 DEF CourseInv, StartedIsListed, CompletionsStay
<1> QED BY <1>2, <1>3, <1>4, <1>5 DEF CourseInv

(***************************************************************************)
(* Steps that add a record                                                 *)
(***************************************************************************)
LEMMA Appended ==
  ASSUME CourseInv, NEW rec \in CourseRecords, records' = Append(records, rec),
         rec.done \subseteq did
  PROVE  /\ records' \in Seq(CourseRecords) /\ Len(records') = Len(records) + 1
         /\ \A i \in 1 .. Len(records) : records'[i] = records[i]
         /\ records'[Len(records) + 1] = rec
         /\ \A i \in 1 .. Len(records') : records'[i].done \subseteq did
<1>1. /\ records' \in Seq(CourseRecords) /\ Len(records') = Len(records) + 1
      /\ \A i \in 1 .. Len(records) : records'[i] = records[i]
      /\ records'[Len(records) + 1] = rec
  BY Types
<1>2. ASSUME NEW i \in 1 .. Len(records')
      PROVE  records'[i].done \subseteq did
  <2>1. i \in 1 .. Len(records) \/ i = Len(records) + 1
    BY <1>1, Types
  <2> QED BY <1>1, <2>1 DEF CourseInv, RecordsInv
<1> QED BY <1>1, <1>2

(* The first record of a student who waits lists each content once; the    *)
(* others do not change the first one.                                     *)
LEMMA AppendKeepsRecords ==
  ASSUME CourseInv, NEW rec \in CourseRecords, records' = Append(records, rec),
         rec.done \subseteq did, \A c \in Contents : singly /\ records = <<>> => rec.entries[c] <= 1,
         UNCHANGED <<active, granted, singly, started, did, stored, earned, withdrawn>>
  PROVE  RecordsInv' /\ StartedIsListed' /\ CompletionsStay'
<1>1. CASE records = <<>>
  <2>1. Len(records') = 1 /\ records'[1] = rec
    BY <1>1, Appended
  <2>2. RecordsInv'
    BY <1>1, <2>1, Appended DEF CourseInv, RecordsInv
  <2>3. singly => started = {}
    BY <1>1 DEF CourseInv, StartedIsListed
  <2>4. (~withdrawn \/ singly) => stored = {}
    BY <1>1 DEF CourseInv, CompletionsStay
  <2> QED BY <2>2, <2>3, <2>4 DEF StartedIsListed, CompletionsStay
<1>2. CASE records # <<>>
  <2>1. 1 \in 1 .. Len(records) /\ records'[1] = records[1] /\ records' # <<>>
    BY <1>2, Appended, Types
  <2>2. RecordsInv'
    BY <1>2, <2>1, Appended DEF CourseInv, RecordsInv
  <2>3. StartedIsListed'
    BY <1>2, <2>1 DEF CourseInv, StartedIsListed
  <2>4. CompletionsStay'
    <3>1. \A i \in DOMAIN records : i \in DOMAIN records' /\ records'[i] = records[i]
      BY Appended, Types
    <3> QED BY <3>1 DEF CourseInv, CompletionsStay
  <2> QED BY <2>2, <2>3, <2>4
<1> QED BY <1>1, <1>2

LEMMA CreateRecordKeepsInv ==
  ASSUME CourseInv, NEW t \in Tabs, CreateRecord(t)
  PROVE  CourseInv'
<1>1. /\ tab[t].at = "create" /\ tab' = [tab EXCEPT ![t] = Quiet]
      /\ UNCHANGED <<active, granted, asked, singly, started, did, stored, earned, withdrawn>>
  BY DEF CreateRecord, Answered
<1>2. PICK rec \in {NewRecord, DemoRecord} : records' = Append(records, rec)
  BY DEF CreateRecord
<1>3. /\ rec \in CourseRecords /\ rec.done \subseteq did
      /\ \A c \in Contents : rec.entries[c] <= 1
  BY <1>2, NewRecordType, DemoRecordType
<1>4. /\ records' \in Seq(CourseRecords) /\ Grows
      /\ RecordsInv' /\ StartedIsListed' /\ CompletionsStay'
  BY <1>1, <1>2, <1>3, Appended, AppendKeepsRecords, Types DEF Grows
<1> QED BY <1>1, <1>4, Busy, BusyAlone, QuietState, Types, Asked, StepKeepsInv

LEMMA CreateFirstKeepsInv ==
  ASSUME CourseInv, NEW t \in Tabs, CreateFirst(t)
  PROVE  CourseInv'
<1>1. /\ tab[t].at = "create first" /\ records' = Append(records, NewRecord)
      /\ tab' = [tab EXCEPT ![t].at = "copy", ![t].rec = Len(records) + 1]
      /\ UNCHANGED <<active, granted, asked, singly, started, did, stored, earned, withdrawn>>
  BY DEF CreateFirst
<1>2. tab[t] \in Requests /\ Fits(tab[t])
  BY Types
<1>3. /\ records' \in Seq(CourseRecords) /\ Grows /\ Len(records') = Len(records) + 1
      /\ records = <<>> => records'[1] = NewRecord
      /\ RecordsInv' /\ StartedIsListed' /\ CompletionsStay'
  <2>1. NewRecord \in CourseRecords /\ NewRecord.done \subseteq did
        /\ \A c \in Contents : NewRecord.entries[c] <= 1
    BY NewRecordType
  <2>2. RecordsInv' /\ StartedIsListed' /\ CompletionsStay'
    BY <1>1, <2>1, AppendKeepsRecords
  <2>3. /\ records' \in Seq(CourseRecords) /\ Len(records') = Len(records) + 1
        /\ records'[Len(records) + 1] = NewRecord
    BY <1>1, <2>1, Appended
  <2>4. records = <<>> => records'[1] = NewRecord
    BY <2>3
  <2>5. Grows
    <3>1. Len(records) \in Nat
      BY Types
    <3>2. Len(records') \in Nat /\ Len(records) <= Len(records')
      BY <2>3, <3>1
    <3> QED BY <1>1, <3>2 DEF Grows
  <2> QED BY <2>2, <2>3, <2>4, <2>5
<1>4. PICK r \in Requests : /\ r.at = "copy" /\ r.rec = Len(records) + 1
                            /\ r.c = tab[t].c /\ r.copy = tab[t].copy
                            /\ tab' = [tab EXCEPT ![t] = r]
  <2>0. PICK n \in Nat : n = Len(records) + 1
    BY Types
  <2> DEFINE q == [tab[t] EXCEPT !.at = "copy", !.rec = n]
  <2>1. q \in Requests /\ q.at = "copy" /\ q.rec = n /\ q.c = tab[t].c /\ q.copy = tab[t].copy
    BY <1>2 DEF Requests, Places
  <2>2. tab' = [tab EXCEPT ![t] = q] /\ q.rec = Len(records) + 1
    BY <1>1, <2>0, <2>1
  <2> QED BY <2>1, <2>2
<1>5. singly => records = <<>>
  BY <1>1, <1>2 DEF Fits
<1>6. Fits(r)'
  <2>1. Len(records) + 1 \in 1 .. Len(records')
    BY <1>3, Types
  <2>2. r.copy.done \subseteq did' /\ r.c \in Contents /\ r.rec \in 1 .. Len(records')
    BY <1>1, <1>2, <1>4, <2>1 DEF Fits
  <2>3. singly' => r.rec = 1 /\ r.copy.entries = records'[1].entries
    <3>1. singly => records = <<>> /\ r.copy = NewRecord
      BY <1>1, <1>2, <1>4 DEF Fits
    <3>2. records = <<>> => Len(records) + 1 = 1
      OBVIOUS
    <3> QED BY <1>1, <1>3, <1>4, <3>1, <3>2
  <2> QED BY <1>4, <2>2, <2>3 DEF Fits
<1> QED BY <1>1, <1>3, <1>4, <1>6, Busy, BusyAlone, Types, Asked, StepKeepsInv

LEMMA CopyRecordKeepsInv ==
  ASSUME CourseInv, NEW t \in Tabs, CopyRecord(t)
  PROVE  CourseInv'
<1> DEFINE rec == [tab[t].copy EXCEPT !.section = TRUE]
<1>1. /\ tab[t].at = "copy" /\ records' = Append(records, rec) /\ Turns(t, "list")
      /\ UNCHANGED <<active, granted, asked, singly, started, did, stored, earned, withdrawn>>
  BY DEF CopyRecord
<1>2. tab[t] \in Requests /\ Fits(tab[t])
  BY Types
<1>3. rec \in CourseRecords /\ rec.done \subseteq did
  BY <1>2 DEF Requests, CourseRecords, Fits
<1> HIDE DEF rec
<1>4. PICK q \in CourseRecords : q = rec
  BY <1>3
<1>5. singly => records # <<>>
  BY <1>1, <1>2 DEF Fits
<1>6. /\ records' \in Seq(CourseRecords) /\ Grows
      /\ RecordsInv' /\ StartedIsListed' /\ CompletionsStay'
  BY <1>1, <1>3, <1>4, <1>5, Appended, AppendKeepsRecords, Types DEF Grows
<1>7. "list" \in Places
  BY DEF Places
<1>8. PICK r \in Requests : r = Going(tab[t], "list")
  BY <1>2, <1>7, GoingState
<1>9. Fits(r)'
  <2>1. /\ Len(records') = Len(records) + 1
        /\ \A i \in 1 .. Len(records) : records'[i] = records[i]
    BY <1>1, <1>3, <1>4, Appended
  <2>2. r.rec \in Nat /\ r.rec \in 1 .. Len(records) /\ Len(records) \in Nat
    BY <1>1, <1>2, <1>7, <1>8, GoingState, Types, ZenonT(30) DEF Fits, Requests
  <2>3. r.rec \in 1 .. Len(records') /\ records'[r.rec] = records[r.rec]
    BY <2>1, <2>2
  <2>4. r.at = "list" /\ r.c = tab[t].c /\ r.rec = tab[t].rec /\ r.copy = tab[t].copy
    BY <1>2, <1>7, <1>8, GoingState
  <2>5. r.c \in Contents /\ r.copy.done \subseteq did
    BY <1>1, <1>2, <2>4 DEF Fits
  <2>6. singly => r.rec = 1 /\ r.copy.entries = records'[1].entries
    BY <1>1, <1>2, <2>3, <2>4 DEF Fits
  <2> QED BY <1>1, <2>3, <2>4, <2>5, <2>6 DEF Fits
<1>10. tab' = [tab EXCEPT ![t] = r]
  BY <1>1, <1>8 DEF Turns, Going
<1> QED BY <1>1, <1>6, <1>9, <1>10, Busy, BusyAlone, Types, Asked, StepKeepsInv

(***************************************************************************)
(* Steps that change a record                                              *)
(***************************************************************************)
LEMMA Changed ==
  ASSUME CourseInv, NEW i \in 1 .. Len(records), NEW rec \in CourseRecords,
         records' = [records EXCEPT ![i] = rec]
  PROVE  /\ records' \in Seq(CourseRecords) /\ Len(records') = Len(records)
         /\ records'[i] = rec /\ DOMAIN records' = DOMAIN records
         /\ \A j \in 1 .. Len(records) : j # i => records'[j] = records[j]
BY Types

(* Nothing is lost if completions stay, and, for a student who waits, the  *)
(* first record still lists each content once.                             *)
LEMMA ChangeKeepsRecords ==
  ASSUME CourseInv, NEW i \in 1 .. Len(records), NEW rec \in CourseRecords,
         records' = [records EXCEPT ![i] = rec],
         did \subseteq did', rec.done \subseteq did', ~granted => earned' \subseteq did',
         (~withdrawn \/ singly) => records[i].done \subseteq rec.done,
         stored' \subseteq stored \cup rec.done,
         singly /\ i = 1 =>
            \A c \in Contents : records[1].entries[c] <= rec.entries[c] /\ rec.entries[c] <= 1,
         singly => \A c \in started' \ started : i = 1 /\ rec.entries[c] = 1,
         started' \subseteq Contents,
         UNCHANGED <<active, granted, singly, withdrawn>>
  PROVE  RecordsInv' /\ StartedIsListed' /\ CompletionsStay'
<1>1. /\ Len(records') = Len(records) /\ records'[i] = rec /\ DOMAIN records' = DOMAIN records
      /\ \A j \in 1 .. Len(records) : j # i => records'[j] = records[j]
      /\ DOMAIN records = 1 .. Len(records)
  BY Changed
<1>2. /\ Len(records) \in Nat /\ records # <<>> /\ records' # <<>> /\ 1 \in 1 .. Len(records)
      /\ records[1] \in CourseRecords
  <2>1. Len(records) \in Nat /\ Len(records) # 0
    BY Types
  <2> QED BY <1>1, <2>1, Types
<1>3. \A j \in 1 .. Len(records') : records'[j].done \subseteq did'
  <2> SUFFICES ASSUME NEW j \in 1 .. Len(records) PROVE records'[j].done \subseteq did'
    BY <1>1
  <2>1. records[j].done \subseteq did
    BY DEF CourseInv, RecordsInv
  <2> QED BY <1>1, <2>1
<1>4. singly => \A c \in Contents : records'[1].entries[c] <= 1
  <2>1. singly => \A c \in Contents : records[1].entries[c] <= 1
    BY <1>2 DEF CourseInv, RecordsInv
  <2> QED BY <1>1, <1>2, <2>1
<1>5. RecordsInv'
  <2>1. ~withdrawn' => active' = Contents
    BY DEF CourseInv, RecordsInv
  <2> QED BY <1>3, <1>4, <2>1 DEF RecordsInv
<1>6. StartedIsListed'
  <2> SUFFICES ASSUME singly, NEW c \in started' PROVE records'[1].entries[c] = 1
    BY <1>2 DEF StartedIsListed
  <2>1. CASE c \in started
    <3>1. records[1].entries[c] = 1
      BY <2>1 DEF CourseInv, StartedIsListed
    <3>2. CASE i = 1
      <4>1. records[1].entries[c] <= rec.entries[c] /\ rec.entries[c] <= 1 /\ rec.entries[c] \in Nat
        BY <3>2 DEF CourseRecords
      <4>2. rec.entries[c] = 1
        BY <3>1, <4>1
      <4> QED BY <1>1, <3>2, <4>2
    <3>3. CASE i # 1
      BY <1>1, <1>2, <3>1, <3>3
    <3> QED BY <3>2, <3>3
  <2>2. CASE c \notin started
    BY <1>1, <2>2
  <2> QED BY <2>1, <2>2
<1>7. CompletionsStay'
  <2> SUFFICES ASSUME ~withdrawn \/ singly, NEW c \in stored'
               PROVE  \E j \in 1 .. Len(records) : c \in records'[j].done
    BY <1>1 DEF CompletionsStay
  <2>1. CASE c \in rec.done
    BY <1>1, <2>1
  <2>2. CASE c \in stored
    <3>1. PICK j \in 1 .. Len(records) : c \in records[j].done
      BY <1>1, <2>2 DEF CourseInv, CompletionsStay
    <3> QED BY <1>1, <3>1
  <2> QED BY <2>1, <2>2
<1> QED BY <1>5, <1>6, <1>7

LEMMA ListContentKeepsInv ==
  ASSUME CourseInv, NEW t \in Tabs, ListContent(t)
  PROVE  CourseInv'
<1>1. PICK r \in Requests : r = tab[t] /\ Fits(r)
  BY Types
<1>2. PICK c \in Contents : c = r.c
  BY <1>1 DEF ListContent, Fits
<1>3. PICK i \in 1 .. Len(records) : i = r.rec
  BY <1>1 DEF ListContent, Fits
<1>4. /\ r.at = "list" /\ started' = started \cup {c} /\ tab' = [tab EXCEPT ![t] = Quiet]
      /\ records' = IF c \in Listed(r.copy) THEN records ELSE PushEntry(i, c)
      /\ UNCHANGED <<active, granted, asked, singly, did, stored, earned, withdrawn>>
  BY <1>1, <1>2, <1>3 DEF ListContent, Answered
<1>5. /\ records[i] \in CourseRecords /\ Len(records) \in Nat /\ 1 \in 1 .. Len(records)
      /\ records[1] \in CourseRecords /\ records # <<>>
  BY Types
<1>6. PICK n \in Nat : n = records[i].entries[c]
  BY <1>5 DEF CourseRecords
<1>7. singly => i = 1 /\ r.copy.entries = records[1].entries /\ \A d \in Contents : records[1].entries[d] <= 1
  BY <1>1, <1>3, <1>4, <1>5 DEF Fits, CourseInv, RecordsInv
<1>8. CASE c \in Listed(r.copy)
  <2>1. records' = records
    BY <1>4, <1>8
  <2>2. singly => records[1].entries[c] = 1
    <3>1. singly => n > 0 /\ n <= 1
      BY <1>6, <1>7, <1>8 DEF Listed
    <3> QED BY <1>6, <1>7, <3>1
  <2>3. Grows /\ records' \in Seq(CourseRecords)
    BY <1>4, <2>1, Types DEF Grows
  <2>4. RecordsInv' /\ CompletionsStay'
    BY <1>4, <2>1 DEF CourseInv, RecordsInv, CompletionsStay
  <2>5. StartedIsListed'
    BY <1>4, <1>5, <2>1, <2>2 DEF CourseInv, StartedIsListed
  <2> QED BY <1>1, <1>4, <2>3, <2>4, <2>5, Busy, BusyAlone, QuietState, Types, Asked, StepKeepsInv
<1>9. CASE c \notin Listed(r.copy)
  <2>1. PICK rec \in CourseRecords :
            /\ records' = [records EXCEPT ![i] = rec]
            /\ rec.done = records[i].done /\ rec.entries = [records[i].entries EXCEPT ![c] = n + 1]
    <3> DEFINE q == [records[i] EXCEPT !.entries[c] = n + 1]
    <3>1. q \in CourseRecords /\ q.done = records[i].done
          /\ q.entries = [records[i].entries EXCEPT ![c] = n + 1]
      <4>1. PICK old \in CourseRecords : old = records[i]
        BY <1>5
      <4>2. PICK e \in [Contents -> Nat] : e = [old.entries EXCEPT ![c] = n + 1]
        <5>1. n + 1 \in Nat /\ old.entries \in [Contents -> Nat]
          BY DEF CourseRecords
        <5> QED BY <5>1
      <4>3. [old EXCEPT !.entries = e] \in CourseRecords
        BY DEF CourseRecords
      <4>4. q = [old EXCEPT !.entries = e]
        BY <4>1, <4>2 DEF CourseRecords
      <4> QED BY <4>1, <4>2, <4>3, <4>4 DEF CourseRecords
    <3>2. records' = [records EXCEPT ![i] = q]
      BY <1>4, <1>6, <1>9 DEF PushEntry
    <3> QED BY <3>1, <3>2
  <2>2. \A d \in Contents : rec.entries[d] = IF d = c THEN n + 1 ELSE records[i].entries[d]
    BY <1>5, <2>1 DEF CourseRecords
  <2>3. singly => n = 0
    <3>1. singly => ~(n > 0)
      BY <1>6, <1>7, <1>9 DEF Listed
    <3> QED BY <1>6, <3>1
  <2>4. \A d \in Contents : records[1].entries[d] \in Nat
    BY <1>5 DEF CourseRecords
  <2>5. singly => \A d \in Contents : records[1].entries[d] <= rec.entries[d] /\ rec.entries[d] <= 1
    <3> SUFFICES ASSUME singly, NEW d \in Contents
                 PROVE records[1].entries[d] <= rec.entries[d] /\ rec.entries[d] <= 1
      OBVIOUS
    <3>1. i = 1 /\ n = 0 /\ records[1].entries[d] <= 1 /\ records[1].entries[d] \in Nat
      BY <1>7, <2>3, <2>4
    <3>2. CASE d = c
      <4>1. rec.entries[d] = 1 /\ records[1].entries[d] = 0
        BY <1>6, <2>2, <3>1, <3>2
      <4> QED BY <4>1
    <3>3. CASE d # c
      <4>1. rec.entries[d] = records[1].entries[d]
        BY <2>2, <3>1, <3>3
      <4> QED BY <3>1, <4>1
    <3> QED BY <3>2, <3>3
  <2>6. singly => \A d \in started' \ started : i = 1 /\ rec.entries[d] = 1
    BY <1>4, <1>7, <2>2, <2>3
  <2>7. rec.done \subseteq did
    BY <2>1 DEF CourseInv, RecordsInv
  <2>8. ~granted => earned \subseteq did
    BY DEF CourseInv, RecordsInv
  <2>9. RecordsInv' /\ StartedIsListed' /\ CompletionsStay'
    BY <1>4, <2>1, <2>5, <2>6, <2>7, <2>8, Types, ChangeKeepsRecords
  <2>10. Grows /\ records' \in Seq(CourseRecords)
    BY <1>4, <2>1, Types, Changed DEF Grows
  <2> QED BY <1>1, <1>4, <2>9, <2>10, Busy, BusyAlone, QuietState, Types, Asked, StepKeepsInv
<1> QED BY <1>8, <1>9

(* The oldest record that lists a content is one of them.                  *)
LEMMA RecordFound ==
  ASSUME CourseInv, NEW c \in Contents, RecordOf(c) # 0
  PROVE  RecordOf(c) \in 1 .. Len(records)
<1> DEFINE I == {i \in 1 .. Len(records) : c \in Listed(records[i])}
<1>1. RecordOf(c) = IF I # {} THEN Min(I) ELSE 0
  BY DEF RecordOf, SelectInSeq
<1>2. I # {} /\ I \subseteq Nat /\ RecordOf(c) = Min(I)
  BY <1>1, Types
<1>3. \E i \in I : \A j \in I : i <= j
  <2>1. PICK i \in I : \A j \in I : ~(<<j, i>> \in OpToRel(<, Nat))
    BY <1>2, NatLessThanWellFounded, WFMin
  <2>2. ASSUME NEW j \in I
        PROVE  i <= j
    <3>1. i \in Nat /\ j \in Nat
      BY <1>2
    <3>2. <<j, i>> \in OpToRel(<, Nat) <=> j < i
      BY <3>1 DEF OpToRel
    <3>3. ~(j < i)
      BY <2>1, <3>2
    <3> QED BY <3>1, <3>3
  <2> QED BY <2>2
<1> QED BY <1>2, <1>3 DEF Min

(* A completion of work that was done is marked.                           *)
LEMMA MarkKeepsRecords ==
  ASSUME CourseInv, NEW c \in Contents, RecordOf(c) # 0, records' = MarkCompleted(c),
         did \subseteq did', c \in did', stored' = stored \cup {c},
         UNCHANGED <<active, granted, singly, started, earned, withdrawn>>
  PROVE  /\ records' \in Seq(CourseRecords) /\ Len(records') = Len(records) /\ Grows
         /\ records'[RecordOf(c)].done \subseteq did'
         /\ RecordsInv' /\ StartedIsListed' /\ CompletionsStay'
<1>1. PICK i \in 1 .. Len(records) : i = RecordOf(c)
  BY RecordFound
<1>2. PICK old \in CourseRecords : old = records[i]
  BY Types
<1>3. old.done \subseteq did
  BY <1>2 DEF CourseInv, RecordsInv
<1>4. PICK rec \in CourseRecords : /\ rec.done = old.done \cup {c} /\ rec.entries = old.entries
                                  /\ records' = [records EXCEPT ![i] = rec]
  <2> DEFINE q == [old EXCEPT !.done = old.done \cup {c}]
  <2>1. q \in CourseRecords /\ q.done = old.done \cup {c} /\ q.entries = old.entries
    BY DEF CourseRecords
  <2>2. records' = [records EXCEPT ![i] = q]
    BY <1>1, <1>2 DEF MarkCompleted
  <2> QED BY <2>1, <2>2
<1>5. singly /\ i = 1 =>
         \A d \in Contents : records[1].entries[d] <= rec.entries[d] /\ rec.entries[d] <= 1
  <2>1. \A d \in Contents : old.entries[d] \in Nat
    BY DEF CourseRecords
  <2>2. singly /\ i = 1 => \A d \in Contents : old.entries[d] <= 1
    BY <1>2, Types DEF CourseInv, RecordsInv
  <2> QED BY <1>2, <1>4, <2>1, <2>2
<1>6. ~granted => earned' \subseteq did'
  BY DEF CourseInv, RecordsInv
<1>7. rec.done \subseteq did' /\ stored' \subseteq stored \cup rec.done /\ records[i].done \subseteq rec.done
  BY <1>2, <1>3, <1>4
<1>8. RecordsInv' /\ StartedIsListed' /\ CompletionsStay'
  BY <1>4, <1>5, <1>6, <1>7, Types, ChangeKeepsRecords
<1>9. /\ records' \in Seq(CourseRecords) /\ Len(records') = Len(records) /\ records'[i] = rec
  BY <1>4, Changed
<1>10. Grows
  <2>1. Len(records) \in Nat
    BY Types
  <2> QED BY <1>9, <2>1 DEF Grows
<1> QED BY <1>1, <1>7, <1>8, <1>9, <1>10

LEMMA CompleteStoreKeepsInv ==
  ASSUME CourseInv, NEW t \in Tabs, CompleteStore(t)
  PROVE  CourseInv'
<1>1. PICK r \in Requests : r = tab[t] /\ Fits(r)
  BY Types
<1>2. /\ r.at = "store" /\ Answered(t)
      /\ UNCHANGED <<active, granted, asked, singly, started, did, earned, withdrawn>>
  BY <1>1 DEF CompleteStore
<1>3. PICK c \in Contents : c = r.c /\ c \in did
  BY <1>1, <1>2 DEF Fits
<1>4. CASE RecordOf(c) = 0
  <2>1. UNCHANGED <<records, stored>>
    BY <1>1, <1>3, <1>4 DEF CompleteStore
  <2> QED BY <1>1, <1>2, <2>1, Busy, EndsKeepsInv
<1>5. CASE RecordOf(c) # 0
  <2>1. records' = MarkCompleted(c) /\ stored' = stored \cup {c}
    BY <1>1, <1>3, <1>5 DEF CompleteStore
  <2>2. /\ records' \in Seq(CourseRecords) /\ Grows
        /\ RecordsInv' /\ StartedIsListed' /\ CompletionsStay'
    BY <1>2, <1>3, <1>5, <2>1, MarkKeepsRecords
  <2> QED BY <1>1, <1>2, <2>1, <2>2, Busy, BusyAlone, QuietState, Types, Asked, StepKeepsInv DEF Answered
<1> QED BY <1>4, <1>5

LEMMA LearnFinishKeepsInv ==
  ASSUME CourseInv, NEW t \in Tabs, NEW c \in Contents, LearnFinish(t, c)
  PROVE  CourseInv'
<1>1. /\ RecordOf(c) # 0 /\ records' = MarkCompleted(c)
      /\ did' = did \cup {c} /\ stored' = stored \cup {c}
      /\ UNCHANGED <<active, granted, singly, started, earned, withdrawn>>
  BY DEF LearnFinish
<1>2. /\ records' \in Seq(CourseRecords) /\ Len(records') = Len(records) /\ Grows
      /\ records'[RecordOf(c)].done \subseteq did'
      /\ RecordsInv' /\ StartedIsListed' /\ CompletionsStay'
  BY <1>1, MarkKeepsRecords
<1>3. PICK i \in 1 .. Len(records') : i = RecordOf(c) /\ i \in Nat
  BY <1>1, <1>2, RecordFound, Types
<1>4. PICK copy \in CourseRecords : copy = records'[i]
  BY <1>2, <1>3
<1>5. PICK q \in Requests : /\ q.at = "learned" /\ q.c = c /\ q.rec = i /\ q.copy = copy
                           /\ Asks(t, q)
  <2> DEFINE r == [Quiet EXCEPT !.at = "learned", !.c = c, !.rec = i, !.copy = copy]
  <2>1. r \in Requests /\ r.at = "learned" /\ r.c = c /\ r.rec = i /\ r.copy = copy
    BY <1>3, NewRecordType DEF Requests, Quiet, Places
  <2>2. Asks(t, r)
    BY <1>1, <1>3, <1>4 DEF LearnFinish
  <2> QED BY <2>1, <2>2
<1>6. Fits(q)'
  <2>1. q.copy.done \subseteq did' /\ q.rec \in 1 .. Len(records') /\ q.copy = records'[q.rec]
    BY <1>2, <1>3, <1>4, <1>5
  <2> QED BY <1>5, <2>1 DEF Fits
<1>7. did' \subseteq Contents /\ stored' \subseteq Contents
  BY <1>1, Types
<1>8. earned' \subseteq Contents /\ started' \subseteq Contents /\ active' = active
  BY <1>1, Types
<1>9. OnlyMine(t) /\ tab' = [tab EXCEPT ![t] = q] /\ asked' \in 0 .. MaxAsked
  BY <1>5, Begins
<1> QED BY <1>2, <1>6, <1>7, <1>8, <1>9, StepKeepsInv

LEMMA WriteBackKeepsInv ==
  ASSUME CourseInv, NEW t \in Tabs, WriteBack(t)
  PROVE  CourseInv'
<1>1. PICK r \in Requests : r = tab[t] /\ Fits(r)
  BY Types
<1>2. /\ r.at = "write back" /\ Answered(t) /\ records' = [records EXCEPT ![r.rec] = r.copy]
      /\ UNCHANGED <<active, granted, asked, singly, started, did, stored, earned, withdrawn>>
  BY <1>1 DEF WriteBack
<1>3. PICK i \in 1 .. Len(records) : i = r.rec
  BY <1>1, <1>2 DEF Fits
<1>4. PICK rec \in CourseRecords : rec = r.copy /\ rec.done \subseteq did
  BY <1>1 DEF Requests, Fits
<1>5. withdrawn /\ (singly => rec = records[i])
  BY <1>1, <1>2, <1>3, <1>4 DEF Fits
<1>6. singly /\ i = 1 =>
         \A d \in Contents : records[1].entries[d] <= rec.entries[d] /\ rec.entries[d] <= 1
  <2>1. \A d \in Contents : rec.entries[d] \in Nat
    BY DEF CourseRecords
  <2>2. singly /\ i = 1 => \A d \in Contents : rec.entries[d] <= 1
    BY <1>5, Types DEF CourseInv, RecordsInv
  <2> QED BY <1>5, <2>1, <2>2
<1>7. ~granted => earned \subseteq did
  BY DEF CourseInv, RecordsInv
<1>8. records' = [records EXCEPT ![i] = rec]
  BY <1>2, <1>3, <1>4
<1>9. RecordsInv' /\ StartedIsListed' /\ CompletionsStay'
  BY <1>2, <1>4, <1>5, <1>6, <1>7, <1>8, Types, ChangeKeepsRecords
<1>10. records' \in Seq(CourseRecords) /\ Grows
  <2>1. records' \in Seq(CourseRecords) /\ Len(records') = Len(records)
    BY <1>8, Changed
  <2>2. Len(records) \in Nat /\ Len(records) <= Len(records)
    BY Types
  <2>3. did \subseteq did' /\ UNCHANGED <<granted, singly, withdrawn>>
    BY <1>2
  <2>4. Grows
    BY <2>1, <2>2, <2>3 DEF Grows
  <2> QED BY <2>1, <2>4
<1> QED BY <1>1, <1>2, <1>9, <1>10, Busy, BusyAlone, QuietState, Types, Asked, StepKeepsInv DEF Answered

LEMMA CertifyKeepsInv ==
  ASSUME CourseInv, NEW t \in Tabs, Certify(t)
  PROVE  CourseInv'
<1>1. PICK r \in Requests : r = tab[t] /\ Fits(r)
  BY Types
<1>2. /\ r.at = "certify" /\ Answered(t)
      /\ UNCHANGED <<active, granted, asked, singly, started, did, stored, withdrawn>>
  BY <1>1 DEF Certify
<1>3. CASE records = <<>>
  <2>1. UNCHANGED <<records, earned>>
    BY <1>3 DEF Certify
  <2> QED BY <1>1, <1>2, <2>1, Busy, EndsKeepsInv
<1>4. CASE records # <<>>
  <2>1. 1 \in 1 .. Len(records)
    BY <1>4, Types
  <2>2. PICK old \in CourseRecords : old = records[1]
    BY <2>1, Types
  <2>3. PICK rec \in CourseRecords : /\ rec.done = old.done /\ rec.entries = old.entries
                                    /\ records' = [records EXCEPT ![1] = rec]
    <3> DEFINE q == [old EXCEPT !.certified = TRUE]
    <3>1. q \in CourseRecords /\ q.done = old.done /\ q.entries = old.entries
      BY DEF CourseRecords
    <3>2. records' = [records EXCEPT ![1] = q]
      BY <1>4, <2>2 DEF Certify
    <3> QED BY <3>1, <3>2
  <2>4. earned' = earned \cup r.needs /\ r.needs \subseteq Contents
    BY <1>1, <1>4 DEF Certify, Requests
  <2>5. ~granted => earned' \subseteq did'
    BY <1>1, <1>2, <2>4 DEF Fits, CourseInv, RecordsInv
  <2>6. rec.done \subseteq did
    BY <2>1, <2>2, <2>3 DEF CourseInv, RecordsInv
  <2>7. singly => \A d \in Contents : records[1].entries[d] <= rec.entries[d] /\ rec.entries[d] <= 1
    <3>1. \A d \in Contents : old.entries[d] \in Nat
      BY DEF CourseRecords
    <3>2. singly => \A d \in Contents : old.entries[d] <= 1
      BY <1>4, <2>2 DEF CourseInv, RecordsInv
    <3> QED BY <2>2, <2>3, <3>1, <3>2
  <2>8. RecordsInv' /\ StartedIsListed' /\ CompletionsStay'
    BY <1>2, <2>1, <2>2, <2>3, <2>5, <2>6, <2>7, Types, ChangeKeepsRecords
  <2>9. records' \in Seq(CourseRecords) /\ Grows
    BY <1>2, <2>1, <2>3, Changed, Types DEF Grows
  <2>10. earned' \subseteq Contents
    BY <2>4, Types
  <2> QED BY <1>1, <1>2, <2>8, <2>9, <2>10, Busy, BusyAlone, QuietState, Types, Asked, StepKeepsInv DEF Answered
<1> QED BY <1>3, <1>4

(***************************************************************************)
(* The specification                                                       *)
(***************************************************************************)
LEMMA InitCourseInv ==
  ASSUME CourseInit
  PROVE  CourseInv
<1>1. /\ records = <<>> /\ active = Contents /\ granted \in BOOLEAN /\ singly \in BOOLEAN
      /\ tab = [t \in Tabs |-> Quiet] /\ asked = 0 /\ withdrawn = FALSE
      /\ started = {} /\ did = {} /\ stored = {} /\ earned = {}
  BY DEF CourseInit
<1>2. /\ Quiet \in Requests /\ Quiet.at = "idle" /\ Quiet.copy.done = {}
  BY NewRecordType DEF Quiet, Requests, Places
<1>3. Fits(Quiet)
  BY <1>1, <1>2 DEF Fits
<1>4. tab \in [Tabs -> Requests] /\ HandsInv /\ AloneInv
  BY <1>1, <1>2, <1>3 DEF HandsInv, AloneInv
<1>5. asked \in 0 .. MaxAsked
  BY <1>1, CourseAssumption
<1>6. \A t \in Tabs : tab[t] \in Requests /\ tab[t].at = "idle"
  BY <1>1, <1>2
<1>7. CourseType
  <2>1. \A t \in Tabs : /\ tab[t].c \in Contents \cup {NoContent} /\ tab[t].copy \in CourseRecords
                        /\ tab[t].needs \subseteq Contents
    BY <1>6 DEF Requests
  <2>2. records \in Seq(CourseRecords)
    BY <1>1
  <2> QED BY <1>1, <1>5, <1>6, <2>1, <2>2 DEF CourseType
<1>8. RecordsInv /\ StartedIsListed /\ CompletionsStay
  BY <1>1 DEF RecordsInv, StartedIsListed, CompletionsStay
<1> QED BY <1>4, <1>7, <1>8 DEF CourseInv

LEMMA StepCourseInv ==
  ASSUME CourseInv, [CourseNext]_courseVars
  PROVE  CourseInv'
<1>1. CASE \E t \in Tabs : TabStep(t)
  <2>1. PICK t \in Tabs : TabStep(t)
    BY <1>1
  <2>2. CASE GetCourse(t) \/ CreateRecord(t) \/ CreateFirst(t) \/ CopyRecord(t) \/ ListContent(t)
    BY <2>2, GetCourseKeepsInv, CreateRecordKeepsInv, CreateFirstKeepsInv, CopyRecordKeepsInv,
       ListContentKeepsInv
  <2>3. CASE CompleteJudge(t) \/ CompleteStore(t) \/ LearnJudge(t) \/ WriteBack(t)
    BY <2>3, CompleteJudgeKeepsInv, CompleteStoreKeepsInv, LearnJudgeKeepsInv, WriteBackKeepsInv
  <2>4. CASE VerifyFind(t) \/ VerifyCheck(t) \/ Certify(t) \/ CourseFails(t)
    BY <2>4, VerifyFindKeepsInv, VerifyCheckKeepsInv, CertifyKeepsInv, CourseFailsKeepsInv
  <2>5. CASE \E c \in Contents : ContentFind(t, c) \/ CompleteFind(t, c) \/ LearnFinish(t, c)
    BY <2>5, ContentFindKeepsInv, CompleteFindKeepsInv, LearnFinishKeepsInv
  <2> QED BY <2>1, <2>2, <2>3, <2>4, <2>5 DEF TabStep
<1>2. CASE \E c \in Contents : EditContent(c)
  BY <1>2, EditContentKeepsInv
<1>3. CASE UNCHANGED courseVars
  <2>1. /\ UNCHANGED <<records, active, granted, tab, asked, singly>>
        /\ UNCHANGED <<started, did, stored, earned, withdrawn>>
    BY <1>3 DEF courseVars
  <2>2. CourseType' /\ tab' \in [Tabs -> Requests]
    BY <2>1 DEF CourseInv, CourseType
  <2>3. HandsInv'
    BY <2>1 DEF CourseInv, HandsInv, Fits
  <2>4. AloneInv' /\ RecordsInv' /\ StartedIsListed' /\ CompletionsStay'
    BY <2>1 DEF CourseInv, AloneInv, RecordsInv, StartedIsListed, CompletionsStay
  <2> QED BY <2>2, <2>3, <2>4 DEF CourseInv
<1> QED BY <1>1, <1>2, <1>3 DEF CourseNext

LEMMA CourseInvariant == CourseSpec => []CourseInv
<1>1. CourseInit => CourseInv
  BY InitCourseInv
<1>2. CourseInv /\ [CourseNext]_courseVars => CourseInv'
  BY StepCourseInv
<1> QED BY <1>1, <1>2, PTL DEF CourseSpec

(* Records, requests and the sets of contents keep their types, in every   *)
(* course and however many requests are served at the same time.           *)
THEOREM CourseTypeCorrect == CourseSpec => []CourseType
<1>1. CourseInv => CourseType
  BY DEF CourseInv
<1> QED BY <1>1, CourseInvariant, PTL

(* A student who waits for each answer finds every content that he has     *)
(* started, once, in the record that the rest of the course service reads, *)
(* although startContent makes copies of records and may fail in between.  *)
THEOREM StartsStayListed == CourseSpec => []StartedIsListed
<1>1. CourseInv => StartedIsListed
  BY DEF CourseInv
<1> QED BY <1>1, CourseInvariant, PTL

(* Without a content being taken out of the course, or for a student who   *)
(* waits, no completion is lost by the two services that write the record. *)
THEOREM CompletionsAreKept == CourseSpec => []CompletionsStay
<1>1. CourseInv => CompletionsStay
  BY DEF CourseInv
<1> QED BY <1>1, CourseInvariant, PTL

(* Whatever the teacher edits and however the requests of the student      *)
(* overlap, only contents that he has worked through earn a certificate.   *)
THEOREM CertificatesAreEarned == CourseSpec => []CertificateIsEarned
<1>1. CourseInv => CertificateIsEarned
  BY DEF CourseInv, RecordsInv, CertificateIsEarned
<1> QED BY <1>1, CourseInvariant, PTL

=============================================================================
