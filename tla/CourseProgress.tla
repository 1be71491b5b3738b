--------------------------- MODULE CourseProgress ---------------------------
(***************************************************************************)
(* The progress of one student in one course: the usercourse record of the *)
(* contents that were started and completed, which course.service.ts keeps *)
(* and learningTest.service.ts changes too, and the certificate that is    *)
(* issued from it. There is no unique index, so there may be several       *)
(* records; a query finds the oldest one that fits.                        *)
(***************************************************************************)
EXTENDS Naturals, Sequences, FiniteSets, SequencesExt

CONSTANTS
    Contents,   \* of the course, in one section
    Quizzes,    \* contents of type quiz or assessment, here learning tests
    Optional,   \* contents that the certificate does not need
    Demo,       \* the first content, shown before the course is bought
    Tabs,       \* requests of the student served at the same time
    NoContent,
    MaxAsked    \* bounds the number of requests

ASSUME CourseAssumption ==
    /\ Quizzes \subseteq Contents /\ Optional \subseteq Contents /\ Demo \in Contents
    /\ NoContent \notin Contents
    /\ MaxAsked \in Nat

VARIABLES
    records,    \* the usercourse documents of student and course, oldest first
    active,     \* contents that are active in the course
    granted,    \* whether a teacher has made a certificate (certificate.service.ts)
    tab,        \* tab[t]: the request it serves, with what it has read
    asked,      \* number of requests
    singly,     \* whether the student waits for each answer
    started,    \* contents whose start was answered
    did,        \* contents that the student has worked through
    stored,     \* contents that a record has listed as completed
    earned,     \* contents that were required when the certificate was issued
    withdrawn   \* whether a content has been taken out of the course

courseVars == <<records, active, granted, tab, asked, singly, started, did, stored, earned, withdrawn>>

(* entries[c]: entries of content c, of which the first one counts. *)
NewRecord == [section |-> FALSE, entries |-> [c \in Contents |-> 0], done |-> {}, certified |-> FALSE]

DemoRecord == [NewRecord EXCEPT !.section = TRUE, !.entries[Demo] = 1]

Listed(rec) == {c \in Contents : rec.entries[c] > 0}

(* c: the content; rec: the record it writes; copy: the record it has read; *)
(* needs: the contents that the certificate requires.                      *)
Quiet == [at |-> "idle", c |-> NoContent, rec |-> 1, copy |-> NewRecord, needs |-> {}]

CourseInit ==
    /\ records = <<>>
    /\ active = Contents
    /\ granted \in BOOLEAN
    /\ tab = [t \in Tabs |-> Quiet]
    /\ asked = 0
    /\ singly \in BOOLEAN
    /\ started = {} /\ did = {} /\ stored = {} /\ earned = {}
    /\ withdrawn = FALSE

Asks(t, request) ==
    /\ tab[t] = Quiet /\ asked < MaxAsked
    /\ singly => \A s \in Tabs : tab[s] = Quiet
    /\ asked' = asked + 1
    /\ tab' = [tab EXCEPT ![t] = request]

Turns(t, at) == tab' = [tab EXCEPT ![t].at = at]

Answered(t) == tab' = [tab EXCEPT ![t] = Quiet]

(* The oldest record that lists c; 0 if there is none. *)
RecordOf(c) == SelectInSeq(records, LAMBDA rec : c \in Listed(rec))

(***************************************************************************)
(* getUserCourse                                                           *)
(***************************************************************************)
GetCourse(t) ==
    /\ records = <<>>
    /\ Asks(t, [Quiet EXCEPT !.at = "create"])
    /\ UNCHANGED <<records, active, granted, singly, started, did, stored, earned, withdrawn>>

(* The course is read in between. A demo lists its section and content.    *)
CreateRecord(t) ==
    /\ tab[t].at = "create"
    /\ \E rec \in {NewRecord, DemoRecord} : records' = Append(records, rec)
    /\ Answered(t)
    /\ UNCHANGED <<active, granted, asked, singly, started, did, stored, earned, withdrawn>>

(***************************************************************************)
(* startContent                                                            *)
(***************************************************************************)
(* Where it goes on: the section is missing, or the content.               *)
AfterFind(rec) == IF rec.section THEN "list" ELSE "copy"

ContentFind(t, c) ==
    /\ IF records = <<>>
       THEN Asks(t, [Quiet EXCEPT !.at = "create first", !.c = c])
       ELSE Asks(t, [Quiet EXCEPT !.at = AfterFind(records[1]), !.c = c, !.copy = records[1]])
    /\ UNCHANGED <<records, active, granted, singly, started, did, stored, earned, withdrawn>>

CreateFirst(t) ==
    /\ tab[t].at = "create first"
    /\ records' = Append(records, NewRecord)
    /\ tab' = [tab EXCEPT ![t].at = "copy", ![t].rec = Len(records) + 1]
    /\ UNCHANGED <<active, granted, asked, singly, started, did, stored, earned, withdrawn>>

(* create makes another record of what was read, and the section is pushed *)
(* into that one, in two operations of which nothing reads the second.     *)
CopyRecord(t) ==
    /\ tab[t].at = "copy"
    /\ records' = Append(records, [tab[t].copy EXCEPT !.section = TRUE])
    /\ Turns(t, "list")
    /\ UNCHANGED <<active, granted, asked, singly, started, did, stored, earned, withdrawn>>

(* Mutant of PushEntry: the content goes where the section went. *)
PushEntryNew(rec, c) == [records EXCEPT ![Len(records)].entries[c] = @ + 1]

PushEntry(rec, c) == [records EXCEPT ![rec].entries[c] = @ + 1]

(* An entry that is there only gets a new time.                            *)
ListContent(t) ==
    LET c == tab[t].c
    IN  /\ tab[t].at = "list"
        /\ records' = IF c \in Listed(tab[t].copy) THEN records ELSE PushEntry(tab[t].rec, c)
        /\ started' = started \cup {c}
        /\ Answered(t)
        /\ UNCHANGED <<active, granted, asked, singly, did, stored, earned, withdrawn>>

(***************************************************************************)
(* completeContent                                                         *)
(***************************************************************************)
CompleteFind(t, c) ==
    /\ records # <<>> /\ c \in Listed(records[1]) \ records[1].done
    /\ did' = did \cup {c}
    /\ Asks(t, [Quiet EXCEPT !.at = "judge", !.c = c, !.copy = records[1]])
    /\ UNCHANGED <<records, active, granted, singly, started, stored, earned, withdrawn>>

(* The course is read. Of a quiz, updateSectionAnalytics asks for c._is of *)
(* an entry and throws. Only the last completion is stored.                *)
CompleteJudge(t) ==
    LET c == tab[t].c
    IN  /\ tab[t].at = "judge"
        /\ IF c \notin Quizzes \cap active /\ active \subseteq tab[t].copy.done \cup {c}
           THEN Turns(t, "store")
           ELSE Answered(t)
        /\ UNCHANGED <<records, active, granted, asked, singly, started, did, stored, earned, withdrawn>>

(* contents.$.completed of the oldest record that lists the content.       *)
MarkCompleted(c) == [records EXCEPT ![RecordOf(c)].done = @ \cup {c}]

CompleteStore(t) ==
    /\ tab[t].at = "store"
    /\ IF RecordOf(tab[t].c) = 0
       THEN UNCHANGED <<records, stored>>
       ELSE /\ records' = MarkCompleted(tab[t].c)
            /\ stored' = stored \cup {tab[t].c}
    /\ Answered(t)
    /\ UNCHANGED <<active, granted, asked, singly, started, did, earned, withdrawn>>

(***************************************************************************)
(* updateUserCourse, when the last question of a learning test is answered *)
(***************************************************************************)
LearnFinish(t, c) ==
    /\ c \in Quizzes /\ RecordOf(c) # 0
    /\ records' = MarkCompleted(c)
    /\ Asks(t, [Quiet EXCEPT !.at = "learned", !.c = c, !.rec = RecordOf(c),
                    !.copy = MarkCompleted(c)[RecordOf(c)]])
    /\ did' = did \cup {c} /\ stored' = stored \cup {c}
    /\ UNCHANGED <<active, granted, singly, started, earned, withdrawn>>

(* Mutant of WritesBack: updateSectionAnalytics works. *)
WritesBackAlways(c) == TRUE

(* Of an active content the analytics throw as above, and the error is     *)
(* only logged.                                                            *)
WritesBack(c) == c \notin active

LearnJudge(t) ==
    /\ tab[t].at = "learned"
    /\ IF WritesBack(tab[t].c) THEN Turns(t, "write back") ELSE Answered(t)
    /\ UNCHANGED <<records, active, granted, asked, singly, started, did, stored, earned, withdrawn>>

(* The whole record as it was when the content was marked.                 *)
WriteBack(t) ==
    /\ tab[t].at = "write back"
    /\ records' = [records EXCEPT ![tab[t].rec] = tab[t].copy]
    /\ Answered(t)
    /\ UNCHANGED <<active, granted, asked, singly, started, did, stored, earned, withdrawn>>

(***************************************************************************)
(* verifyCourseUserProgress                                                *)
(***************************************************************************)
(* A certificate that is there is enough; else the course is read, with    *)
(* the contents it requires.                                               *)
VerifyFind(t) ==
    /\ Asks(t, IF granted THEN [Quiet EXCEPT !.at = "certify"]
               ELSE [Quiet EXCEPT !.at = "check", !.needs = active \ Optional])
    /\ UNCHANGED <<records, active, granted, singly, started, did, stored, earned, withdrawn>>

(* Mutant of Incomplete: what is started is done. *)
IncompleteUnlisted(required, rec) == required \ Listed(rec)

Incomplete(required, rec) == required \ (Listed(rec) \cap rec.done)

(* The marks of the tests may be too low.                                  *)
VerifyCheck(t) ==
    /\ tab[t].at = "check"
    /\ \/ Answered(t)
       \/ /\ records # <<>> /\ Listed(records[1]) # {}
          /\ Incomplete(tab[t].needs, records[1]) = {}
          /\ Turns(t, "certify")
    /\ UNCHANGED <<records, active, granted, asked, singly, started, did, stored, earned, withdrawn>>

Certify(t) ==
    /\ tab[t].at = "certify"
    /\ IF records = <<>>
       THEN UNCHANGED <<records, earned>>
       ELSE /\ records' = [records EXCEPT ![1].certified = TRUE]
            /\ earned' = earned \cup tab[t].needs
    /\ Answered(t)
    /\ UNCHANGED <<active, granted, asked, singly, started, did, stored, withdrawn>>

(***************************************************************************)
(* editContentInSection, and an operation that fails                       *)
(***************************************************************************)
EditContent(c) ==
    /\ active' = IF c \in active THEN active \ {c} ELSE active \cup {c}
    /\ withdrawn' = (withdrawn \/ c \in active)
    /\ UNCHANGED <<records, granted, tab, asked, singly, started, did, stored, earned>>

CourseFails(t) ==
    /\ tab[t] # Quiet
    /\ Answered(t)
    /\ UNCHANGED <<records, active, granted, asked, singly, started, did, stored, earned, withdrawn>>

TabStep(t) ==
    \/ GetCourse(t) \/ CreateRecord(t)
    \/ CreateFirst(t) \/ CopyRecord(t) \/ ListContent(t)
    \/ CompleteJudge(t) \/ CompleteStore(t)
    \/ LearnJudge(t) \/ WriteBack(t)
    \/ VerifyFind(t) \/ VerifyCheck(t) \/ Certify(t)
    \/ CourseFails(t)
    \/ \E c \in Contents : ContentFind(t, c) \/ CompleteFind(t, c) \/ LearnFinish(t, c)

CourseNext == (\E t \in Tabs : TabStep(t)) \/ \E c \in Contents : EditContent(c)

CourseSpec == CourseInit /\ [][CourseNext]_courseVars

(***************************************************************************)
(* Properties                                                              *)
(***************************************************************************)
CourseRecords ==
    [section : BOOLEAN, entries : [Contents -> Nat], done : SUBSET Contents, certified : BOOLEAN]

CourseType ==
    /\ records \in Seq(CourseRecords)
    /\ active \subseteq Contents
    /\ \A t \in Tabs :
        /\ tab[t].at \in {"idle", "create", "create first", "copy", "list", "judge", "store",
                          "learned", "write back", "check", "certify"}
        /\ tab[t].c \in Contents \cup {NoContent}
        /\ tab[t].copy \in CourseRecords
        /\ tab[t].needs \subseteq Contents
        /\ tab[t].at \in {"list", "write back"} => tab[t].rec \in DOMAIN records
    /\ asked \in 0 .. MaxAsked
    /\ started \cup did \cup stored \cup earned \subseteq Contents
    /\ granted \in BOOLEAN /\ singly \in BOOLEAN /\ withdrawn \in BOOLEAN

(* A student who waits for each answer finds every content whose start was *)
(* answered, once, in the record that completeContent and the certificate  *)
(* read, however many copies starting has made and whatever has failed.    *)
StartedIsListed ==
    singly => \A c \in started : records # <<>> /\ records[1].entries[c] = 1

(* As long as no content is taken out of the course, or for a student who  *)
(* waits, a completion that was stored is never lost: completions store    *)
(* one flag each, and the write-back of a learning test is not reached.    *)
CompletionsStay ==
    (~withdrawn \/ singly) => \A c \in stored : \E i \in DOMAIN records : c \in records[i].done

(* A certificate that no teacher made is issued only for contents that the *)
(* student has worked through, whatever the teacher edits meanwhile.       *)
CertificateIsEarned ==
    (~granted /\ \E i \in DOMAIN records : records[i].certified) => earned \subseteq did

=============================================================================
