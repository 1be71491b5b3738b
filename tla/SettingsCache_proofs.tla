------------------------ MODULE SettingsCache_proofs ------------------------
(***************************************************************************)
(* Proofs about SettingsCache, for any number of readers and writers and   *)
(* any discounts. That every stale copy goes away in the end is left to    *)
(* the model checker.                                                      *)
(***************************************************************************)
EXTENDS SettingsCache, FiniteSetTheorems, TLAPS

(* Writers that have not written yet: each raises the revision once.       *)
Unwritten == {w \in Writers : writer[w].at \in {"idle", "write"}}

(* A reader holds no revision newer than the document. *)
ReaderInv == \A r \in Readers : reader[r].rev <= setting.rev

(* A copy that is not the document's is one that update is about to delete.*)
CopyInv ==
    upsets \cap {"bypass", "late fill", "failure"} = {} =>
        cached \in {setting.rev, None} \/ \E w \in Writers : writer[w].del # "none"

(* Updates that do not overlap: one at a time, which has read the discount *)
(* as it is, and has written the one that it passes on.                    *)
DiscountInv ==
    upsets \cap {"bypass", "overlap", "failure"} = {} =>
        /\ \A v, w \in Writers : InUpdate(v) /\ InUpdate(w) => v = w
        /\ \A w \in Writers :
            /\ writer[w].at = "write" => writer[w].old = setting.discount
            /\ writer[w].at = "coupons" => writer[w].new = setting.discount
        /\ (\A w \in Writers : writer[w].at # "coupons") => percent = setting.discount

(* Only a discount that was asked for is passed on.                        *)
AskedInv == \A w \in Writers : writer[w].at = "coupons" => writer[w].new # None

SettingsInv ==
    /\ SettingsType
    /\ AskedInv
    /\ setting.rev + Cardinality(Unwritten) <= Cardinality(Writers)
    /\ ReaderInv
    /\ CopyInv
    /\ DiscountInv

LEMMA WritersFinite ==
  /\ Cardinality(Writers) \in Nat
  /\ Unwritten \subseteq Writers /\ IsFiniteSet(Unwritten) /\ Cardinality(Unwritten) \in Nat
<1>1. IsFiniteSet(Writers) /\ Unwritten \subseteq Writers
  BY SettingsAssumption DEF Unwritten
<1> QED BY <1>1, FS_CardinalityType, FS_Subset

(* Writers only go on: the first write of one leaves one fewer.            *)
LEMMA FewerUnwritten ==
  ASSUME Unwritten' \subseteq Unwritten
  PROVE  /\ Cardinality(Unwritten') \in Nat /\ Cardinality(Unwritten') <= Cardinality(Unwritten)
         /\ Unwritten' # Unwritten => Cardinality(Unwritten') + 1 <= Cardinality(Unwritten)
<1>1. IsFiniteSet(Unwritten) /\ Cardinality(Unwritten) \in Nat
  BY WritersFinite
<1>2. IsFiniteSet(Unwritten') /\ Cardinality(Unwritten') \in Nat
      /\ Cardinality(Unwritten') <= Cardinality(Unwritten)
      /\ (Cardinality(Unwritten) = Cardinality(Unwritten') => Unwritten' = Unwritten)
  BY <1>1, FS_Subset, FS_CardinalityType
<1> QED BY <1>1, <1>2

(* It holds of the empty cache and the settings the service starts with.   *)
THEOREM InitSettingsInv == SettingsInit => SettingsInv
<1> SUFFICES ASSUME SettingsInit PROVE SettingsInv
  OBVIOUS
<1>1. SettingsType /\ setting.rev = 0
  BY WritersFinite DEF SettingsInit, SettingsType, Revisions, Idle, Upsets
<1>2. Unwritten = Writers
  BY DEF SettingsInit, Unwritten
<1>3. AskedInv /\ ReaderInv /\ CopyInv /\ DiscountInv
  BY DEF SettingsInit, AskedInv, ReaderInv, CopyInv, DiscountInv, InUpdate, Idle
<1> QED BY <1>1, <1>2, <1>3, WritersFinite DEF SettingsInv

(* Readers and Redis leave the document, the coupons and the writers.      *)
LEMMA ReaderKeepsInv ==
  ASSUME SettingsInv, Expire \/ \E r \in Readers : ReaderStep(r)
  PROVE  SettingsInv'
<1>1. /\ SettingsType /\ ReaderInv /\ CopyInv /\ DiscountInv /\ AskedInv /\ setting.rev \in Nat
  BY WritersFinite DEF SettingsInv, SettingsType, Revisions
<1>2. UNCHANGED <<setting, percent, writer>> /\ upsets \subseteq upsets'
  BY DEF Expire, ReaderStep, AskCache, ReadDocument, Fill, ReaderFails
<1>3. DiscountInv' /\ AskedInv'
  BY <1>1, <1>2 DEF DiscountInv, AskedInv, InUpdate
<1>4. Unwritten' = Unwritten
  BY <1>2 DEF Unwritten
<1>5. CASE Expire
  BY <1>1, <1>2, <1>3, <1>4, <1>5 DEF SettingsInv, SettingsType, ReaderInv, CopyInv, Expire
<1>6. ASSUME NEW r \in Readers, AskCache(r) \/ ReadDocument(r) \/ ReaderFails(r)
      PROVE  SettingsInv'
  <2>1. UNCHANGED <<cached, upsets>>
    BY <1>6 DEF AskCache, ReadDocument, ReaderFails
  <2>2. \A q \in Readers : reader'[q].rev <= setting.rev
    <3>1. CASE AskCache(r)
      BY <1>1, <3>1 DEF SettingsType, ReaderInv, AskCache
    <3>2. CASE ReadDocument(r) \/ ReaderFails(r)
      BY <1>1, <3>2 DEF SettingsType, ReaderInv, ReadDocument, ReaderFails, Idle
    <3> QED BY <1>6, <3>1, <3>2
  <2>3. reader' \in [Readers -> [at : {"idle", "read", "fill"}, rev : Revisions]]
    <3>1. CASE AskCache(r)
      BY <1>1, <3>1 DEF SettingsType, AskCache
    <3>2. CASE ReadDocument(r)
      BY <1>1, <3>2 DEF SettingsType, ReadDocument
    <3>3. CASE ReaderFails(r)
      <4>1. Idle \in [at : {"idle", "read", "fill"}, rev : Revisions]
        BY WritersFinite DEF Idle, Revisions
      <4> QED BY <1>1, <3>3, <4>1 DEF SettingsType, ReaderFails
    <3> QED BY <1>6, <3>1, <3>2, <3>3
  <2> QED BY <1>1, <1>2, <1>3, <1>4, <2>1, <2>2, <2>3 DEF SettingsInv, SettingsType, ReaderInv, CopyInv
<1>7. ASSUME NEW r \in Readers, Fill(r)
      PROVE  SettingsInv'
  <2>1. /\ cached' = reader[r].rev /\ cached' \in Revisions /\ cached' <= setting.rev
        /\ cached' < setting.rev => "late fill" \in upsets'
        /\ upsets' \subseteq upsets \cup {"late fill"}
    BY <1>1, <1>7 DEF Fill, SettingsType, ReaderInv
  <2>2. CopyInv'
    <3>1. upsets' \cap {"bypass", "late fill", "failure"} = {} => cached' = setting.rev
      <4>1. \A k \in Revisions : k \in Nat
        BY WritersFinite DEF Revisions
      <4>2. \A k, n \in Nat : k <= n => k = n \/ k < n
        OBVIOUS
      <4> QED BY <1>1, <2>1, <4>1, <4>2
    <3> QED BY <1>2, <3>1 DEF CopyInv
  <2>3. /\ reader' \in [Readers -> [at : {"idle", "read", "fill"}, rev : Revisions]]
        /\ \A q \in Readers : reader'[q].rev <= setting.rev
    <3>1. Idle \in [at : {"idle", "read", "fill"}, rev : Revisions] /\ Idle.rev = 0
      BY WritersFinite DEF Idle, Revisions
    <3>2. reader' = [reader EXCEPT ![r] = Idle]
      BY <1>7 DEF Fill
    <3>3. \A q \in Readers : reader'[q] = reader[q] \/ reader'[q] = Idle
      BY <1>1, <3>2 DEF SettingsType
    <3> QED BY <1>1, <3>1, <3>2, <3>3 DEF SettingsType, ReaderInv
  <2> QED BY <1>1, <1>2, <1>3, <1>4, <2>1, <2>2, <2>3 DEF SettingsInv, SettingsType, ReaderInv, Upsets
<1> QED BY <1>5, <1>6, <1>7 DEF ReaderStep

(* The next state of a writer.                                             *)
WriterStates == [at : {"idle", "write", "coupons", "done"},
                 new : Discounts \cup {None}, old : Discounts \cup {None},
                 del : {"none", "look", "delete"}]

LEMMA WriterGoesOn ==
  ASSUME SettingsInv, NEW w \in Writers, NEW s \in WriterStates,
         writer' = [writer EXCEPT ![w] = s],
         s.at \in {"idle", "write"} => writer[w].at \in {"idle", "write"}
  PROVE  /\ writer' \in [Writers -> WriterStates]
         /\ writer'[w] = s /\ \A v \in Writers \ {w} : writer'[v] = writer[v]
         /\ Cardinality(Unwritten') \in Nat /\ Cardinality(Unwritten') <= Cardinality(Unwritten)
         /\ writer[w].at \in {"idle", "write"} /\ s.at \notin {"idle", "write"} =>
              Cardinality(Unwritten') + 1 <= Cardinality(Unwritten)
<1>1. writer \in [Writers -> WriterStates]
  BY DEF SettingsInv, SettingsType, WriterStates
<1>2. Unwritten' \subseteq Unwritten
  BY <1>1 DEF Unwritten
<1>3. writer[w].at \in {"idle", "write"} /\ s.at \notin {"idle", "write"} => Unwritten' # Unwritten
  <2>1. writer'[w] = s
    BY <1>1
  <2>2. writer[w].at \in {"idle", "write"} => w \in Unwritten
    BY DEF Unwritten
  <2>3. s.at \notin {"idle", "write"} => w \notin Unwritten'
    BY <2>1 DEF Unwritten
  <2> QED BY <2>2, <2>3
<1> QED BY <1>1, <1>2, <1>3, FewerUnwritten

(* What every step of a writer has in common: it raises the revision only  *)
(* when it stops being unwritten.                                          *)
LEMMA WriterTypes ==
  ASSUME SettingsInv, NEW w \in Writers, NEW s \in WriterStates,
         writer' = [writer EXCEPT ![w] = s],
         s.at \in {"idle", "write"} => writer[w].at \in {"idle", "write"},
         setting' = setting \/
            (writer[w].at \in {"idle", "write"} /\ s.at \notin {"idle", "write"} /\
             \E d \in Discounts : setting' = [rev |-> setting.rev + 1, discount |-> d]),
         percent' \in Discounts, cached' \in {cached, None},
         \E U \in SUBSET Upsets : upsets' = upsets \cup U, reader' = reader
  PROVE  /\ SettingsType' /\ ReaderInv'
         /\ setting'.rev + Cardinality(Unwritten') <= Cardinality(Writers)'
<1>1. Cardinality(Writers)' = Cardinality(Writers)
  OBVIOUS
<1>2. /\ setting \in [rev : Revisions, discount : Discounts] /\ setting.rev \in Nat
      /\ setting.rev + Cardinality(Unwritten) <= Cardinality(Writers)
      /\ reader \in [Readers -> [at : {"idle", "read", "fill"}, rev : Revisions]]
      /\ \A r \in Readers : reader[r].rev <= setting.rev
      /\ cached \in Revisions \cup {None} /\ upsets \subseteq Upsets
  BY WritersFinite DEF SettingsInv, SettingsType, ReaderInv, Revisions
<1>3. /\ writer' \in [Writers -> WriterStates] /\ Cardinality(Unwritten') \in Nat
      /\ setting'.rev \in Nat /\ setting'.rev \in {setting.rev, setting.rev + 1}
      /\ setting'.rev + Cardinality(Unwritten') <= Cardinality(Writers)
  <2>1. /\ writer' \in [Writers -> WriterStates]
        /\ Cardinality(Unwritten') \in Nat /\ Cardinality(Unwritten') <= Cardinality(Unwritten)
        /\ writer[w].at \in {"idle", "write"} /\ s.at \notin {"idle", "write"} =>
             Cardinality(Unwritten') + 1 <= Cardinality(Unwritten)
    BY WriterGoesOn
  <2>2. \/ setting'.rev = setting.rev
        \/ /\ setting'.rev = setting.rev + 1
           /\ Cardinality(Unwritten') + 1 <= Cardinality(Unwritten)
    BY <2>1
  <2> QED BY <1>2, <2>1, <2>2, WritersFinite
<1>4. setting' \in [rev : Revisions, discount : Discounts]
  <2>1. setting'.rev \in Revisions
    BY <1>3, WritersFinite DEF Revisions
  <2> QED BY <1>2, <2>1
<1>5. \A r \in Readers : reader[r].rev \in Nat /\ reader[r].rev <= setting'.rev
  BY <1>2, <1>3, WritersFinite DEF Revisions
<1> QED BY <1>1, <1>2, <1>3, <1>4, <1>5 DEF SettingsType, ReaderInv, WriterStates

(* The states a writer can go to.                                          *)
Turned(s, at, d, e) == [s EXCEPT !.at = at, !.new = d, !.old = e]

Deleting(s, del) == [s EXCEPT !.del = del]

Written(s, del, at) == [s EXCEPT !.del = del, !.at = at]

LEMMA TurnedState ==
  ASSUME NEW s \in WriterStates, NEW d \in Discounts \cup {None}, NEW e \in Discounts \cup {None},
         NEW at \in {"idle", "write", "coupons", "done"}
  PROVE  LET n == Turned(s, at, d, e)
         IN  n \in WriterStates /\ n.at = at /\ n.new = d /\ n.old = e /\ n.del = s.del
BY DEF WriterStates, Turned

LEMMA DeletingState ==
  ASSUME NEW s \in WriterStates, NEW del \in {"none", "look", "delete"}
  PROVE  LET n == Deleting(s, del)
         IN  n \in WriterStates /\ n.at = s.at /\ n.new = s.new /\ n.old = s.old /\ n.del = del
BY DEF WriterStates, Deleting

LEMMA WrittenState ==
  ASSUME NEW s \in WriterStates, NEW del \in {"none", "look", "delete"},
         NEW at \in {"idle", "write", "coupons", "done"}
  PROVE  LET n == Written(s, del, at)
         IN  n \in WriterStates /\ n.at = at /\ n.new = s.new /\ n.old = s.old /\ n.del = del
BY DEF WriterStates, Written

LEMMA WriterKeepsInv ==
  ASSUME SettingsInv, NEW w \in Writers, WriterStep(w)
  PROVE  SettingsInv'
<1>1. /\ writer \in [Writers -> WriterStates] /\ writer[w] \in WriterStates
      /\ setting.discount \in Discounts /\ percent \in Discounts
      /\ writer[w].new \in Discounts \cup {None} /\ writer[w].old \in Discounts \cup {None}
      /\ upsets \subseteq Upsets /\ CopyInv /\ DiscountInv /\ AskedInv /\ None \notin Discounts
  BY SettingsAssumption DEF SettingsInv, SettingsType, WriterStates
<1> DEFINE Ended == Turned(writer[w], "done", None, None)
<1>2. Ended \in WriterStates /\ Ended.at = "done" /\ Ended.del = writer[w].del
  BY <1>1, TurnedState
<1>3. ASSUME Ends(w)
      PROVE  writer' = [writer EXCEPT ![w] = Ended]
  BY <1>1, <1>3 DEF Ends, Turned
<1>4. ASSUME ReadOld(w)
      PROVE  SettingsInv'
  <2>1. PICK d \in Discounts \cup {None} :
          writer' = [writer EXCEPT ![w].at = "write", ![w].new = d, ![w].old = setting.discount]
    BY <1>4 DEF ReadOld
  <2> DEFINE s == Turned(writer[w], "write", d, setting.discount)
  <2>2. /\ s \in WriterStates /\ s.at = "write" /\ s.old = setting.discount /\ s.del = writer[w].del
        /\ writer' = [writer EXCEPT ![w] = s]
    <3>1. writer' = [writer EXCEPT ![w] = s]
      BY <1>1, <2>1 DEF Turned
    <3>2. setting.discount \in Discounts \cup {None} /\ "write" \in {"idle", "write", "coupons", "done"}
      BY <1>1
    <3>3. s \in WriterStates /\ s.at = "write" /\ s.old = setting.discount /\ s.del = writer[w].del
      <4>1. \A r \in WriterStates, e \in Discounts \cup {None} :
              LET n == Turned(r, "write", d, e)
              IN  n \in WriterStates /\ n.at = "write" /\ n.old = e /\ n.del = r.del
        BY TurnedState
      <4> QED BY <1>1, <3>2, <4>1, Zenon
    <3> QED BY <3>1, <3>3
  <2> HIDE DEF s
  <2>3. /\ writer[w].at = "idle" /\ UNCHANGED <<setting, percent, cached, reader>>
        /\ upsets' = upsets \cup (IF \E v \in Writers : InUpdate(v) THEN {"overlap"} ELSE {})
    BY <1>4 DEF ReadOld
  <2>4. /\ SettingsType' /\ ReaderInv' /\ setting'.rev + Cardinality(Unwritten') <= Cardinality(Writers)'
    BY <1>1, <2>2, <2>3, WriterTypes DEF Upsets
  <2>5. writer'[w] = s /\ \A v \in Writers \ {w} : writer'[v] = writer[v]
    BY <1>1, <2>2
  <2>6. CopyInv' /\ AskedInv'
    BY <1>1, <2>2, <2>3, <2>5 DEF CopyInv, AskedInv
  <2>7. DiscountInv'
    <3> SUFFICES ASSUME upsets' \cap {"bypass", "overlap", "failure"} = {}
                 PROVE  DiscountInv'
      BY DEF DiscountInv
    <3>1. /\ upsets \cap {"bypass", "overlap", "failure"} = {}
          /\ \A v \in Writers : ~InUpdate(v)
      BY <2>3
    <3>2. \A v \in Writers \ {w} : ~InUpdate(v)' /\ writer'[v].at \notin {"write", "coupons"}
      BY <2>5, <3>1 DEF InUpdate
    <3>3. percent = setting.discount
      BY <1>1, <3>1 DEF DiscountInv, InUpdate
    <3> QED BY <2>2, <2>3, <2>5, <3>2, <3>3 DEF DiscountInv
  <2> QED BY <2>4, <2>6, <2>7 DEF SettingsInv
<1>5. ASSUME Write(w)
      PROVE  SettingsInv'
  <2> DEFINE at == IF ChangesDiscount(w) THEN "coupons" ELSE "done"
             s == Written(writer[w], "look", at)
  <2>1. /\ s \in WriterStates /\ s.at = at /\ s.del = "look" /\ s.new = writer[w].new
        /\ writer' = [writer EXCEPT ![w] = s]
    <3>1. writer' = [writer EXCEPT ![w] = s]
      BY <1>5 DEF Write, AfterWrite, Written
    <3> QED BY <1>1, <3>1, WrittenState
  <2> HIDE DEF s
  <2>2. /\ writer[w].at = "write" /\ UNCHANGED <<percent, cached, reader, upsets>>
        /\ setting' = [rev |-> setting.rev + 1, discount |-> Asked(w)]
        /\ Asked(w) \in Discounts
    BY <1>1, <1>5 DEF Write, Asked
  <2>3. /\ SettingsType' /\ ReaderInv' /\ setting'.rev + Cardinality(Unwritten') <= Cardinality(Writers)'
    <3>1. upsets' = upsets \cup {}
      BY <2>2
    <3> QED BY <1>1, <2>1, <2>2, <3>1, WriterTypes
  <2>4. writer'[w] = s /\ \A v \in Writers \ {w} : writer'[v] = writer[v]
    BY <1>1, <2>1
  <2>5. CopyInv' /\ AskedInv'
    <3>1. at = "coupons" => writer[w].new # None
      BY DEF ChangesDiscount
    <3> QED BY <1>1, <2>1, <2>4, <3>1 DEF CopyInv, AskedInv
  <2>6. DiscountInv'
    <3> SUFFICES ASSUME upsets \cap {"bypass", "overlap", "failure"} = {}
                 PROVE  DiscountInv'
      BY <2>2 DEF DiscountInv
    <3>1. InUpdate(w) /\ \A v \in Writers \ {w} : ~InUpdate(v)
      BY <1>1, <2>2 DEF DiscountInv, InUpdate
    <3>2. \A v \in Writers \ {w} : ~InUpdate(v)' /\ writer'[v].at \notin {"write", "coupons"}
      BY <2>4, <3>1 DEF InUpdate
    <3>3. percent = setting.discount /\ writer[w].old = setting.discount
      <4>1. \A v \in Writers : writer[v].at # "coupons"
        BY <2>2, <3>1 DEF InUpdate
      <4> QED BY <1>1, <2>2, <4>1 DEF DiscountInv
    <3>4. /\ setting'.discount = Asked(w)
          /\ at = "coupons" => writer[w].new = Asked(w)
          /\ at # "coupons" => Asked(w) = setting.discount
      BY <2>2, <3>3 DEF ChangesDiscount, Asked
    <3>5. at # "write"
      OBVIOUS
    <3> QED BY <2>1, <2>2, <2>4, <3>2, <3>3, <3>4, <3>5 DEF DiscountInv
  <2> QED BY <2>3, <2>5, <2>6 DEF SettingsInv
<1>6. ASSUME PassOn(w)
      PROVE  SettingsInv'
  <2>1. /\ writer[w].at = "coupons" /\ percent' = writer[w].new /\ UNCHANGED <<setting, cached, reader, upsets>>
        /\ writer' = [writer EXCEPT ![w] = Ended]
    BY <1>3, <1>6 DEF PassOn
  <2> HIDE DEF Ended
  <2>2. /\ SettingsType' /\ ReaderInv' /\ setting'.rev + Cardinality(Unwritten') <= Cardinality(Writers)'
    <3>1. percent' \in Discounts
      BY <1>1, <2>1 DEF AskedInv
    <3>2. upsets' = upsets \cup {}
      BY <2>1
    <3> QED BY <1>1, <1>2, <2>1, <3>1, <3>2, WriterTypes
  <2>3. writer'[w] = Ended /\ \A v \in Writers \ {w} : writer'[v] = writer[v]
    BY <1>1, <2>1
  <2>4. CopyInv' /\ AskedInv'
    BY <1>1, <1>2, <2>1, <2>3 DEF CopyInv, AskedInv
  <2>5. DiscountInv'
    <3> SUFFICES ASSUME upsets \cap {"bypass", "overlap", "failure"} = {}
                 PROVE  DiscountInv'
      BY <2>1 DEF DiscountInv
    <3>1. \A v \in Writers \ {w} : ~InUpdate(v)
      BY <1>1, <2>1 DEF DiscountInv, InUpdate
    <3>2. \A v \in Writers \ {w} : ~InUpdate(v)' /\ writer'[v].at \notin {"write", "coupons"}
      BY <2>3, <3>1 DEF InUpdate
    <3>3. percent' = setting'.discount
      BY <1>1, <2>1 DEF DiscountInv
    <3> QED BY <1>2, <2>3, <3>2, <3>3 DEF DiscountInv
  <2> QED BY <2>2, <2>4, <2>5 DEF SettingsInv
<1>7. ASSUME UpdateFails(w)
      PROVE  SettingsInv'
  <2>1. /\ writer[w].at \in {"write", "coupons"} /\ UNCHANGED <<setting, percent, cached, reader>>
        /\ upsets' = upsets \cup {"failure"} /\ writer' = [writer EXCEPT ![w] = Ended]
    BY <1>3, <1>7 DEF UpdateFails
  <2> HIDE DEF Ended
  <2>2. /\ SettingsType' /\ ReaderInv' /\ setting'.rev + Cardinality(Unwritten') <= Cardinality(Writers)'
    BY <1>1, <1>2, <2>1, WriterTypes DEF Upsets
  <2>3. AskedInv'
    BY <1>1, <1>2, <2>1 DEF AskedInv
  <2> QED BY <2>1, <2>2, <2>3 DEF SettingsInv, CopyInv, DiscountInv
<1>8. ASSUME Look(w)
      PROVE  SettingsInv'
  <2> DEFINE s == Deleting(writer[w], "delete")
  <2>1. /\ writer[w].del = "look" /\ UNCHANGED <<setting, percent, cached, reader, upsets>>
        /\ writer' = [writer EXCEPT ![w] = s]
        /\ s \in WriterStates /\ s.at = writer[w].at /\ s.new = writer[w].new /\ s.old = writer[w].old
        /\ s.del = "delete"
    <3>1. writer' = [writer EXCEPT ![w] = s]
      BY <1>8 DEF Look, Deleting
    <3> QED BY <1>1, <1>8, <3>1, DeletingState DEF Look
  <2> HIDE DEF s
  <2>2. /\ SettingsType' /\ ReaderInv' /\ setting'.rev + Cardinality(Unwritten') <= Cardinality(Writers)'
    <3>1. upsets' = upsets \cup {}
      BY <2>1
    <3> QED BY <1>1, <2>1, <3>1, WriterTypes
  <2>3. writer'[w] = s /\ \A v \in Writers \ {w} : writer'[v] = writer[v]
    BY <1>1, <2>1
  <2>4. CopyInv' /\ AskedInv'
    BY <1>1, <2>1, <2>3 DEF CopyInv, AskedInv
  <2>5. DiscountInv'
    <3>1. \A v \in Writers : /\ InUpdate(v)' => InUpdate(v)
                             /\ writer'[v].at = writer[v].at /\ writer'[v].new = writer[v].new
                             /\ writer'[v].old = writer[v].old
      BY <2>1, <2>3 DEF InUpdate
    <3> QED BY <1>1, <2>1, <3>1 DEF DiscountInv
  <2> QED BY <2>2, <2>4, <2>5 DEF SettingsInv
<1>9. ASSUME Delete(w) \/ DeleteFails(w)
       PROVE  SettingsInv'
  <2> DEFINE s == Deleting(writer[w], "none")
  <2>1. /\ writer[w].del # "none" /\ UNCHANGED <<setting, percent, reader>>
        /\ \/ cached' = None /\ upsets' = upsets
           \/ cached' = cached /\ upsets' = upsets \cup {"failure"}
        /\ writer' = [writer EXCEPT ![w] = s]
        /\ s \in WriterStates /\ s.at = writer[w].at /\ s.new = writer[w].new /\ s.old = writer[w].old
        /\ s.del = "none"
    <3>1. writer' = [writer EXCEPT ![w] = s]
      BY <1>9 DEF Delete, DeleteFails, Deleting
    <3> QED BY <1>1, <1>9, <3>1, DeletingState DEF Delete, DeleteFails
  <2> HIDE DEF s
  <2>2. /\ SettingsType' /\ ReaderInv' /\ setting'.rev + Cardinality(Unwritten') <= Cardinality(Writers)'
    <3>1. PICK U \in SUBSET Upsets : upsets' = upsets \cup U
      <4>1. upsets' = upsets => upsets' = upsets \cup {}
        OBVIOUS
      <4> QED BY <2>1, <4>1 DEF Upsets
    <3> QED BY <1>1, <2>1, <3>1, WriterTypes
  <2>3. writer'[w] = s /\ \A v \in Writers \ {w} : writer'[v] = writer[v]
    BY <1>1, <2>1
  <2>4. CopyInv' /\ AskedInv'
    BY <1>1, <2>1, <2>3 DEF CopyInv, AskedInv
  <2>5. DiscountInv'
    <3>1. \A v \in Writers : /\ InUpdate(v)' => InUpdate(v)
                             /\ writer'[v].at = writer[v].at /\ writer'[v].new = writer[v].new
                             /\ writer'[v].old = writer[v].old
      BY <2>1, <2>3 DEF InUpdate
    <3> QED BY <1>1, <2>1, <3>1 DEF DiscountInv
  <2> QED BY <2>2, <2>4, <2>5 DEF SettingsInv
<1>10. ASSUME WriteWithoutDelete(w)
       PROVE  SettingsInv'
  <2>1. /\ writer[w].at = "idle" /\ UNCHANGED <<percent, cached, reader>>
        /\ \E d \in Discounts : setting' = [rev |-> setting.rev + 1, discount |-> d]
        /\ upsets' = upsets \cup {"bypass"} /\ writer' = [writer EXCEPT ![w] = Ended]
    BY <1>3, <1>10 DEF WriteWithoutDelete
  <2> HIDE DEF Ended
  <2>2. /\ SettingsType' /\ ReaderInv' /\ setting'.rev + Cardinality(Unwritten') <= Cardinality(Writers)'
    BY <1>1, <1>2, <2>1, WriterTypes DEF Upsets
  <2>3. AskedInv'
    BY <1>1, <1>2, <2>1 DEF AskedInv
  <2> QED BY <2>1, <2>2, <2>3 DEF SettingsInv, CopyInv, DiscountInv
<1> QED BY <1>4, <1>5, <1>6, <1>7, <1>8, <1>9, <1>10 DEF WriterStep

(* No operation of a reader, of update or of a handler that does not       *)
(* delete breaks it; nor does an expiry or a failure.                      *)
THEOREM StepSettingsInv == SettingsInv /\ [SettingsNext]_settingsVars => SettingsInv'
<1>1. ASSUME SettingsInv, UNCHANGED settingsVars
      PROVE  SettingsInv'
  BY <1>1 DEF settingsVars, SettingsInv, SettingsType, AskedInv, ReaderInv, CopyInv, DiscountInv, Unwritten, InUpdate
<1>2. ASSUME SettingsInv, SettingsNext
      PROVE  SettingsInv'
  BY <1>2, ReaderKeepsInv, WriterKeepsInv DEF SettingsNext
<1> QED BY <1>1, <1>2

(* The invariant holds in every state, however reads, writes, deletions    *)
(* and failures interleave.                                                *)
THEOREM SettingsInvariant == SettingsSpec => []SettingsInv
BY InitSettingsInv, StepSettingsInv, PTL DEF SettingsSpec

(* The variables keep their types; the revision counts the writers.        *)
THEOREM SettingsTypeCorrect == SettingsSpec => []SettingsType
<1>1. SettingsInv => SettingsType
  BY DEF SettingsInv
<1> QED BY <1>1, SettingsInvariant, PTL

(* update leaves no stale copy in Redis unless a reader was late, a handler *)
(* wrote without deleting or an operation failed (setting.service.ts 308). *)
THEOREM CopyIsCurrent == SettingsSpec => []StaleOnlyAfterUpset
<1>1. SettingsInv => StaleOnlyAfterUpset
  BY DEF SettingsInv, CopyInv, StaleOnlyAfterUpset, InUpdate
<1> QED BY <1>1, SettingsInvariant, PTL

(* The referral coupons carry the discount of the settings after updates   *)
(* that neither overlapped nor failed (setting.service.ts 310).            *)
THEOREM CouponsCarryDiscount == SettingsSpec => []CouponsFollowDiscount
<1>1. SettingsInv => CouponsFollowDiscount
  BY DEF SettingsInv, DiscountInv, CouponsFollowDiscount, InUpdate
<1> QED BY <1>1, SettingsInvariant, PTL
=============================================================================
