--------------------------- MODULE SettingsCache ---------------------------
(***************************************************************************)
(* The whiteLabel settings of one tenant: the document, its copy in Redis  *)
(* that every service reads through (redisCaching.service.ts), and the     *)
(* handlers that change it (setting.service.ts). update also passes the    *)
(* ambassador discount on to the referral coupons.                         *)
(***************************************************************************)
EXTENDS Naturals, FiniteSets

CONSTANTS
    Readers,    \* handlers that ask for the settings
    Writers,    \* requests that change them
    Discounts,  \* values of ambassadorDiscount
    None        \* nothing cached, discount not given

ASSUME SettingsAssumption ==
    /\ IsFiniteSet(Writers)
    /\ None \notin Nat \cup Discounts
    /\ Discounts # {}

VARIABLES
    setting,    \* the document: its revision and its discount
    percent,    \* percent of the referral coupons
    cached,     \* revision of the copy in Redis, or None
    reader,     \* reader[r]: step, and the revision read
    writer,     \* writer[w]: step, discount asked for (or None) and read, deletion
    upsets      \* what has happened that the handlers do not make up for

settingsVars == <<setting, percent, cached, reader, writer, upsets>>

Revisions == 0 .. Cardinality(Writers)

Upsets == {"bypass", "late fill", "failure", "overlap"}

Idle == [at |-> "idle", rev |-> 0]

SettingsInit ==
    /\ \E d \in Discounts : setting = [rev |-> 0, discount |-> d] /\ percent = d
    /\ cached = None
    /\ reader = [r \in Readers |-> Idle]
    /\ writer = [w \in Writers |-> [at |-> "idle", new |-> None, old |-> None, del |-> "none"]]
    /\ upsets = {}

(***************************************************************************)
(* getSettingAsync, getSetting                                             *)
(***************************************************************************)
(* Redis has no copy, or the request to it fails: go on to the database. A *)
(* reader that is given the copy changes nothing. (The form of getSetting   *)
(* without callback throws on an error.)                                    *)
AskCache(r) ==
    /\ reader[r].at = "idle"
    /\ reader' = [reader EXCEPT ![r].at = "read"]
    /\ UNCHANGED <<setting, percent, cached, writer, upsets>>

ReadDocument(r) ==
    /\ reader[r].at = "read"
    /\ reader' = [reader EXCEPT ![r] = [at |-> "fill", rev |-> setting.rev]]
    /\ UNCHANGED <<setting, percent, cached, writer, upsets>>

(* setex with expireTime: 24 hours. The reader is answered anyway.         *)
Fill(r) ==
    /\ reader[r].at = "fill"
    /\ cached' = reader[r].rev
    /\ upsets' = upsets \cup (IF reader[r].rev < setting.rev THEN {"late fill"} ELSE {})
    /\ reader' = [reader EXCEPT ![r] = Idle]
    /\ UNCHANGED <<setting, percent, writer>>

ReaderFails(r) ==
    /\ reader[r].at \in {"read", "fill"}
    /\ reader' = [reader EXCEPT ![r] = Idle]
    /\ UNCHANGED <<setting, percent, cached, writer, upsets>>

(* Mutant of Expire: an entry stored without an expiry. *)
ExpireNever == FALSE /\ UNCHANGED settingsVars

(* Redis drops the copy when its time is over. *)
Expire ==
    /\ cached # None
    /\ cached' = None
    /\ UNCHANGED <<setting, percent, reader, writer, upsets>>

(***************************************************************************)
(* update: read, write, delete without waiting for it, pass the discount on *)
(***************************************************************************)
Ends(w) == writer' = [writer EXCEPT ![w].at = "done", ![w].new = None, ![w].old = None]

InUpdate(w) == writer[w].at \in {"write", "coupons"} \/ writer[w].del # "none"

ReadOld(w) ==
    /\ writer[w].at = "idle"
    /\ \E d \in Discounts \cup {None} :
        writer' = [writer EXCEPT ![w].at = "write", ![w].new = d, ![w].old = setting.discount]
    /\ upsets' = upsets \cup (IF \E v \in Writers : InUpdate(v) THEN {"overlap"} ELSE {})
    /\ UNCHANGED <<setting, percent, cached, reader>>

Asked(w) == IF writer[w].new = None THEN setting.discount ELSE writer[w].new

ChangesDiscount(w) == writer[w].new \notin {None, writer[w].old}

(* Mutant of AfterWrite: update does not start the deletion of the copy. *)
AfterWriteKeep(w) ==
    [writer[w] EXCEPT !.at = IF ChangesDiscount(w) THEN "coupons" ELSE "done"]

(* The deletion is under way, and the coupons follow a changed discount. *)
AfterWrite(w) ==
    [writer[w] EXCEPT !.del = "look",
                      !.at = IF ChangesDiscount(w) THEN "coupons" ELSE "done"]

Write(w) ==
    /\ writer[w].at = "write"
    /\ setting' = [rev |-> setting.rev + 1, discount |-> Asked(w)]
    /\ writer' = [writer EXCEPT ![w] = AfterWrite(w)]
    /\ UNCHANGED <<percent, cached, reader, upsets>>

(* del first reads the key, and gives up when that fails. *)
Look(w) ==
    /\ writer[w].del = "look"
    /\ writer' = [writer EXCEPT ![w].del = "delete"]
    /\ UNCHANGED <<setting, percent, cached, reader, upsets>>

Delete(w) ==
    /\ writer[w].del = "delete"
    /\ cached' = None
    /\ writer' = [writer EXCEPT ![w].del = "none"]
    /\ UNCHANGED <<setting, percent, reader, upsets>>

DeleteFails(w) ==
    /\ writer[w].del # "none"
    /\ writer' = [writer EXCEPT ![w].del = "none"]
    /\ upsets' = upsets \cup {"failure"}
    /\ UNCHANGED <<setting, percent, cached, reader>>

(* Mutant of PassOn: the coupons are given the discount of before. *)
PassOnOld(w) ==
    /\ writer[w].at = "coupons"
    /\ percent' = writer[w].old
    /\ Ends(w)
    /\ UNCHANGED <<setting, cached, reader, upsets>>

PassOn(w) ==
    /\ writer[w].at = "coupons"
    /\ percent' = writer[w].new
    /\ Ends(w)
    /\ UNCHANGED <<setting, cached, reader, upsets>>

(* Another operation of update fails: it is logged, and update ends. *)
UpdateFails(w) ==
    /\ writer[w].at \in {"write", "coupons"}
    /\ Ends(w)
    /\ upsets' = upsets \cup {"failure"}
    /\ UNCHANGED <<setting, percent, cached, reader>>

(* updateSetting, addAdvertismentImage, deleteAdvertismentImage: they      *)
(* change the document (the first also the discount) and leave the copy    *)
(* and the coupons.                                                        *)
WriteWithoutDelete(w) ==
    /\ writer[w].at = "idle"
    /\ \E d \in Discounts : setting' = [rev |-> setting.rev + 1, discount |-> d]
    /\ Ends(w)
    /\ upsets' = upsets \cup {"bypass"}
    /\ UNCHANGED <<percent, cached, reader>>

ReaderStep(r) == AskCache(r) \/ ReadDocument(r) \/ Fill(r) \/ ReaderFails(r)

WriterStep(w) ==
    \/ ReadOld(w) \/ Write(w) \/ PassOn(w) \/ UpdateFails(w)
    \/ Look(w) \/ Delete(w) \/ DeleteFails(w)
    \/ WriteWithoutDelete(w)

SettingsNext ==
    \/ \E r \in Readers : ReaderStep(r)
    \/ Expire
    \/ \E w \in Writers : WriterStep(w)

(* Redis expires every entry in time, and an operation that was started    *)
(* is answered, if only by an error. Nobody has to ask or to write.        *)
SettingsFairness ==
    /\ WF_settingsVars(Expire)
    /\ \A r \in Readers : WF_settingsVars(ReadDocument(r) \/ Fill(r) \/ ReaderFails(r))

SettingsSpec == SettingsInit /\ [][SettingsNext]_settingsVars /\ SettingsFairness

(***************************************************************************)
(* Properties                                                              *)
(***************************************************************************)
SettingsType ==
    /\ setting \in [rev : Revisions, discount : Discounts]
    /\ percent \in Discounts
    /\ cached \in Revisions \cup {None}
    /\ reader \in [Readers -> [at : {"idle", "read", "fill"}, rev : Revisions]]
    /\ writer \in [Writers -> [at : {"idle", "write", "coupons", "done"},
                             new : Discounts \cup {None}, old : Discounts \cup {None},
                             del : {"none", "look", "delete"}]]
    /\ upsets \subseteq Upsets

(* Outside an update the copy in Redis is the document as it is, unless a  *)
(* reader stored a document it read before the update, a handler that does *)
(* not delete the copy wrote it, or an operation failed: with update's     *)
(* deletion (line 308) nothing else can leave a stale copy for 24 hours.   *)
StaleOnlyAfterUpset ==
    (upsets \cap {"bypass", "late fill", "failure"} = {} /\ \A w \in Writers : ~InUpdate(w))
        => cached \in {setting.rev, None}

(* Outside an update the referral coupons carry the ambassador discount of *)
(* the settings, if only update wrote it, no two updates overlapped and    *)
(* none failed (update compares with the settings it read first, 310).     *)
CouponsFollowDiscount ==
    (upsets \cap {"bypass", "overlap", "failure"} = {} /\ \A w \in Writers : ~InUpdate(w))
        => percent = setting.discount

(* Once nobody changes the settings any more, the copy is the document     *)
(* for good, even after a late fill, a write without deletion or failures: *)
(* every entry expires, and every fill that was late ends.                 *)
CacheCatchesUp == <>[](cached \in {setting.rev, None})

=============================================================================
