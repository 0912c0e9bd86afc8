------------------------------ MODULE Backups ------------------------------
(***************************************************************************)
(* Export, restore and reset, of the data tab.  The database is what it    *)
(* holds - its own data, none, or that of an old file - and whether the    *)
(* passwords and addresses are still with it.  A file holds such a         *)
(* database: sealed under a passphrase, or not and without asking for one, *)
(* or - an older one - asking for a passphrase that its webhook addresses  *)
(* were never sealed under.                                                *)
(***************************************************************************)
EXTENDS Naturals, FiniteSets, Queries

CONSTANTS Phrases,       \* passphrases that can be typed
          Strong,        \* those isPasswordStrongEnough lets through
          OldFiles,      \* the files on the disk at first
          MaxDataCalls   \* bound: what was asked of the server, or of the disk

VARIABLES dbAt,          \* the database
          disk,          \* the files
          restoreQ,      \* the queries a restore has read again, as one
          reading,       \* the files that were chosen and are being read
          pending,       \* the file that is shown, or None
          passphrase,    \* what is typed for it, or None
          question,      \* the question that is open, or None
          writing,       \* the requests under way: "restore", "reset"
          sealForm,      \* the form of the sealed export
          exporting,     \* the exports under way: "plain", "sealed"
          lostData,      \* whether the answer to a restore or a reset was lost, or read nothing again
          dataCalls      \* counts what MaxDataCalls bounds

theData == <<dbAt, lostData>>
restoreForm == <<reading, pending, passphrase>>
backupVars == <<theData, disk, restoreQ, restoreForm, question, writing, sealForm, exporting, dataCalls>>

BackupExport == [data : {"own", "none", "old"}, secrets : BOOLEAN]
Seals == Phrases \cup {None, "in clear"}
Backup == [holds : BackupExport, sealed : Seals]
\* POST /restore; `told` is the file whose figures the question gave.
RestoreRequest == [backup : Backup, passphrase : Phrases \cup {None}, told : Backup]
Writes == [kind : {"restore"}, body : RestoreRequest, at : {"sent", "done", "failed"}]
          \cup [kind : {"reset"}, at : {"sent", "done", "failed"}]
Exports == [kind : {"plain", "sealed"}, sealed : Phrases \cup {None}, got : Backup \cup {None},
            at : {"sent", "done", "failed"}]

DataQuestions == [kind : {"restore"}, backup : Backup, passphrase : Phrases \cup {None}]
                 \cup [kind : {"reset"}]

\* What the old files hold is anything: a file is what it was made to be, by whichever version.
ASSUME BackupsAssumption ==
    OldFiles \subseteq Backup /\ "in clear" \notin Phrases /\ MaxDataCalls \in Nat

needsPassphrase(file) == file.sealed # None
Busy(kind, calls) == \E c \in calls : c.kind = kind

BackupsInit ==
    /\ dbAt = [data |-> "own", secrets |-> TRUE] /\ disk = OldFiles
    /\ restoreQ = Asked(Unasked) /\ reading = {} /\ pending = None /\ passphrase = None
    /\ question = None /\ writing = {} /\ exporting = {}
    /\ sealForm = [shown |-> FALSE, phrase |-> None] /\ lostData = FALSE /\ dataCalls = 0

DataCall == dataCalls < MaxDataCalls /\ dataCalls' = dataCalls + 1

DataLands ==
    /\ restoreQ.ask = "asked" /\ restoreQ' \in {Landed(dbAt), Failed(restoreQ)}
    /\ UNCHANGED <<theData, disk, restoreForm, question, writing, sealForm, exporting, dataCalls>>

(***************************************************************************)
(* Choosing a file.  The choice is offered until one is shown; what is     *)
(* read is shown whenever its reading ends.                                *)
(***************************************************************************)
ChooseFile ==
    /\ DataCall
    /\ question = None /\ pending = None /\ \E f \in disk \ reading : reading' = reading \cup {f}
    /\ UNCHANGED <<theData, disk, restoreQ, pending, passphrase, question, writing, sealForm, exporting>>

OnFile(f) ==
    /\ f \in reading /\ reading' = reading \ {f}
    /\ pending' = f /\ passphrase' = None
    /\ UNCHANGED <<theData, disk, restoreQ, question, writing, sealForm, exporting, dataCalls>>

CancelRestore ==
    /\ question = None /\ pending # None /\ pending' = None /\ passphrase' = None
    /\ UNCHANGED <<theData, disk, restoreQ, reading, question, writing, sealForm, exporting, dataCalls>>

TypePassphrase ==
    /\ question = None /\ pending # None /\ needsPassphrase(pending)
    /\ passphrase' \in (Phrases \cup {None}) \ {passphrase}
    /\ UNCHANGED <<theData, disk, restoreQ, reading, pending, question, writing, sealForm, exporting, dataCalls>>

(***************************************************************************)
(* Restoring and resetting.  The question keeps the file and the phrase it *)
(* was asked with; RESTORE or RESET is typed to say yes.                   *)
(***************************************************************************)
RequestRestore ==
    /\ question = None /\ pending # None /\ ~Busy("restore", writing)
    /\ needsPassphrase(pending) => passphrase # None
    /\ question' = [kind |-> "restore", backup |-> pending, passphrase |-> passphrase]
    /\ UNCHANGED <<theData, disk, restoreQ, restoreForm, writing, sealForm, exporting, dataCalls>>

RequestReset ==
    /\ question = None /\ ~Busy("reset", writing) /\ question' = [kind |-> "reset"]
    /\ UNCHANGED <<theData, disk, restoreQ, restoreForm, writing, sealForm, exporting, dataCalls>>

\* As a bug: the file that is shown when the answer comes is sent.
SendsWhatIsShown(asked) == [backup |-> IF pending = None THEN asked.backup ELSE pending,
                            passphrase |-> passphrase, told |-> asked.backup]

SendsWhatWasAsked(asked) ==
    [backup |-> asked.backup, passphrase |-> asked.passphrase, told |-> asked.backup]

AnswerData ==
    /\ question # None /\ question' = None
    /\ \/ UNCHANGED <<writing, dataCalls>>
       \/ /\ DataCall /\ question.kind = "restore"
          /\ writing' = writing \cup {[kind |-> "restore", body |-> SendsWhatWasAsked(question), at |-> "sent"]}
       \/ /\ DataCall /\ question.kind = "reset"
          /\ writing' = writing \cup {[kind |-> "reset", at |-> "sent"]}
    /\ UNCHANGED <<theData, disk, restoreQ, restoreForm, sealForm, exporting>>

\* As a bug: the tables are emptied before the passphrase is known to open the file.
OpensAny(body) == TRUE

\* What a file has under its seal: nothing when nothing in it is secret.
Sealed(file) == file.holds.secrets /\ file.sealed \in Phrases

\* The dry run: what is sealed is opened before anything is emptied.  A file that asks for a
\* phrase and has nothing under it opens with any.
Opens(body) ==
    /\ needsPassphrase(body.backup) => body.passphrase # None
    /\ Sealed(body.backup) => body.passphrase = body.backup.sealed

\* What a write leaves in the database: what the file holds, as it is where it was not
\* sealed, or nothing.
WrittenBy(w) ==
    IF w.kind = "reset" THEN [data |-> "none", secrets |-> FALSE] ELSE w.body.backup.holds

Moved(call, at, calls) == (calls \ {call}) \cup {[call EXCEPT !.at = at]}

ServeData(w) ==
    /\ w \in writing /\ w.at = "sent"
    /\ \/ writing' = Moved(w, "failed", writing) /\ UNCHANGED theData
       \/ /\ w.kind = "restore" => Opens(w.body)
          /\ dbAt' = WrittenBy(w)
          /\ \/ writing' = Moved(w, "done", writing) /\ UNCHANGED lostData
             \/ writing' = Moved(w, "failed", writing) /\ lostData' = TRUE
    /\ UNCHANGED <<disk, restoreQ, restoreForm, question, sealForm, exporting, dataCalls>>

\* As a bug: a restore leaves the lists as they were.
ResetReadsAgain == {"reset"}

\* The writes whose answer has the lists read again; one that comes during their first
\* reading joins it.
ReadsAgain == {"restore", "reset"}

WriteAnswered(w) ==
    /\ w \in writing /\ w.at # "sent" /\ writing' = writing \ {w}
    /\ IF w.at = "done" /\ w.kind \in ReadsAgain
       THEN restoreQ' \in Reread(restoreQ) /\ lostData' = (lostData \/ restoreQ'.ask = "idle")
       ELSE UNCHANGED <<restoreQ, lostData>>
    /\ IF w.at = "done" /\ w.kind = "restore"
       THEN pending' = None /\ passphrase' = None ELSE UNCHANGED <<pending, passphrase>>
    /\ UNCHANGED <<dbAt, disk, reading, question, sealForm, exporting, dataCalls>>

(***************************************************************************)
(* Exporting.                                                              *)
(***************************************************************************)
ToggleSecure ==
    /\ question = None /\ sealForm' = [sealForm EXCEPT !.shown = ~@]
    /\ UNCHANGED <<theData, disk, restoreQ, restoreForm, question, writing, exporting, dataCalls>>

TypeSeal ==
    /\ question = None /\ sealForm.shown
    /\ \E p \in (Phrases \cup {None}) \ {sealForm.phrase} : sealForm' = [sealForm EXCEPT !.phrase = p]
    /\ UNCHANGED <<theData, disk, restoreQ, restoreForm, question, writing, exporting, dataCalls>>

Export(kind) ==
    /\ DataCall
    /\ question = None /\ ~Busy(kind, exporting)
    /\ kind = "sealed" => sealForm.shown /\ sealForm.phrase \in Strong
    /\ exporting' = exporting \cup
         {[kind |-> kind, sealed |-> IF kind = "plain" THEN None ELSE sealForm.phrase,
           got |-> None, at |-> "sent"]}
    /\ UNCHANGED <<theData, disk, restoreQ, restoreForm, question, writing, sealForm>>

\* As a bug: the plain export keeps the passwords.
KeepsSecrets(phrase) == dbAt

\* Only the sealed file carries the passwords and the addresses of the webhooks.
Exported(phrase) == [dbAt EXCEPT !.secrets = @ /\ phrase # None]

ServeExport(e) ==
    /\ e \in exporting /\ e.at = "sent"
    /\ \/ exporting' = Moved(e, "failed", exporting)
       \/ LET got == [holds |-> Exported(e.sealed), sealed |-> e.sealed]
          IN exporting' = Moved([e EXCEPT !.got = got], "done", exporting \ {e})
    /\ UNCHANGED <<theData, disk, restoreQ, restoreForm, question, writing, sealForm, dataCalls>>

\* The file is saved; a sealed one closes the form, whatever was typed into it since.
ExportLands(e) ==
    /\ e \in exporting /\ e.at # "sent" /\ exporting' = exporting \ {e}
    /\ disk' = IF e.at = "done" THEN disk \cup {e.got} ELSE disk
    /\ sealForm' = IF e.at = "done" /\ e.kind = "sealed"
                   THEN [shown |-> FALSE, phrase |-> None] ELSE sealForm
    /\ UNCHANGED <<theData, restoreQ, restoreForm, question, writing, dataCalls>>

BackupsNext ==
    \/ DataLands \/ ChooseFile \/ CancelRestore \/ TypePassphrase
    \/ RequestRestore \/ RequestReset \/ AnswerData
    \/ ToggleSecure \/ TypeSeal
    \/ \E f \in reading : OnFile(f)
    \/ \E w \in writing : ServeData(w) \/ WriteAnswered(w)
    \/ \E kind \in {"plain", "sealed"} : Export(kind)
    \/ \E e \in exporting : ServeExport(e) \/ ExportLands(e)

BackupsSpec == BackupsInit /\ [][BackupsNext]_backupVars

(***************************************************************************)
(* What the tab promises.                                                  *)
(***************************************************************************)
BackupsTypeOK ==
    /\ dbAt \in BackupExport /\ disk \subseteq Backup /\ restoreQ \in Query(BackupExport)
    /\ reading \subseteq disk /\ pending \in disk \cup {None} /\ passphrase \in Phrases \cup {None}
    /\ question \in DataQuestions \cup {None}
    /\ \A w \in writing : w \in Writes
    /\ \A e \in exporting : e \in Exports
    /\ sealForm \in [shown : BOOLEAN, phrase : Phrases \cup {None}]
    /\ lostData \in BOOLEAN /\ dataCalls \in 0..MaxDataCalls

\* The database is only replaced by the file whose figures the question gave, or emptied
\* where the question said so, even when another file was read while it was open
\* (RestoreSection.tsx:122-141, DataTab.tsx:38-47).
ReplacedAsTold ==
    [][dbAt' # dbAt =>
         \E w \in writing : IF w.kind = "reset" THEN dbAt'.data = "none"
                            ELSE dbAt'.data = w.body.told.holds.data]_backupVars

\* What was sealed comes back only with the phrase it was sealed under, and with a wrong one
\* nothing is emptied; what a file has in clear comes back as it is, an older one's under any
\* phrase (backup.py:327-365, tests/test_webhook_secrets.py:408-430).
SealedNeedsItsPhrase ==
    [][dbAt' # dbAt =>
         \A w \in writing \ writing' : w.kind = "restore" /\ Sealed(w.body.backup)
                                        => w.body.passphrase = w.body.backup.sealed]_backupVars

\* A file that is exported here, and may be passed on, has no passwords in it but under a
\* seal (backup.py:136-150).
PlainHasNoSecrets == \A f \in disk \ OldFiles : f.holds.secrets => f.sealed \in Phrases

\* At rest the lists are those of the database, unless an answer was lost or came while they
\* were read for the first time.
ListsFollowRestore ==
    writing = {} /\ ~lostData /\ restoreQ.ask = "idle" /\ Usable(restoreQ) => restoreQ.data = dbAt
=============================================================================
