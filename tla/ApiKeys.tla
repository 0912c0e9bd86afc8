------------------------------ MODULE ApiKeys ------------------------------
(***************************************************************************)
(* The API keys of the settings: the form that makes one, the box that     *)
(* shows its secret once, the copy of it to the clipboard, and the list    *)
(* with its search and its revocations.  A key is known by its id, and its *)
(* secret by the same id.                                                  *)
(***************************************************************************)
EXTENDS Naturals, FiniteSets, Queries

CONSTANTS Scopes,           \* "read" and others
          KeyTerms,         \* what is searched: a scope, or what no key has
          SEARCH_THRESHOLD, \* the search is offered above that many keys
          MaxKeys,          \* bound: keys that were made
          MaxKeyCalls       \* bound: what was asked of the server or of the clipboard

ASSUME KeysAssumption == "read" \in Scopes /\ MaxKeys \in Nat /\ MaxKeyCalls \in Nat

VARIABLES keysAt,        \* the keys at the server: the scopes of each
          issued,        \* the last id that was given
          keysQ,         \* the query: the list
          keyForm,       \* the form
          minting,       \* the request for a key that is under way, or None
          createdKey,    \* the box with a secret, or None
          copying,       \* the secrets on their way to the clipboard
          clipboard,     \* the secret in the clipboard, or None
          keySearch,     \* what is searched
          asked,         \* the question about a revocation, or None
          revoking,      \* the revocation under way, or None
          lostKey,       \* whether the list missed a request: its answer was lost, or joined a first read
          keyCalls       \* counts what MaxKeyCalls bounds

theSecret == <<createdKey, copying, clipboard>>
theKeys == <<keysAt, issued, lostKey>>
keyVars == <<theKeys, keysQ, keyForm, minting, theSecret, keySearch, asked, revoking, keyCalls>>

KeyIds == 1..MaxKeys
BlankKey == [named |-> FALSE, scopes |-> {"read"}]
KeyForms == [named : BOOLEAN, scopes : SUBSET Scopes]
ApiKeyCreate == [scopes : (SUBSET Scopes) \ {{}}, id : KeyIds \cup {None}, at : {"sent", "done", "failed"}]
\* What the box shows: whose secret, whether it is readable, whether it is marked as
\* copied; and whether it came up while a copy was under way.
SecretBox == [id : KeyIds, reveal : BOOLEAN, copied : BOOLEAN, overtook : BOOLEAN]
ApiKeyList == [KeyIds -> (SUBSET Scopes) \cup {None}]
Revocation == [id : KeyIds, at : {"sent", "done", "failed"}]

ASSUME NoneIsNoCall == None \notin ApiKeyCreate \cup Revocation

KeysListed == IF keysQ.data = None THEN {} ELSE {k \in KeyIds : keysQ.data[k] # None}
SearchOffered == Cardinality(KeysListed) > SEARCH_THRESHOLD
KeysVisible ==
    IF keysQ.error THEN {} ELSE {k \in KeysListed : keySearch \in keysQ.data[k] \cup {None}}

KeyIsComplete == keyForm.named /\ keyForm.scopes # {}

KeysInit ==
    /\ issued = 0 /\ keysAt = [k \in KeyIds |-> None]
    /\ keysQ = Asked(Unasked) /\ keyForm = BlankKey /\ minting = None
    /\ createdKey = None /\ copying = {} /\ clipboard = None
    /\ keySearch = None /\ asked = None /\ revoking = None /\ lostKey = FALSE /\ keyCalls = 0

KeyCall == keyCalls < MaxKeyCalls /\ keyCalls' = keyCalls + 1

KeysLand ==
    /\ keysQ.ask = "asked" /\ keysQ' \in {Landed(keysAt), Failed(keysQ)}
    /\ UNCHANGED <<theKeys, keyForm, minting, theSecret, keySearch, asked, revoking, keyCalls>>

KeysRetry ==
    /\ KeyCall
    /\ asked = None /\ keysQ.error /\ keysQ.ask = "idle" /\ keysQ' = Asked(keysQ)
    /\ UNCHANGED <<theKeys, keyForm, minting, theSecret, keySearch, asked, revoking>>

SearchKeys ==
    /\ asked = None /\ SearchOffered
    /\ keySearch' \in (KeyTerms \cup {None}) \ {keySearch}
    /\ UNCHANGED <<theKeys, keysQ, keyForm, minting, theSecret, asked, revoking, keyCalls>>

(***************************************************************************)
(* Making a key.                                                           *)
(***************************************************************************)
FillKeyForm ==
    /\ asked = None
    /\ \/ keyForm' = [keyForm EXCEPT !.named = ~@]
       \/ \E s \in Scopes :
             keyForm' = [keyForm EXCEPT !.scopes = IF s \in @ THEN @ \ {s} ELSE @ \cup {s}]
    /\ UNCHANGED <<theKeys, keysQ, minting, theSecret, keySearch, asked, revoking, keyCalls>>

CreateKey ==
    /\ KeyCall
    /\ asked = None /\ minting = None /\ issued < MaxKeys
    /\ KeyIsComplete /\ minting' = [scopes |-> keyForm.scopes, id |-> None, at |-> "sent"]
    /\ UNCHANGED <<theKeys, keysQ, keyForm, theSecret, keySearch, asked, revoking>>

ServeCreate ==
    /\ minting # None /\ minting.at = "sent"
    /\ \/ minting' = [minting EXCEPT !.at = "failed"] /\ UNCHANGED theKeys
       \/ /\ issued' = issued + 1
          /\ keysAt' = [keysAt EXCEPT ![issued'] = minting.scopes]
          /\ \/ minting' = [minting EXCEPT !.at = "done", !.id = issued'] /\ UNCHANGED lostKey
             \/ minting' = [minting EXCEPT !.at = "failed"] /\ lostKey' = TRUE
    /\ UNCHANGED <<keysQ, keyForm, theSecret, keySearch, asked, revoking, keyCalls>>

\* As a bug: the new secret comes up with the mark of the one before it.
MarkStays == createdKey # None /\ createdKey.copied

\* setCopied(false).
MarkOfANewKey == FALSE

\* onSuccess: the secret is shown, whatever was shown before, and the form is
\* emptied, whatever was typed since.  The form is there before the list (Queries).
CreateLands ==
    /\ minting # None /\ minting.at # "sent" /\ minting' = None
    /\ IF minting.at = "done"
       THEN /\ createdKey' = [id |-> minting.id, reveal |-> FALSE, copied |-> MarkOfANewKey,
                              overtook |-> copying # {}]
            /\ keyForm' = BlankKey
            /\ keysQ' \in Reread(keysQ) /\ lostKey' = (lostKey \/ keysQ'.ask = "idle")
       ELSE UNCHANGED <<createdKey, keyForm, keysQ, lostKey>>
    /\ UNCHANGED <<keysAt, issued, copying, clipboard, keySearch, asked, revoking, keyCalls>>

(***************************************************************************)
(* The box with the secret.  The copy is awaited, and marks what is shown  *)
(* when it ends.                                                           *)
(***************************************************************************)
DismissSecret ==
    /\ asked = None /\ createdKey # None /\ createdKey' = None
    /\ UNCHANGED <<theKeys, keysQ, keyForm, minting, copying, clipboard, keySearch, asked, revoking, keyCalls>>

RevealSecret ==
    /\ asked = None /\ createdKey # None
    /\ createdKey' = [createdKey EXCEPT !.reveal = ~@]
    /\ UNCHANGED <<theKeys, keysQ, keyForm, minting, copying, clipboard, keySearch, asked, revoking, keyCalls>>

CopyKey ==
    /\ KeyCall
    /\ asked = None /\ createdKey # None /\ copying' = copying \cup {createdKey.id}
    /\ UNCHANGED <<theKeys, keysQ, keyForm, minting, createdKey, clipboard, keySearch, asked, revoking>>

CopyEnds(k) ==
    /\ k \in copying /\ copying' = copying \ {k}
    /\ \/ /\ clipboard' = k
          /\ createdKey' = IF createdKey = None THEN None ELSE [createdKey EXCEPT !.copied = TRUE]
       \/ UNCHANGED <<clipboard, createdKey>>
    /\ UNCHANGED <<theKeys, keysQ, keyForm, minting, keySearch, asked, revoking, keyCalls>>

(***************************************************************************)
(* Revoking one.                                                           *)
(***************************************************************************)
AskRevoke(k) ==
    /\ asked = None /\ revoking = None /\ k \in KeysVisible /\ asked' = k
    /\ UNCHANGED <<theKeys, keysQ, keyForm, minting, theSecret, keySearch, revoking, keyCalls>>

AnswerRevoke ==
    /\ asked # None /\ asked' = None
    /\ \/ UNCHANGED <<revoking, keyCalls>>
       \/ KeyCall /\ revoking' = [id |-> asked, at |-> "sent"]
    /\ UNCHANGED <<theKeys, keysQ, keyForm, minting, theSecret, keySearch>>

ServeRevoke ==
    /\ revoking # None /\ revoking.at = "sent"
    /\ \/ revoking' = [revoking EXCEPT !.at = "failed"] /\ UNCHANGED theKeys
       \/ /\ keysAt[revoking.id] # None
          /\ keysAt' = [keysAt EXCEPT ![revoking.id] = None] /\ UNCHANGED issued
          /\ \/ revoking' = [revoking EXCEPT !.at = "done"] /\ UNCHANGED lostKey
             \/ revoking' = [revoking EXCEPT !.at = "failed"] /\ lostKey' = TRUE
    /\ UNCHANGED <<keysQ, keyForm, minting, theSecret, keySearch, asked, keyCalls>>

\* As a bug: a revocation does not read the list again.
RevokedQuietly == keysQ

ListAfterRevoke == Asked(keysQ)

RevokeLands ==
    /\ revoking # None /\ revoking.at # "sent" /\ revoking' = None
    /\ keysQ' = IF revoking.at = "done" THEN ListAfterRevoke ELSE keysQ
    /\ UNCHANGED <<theKeys, keyForm, minting, theSecret, keySearch, asked, keyCalls>>

KeysNext ==
    \/ KeysLand \/ KeysRetry \/ SearchKeys
    \/ FillKeyForm \/ CreateKey \/ ServeCreate \/ CreateLands
    \/ DismissSecret \/ RevealSecret \/ CopyKey
    \/ AnswerRevoke \/ ServeRevoke \/ RevokeLands
    \/ \E k \in KeyIds : CopyEnds(k) \/ AskRevoke(k)

KeysSpec == KeysInit /\ [][KeysNext]_keyVars

(***************************************************************************)
(* What the tab promises.                                                  *)
(***************************************************************************)
KeysTypeOK ==
    /\ keysAt \in ApiKeyList /\ issued \in 0..MaxKeys /\ keysQ \in Query(ApiKeyList)
    /\ keyForm \in KeyForms /\ minting \in ApiKeyCreate \cup {None}
    /\ createdKey \in SecretBox \cup {None} /\ clipboard \in KeyIds \cup {None} /\ lostKey \in BOOLEAN
    /\ copying \subseteq KeyIds /\ keySearch \in KeyTerms \cup {None} /\ asked \in KeyIds \cup {None}
    /\ keyCalls \in 0..MaxKeyCalls /\ revoking \in Revocation \cup {None}

\* The secret that is shown once is only marked as copied when it is the one in the
\* clipboard, or came up over a copy that was still under way (ApiKeysTab.tsx:105-106).
CopiedIsTrue ==
    createdKey # None => (createdKey.copied /\ ~createdKey.overtook => clipboard = createdKey.id)

\* At rest the keys listed are those of the server, unless the answer to a request was
\* lost, or came during the first read of the list.
KeysCatchUp ==
    minting = None /\ revoking = None /\ ~lostKey /\ keysQ.ask = "idle" /\ Usable(keysQ)
    => keysQ.data = keysAt
=============================================================================
