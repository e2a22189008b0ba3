------------------------------ MODULE Contracts ------------------------------
(***************************************************************************)
(* One contract: its stored files and their versions, signing it, and the  *)
(* evidence signing leaves (src/internal/handlers/documents.go,            *)
(* signatures.go, and the contract handlers of handlers.go).               *)
(*                                                                         *)
(* Nothing here is one transaction.  A file is known by its bytes, which   *)
(* stand for their SHA-256 as well.                                        *)
(***************************************************************************)
EXTENDS Naturals, Sequences, FiniteSets

CONSTANTS
  Docs,         \* documents somebody may upload
  Pdf,          \* those that can be signed
  Statuses,     \* statuses a contract may have
  Desks,        \* slots for handlers and boots running at once
  Missing,      \* no bytes, and the empty hash
  MaxVersions,  \* bound: versions stored
  MaxUploads,   \* bound: files saved
  MaxBreaks     \* bound: failing statements and dying replicas

ASSUME ContractBounds ==
  /\ Pdf \subseteq Docs
  /\ {"draft", "sent", "signed"} \subseteq Statuses
  /\ MaxVersions \in Nat /\ MaxBreaks \in Nat
  /\ MaxUploads \in Nat \ {0}  \* a contract from before versions may have one

VARIABLES
  contract,  \* the contracts row: status, whether it is live, and its pointer at
             \* a file: key, hash and version number
  bytes,     \* bytes[k]: what storage has under the k-th key
  versions,  \* document_versions rows of the contract, in creation order
  evidence,  \* contract_signatures rows of the contract
  image,     \* the signer's user_signatures row: "never", "kept" or "deleted"
  serving,   \* a replica has booted
  desk,      \* desk[d]: locals of a handler or a boot
  breaks,
  born,      \* history: the contract was created as signed
  keep,      \* history: the signer's last word was to keep the image
  turns,     \* history: no two handlers have run at once so far
  skipped    \* history: a replica has served although its backfill failed

cvars == <<contract, bytes, versions, evidence, image, serving, desk, breaks,
           born, keep, turns, skipped>>
history == <<born, keep, turns, skipped>>

Free == [pc |-> "free"]
NoContract == [status |-> "none"]

File(doc, stamps) == [doc |-> doc, stamps |-> stamps]
Files == {Missing} \cup [doc : Docs, stamps : Nat]
Version == [number : Nat, key : Nat, hash : Files]
Contract == [status : Statuses, live : BOOLEAN, key : Nat, hash : Files, version : Nat]

ContractsTypeOK ==
  /\ contract \in Contract \cup {NoContract}
  /\ bytes \in Seq(Files) /\ Len(bytes) <= MaxUploads
  /\ versions \in Seq(Version) /\ Len(versions) <= MaxVersions
  /\ evidence \in Seq([original : 0 .. MaxVersions, signed : 1 .. MaxVersions,
                       originalHash : Files, signedHash : Files])
  /\ image \in {"never", "kept", "deleted"}
  /\ breaks \in 0 .. MaxBreaks
  /\ \A d \in Desks :
       /\ desk[d].pc = "version" => desk[d].row \in Version
       /\ desk[d].pc \in {"point", "record", "mark"} =>
            desk[d].at \in DOMAIN versions /\ versions[desk[d].at] = desk[d].row

\* There may be a contract from before versions were kept: with a file that can
\* or cannot be read any more, or with none.
ContractsInit ==
  /\ \/ contract = NoContract /\ bytes = <<>> /\ born = FALSE
     \/ \E s \in Statuses \ {"signed"}, f \in {Missing} \cup {File(d, 0) : d \in Docs},
           k \in {0, 1} :
          /\ contract = [status |-> s, live |-> TRUE, key |-> k, hash |-> Missing,
                         version |-> 0]
          /\ bytes = IF k = 1 THEN <<f>> ELSE <<>>
          /\ born = FALSE
  /\ versions = <<>> /\ evidence = <<>> /\ image = "never"
  /\ serving = FALSE /\ desk = [d \in Desks |-> Free] /\ breaks = 0
  /\ keep = FALSE /\ turns = TRUE /\ skipped = FALSE

-----------------------------------------------------------------------------
Sits(d, t) == desk' = [desk EXCEPT ![d] = t]
AllFree == \A d \in Desks : desk[d] = Free
IsLive == contract # NoContract /\ contract.live

\* A call fails, and the code goes on with what it has.
Fails == breaks < MaxBreaks /\ breaks' = breaks + 1

\* The key of the file a contract from before versions may have.
Legacy == 1

\* An UPDATE of the contract finds no row once it is deleted.
Write(new) == contract' = IF contract.live THEN new ELSE contract

(* BackfillDocumentVersions, at every boot *)

BeginBackfill(d) ==
  /\ desk[d] = Free
  /\ IF IsLive /\ contract.key # 0
     THEN Sits(d, [pc |-> "count", key |-> contract.key]) /\ UNCHANGED serving
     ELSE serving' = TRUE /\ UNCHANGED desk
  /\ turns' = (turns /\ AllFree)
  /\ UNCHANGED <<contract, bytes, versions, evidence, image, breaks, born, keep, skipped>>

\* Mutant of CountVersions: every boot records the file anew.
CountVersionsNever(d) ==
  /\ desk[d].pc = "count"
  /\ Sits(d, [desk[d] EXCEPT !.pc = "legacy"])
  /\ UNCHANGED <<contract, bytes, versions, evidence, image, serving, breaks, history>>

CountVersions(d) ==
  /\ desk[d].pc = "count"
  /\ IF versions = <<>>
     THEN Sits(d, [desk[d] EXCEPT !.pc = "legacy"]) /\ UNCHANGED serving
     ELSE Sits(d, Free) /\ serving' = TRUE
  /\ UNCHANGED <<contract, bytes, versions, evidence, image, breaks, history>>

\* The hash is taken of what storage has now; it is empty if that cannot be read.
RecordLegacy(d) ==
  /\ desk[d].pc = "legacy" /\ Len(versions) < MaxVersions
  /\ \E h \in {bytes[desk[d].key], Missing} :
       /\ IF h = bytes[desk[d].key] THEN UNCHANGED breaks ELSE Fails
       /\ versions' = Append(versions, [number |-> 1, key |-> desk[d].key, hash |-> h])
       /\ Sits(d, [pc |-> "adopt", key |-> desk[d].key, hash |-> h])
  /\ UNCHANGED <<contract, bytes, evidence, image, serving, history>>

AdoptLegacy(d) ==
  /\ desk[d].pc = "adopt"
  /\ Write([contract EXCEPT !.hash = desk[d].hash, !.version = 1])
  /\ Sits(d, Free) /\ serving' = TRUE
  /\ UNCHANGED <<bytes, versions, evidence, image, breaks, history>>

Booting == {"count", "legacy", "adopt"}

\* A statement of the backfill fails, or of another contract's before it: the
\* error is logged, and the replica serves.
BackfillFails(d) ==
  /\ desk[d].pc \in Booting \cup {"free"} /\ Fails
  /\ Sits(d, Free) /\ serving' = TRUE /\ skipped' = TRUE
  /\ turns' = (turns /\ \A o \in Desks \ {d} : desk[o] = Free)
  /\ UNCHANGED <<contract, bytes, versions, evidence, image, born, keep>>

-----------------------------------------------------------------------------
StartAt(d, t) ==
  /\ serving /\ desk[d] = Free
  /\ Sits(d, t)
  /\ turns' = (turns /\ AllFree)
  /\ UNCHANGED <<contract, bytes, versions, evidence, image, serving, breaks,
                 born, keep, skipped>>

\* AdminCreateContract takes any status that is one.
CreateContract(s) ==
  /\ serving /\ contract = NoContract
  /\ contract' = [status |-> s, live |-> TRUE, key |-> 0, hash |-> Missing,
                  version |-> 0]
  /\ born' = (s = "signed")
  /\ UNCHANGED <<bytes, versions, evidence, image, serving, desk, breaks, keep, turns,
                 skipped>>

\* AdminDeleteContract, past the gate: the row stays, marked.
DeleteContract ==
  /\ serving /\ IsLive
  /\ contract' = [contract EXCEPT !.live = FALSE]
  /\ turns' = (turns /\ AllFree)
  /\ UNCHANGED <<bytes, versions, evidence, image, serving, desk, breaks, born, keep,
                 skipped>>

\* AdminUpdateContract: signed is kept, and not given.
MayBecome(s) == s = "signed" => contract.status = "signed"

BeginUpdate(d, s) ==
  /\ IsLive /\ MayBecome(s)
  /\ StartAt(d, [pc |-> "status", status |-> s])

WriteStatus(d) ==
  /\ desk[d].pc = "status"
  /\ Write([contract EXCEPT !.status = desk[d].status])
  /\ Sits(d, Free)
  /\ UNCHANGED <<bytes, versions, evidence, image, serving, breaks, history>>

(* UploadContractFile and AdminSignContract *)

\* The file to be stored, as version row of the contract; signing stamps it from
\* the original, and may keep the signer's image.
Storing(file, original, again) ==
  [pc |-> "save", file |-> file, original |-> original, again |-> again,
   of |-> 0, row |-> [number |-> 0, key |-> 0, hash |-> file], at |-> 0]

Signing(t) == t.original # Missing

BeginUpload(d, doc) ==
  /\ IsLive
  /\ StartAt(d, Storing(File(doc, 0), Missing, FALSE))

\* A sent contract with a PDF, past the gate; its file is opened and stamped.
Signable == contract.status = "sent" /\ contract.key # 0

BeginSign(d, again) ==
  LET f == bytes[contract.key] IN
  /\ IsLive /\ Signable
  /\ f # Missing /\ f.doc \in Pdf
  /\ StartAt(d, [Storing([f EXCEPT !.stamps = @ + 1], f, again) EXCEPT !.pc = "newest"])

Newest(i) == \A j \in DOMAIN versions : versions[j].number <= versions[i].number

\* The version the signature is applied to is taken to be the newest; it is left
\* out when there is none, or it could not be read.
FindNewest(d) ==
  /\ desk[d].pc = "newest"
  /\ \E i \in 0 .. Len(versions) :
       /\ IF i = 0 /\ versions # <<>> THEN Fails ELSE UNCHANGED breaks
       /\ i # 0 => Newest(i)
       /\ Sits(d, [desk[d] EXCEPT !.pc = "save", !.of = i])
  /\ UNCHANGED <<contract, bytes, versions, evidence, image, serving, history>>

\* nextDocumentVersion
NextVersion ==
  CHOOSE n \in 1 .. MaxVersions + 1 :
    /\ \A i \in DOMAIN versions : versions[i].number < n
    /\ n = 1 \/ \E i \in DOMAIN versions : versions[i].number = n - 1

\* saveHashed under a fresh key, and the row that will say so; a highest number
\* that could not be read reads as none.
SaveFile(d) ==
  /\ desk[d].pc = "save" /\ Len(bytes) < MaxUploads
  /\ bytes' = Append(bytes, desk[d].file)
  /\ \E n \in {NextVersion, 1} :
       /\ IF n = NextVersion THEN UNCHANGED breaks ELSE Fails
       /\ Sits(d, [desk[d] EXCEPT !.pc = "version", !.row =
                     [number |-> n, key |-> Len(bytes'), hash |-> desk[d].file]])
  /\ UNCHANGED <<contract, versions, evidence, image, serving, history>>

\* Mutant of StoreVersion: the handler goes on when the row could not be stored.
StoreVersionUnchecked(d) ==
  /\ desk[d].pc = "version" /\ Len(versions) < MaxVersions
  /\ versions' \in {versions, Append(versions, desk[d].row)}
  /\ Sits(d, [desk[d] EXCEPT !.at = Len(versions) + 1,
                !.pc = IF Signing(desk[d]) THEN "record" ELSE "point"])
  /\ UNCHANGED <<contract, bytes, evidence, image, serving, breaks, history>>

StoreVersion(d) ==
  /\ desk[d].pc = "version" /\ Len(versions) < MaxVersions
  /\ versions' = Append(versions, desk[d].row)
  /\ Sits(d, [desk[d] EXCEPT !.at = Len(versions) + 1,
                !.pc = IF Signing(desk[d]) THEN "record" ELSE "point"])
  /\ UNCHANGED <<contract, bytes, evidence, image, serving, breaks, history>>

Pointing(row) ==
  [contract EXCEPT !.key = row.key, !.hash = row.hash, !.version = row.number]

MovePointer(d) ==
  /\ desk[d].pc = "point"
  /\ Write(Pointing(desk[d].row))
  /\ Sits(d, Free)
  /\ UNCHANGED <<bytes, versions, evidence, image, serving, breaks, history>>

\* Mutant of RecordSignature: the hash the contract has now is taken for that of
\* the bytes that were stamped.
RecordSignatureAsStored(d) ==
  LET t == desk[d] IN
  /\ t.pc = "record"
  /\ evidence' = Append(evidence, [original |-> t.of, signed |-> t.at,
                                   originalHash |-> contract.hash, signedHash |-> t.file])
  /\ Sits(d, [t EXCEPT !.pc = "mark"])
  /\ UNCHANGED <<contract, bytes, versions, image, serving, breaks, history>>

\* The hash of the bytes that were stamped, and the version they are said to be.
RecordSignature(d) ==
  LET t == desk[d] IN
  /\ t.pc = "record"
  /\ evidence' = Append(evidence, [original |-> t.of, signed |-> t.at,
                                   originalHash |-> t.original, signedHash |-> t.file])
  /\ Sits(d, [t EXCEPT !.pc = "mark"])
  /\ UNCHANGED <<contract, bytes, versions, image, serving, breaks, history>>

MarkSigned(d) ==
  LET t == desk[d] IN
  /\ t.pc = "mark"
  /\ Write([Pointing(t.row) EXCEPT !.status = "signed"])
  /\ Sits(d, IF t.again THEN [t EXCEPT !.pc = "forget"] ELSE Free)
  /\ UNCHANGED <<bytes, versions, evidence, image, serving, breaks, history>>

\* The image saved before is deleted, which leaves its row behind, or is not, and
\* nobody looks ...
Deleted(i) == IF i = "kept" THEN "deleted" ELSE i

ForgetImage(d) ==
  /\ desk[d].pc = "forget"
  /\ \/ image' = Deleted(image) /\ UNCHANGED breaks
     \/ Fails /\ UNCHANGED image
  /\ Sits(d, [desk[d] EXCEPT !.pc = "image"])
  /\ UNCHANGED <<contract, bytes, versions, evidence, serving, history>>

\* ... and the unique index on the user refuses a second row.
KeepImage(d) ==
  /\ desk[d].pc = "image"
  /\ image' = IF image = "never" THEN "kept" ELSE image
  /\ keep' = TRUE
  /\ Sits(d, Free)
  /\ UNCHANGED <<contract, bytes, versions, evidence, serving, breaks, born, turns,
                 skipped>>

\* AdminDeleteMySignature
DeleteImage ==
  /\ serving /\ image = "kept"
  /\ image' = Deleted(image)
  /\ keep' = FALSE
  /\ UNCHANGED <<contract, bytes, versions, evidence, serving, desk, breaks, born,
                 turns, skipped>>

-----------------------------------------------------------------------------
\* A statement fails, and the handler says so and returns, or the replica dies.
Break(d) ==
  /\ desk[d] # Free /\ breaks < MaxBreaks
  /\ breaks' = breaks + 1
  /\ Sits(d, Free)
  /\ UNCHANGED <<contract, bytes, versions, evidence, image, serving, history>>

ContractsNext ==
  \/ \E s \in Statuses : CreateContract(s)
  \/ DeleteContract \/ DeleteImage
  \/ \E d \in Desks :
       \/ BeginBackfill(d) \/ CountVersions(d) \/ RecordLegacy(d) \/ AdoptLegacy(d)
       \/ BackfillFails(d)
       \/ \E s \in Statuses : BeginUpdate(d, s)
       \/ WriteStatus(d)
       \/ \E doc \in Docs : BeginUpload(d, doc)
       \/ \E again \in BOOLEAN : BeginSign(d, again)
       \/ FindNewest(d) \/ SaveFile(d) \/ StoreVersion(d) \/ MovePointer(d)
       \/ RecordSignature(d) \/ MarkSigned(d) \/ ForgetImage(d) \/ KeepImage(d)
       \/ Break(d)

ContractsSpec == ContractsInit /\ [][ContractsNext]_cvars

-----------------------------------------------------------------------------
\* "Uploads append a version rather than overwrite", and a version's hash
\* "proves a document was not swapped" (SECURITY.md, saveHashed): the bytes under
\* a version's key are the ones it was hashed from, if its hash is not empty, and
\* a file the contract points at has a version, whatever overlaps or fails; all
\* but a file from before versions, after a boot whose backfill failed.
VersionsStand ==
  /\ \A i \in DOMAIN versions : versions[i].hash \in {bytes[versions[i].key], Missing}
  /\ (serving /\ contract # NoContract /\ contract.key # 0) =>
       \/ \E i \in DOMAIN versions : versions[i].key = contract.key
       \/ skipped /\ contract.key = Legacy /\ contract.version = 0

\* "The unsigned original survives byte-for-byte as its own version", and the
\* record proves "that the thing signed is the thing on file" (SECURITY.md,
\* ContractSignature): both files of every record are still there as versions,
\* and they differ by one stamp.  A file from before versions that was signed
\* after a failed backfill is still there too, but no version names it.
EvidenceSurvives ==
  \A i \in DOMAIN evidence :
    LET r == evidence[i] IN
    /\ versions[r.signed].hash = r.signedHash
    /\ r.originalHash # Missing
    /\ r.signedHash = [r.originalHash EXCEPT !.stamps = @ + 1]
    /\ \/ \E v \in DOMAIN versions : bytes[versions[v].key] = r.originalHash
       \/ skipped /\ bytes[Legacy] = r.originalHash

\* "The unsigned original survives byte-for-byte as its own version", as the text
\* has it: a version holds the bytes that were signed, for every record.
OriginalIsKept ==
  \A i \in DOMAIN evidence :
    \E v \in DOMAIN versions : bytes[versions[v].key] = evidence[i].originalHash

\* A contract that was not created as signed has a record once it is
\* (AdminSignContract, AdminUpdateContract).
SignedIsBackedOnceMade ==
  contract # NoContract /\ contract.status = "signed" /\ ~born
    => evidence # <<>>

\* What was signed stays provable, whatever overlaps or fails.
EvidenceStands == VersionsStand /\ EvidenceSurvives /\ SignedIsBackedOnceMade

\* While handlers take turns and nothing fails, versions are numbered from one
\* upwards, the contract points at the latest, and a record names the version
\* that was signed (Contract, DocumentVersion, ContractSignature).
VersionsAgreeInTurn ==
  turns /\ breaks = 0 =>
    /\ \A i \in DOMAIN evidence :
         versions[evidence[i].original].hash = evidence[i].originalHash
    /\ AllFree /\ versions # <<>> =>
         /\ \A i \in DOMAIN versions : versions[i].number = i
         /\ contract.live => \E i \in {Len(versions)} :
              /\ contract.version = i
              /\ contract.key = versions[i].key /\ contract.hash = versions[i].hash

\* "One saved signature per user; re-saving replaces the previous one"
\* (AdminSignContract): a signer who last asked to keep the image has it.
ResavingReplaces == keep /\ AllFree => image = "kept"
=============================================================================
