------------------------------ MODULE Release ------------------------------
(***************************************************************************)
(* Signed releases (signed/release.rs): AttestationBuilder::write copies a *)
(* log into a folder, hashes the folder's files and signs the attestation, *)
(* and verify_release judges the folder.  The log goes on being written,   *)
(* the builder may be killed and run again, its key may be retired, and    *)
(* the folder is changed by others, before, during and after a build.      *)
(*                                                                         *)
(* One log, at most once in a release.  A record of it is named by its     *)
(* position, 1 for the first: its hash commits to everything before it.    *)
(* The content of a file stands for its size and SHA-256.                  *)
(***************************************************************************)
EXTENDS Integers, Sequences, FiniteSets

CONSTANTS
  Files,       \* paths a caller may list
  Contents,    \* what such a file may hold
  Twin,        \* a path that differs from a path in Files only in case
  Litter,      \* a path that is_os_litter names
  Ids,         \* release ids
  Specs,       \* what a builder may be asked for
  Changes,     \* changes others may make to a file: path and new content
  Options,     \* how verify_release may be called
  MaxRecords,  \* bound of the model: records in the log
  MaxEdits,    \* bound of the model: changes from outside
  Faults       \* "kill": the builder dies; "sign": the signer refuses

Instructions == "HOW-TO-VERIFY.txt"
StatementPath == "ogentic-audit-keys/1.json"

Paths == Files \cup {Instructions, StatementPath, Twin, Litter}

Absent == "absent"
Link == "link"       \* anything that is not a regular file

ASSUME ReleaseAssumption ==
  /\ {Twin, Litter} \cap Files = {}
  /\ ({Absent, Link, "unsigned", "signed"} \cap (Contents \cup Ids)) = {}
  /\ MaxRecords \in Nat \ {0} /\ MaxEdits \in Nat
  /\ \A s \in Specs : /\ s.id \in Ids /\ s.files \subseteq Files
                      /\ s.log \in BOOLEAN /\ s.head \in 0..MaxRecords
                      /\ s.elide \subseteq 1..MaxRecords
                      /\ s.statement \in BOOLEAN
  /\ Changes \subseteq Paths \X (Contents \cup {Absent, Link, "unsigned"})
  /\ \A o \in Options : /\ o.pin \in {"none", "signer", "other"}
                        /\ o.knows \in BOOLEAN /\ o.allow \in BOOLEAN
                        /\ o.expect \in Ids \cup {Absent}
  /\ Faults \subseteq {"kill", "sign"}

VARIABLES
  source,     \* the log: the event of each record
  retirement, \* the key transition of the signer: its final head and releases
  folder,     \* the files of the release folder, but for these:
  copy,       \* the segment files of the log in it,
  json,       \* the attestation
  sig,        \* and its signature: by whom and over what
  build,      \* the AttestationBuilder
  issued,     \* history: the attestations write has returned Ok for
  signed,     \* history: the attestations the signer has signed
  built,      \* history: whether the last build returned Ok with nothing changed from
              \* outside since it began: "building", "ok", "no"
  edits       \* history: number of changes from outside

vars == <<source, retirement, folder, copy, json, sig, build, issued, signed, built, edits>>
bundle == <<folder, copy, json, sig>>
past == <<issued, signed, built, edits>>

-----------------------------------------------------------------------------
(* Attestations, the log and its copies. *)

\* An attestation: key_id, release_id, the SHA-256 of each file, and the head
\* of the log, 0 without a log.
NoDoc == [key |-> "none", id |-> Absent, files |-> << >>, head |-> 0]
NoSig == [by |-> "none", doc |-> NoDoc]

NotRetired == [done |-> FALSE, head |-> 0, releases |-> {}]

NoSpec == [id |-> Absent, files |-> {}, log |-> FALSE, head |-> 0, elide |-> {}, statement |-> FALSE]
Idle == [pc |-> "idle", spec |-> NoSpec, head |-> 0, todo |-> {}, doc |-> NoDoc]

\* What a copy holds at a position: the header at 0, then records.
HeaderChunk == [id |-> 0, event |-> "header", body |-> "whole"]
Record(n, body) == [id |-> n, event |-> source[n], body |-> body]
Torn == [id |-> 0, event |-> "torn", body |-> "whole"]

ReleaseInit ==
  /\ source = << >>
  /\ retirement = NotRetired
  /\ folder \in {[p \in Paths |-> IF p \in Files THEN c ELSE Absent] : c \in Contents}
  /\ copy = << >>
  /\ json = NoDoc
  /\ sig = NoSig
  /\ build = Idle
  /\ issued = {}
  /\ signed = {}
  /\ built = "no"
  /\ edits = 0

Sealed == source # << >> /\ source[Len(source)] = "log.sealed"

\* The log's writer appends, or seals the log.
WriterAppends(e) ==
  /\ Len(source) < MaxRecords
  /\ ~Sealed
  /\ source' = Append(source, e)
  /\ UNCHANGED <<retirement, bundle, build, past>>

\* statements::transition: the signer hands over to another key and vouches for
\* the log's head and for the releases it made.
Retire ==
  /\ ~retirement.done
  /\ retirement' = [done |-> TRUE, head |-> Len(source), releases |-> issued]
  /\ UNCHANGED <<source, bundle, build, past>>

-----------------------------------------------------------------------------
(* AttestationBuilder::write. *)

\* Wrong variant of HeadFor: the head is not compared with the end of the log.
HeadForUnchecked(spec) ==
  IF spec.head = 0 THEN (IF Sealed THEN Len(source) ELSE 0) ELSE spec.head

\* copy_log: the head to attest, 0 when it has to be refused.  Without one in
\* the spec the log must be sealed.
HeadFor(spec) ==
  IF spec.head = 0 THEN (IF Sealed THEN Len(source) ELSE 0)
  ELSE IF spec.head <= Len(source) THEN spec.head ELSE 0

\* The log verifies, the head and the elisions fit it, and there is nothing yet
\* where it goes: its first file is created.
BuildBegin(spec) ==
  LET head == HeadFor(spec) IN
  /\ build.pc = "idle"
  /\ spec.log => /\ head # 0
                 /\ \A n \in spec.elide : n <= head
                 /\ copy = << >>
  /\ copy' = IF spec.log THEN << HeaderChunk >> ELSE copy
  /\ build' = [Idle EXCEPT !.pc = IF spec.log THEN "copy" ELSE "instructions",
                           !.spec = spec, !.head = IF spec.log THEN head ELSE 0]
  /\ built' = "building"
  /\ UNCHANGED <<source, retirement, folder, json, sig, issued, signed, edits>>

\* Wrong variant of CopyRecord: it stops behind the head, not at it.
CopyRecordPast ==
  LET n == Len(copy)
      withhold == n \in build.spec.elide IN
  /\ build.pc = "copy"
  /\ ~(withhold /\ source[n] = "log.sealed")
  /\ copy' = Append(copy, Record(n, IF withhold THEN "elided" ELSE "whole"))
  /\ build' = [build EXCEPT !.pc = IF n > build.head \/ n = Len(source)
                                   THEN "instructions" ELSE "copy"]
  /\ UNCHANGED <<source, retirement, folder, json, sig, past>>

\* copy_log: the next record, without its body when that is withheld.
CopyRecord ==
  LET n == Len(copy)
      withhold == n \in build.spec.elide IN
  /\ build.pc = "copy"
  /\ ~(withhold /\ source[n] = "log.sealed")
  /\ copy' = Append(copy, Record(n, IF withhold THEN "elided" ELSE "whole"))
  /\ build' = [build EXCEPT !.pc = IF n = build.head THEN "instructions" ELSE "copy"]
  /\ UNCHANGED <<source, retirement, folder, json, sig, past>>

\* The build ends with an error.
Fail ==
  /\ build' = Idle
  /\ built' = "no"

\* A structural record cannot be withheld; what was copied stays.
CopyRefused ==
  /\ build.pc = "copy"
  /\ Len(copy) \in build.spec.elide
  /\ source[Len(copy)] = "log.sealed"
  /\ Fail
  /\ UNCHANGED <<source, retirement, bundle, issued, signed, edits>>

InstructionsText(spec) == spec.id

\* The instructions (and the public key, which nothing reads) are written.
WriteInstructions ==
  /\ build.pc = "instructions"
  /\ folder' = [folder EXCEPT ![Instructions] = InstructionsText(build.spec)]
  /\ build' = [build EXCEPT !.pc = IF build.spec.statement /\ retirement.done
                                   THEN "statement" ELSE "hash",
                            !.todo = build.spec.files \cup {Instructions}]
  /\ UNCHANGED <<source, retirement, copy, json, sig, past>>

\* A key statement is copied, then its signatures.
CopyStatement ==
  /\ build.pc \in {"statement", "statement_sig"}
  /\ folder' = [folder EXCEPT ![StatementPath] =
                  IF build.pc = "statement" THEN "unsigned" ELSE "signed"]
  /\ build' = [build EXCEPT !.pc = IF @ = "statement" THEN "statement_sig" ELSE "hash"]
  /\ UNCHANGED <<source, retirement, copy, json, sig, past>>

\* hash_file.
Digest(p) == folder[p]

\* The next file is hashed; it must be a regular file.
HashFile(p) ==
  /\ build.pc = "hash"
  /\ p \in build.todo
  /\ IF folder[p] \in {Absent, Link} THEN Fail
     ELSE /\ build' = [build EXCEPT !.todo = @ \ {p},
                                    !.doc.files = [q \in DOMAIN @ \cup {p} |->
                                                     IF q = p THEN Digest(p) ELSE @[q]]]
          /\ UNCHANGED built
  /\ UNCHANGED <<source, retirement, bundle, issued, signed, edits>>

\* The attestation is complete; the signer signs it, or refuses.
SignAttestation ==
  /\ build.pc = "hash"
  /\ build.todo = {}
  /\ \/ LET doc == [build.doc EXCEPT !.key = "signer", !.id = build.spec.id, !.head = build.head] IN
        /\ build' = [build EXCEPT !.pc = "json", !.doc = doc]
        /\ signed' = signed \cup {doc}
        /\ UNCHANGED built
     \/ /\ "sign" \in Faults
        /\ Fail
        /\ UNCHANGED signed
  /\ UNCHANGED <<source, retirement, bundle, issued, edits>>

WriteJson ==
  /\ build.pc = "json"
  /\ json' = build.doc
  /\ build' = [build EXCEPT !.pc = "sig"]
  /\ UNCHANGED <<source, retirement, folder, copy, sig, past>>

WriteSig ==
  /\ build.pc = "sig"
  /\ sig' = [by |-> "signer", doc |-> build.doc]
  /\ issued' = issued \cup {build.doc}
  /\ build' = Idle
  /\ built' = IF built = "building" THEN "ok" ELSE "no"
  /\ UNCHANGED <<source, retirement, folder, copy, json, signed, edits>>

\* The builder dies.  What it had buffered of the copy is lost, perhaps in the
\* middle of a frame; the segment file it had created stays, even if empty.
Kill ==
  /\ "kill" \in Faults
  /\ build.pc # "idle"
  /\ Fail
  /\ IF build.pc = "copy"
     THEN \E n \in 0..Len(copy), tail \in {<< >>, <<Torn>>} :
            /\ n = 0 => tail = <<Torn>>
            /\ n = Len(copy) => tail = << >>
            /\ copy' = SubSeq(copy, 1, n) \o tail
     ELSE UNCHANGED copy
  /\ UNCHANGED <<source, retirement, folder, json, sig, issued, signed, edits>>

-----------------------------------------------------------------------------
(* Changes from outside, by someone who cannot sign for the signer. *)

Edited ==
  /\ edits < MaxEdits
  /\ edits' = edits + 1
  /\ built' = "no"
  /\ UNCHANGED <<source, retirement, build, issued, signed>>

\* A file is changed, removed, added, or replaced by a link.
EditFile(p, v) ==
  /\ folder[p] # v
  /\ folder' = [folder EXCEPT ![p] = v]
  /\ Edited
  /\ UNCHANGED <<copy, json, sig>>

\* The copied log is cut, or a record loses its body, has it changed, or is gone;
\* not while it is being copied, a bound of the model.
EditLog ==
  /\ build.pc # "copy"
  /\ copy # << >>
  /\ \E n \in 1..Len(copy) :
       copy' \in {SubSeq(copy, 1, n - 1), SubSeq(copy, 1, n - 1) \o SubSeq(copy, n + 1, Len(copy)),
                  [copy EXCEPT ![n].body = "changed"], [copy EXCEPT ![n].body = "elided"]}
  /\ copy' # copy
  /\ Edited
  /\ UNCHANGED <<folder, json, sig>>

\* A file is changed and the attestation rewritten to fit, under the signature
\* that was there or signed by somebody else.
ForgeAttestation ==
  /\ json # NoDoc
  /\ \E k \in {"signer", "other"}, c \in Changes :
       /\ folder' = [folder EXCEPT ![c[1]] = c[2]]
       /\ json' = [json EXCEPT !.key = k, !.files = [p \in DOMAIN @ |-> folder'[p]]]
       /\ sig' = IF k = "other" THEN [by |-> k, doc |-> json'] ELSE sig
  /\ Edited
  /\ UNCHANGED copy

\* An attestation of the signer is put in place of the current one, or the
\* signature or both files are removed.
ReplaceAttestation ==
  /\ \E d \in signed \cup {NoDoc} :
       /\ json' \in {d, json}
       /\ sig' = IF d = NoDoc THEN NoSig ELSE [by |-> "signer", doc |-> d]
  /\ Edited
  /\ UNCHANGED <<folder, copy>>

ReleaseNext ==
  \/ \E e \in {"app", "log.sealed"} : WriterAppends(e)
  \/ Retire
  \/ \E s \in Specs : BuildBegin(s)
  \/ CopyRecord
  \/ CopyRefused
  \/ WriteInstructions
  \/ CopyStatement
  \/ \E p \in Paths : HashFile(p)
  \/ SignAttestation
  \/ WriteJson
  \/ WriteSig
  \/ Kill
  \/ \E c \in Changes : EditFile(c[1], c[2])
  \/ EditLog
  \/ ForgeAttestation
  \/ ReplaceAttestation

ReleaseSpec == ReleaseInit /\ [][ReleaseNext]_vars

-----------------------------------------------------------------------------
(* verify_release, as a function of the folder and the options. *)

Present == {p \in Paths : folder[p] # Absent}

\* The transition counts when the operator supplied it or the folder carries it
\* with its signatures, and it follows from a pin.
KnowsRetirement(o) ==
  /\ o.pin = "signer"
  /\ retirement.done
  /\ o.knows \/ folder[StatementPath] = "signed"

\* Wrong variant of AttestationRefusal: a pinned key is accepted for any release.
AttestationRefusalUnretired(o) ==
  IF json = NoDoc THEN "AttestationMissing"
  ELSE IF sig = NoSig THEN "SignatureInvalid"
  ELSE IF o.pin # "none" /\ sig.by # o.pin THEN "UntrustedSigner"
  ELSE IF sig.doc # json THEN "SignatureInvalid"
  ELSE IF json.key # sig.by THEN "KeyIdMismatch"
  ELSE IF o.expect # Absent /\ o.expect # json.id THEN "ReleaseIdMismatch"
  ELSE "none"

\* Wrong variant of AttestationRefusal: the signature is not compared with the
\* attestation.
AttestationRefusalUnbound(o) ==
  IF json = NoDoc THEN "AttestationMissing"
  ELSE IF sig = NoSig THEN "SignatureInvalid"
  ELSE IF o.pin # "none" /\ sig.by # o.pin THEN "UntrustedSigner"
  ELSE IF KnowsRetirement(o) /\ json \notin retirement.releases THEN "RetiredKey"
  ELSE "none"

\* parse_attestation: a document somebody signed is well formed; what may be wrong
\* is the key it names.
NamesItsSigner == json.key = sig.by

\* A1-A6: why the attestation itself is refused, or "none".
AttestationRefusal(o) ==
  IF json = NoDoc THEN "AttestationMissing"
  ELSE IF sig = NoSig THEN "SignatureInvalid"
  ELSE IF o.pin # "none" /\ sig.by # o.pin THEN "UntrustedSigner"
  ELSE IF KnowsRetirement(o) /\ json \notin retirement.releases THEN "RetiredKey"
  ELSE IF sig.doc # json THEN "SignatureInvalid"
  ELSE IF ~NamesItsSigner THEN "KeyIdMismatch"
  ELSE IF o.expect # Absent /\ o.expect # json.id THEN "ReleaseIdMismatch"
  ELSE "none"

\* F1-F3: what is wrong with an attested file, or "none".
FileFinding(p) ==
  IF folder[p] = Absent THEN "FileMissing"
  ELSE IF p \in Files /\ folder[Twin] # Absent THEN "FileAltered"
  ELSE IF folder[p] = Link THEN "FileAltered"
  ELSE IF Digest(p) # json.files[p] THEN "FileAltered"
  ELSE "none"

\* L1-L4: what the forensic verification of the copied log up to the attested
\* head reports; a log by an untrusted key is not read.  A torn end behind that head
\* is only a warning.
LogFindings(o) ==
  LET records == {n \in 2..Len(copy) : copy[n].event # "torn"}
      last == Len(copy) - 1
      Found(kind, bad) == IF bad THEN {kind} ELSE {} IN
  IF copy = << >> THEN {"FileMissing"}
  ELSE IF copy[1] # HeaderChunk THEN {"HeaderCorrupt"}
  ELSE IF o.pin = "other" THEN {"UntrustedSigner"}
  ELSE UNION {
    Found("TornTail", \E n \in (2..Len(copy)) \ records : n - 1 <= json.head),
    Found("ChainBreak", \E n \in records : copy[n].id # n - 1),
    Found("SignatureInvalid", \E n \in records : copy[n].body = "changed"),
    Found("ElidedStructural", \E n \in records : copy[n].event = "log.sealed" /\ copy[n].body = "elided"),
    Found("RetiredKey", KnowsRetirement(o) /\ \E n \in records : n - 1 > retirement.head),
    Found("CheckpointMismatch", KnowsRetirement(o) /\ last < retirement.head),
    Found("CheckpointTruncated", last < json.head)}

\* U1: a file no signature covers.  Key statements that verify, the segments of
\* the attested log and litter are exempt.
Unattested(p) ==
  /\ p \in Present \ DOMAIN json.files
  /\ p # Litter
  /\ ~(p = StatementPath /\ folder[p] = "signed")

\* The kinds of all violations of a release.
Violations(o) ==
  IF AttestationRefusal(o) # "none" THEN {AttestationRefusal(o)}
  ELSE ({FileFinding(p) : p \in DOMAIN json.files} \ {"none"})
       \cup (IF json.head > 0 THEN LogFindings(o) ELSE {})
       \cup (IF ~o.allow /\ ((\E p \in Paths : Unattested(p)) \/ (json.head = 0 /\ copy # << >>))
             THEN {"UnattestedFile"} ELSE {})

Verdict(o) ==
  IF Violations(o) # {} THEN "Violation"
  ELSE IF o.pin # "none" THEN "Verified" ELSE "SelfConsistent"

-----------------------------------------------------------------------------
(* Properties. *)

Steps == {"idle", "copy", "instructions", "statement", "statement_sig", "hash", "json", "sig"}

\* The type invariant of the builder and the folder; a head to attest is in the log.
ReleaseTypeOK ==
  /\ \A n \in 1..Len(source) : source[n] \in {"app", "log.sealed"}
  /\ folder \in [Paths -> Contents \cup Ids \cup {Absent, Link, "unsigned", "signed"}]
  /\ build.pc \in Steps
  /\ build.head <= Len(source)
  /\ issued \subseteq signed
  /\ edits \in 0..MaxEdits /\ built \in {"building", "ok", "no"}

\* "Verified means every file and the audit log are exactly as signed": whatever
\* builds, kills and edits came before, a release that verifies under the signer's
\* pin is one the signer signed, file for file, with every record of the log up to
\* the attested head, unchanged but for withheld bodies, and with nothing else.
VerifiedIsSigned ==
  \A o \in Options : Verdict(o) = "Verified" /\ o.pin = "signer" =>
    /\ json \in signed
    /\ \A p \in DOMAIN json.files : folder[p] = json.files[p]
    /\ \A n \in 1..json.head :
         copy[n+1] \in {Record(n, "whole"), Record(n, "elided")}
           /\ (source[n] = "log.sealed" => copy[n+1].body = "whole")
    /\ o.allow \/ Present \subseteq DOMAIN json.files \cup {Litter, StatementPath}

\* What write returned Ok for verifies as long as nobody changes the folder, also when
\* the log grew meanwhile and earlier builds died in the same folder: to a verifier
\* that applies no retirement of its key, the only objection left is to files the
\* builder was not told of.  The log is copied "through the attested head and no
\* further" (docs/spec/v0.2.md).
BuiltVerifies ==
  built = "ok" =>
    /\ json.head > 0 => Len(copy) = json.head + 1
    /\ \A o \in Options :
         o.pin # "other" /\ o.expect \in {Absent, json.id} /\ ~KnowsRetirement(o) =>
           Violations(o) \subseteq {"UnattestedFile"} \cup
             (IF folder[Twin] # Absent THEN {"FileAltered"} ELSE {})

\* A verifier that has the transition accepts nothing the retired key signed
\* behind its back: no later release and no later record.
RetirementHolds ==
  \A o \in Options : Verdict(o) = "Verified" /\ KnowsRetirement(o) =>
    /\ json \in retirement.releases
    /\ json.head <= retirement.head
    /\ json.head > 0 => \A n \in 2..Len(copy) :
                         copy[n].event = "torn" \/ n - 1 <= retirement.head

\* "release attestations you still stand behind": a release that verifies
\* goes on verifying when its key is retired with a transition that lists it.
VouchedReleaseVerifies ==
  /\ retirement.done
  /\ json \in retirement.releases
  => \A o \in Options :
       Verdict([o EXCEPT !.knows = FALSE]) = "Verified" => Verdict(o) = "Verified"
=============================================================================
