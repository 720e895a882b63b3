# Verification of ogentic-audit

TLA+ models of the audit log library in `crates/ogentic-audit-core` and of the
programs around it, TLC instances that model-check them, and theorems that
TLAPS checks. Paths below are relative to the repository root; `core/` stands
for `crates/ogentic-audit-core/src/`.

## The system

ogentic-audit keeps a tamper-evident log in a directory of segment files
`audit-NNNN.cbor`. Each file starts with a fixed-size header (segment index,
key id, HMAC of the last record of the segment before it, CRC32) followed by
length-prefixed CBOR records; each record carries the HMAC of its predecessor
and its own HMAC. A second format (v0.2, "signed") replaces the HMAC by Ed25519
signatures, key statements and seals.

| Component | State | Operations | Interacts with |
|---|---|---|---|
| HMAC writer and recovery, `core/writer.rs`, `sync_compat.rs` | `SegmentState`: index, last HMAC, next record id, counters, offset; the files | open (scan, repair, resume, next segment), append, rollover, flush, drop | segment files; key handle |
| Segment framing, `core/segment.rs` | none | `SegmentHeader::parse` and `to_bytes`, `frame_record` | writer, reader, verifier |
| Reader, `core/reader.rs` | `RecordIterator`: current segment, offset, `header_verified` | `next_record`, `seek`, `segments` | files a live writer is changing |
| HMAC verifier and checkpoint, `core/verifier.rs`, `checkpoint.rs` | locals of the walk, `VerifyReport` | `verify_with_options` (stop at first or forensic, with or without a checkpoint) | reader listing, files, checkpoint file |
| Canonical CBOR, `core/cbor.rs` | none | encode, decode | everything that signs |
| Key handles, `core/key.rs` | key bytes | `sign`, `key_id` | writer, verifier |
| Policy attestation, `core/policy.rs` | none | builds a `RecordInput` | writer |
| Signed writer, `core/signed/writer.rs`, `signer.rs` | segment state, last hash and timestamp, `sealed` | open, append, seal, flush, rollover | signer (agent, keychain) |
| Signed verification, `core/signed/verify.rs`, `format.rs`, `checkpoint.rs` | walk state, verdicts | verify a signed log | trust evaluation |
| Trust, `core/signed/trust.rs`, `statements.rs`, `keys.rs`, `names.rs` | set of statements | evaluate keys, rotation, revocation | signed verification, release |
| Release and report, `core/signed/release.rs`, `report.rs` | the release folder, `AttestationBuilder` | build and sign a release, verify one | signed verification, trust, the live log |
| Primitives, `core/signed/ed25519.rs`, `sshsig.rs`, `json.rs` | none | signatures, parsing | signed modules |
| Keychain, `crates/ogentic-audit-keychain` | OS credential store, lock file, `.pub` file | load, create, load or generate, delete a key | CLI, applications, other processes |
| KMS, `crates/ogentic-audit-kms` | wrapped data key | unwrap | CLI, applications |
| CLI, `crates/ogentic-audit-cli` | checkpoint file | verify, checkpoint, show, head, export, key, witness | all of the above |
| Python bindings, `python/ogentic-audit-py` | handles | wrappers over core | core |

### What is hard here

- The writer is a sequence of system calls without a transaction: a kill, an
  I/O error or a power loss may fall between any two of them, and open must
  find out from the bytes alone what happened.
- Nothing locks the directory. A reader or a verifier works beside a live
  writer, each system call of one interleaved with those of the other.
- The chain state is carried in several places (file, `SegmentState`, the
  verifier's `prev`/`prior_segment_final`, a checkpoint file); a stale copy of
  it breaks the chain or accuses an intact log.
- The signed parts read the same bytes several times (verify, then copy, then
  hash, then sign; verify, then export), and a log, a folder or a key may have
  changed in between.
- Statements about keys arrive in any order, repeated, from operators and from
  the bundle under suspicion, and contradict each other.
- Boundaries: segment size estimates, the `u16` segment index, four-digit file
  names, the drift a clock may go back.

`PROJECT.json` lists each hazard at its line with the properties that look for it.

### What makes each component correct

- Writer: what append and flush promised survives what they promise to survive;
  the records of all segments are one chain whatever failed; a log that was
  closed, by whatever failure, can be opened again.
- Reader: records in append order, none twice, none left out, all of them in
  the end.
- Verifier: accepts exactly what was written, blames nobody for an intact log,
  and with a checkpoint accepts only the history the checkpoint was taken of.
- Signed writer and verifier: the same, and nothing follows `log.sealed` once
  `seal` has returned; a verified log is one the pinned signer wrote, complete up
  to the head that is reported, and a head saved earlier is still in it.
- Trust: the verdict does not depend on the order of the statements; each accepted
  signature rests on a pin; no authority's revocation is outvoted.
- Release: a folder that verifies is what the signer signed; what was built
  verifies; a retired key vouches for nothing it did not list.
- Keychain: a stored seed is never overwritten, and every process that was given a key
  was given the stored one.

## Modules

```
AuditLog              what a caller is promised: one append-only log
AuditWriter           writer.rs, the files, and every failure
  AuditWriterRefinement   AuditWriter implements AuditLog
    MCAuditWriter     the instances of both for TLC
  AuditWriterProofs   theorems: types, the chain, what survives,
                      the refinement
  LiveReader          reader.rs beside the writer        (MCLiveReader, LiveReaderProofs)
  LogVerifier         verifier.rs and the checkpoint
                      command beside the writer          (MCLogVerifier, LogVerifierProofs)
SignedWriter          signed/writer.rs, its files, its failures
                                                         (MCSignedWriter, SignedLogProofs)
  SignedVerify        signed/verify.rs, the commands that save heads
                      and export, beside the writer      (MCSignedVerify, SignedLogProofs)
Trust                 signed/trust.rs                    (MCTrust, TrustProofs)
Release               signed/release.rs beside a log, a
                      key transition and other users of
                      the folder                         (MCRelease, ReleaseProofs)
KeyStore              keychain/src/signer.rs, several processes
                                                         (MCKeyStore, KeyStoreProofs)
NatLemmas             lemmas the proofs share: naturals, induction, recursive functions
```

An operator whose comment begins "Wrong variant of" is not part of the model: it
stands in front of the definition it varies and is what that definition would be
with a plausible mistake in it. Each checked property is violated by the run when
one of them takes its definition's place.

### AuditWriter

State. `file` is the content of each segment file as the page cache has it,
`entries` the directory, `synced` and `dirSynced` the parts of them on stable
storage, `cur` the `SegmentState`, `pc` the writer's next system call, `arg` the
input being appended, `report` the outcome of the last open. `acked` and
`flushed` are history: what append and flush have answered Ok for. Recovery never takes
anything out of `acked`; it adds what the writer relies on from then on (`Relied`), so a repair
that cuts an acknowledged record is seen.

A file is a sequence of chunks: a header, a record, `Torn` (bytes that do not
frame) or `Bad` (bytes that frame but fail the HMAC). An HMAC is named by what
it commits to, the sequence of payloads up to the record: two are equal exactly
when the histories are, which is what a collision-free MAC under one key gives.
A payload keeps the fields the chain depends on (`event`, `input`, `records` of
a finalize record, `record_id`, `key_id`); the rest is the model value `input`.

| Actions | Code |
|---|---|
| `OpenFresh`, `GenesisHeader` | `Writer::with_config` on an empty directory, `SegmentState::create` |
| `OpenRefused`, `Recover`, `RepairFails`, `OpenResume`, `OpenAfterFinalized` | `scan_segment_for_recovery`, `truncate_to`, `reopen_segment_for_append`, next segment after a finalized one |
| `AppendCall`, `BeginWrite`, `FinishRecord` | `append` with its size estimate, `append_framed` before, during and after `write_all` |
| `FinishFinalize`, `SyncFinalized`, `CreateNext`, `WriteHeader`, `IndexOverflow` | `rollover`, `SegmentState::create_next` |
| `FlushFile`, `FlushDir`, `Close` | `flush`, drop |
| `ShortWrite`, `SyncFails`, `CreateFails` | the `?` after each system call |
| `Kill`, `PowerLoss` | the environment |

`Kill` keeps the page cache. `PowerLoss` keeps of each unsynced file a prefix
that includes the synced part, with or without bytes of what followed, and of
the unsynced directory entries the ones created first, as a journalling file
system does. With the fault `zero_tail` the bytes that followed may read as
zeros. A header written in part is a file without a header: both are refused
with the same error.

Which of the failures can happen is the constant `Faults`, so each run says
under which failures its properties hold.

### LiveReader

`RecordIterator::next_record` with one action for each of its system calls
(open the next segment, read the header, stat, `exists` of the next path, read
the frame), beside all actions of the writer. `yielded` is the history of what
it returned. The iterator compares a length obtained by one call with bytes
read by another; `rtorn` is what the stat told it about the frame at its offset.

### LogVerifier

`verify_with_options`: the listing, one action per header, one per frame, one
for the end of a segment; `Judgement` has the checks in the order of the code.
`walk` holds the local variables of the loop, `vreport` the report. The
checkpoint command is a verification followed by `SaveCheckpoint`, which reads
the last record id from the live files again, as the command does. While no
writer has the log open the stored files may be changed once (`Edits`): a record
altered or removed, a segment cut or deleted, or an input replaced by somebody
who holds the key and signs everything after it anew. These are the cases of the
violation taxonomy in `docs/spec/v0.1.md`; the properties are about what the
verifier then reports. The writer stops for good at the first such change;
`flush` is left out of it because it moves no byte that a verifier reads.

`History` lists the records of all segments from a given one on, the reference for what a
walk may accept. `NoFalseAlarm` says of every violation reported for an
untouched log which of four harmless causes it has. In forensic mode two of the causes
are effects of the first violation: the walk leaves a segment at its first violation
without `prior_segment_final`, so later segments look discontinuous, and it
keeps the time stamp of the last record it accepted, so clocks are compared across
the records it passed over.

### AuditLog

`log`, a set of records with their places (segment, position), and `durable`, the
part of it that must survive. A record joins behind all others, flush makes the whole
log durable, and a loss leaves a front part of the log with everything durable in it.
`AuditWriterRefinement` maps what recovery would accept of all segment files, without
the finalize records, to `log`, and what flush answered Ok for to `durable`. Places order
the records, so the set says what a sequence would, without a recursion over the segments.

### SignedWriter

The state is that of `AuditWriter` for the v0.2 format: `file`, `entries`, `synced`,
`dirSynced`, `pc`, `cur`, `arg`, `report`, the histories `acked` and `flushed`, and
`sealAcked`, whether `seal` has returned Ok. A hash is named by the sequence
of header and record data it commits to, a signature by the key that made it. A record
has a body that is whole, elided or changed, the last two only in `SignedVerify`.

`OpenFresh`, `OpenRefused`, `RepairFails` and `OpenAccepted` are `open_inner` with
its scan (`ScanStop`, `ScanRefusal` in the order of the code: the header, the log
and key ids, the chain, the signature of the last record, `log.sealed`). A latest segment
that holds no record sends the scan to the segment before it (`OpenRefusals`); the torn tail
of the latest one is cut by then, also when that second scan refuses (`ScanComplete`, `Repaired`).
`AppendCall` and `SealCall` choose the next write; `BeginWrite` and `FinishWrite` are
the two ends of `write_all` for a record, a finalize record or the seal;
`SyncFinalized`, `CreateSegment`, `CreateRefused` (`create_new` on a name that
exists, or past the last index), `WriteHeader` are the rollover; `FlushFile` and
`FlushDir` are `flush`, which is also the tail of `seal`. `OperationFails` is every
`?`: the signer, a short write, a sync, a create. `Kill` and `PowerLoss` are as in
`AuditWriter`.

### SignedVerify

`verify_with_options` of the signed verifier beside the writer: `VerifyBegin` lists the segments and takes
the options, `VerifySegment` reads one segment (its length is fixed when it is
opened and a writer only adds behind it, so one step is enough), `VerifyEnd` does
what the code does behind the loop: checkpoints, statement heads, the attested
head, the verdict. `walk` is `Walk` together with the report.

`SaveHead` makes a head out of a finished report, as the checkpoint command, the
key statements' `log_head` and the release builder do; later verifications are given
it as a `"checkpoint"`, as a `"statement"` (the final head of a retired or
revoked key) or as the `"attested"` head of a release. `VisitRecords` is the
second reading with which export lists the log. `Edit` is one change from outside:
a body or an envelope altered, a record removed or replayed, a segment cut or
deleted, a frame broken in any segment so that the walk of it ends there (`TearSegment`), a header
forged, or the whole log signed anew under another key. `walk.warned` holds the segments
whose broken frame is only warned of (`TornTailAfterHead`), because it lies behind the
attested head. `chain` is history: the hash of the last record a writer wrote.

### Trust

`TrustContext` is filled by `AddPin`, `AddTransition` and `AddRevocation` in any
order, with repetitions, statements that do not verify and the bound on their number.
A bundle's statements are added to a copy of the operator's
context, behind the operator's own (`InTurn`). `Evaluate` has the steps of `evaluate`: the pins, equivocating keys, the keys that
trust reaches before revocations (`Principals`), who has authority over whom,
the cut points on which all authorities agree (`Cuts`), which transitions may still be
followed (`MayFollow`), who is retired. The loops of `extend` are recursive functions, one
per level: the entries of a key (`Handed`), its transitions (`FollowList`), the keys in the order of
their fingerprints (`FollowKeys`), the passes (`Passes`). `Accept` is `accept`. A head is a record
position in one log, a release a number.

### Release

`AttestationBuilder::write` with a step for each record that is copied, for the
instructions, for a key statement and its signature, for each hash, for the signature, and
for each of the two attestation files; each may be the last before a kill. A kill in the middle of a
file leaves it cut, with nothing left an empty one, and the retry is refused (`release.rs:575`). Beside it
the log grows and is sealed, its key is retired (`Retire`, with a final head and the
releases the transition lists), and other users change the folder. `Verdict` and `Violations`
are `verify_release` as a function of the folder and the options: the attestation (A1 to A6 in
the comments of the code), the files, the log, the rest. A record is named by its
position, the content of a file stands for its size and hash.

### KeyStore

Processes that `load`, `create`, `load_or_generate` and `delete` one key, one step per
system call: the lock, the keychain item, and the public key file with its temporary file,
which `load` writes without the lock. A call of the keychain may return an error
(`BackendFails`), which ends the operation and releases its lock. Files are inodes, because `File::create` on
an existing name truncates a file another process still writes to.

## Runs

Sizes are in abstract units: a header, a small record and a finalize record are
1, a big record is 3, and a segment holds 3 or 4. Two segments (`MaxIndex` 1)
are enough to roll over, to restart on either side of the rollover and to reach
the index limit. `MaxChunks` bounds the
chunks of a file: 3 to 5 leave room for a torn chunk, records after it and a
finalize record behind them.

| Run | Failures and bounds | Shows |
|---|---|---|
| `WriterPower` | power loss with zeroed tails, failing create; two record sizes | flushed records survive (`FlushedSurvives`), the segments stay one chain (`ChainLinked`), no step but a power loss removes a record (`RecordsImmutable`), and the whole implements `AuditLog` (`ImplementsAuditLog`) |
| `WriterKill` | kill; two keys, two record sizes | acknowledged records survive a kill unflushed (`AckedSurvives`), segments keep their size (`SegmentBounded`), nothing follows a finalize record (`FinalizedIsLast`) |
| `WriterReopens` | short writes, failing syncs; fairness | a closed log is opened again, unless the last index is used up (`Reopens`); the inductive invariant of the proofs (`TypeOK`, `SegmentsChain`, `WriterAgrees`) |
| `ReaderOrder` | kill; fairness | a reader beside a writer that rolls over and is killed anywhere returns records in order, none twice, none that a repair takes back (`YieldedInOrder`, `YieldedStable`), and returns all acknowledged records of a segment or goes on to the next one (`CatchesUp`) |
| `VerifyLog` | kill, one outside change, two keys, three inputs with time stamps 0, 1 and 2 steps back (one step is exactly the tolerated drift) | what a walk accepts is what was written (`AcceptedIsHistory`); an untouched log raises no alarm (`NoFalseAlarm`), also when the clock goes back by exactly the drift; a checkpoint pins its history (`CheckpointHolds`) |
| `SignedSeal` | all six kinds; one key, log id and input | a log whose `seal` returned Ok ends in `log.sealed` for good (`SealIsFinal`); records follow their header in one signed chain as far as they frame (`SegmentsLinked`); the writer's state is what a scan of its file would find (`SignedWriterAgrees`) |
| `SignedVerify` | kill, one outside change of nine kinds, two keys, two log ids, four sets of options, three kinds of saved head | a log that verifies was written by the pinned signer (`VerifiedIsWritten`); what is not objected to is complete up to the reported head, or up to the attested head if a broken frame behind it was only warned of, and is exported whole (`VerifiedIsComplete`); a verified log that ends in `log.sealed` ends with the last record written (`SealedIsWhole`); a saved head is still in a log that verifies (`SavedHeadHolds`); an untouched log is not called tampered with (`NoFalseTampering`) |
| `TrustEval` | four keys, up to two pins and three statements, of two sources | verdicts do not depend on order or repetition (`OrderFree`); each accepted signature rests on a pin through sound transitions (`TrustIsRooted`); no revocation is outvoted (`RevocationHolds`) |
| `ReleaseBuild` | kill, a signer that refuses, one outside change; two records, one file and its lookalike, four builder requests, five sets of options | what verifies was signed, file for file and record for record (`VerifiedIsSigned`); what was built in a folder nobody else changes has its copy end exactly at the attested head, and verifies for everyone who applies no retirement of its key (`BuiltVerifies`); a retired key vouches only for listed releases (`RetirementHolds`) |
| `KeyStore` | kill, public key file not writable, keychain error; three processes, three calls, two seeds; fairness | no stored seed and no foreign item is overwritten and each key handed out was stored (`NoSeedLost`); the public key file ends up current (`PubIsCurrent`); each call returns (`CallsReturn`) |
| `ReaderSkips` | none, with rollover | violated: finding 1 |
| `TrustRevoked` | as `TrustEval` | violated: finding 2 |

Three calls of three processes are enough for the races of `KeyStore`: a creation
against a creation, a load against either, a deletion between the steps of
a load. Two pins and three statements are enough for an equivocating key, for two authorities that
disagree, for a self-revocation with an answer, and for a chain of two
transitions with a revocation of its middle.

`VerifyLog` and `SignedVerify` use a view that leaves out
`report`, `synced`, `dirSynced`, `acked`, `flushed` (and `sealAcked`). In these runs there is no
power loss, and then no guard, no property and no assignment to another variable
reads them, so states that differ in them only have the same futures.

The runs of the writers, the reader and the verifiers check for deadlock: a closed
log can always be opened or refused, a reader can always be polled. `TrustEval`,
`TrustRevoked`, `ReleaseBuild` and `KeyStore` do not: a context is full at
`MaxStatements`, a log ends at `log.sealed`, and processes stop calling at `MaxCalls`.
In `KeyStore` the property `CallsReturn` is the stronger statement.

### Fairness

`FairSpec` assumes weak fairness of `OpStep`, the steps of an operation in
progress (the calls return: there is no lock and no wait in `writer.rs`), and of
`Open` (an application that lost its writer opens the log again). No fairness is
assumed of append, flush, close or of any failure. `LiveFairSpec` adds weak
fairness of the reader's steps: its caller keeps polling, which is how
`reader.rs` says a live log is followed. `KeyFairSpec` assumes weak fairness of the
steps of each process in `KeyStore`: system calls return and a lock that is free goes to a
process that waits for it; nothing is assumed of calls and kills.

## Findings

Each has a run that reaches it.

1. `ReaderSkips`. `next_record` (`core/reader.rs:356`) stats the file and then looks
   for the next segment; records appended between the two calls, before a
   rollover, are never returned. `docs/spec/v0.1.md:186`: "Readers MUST iterate
   segments transparently across rollovers".
2. `TrustRevoked`. `evaluate` (`core/signed/trust.rs:1002`) follows the transition of a
   revoked key only to a successor that the revocation lists, and only a followed
   transition retires its old key. An authority revocation that trusts a later head
   than the transition and does not list the successor un-retires the key: records
   behind the final head of its transition are accepted. `docs/spec/v0.2.md:640`: "A key
   that is both retired and revoked must pass both rules."

These no run states; most need other constants than those of the runs, which are given with them:

- `short_write` added to `WriterPower` violates `FlushedSurvives`. `append_framed`
  (`core/writer.rs:651`) leaves the bytes of a failed `write_all` in the file. The next
  append goes behind them, flush returns Ok, and the next open cuts the file at the torn
  bytes, flushed records included. `core/sync_compat.rs:9-11` promises that a flushed record is durable.
- `HeaderRecoverable` is violated with `kill` alone. A kill between the creation of a
  segment file and the write of its header leaves a log that open refuses (`HeaderCorrupt`,
  `core/writer.rs:1015`); `docs/spec/v0.1.md:199` asks for a quarantine and a fall
  back to the segment before.
- `CheckpointsAreMet` is violated without any failure beside a live writer. The checkpoint
  command takes the HMAC from its verification and the record id from a second walk
  (`crates/ogentic-audit-cli/src/commands/checkpoint.rs:252`); the pair names no record,
  and later verifications of the untouched log report `CheckpointMismatch`.
- `DiscontinuityIsReal` is violated with `MaxIndex` 2 and one altered record. In forensic
  mode `prior_segment_final` (`core/verifier.rs:500`) is not updated by a segment that
  fails, so every later segment is reported as `SegmentDiscontinuity` and its records are
  not checked.
- `RemovedIsReported` is violated with the constants of `SignedVerify`, an attested head and a
  broken frame (`"tear"`). Bytes that do not frame are only warned of wherever they lie behind the
  attested head (`framing_problem`, `core/signed/verify.rs:871`), not just at the end of the log.
  `segment` then returns `None` (`:537`, `:547`), and the `prev_final` of the next header is compared
  with nothing: records in the middle of the log are gone, and the log verifies with its head
  in the segment behind them. `docs/spec/v0.2.md:502`: "record removed | `ChainBreak` at the removed
  record's position; the last record of a segment that has a successor: `SegmentDiscontinuity`
  at the successor"; line 828 excuses "A torn tail after the head" only. Up to the attested head
  nothing is lost, which is `VerifiedIsComplete`.
- `VouchedReleaseVerifies` is violated with the constants of `ReleaseBuild`.
  `check_statement_heads` (`core/signed/verify.rs:1350`) asks for the final head of the
  signer's transition in every copy of its log. A release of the log up to an earlier head,
  which the transition lists in `final_releases`, is refused with `CheckpointMismatch`;
  `docs/spec/v0.2.md:604` and `docs/security/key-rotation.md:202` keep such releases. Line
  602 of the same document asks for the final head without an exception, so the two
  rules are in tension in the text as well.

Further behaviours that the models show and that no run states:

- A kill between the finalize record and its sync, then an open: the writer
  creates the next segment (`core/writer.rs:484`) without syncing the finished one. A
  power loss may then keep the next segment and lose the finalize record it
  chains from. `ChainLinked` holds for power losses alone and not with `kill`
  added to `WriterPower`.
- A failing sync or create in a rollover returns an error and leaves the writer
  on the finalized segment; the next append writes behind the finalize record
  (or finalizes again). `FinalizedIsLast` and, for creates, `SegmentBounded` are therefore
  checked without these two.
- Segment names have four digits. From index 10000 on `list_segment_indices` does not
  see a file, and an open would create segment 10000 over the existing one. An
  instance with `NameLimit` below `MaxIndex` violates `RecordsImmutable`; the
  runs stay below the limit.
- A tail of zero bytes frames as an empty record and fails the HMAC, so open
  refuses it (`HmacMismatch`) where `docs/spec/v0.1.md:195-196` asks for a truncation.
- `final_hmac_hex` is empty when the verifier stops at a violation
  (`core/verifier.rs:506`); `docs/spec/violation-report.md:464` describes the HMAC of the
  last record that verified.
- A verification of a directory whose first segments are missing passes, and
  `first_segment_index` of the report is the only sign of it; `CheckpointHolds` is stated for
  logs that start at segment 0. The index in a header and the sequence of record
  ids are not checked by the verifier: the chain of HMACs implies them for
  records that a writer wrote.
- An input whose event is `segment.finalized` is accepted by append. The
  constant `ReservedInputs` has such inputs and is empty in the runs; with one,
  `FinalizedIsLast` is violated.
- Signed writer: with `sync` failures `NothingBehindSeal` is violated. `seal` writes
  `log.sealed`, flushes and only then sets `sealed` (`core/signed/writer.rs:430`), so a
  writer whose flush failed may append behind the seal. `SealIsFinal` is stated for a
  `seal` that returned Ok. A short write in a segment that is then sealed is cut, seal
  included, at the next open; `SealIsFinal` excepts it.
- Signed writer: a create that fails in a rollover leaves the writer on the finalized
  segment; the next append finalizes it a second time, and verification reports
  `BadRollover` from then on. A kill between `create_new` and the header leaves a file at which
  each retry and each open fails (`core/signed/writer.rs:488`).
- Both writers: after a kill and a resume in the next segment, `flush` does not sync the
  segment before it. With `kill` and `power_loss` together `SignedFlushSurvives` (and
  `FlushedSurvives` of `AuditWriter`) is violated.
- The signed recovery scan truncates the file before it looks at the signature of the last
  record, and looks at no other signature.
- A verifier beside a live signed writer may report `TornTail` or `HeaderCorrupt`, which a
  retry clears; `NoFalseTampering` is about all other violations.
- `visit_records` goes on with the next segment after a torn one, where its comment
  (`core/signed/verify.rs:1521`) says that it stops, and lists records that were appended
  after the verdict it is shown with.
- `core/signed/trust.rs:11-12` says that the result never depends on the order of the
  inputs. A key pinned twice for one principal with two scopes keeps what comes first;
  `OrderFree` excepts such pins. A caller
  of the library that adds a bundle's copy of a revocation before the operator's is warned where
  the other order is an error (`InTurn` has the order of the command line tool). An authority's revocation of a key that is reached only through an
  equivocating key is ignored, because that key has no principals yet.
- A release build that failed half way is refused on its retry (`core/signed/release.rs:575`), the
  attestation and its signature are written in place (`:524`), and a copy is hashed but
  not verified again. A build that returned Ok does not verify in a folder with files it
  was not told of; `BuiltVerifies` excepts these. It says nothing of folders that others
  change, during the build or after it, nor of verifiers that know a retirement of the
  key; `VerifiedIsSigned` and `RetirementHolds` have no such exceptions.
- A `load` that races with a `delete` leaves the public key file of a deleted key
  (`PubIsCurrent` is stated without deletions), and two loads share a temporary file, so
  that one of them may publish it while it is still empty. The HMAC key's
  `load_or_generate` is a get and a set, which `backend.rs:87` documents.

## Proofs

The theorems hold for every set of keys, inputs, files and processes, every size, index
limit and bound, and every set of failures that their hypotheses leave. The assumptions on
the constants are the named `ASSUME`s of the modules: sizes are natural numbers, a
frame is not empty, there is a key, a placeholder is no input; the processes of `KeyStore`
are finitely many. `LiveReader` and `LogVerifier` exclude power losses, after which
neither process would still run.

| Module | Theorem | Property | Hypotheses |
|---|---|---|---|
| `AuditWriterProofs` | `TypeCorrect`, `ChainCorrect`, `AgreementCorrect` | `TypeOK`, `SegmentsChain`, `WriterAgrees` | |
| | `ImmutableCorrect` | `RecordsImmutable` | `FewSegments` |
| | `FinalizedCorrect` | `FinalizedIsLast` | `OnlyRolloverFinalizes` |
| | `BoundedCorrect` | `SegmentBounded` | `RolloverCompletes` |
| | `AckedCorrect`, `FlushedCorrect` | `AckedSurvives`, `FlushedSurvives` | `FewSegments`, `WritesLand`, `PowerAlone` |
| | `LinkedCorrect` | `ChainLinked` | the same |
| | `ImplementsCorrect` | `ImplementsAuditLog` | the same |
| `LiveReaderProofs` | `ReaderTypeCorrect`, `OrderCorrect` | `ReaderTypeOK`, `YieldedInOrder` | |
| | `StableCorrect` | `YieldedStable` | `FewSegments` |
| `LogVerifierProofs` | `CheckpointCorrect` | `CheckpointHolds` | |
| | `VerifierTypeCorrect` | `VerifierTypeOK` | `FewSegments` |
| | `AcceptedCorrect` | `AcceptedIsHistory` | `FewSegments`, `WritesLand` |
| | `NoFalseAlarmCorrect` | `NoFalseAlarm` | `FewSegments`, `WritesLand`, `CreatesLand` |
| `SignedLogProofs` | `SignedTypeCorrect`, `LinksCorrect`, `SignedAgreementCorrect` | `SignedTypeOK`, `SegmentsLinked`, `SignedWriterAgrees` | |
| | `SealCorrect` | `SealIsFinal` | `FewSegments` |
| | `VerifyTypeCorrect` | `VerifyTypeOK` | |
| | `WrittenCorrect`, `HeadCorrect` | `VerifiedIsWritten`, `SavedHeadHolds` | `FewSegments`, `NothingLost` |
| | `WholeCorrect` | `SealedIsWhole` | the same and `NoFailedSync` |
| `TrustProofs` | `TrustTypeCorrect`, `RevocationCorrect`, `RootedCorrect`, `OrderCorrect` | `TrustTypeOK`, `RevocationHolds`, `TrustIsRooted`, `OrderFree` | |
| `ReleaseProofs` | `ReleaseTypeCorrect`, `VerifiedCorrect`, `RetirementCorrect`, `BuiltCorrect` | `ReleaseTypeOK`, `VerifiedIsSigned`, `RetirementHolds`, `BuiltVerifies` | |
| `KeyStoreProofs` | `KeyTypeCorrect`, `SeedsKept`, `PubCorrect` | `KeyTypeOK`, `NoSeedLost`, `PubIsCurrent` | |

`VerifyTypeCorrect` takes the place of a run: `VerifyTypeOK` is the one invariant here that no cfg lists.

### The hypotheses

Each names failures, or a limit, under which the code does not keep the promise; TLC
finds the property violated once an excluded failure is added (see Findings); only for
`SavedHeadHolds` did it find no violation with short writes alone.

- `FewSegments`: `MaxIndex <= NameLimit`, the log has no segment whose name the listing
  does not parse. Beyond it an open creates a segment over an existing one.
- `OnlyRolloverFinalizes`, `RolloverCompletes`: no failing sync or create, which leave a writer on a
  finalized segment; for the first also no input with the event `segment.finalized`.
- `WritesLand`: no short write, behind which a writer goes on and whose bytes the next
  open cuts with everything after them.
- `CreatesLand`: no failing create, after which a writer goes on in front of a segment
  without a header, so that an unfinished segment need not be the last one listed.
- `PowerAlone`: if power can fail, no kill, no failing sync and no such input. Each of the three
  lets a segment be closed, or a next one be created, without the sync of rollover: `kill`
  between the finalize record and its sync, a sync that fails, a record that looks
  like the end of a segment. Without power losses the hypothesis is empty, so
  `AckedCorrect` and the others also cover kills with failing syncs and creates.
- `NothingLost`: no short write and no power loss. The signed writer goes on behind a short write
  too, and behind a power loss it signs a second history from the point up to which the first
  survived: an older verified log is then no prefix of the one that was written.
- `NoFailedSync`: a `seal` whose sync fails returns an error, and its writer may append
  behind `log.sealed`.

### The arguments

`AuditWriterProofs`. The inductive invariant is `IInv == TypeOK /\ StepInv /\ SegmentsChain /\
WriterAgrees`. Neither of the last two is inductive alone: append writes
`cur.last_hmac` into the file, so the chain needs the agreement, and the
recovery scan computes `cur` from the file, so the agreement needs the chain
(it is the chain that makes the record ids of the scanned part its positions).
`StepInv` says what holds between two system calls: an append in progress has an
input, a header is written only below the last index, and during `write_all` the
last chunk of the current file is the torn one that is about to become the record. Both properties are conditioned on
the file framing, because a failed write leaves a torn chunk for good;
without the condition they are false. `ScanStops` shows that the scan's stopping point exists (the CHOOSE
in `ScanStop` is well defined) and `IntactPrefix` that what it accepts is a chained
prefix; `ScannedState` and `HeaderState` show that recovery and a new header
establish the agreement; `ChainsRecord` and `AppendFramedKeeps` that an append
keeps both; `PowerLossKeeps` that a prefix of a chain with unusable bytes behind
it is a chain. There is one lemma per action with a body and `NextIInv` combines
them.

The second part of `AuditWriterProofs` starts with what each step does to the files (`...Effect`) and the list of
the steps that do anything (`NextCases`), and adds to `IInv`:

- `PlaceInv`: a file is empty unless it is listed and not behind the current segment. It is
  what keeps `create_next` and `OpenFresh` from truncating records.
- `FinalInv`: a segment that takes records has no finalize record.
- `BoundInv`: the writer's own count leaves room for the finalize record (`RoomInv`), and a
  record in progress has passed the check of append, which looks at an estimate.
- `AckInv`: what was acknowledged is whole, at the front of its file, and while a
  writer is open all of the current file but a frame in flight. A whole prefix of a chained file is kept by
  any scan (`WholeKept`), so recovery keeps it.
- `FlushInv`, `DurableInv`: only the last segment with a header has unsynced bytes, and
  flush answers for nothing else. It is here that the excluded failures bite.
- `LinkInv`: directory entries have no gap, on disk and on stable storage, and each segment continues a finalized one.
- `ToldInv`: an open writer has acknowledged exactly what a recovery would find. It turns
  the history variables into the state of `AuditLog`: `ImplementsNext` shows that each step but a power
  loss is an append, a flush or a stutter of `AuditLog`, `ImplementsPower` that a power loss
  leaves a front part with everything flushed.

`LiveReaderProofs`. `OrderInv` adds the reader's offset to the order of what was yielded;
`StableInv` says that the reader has not passed what a recovery scan would accept. It needs
that any step of the writer keeps that part (`WriterKeeps`) and that a whole chunk behind it
belongs to it (`IntactMore`), which is the chain property again.

`LogVerifierProofs`. `FileInv` (a header stands at the front of a file or nowhere) is kept by the writer and
by every outside change, a log signed anew included (`EditKeeps`). `CheckInv` says what a walk from the genesis has
followed while it has nothing to report: `prev`, `prior_segment_final` and the reported HMAC are
the chain over exactly the accepted records, and the checkpoint was passed only where its HMAC
is a prefix of that chain. Nothing is assumed of the files, so the theorem covers any number of
outside changes. `OffsetInv` is the reader's argument for a verifier: until the first outside change it
is not past what recovery keeps.

`AcceptedCorrect` rests on a way to count. The HMAC of a record is named by the data
it commits to, so its length is the record's number in the whole log: in files laid out
by a writer (`Laid`, from `LogInv`) record `n` of a segment has the number `StartLen` plus
`n`, and `History` lists at each number the record that has it (`Numbers`). A walk that compares
HMACs can therefore not skip, repeat or exchange a record, in whatever order outside changes have
left the chunks: `Traced` says that the accepted records carry successive numbers of the
reference files, and `TraceInv` that `prev` or `prior_segment_final` is the chain at the
last of them. An outside change without the key leaves only chunks of the reference
files or chunks that fail (`Stems`), which is all the argument asks of it.

`NoFalseAlarmCorrect` follows a verifier beside a live writer. `CalmInv` is a conjunction:

- `TopInv`: every listed file but the last has a header and whole records to its end.
- `ReadInv`: what the verifier read last is a header or a record of the file, which no step of the
  writer changes (`StandsKept`), and `prev` is its HMAC.
- `LineInv`: while nothing failed, the segments to come are those behind the current one, and at a
  boundary `prior_segment_final` is that of the last record of the segment before.
- `ClockInv`: while nothing failed, the remembered time stamp is that of the last accepted record
  that a caller appended.
- `PinInv`, `MeetInv`: the place that a saved checkpoint names has a record, in a listed segment,
  and a walk that has passed the place has marked it.
- `ExcuseInv`: each violation reported so far has its excuse, and the excuse stands while
  the writer goes on (`Excused`).

`TrustProofs`. The keys and entries are computed by recursive functions, and the claims about them
are inductions: `RootedEntry` (a path of sound links from a pin leads to each entry) is kept by each
level of `extend`. `OrderFree` compares two runs of `extend` on different
listings of one set. The lists themselves differ; what `Alike` asks is that a key has the same entries
in both and the same first entry for each principal, and that is all that `extend` hands on
(`HandedTo`). A key with two different transitions is either not followed or followed to
listed successors only, so the order of its transitions does not matter; the source of a
revocation is that of its first copy, and the operator's come first.

`NatLemmas`. The library's induction theorems take the claim as an operator, which these back ends
cannot instantiate. Here a claim is the set of naturals that satisfy it (`SetInduction`, from `LeastNat`), and
`Recursion` derives from it that a function defined by recursion over `0..N` exists and follows its
equations; `RecursionKeeps` that it stays in a set its steps stay in.

`SignedLogProofs`, the writer. `SignedInv` is the same pair of chain and agreement; `FilesOK` adds what
the scan of the signed format decides on (the header's log and key, the signature). `SealInv`
follows `seal` through its write, sync and directory sync: what it answers Ok for is a synced segment
that ends in `log.sealed`, and no later open accepts it for appending.

`SignedLogProofs`, the verifier. Below it lies what holds of the log across its segments:
`OneLog` (each segment but the last is whole and the header of the next continues it, through kills,
torn tails and refused opens) and `ChainInv` (every record in the files is one `chain`
commits to, the places along `chain` ascend, and the last whole chunk is its end). `chain` only grows
(`NextLogInv`). An outside change turns such files into files of which only this is left: a record signed with the chain's
key is still one the chain commits to (`Vouches`, `EditableVouched`), because every change either keeps the
signature with what it covers, or cannot make one. `Between` is the invariant of the walk, from segment to
segment. As long as there is no violation, the last record taken
is on the chain if the log names the chain's key or is untouched (`SoundLast`), its place is before the place
where the walk stands, a saved head that was seen is behind it (`SoundSeen`), the walk trusts only the pinned signer
(`SoundTrust`), and a retired key's records end at its head (`SoundEnd`). `WalkSegmentBetween` carries that through
`segment` with `Recursion` of `NatLemmas`, `VerifyEndWalk` through the checks behind the loop. Two
records on the chain are in the order of their places (`PlacesOfHashes`), which makes the saved head a
prefix of the verified log; `SealEnds` says that `log.sealed` is on the chain only at its end.

`ReleaseProofs`. `ReleaseInv` ties every signature under the signer's name to what the signer
signed, each attested head to a prefix of the log and every copied record to the log; `BuiltInv` says what a build in a folder nobody
else changes knows of the folder at each of its steps: the copy runs up to the head and
no further.

`KeyStoreProofs`. `KeyInv` adds to `NoSeedLost` that whoever is between get and set holds the lock, and
that a key in hand is the stored one or was deleted. `PubInv` is about the shared temporary
file: while it exists it holds the stored key or somebody is about to write it, and whoever finds it renamed
already finds the file current. `FreeInode` needs the finite number of processes.

### Only model-checked

- `Reopens`, `CatchesUp`, `CallsReturn`: the back ends do not handle fairness.
- `VerifiedIsComplete` and `NoFalseTampering`. The first counts the records of a hash and
  compares the walk with a second reading of files that went on changing; the second needs, for
  each of the writer's states, that no check of `segment` fires, where the theorems above need only what follows
  when none did. `NoFalseAlarm`, the same promise of the HMAC verifier, is proved.
- The two findings, which are violations.

## Not modelled, and why

- Byte layout, CRC32 and CBOR: a chunk is whole, torn or failing, which is all that
  the control flow asks. MACs and fingerprints are external primitives.
- Timestamps in the writer (the wall clock is an attribute of the input, and only
  the verifier looks at it); a finalize record is stamped just behind its
  predecessor.
- `Reader::seek`, one-shot listing, reports' counters and rendering, argument
  parsing, PDF and JSON output.
- Two writers in one directory: the documents exclude it, and what two handles on one
  file do to each other depends on the platform's append mode.
- The reader at the last segment index: `segment_index + 1` overflows there, and what
  happens depends on the build profile. The model's reader stops before it.
- More than one checkpoint file, more than one saved head, and more than one outside
  change per behaviour.
- Parsing and rendering: canonical CBOR, statements, attestations and allowed-signers
  files, the canonical JSON, SSHSIG, reports as text, JSON and PDF, near-miss file names.
  They compute a value from bytes and keep no state; the models take a document as
  well formed or not.
- Witness files, the parts of large files and several logs in one release; the key
  revocation list export. Each repeats a control flow that is modelled for the case kept.
- Signatures, hashes and MACs: external primitives, assumed free of collisions.
- Policy attestation (a payload), the KMS handle (a blocking call for each signature, or one unwrap
  kept in a `OnceLock`), the Python bindings (a layer
  over core behind the interpreter's lock) and the argument parsing of the command
  line tool: no state of their own that steps of two actors could disturb.
- The HMAC backend of the keychain: its `load_or_generate` is an unlocked get and set, and
  its own documentation names the race; there is no promise left to check.

## Plan

Done: the writers with their failures, the reader and both verifiers beside them,
trust, releases and the key store, with the runs above; the theorems above.

Left:

1. `SignedVerify`: `NoFalseTampering` from `OneLog` along `CalmInv` of `LogVerifierProofs`, and
   `VerifiedIsComplete`.
2. `SignedWriter`: the survival of flushed records (`SignedFlushSurvives`) along `DurableInv`.
